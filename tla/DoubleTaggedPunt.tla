--------------------------- MODULE DoubleTaggedPunt ---------------------------
(***************************************************************************)
(* The double-tagged punt and inject nodes of src/vnet/ethernet/punt.go.   *)
(*                                                                         *)
(* Punt: a frame DST SRC 0x8100 TAG0 0x8100 TAG1 TYPE ... arrives from the *)
(* switch; the eight bytes after the addresses are read as one host        *)
(* uint64, the tags give a disposition index into a pool, the tags are     *)
(* removed by moving the addresses up eight bytes, and the frame goes to   *)
(* the disposition's next node, advanced by its data_advance.  Inject: the *)
(* reverse, with the tags of the frame's software interface.               *)
(*                                                                         *)
(* Memory is a sequence of 16-bit words, each the value of its two bytes   *)
(* in wire order, so byte offsets are even and every access of the code   *)
(* (a 12-byte header, an 8-byte uint64) is a run of words.  A uint64 is    *)
(* its four 16-bit lanes, lane 0 least significant: every shift and mask   *)
(* of the code moves whole lanes, and the lanes of a load depend on the    *)
(* host byte order, the constant BigEndian.  Frames are records [buf,      *)
(* start, si]: the buffer, the word where the data starts, the interface. *)
(* The pool (elib) and the named-next registry (vnet) are outside this     *)
(* repository and are modelled by what AddDisposition and DelDisposition   *)
(* need of them: GetIndex reuses a freed index or appends, PutIndex frees  *)
(* an index, Len is the number of slots ever made, AddNamedNext returns    *)
(* the index of a name, adding it when new.                                *)
(***************************************************************************)
EXTENDS Naturals, FiniteSets, Sequences, Functions, Bitwise

CONSTANTS
  BigEndian,     \* vnet.HostIsNetworkByteOrder()
  NextNames,     \* next node names given to AddDisposition
  Opaques,       \* vnet.RefOpaque values given to AddDisposition
  NoOpaque,      \* vnet.RefOpaque{}
  Advances,      \* data_advance values, in bytes
  TagPairs,      \* [2]VlanTag values given to the inject node's AddDisposition
  Sis,           \* software interface indices
  WireFrames,    \* frames the punt node may be given
  LocalFrames,   \* frames the inject node may be given
  MaxVector,     \* most frames in one NodeInput vector
  MaxPuntAdds,   \* bound on the punt node's AddDisposition calls
  MaxInjectAdds  \* bound on the inject node's AddDisposition calls

ASSUME \A a \in Advances : a % 2 = 0

TYPE_VLAN == 33024            \* 0x8100
sizeof_header_no_type == 12
sizeof_double_tag == 8
punt_2tag_next_punt == 0
punt_2tag_next_error == 1
inject_2tag_next_error == 0

VARIABLES
  nexts,         \* the punt node's next names: index -> name
  dispositions,  \* the punt pool's slots: index -> [o, next, data_advance]
  free,          \* the pool's freed indices
  inexts,        \* the inject node's next names
  disposition_by_si, \* the inject node's vector: si -> [next, tags]
  last,          \* the last NodeInput since a disposition changed
  puntAdds, injectAdds

vars == <<nexts, dispositions, free, inexts, disposition_by_si, last,
          puntAdds, injectAdds>>

NoVector == [node |-> "none"]

-----------------------------------------------------------------------------
(* Memory and host integers.                                               *)

Swap16(x) == (x % 256) * 256 + x \div 256

(* The 16-bit words at byte offset off of the data, and the same words    *)
(* stored back.                                                            *)
Words(f, off, n) == [k \in 1..n |-> f.buf[f.start + off \div 2 + k]]
SetWords(f, off, w) ==
  LET at == f.start + off \div 2
  IN  [f EXCEPT !.buf = [k \in DOMAIN f.buf |->
                           IF k - at \in 1..Len(w) THEN w[k - at] ELSE f.buf[k]]]
Rest(f, off) == SubSeq(f.buf, f.start + off \div 2 + 1, Len(f.buf))

(* r.Advance(n): the data starts n bytes later.                            *)
Advance(f, n) == [f EXCEPT !.start = @ + n \div 2]

(* A vnet.Uint64 read from and written to four words, as four lanes.     *)
Load64(w) == [j \in 0..3 |-> IF BigEndian THEN w[4 - j] ELSE Swap16(w[j + 1])]
Store64(p) == [k \in 1..4 |-> IF BigEndian THEN p[4 - k] ELSE Swap16(p[k - 1])]

(* vnet.Uint64(hi)<<48 | vnet.Uint64(lo)<<16, and .FromHost().            *)
Shifted48And16(hi, lo) == [j \in 0..3 |-> IF j = 3 THEN hi ELSE IF j = 1 THEN lo ELSE 0]
FromHost(p) == IF BigEndian THEN p ELSE [j \in 0..3 |-> Swap16(p[3 - j])]

(* Lane-wise &, | and &^ (the masks' lanes are 0 or 0xffff).             *)
LaneAnd(a, b) == IF b = 65535 THEN a ELSE IF b = 0 \/ a = 0 THEN 0 ELSE a & b
LaneOr(a, b) == IF a = 0 THEN b ELSE IF b = 0 THEN a ELSE a | b
And64(p, q) == [j \in 0..3 |-> LaneAnd(p[j], q[j])]
Or64(p, q) == [j \in 0..3 |-> LaneOr(p[j], q[j])]
AndNot64(p, q) == [j \in 0..3 |-> p[j] - LaneAnd(p[j], q[j])]
ShiftRight64(p, lanes) == [j \in 0..3 |-> IF j + lanes <= 3 THEN p[j + lanes] ELSE 0]

(* A uint32 as its two lanes; below(di, n) is di < uint32(n).             *)
Below(di, n) == di.hi = 0 /\ di.lo < n

(* vnet AddNamedNext: the index of a next name, added when new.           *)
NextIndex(names, x) ==
  IF x \in Range(names) THEN CHOOSE k \in DOMAIN names : names[k] = x
  ELSE Cardinality(DOMAIN names)
AddNamedNext(names, x) ==
  IF x \in Range(names) THEN names
  ELSE [k \in DOMAIN names \cup {Cardinality(DOMAIN names)} |->
          IF k \in DOMAIN names THEN names[k] ELSE x]
PoolLen == Cardinality(DOMAIN dispositions)

-----------------------------------------------------------------------------
(* The punt node.                                                          *)

TagMask == FromHost(Shifted48And16(65535, 65535))
TagPattern == FromHost(Shifted48And16(TYPE_VLAN, TYPE_VLAN))

(* Mutant of PuntIndex: the network-order shift (p0 >> 16) taken on     *)
(* every host.                                                             *)
PuntIndexShiftBy16(p0) ==
  LET o0 == Or64(AndNot64(p0, TagMask), ShiftRight64(p0, 1))
  IN  [lo |-> o0[0], hi |-> o0[1]]

(* Lines 69-76: the tag bits cleared, the lane of TAG1 shifted into the  *)
(* low lane, and the low 32 bits taken.                                    *)
PuntIndex(p0) ==
  LET o0 == Or64(AndNot64(p0, TagMask),
                 ShiftRight64(p0, IF BigEndian THEN 1 ELSE 3))
  IN  [lo |-> o0[0], hi |-> o0[1]]

(* Lines 94-97: the addresses moved up over the tags, then the advance.   *)
Untag(r0, data_advance) ==
  Advance(SetWords(r0, sizeof_double_tag, Words(r0, 0, 6)),
          sizeof_double_tag + data_advance)

(* Lines 59-83: classify the frame and look its disposition up.  An index *)
(* past the pool is reported unknown whatever the tags were, and slot 0 is *)
(* used.                                                                    *)
Lookup(r0) ==
  LET p0     == Load64(Words(r0, sizeof_header_no_type, 4))
      di0    == PuntIndex(p0)
      known  == Below(di0, PoolLen)
  IN  [err |-> IF ~known THEN "unknown_disposition"
               ELSE IF And64(p0, TagMask) # TagPattern THEN "not_double_tagged"
               ELSE "none",
       d   |-> dispositions[IF known THEN di0.lo ELSE 0]]

(* punt_x1: the frame takes its disposition's opaque, error and next, and *)
(* is untagged and advanced.                                               *)
punt_x1(r0) ==
  LET l == Lookup(r0)
  IN  [frame |-> Untag(r0, l.d.data_advance), err |-> l.err, o |-> l.d.o,
       next  |-> IF l.err = "none" THEN l.d.next ELSE punt_2tag_next_error]

(* punt_x2: punt_x1 on each frame, except that line 158 advances r1 by    *)
(* d0.data_advance, the first frame's disposition's advance.               *)
punt_x2(r0, r1) ==
  LET x1 == punt_x1(r1)
  IN  <<punt_x1(r0), [x1 EXCEPT !.frame = Untag(r1, Lookup(r0).d.data_advance)]>>

(* The NodeInput loop: frame k of n goes through x2 with its partner      *)
(* while two are left, and alone through x1 (partner 0) after.             *)
Partner(n, k) == IF k > n - (n % 2) THEN 0 ELSE IF k % 2 = 1 THEN k + 1 ELSE k - 1

Vectors(S) == UNION {[1..n -> S] : n \in 1..MaxVector}

PuntNodeInput ==
  /\ \E v \in Vectors(WireFrames) :
       LET x(k) == LET j == Partner(Len(v), k)
                   IN  IF j = 0 THEN punt_x1(v[k])
                       ELSE IF j > k THEN punt_x2(v[k], v[j])[1] ELSE punt_x2(v[j], v[k])[2]
       IN  last' = [node |-> "punt", in |-> v, out |-> [k \in DOMAIN v |-> x(k)]]
  /\ UNCHANGED <<nexts, dispositions, free, inexts, disposition_by_si,
                 puntAdds, injectAdds>>

(* Mutant of AddDisposition: the next's index is taken, but the name is  *)
(* never added to the node's nexts.                                        *)
AddDispositionSkipsNamedNext ==
  /\ puntAdds < MaxPuntAdds
  /\ \E next \in NextNames, o \in Opaques, data_advance \in Advances,
        i \in IF free = {} THEN {PoolLen} ELSE free :
       /\ dispositions' = [k \in DOMAIN dispositions \cup {i} |->
                             IF k = i THEN [o |-> o, next |-> NextIndex(nexts, next),
                                            data_advance |-> data_advance]
                             ELSE dispositions[k]]
       /\ free' = free \ {i}
  /\ puntAdds' = puntAdds + 1
  /\ last' = NoVector
  /\ UNCHANGED <<nexts, inexts, disposition_by_si, injectAdds>>

(* AddDisposition: a slot from the pool, filled in.                        *)
AddDisposition ==
  /\ puntAdds < MaxPuntAdds
  /\ \E next \in NextNames, o \in Opaques, data_advance \in Advances,
        i \in IF free = {} THEN {PoolLen} ELSE free :
       /\ dispositions' = [k \in DOMAIN dispositions \cup {i} |->
                             IF k = i THEN [o |-> o, next |-> NextIndex(nexts, next),
                                            data_advance |-> data_advance]
                             ELSE dispositions[k]]
       /\ nexts' = AddNamedNext(nexts, next)
       /\ free' = free \ {i}
  /\ puntAdds' = puntAdds + 1
  /\ last' = NoVector
  /\ UNCHANGED <<inexts, disposition_by_si, injectAdds>>

(* DelDisposition(i): the index goes back to the pool; the slot's data    *)
(* stays, and Len does not shrink.                                         *)
DelDisposition ==
  /\ \E i \in DOMAIN dispositions \ free : free' = free \cup {i}
  /\ last' = NoVector
  /\ UNCHANGED <<nexts, dispositions, inexts, disposition_by_si,
                 puntAdds, injectAdds>>

(* Init: the next names, then the default disposition 0.                   *)
PuntInit ==
  /\ nexts = [k \in {punt_2tag_next_punt, punt_2tag_next_error} |->
                IF k = punt_2tag_next_punt THEN "punt" ELSE "error"]
  /\ dispositions = [k \in {0} |-> [o |-> NoOpaque, next |-> punt_2tag_next_punt,
                                     data_advance |-> 0]]
  /\ free = {}

-----------------------------------------------------------------------------
(* The inject node.                                                        *)

(* Mutant of InjectWord: the network-order placement used on every host. *)
InjectWordNetworkOrder(tags) ==
  Or64(FromHost(Shifted48And16(TYPE_VLAN, TYPE_VLAN)),
       [j \in 0..3 |-> CASE j = 0 -> tags[0] [] j = 2 -> tags[1] [] OTHER -> 0])

(* Lines 228-233: the tags placed after each 0x8100.                       *)
InjectWord(tags) ==
  Or64(FromHost(Shifted48And16(TYPE_VLAN, TYPE_VLAN)),
       [j \in 0..3 |->
          IF BigEndian THEN (CASE j = 0 -> tags[0] [] j = 2 -> tags[1] [] OTHER -> 0)
          ELSE (CASE j = 1 -> tags[0] [] j = 3 -> tags[1] [] OTHER -> 0)])

(* inject_x1: the header saved, the data moved eight bytes down, the tag  *)
(* word written after where the header goes, then the header.             *)
inject_x1(r0) ==
  LET d0 == disposition_by_si[r0.si]
      h0 == Words(r0, 0, 6)
      r  == Advance(r0, -sizeof_double_tag)
  IN  [frame |-> SetWords(SetWords(r, sizeof_header_no_type, Store64(InjectWord(d0.tags))),
                          0, h0),
       next  |-> d0.next]

(* inject_x2 does the same to each of two frames.                          *)
inject_x2(r0, r1) == <<inject_x1(r0), inject_x1(r1)>>

(* A frame reaches the inject node from an interface its add hook saw.     *)
InjectNodeInput ==
  /\ \E v \in Vectors({f \in LocalFrames : f.si \in DOMAIN disposition_by_si}) :
       LET x(k) == LET j == Partner(Len(v), k)
                   IN  IF j = 0 THEN inject_x1(v[k])
                       ELSE IF j > k THEN inject_x2(v[k], v[j])[1] ELSE inject_x2(v[j], v[k])[2]
       IN  last' = [node |-> "inject", in |-> v, out |-> [k \in DOMAIN v |-> x(k)]]
  /\ UNCHANGED <<nexts, dispositions, free, inexts, disposition_by_si,
                 puntAdds, injectAdds>>

(* AddDisposition(next, si, tags): si's slot must exist (the hook made    *)
(* it), else the index panics.                                             *)
InjectAddDisposition ==
  /\ injectAdds < MaxInjectAdds
  /\ \E next \in NextNames, si \in DOMAIN disposition_by_si, tags \in TagPairs :
       /\ disposition_by_si' = [disposition_by_si EXCEPT
                                  ![si] = [next |-> NextIndex(inexts, next), tags |-> tags]]
       /\ inexts' = AddNamedNext(inexts, next)
  /\ injectAdds' = injectAdds + 1
  /\ last' = NoVector
  /\ UNCHANGED <<nexts, dispositions, free, puntAdds>>

(* sw_if_add_del, on every interface added or deleted: ValidateInit grows *)
(* the vector to cover si with zero dispositions; an existing slot is     *)
(* left as it is.                                                          *)
sw_if_add_del ==
  /\ \E si \in Sis, isUp \in BOOLEAN :
       LET zero == [next |-> inject_2tag_next_error, tags |-> [j \in 0..1 |-> 0]]
       IN  disposition_by_si' =
             [k \in DOMAIN disposition_by_si \cup 0..si |->
                IF k \in DOMAIN disposition_by_si THEN disposition_by_si[k] ELSE zero]
  /\ last' = NoVector
  /\ UNCHANGED <<nexts, dispositions, free, inexts, puntAdds, injectAdds>>

(* Init: the error next; the vector starts empty.                          *)
InjectInit ==
  /\ inexts = [k \in {inject_2tag_next_error} |-> "error"]
  /\ disposition_by_si = [k \in {} |-> 0]

(* DoubleTaggedPuntInjectNodes.Init: both nodes.                           *)
Init ==
  /\ PuntInit /\ InjectInit
  /\ last = NoVector /\ puntAdds = 0 /\ injectAdds = 0

Next ==
  \/ PuntNodeInput \/ AddDisposition \/ DelDisposition
  \/ InjectNodeInput \/ InjectAddDisposition \/ sw_if_add_del

Spec == Init /\ [][Next]_vars

-----------------------------------------------------------------------------
Errors == {"none", "not_double_tagged", "unknown_disposition"}

TypeOK ==
  /\ dispositions \in [DOMAIN dispositions ->
                         [o : Opaques \cup {NoOpaque}, next : DOMAIN nexts,
                          data_advance : Advances \cup {0}]]
  /\ DOMAIN dispositions = 0..PoolLen - 1 /\ free \subseteq DOMAIN dispositions
  /\ DOMAIN nexts = 0..Cardinality(DOMAIN nexts) - 1
  /\ \A si \in DOMAIN disposition_by_si :
       disposition_by_si[si].next \in DOMAIN inexts
  /\ last.node = "punt" =>
       \A k \in DOMAIN last.out : last.out[k].err \in Errors
                                  /\ last.out[k].next \in DOMAIN nexts

(* The VlanTag a 16-bit field of the frame holds: a native load of its    *)
(* two bytes.                                                              *)
VlanTagOf(w) == IF BigEndian THEN w ELSE Swap16(w)

(* What the tags of a frame mean (the comment at line 48: DST SRC 0x8100  *)
(* TAG0 0x8100 TAG1): double tagged when both type fields are 0x8100, the  *)
(* disposition index TAG1 with TAG0 as its high half.                      *)
IsDoubleTagged(f) ==
  LET w == Words(f, sizeof_header_no_type, 4) IN w[1] = TYPE_VLAN /\ w[3] = TYPE_VLAN
TagIndex(f) ==
  LET w == Words(f, sizeof_header_no_type, 4) IN [lo |-> VlanTagOf(w[4]), hi |-> VlanTagOf(w[2])]

(* Every frame the punt node handles, alone or in a pair, is sent to the  *)
(* next node and with the opaque of the disposition its tags name exactly *)
(* when it is double tagged and names a slot of the pool, and to the      *)
(* error next otherwise.                                                   *)
PuntDispatchesByTags ==
  last.node = "punt" =>
    \A k \in DOMAIN last.out :
      LET f == last.in[k]
          ok == IsDoubleTagged(f) /\ Below(TagIndex(f), PoolLen)
      IN  /\ (last.out[k].err = "none") = ok
          /\ ok => /\ last.out[k].next = dispositions[TagIndex(f).lo].next
                   /\ last.out[k].o = dispositions[TagIndex(f).lo].o
          /\ ~ok => last.out[k].next = punt_2tag_next_error

(* Every frame the inject node sends out has its addresses in front,      *)
(* 0x8100 TAG0 0x8100 TAG1 after them with its interface's tags, the      *)
(* frame's own bytes after that, and goes to its interface's next: what   *)
(* the punt node reads back as that interface's index.                     *)
InjectTagsDecodable ==
  last.node = "inject" =>
    \A k \in DOMAIN last.out :
      LET f == last.in[k]
          g == last.out[k].frame
          d == disposition_by_si[f.si]
      IN  /\ Words(g, 0, 6) = Words(f, 0, 6)
          /\ IsDoubleTagged(g)
          /\ TagIndex(g) = [lo |-> d.tags[1], hi |-> d.tags[0]]
          /\ Rest(g, sizeof_header_no_type + sizeof_double_tag) = Rest(f, sizeof_header_no_type)
          /\ last.out[k].next = d.next

(* Every frame the punt node forwards starts with its addresses followed  *)
(* by what followed its tags, advanced by the data_advance of its own      *)
(* disposition.                                                            *)
PuntStripsDoubleTag ==
  last.node = "punt" =>
    \A k \in DOMAIN last.out :
      LET f == last.in[k]
      IN  last.out[k].err = "none" =>
            Rest(last.out[k].frame, 0) =
              LET u == Words(f, 0, 6) \o Rest(f, sizeof_header_no_type + sizeof_double_tag)
                  a == dispositions[TagIndex(f).lo].data_advance \div 2
              IN  SubSeq(u, a + 1, Len(u))

=============================================================================

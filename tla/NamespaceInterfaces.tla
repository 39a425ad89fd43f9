------------------------- MODULE NamespaceInterfaces -------------------------
(***************************************************************************)
(* The per-namespace interface tables of src/vnet/unix/net_namespace.go:  *)
(* add_del_interface applied to the link messages one namespace's socket  *)
(* delivers, in order.                                                     *)
(*                                                                         *)
(* The kernel is the environment.  Each namespace has its table of links  *)
(* (ifindex -> name).  Its initial RTM_GETLINK dump walks that live table *)
(* in index order, one entry per step, while link changes made meanwhile  *)
(* are multicast on the same socket: dump entries and events reach the   *)
(* handler interleaved, in the order the kernel produced them.            *)
(*                                                                         *)
(* Dataplane tuntap interfaces (tuntap_interface_by_name, filled by code  *)
(* outside src/) are a fixed map from interface name to Taps.             *)
(***************************************************************************)
EXTENDS Naturals, Sequences, FiniteSets

CONSTANTS
  NS,              \* namespaces
  Ifindex,         \* kernel interface indices
  IfNames,         \* interface names
  Taps,            \* dataplane tuntap interfaces
  TapByName,       \* m.tuntap_interface_by_name: IfNames -> Taps \cup {NoTap}
  TapByIfindex,    \* ns.tuntap_interface_by_ifindex: NS \X Ifindex -> Taps \cup {NoTap}
  NoTap,
  InitialLinks,    \* the kernel's links at startup: NS -> [Ifindex -> IfNames \cup {NoLink}]
  NoLink,
  MaxLinkChanges   \* bound on kernel link changes in a behaviour

Intfs == NS \X Ifindex   \* a net_namespace_interface is identified by where it was created
NoIntf == <<"none", 0>>
Ended == 0               \* the cursor of a dump that has ended
LinkMsg == [type : {"RTM_NEWLINK", "RTM_DELLINK"}, index : Ifindex, name : IfNames]

VARIABLES
  kif,         \* the kernel's links: NS -> [Ifindex -> IfNames \cup {NoLink}]
  cursor,      \* next index of each namespace's initial dump, or Ended
  rx,          \* link messages on each namespace's socket, oldest first
  byIndex,     \* ns.interface_by_index: NS -> [Ifindex -> Intfs \cup {NoIntf}]
  byName,      \* ns.interface_by_name: NS -> [IfNames -> Intfs \cup {NoIntf}]
  intfName,    \* intf.name of each interface object
  tapNs,       \* tif.namespace
  tapName,     \* the vnet name set by tif.set_name
  siByIfindex, \* ns.si_by_ifindex: NS -> [Ifindex -> Taps \cup {NoTap}] (a tap's si)
  intfBySi,    \* m.interface_by_si: Taps -> Intfs \cup {NoIntf}
  moves,       \* tif.add_del_namespace notifications: <<tap, ns, is_del>>
  panicked,    \* nil dereference in the handler
  changes      \* kernel link changes so far

vars == <<kif, cursor, rx, byIndex, byName, intfName, tapNs, tapName,
          siByIfindex, intfBySi, moves, panicked, changes>>

kernel == <<kif, cursor, changes>>
tables == <<byIndex, byName, intfName, tapNs, tapName, siByIfindex,
            intfBySi, moves>>

Names(ns) == {kif[ns][i] : i \in Ifindex} \ {NoLink}
Link(t, i, n) == [type |-> t, index |-> i, name |-> n]

-----------------------------------------------------------------------------
(* The kernel.                                                              *)

(* The dump reports the next live link at or after its cursor, with its   *)
(* current name; past the last one it ends.                               *)
KernelDump(ns) ==
  /\ ~panicked
  /\ cursor[ns] # Ended
  /\ LET live == {i \in Ifindex : i >= cursor[ns] /\ kif[ns][i] # NoLink} IN
     IF live = {}
       THEN cursor' = [cursor EXCEPT ![ns] = Ended] /\ UNCHANGED rx
       ELSE LET i == CHOOSE j \in live : \A k \in live : j <= k IN
            /\ cursor' = [cursor EXCEPT ![ns] = i + 1]
            /\ rx' = [rx EXCEPT ![ns] = Append(@, Link("RTM_NEWLINK", i, kif[ns][i]))]
  /\ UNCHANGED <<kif, changes, tables, panicked>>

Change == changes < MaxLinkChanges /\ changes' = changes + 1

(* ip link add.                                                             *)
LinkAdd(ns, i, n) ==
  /\ ~panicked /\ Change
  /\ kif[ns][i] = NoLink /\ n \notin Names(ns)
  /\ kif' = [kif EXCEPT ![ns][i] = n]
  /\ rx' = [rx EXCEPT ![ns] = Append(@, Link("RTM_NEWLINK", i, n))]
  /\ UNCHANGED <<cursor, tables, panicked>>

(* ip link set name: same index, new name.                                 *)
LinkRename(ns, i, n) ==
  /\ ~panicked /\ Change
  /\ kif[ns][i] \notin {NoLink, n} /\ n \notin Names(ns)
  /\ kif' = [kif EXCEPT ![ns][i] = n]
  /\ rx' = [rx EXCEPT ![ns] = Append(@, Link("RTM_NEWLINK", i, n))]
  /\ UNCHANGED <<cursor, tables, panicked>>

(* ip link del.                                                             *)
LinkDel(ns, i) ==
  /\ ~panicked /\ Change
  /\ kif[ns][i] # NoLink
  /\ kif' = [kif EXCEPT ![ns][i] = NoLink]
  /\ rx' = [rx EXCEPT ![ns] = Append(@, Link("RTM_DELLINK", i, kif[ns][i]))]
  /\ UNCHANGED <<cursor, tables, panicked>>

(* ip link set netns: a DELLINK in the old namespace, a NEWLINK under a   *)
(* free index in the new one.                                               *)
LinkMove(ns, i, to, j) ==
  /\ ~panicked /\ Change
  /\ ns # to
  /\ kif[ns][i] # NoLink /\ kif[to][j] = NoLink /\ kif[ns][i] \notin Names(to)
  /\ kif' = [kif EXCEPT ![ns][i] = NoLink, ![to][j] = kif[ns][i]]
  /\ rx' = [rx EXCEPT ![ns] = Append(@, Link("RTM_DELLINK", i, kif[ns][i])),
                      ![to] = Append(@, Link("RTM_NEWLINK", j, kif[ns][i]))]
  /\ UNCHANGED <<cursor, tables, panicked>>

-----------------------------------------------------------------------------
(* Mutant of NewLink: the move is reported with the tuntap's old        *)
(* namespace in place of the new one.                                     *)
NewLinkMovedFromOld(ns, index, name) ==
  LET known   == byIndex[ns][index] # NoIntf
      intf    == IF known THEN byIndex[ns][index] ELSE <<ns, index>>
      renamed == known /\ intfName[intf] # name
      tif     == TapByName[name]
  IN
  /\ byIndex' = [byIndex EXCEPT ![ns][index] = intf]
  /\ byName' = IF ~known \/ renamed THEN [byName EXCEPT ![ns][name] = intf]
                                     ELSE byName
  /\ intfName' = [intfName EXCEPT ![intf] = name]
  /\ IF renamed
       THEN /\ tapName' = IF TapByIfindex[ns, index] # NoTap
                            THEN [tapName EXCEPT ![TapByIfindex[ns, index]] = name]
                            ELSE tapName
            /\ UNCHANGED <<tapNs, siByIfindex, intfBySi, moves>>
       ELSE /\ IF tif # NoTap
                 THEN /\ siByIfindex' = [siByIfindex EXCEPT ![ns][index] = tif]
                      /\ intfBySi' = [intfBySi EXCEPT ![tif] = intf]
                      /\ tapNs' = [tapNs EXCEPT ![tif] = ns]
                      /\ moves' = IF tapNs[tif] # ns
                                    THEN Append(moves, <<tif, tapNs[tif], FALSE>>)
                                    ELSE moves
                 ELSE UNCHANGED <<siByIfindex, intfBySi, tapNs, moves>>
            /\ UNCHANGED tapName

(* Mutant of NewLink: a rename leaves intf.name as it was.                *)
NewLinkKeepsOldName(ns, index, name) ==
  LET known   == byIndex[ns][index] # NoIntf
      intf    == IF known THEN byIndex[ns][index] ELSE <<ns, index>>
      renamed == known /\ intfName[intf] # name
      tif     == TapByName[name]
  IN
  /\ byIndex' = [byIndex EXCEPT ![ns][index] = intf]
  /\ byName' = IF ~known \/ renamed THEN [byName EXCEPT ![ns][name] = intf]
                                     ELSE byName
  /\ intfName' = IF known THEN intfName ELSE [intfName EXCEPT ![intf] = name]
  /\ IF renamed
       THEN /\ tapName' = IF TapByIfindex[ns, index] # NoTap
                            THEN [tapName EXCEPT ![TapByIfindex[ns, index]] = name]
                            ELSE tapName
            /\ UNCHANGED <<tapNs, siByIfindex, intfBySi, moves>>
       ELSE /\ IF tif # NoTap
                 THEN /\ siByIfindex' = [siByIfindex EXCEPT ![ns][index] = tif]
                      /\ intfBySi' = [intfBySi EXCEPT ![tif] = intf]
                      /\ tapNs' = [tapNs EXCEPT ![tif] = ns]
                      /\ moves' = IF tapNs[tif] # ns
                                    THEN Append(moves, <<tif, ns, FALSE>>)
                                    ELSE moves
                 ELSE UNCHANGED <<siByIfindex, intfBySi, tapNs, moves>>
            /\ UNCHANGED tapName

(* Mutant of NewLink: a new interface is not entered in interface_by_name.*)
NewLinkNoNameKey(ns, index, name) ==
  LET known   == byIndex[ns][index] # NoIntf
      intf    == IF known THEN byIndex[ns][index] ELSE <<ns, index>>
      renamed == known /\ intfName[intf] # name
      tif     == TapByName[name]
  IN
  /\ byIndex' = [byIndex EXCEPT ![ns][index] = intf]
  /\ byName' = IF renamed THEN [byName EXCEPT ![ns][name] = intf]
                                     ELSE byName
  /\ intfName' = [intfName EXCEPT ![intf] = name]
  /\ IF renamed
       THEN /\ tapName' = IF TapByIfindex[ns, index] # NoTap
                            THEN [tapName EXCEPT ![TapByIfindex[ns, index]] = name]
                            ELSE tapName
            /\ UNCHANGED <<tapNs, siByIfindex, intfBySi, moves>>
       ELSE /\ IF tif # NoTap
                 THEN /\ siByIfindex' = [siByIfindex EXCEPT ![ns][index] = tif]
                      /\ intfBySi' = [intfBySi EXCEPT ![tif] = intf]
                      /\ tapNs' = [tapNs EXCEPT ![tif] = ns]
                      /\ moves' = IF tapNs[tif] # ns
                                    THEN Append(moves, <<tif, ns, FALSE>>)
                                    ELSE moves
                 ELSE UNCHANGED <<siByIfindex, intfBySi, tapNs, moves>>
            /\ UNCHANGED tapName

(* add_del_interface, RTM_NEWLINK.  An unknown index gets a new interface *)
(* entered in both maps.  A known index whose name differs is a rename:  *)
(* delete(ns.interface_by_name, name) removes the key of the NEW name, the *)
(* new key is set, and a tuntap bound to the index is renamed.  Otherwise *)
(* a tuntap of that name is bound: si_by_ifindex, interface_by_si, and a  *)
(* move notification if it belonged to another namespace.                 *)
NewLink(ns, index, name) ==
  LET known   == byIndex[ns][index] # NoIntf
      intf    == IF known THEN byIndex[ns][index] ELSE <<ns, index>>
      renamed == known /\ intfName[intf] # name
      tif     == TapByName[name]
  IN
  /\ byIndex' = [byIndex EXCEPT ![ns][index] = intf]
  /\ byName' = IF ~known \/ renamed THEN [byName EXCEPT ![ns][name] = intf]
                                     ELSE byName
  /\ intfName' = [intfName EXCEPT ![intf] = name]
  /\ IF renamed
       THEN /\ tapName' = IF TapByIfindex[ns, index] # NoTap
                            THEN [tapName EXCEPT ![TapByIfindex[ns, index]] = name]
                            ELSE tapName
            /\ UNCHANGED <<tapNs, siByIfindex, intfBySi, moves>>
       ELSE /\ IF tif # NoTap
                 THEN /\ siByIfindex' = [siByIfindex EXCEPT ![ns][index] = tif]
                      /\ intfBySi' = [intfBySi EXCEPT ![tif] = intf]
                      /\ tapNs' = [tapNs EXCEPT ![tif] = ns]
                      /\ moves' = IF tapNs[tif] # ns
                                    THEN Append(moves, <<tif, ns, FALSE>>)
                                    ELSE moves
                 ELSE UNCHANGED <<siByIfindex, intfBySi, tapNs, moves>>
            /\ UNCHANGED tapName

(* add_del_interface, RTM_DELLINK.  The interface of the index is looked  *)
(* up and its tuntap read: for an index never seen that is a nil          *)
(* dereference.  intf.tuntap is never assigned anywhere, so the branch    *)
(* that unbinds the tuntap never runs; both map entries are deleted, the  *)
(* name key by the message's name.                                         *)
DelLink(ns, index, name) ==
  \/ /\ byIndex[ns][index] = NoIntf
     /\ panicked' = TRUE
     /\ UNCHANGED tables
  \/ /\ byIndex[ns][index] # NoIntf
     /\ byIndex' = [byIndex EXCEPT ![ns][index] = NoIntf]
     /\ byName' = [byName EXCEPT ![ns][name] = NoIntf]
     /\ UNCHANGED <<intfName, tapNs, tapName, siByIfindex, intfBySi, moves,
                    panicked>>

(* The namespace's receive path hands the oldest link message to           *)
(* add_del_interface.                                                       *)
add_del_interface(ns) ==
  /\ ~panicked
  /\ rx[ns] # <<>>
  /\ rx' = [rx EXCEPT ![ns] = Tail(@)]
  /\ LET msg == Head(rx[ns]) IN
     \/ /\ msg.type = "RTM_NEWLINK"
        /\ NewLink(ns, msg.index, msg.name)
        /\ UNCHANGED panicked
     \/ /\ msg.type = "RTM_DELLINK"
        /\ DelLink(ns, msg.index, msg.name)
  /\ UNCHANGED kernel

-----------------------------------------------------------------------------
Init ==
  /\ kif = InitialLinks
  /\ cursor = [ns \in NS |-> 1]
  /\ rx = [ns \in NS |-> <<>>]
  /\ byIndex = [ns \in NS |-> [i \in Ifindex |-> NoIntf]]
  /\ byName = [ns \in NS |-> [n \in IfNames |-> NoIntf]]
  /\ intfName = [x \in Intfs |-> CHOOSE n \in IfNames : TRUE]
  /\ tapNs = [t \in Taps |-> NoTap]
  /\ tapName = [t \in Taps |-> CHOOSE n \in IfNames : TapByName[n] = t]
  /\ siByIfindex = [ns \in NS |-> [i \in Ifindex |-> NoTap]]
  /\ intfBySi = [t \in Taps |-> NoIntf]
  /\ moves = <<>>
  /\ panicked = FALSE
  /\ changes = 0

Next ==
  \/ \E ns \in NS : KernelDump(ns) \/ add_del_interface(ns)
  \/ \E ns \in NS, i \in Ifindex, n \in IfNames : LinkAdd(ns, i, n) \/ LinkRename(ns, i, n)
  \/ \E ns \in NS, i \in Ifindex : LinkDel(ns, i)
  \/ \E ns, to \in NS, i, j \in Ifindex : LinkMove(ns, i, to, j)

Spec == Init /\ [][Next]_vars

-----------------------------------------------------------------------------
(* Properties.                                                             *)

TypeOK ==
  /\ kif \in [NS -> [Ifindex -> IfNames \cup {NoLink}]]
  /\ cursor \in [NS -> 0..Cardinality(Ifindex) + 1]
  /\ rx \in [NS -> Seq(LinkMsg)]
  /\ byIndex \in [NS -> [Ifindex -> Intfs \cup {NoIntf}]]
  /\ byName \in [NS -> [IfNames -> Intfs \cup {NoIntf}]]
  /\ intfName \in [Intfs -> IfNames]
  /\ tapNs \in [Taps -> NS \cup {NoTap}] /\ tapName \in [Taps -> IfNames]
  /\ siByIfindex \in [NS -> [Ifindex -> Taps \cup {NoTap}]]
  /\ intfBySi \in [Taps -> Intfs \cup {NoIntf}]
  /\ moves \in Seq(Taps \X NS \X BOOLEAN)
  /\ panicked \in BOOLEAN

(* Once a namespace's dump has ended and its socket is drained, its       *)
(* interface_by_index holds exactly the kernel's links, each under the   *)
(* kernel's current name: dump entries, renames, deletes and moves        *)
(* interleaved in any order are replicated (add_del_interface).           *)
Synced(ns) == cursor[ns] = Ended /\ rx[ns] = <<>>

IndexTableMatchesKernel ==
  \A ns \in NS : Synced(ns) /\ ~panicked =>
    \A i \in Ifindex :
      IF kif[ns][i] = NoLink THEN byIndex[ns][i] = NoIntf
      ELSE byIndex[ns][i] # NoIntf /\ intfName[byIndex[ns][i]] = kif[ns][i]

(* Every interface in interface_by_index is found in interface_by_name    *)
(* under its current name (add_del_interface, the lookup of               *)
(* interface_by_name).                                                      *)
EveryInterfaceNamed ==
  \A ns \in NS, i \in Ifindex :
    byIndex[ns][i] # NoIntf => byName[ns][intfName[byIndex[ns][i]]] = byIndex[ns][i]

(* A link message for an index the handler has never seen never crashes   *)
(* add_del_interface.                                                       *)
NoNilDereference == ~panicked

=============================================================================

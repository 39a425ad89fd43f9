--------------------------- MODULE NetlinkSocket ---------------------------
(***************************************************************************)
(* One netlink socket of src/internal/netlink/socket.go and the dump      *)
(* protocol that runs over it.                                             *)
(*                                                                         *)
(*  - NewWithConfig opens the socket and starts the two pumps, or fails   *)
(*    and closes everything it made;                                       *)
(*  - gotx drains the bounded Tx channel, numbers each request from its   *)
(*    own uint32 counter and writes it; a failed write ends the pump;      *)
(*  - gorx reads datagrams, decodes every record of a datagram into a     *)
(*    message (an undecodable record becomes an error message, an unknown *)
(*    type is dropped) and pushes them one by one on the bounded Rx       *)
(*    channel; a failed read ends the pump and closes Rx;                  *)
(*  - Listen sends one dump request per ListenReq and drains Rx with      *)
(*    RxUntilDone until a Done or an Error, retrying up to 5 attempts;     *)
(*  - Close closes the descriptor.                                         *)
(*                                                                         *)
(* The kernel side is the environment: it answers a dump request with     *)
(* data records and one terminal (Done or Error), hands the dump out in   *)
(* datagrams only while the receive buffer is at most half full, answers  *)
(* a request that arrives while a dump runs with an EBUSY error, and      *)
(* drops a datagram that finds the buffer full, recording ENOBUFS for the *)
(* next read.  Multicast notifications arrive at any time.                 *)
(***************************************************************************)
EXTENDS Naturals, Sequences, SequencesExt

CONSTANTS
  NLMSG_NOOP,   \* the no-op request type: Listen skips it
  ListenReqs,   \* the request types given to Listen, in order
  TxMessages,   \* capacity of the Tx channel (SocketConfig.TxMessages)
  RxMessages,   \* capacity of the Rx channel (SocketConfig.RxMessages)
  SockBuf,      \* kernel receive buffer of the socket, in datagrams
  MaxData,      \* most data records in one dump reply
  SeqWrap,      \* the sequence counter counts modulo SeqWrap (2^32)
  Budget,       \* bound on each environment event, see Faults
  MaxFaults,    \* bound on the environment events of one behaviour, all kinds
  RecLen        \* RecLen[t]: the nlmsg_len the kernel writes for a record of type t

ASSUME /\ TxMessages >= 1 /\ RxMessages >= 1 /\ SockBuf >= 2
       /\ SeqWrap >= 2

(* Environment events, each bounded by Budget: a multicast notification,  *)
(* a kernel error reply, a handler error, an undecodable record, a failed *)
(* write, a call of Close, a request msg.Read cannot encode.               *)
Faults == {"event", "kerr", "herr", "bad", "werr", "close", "enc"}

ASSUME Budget \in [Faults -> Nat] /\ MaxFaults \in Nat

(* Listen's attempt bound: "if tries >= 5 { return err }".                 *)
MaxTries == 5

VARIABLES
  sock,       \* "opening", "open" or "failed": the outcome of NewWithConfig
  fdOpen,     \* s.fd refers to an open descriptor
  rxBlocked,  \* gorx is in a Recvmsg that began before Close
  txq,        \* the Tx channel: sequence numbers of queued requests, 0 = unset
  gotx,       \* the gotx pump is running
  seq,        \* gotx's local counter
  written,    \* sequence numbers of the requests written, in order
  kdump,      \* kernel: records of the running dump not yet handed out
  sockbuf,    \* kernel: datagrams queued on the socket
  overrun,    \* kernel: sk_err = ENOBUFS pending for the next read
  gorx,       \* the gorx pump is running
  pending,    \* gorx: decoded messages of the current datagram not yet sent
  rxq,        \* the Rx channel
  rxClosed,   \* close(s.rx) has happened
  lpc,        \* Listen's control point
  li,         \* Listen: index of the current ListenReq
  tries,      \* Listen: attempt number for the current ListenReq
  attempt,    \* number of dump requests Listen has put on Tx
  drains,     \* history: how each RxUntilDone call ended
  delivered,  \* history: the messages handed to the handler
  used        \* environment events used so far

vars == <<sock, fdOpen, rxBlocked, txq, gotx, seq, written, kdump, sockbuf, overrun,
          gorx, pending, rxq, rxClosed, lpc, li, tries, attempt, drains,
          delivered, used>>

-----------------------------------------------------------------------------
(* Records as the kernel writes them and messages as gorx decodes them.   *)
(* "other" is a type the decoder does not know; idx numbers the data      *)
(* records of one dump.                                                    *)
RecTypes == {"data", "event", "other", "done", "error"}
Record == [type : RecTypes, seq : 0..SeqWrap - 1, idx : 0..MaxData, bad : BOOLEAN]
Msg == [type : RecTypes \ {"other"}, seq : 0..SeqWrap - 1, idx : 0..MaxData]
Terminal == {"done", "error"}

(* How an RxUntilDone call ended: on a terminal message, on a handler     *)
(* error (type "handler") or on the end of the Rx channel (type "eof").   *)
Eof == [type |-> "eof", seq |-> 0, idx |-> 0]
Ending == Msg \cup [type : {"handler"}, seq : 0..SeqWrap - 1, idx : 0..MaxData]
          \cup {Eof}

(* The sequence number gotx gives the k-th request it numbers.            *)
SeqOfRequest(k) == k % SeqWrap

(* An event of kind f may happen while its own budget and the total of   *)
(* MaxFaults allow (a kernel reply may carry an error and an undecodable   *)
(* record at once, and then counts twice).                                  *)
Spend(f) == used' = [used EXCEPT ![f] = @ + 1]
CanSpend(f) == used[f] < Budget[f] /\ SumFunction(used) < MaxFaults

(* The kernel socket exists while the descriptor is open or a Recvmsg   *)
(* that began before Close still holds the file.                           *)
Alive == fdOpen \/ rxBlocked

-----------------------------------------------------------------------------
(* Framing.  The kernel writes each record with nlmsg_len = RecLen of its  *)
(* type and starts the next one at NLMSG_ALIGN of that length; the         *)
(* datagram's length is the sum of the aligned lengths.  KernelAlign is   *)
(* the kernel's rounding, kept apart from gorx's own.                     *)
SizeofHeader == 16
NLMSG_ALIGNTO == 4
KernelAlign(l) == IF l % NLMSG_ALIGNTO = 0 THEN l
                  ELSE l + NLMSG_ALIGNTO - (l % NLMSG_ALIGNTO)

RECURSIVE Offset(_, _)
Offset(dgram, k) ==
  IF k = 1 THEN 0
  ELSE Offset(dgram, k - 1) + KernelAlign(RecLen[dgram[k - 1].type])

DgramLen(dgram) == Offset(dgram, Len(dgram) + 1)

ASSUME \A t \in RecTypes : RecLen[t] \in Nat /\ RecLen[t] >= SizeofHeader

(* Mutant of messageAlignLen: the length is not rounded up.              *)
messageAlignLenNoRound(l) == l

(* gorx's messageAlignLen: (l + NLMSG_ALIGNTO - 1) & ^(NLMSG_ALIGNTO - 1). *)
messageAlignLen(l) == ((l + NLMSG_ALIGNTO - 1) \div NLMSG_ALIGNTO) * NLMSG_ALIGNTO

(* gorx's loop "for i, l := 0, 0; i < n; i += l": a header that does not  *)
(* fit panics; otherwise the header at i is read and i moves on by its    *)
(* aligned length.  The model knows the bytes of a header only where a    *)
(* record starts: a header read anywhere else ends the walk as "garbled". *)
(* RecLen is at least SizeofHeader, so the walk always moves forward.     *)
RECURSIVE FrameFrom(_, _, _)
FrameFrom(dgram, i, acc) ==
  LET at == {k \in DOMAIN dgram : Offset(dgram, k) = i}
  IN  IF i >= DgramLen(dgram) THEN [status |-> "ok", recs |-> acc]
      ELSE IF i + SizeofHeader > DgramLen(dgram)
        THEN [status |-> "panic", recs |-> acc]
      ELSE IF at = {} THEN [status |-> "garbled", recs |-> acc]
      ELSE LET r == dgram[CHOOSE k \in at : TRUE]
           IN  FrameFrom(dgram, i + messageAlignLen(RecLen[r.type]),
                         Append(acc, r))

Frame(dgram) == FrameFrom(dgram, 0, <<>>)

(* The message gorx makes of one record: msg.Write of an undecodable      *)
(* record fails and the message is replaced by an ErrorMessage carrying   *)
(* the record's header (and so its sequence number).                       *)
AsMessage(r) ==
  IF r.bad THEN [type |-> "error", seq |-> r.seq, idx |-> 0]
           ELSE [type |-> r.type, seq |-> r.seq, idx |-> r.idx]

(* The messages gorx makes of one datagram, in record order; records of a *)
(* type outside the switch get no message.                                 *)
Decode(dgram) ==
  LET known == SelectSeq(Frame(dgram).recs, LAMBDA r : r.type # "other")
  IN  [j \in DOMAIN known |-> AsMessage(known[j])]

-----------------------------------------------------------------------------
(* Kernel side (environment).                                              *)

(* Queue one datagram, or drop it and record ENOBUFS when the buffer is   *)
(* full.                                                                   *)
KernelDeliver(dgram) ==
  IF Len(sockbuf) < SockBuf
    THEN sockbuf' = Append(sockbuf, dgram) /\ UNCHANGED overrun
    ELSE overrun' = TRUE /\ UNCHANGED sockbuf

Rec(t, s, j) == [type |-> t, seq |-> s, idx |-> j, bad |-> FALSE]

(* The kernel's handling of a dump request numbered s, done in the write. *)
(* A dump already running makes the request fail with EBUSY.  Otherwise   *)
(* the reply is k data records and one terminal, at most one record of it *)
(* undecodable.                                                            *)
KernelRequest(s) ==
  IF kdump # <<>>
    THEN /\ KernelDeliver(<<Rec("error", s, 0)>>)
         /\ UNCHANGED <<kdump, used>>
    ELSE \E k \in 0..MaxData, t \in Terminal, b \in 0..(MaxData + 1) :
           LET reply == [j \in 1..k |-> Rec("data", s, j)] \o <<Rec(t, s, 0)>>
           IN  /\ t = "error" => CanSpend("kerr")
               /\ b <= Len(reply)
               /\ b > 0 => CanSpend("bad")
               /\ kdump' = IF b = 0 THEN reply
                                    ELSE [reply EXCEPT ![b].bad = TRUE]
               /\ used' = [used EXCEPT !["kerr"] = @ + (IF t = "error" THEN 1 ELSE 0),
                                       !["bad"] = @ + (IF b > 0 THEN 1 ELSE 0)]
               /\ UNCHANGED <<sockbuf, overrun>>

(* netlink_recvmsg continues a dump while the buffer is at most half full. *)
KernelDump ==
  /\ Alive
  /\ kdump # <<>>
  /\ 2 * Len(sockbuf) <= SockBuf
  /\ \E n \in 1..2 :
       /\ n <= Len(kdump)
       /\ sockbuf' = Append(sockbuf, SubSeq(kdump, 1, n))
       /\ kdump' = SubSeq(kdump, n + 1, Len(kdump))
  /\ UNCHANGED <<sock, fdOpen, rxBlocked, txq, gotx, seq, written, overrun, gorx, pending,
                 rxq, rxClosed, lpc, li, tries, attempt, drains, delivered, used>>

(* A multicast notification for one of the bound groups, of a known type  *)
(* or not.                                                                 *)
KernelEvent ==
  /\ sock = "open" /\ Alive
  /\ CanSpend("event") /\ Spend("event")
  /\ \E t \in {"event", "other"} : KernelDeliver(<<Rec(t, 0, 0)>>)
  /\ UNCHANGED <<sock, fdOpen, rxBlocked, txq, gotx, seq, written, kdump, gorx, pending,
                 rxq, rxClosed, lpc, li, tries, attempt, drains, delivered>>

-----------------------------------------------------------------------------
(* NewWithConfig: on success both pumps are started and the owner calls   *)
(* Listen; any failure of bind, Getsockname or the buffer negotiation      *)
(* (including a truncated SO_RCVBUF/SO_SNDBUF) runs the deferred cleanup,  *)
(* which closes the descriptor, Rx and Tx.                                 *)
NewWithConfig ==
  /\ sock = "opening"
  /\ \/ /\ sock' = "open"
        /\ gorx' = TRUE /\ gotx' = TRUE
        /\ lpc' = "next"
        /\ UNCHANGED <<fdOpen, rxClosed>>
     \/ /\ sock' = "failed"
        /\ fdOpen' = FALSE /\ rxClosed' = TRUE
        /\ UNCHANGED <<gorx, gotx, lpc>>
  /\ UNCHANGED <<rxBlocked, txq, seq, written, kdump, sockbuf, overrun, pending,
                 rxq, li, tries, attempt, drains, delivered, used>>

(* Close: syscall.Close(s.fd); s.fd = -1.  Linux close() does not wake a   *)
(* Recvmsg already blocked on the descriptor: if gorx is between          *)
(* datagrams it may be inside that call (b), and the socket lives on with *)
(* what it holds until the call returns.  Otherwise the socket goes away  *)
(* with whatever it still held.                                            *)
Close ==
  /\ sock = "open" /\ fdOpen
  /\ CanSpend("close") /\ Spend("close")
  /\ fdOpen' = FALSE
  /\ \E b \in BOOLEAN :
       /\ b => gorx /\ pending = <<>>
       /\ rxBlocked' = b
       /\ IF b THEN UNCHANGED <<sockbuf, kdump, overrun>>
               ELSE sockbuf' = <<>> /\ kdump' = <<>> /\ overrun' = FALSE
  /\ UNCHANGED <<sock, txq, gotx, seq, written, gorx, pending, rxq, rxClosed,
                 lpc, li, tries, attempt, drains, delivered>>

-----------------------------------------------------------------------------
(* gotx: take the next request off Tx.  msg.Read failing drops it and   *)
(* the loop goes on with the next one, before any number is taken.        *)
(* Otherwise give it the counter's value if its sequence number is unset  *)
(* and advance the uint32 counter; write it.  A write on a closed         *)
(* descriptor, or any other write error, ends the pump (the request is    *)
(* lost).  Flags, Pid, Len and the nsid ancillary data are filled in too  *)
(* but no property depends on them.                                        *)
GoTx ==
  /\ gotx /\ txq # <<>>
  /\ txq' = Tail(txq)
  /\ \/ /\ CanSpend("enc") /\ Spend("enc")
        /\ UNCHANGED <<gotx, seq, written, kdump, sockbuf, overrun>>
     \/ LET h == Head(txq)
            s == IF h = 0 THEN seq ELSE h
        IN  /\ seq' = IF h = 0 THEN (seq + 1) % SeqWrap ELSE seq
            /\ \/ /\ fdOpen
                  /\ written' = Append(written, s)
                  /\ KernelRequest(s)
                  /\ UNCHANGED gotx
               \/ /\ ~fdOpen
                  /\ gotx' = FALSE
                  /\ UNCHANGED <<written, kdump, sockbuf, overrun, used>>
               \/ /\ fdOpen /\ CanSpend("werr") /\ Spend("werr")
                  /\ gotx' = FALSE
                  /\ UNCHANGED <<written, kdump, sockbuf, overrun>>
  /\ UNCHANGED <<sock, fdOpen, rxBlocked, gorx, pending, rxq, rxClosed, lpc,
                 li, tries, attempt, drains, delivered>>

(* gorx, read: a pending socket error (ENOBUFS) or a closed descriptor    *)
(* makes Recvmsg fail, which ends the loop and closes Rx; otherwise the   *)
(* next datagram is decoded.  A Recvmsg blocked across Close returns only *)
(* with a datagram or an error; then the file is released and the socket  *)
(* goes away with what is left in it.                                      *)
GoRxRecv ==
  /\ gorx /\ pending = <<>>
  /\ rxBlocked' = FALSE
  /\ \/ /\ overrun \/ ~Alive
        /\ gorx' = FALSE /\ rxClosed' = TRUE /\ overrun' = FALSE
        /\ sockbuf' = IF fdOpen THEN sockbuf ELSE <<>>
        /\ kdump' = IF fdOpen THEN kdump ELSE <<>>
        /\ UNCHANGED pending
     \/ /\ Alive /\ ~overrun /\ sockbuf # <<>>
        /\ pending' = Decode(Head(sockbuf))
        /\ sockbuf' = IF fdOpen THEN Tail(sockbuf) ELSE <<>>
        /\ kdump' = IF fdOpen THEN kdump ELSE <<>>
        /\ UNCHANGED <<gorx, rxClosed, overrun>>
  /\ UNCHANGED <<sock, fdOpen, txq, gotx, seq, written, rxq, lpc, li,
                 tries, attempt, drains, delivered, used>>

(* Mutant: the send on Rx does not wait for room.                        *)
GoRxDeliverIgnoresCapacity ==
  /\ gorx /\ pending # <<>>
  /\ rxq' = Append(rxq, Head(pending))
  /\ pending' = Tail(pending)
  /\ UNCHANGED <<sock, fdOpen, rxBlocked, txq, gotx, seq, written, kdump, sockbuf,
                 overrun, gorx, rxClosed, lpc, li, tries, attempt, drains,
                 delivered, used>>

(* Mutant: the loop index is not advanced, so a message is sent twice.    *)
GoRxDeliverKeepsHead ==
  /\ gorx /\ pending # <<>>
  /\ Len(rxq) < RxMessages
  /\ rxq' = Append(rxq, Head(pending))
  /\ UNCHANGED <<sock, fdOpen, rxBlocked, txq, gotx, seq, written, kdump, sockbuf,
                 overrun, gorx, pending, rxClosed, lpc, li, tries, attempt,
                 drains, delivered, used>>

(* gorx, deliver: s.rx <- msg, blocking while Rx is full.                 *)
GoRxDeliver ==
  /\ gorx /\ pending # <<>>
  /\ Len(rxq) < RxMessages
  /\ rxq' = Append(rxq, Head(pending))
  /\ pending' = Tail(pending)
  /\ UNCHANGED <<sock, fdOpen, rxBlocked, txq, gotx, seq, written, kdump, sockbuf,
                 overrun, gorx, rxClosed, lpc, li, tries, attempt, drains,
                 delivered, used>>

-----------------------------------------------------------------------------
(* Listen.                                                                 *)

(* The loop over reqs: return nil after the last one, skip a no-op one,   *)
(* start the attempts of any other.                                        *)
ListenNext ==
  /\ lpc = "next"
  /\ \/ /\ li > Len(ListenReqs)
        /\ lpc' = "done"
        /\ UNCHANGED <<li, tries>>
     \/ /\ li <= Len(ListenReqs) /\ ListenReqs[li] = NLMSG_NOOP
        /\ li' = li + 1
        /\ UNCHANGED <<lpc, tries>>
     \/ /\ li <= Len(ListenReqs) /\ ListenReqs[li] # NLMSG_NOOP
        /\ lpc' = "send" /\ tries' = 1
        /\ UNCHANGED li
  /\ UNCHANGED <<sock, fdOpen, rxBlocked, txq, gotx, seq, written, kdump, sockbuf,
                 overrun, gorx, pending, rxq, rxClosed, attempt, drains,
                 delivered, used>>

(* s.Tx <- msg: a dump request with its sequence number unset; blocks    *)
(* while Tx is full.                                                       *)
ListenSend ==
  /\ lpc = "send"
  /\ Len(txq) < TxMessages
  /\ txq' = Append(txq, 0)
  /\ attempt' = attempt + 1
  /\ lpc' = "drain"
  /\ UNCHANGED <<sock, fdOpen, rxBlocked, gotx, seq, written, kdump, sockbuf, overrun,
                 gorx, pending, rxq, rxClosed, li, tries, drains, delivered,
                 used>>

(* What Listen does with the result of RxUntilDone: go on to the next     *)
(* request on nil, give up after the fifth attempt, or send again.        *)
(* Mutant: "tries >= 4", one attempt short.                               *)
ListenRetryGivesUpEarly(ok) ==
  \/ /\ ok
     /\ lpc' = "next" /\ li' = li + 1
     /\ UNCHANGED tries
  \/ /\ ~ok /\ tries >= MaxTries - 1
     /\ lpc' = "failed"
     /\ UNCHANGED <<li, tries>>
  \/ /\ ~ok /\ tries < MaxTries - 1
     /\ lpc' = "send" /\ tries' = tries + 1
     /\ UNCHANGED li

ListenRetry(ok) ==
  \/ /\ ok
     /\ lpc' = "next" /\ li' = li + 1
     /\ UNCHANGED tries
  \/ /\ ~ok /\ tries >= MaxTries
     /\ lpc' = "failed"
     /\ UNCHANGED <<li, tries>>
  \/ /\ ~ok /\ tries < MaxTries
     /\ lpc' = "send" /\ tries' = tries + 1
     /\ UNCHANGED li

EndDrain(how, ok) ==
  /\ drains' = Append(drains, [req |-> li, own |-> SeqOfRequest(attempt),
                               how |-> how])
  /\ ListenRetry(ok)

(* One iteration of RxUntilDone's range over Rx.  An Error message ends  *)
(* the call with its errno (every error the kernel or gorx makes here has *)
(* a nonzero errno), Done ends it with nil, any other message goes to the *)
(* handler, whose error ends the call at once.  When Rx is closed and     *)
(* empty the range ends and the call returns nil.                          *)
RxUntilDone ==
  /\ lpc = "drain"
  /\ \/ /\ rxq # <<>>
        /\ rxq' = Tail(rxq)
        /\ LET m == Head(rxq) IN
           \/ /\ m.type = "error"
              /\ EndDrain(m, FALSE)
              /\ UNCHANGED <<delivered, used>>
           \/ /\ m.type = "done"
              /\ EndDrain(m, TRUE)
              /\ UNCHANGED <<delivered, used>>
           \/ /\ m.type \notin Terminal
              /\ delivered' = Append(delivered, m)
              /\ UNCHANGED <<lpc, li, tries, drains, used>>
           \/ /\ m.type \notin Terminal
              /\ CanSpend("herr") /\ Spend("herr")
              /\ delivered' = Append(delivered, m)
              /\ EndDrain([type |-> "handler", seq |-> m.seq, idx |-> m.idx], FALSE)
     \/ /\ rxq = <<>> /\ rxClosed
        /\ EndDrain(Eof, TRUE)
        /\ UNCHANGED <<rxq, delivered, used>>
  /\ UNCHANGED <<sock, fdOpen, rxBlocked, txq, gotx, seq, written, kdump, sockbuf,
                 overrun, gorx, pending, rxClosed, attempt>>

(* After Listen returns, the owner keeps receiving from Rx.               *)
Receive ==
  /\ lpc \in {"done", "failed"}
  /\ rxq # <<>>
  /\ rxq' = Tail(rxq)
  /\ UNCHANGED <<sock, fdOpen, rxBlocked, txq, gotx, seq, written, kdump, sockbuf,
                 overrun, gorx, pending, rxClosed, lpc, li, tries, attempt,
                 drains, delivered, used>>

(* Listen has returned, or the socket never opened and Listen is never    *)
(* called.                                                                 *)
Returned == lpc \in {"done", "failed"} \/ sock = "failed"

-----------------------------------------------------------------------------
Init ==
  /\ sock = "opening"
  /\ fdOpen = TRUE /\ rxBlocked = FALSE
  /\ txq = <<>> /\ gotx = FALSE /\ seq = 1 /\ written = <<>>
  /\ kdump = <<>> /\ sockbuf = <<>> /\ overrun = FALSE
  /\ gorx = FALSE /\ pending = <<>> /\ rxq = <<>> /\ rxClosed = FALSE
  /\ lpc = "idle" /\ li = 1 /\ tries = 0 /\ attempt = 0
  /\ drains = <<>> /\ delivered = <<>>
  /\ used = [f \in Faults |-> 0]

Next ==
  \/ NewWithConfig \/ Close
  \/ GoTx \/ GoRxRecv \/ GoRxDeliver
  \/ ListenNext \/ ListenSend \/ RxUntilDone \/ Receive
  \/ KernelDump \/ KernelEvent

(* Goroutines are scheduled fairly and the kernel continues a dump while  *)
(* it is read; notifications, errors and Close are not assumed to happen. *)
Fairness ==
  /\ WF_vars(NewWithConfig)
  /\ WF_vars(GoTx) /\ WF_vars(GoRxRecv) /\ WF_vars(GoRxDeliver)
  /\ WF_vars(ListenNext) /\ WF_vars(ListenSend) /\ WF_vars(RxUntilDone)
  /\ WF_vars(Receive) /\ WF_vars(KernelDump)

Spec == Init /\ [][Next]_vars /\ Fairness

-----------------------------------------------------------------------------
(* Properties.                                                             *)

(* Every channel stays within its capacity and every variable in its type. *)
TypeOK ==
  /\ sock \in {"opening", "open", "failed"}
  /\ fdOpen \in BOOLEAN /\ rxBlocked \in BOOLEAN /\ gotx \in BOOLEAN /\ gorx \in BOOLEAN
  /\ txq \in Seq(0..SeqWrap - 1) /\ Len(txq) <= TxMessages
  /\ seq \in 0..SeqWrap - 1
  /\ written \in Seq(0..SeqWrap - 1)
  /\ kdump \in Seq(Record) /\ sockbuf \in Seq(Seq(Record))
  /\ Len(sockbuf) <= SockBuf
  /\ overrun \in BOOLEAN
  /\ pending \in Seq(Msg)
  /\ rxq \in Seq(Msg) /\ Len(rxq) <= RxMessages
  /\ rxClosed \in BOOLEAN
  /\ lpc \in {"idle", "next", "send", "drain", "done", "failed"}
  /\ li \in 1..Len(ListenReqs) + 1 /\ tries \in 0..MaxTries
  /\ drains \in Seq([req : 1..Len(ListenReqs), own : 0..SeqWrap - 1, how : Ending])
  /\ delivered \in Seq(Msg)
  /\ used \in [Faults -> Nat]

(* Spec 4.3/5: when Listen returns nil, every non-no-op request has had   *)
(* its own dump ended by its own Done: Listen never reports a dump as     *)
(* replicated that did not complete (RxUntilDone, Listen).                *)
ListenSuccessImpliesCompleteDumps ==
  lpc = "done" =>
    \A i \in 1..Len(ListenReqs) :
      ListenReqs[i] # NLMSG_NOOP =>
        \E d \in Range(drains) :
          d.req = i /\ d.how.type = "done" /\ d.how.seq = d.own

(* Spec 3: a dump sequence has exactly one terminal, so an RxUntilDone    *)
(* call that ends on a Done or an Error ends on the one answering the     *)
(* request its own attempt sent, never on a terminal left over from an    *)
(* earlier attempt (RxUntilDone, Listen's retry, gorx's error records).   *)
DrainEndsOnOwnTerminal ==
  \A k \in 1..Len(drains) :
    drains[k].how.type \in Terminal => drains[k].how.seq = drains[k].own

(* Spec 4.3: across retries and stale drains the handler sees the data of *)
(* each dump in kernel order and never twice (gorx's per-datagram decode  *)
(* and delivery, the channels, RxUntilDone).  A record gorx could not     *)
(* decode is replaced by an error message, so gaps are allowed.           *)
HandlerSeesDumpsInOrder ==
  \A s \in 1..SeqWrap - 1 :
    LET ds == SelectSeq(delivered, LAMBDA m : m.type = "data" /\ m.seq = s)
    IN  \A j, k \in 1..Len(ds) : j < k => ds[j].idx < ds[k].idx

(* Spec 8.5: Listen fails only after exactly five attempts at the request *)
(* it fails on, each of which ended in an error.                           *)
FailureAfterExactlyMaxTries ==
  lpc = "failed" =>
    LET mine == SelectSeq(drains, LAMBDA d : d.req = li)
    IN  /\ Len(mine) = MaxTries
        /\ \A k \in 1..Len(mine) : mine[k].how.type \in {"error", "handler"}

(* Spec 5: Listen eventually returns, with nil or with an error.          *)
ListenTerminates == <>Returned

(* gorx's framing (messageAlignLen and the loop over headers): every    *)
(* datagram the kernel has queued, records of unaligned length included,  *)
(* is split by the loop into exactly the records the kernel wrote, in     *)
(* order, with no incomplete header and no header read inside a record.   *)
FramingRecoversRecords ==
  \A j \in DOMAIN sockbuf :
    Frame(sockbuf[j]) = [status |-> "ok", recs |-> sockbuf[j]]

=============================================================================

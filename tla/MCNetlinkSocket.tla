-------------------------- MODULE MCNetlinkSocket --------------------------
(* Model-checking instances of NetlinkSocket: the requests given to       *)
(* Listen and the bounds on the environment for each run.                  *)
EXTENDS NetlinkSocket

CONSTANTS RTM_GETLINK, RTM_GETADDR

(* A no-op request, then two dumps: exercises the skip and the hand-over  *)
(* from one request's drain to the next.                                   *)
MCListenReqs == <<NLMSG_NOOP, RTM_GETLINK, RTM_GETADDR>>

(* One dump after a no-op request, for the runs that inject every fault. *)
MCListenReqsOne == <<NLMSG_NOOP, RTM_GETLINK>>

(* Errors enough from the kernel to exhaust the five attempts, and each  *)
(* other event once: a notification, a handler error, an undecodable      *)
(* record, a failed write, a Close, a request msg.Read cannot encode.     *)
MCBudgetSocket ==
  [f \in Faults |-> IF f = "kerr" THEN 2 ELSE 1]

(* Exactly one event of kind f, nothing else.                             *)
OnlyOne(f) == [g \in Faults |-> IF g = f THEN 1 ELSE 0]

MCBudgetEvent == OnlyOne("event")
MCBudgetHandlerError == OnlyOne("herr")
MCBudgetWriteError == OnlyOne("werr")

(* nlmsg_len of each record type: an RTM_NEWLINK with one unpadded       *)
(* attribute (37), an unknown type (18), NLMSG_DONE with its int (20) and  *)
(* NLMSG_ERROR with the echoed header (36).  Two are not multiples of 4.  *)
MCRecLen ==
  [t \in RecTypes |-> CASE t \in {"data", "event"} -> 37
                        [] t = "other" -> 18
                        [] t = "done" -> 20
                        [] t = "error" -> 36]

=============================================================================

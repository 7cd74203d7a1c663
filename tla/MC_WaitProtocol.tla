------------------------- MODULE MC_WaitProtocol -------------------------
(* Two Nodes that each wait on the channel the other writes: a reads c1   *)
(* and writes c2, b reads c2 and writes c1.  c1 is secret ({s}); a is a  *)
(* public Node that may declassify s, so it reads c1 only when it asks     *)
(* for its privilege, and a wait on c1 without it is PermissionDenied.     *)
EXTENDS WaitProtocol, TLC

CONSTANTS a, b, c1, c2, s

MC_NodeLabel == [n \in {a, b} |-> public_untrusted]
MC_NodePrivilege == (a :> [declassify |-> {s}, endorse |-> {}])
                    @@ (b :> [declassify |-> {}, endorse |-> {}])
MC_ChanLabel == (c1 :> [conf |-> {s}, integ |-> {}]) @@ (c2 :> public_untrusted)

MC_InitHandles == (a :> {RH(c1), WH(c2)}) @@ (b :> {RH(c2), WH(c1)})

\* The wait's Downgrading flag matters only while the wait holds a channel
\* whose read check it decides; states that differ only in a flag that
\* decides nothing have the same steps and the same statuses.
ViewEffectiveDowngrade ==
    <<handles, queue, waiters, token, pc, waitSet, waitInvalid, waitStop,
      [n \in Nodes |-> waitDg[n] /\ \E c \in waitSet[n] :
          validate_can_read_from_channel(n, c, TRUE) # validate_can_read_from_channel(n, c, FALSE)],
      result, terminating, stopPc, taken, joining, notified>>
=============================================================================

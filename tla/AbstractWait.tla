--------------------------- MODULE AbstractWait ---------------------------
(***************************************************************************)
(* What wait_on_channels promises, with the wait as a single atomic step   *)
(* (spec 4.6 and P5): a call returns its statuses only when one of its     *)
(* channels is ReadReady, Orphaned or PermissionDenied for the call's     *)
(* Downgrading flag, or when its handle list was empty or held an invalid  *)
(* handle; it returns ErrTerminated only once the Runtime                  *)
(* is terminating; and a call begun after stop never returns statuses.    *)
(* Between the calls the channels change in any way.                       *)
(***************************************************************************)
CONSTANTS Nodes, Chans

Statuses == {"ReadReady", "Orphaned", "NotReady", "PermissionDenied"}
Idle == [idle |-> TRUE]
StatusMaps == [Nodes -> [Chans -> [BOOLEAN -> Statuses]]]

VARIABLES
    waiting,      \* the wait_on_channels call in progress on each Node's thread
    status,       \* channel_status(n, c, downgrade) of every Node, channel and flag
    terminating,
    terminated    \* a call of the Node has returned ErrTerminated

vars == <<waiting, status, terminating, terminated>>

Init ==
    /\ waiting = [n \in Nodes |-> Idle]
    /\ status \in StatusMaps
    /\ terminating = FALSE
    /\ terminated = [n \in Nodes |-> FALSE]

\* Writes, reads, closes and exits of any thread.
ChannelsChange ==
    /\ status' \in StatusMaps
    /\ UNCHANGED <<waiting, terminating, terminated>>

Stop ==
    /\ terminating' = TRUE
    /\ UNCHANGED <<waiting, status, terminated>>

BeginWait(n, S, invalid, dg) ==
    /\ waiting[n] = Idle
    /\ waiting' = [waiting EXCEPT ![n] =
                     [chans |-> S, invalid |-> invalid, dg |-> dg,
                      afterStop |-> terminating]]
    /\ UNCHANGED <<status, terminating, terminated>>

ReturnStatuses(n) ==
    /\ waiting[n] # Idle
    /\ ~waiting[n].afterStop
    /\ waiting[n].invalid \/ \E c \in waiting[n].chans : status[n][c][waiting[n].dg] # "NotReady"
    /\ waiting' = [waiting EXCEPT ![n] = Idle]
    /\ UNCHANGED <<status, terminating, terminated>>

ReturnTerminated(n) ==
    /\ waiting[n] # Idle /\ terminating
    /\ waiting' = [waiting EXCEPT ![n] = Idle]
    /\ terminated' = [terminated EXCEPT ![n] = TRUE]
    /\ UNCHANGED <<status, terminating>>

Next ==
    \/ ChannelsChange
    \/ Stop
    \/ \E n \in Nodes :
         \/ \E S \in SUBSET Chans, inv, dg \in BOOLEAN : BeginWait(n, S, inv, dg)
         \/ ReturnStatuses(n)
         \/ ReturnTerminated(n)

Spec == Init /\ [][Next]_vars
=============================================================================

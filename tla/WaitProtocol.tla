--------------------------- MODULE WaitProtocol ---------------------------
(***************************************************************************)
(* The blocking multi-channel wait of the Oak Runtime (wait_on_channels),  *)
(* the operations that wake its waiters (channel_write, the drop of the    *)
(* last half of a direction, notify_all_waiters) and Runtime::stop with    *)
(* its join of every Node thread.                                          *)
(*                                                                         *)
(* Each Node is one OS thread.  Inside wait_on_channels a thread goes      *)
(* through the steps of one loop iteration: check `terminating`, register  *)
(* as waiter on every valid channel, compute the statuses, park.  Parking *)
(* follows std::thread::park: an unpark before the park leaves a token    *)
(* that makes the park return at once, and a park may return spuriously. *)
(* The Weak<Thread> a channel keeps dies with the iteration's Arc, so a    *)
(* thread's registrations end when its iteration ends.                     *)
(*                                                                         *)
(* Labels never change once a Node or a channel exists, so the labels and  *)
(* privileges are constants; channel_status checks the read label first,  *)
(* and a PermissionDenied status ends a wait like a ready one.             *)
(***************************************************************************)
EXTENDS Labels, Naturals, FiniteSets

CONSTANTS
    Nodes,        \* Node threads (model values)
    Chans,        \* channels that exist
    InitHandles,  \* [Nodes -> SUBSET Halves]: the halves each Node holds
    MaxQueue,     \* bound on the messages queued in one channel
    NodeLabel,    \* NodeInfo.label of each Node
    NodePrivilege,\* NodeInfo.privilege of each Node
    ChanLabel     \* Channel.label of each channel

Halves == [ch : Chans, dir : {"Read", "Write"}]
RH(c) == [ch |-> c, dir |-> "Read"]
WH(c) == [ch |-> c, dir |-> "Write"]

ASSUME /\ InitHandles \in [Nodes -> SUBSET Halves]
       /\ MaxQueue \in Nat \ {0}
       /\ NodeLabel \in [Nodes -> Label] /\ ChanLabel \in [Chans -> Label]
       /\ NodePrivilege \in [Nodes -> Privilege]

VARIABLES
    handles,      \* node_infos[n].abi_handles, as the set of halves held
    queue,        \* Channel.messages: number of queued messages
    waiters,      \* Channel waiters whose thread Arc is still alive
    token,        \* the park token of each thread
    pc,           \* where each Node thread is
    waitSet,      \* `readers` of the wait in progress: valid read channels
    waitInvalid,  \* the wait had an empty or an invalid handle list
    waitStop,     \* history: the wait began with terminating already set
    waitDg,       \* the `downgrade` argument of the wait in progress
    result,       \* "terminated" once a wait_on_channels returned ErrTerminated
    terminating,  \* Runtime.terminating
    stopPc,       \* where the thread running Runtime::stop is
    taken,        \* NodeStoppers taken by take_node_stoppers, not joined yet
    joining,      \* the Node whose thread stop_node is joining
    notified      \* the NodeStopper's notify_sender has fired

vars == <<handles, queue, waiters, token, pc, waitSet, waitInvalid, waitStop, waitDg, result,
          terminating, stopPc, taken, joining, notified>>

NoNode == "none"
InWaitPcs == {"w_check", "w_register", "w_status", "w_park", "parked"}

-----------------------------------------------------------------------------
(* Channel state derived from the live halves (reader_count, writer_count) *)

Alive == {n \in Nodes : pc[n] # "done"}
has_readers(c) == \E n \in Nodes : RH(c) \in handles[n]
has_writers(c) == \E n \in Nodes : WH(c) \in handles[n]

\* The reads validate_can_read_from_label allows: the channel's label,
\* downgraded with the Node's privilege when asked, flows to the Node's
\* label.  Labels are constants, so this is computed once.
ReadAllowed ==
    {t \in Nodes \X Chans \X BOOLEAN :
        flows_to(effective_label(NodePrivilege[t[1]], ChanLabel[t[2]], t[3]), NodeLabel[t[1]])}

\* validate_can_read_from_channel: the check on the channel's label.
validate_can_read_from_channel(n, c, dg) == <<n, c, dg>> \in ReadAllowed

\* validate_can_write_to_channel: the Node's label, downgraded when asked,
\* flows to the channel's label.
validate_can_write_to_channel(n, c, dg) ==
    flows_to(effective_label(NodePrivilege[n], NodeLabel[n], dg), ChanLabel[c])

\* The Downgrading flags a call of Node n checking labels `ls` can tell
\* apart: get_effective_label is the same for both flags unless the
\* privilege changes one of the labels.
Downgradings(n, ls) ==
    IF \A l \in ls : downgrade_label(NodePrivilege[n], l) = l THEN {FALSE} ELSE BOOLEAN

\* channel_status for Node n: the label check comes before the queue.
channel_status(n, c, dg) ==
    IF ~validate_can_read_from_channel(n, c, dg) THEN "PermissionDenied"
    ELSE IF queue[c] > 0 THEN "ReadReady"
    ELSE IF ~has_writers(c) THEN "Orphaned"
    ELSE "NotReady"

\* Channel::wake_waiters on every channel of `cs`: unpark each live waiter.
wake_waiters(cs) ==
    token' = [t \in Nodes |-> token[t] \/ \E c \in cs : t \in waiters[c]]

\* The channels whose reader or writer count reaches zero when the halves
\* `hs` are dropped from handle table `n`.
Orphaning(n, hs) ==
    {h.ch : h \in {h \in hs : \A m \in Nodes :
                     h \notin (IF m = n THEN handles[m] \ hs ELSE handles[m])}}

\* The iteration's Arc<Thread> is dropped: its registrations are dead.
DropRegistration(n) == waiters' = [c \in Chans |-> waiters[c] \ {n}]

\* wait_on_channels returned: its `readers` are dropped.
EndWait(n) ==
    /\ waitSet' = [waitSet EXCEPT ![n] = {}]
    /\ waitInvalid' = [waitInvalid EXCEPT ![n] = FALSE]
    /\ waitStop' = [waitStop EXCEPT ![n] = FALSE]
    /\ waitDg' = [waitDg EXCEPT ![n] = FALSE]

\* A cooperative Node exits once told to (terminator fired or ErrTerminated).
Cooperating(n) == notified[n] \/ result[n] = "terminated"

-----------------------------------------------------------------------------
Init ==
    /\ handles = InitHandles
    /\ queue = [c \in Chans |-> 0]
    /\ waiters = [c \in Chans |-> {}]
    /\ token = [n \in Nodes |-> FALSE]
    /\ pc = [n \in Nodes |-> "idle"]
    /\ waitSet = [n \in Nodes |-> {}]
    /\ waitInvalid = [n \in Nodes |-> FALSE]
    /\ waitStop = [n \in Nodes |-> FALSE]
    /\ waitDg = [n \in Nodes |-> FALSE]
    /\ result = [n \in Nodes |-> "none"]
    /\ terminating = FALSE
    /\ stopPc = "idle"
    /\ taken = {}
    /\ joining = NoNode
    /\ notified = [n \in Nodes |-> FALSE]

-----------------------------------------------------------------------------
(* wait_on_channels, one action per step of the loop                       *)

\* Mutant: the loop tests `terminating` only after a park (a do-while).
wait_on_channels_nocheck(n, S, dg) ==
    /\ pc[n] = "idle" /\ ~Cooperating(n)
    /\ waitSet' = [waitSet EXCEPT ![n] = {c \in S : RH(c) \in handles[n]}]
    /\ waitInvalid' = [waitInvalid EXCEPT ![n] =
                         S = {} \/ \E c \in S : RH(c) \notin handles[n]]
    /\ waitStop' = [waitStop EXCEPT ![n] = terminating]
    /\ waitDg' = [waitDg EXCEPT ![n] = dg]
    /\ pc' = [pc EXCEPT ![n] = "w_register"]
    /\ UNCHANGED <<handles, queue, waiters, token, result, terminating,
                   stopPc, taken, joining, notified>>

\* Resolve the handles with abi_to_read_half; failures stay InvalidChannel.
wait_on_channels(n, S, dg) ==
    /\ pc[n] = "idle" /\ ~Cooperating(n)
    /\ waitSet' = [waitSet EXCEPT ![n] = {c \in S : RH(c) \in handles[n]}]
    /\ waitInvalid' = [waitInvalid EXCEPT ![n] =
                         S = {} \/ \E c \in S : RH(c) \notin handles[n]]
    /\ waitStop' = [waitStop EXCEPT ![n] = terminating]
    /\ waitDg' = [waitDg EXCEPT ![n] = dg]
    /\ pc' = [pc EXCEPT ![n] = "w_check"]
    /\ UNCHANGED <<handles, queue, waiters, token, result, terminating,
                   stopPc, taken, joining, notified>>

\* `while !self.is_terminating()`; on exit, Err(ErrTerminated).
wait_check_terminating(n) ==
    /\ pc[n] = "w_check"
    /\ IF terminating
         THEN /\ pc' = [pc EXCEPT ![n] = "idle"]
              /\ result' = [result EXCEPT ![n] = "terminated"]
              /\ EndWait(n)
         ELSE /\ pc' = [pc EXCEPT ![n] = "w_register"]
              /\ UNCHANGED <<result, waitSet, waitInvalid, waitStop, waitDg>>
    /\ UNCHANGED <<handles, queue, waiters, token, terminating, stopPc,
                   taken, joining, notified>>

\* channel.add_waiter(&thread_ref) on every reader.
wait_add_waiters(n) ==
    /\ pc[n] = "w_register"
    /\ waiters' = [c \in Chans |->
                     IF c \in waitSet[n] THEN waiters[c] \cup {n} ELSE waiters[c]]
    /\ pc' = [pc EXCEPT ![n] = "w_status"]
    /\ UNCHANGED <<handles, queue, token, waitSet, waitInvalid, waitStop, waitDg, result,
                   terminating, stopPc, taken, joining, notified>>

\* Mutant: the statuses are read without the wait's Downgrading flag.
readers_statuses_nodg(n) == [c \in waitSet[n] |-> channel_status(n, c, FALSE)]

\* readers_statuses: channel_status of every valid reader, with the wait's flag.
readers_statuses(n) == [c \in waitSet[n] |-> channel_status(n, c, waitDg[n])]

\* readers_statuses, then return unless every status is NotReady and the
\* handle list was non-empty and fully valid.
wait_readers_statuses(n) ==
    /\ pc[n] = "w_status"
    /\ IF waitInvalid[n] \/ \E c \in waitSet[n] : readers_statuses(n)[c] # "NotReady"
         THEN /\ pc' = [pc EXCEPT ![n] = "idle"]
              /\ UNCHANGED result
              /\ DropRegistration(n)
              /\ EndWait(n)
         ELSE /\ pc' = [pc EXCEPT ![n] = "w_park"]
              /\ UNCHANGED <<waiters, waitSet, waitInvalid, waitStop, waitDg>>
    /\ UNCHANGED <<handles, queue, token, result, terminating, stopPc, taken,
                   joining, notified>>

\* thread::park(): consumes a pending token and returns, or blocks.
wait_park(n) ==
    /\ pc[n] = "w_park"
    /\ IF token[n]
         THEN /\ token' = [token EXCEPT ![n] = FALSE]
              /\ pc' = [pc EXCEPT ![n] = "w_check"]
              /\ DropRegistration(n)
         ELSE /\ pc' = [pc EXCEPT ![n] = "parked"]
              /\ UNCHANGED <<token, waiters>>
    /\ UNCHANGED <<handles, queue, waitSet, waitInvalid, waitStop, waitDg, result, terminating,
                   stopPc, taken, joining, notified>>

\* A parked thread is unparked by a token and starts the next iteration.
wait_unpark(n) ==
    /\ pc[n] = "parked" /\ token[n]
    /\ token' = [token EXCEPT ![n] = FALSE]
    /\ pc' = [pc EXCEPT ![n] = "w_check"]
    /\ DropRegistration(n)
    /\ UNCHANGED <<handles, queue, waitSet, waitInvalid, waitStop, waitDg, result, terminating,
                   stopPc, taken, joining, notified>>

\* thread::park may return spuriously, leaving the token alone.
spurious_wakeup(n) ==
    /\ pc[n] = "parked"
    /\ pc' = [pc EXCEPT ![n] = "w_check"]
    /\ DropRegistration(n)
    /\ UNCHANGED <<handles, queue, token, waitSet, waitInvalid, waitStop, waitDg, result,
                   terminating, stopPc, taken, joining, notified>>

-----------------------------------------------------------------------------
(* The other channel operations a Node thread calls                         *)

\* Mutant: the message is pushed but the waiters are not woken.
channel_write_nowake(n, c, dg) ==
    /\ pc[n] = "idle" /\ ~Cooperating(n)
    /\ WH(c) \in handles[n] /\ validate_can_write_to_channel(n, c, dg)
    /\ queue[c] < MaxQueue /\ has_readers(c)
    /\ queue' = [queue EXCEPT ![c] = @ + 1]
    /\ UNCHANGED <<handles, waiters, token, pc, waitSet, waitInvalid, waitStop, waitDg, result,
                   terminating, stopPc, taken, joining, notified>>

\* channel_write: ErrPermissionDenied unless the label check passes,
\* ErrChannelClosed without readers, else push and wake.
channel_write(n, c, dg) ==
    /\ pc[n] = "idle" /\ ~Cooperating(n)
    /\ WH(c) \in handles[n] /\ validate_can_write_to_channel(n, c, dg)
    /\ queue[c] < MaxQueue
    /\ IF has_readers(c)
         THEN /\ queue' = [queue EXCEPT ![c] = @ + 1]
              /\ wake_waiters({c})
         ELSE UNCHANGED <<queue, token>>
    /\ UNCHANGED <<handles, waiters, pc, waitSet, waitInvalid, waitStop, waitDg, result,
                   terminating, stopPc, taken, joining, notified>>

\* Mutant: an empty queue is popped as if it held a message.
channel_read_empty(n, c, dg) ==
    /\ pc[n] = "idle" /\ ~Cooperating(n)
    /\ RH(c) \in handles[n] /\ validate_can_read_from_channel(n, c, dg)
    /\ queue' = [queue EXCEPT ![c] = @ - 1]
    /\ UNCHANGED <<handles, waiters, token, pc, waitSet, waitInvalid, waitStop, waitDg, result,
                   terminating, stopPc, taken, joining, notified>>

\* channel_read: after the label check, pop the front message; None or
\* ErrChannelClosed otherwise.
channel_read(n, c, dg) ==
    /\ pc[n] = "idle" /\ ~Cooperating(n)
    /\ RH(c) \in handles[n] /\ validate_can_read_from_channel(n, c, dg)
    /\ queue[c] > 0
    /\ queue' = [queue EXCEPT ![c] = @ - 1]
    /\ UNCHANGED <<handles, waiters, token, pc, waitSet, waitInvalid, waitStop, waitDg, result,
                   terminating, stopPc, taken, joining, notified>>

\* Mutant: dropping the last writer does not wake the channel's waiters.
channel_close_nowake(n, h) ==
    /\ pc[n] = "idle" /\ ~Cooperating(n)
    /\ h \in handles[n]
    /\ handles' = [handles EXCEPT ![n] = @ \ {h}]
    /\ UNCHANGED <<queue, waiters, token, pc, waitSet, waitInvalid, waitStop, waitDg, result,
                   terminating, stopPc, taken, joining, notified>>

\* channel_close: drop_abi_handle; dropping the last half of a direction
\* wakes the channel's waiters.
channel_close(n, h) ==
    /\ pc[n] = "idle" /\ ~Cooperating(n)
    /\ h \in handles[n]
    /\ handles' = [handles EXCEPT ![n] = @ \ {h}]
    /\ wake_waiters(Orphaning(n, {h}))
    /\ UNCHANGED <<queue, waiters, pc, waitSet, waitInvalid, waitStop, waitDg, result,
                   terminating, stopPc, taken, joining, notified>>

\* Node::run returns; the thread goes on to remove_node_id.
node_return(n) ==
    /\ pc[n] = "idle"
    /\ pc' = [pc EXCEPT ![n] = "exiting"]
    /\ UNCHANGED <<handles, queue, waiters, token, waitSet, waitInvalid, waitStop, waitDg,
                   result, terminating, stopPc, taken, joining, notified>>

\* remove_node_id: close every remaining handle, remove the NodeInfo; the
\* thread then ends.
remove_node_id(n) ==
    /\ pc[n] = "exiting"
    /\ handles' = [handles EXCEPT ![n] = {}]
    /\ wake_waiters(Orphaning(n, handles[n]))
    /\ pc' = [pc EXCEPT ![n] = "done"]
    /\ UNCHANGED <<queue, waiters, waitSet, waitInvalid, waitStop, waitDg, result, terminating,
                   stopPc, taken, joining, notified>>

-----------------------------------------------------------------------------
(* Runtime::stop                                                            *)

\* Drain the aux servers, then terminating.store(true).
stop ==
    /\ stopPc = "idle"
    /\ terminating' = TRUE
    /\ stopPc' = "notify"
    /\ UNCHANGED <<handles, queue, waiters, token, pc, waitSet, waitInvalid, waitStop, waitDg,
                   result, taken, joining, notified>>

\* notify_all_waiters: wake the waiters of every half in every NodeInfo.
notify_all_waiters ==
    /\ stopPc = "notify"
    /\ wake_waiters({h.ch : h \in UNION {handles[n] : n \in Alive}})
    /\ stopPc' = "take"
    /\ UNCHANGED <<handles, queue, waiters, pc, waitSet, waitInvalid, waitStop, waitDg, result,
                   terminating, taken, joining, notified>>

\* take_node_stoppers: the stoppers of the NodeInfos still present.
take_node_stoppers ==
    /\ stopPc = "take"
    /\ taken' = Alive
    /\ stopPc' = "join"
    /\ UNCHANGED <<handles, queue, waiters, token, pc, waitSet, waitInvalid, waitStop, waitDg,
                   result, terminating, joining, notified>>

\* NodeStopper::stop_node: send the notification, then join the thread.
stop_node(n) ==
    /\ stopPc = "join" /\ joining = NoNode /\ n \in taken
    /\ notified' = [notified EXCEPT ![n] = TRUE]
    /\ joining' = n
    /\ UNCHANGED <<handles, queue, waiters, token, pc, waitSet, waitInvalid, waitStop, waitDg,
                   result, terminating, stopPc, taken>>

\* join_handle.join() returns once the Node thread has ended.
join_node ==
    /\ stopPc = "join" /\ joining # NoNode
    /\ pc[joining] = "done"
    /\ taken' = taken \ {joining}
    /\ joining' = NoNode
    /\ UNCHANGED <<handles, queue, waiters, token, pc, waitSet, waitInvalid, waitStop, waitDg,
                   result, terminating, stopPc, notified>>

stop_done ==
    /\ stopPc = "join" /\ joining = NoNode /\ taken = {}
    /\ stopPc' = "done"
    /\ UNCHANGED <<handles, queue, waiters, token, pc, waitSet, waitInvalid, waitStop, waitDg,
                   result, terminating, taken, joining, notified>>

\* Every thread has ended: the program stops here.
Finished ==
    /\ \A n \in Nodes : pc[n] = "done"
    /\ stopPc \in {"idle", "done"}
    /\ UNCHANGED vars

-----------------------------------------------------------------------------
Next ==
    \/ \E n \in Nodes :
         \/ \E S \in SUBSET Chans :
              \E dg \in Downgradings(n, {ChanLabel[c] : c \in S}) : wait_on_channels(n, S, dg)
         \/ wait_check_terminating(n)
         \/ wait_add_waiters(n)
         \/ wait_readers_statuses(n)
         \/ wait_park(n)
         \/ wait_unpark(n)
         \/ spurious_wakeup(n)
         \/ \E c \in Chans :
              \/ \E dg \in Downgradings(n, {NodeLabel[n]}) : channel_write(n, c, dg)
              \/ \E dg \in Downgradings(n, {ChanLabel[c]}) : channel_read(n, c, dg)
         \/ \E h \in handles[n] : channel_close(n, h)
         \/ node_return(n)
         \/ remove_node_id(n)
         \/ stop_node(n)
    \/ stop
    \/ notify_all_waiters
    \/ take_node_stoppers
    \/ join_node
    \/ stop_done
    \/ Finished

\* The Runtime's own steps are fair, and so is a cooperative Node's exit;
\* what an untrusted Node calls, spurious wakeups and the call of stop are not.
Fairness ==
    /\ \A n \in Nodes :
         /\ WF_vars(wait_check_terminating(n))
         /\ WF_vars(wait_add_waiters(n))
         /\ WF_vars(wait_readers_statuses(n))
         /\ WF_vars(wait_park(n))
         /\ WF_vars(wait_unpark(n))
         /\ WF_vars(remove_node_id(n))
         /\ WF_vars(Cooperating(n) /\ node_return(n))
         /\ WF_vars(stop_node(n))
    /\ WF_vars(notify_all_waiters)
    /\ WF_vars(take_node_stoppers)
    /\ WF_vars(join_node)
    /\ WF_vars(stop_done)

Spec == Init /\ [][Next]_vars /\ Fairness

-----------------------------------------------------------------------------
TypeOK ==
    /\ handles \in [Nodes -> SUBSET Halves]
    /\ queue \in [Chans -> 0..MaxQueue]
    /\ waiters \in [Chans -> SUBSET Nodes]
    /\ token \in [Nodes -> BOOLEAN]
    /\ pc \in [Nodes -> {"idle", "exiting", "done"} \cup InWaitPcs]
    /\ result \in [Nodes -> {"none", "terminated"}]
    /\ waitDg \in [Nodes -> BOOLEAN]
    /\ stopPc \in {"idle", "notify", "take", "join", "done"}
    /\ taken \subseteq Nodes
    /\ joining \in Nodes \cup {NoNode}

\* No lost wakeup (spec 4.6, P4): a thread parked with no pending unpark
\* waits only on channels that are all NotReady; a message enqueued or a
\* channel orphaned after the statuses were read always left a token,
\* because add_waiter comes before readers_statuses.
NoLostWakeup ==
    \A n \in Nodes :
        (pc[n] = "parked" /\ ~token[n])
            => \A c \in waitSet[n] : channel_status(n, c, waitDg[n]) = "NotReady"

\* Wait liveness (P4): once a channel a thread waits on has a message or is
\* orphaned, that wait_on_channels call returns.
WaitReturnsWhenReady ==
    \A n \in Nodes :
        (pc[n] \in InWaitPcs /\ \E c \in waitSet[n] : channel_status(n, c, waitDg[n]) # "NotReady")
            ~> (pc[n] \notin InWaitPcs)

\* The loop of wait_on_channels seen from outside: each call in progress is
\* its valid channels, whether its handle list was empty or held an invalid
\* handle, and whether it began after stop.
AW == INSTANCE AbstractWait WITH
        waiting <- [n \in Nodes |->
                      IF pc[n] \in InWaitPcs
                      THEN [chans |-> waitSet[n], invalid |-> waitInvalid[n],
                            dg |-> waitDg[n], afterStop |-> waitStop[n]]
                      ELSE [idle |-> TRUE]],
        status <- [n \in Nodes |-> [c \in Chans |-> [dg \in BOOLEAN |->
                      channel_status(n, c, dg)]]],
        terminated <- [n \in Nodes |-> result[n] = "terminated"]

\* wait_on_channels implements the atomic wait of AbstractWait (spec 4.6,
\* P5): whatever interleaving of its steps with writes, closes, exits and
\* stop, a call returns its statuses only while one of its channels is
\* ready or orphaned (or its handle list was invalid), returns ErrTerminated
\* only once the Runtime terminates, and a call begun after stop never
\* returns statuses.
ImplementsAbstractWait == AW!Spec

\* Termination (P5): once stop is called it returns, every Node thread
\* having been joined, given Nodes that exit when told to.
StopCompletes == (stopPc # "idle") ~> (stopPc = "done")
=============================================================================

------------------------------ MODULE OakRuntime ------------------------------
(***************************************************************************)
(* The Oak Runtime core: per-Node handle tables, labelled channels whose   *)
(* messages carry channel halves, the IFC checks on every operation, the   *)
(* Node lifecycle (register, start, attach stopper, remove) and            *)
(* Runtime::stop taking and joining the NodeStoppers.                     *)
(*                                                                         *)
(* Node 0 is the implicit initial Node: it has no thread of its own; the  *)
(* main thread acts for it and finally calls stop.  Every other Node runs *)
(* on its own thread.  The multi-channel wait and the wakeups are the     *)
(* subject of WaitProtocol and are left out here.                          *)
(*                                                                         *)
(* A channel lives while a half of it is alive: in a handle table, or in  *)
(* a message queued in a live channel (Arc semantics, so a cycle through  *)
(* queues keeps its channels alive).  reader_count and writer_count are   *)
(* the live halves of each direction.                                      *)
(***************************************************************************)
EXTENDS Labels, Naturals, Sequences, SequencesExt

CONSTANTS
    MaxNodes,      \* NodeIds 0 .. MaxNodes-1 can be allocated
    MaxChannels,   \* ChannelIds 0 .. MaxChannels-1 can be allocated
    HandleVals,    \* the values new_abi_handle may draw (model values)
    NodeLabels,    \* labels a Node or a channel may be created with
    Privileges,    \* privileges the NodeFactory may grant
    MaxQueue,      \* bound on the messages queued in one channel
    MaxSent        \* bound on the handles carried by one message

NodeIds == 0 .. MaxNodes - 1
ChanIds == 0 .. MaxChannels - 1
Half == [ch : ChanIds, dir : {"Read", "Write"}]
NoHalf == [ch |-> -1, dir |-> "None"]
Message == [origin : Label, halves : BoundedSeq(Half, MaxSent)]
Isolation == {"Sandboxed", "Uncontrolled"}
NoNode == -1
NoReport == [ch |-> -1, msg |-> [origin |-> public_untrusted, halves |-> <<>>]]

ASSUME /\ MaxNodes \in Nat \ {0} /\ MaxChannels \in Nat
       /\ NodeLabels \subseteq Label /\ Privileges \subseteq Privilege
       /\ MaxQueue \in Nat \ {0} /\ MaxSent \in Nat

VARIABLES
    nodes,            \* NodeIds present in node_infos
    label,            \* NodeInfo.label
    privilege,        \* NodeInfo.privilege
    abi_handles,      \* NodeInfo.abi_handles: [NodeIds -> [HandleVals -> Half]]
    node_stopper,     \* NodeInfo.node_stopper is Some
    next_node_id,
    next_channel_id,
    chanLabel,        \* Channel.label
    messages,         \* Channel.messages
    live,             \* ChannelIds whose Channel is still allocated
    pc,               \* where each Node thread is
    regChild,         \* the NodeId a registration in progress created
    terminating,
    stopPc,           \* where Runtime::stop (run by the main thread) is
    taken,            \* NodeStoppers taken out of node_infos, not joined yet
    joining,          \* the Node whose thread stop_node joins
    seen,             \* history: each message read, its origin as the reader saw it
    closedBy,         \* history: labels of the Nodes whose drop left a channel readerless
    learned,          \* history: the closedBy a writer saw through ErrChannelClosed
    reported          \* history: the channel and front message of each Node's last
                      \* NeedsCapacity, until a read of that channel takes a message

vars == <<nodes, label, privilege, abi_handles, node_stopper, next_node_id,
          next_channel_id, chanLabel, messages, live, pc, regChild,
          terminating, stopPc, taken, joining, seen, closedBy, learned, reported>>
stopVars == <<terminating, stopPc, taken, joining>>
nodeVars == <<nodes, label, privilege, node_stopper, next_node_id, regChild>>
chanVars == <<next_channel_id, chanLabel, messages, live, closedBy>>

-----------------------------------------------------------------------------
(* Halves and channel reclamation                                           *)

TableHalves(H) == UNION {Range(H[n]) : n \in NodeIds} \ {NoHalf}
QueuedHalves(M, L) ==
    UNION {UNION {ToSet(m.halves) : m \in ToSet(M[c])} : c \in L}

\* Arc reclamation: drop every channel no live half points at, which drops
\* its queue and the halves in it, until nothing more is dropped.
RECURSIVE Surviving(_, _, _)
Surviving(L, H, M) ==
    LET keep == {c \in L : \E h \in TableHalves(H) \cup QueuedHalves(M, L) :
                              h.ch = c}
    IN  IF keep = L THEN L ELSE Surviving(keep, H, M)

\* The channels some live read half points at.
Readable(H, M, L) ==
    {h.ch : h \in {h \in TableHalves(H) \cup QueuedHalves(M, L) : h.dir = "Read"}}

\* Node n's drop makes the handle tables H and the queues M; reclaim what
\* became garbage, and note n's label on every channel left without readers.
Reclaim(n, H, M) ==
    LET L  == Surviving(live, H, M)
        M2 == [c \in ChanIds |-> IF c \in L THEN M[c] ELSE <<>>]
        gone == Readable(abi_handles, messages, live) \ Readable(H, M2, L)
    IN  /\ abi_handles' = H
        /\ live' = L
        /\ messages' = M2
        /\ closedBy' = [c \in ChanIds |->
                          IF c \in gone THEN closedBy[c] \cup {label[n]} ELSE closedBy[c]]

has_readers(c) == c \in Readable(abi_handles, messages, live)

\* new_abi_handle for each half of `hs`, in order: draw unused values.
\* (The code retries random u64 values until one is unused.)
InstallHalves(t, hs) ==
    {[v \in HandleVals |->
        IF \E i \in DOMAIN hs : vs[i] = v
        THEN hs[CHOOSE i \in DOMAIN hs : vs[i] = v] ELSE t[v]] :
       vs \in {f \in [DOMAIN hs -> {v \in HandleVals : t[v] = NoHalf}] :
                 \A i, j \in DOMAIN hs : i # j => f[i] # f[j]}}

-----------------------------------------------------------------------------
(* IFC checks                                                               *)

\* Mutant: the privilege is applied whether or not the Node asked for it.
CanWrite_alwaysdowngrade(n, target, dg) ==
    flows_to(downgrade_label(privilege[n], label[n]), target)

\* validate_can_write_to_label
CanWrite(n, target, dg) ==
    flows_to(effective_label(privilege[n], label[n], dg), target)

\* validate_can_read_from_label
CanRead(n, source, dg) ==
    flows_to(effective_label(privilege[n], source, dg), label[n])

Running(n) == n \in nodes /\ pc[n] = "idle"

\* abi_to_half: the half a handle value names, NoHalf (ErrBadHandle) if none.
abi_to_half(n, v) == abi_handles[n][v]

\* abi_to_read_half / abi_to_write_half: ErrBadHandle also for the other direction.
abi_to_read_half(n, v) == IF abi_to_half(n, v).dir = "Read" THEN abi_to_half(n, v) ELSE NoHalf
abi_to_write_half(n, v) == IF abi_to_half(n, v).dir = "Write" THEN abi_to_half(n, v) ELSE NoHalf

\* A Node thread that has ended, normally or by a panic.
Ended == {"done", "panicked"}

-----------------------------------------------------------------------------
Init ==
    /\ nodes = {0}
    /\ label = [n \in NodeIds |-> public_untrusted]
    /\ privilege = [n \in NodeIds |-> [declassify |-> {}, endorse |-> {}]]
    /\ abi_handles = [n \in NodeIds |-> [v \in HandleVals |-> NoHalf]]
    /\ node_stopper = [n \in NodeIds |-> FALSE]
    /\ next_node_id = 1
    /\ next_channel_id = 0
    /\ chanLabel = [c \in ChanIds |-> public_untrusted]
    /\ messages = [c \in ChanIds |-> <<>>]
    /\ live = {}
    /\ pc = [n \in NodeIds |-> IF n = 0 THEN "idle" ELSE "none"]
    /\ regChild = [n \in NodeIds |-> NoNode]
    /\ terminating = FALSE
    /\ stopPc = "idle"
    /\ taken = {}
    /\ joining = NoNode
    /\ seen = [n \in NodeIds |-> {}]
    /\ closedBy = [c \in ChanIds |-> {}]
    /\ learned = [n \in NodeIds |-> {}]
    /\ reported = [n \in NodeIds |-> NoReport]

-----------------------------------------------------------------------------
(* Channel operations                                                       *)

\* channel_create: two IFC checks, a fresh channel, a write and a read handle.
channel_create(n, L, dg) ==
    /\ Running(n) /\ ~terminating
    /\ CanWrite(n, public_untrusted, dg) /\ CanWrite(n, L, dg)
    /\ next_channel_id < MaxChannels
    /\ LET c == next_channel_id
       IN  /\ next_channel_id' = c + 1
           /\ chanLabel' = [chanLabel EXCEPT ![c] = L]
           /\ live' = live \cup {c}
           /\ \E t \in InstallHalves(abi_handles[n],
                         <<[ch |-> c, dir |-> "Write"], [ch |-> c, dir |-> "Read"]>>) :
                abi_handles' = [abi_handles EXCEPT ![n] = t]
    /\ UNCHANGED <<nodeVars, messages, closedBy, pc, stopVars, seen, learned, reported>>

\* handle_clone: a new handle to the same half.
handle_clone(n, v) ==
    /\ Running(n) /\ ~terminating
    /\ abi_to_half(n, v) # NoHalf
    /\ \E t \in InstallHalves(abi_handles[n], <<abi_to_half(n, v)>>) :
         abi_handles' = [abi_handles EXCEPT ![n] = t]
    /\ UNCHANGED <<nodeVars, chanVars, pc, stopVars, seen, learned, reported>>

\* channel_write: resolve the write half, check the label, translate the
\* sent handles (message_from), then ErrChannelClosed or enqueue.
channel_write(n, v, sent, dg) ==
    LET h == abi_to_write_half(n, v)
    IN  /\ Running(n)
        /\ h # NoHalf
        /\ CanWrite(n, chanLabel[h.ch], dg)
        /\ \A i \in DOMAIN sent : abi_to_half(n, sent[i]) # NoHalf
        /\ IF has_readers(h.ch)
             THEN /\ Len(messages[h.ch]) < MaxQueue
                  /\ messages' = [messages EXCEPT ![h.ch] = Append(@,
                        [origin |-> effective_label(privilege[n], label[n], dg),
                         halves |-> [i \in DOMAIN sent |-> abi_to_half(n, sent[i])]])]
                  /\ UNCHANGED learned
             ELSE /\ learned' = [learned EXCEPT ![n] = @ \cup closedBy[h.ch]]
                  /\ UNCHANGED messages
        /\ UNCHANGED <<nodeVars, next_channel_id, chanLabel, live, closedBy,
                       abi_handles, pc, stopVars, seen, reported>>

\* channel_read: resolve the read half, check the label, pop the front
\* message and install its halves as new handles of the reader.
channel_read(n, v, dg) ==
    LET h == abi_to_read_half(n, v)
    IN  /\ Running(n)
        /\ h # NoHalf
        /\ CanRead(n, chanLabel[h.ch], dg)
        /\ messages[h.ch] # <<>>
        /\ LET m == Head(messages[h.ch])
           IN  /\ \E t \in InstallHalves(abi_handles[n], m.halves) :
                    abi_handles' = [abi_handles EXCEPT ![n] = t]
               /\ messages' = [messages EXCEPT ![h.ch] = Tail(@)]
               /\ seen' = [seen EXCEPT ![n] =
                        @ \cup {effective_label(privilege[n], m.origin, dg)}]
               /\ reported' = [k \in NodeIds |->
                        IF reported[k].ch = h.ch THEN NoReport ELSE reported[k]]
        /\ UNCHANGED <<nodeVars, next_channel_id, chanLabel, live, closedBy, pc,
                       stopVars, learned>>

\* channel_try_read_message: as channel_read, under the channel's write lock,
\* but only when the front message fits the caller's capacities; otherwise
\* NeedsCapacity and the message stays queued.  The byte size is abstracted:
\* `bytesFit` is the outcome of comparing it with bytes_capacity.
channel_try_read_message(n, v, handles_capacity, bytesFit, dg) ==
    LET h == abi_to_read_half(n, v)
    IN  /\ h # NoHalf
        /\ messages[h.ch] # <<>>
        /\ bytesFit /\ Len(Head(messages[h.ch]).halves) <= handles_capacity
        /\ channel_read(n, v, dg)

\* Mutant: the front message is popped before the capacities are compared.
channel_try_read_needs_capacity_pops(n, v, handles_capacity, bytesFit, dg) ==
    LET h == abi_to_read_half(n, v)
    IN  /\ Running(n)
        /\ h # NoHalf
        /\ CanRead(n, chanLabel[h.ch], dg)
        /\ messages[h.ch] # <<>>
        /\ ~(bytesFit /\ Len(Head(messages[h.ch]).halves) <= handles_capacity)
        /\ reported' = [reported EXCEPT ![n] = [ch |-> h.ch, msg |-> Head(messages[h.ch])]]
        /\ messages' = [messages EXCEPT ![h.ch] = Tail(@)]
        /\ UNCHANGED <<nodeVars, abi_handles, next_channel_id, chanLabel, live, closedBy,
                       pc, stopVars, seen, learned>>

\* channel_try_read_message when the front message does not fit: under the
\* channel's write lock it reports NeedsCapacity with the front message's
\* sizes and leaves it queued, so the caller can retry with them.
channel_try_read_needs_capacity(n, v, handles_capacity, bytesFit, dg) ==
    LET h == abi_to_read_half(n, v)
    IN  /\ Running(n)
        /\ h # NoHalf
        /\ CanRead(n, chanLabel[h.ch], dg)
        /\ messages[h.ch] # <<>>
        /\ ~(bytesFit /\ Len(Head(messages[h.ch]).halves) <= handles_capacity)
        /\ reported' = [reported EXCEPT ![n] = [ch |-> h.ch, msg |-> Head(messages[h.ch])]]
        /\ UNCHANGED <<nodeVars, abi_handles, chanVars, pc, stopVars, seen, learned>>

\* channel_close: drop_abi_handle; the half is dropped, and with it maybe
\* the channel and what its queue holds.
channel_close(n, v) ==
    /\ Running(n)
    /\ abi_to_half(n, v) # NoHalf
    /\ Reclaim(n, [abi_handles EXCEPT ![n][v] = NoHalf], messages)
    /\ UNCHANGED <<nodeVars, next_channel_id, chanLabel, pc, stopVars, seen, learned, reported>>

-----------------------------------------------------------------------------
(* Node lifecycle                                                           *)

\* proxy_for_new_node: new_node_id, a fetch_add on next_node_id.
proxy_for_new_node(id) == id = next_node_id /\ next_node_id' = id + 1

\* node_configure_instance and add_node_info: insert a NodeInfo with the
\* label and privilege, an empty handle table and no stopper.
node_configure_instance(id, L, pr) ==
    /\ nodes' = nodes \cup {id}
    /\ label' = [label EXCEPT ![id] = L]
    /\ privilege' = [privilege EXCEPT ![id] = pr]

\* node_create_and_register / node_register up to node_configure_instance
\* and the new Node's initial handle: factory, terminating, the two IFC
\* checks, the privilege check of an Uncontrolled Node, the initial handle.
node_register(n, L, pr, iso, v, dg) ==
    LET h == abi_to_read_half(n, v)
        id == next_node_id
    IN  /\ Running(n) /\ ~terminating
        /\ CanWrite(n, public_untrusted, dg) /\ CanWrite(n, L, dg)
        /\ iso = "Uncontrolled" => flows_to(downgrade_label(pr, L), public_untrusted)
        /\ h # NoHalf
        /\ id < MaxNodes
        /\ proxy_for_new_node(id)
        /\ node_configure_instance(id, L, pr)
        /\ \E t \in InstallHalves(abi_handles[id], <<h>>) :
             abi_handles' = [abi_handles EXCEPT ![id] = t]
        /\ regChild' = [regChild EXCEPT ![n] = id]
        /\ pc' = [pc EXCEPT ![n] = "reg_start"]
        /\ UNCHANGED <<node_stopper, chanVars, stopVars, seen, learned, reported>>

\* node_start_instance: spawn the Node's thread.
node_start_instance(n) ==
    /\ pc[n] = "reg_start"
    /\ pc' = [pc EXCEPT ![n] = "reg_stopper", ![regChild[n]] = "idle"]
    /\ UNCHANGED <<nodeVars, abi_handles, chanVars, stopVars, seen, learned, reported>>

\* Mutant: the stopper is attached without checking the NodeInfo is there.
add_node_stopper_unchecked(n) ==
    /\ pc[n] = "reg_stopper"
    /\ node_stopper' = [node_stopper EXCEPT ![regChild[n]] = TRUE]
    /\ regChild' = [regChild EXCEPT ![n] = NoNode]
    /\ pc' = [pc EXCEPT ![n] = "idle"]
    /\ UNCHANGED <<nodes, label, privilege, next_node_id, abi_handles,
                   chanVars, stopVars, seen, learned, reported>>

\* add_node_stopper: attach the stopper, unless the Node is already gone.
add_node_stopper(n) ==
    /\ pc[n] = "reg_stopper"
    /\ node_stopper' = IF regChild[n] \in nodes
                       THEN [node_stopper EXCEPT ![regChild[n]] = TRUE]
                       ELSE node_stopper
    /\ regChild' = [regChild EXCEPT ![n] = NoNode]
    /\ pc' = [pc EXCEPT ![n] = "idle"]
    /\ UNCHANGED <<nodes, label, privilege, next_node_id, abi_handles,
                   chanVars, stopVars, seen, learned, reported>>

\* Node::run returns on the Node's own thread.
node_return(n) ==
    /\ n # 0 /\ Running(n)
    /\ pc' = [pc EXCEPT ![n] = "exiting"]
    /\ UNCHANGED <<nodeVars, abi_handles, chanVars, stopVars, seen, learned, reported>>

\* remove_node_id: close the remaining handles, remove the NodeInfo (and a
\* stopper still in it); the thread then ends.
remove_node_id(n) ==
    /\ pc[n] = "exiting"
    /\ Reclaim(n, [abi_handles EXCEPT ![n] = [v \in HandleVals |-> NoHalf]], messages)
    /\ nodes' = nodes \ {n}
    /\ node_stopper' = [node_stopper EXCEPT ![n] = FALSE]
    /\ pc' = [pc EXCEPT ![n] = "done"]
    /\ UNCHANGED <<label, privilege, next_node_id, regChild, next_channel_id,
                   chanLabel, stopVars, seen, learned, reported>>

\* Node::run panics: the thread unwinds before remove_node_id, so the
\* NodeInfo, its handles and its stopper stay in node_infos.
node_panic(n) ==
    /\ n # 0 /\ Running(n)
    /\ pc' = [pc EXCEPT ![n] = "panicked"]
    /\ UNCHANGED <<nodeVars, abi_handles, chanVars, stopVars, seen, learned, reported>>

\* thread::Builder::spawn fails: the `expect` panics the registering Node's
\* thread after node_configure_instance, leaving the new NodeInfo with its
\* initial handle, no thread and no stopper.
node_start_instance_fails(n) ==
    /\ n # 0 /\ pc[n] = "reg_start"
    /\ pc' = [pc EXCEPT ![n] = "panicked"]
    /\ UNCHANGED <<nodeVars, abi_handles, chanVars, stopVars, seen, learned, reported>>

-----------------------------------------------------------------------------
(* Runtime::stop, called by the main thread once it is done as Node 0       *)

\* terminating.store(true) and notify_all_waiters.
stop ==
    /\ stopPc = "idle" /\ pc[0] = "idle"
    /\ terminating' = TRUE
    /\ stopPc' = "take"
    /\ pc' = [pc EXCEPT ![0] = "stopping"]
    /\ UNCHANGED <<nodeVars, abi_handles, chanVars, taken, joining, seen, learned, reported>>

\* take_node_stoppers: every NodeInfo gives up its stopper.
take_node_stoppers ==
    /\ stopPc = "take"
    /\ taken' = {n \in nodes : node_stopper[n]}
    /\ node_stopper' = [n \in NodeIds |-> FALSE]
    /\ stopPc' = "join"
    /\ UNCHANGED <<nodes, label, privilege, next_node_id, regChild,
                   abi_handles, chanVars, pc, terminating, joining, seen, learned, reported>>

\* NodeStopper::stop_node: notify, then join the thread.
stop_node(n) ==
    /\ stopPc = "join" /\ joining = NoNode /\ n \in taken
    /\ joining' = n
    /\ UNCHANGED <<nodeVars, abi_handles, chanVars, pc, terminating, stopPc,
                   taken, seen, learned, reported>>

\* Mutant: the join waits for remove_node_id, which a panicked thread never runs.
join_node_after_remove ==
    /\ stopPc = "join" /\ joining # NoNode /\ pc[joining] = "done"
    /\ taken' = taken \ {joining}
    /\ joining' = NoNode
    /\ UNCHANGED <<nodeVars, abi_handles, chanVars, pc, terminating, stopPc, seen, learned, reported>>

join_node ==
    /\ stopPc = "join" /\ joining # NoNode /\ pc[joining] \in Ended
    /\ taken' = taken \ {joining}
    /\ joining' = NoNode
    /\ UNCHANGED <<nodeVars, abi_handles, chanVars, pc, terminating, stopPc, seen, learned, reported>>

stop_done ==
    /\ stopPc = "join" /\ joining = NoNode /\ taken = {}
    /\ stopPc' = "done"
    /\ UNCHANGED <<nodeVars, abi_handles, chanVars, pc, terminating, taken,
                   joining, seen, learned, reported>>

\* stop has returned and every Node thread has ended: the program exits.
Finished ==
    /\ stopPc = "done"
    /\ \A n \in NodeIds \ {0} : pc[n] \in {"none"} \cup Ended
    /\ UNCHANGED vars

-----------------------------------------------------------------------------
Next ==
    \/ \E n \in NodeIds :
         \/ \E L \in NodeLabels, dg \in BOOLEAN : channel_create(n, L, dg)
         \/ \E v \in HandleVals :
              \/ handle_clone(n, v)
              \/ channel_close(n, v)
              \/ \E dg \in BOOLEAN :
                   \/ channel_read(n, v, dg)
                   \/ \E hc \in 0 .. MaxSent, fit \in BOOLEAN :
                        \/ channel_try_read_message(n, v, hc, fit, dg)
                        \/ channel_try_read_needs_capacity(n, v, hc, fit, dg)
                   \/ \E sent \in BoundedSeq(HandleVals, MaxSent) :
                        channel_write(n, v, sent, dg)
                   \/ \E L \in NodeLabels, pr \in Privileges, iso \in Isolation :
                        node_register(n, L, pr, iso, v, dg)
         \/ node_start_instance(n)
         \/ node_start_instance_fails(n)
         \/ node_panic(n)
         \/ add_node_stopper(n)
         \/ node_return(n)
         \/ remove_node_id(n)
         \/ stop_node(n)
    \/ stop
    \/ take_node_stoppers
    \/ join_node
    \/ stop_done
    \/ Finished

\* The Runtime's own steps are fair, and so is the return of a Node once it
\* sees the Runtime terminating (a cooperative Node, P5); Node calls,
\* panics, failed spawns and the call of stop are not.
Fairness ==
    /\ \A n \in NodeIds :
         /\ WF_vars(node_start_instance(n))
         /\ WF_vars(add_node_stopper(n))
         /\ WF_vars(remove_node_id(n))
         /\ WF_vars(stop_node(n))
         /\ WF_vars(terminating /\ node_return(n))
    /\ WF_vars(take_node_stoppers)
    /\ WF_vars(join_node)
    /\ WF_vars(stop_done)

Spec == Init /\ [][Next]_vars /\ Fairness

-----------------------------------------------------------------------------
TypeOK ==
    /\ nodes \subseteq NodeIds
    /\ abi_handles \in [NodeIds -> [HandleVals -> Half \cup {NoHalf}]]
    /\ messages \in [ChanIds -> BoundedSeq(Message, MaxQueue)]
    /\ live \subseteq ChanIds
    /\ pc \in [NodeIds -> {"none", "idle", "reg_start", "reg_stopper",
                           "exiting", "done", "panicked", "stopping"}]
    /\ closedBy \in [ChanIds -> SUBSET Label]
    /\ learned \in [NodeIds -> SUBSET Label]
    /\ reported \in [NodeIds -> [ch : ChanIds \cup {-1}, msg : Message]]
    /\ taken \subseteq nodes \cup {n \in NodeIds : pc[n] # "none"}
    /\ {n \in NodeIds : node_stopper[n]} \subseteq nodes

\* No read up (P1 carried through channels): whatever a Node reads was
\* written by a Node whose effective label, after the reader applies its
\* own privilege when it asked to, flows to the reader's label.  Needs the
\* write check of channel_write, the label fixed at channel_create and the
\* read check of channel_read to agree, across two Nodes.
NoReadUp == \A n \in NodeIds : \A o \in seen[n] : flows_to(o, label[n])

\* No read up through ErrChannelClosed (P1 for the result of a failed
\* write): what a writer learns from ErrChannelClosed, that the last read
\* halves of the channel were dropped, comes only from Nodes whose label
\* flows to the writer's label.
NoReadUpThroughClose ==
    \A n \in NodeIds : \A l \in learned[n] : flows_to(l, label[n])

\* Runtime::stop (spec 4.7, scenario 6): when stop returns it has joined
\* the thread of every Node that was started.
StopJoinsEveryNode ==
    stopPc = "done" => \A n \in NodeIds \ {0} : pc[n] \in {"none"} \cup Ended

\* Termination despite faults (P5): once stop is called it returns, given
\* Nodes that return when the Runtime terminates, although Node threads may
\* panic and spawns may fail; a panicked thread is joined with an error.
StopReturns == (stopPc # "idle") ~> (stopPc = "done")

\* Capacity probe (spec scenario 5, the comment at channel_try_read_message):
\* after NeedsCapacity the reported message stays at the front of the
\* channel, so a retry with the reported capacities gets exactly it, until
\* some read takes a message from the channel, for as long as the Node
\* still holds a read half of it; writes, clones, closes, reclamation and
\* Node exits elsewhere never move or drop it.
RetryFindsReportedMessage ==
    \A n \in NodeIds :
        LET r == reported[n]
        IN  (r # NoReport /\ [ch |-> r.ch, dir |-> "Read"] \in Range(abi_handles[n]))
               => messages[r.ch] # <<>> /\ Head(messages[r.ch]) = r.msg
=============================================================================

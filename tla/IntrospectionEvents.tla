-------------------------- MODULE IntrospectionEvents --------------------------
(***************************************************************************)
(* The introspection event stream of the Runtime (spec 4.8, I6): which    *)
(* event each operation appends to the log, and when, relative to the     *)
(* state change it reports.  Every event is appended under the log's own  *)
(* mutex, so the log is a total order; but channel_write appends its       *)
(* MessageEnqueued, and channel_read its MessageDequeued, only after the   *)
(* channel lock is released, so another thread's steps can come between.  *)
(*                                                                         *)
(* Labels and the IFC checks are left out (a failed check appends no       *)
(* event), and messages carry no handles: the halves they would carry, and *)
(* the HandleCreated events of the reader, are the subject of OakRuntime.  *)
(***************************************************************************)
EXTENDS Naturals, Sequences, SequencesExt

CONSTANTS
    MaxNodes,      \* NodeIds 0 .. MaxNodes-1 can be allocated
    MaxChannels,   \* ChannelIds 0 .. MaxChannels-1 can be allocated
    HandleVals,    \* the values new_abi_handle may draw (model values)
    MaxQueue,      \* bound on the messages queued in one channel
    MaxEvents      \* bound on the length of the explored logs (state constraint)

NodeIds == 0 .. MaxNodes - 1
ChanIds == 0 .. MaxChannels - 1
Dirs == {"Read", "Write"}
Half == [ch : ChanIds, dir : Dirs]
NoHalf == [ch |-> -1, dir |-> "None"]
NoNode == -1
NoChan == -1

Kinds == {"ChannelCreated", "HandleCreated", "HandleDestroyed", "MessageEnqueued",
          "MessageDequeued", "NodeCreated", "NodeDestroyed"}
Event == [kind : Kinds, node : NodeIds \cup {NoNode}, ch : ChanIds \cup {NoChan},
          dir : Dirs \cup {"None"}]
Ev(k, n, c) == [kind |-> k, node |-> n, ch |-> c, dir |-> "None"]
HandleEv(k, n, h) == [kind |-> k, node |-> n, ch |-> h.ch, dir |-> h.dir]

VARIABLES
    nodes,            \* NodeIds present in node_infos
    abi_handles,      \* NodeInfo.abi_handles
    next_node_id,
    next_channel_id,
    queued,           \* length of Channel.messages
    pc,               \* where each Node thread is
    pending,          \* the channel whose event a thread has still to append
    log               \* introspection_event_queue

vars == <<nodes, abi_handles, next_node_id, next_channel_id, queued, pc, pending,
          log>>

Running(n) == n \in nodes /\ pc[n] = "idle"
has_readers(c) == \E n \in NodeIds, v \in HandleVals : abi_handles[n][v] = [ch |-> c, dir |-> "Read"]
Handles(n) == {v \in HandleVals : abi_handles[n][v] # NoHalf}

\* introspection_event: append under the log's mutex.
introspection_event(es) == log' = log \o es

\* new_abi_handle: the table with the half installed under an unused value.
new_abi_handle(t, h) == {[t EXCEPT ![v] = h] : v \in {v \in HandleVals : t[v] = NoHalf}}

-----------------------------------------------------------------------------
\* Runtime::start_runtime configures the implicit initial Node 0.
Init ==
    /\ nodes = {0}
    /\ abi_handles = [n \in NodeIds |-> [v \in HandleVals |-> NoHalf]]
    /\ next_node_id = 1
    /\ next_channel_id = 0
    /\ queued = [c \in ChanIds |-> 0]
    /\ pc = [n \in NodeIds |-> IF n = 0 THEN "idle" ELSE "none"]
    /\ pending = [n \in NodeIds |-> NoChan]
    /\ log = <<Ev("NodeCreated", 0, NoChan)>>

\* Mutant: the handles are installed before ChannelCreated is appended.
channel_create_handlesfirst(n) ==
    LET c == next_channel_id
        w == [ch |-> c, dir |-> "Write"]
        r == [ch |-> c, dir |-> "Read"]
    IN  /\ Running(n) /\ c < MaxChannels
        /\ next_channel_id' = c + 1
        /\ \E t1 \in new_abi_handle(abi_handles[n], w) :
             \E t2 \in new_abi_handle(t1, r) : abi_handles' = [abi_handles EXCEPT ![n] = t2]
        /\ introspection_event(<<HandleEv("HandleCreated", n, w),
                                 HandleEv("HandleCreated", n, r), Ev("ChannelCreated", NoNode, c)>>)
        /\ UNCHANGED <<nodes, next_node_id, queued, pc, pending>>

\* channel_create: ChannelCreated, then a write and a read handle.
channel_create(n) ==
    LET c == next_channel_id
        w == [ch |-> c, dir |-> "Write"]
        r == [ch |-> c, dir |-> "Read"]
    IN  /\ Running(n) /\ c < MaxChannels
        /\ next_channel_id' = c + 1
        /\ \E t1 \in new_abi_handle(abi_handles[n], w) :
             \E t2 \in new_abi_handle(t1, r) : abi_handles' = [abi_handles EXCEPT ![n] = t2]
        /\ introspection_event(<<Ev("ChannelCreated", NoNode, c),
                                 HandleEv("HandleCreated", n, w), HandleEv("HandleCreated", n, r)>>)
        /\ UNCHANGED <<nodes, next_node_id, queued, pc, pending>>

\* handle_clone: a new handle to the same half.
handle_clone(n, v) ==
    LET h == abi_handles[n][v]
    IN  /\ Running(n) /\ h # NoHalf
        /\ \E t \in new_abi_handle(abi_handles[n], h) : abi_handles' = [abi_handles EXCEPT ![n] = t]
        /\ introspection_event(<<HandleEv("HandleCreated", n, h)>>)
        /\ UNCHANGED <<nodes, next_node_id, next_channel_id, queued, pc, pending>>

\* channel_write, under the channel lock: ErrChannelClosed when the channel
\* has no readers, else push the message and wake the waiters.
channel_write(n, v) ==
    LET h == abi_handles[n][v]
    IN  /\ Running(n) /\ h.dir = "Write"
        /\ IF has_readers(h.ch)
             THEN /\ queued[h.ch] < MaxQueue
                  /\ queued' = [queued EXCEPT ![h.ch] = @ + 1]
             ELSE UNCHANGED queued
        /\ pending' = [pending EXCEPT ![n] = h.ch]
        /\ pc' = [pc EXCEPT ![n] = "write_event"]
        /\ UNCHANGED <<nodes, abi_handles, next_node_id, next_channel_id, log>>

\* channel_write, after the channel lock: MessageEnqueued, whatever the result.
channel_write_event(n) ==
    /\ pc[n] = "write_event"
    /\ introspection_event(<<Ev("MessageEnqueued", n, pending[n])>>)
    /\ pending' = [pending EXCEPT ![n] = NoChan]
    /\ pc' = [pc EXCEPT ![n] = "idle"]
    /\ UNCHANGED <<nodes, abi_handles, next_node_id, next_channel_id, queued>>

\* Mutant: the pop does not check for an empty queue.
channel_read_noempty(n, v) ==
    LET h == abi_handles[n][v]
    IN  /\ Running(n) /\ h.dir = "Read"
        /\ queued' = [queued EXCEPT ![h.ch] = @ - 1]
        /\ pending' = [pending EXCEPT ![n] = h.ch]
        /\ pc' = [pc EXCEPT ![n] = "read_event"]
        /\ UNCHANGED <<nodes, abi_handles, next_node_id, next_channel_id, log>>

\* channel_read, under the channel lock: pop the front message (an empty
\* queue gives None or ErrChannelClosed and no event).
channel_read(n, v) ==
    LET h == abi_handles[n][v]
    IN  /\ Running(n) /\ h.dir = "Read"
        /\ queued[h.ch] > 0
        /\ queued' = [queued EXCEPT ![h.ch] = @ - 1]
        /\ pending' = [pending EXCEPT ![n] = h.ch]
        /\ pc' = [pc EXCEPT ![n] = "read_event"]
        /\ UNCHANGED <<nodes, abi_handles, next_node_id, next_channel_id, log>>

\* channel_read, after the lock and node_message_from: MessageDequeued.
channel_read_event(n) ==
    /\ pc[n] = "read_event"
    /\ introspection_event(<<Ev("MessageDequeued", n, pending[n])>>)
    /\ pending' = [pending EXCEPT ![n] = NoChan]
    /\ pc' = [pc EXCEPT ![n] = "idle"]
    /\ UNCHANGED <<nodes, abi_handles, next_node_id, next_channel_id, queued>>

\* channel_close: drop_abi_handle removes the handle and appends HandleDestroyed.
channel_close(n, v) ==
    /\ Running(n) /\ abi_handles[n][v] # NoHalf
    /\ abi_handles' = [abi_handles EXCEPT ![n][v] = NoHalf]
    /\ introspection_event(<<HandleEv("HandleDestroyed", n, abi_handles[n][v])>>)
    /\ UNCHANGED <<nodes, next_node_id, next_channel_id, queued, pc, pending>>

\* node_configure_instance: NodeCreated, appended before the NodeInfo is added.
node_configure_instance(id) == Ev("NodeCreated", id, NoChan)

\* node_register: configure the new Node, install its initial handle, start
\* its thread (the stopper, attached afterwards, appends no event).
node_register(n, v) ==
    LET h == abi_handles[n][v]
        id == next_node_id
    IN  /\ Running(n) /\ h.dir = "Read"
        /\ id < MaxNodes
        /\ next_node_id' = id + 1
        /\ nodes' = nodes \cup {id}
        /\ \E t \in new_abi_handle(abi_handles[id], h) : abi_handles' = [abi_handles EXCEPT ![id] = t]
        /\ introspection_event(<<node_configure_instance(id), HandleEv("HandleCreated", id, h)>>)
        /\ pc' = [pc EXCEPT ![id] = "idle"]
        /\ UNCHANGED <<next_channel_id, queued, pending>>

\* Mutant: the NodeInfo is dropped with its table, without closing each handle.
remove_node_id_noclose(n) ==
    /\ n # 0 /\ Running(n)
    /\ introspection_event(<<Ev("NodeDestroyed", n, NoChan)>>)
    /\ abi_handles' = [abi_handles EXCEPT ![n] = [v \in HandleVals |-> NoHalf]]
    /\ nodes' = nodes \ {n}
    /\ pc' = [pc EXCEPT ![n] = "done"]
    /\ UNCHANGED <<next_node_id, next_channel_id, queued, pending>>

\* Node::run returns and its thread runs remove_node_id: close every
\* remaining handle (in HashMap order), remove the NodeInfo, NodeDestroyed.
remove_node_id(n) ==
    /\ n # 0 /\ Running(n)
    /\ \E order \in [1 .. Cardinality(Handles(n)) -> Handles(n)] :
         /\ Range(order) = Handles(n)
         /\ introspection_event(
               [i \in DOMAIN order |-> HandleEv("HandleDestroyed", n, abi_handles[n][order[i]])]
                  \o <<Ev("NodeDestroyed", n, NoChan)>>)
    /\ abi_handles' = [abi_handles EXCEPT ![n] = [v \in HandleVals |-> NoHalf]]
    /\ nodes' = nodes \ {n}
    /\ pc' = [pc EXCEPT ![n] = "done"]
    /\ UNCHANGED <<next_node_id, next_channel_id, queued, pending>>

Next ==
    \E n \in NodeIds :
        \/ channel_create(n)
        \/ \E v \in HandleVals :
             \/ handle_clone(n, v)
             \/ channel_write(n, v)
             \/ channel_read(n, v)
             \/ channel_close(n, v)
             \/ node_register(n, v)
        \/ channel_write_event(n)
        \/ channel_read_event(n)
        \/ remove_node_id(n)

Spec == Init /\ [][Next]_vars

\* Bounds the explored logs (the log is unbounded in the debug build).
LogBound == Len(log) <= MaxEvents

-----------------------------------------------------------------------------
Count(k, n, c, d) ==
    Len(SelectSeq(log, LAMBDA e : e.kind = k /\ e.node = n /\ e.ch = c /\ e.dir = d))
ChanCount(k, c) == Len(SelectSeq(log, LAMBDA e : e.kind = k /\ e.ch = c))

TypeOK ==
    /\ nodes \subseteq NodeIds
    /\ abi_handles \in [NodeIds -> [HandleVals -> Half \cup {NoHalf}]]
    /\ queued \in [ChanIds -> 0 .. MaxQueue]
    /\ pc \in [NodeIds -> {"none", "idle", "write_event", "read_event", "done"}]
    /\ log \in Seq(Event)

\* Causal order of the log (I6, and the TODO(#913) at channel_create and
\* node_configure_instance): every event about a channel comes after its
\* ChannelCreated, every event about a Node after its NodeCreated, and
\* none after its NodeDestroyed.  Events of a Node come from its own thread
\* and from the thread that registered it, interleaved with all others.
EventsCausallyOrdered ==
    \A i \in DOMAIN log :
        LET e == log[i]
        IN  /\ e.ch # NoChan /\ e.kind # "ChannelCreated" =>
                  \E j \in 1 .. i - 1 : log[j] = Ev("ChannelCreated", NoNode, e.ch)
            /\ e.node # NoNode /\ e.kind # "NodeCreated" =>
                  \E j \in 1 .. i - 1 : log[j] = Ev("NodeCreated", e.node, NoChan)
            /\ e.node # NoNode =>
                  ~\E j \in 1 .. i - 1 : log[j] = Ev("NodeDestroyed", e.node, NoChan)

\* The log accounts for the handle tables: for every Node, channel and
\* direction, the HandleCreated events less the HandleDestroyed events are
\* the handles the Node holds, so a consumer of the log (the introspection
\* graph) can rebuild every table, including after a Node has exited with
\* handles still open.
HandleEventsMatchTables ==
    \A n \in NodeIds, c \in ChanIds, d \in Dirs :
        Count("HandleCreated", n, c, d) - Count("HandleDestroyed", n, c, d)
            = Cardinality({v \in HandleVals : abi_handles[n][v] = [ch |-> c, dir |-> d]})

\* Chronological order (spec 2, 4.8): the log never shows more messages
\* taken from a channel than were put into it: in every prefix of the log,
\* the MessageDequeued events of a channel are at most its MessageEnqueued
\* events.
DequeueAfterEnqueue ==
    \A c \in ChanIds : ChanCount("MessageDequeued", c) <= ChanCount("MessageEnqueued", c)

\* The log accounts for the queues (spec 2: a state change, then the event
\* that reports it; 4.8): whenever no thread has an event still to append,
\* the MessageEnqueued events of a channel less its MessageDequeued events
\* are the messages queued in it, so a consumer of the log can tell what a
\* channel holds.  channel_write appends MessageEnqueued after
\* with_writer_channel whatever it returned, ErrChannelClosed included.
MessageEventsMatchQueues ==
    \A c \in ChanIds :
        (\A n \in NodeIds : pending[n] # c)
            => ChanCount("MessageEnqueued", c) - ChanCount("MessageDequeued", c) = queued[c]

=============================================================================

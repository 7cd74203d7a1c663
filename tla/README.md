# TLA+ models of the Oak Runtime core

This directory holds TLA+ models of the Oak Runtime in `src/oak_runtime/src/lib.rs`, with the TLC
configurations that check them. The Runtime is the trusted core that runs untrusted Nodes. Each
Node runs on its own OS thread. Nodes talk only through labelled unidirectional channels, which
they reach through per-Node handle tables. Messages can carry channel halves. Information-flow
control (IFC) checks guard every operation. `Runtime::stop` shuts the whole system down.

## The system and how its parts interact

| Part | Code (lib.rs) | What it does |
|---|---|---|
| Label algebra | `NodePrivilege::downgrade_label` 277, `top_privilege` 266, `get_effective_label` 674; `flows_to` is in oak_abi | Labels are pairs (confidentiality, integrity). A privilege may remove confidentiality tags and add integrity tags; `top` removes all of them. |
| Handle tables | `new_abi_handle` 464, `drop_abi_handle` 496, `abi_to_*_half` 518-562 | Each `NodeInfo` maps random u64 handles to `ChannelHalf`s. |
| Channels | `channel_create` 861, `handle_clone` 916, `channel_write` 1034, `channel_read` 1081, `channel_status` 1125, `channel_try_read_message` 1154, `channel_close` 1225 | A channel has a queue of messages; its halves are `Arc`-counted. A write with no readers fails with `ErrChannelClosed`. An empty channel with no writers is Orphaned. |
| IFC checks | `validate_can_write_to_label` 831, `validate_can_read_from_label` 787 | A write needs the Node's (optionally downgraded) label to flow to the target. A read needs the (optionally downgraded) channel label to flow to the Node's label. |
| Blocking wait | `wait_on_channels` 962-1030 | Loop: check `terminating`, register the thread as waiter on each channel, read the statuses, return or `thread::park`. |
| Node lifecycle | `node_register` 1340, `node_start_instance` 1426, `add_node_stopper` 1286, `remove_node_id` 1237 | A Node creates a child with an initial read handle. The child's thread runs, then closes all its handles and removes its `NodeInfo`. |
| Termination | `Runtime::stop` 588, `notify_all_waiters` 632, `take_node_stoppers` 620, `NodeStopper::stop_node` 164 | Set `terminating`, unpark all waiters, take every stopper, then notify and join each Node thread. |
| Introspection events | `introspection_event_queue` 444 and the `introspection_event` calls in 861-1271, 1476 | Append events (NodeCreated, ChannelCreated, HandleCreated, MessageEnqueued, ...) to one log under its own mutex, separately from the state they describe. |
| Label serialization | `serialize_label` 1520, `get_serialized_*` | Encode a label into the caller's buffer, or report NeedsCapacity with the size needed. |

Waits are where these parts meet. A thread parked in `wait_on_channels` is woken by three things:
a write from another thread, the drop of a channel's last writer (from `channel_close` or
`remove_node_id` of another Node), and `stop`. A wait also ends without any waker when a
channel's label check fails: `channel_status` reports PermissionDenied before it looks at the
queue. `stop` in turn joins threads that registered
children concurrently with it.

## Modules

- **`Labels`** models the label algebra. `MC_Labels` enumerates every pair of a privilege and a
  label over two tags plus `top`. It checks `downgrade_label` against `Reachable`, a reference
  definition of the labels a privilege can reach.
- **`WaitProtocol`** models the wait, its wakers, `stop` and the Node threads' exits. It has one
  action per step of the `wait_on_channels` loop:
  - `wait_on_channels` resolves the handles;
  - `wait_check_terminating`;
  - `wait_add_waiters`;
  - `wait_readers_statuses`;
  - `wait_park`;
  - `wait_unpark` and `spurious_wakeup`, for the return from park.

  `token` is the std unpark token. Setting it before the park makes the park return at once.
  `waiters` holds the live `Weak<Thread>` registrations; `DropRegistration` drops them at the end
  of each iteration, when the per-iteration `Arc` dies. Channels are abstracted to a message
  count and to which Node holds which half.

  The module is composed with `Labels`. The labels and privileges of Nodes and channels never
  change once created, so they are constants (`NodeLabel`, `NodePrivilege`, `ChanLabel`).
  - `channel_status(n, c, dg)` runs `validate_can_read_from_channel` first, as lines 1131-1135
    do. It returns `PermissionDenied` when that check fails.
  - `readers_statuses` passes the wait's `downgrade` argument, recorded in `waitDg`.
  - `channel_write` and `channel_read` run their channel label checks.
  - `ReadAllowed` holds the read verdicts, computed once from the constants.
  - `Downgradings(n, ls)` gives the Downgrading flags a call can tell apart. With both flags the
    call is the same whenever the Node's privilege leaves the checked labels unchanged, so only
    `FALSE` is offered then.
- **`AbstractWait`** states what `wait_on_channels` promises, with the wait as one atomic step.
  A call returns its statuses only while one of its channels is ReadReady, Orphaned or
  PermissionDenied for the call's Downgrading flag, or when its handle list was empty or held an
  invalid handle. It returns ErrTerminated only once the
  Runtime is terminating. A call begun after `stop` never returns statuses (P5). Between calls
  the channels change arbitrarily. `WaitProtocol` instantiates it with a refinement mapping:
  - a thread inside the loop maps to its call (valid channels, invalid flag, Downgrading flag,
    and the history variable `waitStop`, which records whether the call began after `stop`);
  - every Node, channel and flag maps to its `channel_status`;
  - `result` maps to the abstract `terminated` flag.
- **`OakRuntime`** models the data side of the core:
  - handle tables as functions from handle values (model values) to halves;
  - messages that carry halves and the label of their origin;
  - `abi_to_half`, `abi_to_read_half` and `abi_to_write_half`, which resolve every handle
    argument (NoHalf stands for ErrBadHandle);
  - `Reclaim`, the Arc release of a channel whose halves are all gone, where a half queued in a
    live channel counts as alive;
  - the IFC checks on every operation;
  - node registration split at its three interleaving points: `node_register` up to the initial
    handle, `node_start_instance` (the spawn) and `add_node_stopper`;
  - `stop` with `take_node_stoppers` and joins;
  - `channel_try_read_message`. A message's byte size is abstracted to whether it fits the
    caller's capacity; NeedsCapacity changes no state;
  - two faults the code does not guard against:
    - `node_panic`: `Node::run` panics, and the thread unwinds past `remove_node_id`;
    - `node_start_instance_fails`: the `expect` on `spawn` panics the registering thread after
      the child's NodeInfo was installed.

  Node 0 is the initial Node, on whose behalf the main thread later calls `stop`. `seen` is a
  history variable: the origin of every message a Node read, as that Node saw it. `closedBy` and
  `learned` are history variables for the ErrChannelClosed result of a write:
  - `closedBy[c]` holds the labels of the Nodes whose drop left channel `c` without a reader;
  - `learned[n]` holds what writer `n` saw through ErrChannelClosed.
  `reported` is a history variable for `channel_try_read_message`: the channel and front message
  a Node was last told needed more capacity, until a read takes a message from that channel.
- **`IntrospectionEvents`** models the event log. Its actions are the Runtime methods that append
  events: `channel_create`, `handle_clone`, `channel_write`, `channel_read`, `channel_close`,
  `node_register` (with `node_configure_instance`) and `remove_node_id`. A write or read is two
  steps: the queue change under the channel lock, then the MessageEnqueued/MessageDequeued
  event after the lock is released. Between the two steps other threads may run. Labels are left
  out, because a failed IFC check appends no event. Messages carry no handles. `remove_node_id`
  closes the handles in any order (the code iterates a HashMap). The log is unbounded, so the
  runs bound it with a state constraint (`LogBound`). A model whose every state is eventually cut
  off by the constraint has no real deadlock to find, so the cfg turns deadlock checking off.
- **`Labels`** also models `serialize_label` and the privilege read back as a label. The byte
  encoding is abstracted to its length: zero for the empty label, and growing with the tags.
- `MC_WaitProtocol`, `MC_OakRuntime`, `MC_IntrospectionEvents` and `MC_Labels` instantiate the
  constants for TLC. `MC_OakRuntime` also defines `ViewWithoutReports`, the state without
  `reported`. The runs that never read `reported` use it as their `VIEW`, so states that differ
  only in this history are not explored twice.

Each action is the whole Runtime method it names. An error return (`ErrBadHandle`,
`ErrPermissionDenied`, `ErrChannelClosed`, `ErrTerminated` on create, clone and register) leaves
the state unchanged. It is therefore a stuttering step, and the action's guard is the condition
that avoids it.

## Runs

| Run | cfg | Expect | Checks |
|---|---|---|---|
| `wait_protocol` | `WaitProtocol.cfg` | pass | `TypeOK`, `NoLostWakeup`, `ImplementsAbstractWait`, `WaitReturnsWhenReady` |
| `stop_hang` | `WaitProtocol_hang.cfg` | violation | `StopCompletes` |
| `labels` | `Labels.cfg` | pass | `DowngradeIsLeast` |
| `runtime_ifc` | `OakRuntime.cfg` | pass | `TypeOK`, `NoReadUp` |
| `stop_register` | `OakRuntime_stop.cfg` | violation | `StopJoinsEveryNode` |
| `runtime_lifecycle` | `OakRuntime_lifecycle.cfg` | pass | `StopReturns` |
| `closed_flow` | `OakRuntime_closed.cfg` | violation | `NoReadUpThroughClose` |
| `runtime_retry` | `OakRuntime_retry.cfg` | pass | `RetryFindsReportedMessage` |
| `introspection` | `IntrospectionEvents.cfg` | pass | `TypeOK`, `EventsCausallyOrdered`, `HandleEventsMatchTables` |
| `event_order` | `IntrospectionEvents_order.cfg` | violation | `DequeueAfterEnqueue` |
| `enqueue_closed` | `IntrospectionEvents_closed.cfg` | violation | `MessageEventsMatchQueues` |

What the runs show:

- **`wait_protocol`**
  - *Setup:* two Nodes `a` and `b`. `a` holds the read half of `c1` and the write half of `c2`;
    `b` holds the other two halves. At most one message is queued per channel.
  - *Labels:* `c1` is secret (`{s}`) and everything else is public. `a` may declassify `s`.
    `a` can read `c1` only when it asks for its privilege, and a wait on `c1` without it is
    PermissionDenied at once. The writes are all allowed.
  - *Reduction:* the cfg's `VIEW ViewEffectiveDowngrade` forgets the wait's flag when it decides
    no channel the wait holds. Those states have the same steps and statuses (329k states,
    under 3 minutes).
  - *Actions:* each Node can wait on any subset of the channels, write, read, close, return and
    exit. `stop` may run at any time.
  - *NoLostWakeup:* no thread ever parks with no token while a channel it waits on is ready.
  - *ImplementsAbstractWait:* every return of the stepwise loop is a return the atomic wait
    allows, at the moment it happens. This includes a PermissionDenied return, which depends on
    the call's own flag. The mutant that reads the statuses without the flag is caught at once.
  - *WaitReturnsWhenReady:* a wait returns once one of its channels is ready, orphaned or
    denied.
  - *Why this is enough:* one message per channel separates ReadReady from NotReady. The two
    crossed Nodes are the smallest setup where one thread's write or close wakes the other.
- **`stop_hang`**: `StopCompletes` fails. A Node thread passes the terminating check; `stop`
  sets `terminating` and notifies; then the thread registers, reads all statuses as NotReady and
  parks with no token, and `stop` joins the parked thread for ever. Which of the two Nodes plays
  this part depends on the trace TLC happens to print (with two workers, either may).
- **`labels`** checks every privilege and label over tags `{s, t}` plus `top`, 4096 states in
  all. With two tags, a tag that is declassifiable can sit beside one that is not.
  `serialize_label` is modelled but not checked. Its only decision is the `size > capacity`
  comparison at line 1522, and labels never change, so a property of its two-call read-back
  would only restate that comparison.
- **`runtime_ifc`**
  - *Setup:* up to two Nodes; labels public and `{s}`-confidential; privileges none and
    declassify `{s}`; one channel; one message of at most one handle; three handle values
    under symmetry.
  - *NoReadUp:* whatever a Node reads came from a writer whose effective label flows to the
    reader's label. It takes a write by one Node and a read by another, with the checks of
    create, write and read all agreeing.
- **`runtime_lifecycle`**: three Nodes, one public channel, no privileges and two handle
  values. That is enough for Node 1 to register Node 2 while `stop` runs, for either child to
  panic, and for Node 1's spawn of Node 2 to fail. Under the fairness below, `stop` always
  returns. A panicked thread is joined with an error, and a thread-less NodeInfo has no stopper
  to take (157k states).
- **`runtime_retry`**: `RetryFindsReportedMessage` says that while a Node still holds the read
  half, a channel for which `channel_try_read_message` answered NeedsCapacity still has the
  reported message at its front, until a read takes one. Another reader may take it first; the
  code's comment allows that, and the property then no longer constrains the channel. Two Nodes,
  one channel, two queued messages and three handle values make the second reader and the
  message behind the front possible (394k states, under 2 minutes).
- **`introspection`**: two Nodes, two channels, one queued message, three handle values and a log
  of at most 10 events (18k states).
  - `EventsCausallyOrdered`: the ChannelCreated event of a channel comes before every other
    event about it; the NodeCreated event of a Node comes before the Node's other events; a
    Node's NodeDestroyed event is its last.
  - `HandleEventsMatchTables`: for each Node, channel and direction, the HandleCreated events
    minus the HandleDestroyed events equal the handles the Node holds.
- **`event_order`**: `DequeueAfterEnqueue` fails in 6 states: Node 0 writes, Node 1 reads the
  message and logs MessageDequeued, all before Node 0 logs MessageEnqueued. The log shows a
  message leaving a channel it never entered.
- **`enqueue_closed`**: `MessageEventsMatchQueues` says that when no thread has an event still to
  append, a channel's MessageEnqueued events minus its MessageDequeued events equal the messages
  queued in it. It fails in 5 states, on spec scenario 2: Node 0 creates a channel, closes the
  read handle and writes. The write returns ErrChannelClosed, but line 1062 logs
  MessageEnqueued whatever `with_writer_channel` returned. The log then shows one message in an
  empty channel.
- **`closed_flow`**: in 8 steps:
  1. public Node 0 creates a public channel;
  2. Node 0 registers a secret Node 1 with the read half as its initial handle;
  3. both Nodes close their read halves;
  4. Node 0's write returns ErrChannelClosed.

  The public Node has learned that the secret Node closed its read half.
- **`stop_register`**: three Nodes. Node 1 registers Node 2 while the main thread runs `stop`.
  `take_node_stoppers` comes before `add_node_stopper`, so `stop` returns while Node 2 still runs.

Each property of a passing run has a mutant in `PROJECT.json`: an operator that changes the code's
behaviour the way a plausible bug would, and which TLC catches. The mutants are:

- a wake dropped from `channel_write` or `channel_close`;
- the `top` shortcut missing from `downgrade_label`;
- the Downgrading flag ignored;
- the missing-NodeInfo branch of `add_node_stopper` dropped;
- the terminating check skipped before the first iteration of the wait loop (a do-while loop);
- a join that waits for `remove_node_id`, which a panicked thread never runs;
- NeedsCapacity that also pops the message;
- ChannelCreated appended after the handles' HandleCreated events;
- `remove_node_id` that drops the table without closing the handles;
- `channel_read` without its empty-queue check;
- `readers_statuses` ignoring the wait's Downgrading flag.

## Fairness

`WaitProtocol.Spec` assumes weak fairness only for steps that the Runtime or the OS performs once
they are enabled:

- the wait loop's own steps;
- the return from park once a token is set;
- `remove_node_id` after `run` returns;
- the steps of `stop` after its call.

A Node exits fairly only when it has been told to stop: it was notified by `stop_node`, or a wait
returned `ErrTerminated`. This is the "cooperative Node" of spec P5. Nodes are untrusted, so
nothing forces them to write, read or close. A spurious wakeup is allowed but never assumed.
`OakRuntime.Spec` has the same kinds of fairness:
- on `node_start_instance`, `add_node_stopper`, `remove_node_id` and the steps of `stop`;
- on a Node's return once `terminating` is set.

Node calls, panics and failed spawns are never assumed.

## What is not modelled

- Auxiliary servers and metrics: they do not affect Node or channel state.
- The bytes of a label's encoding. Only its length and its decoding matter to the protocol.
- The bootstrap in `config.rs`. `start_runtime`, which creates the initial Node and channel, is
  in `proxy.rs` and not under `src/`. The models start from Node 0 alone, as `create_runtime`
  leaves it. The ConfigMap write and close are ordinary `channel_write` and `channel_close`
  steps of Node 0. A failed send skips the close; this is listed as a hazard.
- The Node implementations, which are not under `src/`.
- Wakeups when a Node panics: `WaitProtocol` has no panic. A panicked Node's write halves
  stay in its NodeInfo, so its readers keep waiting.
- A property of the Arc reclamation cascade. `Reclaim` models the release of a channel
  whose halves are all gone, from spec section 5, because the channel code is not under `src/`.
  What survives is then decided by Arc alone. No property about the code of this repository
  could fail there, so none is checked. `Reclaim` still drives `has_readers` in every
  OakRuntime run.

See `PROJECT.json` for the components and for the hazards with the properties that cover them.

## Plan for later work

1. A panic in `WaitProtocol`, with the liveness of a wait on a channel whose only writer panicked.
2. An abstract channel specification (a FIFO per channel with Orphaned/Closed results), and the
   `OakRuntime` channel actions shown to implement it with `INSTANCE ... WITH`.

# TLA+ models of the messengers in Ceph-Experiment

This directory holds TLA+ specifications of the messaging core of the
repository: SimpleMessenger, which has two threads for each connection;
AsyncMessenger, which runs the same protocol on event loops; and the dispatch
threads of XioMessenger. With them are the TLC configurations that check them
on small instances, and proofs, checked by TLAPS, of what holds for every
instance.

Paths below are relative to the repository's `src/`. "Pipe.cc" is
`messenger/msg/simple/Pipe.cc`, and so on.

## 1. Inventory

| Component | Where | State it keeps | Operations | Hard part |
|---|---|---|---|---|
| Pipe | `messenger/msg/simple/Pipe.{cc,h}` | `state`, `connect_seq`, `peer_global_seq`, `in_seq`, `in_seq_acked`, `out_seq`, `out_q`, `sent`, the socket, which threads run | `accept`, `connect`, `reader`, `writer`, `fault`, `stop`, `was_session_reset`, `requeue_sent`, `discard_requeued_up_to`, `handle_ack` | two threads per Pipe that drop `pipe_lock` around every system call; one session over many sockets; racing connection attempts |
| SimpleMessenger | `simple/SimpleMessenger.{cc,h}`, `PipeConnection.cc` | `rank_pipe`, `accepting_pipes`, `pipes`, `pipe_reap_queue`, `global_seq` | `submit_message`, `connect_rank`, `add_accept_pipe`, `mark_down`, `mark_down_all`, `reaper`, `shutdown`, `wait` | a closed Pipe can still be registered; Connections outlive Pipes; teardown in stages |
| DispatchQueue | `DispatchQueue.{cc,h}` | `mqueue`, `marrival`, `local_messages`, `stop`, `stop_local_delivery`, the throttle | `enqueue`, `queue_*`, `local_delivery`, `discard_queue`, `entry`, `run_local_delivery`, `shutdown`, `wait` | two threads and any number of producers; shutdown while producers go on |
| Accepter | `simple/Accepter.cc` | `listen_sd`, the self-pipe, `done` | `bind`, `entry`, `stop`, `rebind` | stopping a thread in `poll` |
| QueueStrategy | `QueueStrategy.cc` | `mqueue`, the list of idle threads, `stop` | `ds_dispatch`, `entry`, `shutdown` | each thread has its own condition variable |
| Policies, messages | `Messenger.h`, `Message.cc` | – | – | sequential |
| AsyncMessenger | `async/AsyncConnection.cc`, `AsyncMessenger.cc` | the same session as a Pipe, as an event-driven state machine; `conns`, `deleted_conns` | `process`, `handle_connect_msg`, `handle_write`, `fault`, `_stop`, `send_message`, `accept_conn`, `reap_dead` | three locks dropped inside one handler; a session that moves to another worker; closed connections that stay registered |
| EventCenter | `async/Event.cc` | file, time and external events, the notify pipe | `process_events`, `create_file_event`, `dispatch_event_external`, `submit_to`, `wakeup` | lost wake-ups, callbacks that delete events |
| Network stacks | `async/Stack.cc`, `PosixStack.cc` | the workers, their `references`, `done`, `pool_spin` | `start`, `get_worker`, `release_worker`, `drain`, `stop` | stopping threads that sleep or wait for `pool_spin` |
| DPDK and RDMA stacks | `async/dpdk/`, `async/rdma/` | TCP control blocks, queue pairs | – | taken from Seastar, or bound to hardware |
| XioMessenger | `xio/` | sessions of the Accelio library | – | callbacks of an external library |
| DPDK-FUSE | `DPDK-FUSE/FUSE-5th/` | a tx and an rx ring between FUSE callbacks and lcore loops | read, write, getattr over the rings | polling threads, rings of 32, replies without request ids |
| Ceph-Seastar and the rest | `Ceph-Seastar/`, `Seastar-FUSE/`, `Experiments/`, ... | – | – | tutorials, copies, vendored headers, scripts |

Who talks to whom: the application submits a message to a SimpleMessenger,
which finds or makes the Pipe for the destination and appends to its `out_q`;
the Pipe's writer sends it; the reader of the Pipe at the other end numbers it
in and hands it to the DispatchQueue, by `conn_id`, or delivers it itself
(fast dispatch); the dispatch thread calls the application. When a socket
breaks, `fault()` puts the Pipe in standby or reconnects it; the other end's
Accepter makes a new Pipe, whose `accept()` compares the request with the Pipe
that is registered for the peer and refuses, retries, waits, or replaces that
Pipe and takes over its session.

In AsyncMessenger a connection has no threads. It belongs to the EventCenter of
one worker, which calls `process()` when the socket can be read; other threads
hand it work as external events. A Processor accepts connections and gives each
to the least loaded worker. A connection that replaces another one gives away
its socket and is closed; the replaced connection keeps its queue and moves to
the worker of the other.

What makes it correct, and hard: a lossless session delivers each message once,
in order, whatever breaks, or tells an end that it was reset; the two ends
never disagree about which connection carries the session; nobody sends on a
Pipe that is dead; and the whole settles when the network does. The list of
hazards, each with its line and the properties that watch it, is in
`PROJECT.json`.

## 2. Modules

| Module | What it is |
|---|---|
| `OutQueue` | the outgoing half of a session as operators on a record: `out_q` in two priorities, `sent`, `out_seq`; one operator per method |
| `ReliableChannel` | the abstract channel a lossless policy promises; `PipeSession` and `AsyncSession` implement it |
| `PipeSession` | two SimpleMessengers, their Pipes with both threads, sockets, registry, event queue, application and reaper; `Spec`, `FairSpec` and the properties |
| `PipeSessionMC` | the policies of Messenger.h and the workloads, as values for the constants |
| `DispatchQueue` | one messenger's queue of incoming messages: the dispatch thread, local delivery, the throttle |
| `SimpleMessenger` | extends `DispatchQueue`: accepted Pipes with both threads as far as they receive, the reaper, `shutdown()` and `wait()` |
| `AsyncSession` | two AsyncMessengers: connections as state machines, the workers that run them, sockets, the map of connections, the application |
| `AsyncSessionMC` | scenarios: policies, workers per messenger, what may happen |
| `EventCenter` | the event loops, their worker threads, the threads that hand them events, and the messenger's life from `ready()` to the destruction of the centers |
| `QueueStrategy` | the pool of dispatch threads of an XioMessenger |
| `PipeSessionProofs` | lemmas on the operators of `OutQueue`; an inductive invariant of the threads and the registry, and the theorem `LiveRegistered`; the invariant of the data and the theorems `TypeCorrect` and `NumbersConsistent` |
| `PipeSessionWireProofs` | the invariant of a handshake, end against end, and the theorems `AgreedSession` and `AssertsHold` |
| `PipeSessionReadProofs` | `CInv`, the invariant of the messages and sessions of lossless peers, and what reading does to it |
| `PipeSessionWriteProofs` | `CInv` under the writer, faults, the end of `connect()` and a submission |
| `PipeSessionChannelProofs` | `CInv` under new attempts and under `accept()`, and the theorems `NothingLost`, `DeliveredWithoutGaps`, `SessionsResume` and `ChannelImplemented` |
| `SimpleMessengerProofs` | an inductive invariant of locks, threads and tables, and the theorems `NeverAfterFault`, `WaitEndsAll` and `AssertionsHold`; where a report of a reset can be, and the theorem `ResetOnce`; who holds a reservation of the throttle, and the theorems `MessengerTypes` and `ThrottleBalances`; the way of a message from the socket to the Dispatchers, and the theorems `DeliveredInOrder` and `AcceptComesFirst` |
| `EventCenterProofs` | three inductive invariants, of queues and wake-ups, of what centers hold of a connection, and of the tables, references and life of the stack that the assertions depend on; the theorems `NoWakeupIsLost`, `EventsRunInOrder`, `TypesHold`, `NoHandlerDangles` and `NoAssertFails` |
| `QueueStrategyProofs` | the theorems `ListIsExact` and `EveryMessageHasAThread` |

`PipeSession` and `AsyncSession` extend `OutQueue` and instantiate
`ReliableChannel`; `SimpleMessenger` extends `DispatchQueue`. The systems of
SimpleMessenger meet in the reader of a Pipe: `PipeSession` has the session and
sees one queue per connection, `SimpleMessenger` has the queue and its shutdown
and leaves the peers open. Those of AsyncMessenger meet in the callbacks of a
connection: `EventCenter` lets a callback do any of the things to its center that
AsyncConnection.cc does, `AsyncSession` says which it does when, and takes from
`EventCenter` what that module shows: that the external events of a center all
run, in the order they were dispatched.

### How PipeSession corresponds to the code

A Pipe is a name `<<p, n>>`, the n-th object of messenger p; a name is used
again after the reaper has destroyed the object. `state[i]` is `Pipe::state`
(with "free" for no object), `pipe[i]` its other fields, `outq[i]` its queue.
`rd[i]` and `wr[i]` say where its two threads are: they are the points where
the code drops `pipe_lock` (or sleeps). Everything a thread does between two
such points, including what it does while it also holds the messenger's lock,
is one action; `loc[i]` holds the local variables that live across them.

* `accept()`: `AcceptStopped`, `AcceptRefuse`, `AcceptReject`, `AcceptNew`,
  `AcceptReplaceLossy`, `AcceptReplace`, `AcceptReplaceReset` each read one
  connect request and decide it with the registered Pipe locked (`Verdict` is
  the decision, in the order of the code); `AcceptReplied` writes the reply,
  `AcceptSeq` reads the peer's `in_seq`, and both end in `AcceptDone`, which
  discards what the peer has and starts the writer; `AcceptFailed` is
  `fail_registered`/`fail_unlocked`.
* `reader()`: `ReadMsg`, `Dispatched` (fast dispatch runs unlocked),
  `ReadAck`, `ReadKeepalive`, `ReadError`.
* `connect()`: `Connect` takes a `global_seq`, `ConnectOpens` has joined the
  reader and opened the socket, one action per reply tag, `ConnectFails` is
  `fail`/`fail_locked`.
* `writer()`: `WriterRound` captures what to write and drops the lock, `Wrote`
  comes back and goes on with the next write of the round, `WriteFails` is
  `fault()`.
* `fault()`: `Fault` with its four outcomes, as an operator on the state the
  caller leaves.
* SimpleMessenger: `Submit` (`_send_message` to an address, `submit_message`,
  `connect_rank`), `SendKeepalive`, `MarkDown`, `MarkDownAll`, `Reap`.
* The environment: `NetFault` breaks a connection, `ConnectRefused` refuses
  one, `Restart` replaces a process by a new one on the same address.

`sock[i].in` is what has arrived at i and not been read. While the connection
holds both ends are peers; a write to a connection that is gone may still
succeed, and its bytes are lost. What had arrived can be read after the break,
or the error can come first.

`excused[p]` records those of p's messages whose loss an end has been told of
(`queue_reset`, `queue_remote_reset`), or that the messenger dropped because a
server has no session to send on. Properties about loss exclude exactly these.

### What is abstracted

* A message is an identity and a sequence number; a conn_id is taken from a
  small set and used again when nothing refers to it.
* Priorities: highest and default. The event queue is FIFO for one conn_id and
  unordered between conn_ids.
* Time: no back-off; a connect may be retried at once.
* The banner, address and feature exchange is part of `ConnectOpens`; features
  RECONNECT_SEQ and KEEPALIVE2 are always there, as in this source.
* `fault()` on a lossy Pipe and a write followed by relocking are one step.
* A condition variable wakes every waiter, so a thread waits by having no
  enabled action.
* A reader asleep in standby that wakes only to exit does so when the Pipe is
  reconnected or reaped.
* Not modelled: the DelayedDelivery debugging thread, read throttles,
  STATE_CLOSING (no code starts it), submission through a Connection object.
* `mark_down` leaves what is in the event queue, as the code does.

### How DispatchQueue and SimpleMessenger correspond to the code

A Pipe is named by its connection; `reader[c]` and `writer[c]` say where its
threads are. What the peers do is open.

* `DispatchQueue::entry()` is `Dequeue`, then `HandleCode`, `DropMessage` or
  `BeginDispatch` and `EndDispatch`; `DispatcherSleeps` and `DispatcherExits`
  are the tests at the foot of its loop. `run_local_delivery()` is
  `LocalTakes`, `LocalDelivers`, `LocalSleeps`, `LocalExits`. A thread that
  sleeps needs a signal: `Signalled` is what `Cond::Signal` does to it.
* `accept()` is `AcceptAnnounces` (queue_accept, with the messenger's lock),
  `AcceptRefuses`, `AcceptRegisters`, `AcceptReplies`, `AcceptFails`.
* `reader()` and `read_message()` are `ReadHeader`, `TakeThrottle` (blocks),
  then `QueueRead`, `DropRead` (the footer says ABORTED, the Pipe was closed
  meanwhile, or the message is old: all three only give back the throttle) or, for a
  fast message, `UnlockForFast`, `BeginFast`, `EndFast`; `ReadTagFails` and
  `ReadBodyFails` are the failures, the latter giving back the throttle.
* `fault()` on a lossy Pipe is two actions, because it drops `pipe_lock`
  between closing and `discard_queue()`: `FaultOnLossy`, then `FaultDiscards`.
* `shutdown()` is `BeginShutdown`, `MarkDown` for each Pipe with the
  messenger's lock held, `EndShutdown`; `wait()` is the eleven `Wait...` actions.

Abstractions of these two: `PrioritizedQueue` and `Throttle` are not in the
repository; which class of the highest priority goes next is open, and each
message costs one unit. `marrival` holds what `mqueue` holds. The events
connect, remote_reset and refused go the way of accept and reset.
`discard_queue()` and the `queue_reset()` after it are one step, as are
`accepter.stop()` and the join. A lossless Pipe that loses its socket stays in
standby: reconnecting is `PipeSession`'s. Fast dispatchers take no messenger
lock, as Dispatcher.h:42 asks of them. Pipes that this end opens itself
are left out, and so are spurious wake-ups of condition variables.

### How EventCenter corresponds to the code

One worker thread per center; `at[w]` is where it is in `process_events()`, and
`blocking`, `trigger_time`, `fired_events`, `cur_process` are its locals.

* One round is `StartRound` (decide whether to block), `EventWait` (what the
  driver reports: any registered descriptors that may be ready, and the notify
  pipe if it holds a byte), then `DrainNotify`, `Accept` or `FireSocket` for each
  fired event, `RunTimer` if a timer is due, `TakeExternal` under the
  `external_lock`, and `RunExternal` for each event taken. `Exit` is the end of
  the loop.
* `dispatch_event_external()` is `Dispatch`, and after the unlock `Wakeup`: between
  the two, `owed[a]` names the center that actor a is about to wake, and a does
  nothing else.
* Callbacks are `Quiet`, `Register`, `OpenWrite`, `CloseWrite`, `Fault`, `StopSelf`:
  `create_file_event`, `delete_file_event`, timers, `shutdown_socket`, `_stop`.
  A callback of a closed connection does nothing. `Cleanup` is `cleanup()`, the
  external event that `_stop()` queues.
* Outside threads `Connect` (create_connect with get_worker), `Send`, `MarkDown`;
  a peer's connection arrives by `Arrive`, and `Accept` is one turn of
  `Processor::accept()`.
* One thread owns messenger and stack: `Ready`, `Started`, `Shutdown`,
  `ShutdownConnection`, `Drain`, `DrainWorker`, `Destroy`, `StopWorker`,
  `JoinWorker`, `Stopped`, `DestroyCenter`, `End`.
* `failed` is the first assertion that failed, or the first freed callback called.

Abstractions: one connection's socket fires in a round; the 30 seconds an
`event_wait()` lasts at most are left out, so nothing may depend on them; timers
fire at any time; `pool_spin` is held only where that is seen, during drain and
stop.

### How AsyncSession corresponds to the code

`conn[c]` is an AsyncConnection with the fields the protocol uses, among them the
worker it belongs to; `conns` and `deleted_conns` are the messenger's; `events[w]`
are the external events of a worker. A worker does one thing at a time. `busy[w]`
says where it is when it has dropped the locks inside a handler: "judge" (before
the messenger's lock in `handle_connect_msg`), "register" (before `accept_conn`),
"finish" (after it), "write" (in the middle of `handle_write`).

* `_process_connection()` as the connecting end: `Connect`, one action for each
  reply tag (`ReplyRetryGlobal`, `ReplyRetrySession`, `ReplyResetSession`,
  `ReplyWait`, and `ReplyReady` for READY and SEQ).
* `handle_connect_msg()`: `ReadConnect`, `JudgeStopped`, `JudgeRefuse`,
  `JudgeReplace`, `JudgeOpen` (`Verdict` is the decision, in the order of the
  code), `Register`, `Finish` or `FinishFails`; `ReadSeq`.
* Replacement: `JudgeReplace` stops the new connection and sends its socket to the
  old one, which is moved by the events that `RunDeactivate` and `RunTransfer`
  run, one in the worker it leaves and one in the worker it comes to; `RunClose`
  is the case that it was closed on the way.
* `process()` of an open connection: `ReadHeader`, `ReadMsg`, `ReadAck`,
  `ReadKeepalive`, `ReadFails`; `handle_write()`: `RunWrite`, `WriteMessage`,
  `RunWriteNot`.
* `fault()` is the operator `Fault` with its outcomes; `BackoffOver` is the timer.
* `_stop()`, `cleanup()`, `reap_dead()`: `Stopped`, `RunClean`, `RunReap`.
* The application: `Submit`, `SendKeepalive`, `MarkDown`; the network: `Break`.

`Init` chooses a scenario, which fixes the policies, the number of workers and what
may happen, so one run covers several.

Abstractions: a socket takes all that is written (no WAIT_SEND, no `open_write`);
the banner exchange is part of connecting; authorizers, features and the
bytes of keepalive2 are left out, and so are DelayedDelivery, the inactivity timer,
`accepting_conns` and `randomize_out_seq`. A message counts as delivered when it
is handed to the dispatch queue. Both ends agree on `policy.lossy`. `reap_dead`
runs at two dead connections, not at five, so that it does run.

### How QueueStrategy corresponds to the code

`ds_dispatch` is one action, under the lock; it is possible at any time, also after the
portals are joined, because a send over `loop_con` calls it from any thread. A thread of `entry()` is `Take`, `Deliver`
and `Delivered` or `Drop` (without the lock), `Exit`, or `Sleep`, which puts it at the
front of `disp_threads`. `StopPortals` and `shutdown` are what XioMessenger::shutdown()
does, `JoinPortals`, `wait`, `Joined` what XioMessenger::wait() does. A message
is one that no Dispatcher takes fast.

## 3. Runs

| Run | Instance | What it asks |
|---|---|---|
| `lossless_race` | two lossless peers, a message each, one break | racing attempts: nothing is lost (`NoSilentLoss`), both ends agree on the session (`SessionsAgree`) |
| `lossless_faults` | two messages one way, one break, fair | reconnecting resumes exactly where the peer stopped, and discards what the peer has and nothing else (`ResumesExactly`), the channel is reliable (`ImplementsChannel`), everything arrives (`EventuallyDelivered`) |
| `mark_down` | stateful server; its client sends an urgent and a plain message, the server one; fast dispatch, one mark_down or mark_down_all, one restart | numbers stay consistent (`TypeOK`, `OutQueuesNumbered`), nobody queues on a dead Pipe (`NoSilentLoss`), one live Pipe per peer (`LivePipeRegistered`), a new process is told apart from the old one and the assertions of the code hold (`CodeAsserts`) |
| `lossy` | lossy client, one break, two rejected requests, a keepalive, fair | the message arrives or an end hears of the loss |
| `dispatch` | two connections (one lossy), two messages each, a throttle of two, fair | order of delivery (`InOrder`, `AcceptFirst`), nothing queued for a dead connection (`NothingAfterFault`), the throttle is exact (`ThrottleAccounted`) and lets everyone through (`ThrottleWaitEnds`), each failure is reported (`ResetsDelivered`; without a shutdown, after which it would ask for nothing) |
| `shutdown` | two connections, a message each, shutdown at any moment | after `wait()` no thread is left (`WaitIsFinal`), one reset per connection (`OneReset`), `CodeAsserts`, no deadlock |
| `orderly_shutdown` | one connection, a message on it, two local ones, queued or fast, fair | `wait()` returns (`ShutdownEnds`); local messages arrive, also one that joins a list which is not empty and wakes nobody (`LocalDelivered`) |
| `event_center` | two workers, one connection, one thread, one call, one fault, fair | no worker sleeps through an event (`NoLostWakeup`), nothing freed is still to be called (`NothingDangles`) or is called (`CodeAsserts`), events keep their order (`EventsKeepOrder`), what is closed is freed (`ClosedIsFreed`), the shutdown ends (`ShutdownEnds`), no deadlock |
| `async_sessions` | seven scenarios, up to two workers, two breaks, one mark_down | one session per peer and the map names it (`OneSession`), nothing is lost silently (`NoSilentLoss`), no freed handler is queued in any center (`NoHandlerDangles`), the assertions of the code hold but for one (`OnlyWindowAsserts`, see Findings) |
| `async_delivery` | five scenarios without mark_down, fair | the same reliable channel (`ImplementsChannel`), and everything arrives (`EventuallyDelivered`) |
| `async_mark_down` | stateful server, one break, one mark_down | a closed connection stays where nothing replaces it: see Findings |
| `queue_strategy` | three threads, three messages, fair | no thread sleeps while a message needs it (`NoneSleepsInNeed`), what was queued in time is handled (`NothingLeftBehind`), `wait()` returns (`WaitReturns`) |

Deadlock. `shutdown` and `event_center` check it. In the other runs the system may
stop: two idle messengers with the bounds on submissions and faults used up, a
dispatch queue that nobody shuts down, a process that has ended. Those runs
ask for progress by their liveness properties.

### Bounds

PipeSession:

* `NumPipes`: objects per messenger. Two are enough to race and replace, three
  for a replaced Pipe that has not been reaped beside a racing one. Names are
  recycled, so this limits how many exist at once, not how many are made.
* `NumConns`: conn_ids, recycled in the same way; never used up.
* `MaxSubmit`: two messages on one session are needed for one to be
  acknowledged or overtaken while the other is not. Runs on races have one for
  each end, which suffices to make both connect.
* `MaxFaults`, `MaxMarkDowns`, `MaxRestarts`, `MaxRejects`, `MaxKeepalives`:
  what the environment and the application may do. One break hits every point
  of two handshakes and of the traffic; the second handshake is the one that
  resumes a session. Races break connections beyond that.
* `MaxGlobalSeq`, `MaxConnectSeq`: caps on the counters. They cut executions in
  which two ends answer each other with ever higher `connect_seq`, or in which
  the late attempts of replaced Pipes kill the winner's connection again and
  again. In the fair runs no execution within the other bounds needs more.

SimpleMessenger: `MaxMsgs`, `MaxLocal`, `Limit`. With two connections and two
messages each, a throttle of two makes readers wait; two messages per connection
show order. `orderly_shutdown` has a throttle that never fills (Findings say why).

EventCenter: two workers, so that events cross from one center to another; a
connection that arrives or is opened, and may be both stopped by itself and marked
down. Its socket gets descriptor 2 and a table has two entries at first
(`InitEvents`), so the table must grow to hold it. One call of the outside
thread and one fault reach each callback from each state of the loop.
`LocalListen` is FALSE, as for the posix stack.

AsyncSession: `NumConns` and `NumLinks` are connections and TCP connections that
exist at one time, recycled like Pipes. `MaxGlobalSeq` bounds the attempts: a
peer that is told RETRY_GLOBAL asks again at once for as long as the connection
it is to replace is not ready, which can go on for any number of rounds.
`EventuallyDelivered` therefore holds unless the attempts are spent.
The scenarios between them have a race without a break, breaks in the first and in
the second handshake, one and two workers at the accepting end, each policy, and a
mark_down.

QueueStrategy: three threads and three messages make a list with more than one
sleeper while messages wait.

### Fairness

`FairSpec` of PipeSession has weak fairness for the threads of each Pipe, the
handing over of received messages and the reaper. The code justifies it: each
is a thread of its own that nothing holds up for ever. A read or write on a dead
socket ends, which the sockets and `ms_tcp_read_timeout` see to. Nothing is
assumed of when applications submit or mark down, or of when connections break;
breaks are bounded in number, without which nothing could be promised.
`FairSpec` of SimpleMessenger has weak fairness for each thread that runs:
readers and writers, dispatch, local delivery, the reaper, and the callers of
`shutdown()` and `wait()` once they have begun. Peers owe nothing.

`FairSpec` of EventCenter has weak fairness for each worker thread as long as it
has work that is not a socket or a timer, for the wake-up that an outside thread
owes, and for the thread that shuts down. Sockets and timers owe nothing, so
what must happen may not depend on them.
`FairSpec` of AsyncSession has weak fairness for each connection (its socket is read,
its timer goes off) and for each worker; none for breaks and callers.
`FairSpec` of QueueStrategy has weak fairness for each thread, and for the calls of
start, shutdown and wait, which XioMessenger makes.

### The abstract channel

`ReliableChannel` says what a lossless policy promises: messages arrive in the
order of submission, each at most once, and one is skipped only if it is
excused. `PipeSession` and `AsyncSession` implement it with the identity as the
mapping of `submitted`, `delivered` and `excused`; the steps of the protocol, the
handshakes and the resending all stutter. It is checked without urgent
messages, which overtake by design, without restarts, after which the
new process may be given what the old one had, and without mark_down, for which
Findings say what can happen.

## 4. Findings

One run ends in a violation.

* `async_mark_down`. The comment on the map of connections says that one that is
  closed "may still be in the map but is considered invalid and can be replaced by
  anyone holding the msgr lock" (AsyncMessenger.h:270). `handle_connect_msg()`
  drops the connection's lock (AsyncConnection.cc:1827) and then `accept_conn()`
  registers it. When it is a connection that took over another's socket, it is in the map
  already. A mark_down in between closes it and notes it in `deleted_conns`;
  `accept_conn()` finds the deleted entry, erases the note and registers the
  same connection again. It is now in the map, closed, and not deleted: nothing replaces it, every connect request of
  the peer meets it as an existing connection, and what is sent to the peer goes to
  it and is dropped without a reset. `NoSilentLoss` of AsyncSession
  is stated for states in which this has not happened.

Other disagreements met while modelling. The models contain those marked (m), and
the properties and the instances of the runs are chosen so as not to meet them; the rest are outside
the models.

SimpleMessenger:

* (m) A connect request that was on its way when mark_down ran is accepted as a new
  session (Pipe.cc:677). The peer then reconnects with a `connect_seq` above ours,
  replaces that Pipe, is never told of a reset, and sends again what had been
  delivered, although Messenger.h:523 says that peers "discard their queue when we
  inform them of the session reset".
* (m) `DispatchQueue::enqueue` (DispatchQueue.cc:84) does not look at `stop`. A Pipe
  accepted between mark_down_all() and `accepter.stop()` is open when `wait()` joins
  the dispatch thread, and its reader goes on queueing. `~DispatchQueue` asserts that
  the queue is empty (DispatchQueue.h:227).
* (m) Once `stop` is set, the dispatch thread drops messages without
  `dispatch_throttle_release()` (DispatchQueue.cc:190) and then takes none. A reader in
  `dispatch_throttler.get()` is never let through, and `wait()` does not return,
  though Pipe.cc:2092 says that this throttle "does not deadlock".
* Accepter: after a `rebind()` that failed, the next one finds `done` still set, because
  `stop()` returns early (Accepter.cc:375), and its thread ends at once. A `bind()` whose
  self-pipe cannot be made leaves the listening socket open.

AsyncMessenger:

* (m) With two workers, `assert(state == STATE_CLOSED)` after `accept_conn()`
  (AsyncConnection.cc:1843) can fail: another connection may have replaced this one in
  between. Hence `OnlyWindowAsserts`.
* (m) A connection that was marked down and whose peer kept its session is opened
  without RESETSESSION when the closed one is still registered
  (AsyncConnection.cc:1544), and the peer sends again what was delivered.
* (m) `handle_write()` counts a message out after it has dropped and taken back its
  lock; a session reset in between leaves `out_seq` at one.
* (m) A keepalive sent while a connection is being replaced posts to a center that the
  connection is leaving, and fails `assert(center->in_thread())`
  (AsyncConnection.cc:206). The runs send no keepalive with two workers.
* A message with an old number leaves `process()` in the state that reads the footer
  (AsyncConnection.cc:729). In the model such a message ends the process, as with
  `ms_die_on_old_message`, and `OnlyWindowAsserts` shows that none comes in the scenarios.
* (m) With `LocalListen` (the dpdk stack), `Processor::accept()` (AsyncMessenger.cc:161) does not
  count the reference that `release_worker()` gives back, whose `assert(oldref > 0)`
  (Stack.h:259) then fails. Without it, each EAGAIN leaks a reference.
* (m) `create_file_event()` (Event.cc:204) grows the table until it is not smaller than the
  descriptor, where it has to be larger: a descriptor equal to a size it takes on is
  indexed one past the end. The sizes are 20000 (four times `InitEventNumber`) and its
  multiples by four, so it takes a process with that many descriptors.
* (m) `NetworkStack::stop()` (Stack.cc:173) joins the workers with `pool_spin` held; a worker
  inside `get_worker()` would spin for ever. `Processor::stop()` comes first, which
  keeps that from happening (`ShutdownEnds`).

XioMessenger:

* (m) `wait()` can reach `assert(stop)` of QueueStrategy::wait() between
  `portals.shutdown()` and `dispatch_strategy->shutdown()` (XioMessenger.cc:956); `aborted`
  in the model.
* A spurious wake-up in `QueueStrategy::entry()` would list its thread twice.

## 5. Proofs

Proved for every policy, number of Pipes, workload and bound, from the named
assumptions on the constants in the modules that declare them:

* `PipeSessionProofs!LiveRegistered`: `Spec => []LivePipeRegistered`, at most one
  Pipe of a messenger is in use for the peer and it is the registered one. The
  property is not inductive. `LInv` adds which threads exist in which state
  (`Control`), that the registry holds only Pipes of its own messenger
  (`Registered`), that a name without an object has nothing left of it
  (`FreeIsClean`), and that a Pipe in `accept()` has nothing in its queue
  (`AcceptingIsIdle`): one that failed there with something to send
  would go to connecting, and be live beside the registered one.
* `PipeSessionProofs!TypeCorrect` and `NumbersConsistent`:
  `Spec => []TypeOK` and `Spec => []OutQueuesNumbered`. They are proved together,
  as `TInv`. `requeue_sent()` subtracts from an unsigned `out_seq`, so the type
  needs `WellNumbered`; `WellNumbered` says the sent list ends at `out_seq` without a
  gap and that messages put back carry the numbers they will be given again.
  To keep it, `TInv` says that no writer runs during `accept()`, that only a lossless
  Pipe that has been open keeps sent messages, and that a writer writes
  only what it took while the Pipe was open.
* `PipeSessionWireProofs!AgreedSession` and `AssertsHold`: `Spec => []SessionsAgree` and
  `Spec => []CodeAsserts`. Agreement is about two Pipes of two messengers that share
  nothing but a connection, and becomes true at different moments at its two ends, so
  the invariant `WInv` says for each connection which relation its ends are in (`Paired`):
  one is calling, and its request, a refusal, an unwritten grant or a grant is on the
  way (`Calling`: `Asked`, `Refused`, `Granted`, `Told`); or it has given up after an
  answer with the socket still there (`GaveUp`); or both have opened with the same number
  (`Joined`). What follows from a Pipe's own state, such as what its `cseq` is
  while it connects and that an arrived answer carries the number that `connect()`
  asserts, is `EndInv`. Most steps leave a connection alone or break it
  (`KeptLinks`); each other step moves its one connection from one relation to the next. The
  numbers that the code asserts (`ReplyAssert`) and who can meet whom in a race (`RaceAssert`)
  then follow, and with `LInv` also what the reaper and start_writer() assert.
* `PipeSessionChannelProofs!NothingLost`, `DeliveredWithoutGaps`, `SessionsResume` and
  `ChannelImplemented`, under the hypothesis `LosslessPeers`:
  `Spec => []NoSilentLoss`, `Spec => []ResumesExactly` and `Spec => ImplementsChannel`.
  The next subsection explains them.
* `SimpleMessengerProofs!NeverAfterFault`, `WaitEndsAll`, `AssertionsHold`:
  `NothingAfterFault`, `WaitIsFinal` and `CodeAsserts` of SimpleMessenger for any
  connections, policies, throttle and bounds. `Control` is the invariant they
  share: who holds the messenger's lock and why (`LockHeld`), that a Pipe is in
  `pipes` while a thread of it runs and is given to the reaper only afterwards
  (`ThreadsOwned`), how far `wait()` has got (`WaitProgress`), that a closed
  Pipe stays closed (`FaultingIsClosed`, `FaultedIsClosed`) and is cut loose
  from its Connection unless `wait()` is about to (`CutLoose`). `NothingAfterFault`
  is not inductive: a Pipe that failed could be opened again by its own
  accept(), were it not for the lock accept() holds from queue_accept() on.
* `SimpleMessengerProofs!ResetOnce`: `OneReset` of SimpleMessenger. The invariant
  `Resets` adds to `Control` what may be in each queue, in hand and seen (`Contents`:
  only class 0 at the highest priority holds resets, and one in the list of a connection
  names that connection); that of a Pipe's two threads one at most is inside `fault()`, after
  it has cut the Connection loose (`OneFaults`); and that a report is in one place, there
  once, and nowhere while it is owed (`Once`). A report is owed (`Owed`) while the
  Connection leads to the Pipe, or while the thread in `fault()` remembers that it was the one
  to cut it. No step makes a report owed again (`OweKept`), which is what the drop of
  `pipe_lock` in `fault()` puts at risk.
* `SimpleMessengerProofs!ThrottleBalances` and `MessengerTypes`: `ThrottleAccounted` and `TypeOK`
  of SimpleMessenger. `Books` says who has reserved room in the dispatch throttle: the readers in `Busy`,
  the queued items in `Sized` and the item in hand, sets that are finite although nothing is
  assumed of the number of connections. That a message weighs one only if a
  reader has got room for it, that events and the process's messages to itself weigh nothing,
  and that the thread has nothing in hand between two items is `Weights`. `Balanced` is the
  argument of each step: the throttle moves by what the three parts move by, or after the stop by
  more. It rests on what the operations do to the number of reserved items: `SizedAppended` (enqueue),
  `SizedTaken` (by a bijection between the queue before and after) and `SizedDiscarded` (a whole class).
  The throttle is at least what it counts, so nothing makes it negative; only `get()` raises it, below
  the limit. With `Types` for the other variables that gives `TypeOK`.
* `SimpleMessengerProofs!DeliveredInOrder`: `InOrder` of SimpleMessenger. For each
  class and priority `Line` orders what was delivered before what the dispatch thread
  has in hand, that before what is queued, and that before the numbers a message queued
  from now on may have (`Ahead`). No step adds a number to `Ahead`, because a reader has the
  last message its peer sent (`FromPeers`) and the local thread takes the first of a list
  that rises (`FromLocal`); each step moves a number one place along the line, or removes it.
* `SimpleMessengerProofs!AcceptComesFirst`: `AcceptFirst`. A connection whose reader
  is at work, or that has messages queued, has been announced: the event has been seen, is
  in hand, or is queued (`Announcing`). When the dispatch thread takes a message nothing of
  a higher priority is queued, so the event has been seen.
* `EventCenterProofs!NoWakeupIsLost` and `EventsRunInOrder`: `NoLostWakeup` and
  `EventsKeepOrder` for any workers, threads, connections and bounds, and
  `LoopInvariant`, the invariant `Loop` behind both. Neither is inductive. A thread wakes
  a center only when the count of external events was zero, so `Loop` says
  that a count of zero means an empty queue (`Counted`); the byte is written after the
  unlock, so it says that a blocked worker that is needed has a byte or an actor that
  owes one (`NobodyForgotten`). `TakeExternal` appends to what it has to run, so it says
  that nothing is left there between rounds (`RunsOnlyTaken`); and the thread that
  destroys a center runs what is left in it, which keeps the order only because all
  workers have ended (`AllJoined`).
* `EventCenterProofs!TypesHold` and `NoHandlerDangles`: `TypeOK` and `NothingDangles`. That
  nothing leads to a freed connection is not inductive; `Lives` says when something may lead to
  one. `Kinds` sharpens the types: which kind of event is for which kind of handler, that only
  connections have timers and descriptors in `Fds`. `Leads` says that a timer or a callback
  of a connection is in its own center's tables and only while the connection is open or closed
  and not yet cleaned up (`TimersLead`, `FilesLead`), no handler having two timers; that so are its
  external events; and that the clean-up of a closed connection is queued and is the last
  of them (`EventsLead`), because who posts an event has tested the state under the lock under
  which `_stop()` changes it. So when `cleanup()` runs nothing is left behind it.
  `FourTo` and the powers it computes are justified without an induction rule that takes an
  operator: a set of numbers has a least member (`LeastNumber`, from the well-foundedness of
  the order), so there is no least number at which a claim fails.
* `EventCenterProofs!NoAssertFails`: `CodeAsserts`, under `PosixFds`: the stack is posix,
  and no descriptor is exactly `InitEvents` times a power of four, where the code does fail
  (the two findings marked (m) about `accept()` and `create_file_event()` in section 4). `failed`
  stays `None`, and `Sound`, with `Lives` and `Loop`, says why: a table is `InitEvents` times a power of four (`Sized`), so a descriptor below or beyond it always
  fits what it grows to; what is registered has a callback (`Masked`); a worker
  has at least as many references as open connections (`Referenced`, by
  cardinality; `accept()` at EAGAIN takes one that nobody gives back), so
  `release_worker()` finds one; none is open once drain() has begun, and the local one
  is until `~AsyncMessenger()` (`Closing`). The last is that `~EventCenter()` finds no timer and
  nothing in its queue but the clean-up of the local connection. For that no connection
  may open after `shutdown_connections()`: accept() may not run any more, which is what
  `Listening` says (the socket fires only while it is registered, only its own center knows it, and
  it is not registered once `Processor::stop()` has returned). And drain() must have
  emptied the queues: `Awaited` says where the events that the Admin thread waits for are,
  that there is one at most at a center, and that nothing follows that of drain().
* `QueueStrategyProofs!ListIsExact` and `EveryMessageHasAThread`: the list of waiting
  threads names exactly sleeping threads, each once (`Listed`); hence taking its first
  entry makes one more thread awake, and with it `NoneSleepsInNeed` is kept
  for any pool and any messages.

Assumed are the named assumptions on the constants; `EventCenterProofs` uses those
that tell workers from other actors, kinds of handlers from each other, the notify pipe
from the sockets, and `None` from all.

### Lossless peers

A message is held by its sender, on the wire, at its receiver, or in two of these places
at once, and connections break, race and are replaced while it is. That none is
lost, repeated or reordered is what a lossless policy promises, and it is proved for one:
`LosslessPeers` says that both ends use `Policy::lossless_peer` (neither lossy nor a
server, no reset check; `standby` is left open), that no message has a higher priority than the others, that nobody marks a connection down and that no
process dies. Everything else is free: the number of Pipes and of messages, the limits,
faults, rejected requests, keepalives, fast dispatch or the queue. The constants of the runs
`lossless_race` and `lossless_faults` satisfy it. For the other policies the properties
hold only with what an end is told of resets, and stay with TLC (`mark_down` for `NoSilentLoss`).

`CInv`, with `TInv` and `WInv`, is inductive. Its parts:

* `Consecutive`: message k has or will get number k; the sent list, the messages put back
  and the new ones are the numbers from `Base + 1` to what was submitted. `handle_ack()`,
  `requeue_sent()` and `discard_requeued_up_to()` keep that, and move `Base` only.
* `SessionOK`: `Base` is no more than what the peer has received, and what this end has received
  is no more than what the peer has ever sent. These relate two Pipes that may not be
  connected, so nothing that is under way may break them later:
* `FramesOK` and `PipeOK`: no frame that has arrived, and none that a thread is about to write,
  claims more than is so. An acknowledgement may be old but not too high; that is why
  it matters to whom a number belongs when a Pipe has been replaced.
* `NextOnes`, `PairOK` and `Linked`: on an open connection the messages on the way are
  those from the first number its reader has not got to the last its writer has
  written, and until both ends have opened, the `in_seq` that one was told is
  still the other's. Together with `Consecutive` that is `ResumesExactly`.
* `Newest`, `ZerosBelow` and `Guarded`: an attempt with `connect_seq` 0 opens a new session
  at the other end and would make it forget what it has received. Such requests can
  arrive late. Once an end has received anything, or will, every request of this kind
  still under way has a lower `global_seq` than the session it would reset, and `accept()` answers
  RETRY_GLOBAL. Most of the proof of a new attempt and of `accept()` is about this.
* `ReceivedOK`: what is delivered, queued and in the hand of the fast dispatch is
  1, 2, ... up to the `in_seq` of the registered Pipe, which `replaced` Pipes hand on.

`NothingLost` follows from `Consecutive`, `SessionOK` and `ReceivedOK`: a message up to `Base` has been
received, one above it is in the queue. It is proved without what `NoSilentLoss` excuses
(`NothingForgotten`). `ChannelImplemented` is step by step: a submission is the channel's, what
fast dispatch or the dispatch thread delivers is the channel's next message, every other
step is a stutter or a reset of the channel. `DeliveredWithoutGaps` adds that no message is
skipped, with or without a reset.

Reading, writing and connecting each touch one connection, so most of the three modules is
what a step at one end does to the invariant of the other (`ReaderLinks`, `OneStep`),
with one lemma per action that computes what it changes and one that it keeps `CInv`.

### Only model-checked

`NoSilentLoss`, `ResumesExactly` and `ImplementsChannel` of PipeSession for other policies,
with urgent messages, mark_down or restarts. (The last two do not hold for all of them:
a peer without the reset check that is marked
down starts again at zero, and is told that numbers it has not sent were received.) Everything about AsyncSession, its
implementation of `ReliableChannel` included. And liveness: liveness under fairness, ENABLED, and
induction over data structures are beyond the provers used.

## 6. Not modelled

`PROJECT.json` lists every component with its reason. In short:

* Accepter: a loop over poll() and accept(). What it does to the messenger is in
  the models, its own thread is the single step `WaitStopsAccepter`.
* The DPDK TCP/IP stack is Seastar's, the RDMA stack is bound to ibverbs,
  XioMessenger to Accelio, whose callbacks are not in the repository.
* DPDK-FUSE: its rings carry pointers into packets already freed and to the
  caller's stack, so that most of what it does is undefined behaviour.
* Message encoding and checksums are sequential code; a message is an identity and
  a number here.
* Ceph-Seastar, Seastar-FUSE, Ceph-Message, Experiments: start-up code, tutorials,
  copies of the messenger (four under `Ceph-Seastar/history`), vendored
  headers, scripts. They are the larger part of the repository's lines.
* Within SimpleMessenger: bind, rebind and start, submission through a Connection
  object, Pipes opened by this end during a shutdown, locks held across
  `stop_and_wait()`. Within AsyncMessenger: what section 2 names as left out.
* Spurious wake-ups of condition variables.

## 7. What could come next

Submission through a Connection that is being replaced (PipeSession); partial
writes and the inactivity timer (AsyncSession); invariants of AsyncSession strong
enough to prove `OneSession`.

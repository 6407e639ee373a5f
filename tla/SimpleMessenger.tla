--------------------------- MODULE SimpleMessenger ---------------------------
(***************************************************************************)
(* One SimpleMessenger that accepts connections, receives messages on them *)
(* and is then shut down: the accepter, the reader and writer of each      *)
(* accepted Pipe, the threads of its DispatchQueue, the reaper, the thread *)
(* that calls shutdown() and the one in wait().                            *)
(*                                                                         *)
(* A Pipe is named by its connection.  What the peers do is open: connect, *)
(* send messages, fail.  The session protocol is in PipeSession; here a    *)
(* lossless Pipe that loses its socket goes to standby and stays there.    *)
(* What a thread does between taking and dropping pipe_lock is one action. *)
(* The messenger's lock is msgr_lock, and only its holder may go on while  *)
(* it keeps it over several actions.                                       *)
(***************************************************************************)
EXTENDS DispatchQueue

CONSTANTS
  Lossy,       \* the connections with a lossy policy
  MaxMsgs,     \* messages a peer sends on one connection
  MaxLocal,    \* messages the process sends to itself
  Shutdown     \* whether the process shuts the messenger down

ASSUME ConnsAreNoOwners == Conn \cap {"free", "shutdown", "wait"} = {}
ASSUME LossyConns == Lossy \subseteq Conn
ASSUME BoundsAreNat == MaxMsgs \in Nat /\ MaxLocal \in Nat /\ Shutdown \in BOOLEAN

VARIABLES
  state,            \* state of each Pipe
  reader, writer,   \* where its threads are
  frame,            \* the message its reader is working on
  received,         \* how many messages the peer has sent
  attached,         \* whether the PipeConnection still leads to the Pipe
  cleared,          \* fault(): whether it was the one to clear it
  rank_pipe, accepting_pipes, pipes,
  pipe_reap_queue,
  msgr_lock,
  accepting,        \* the accepter thread runs
  reaper, reaper_stop,
  app,              \* where the thread that calls shutdown() is
  waiter,           \* where the thread in wait() is
  closing,          \* the Pipe it waits for in stop_and_wait()
  sent_local,
  faulted           \* history: queue discarded by fault()

pipeVars  == <<state, reader, writer, frame, received, attached, cleared>>
tableVars == <<rank_pipe, accepting_pipes, pipes, pipe_reap_queue>>
stopVars  == <<accepting, reaper, reaper_stop, app, waiter, closing>>
history   == faulted
vars == <<queueVars, pipeVars, tableVars, stopVars, msgr_lock, sent_local, history>>
-----------------------------------------------------------------------------
NoConn == Loopback
MsgrLockIsFree == msgr_lock = "free"

MessengerInit ==
  /\ QueueInit
  /\ state = [c \in Conn |-> "none"]
  /\ reader = [c \in Conn |-> "off"] /\ writer = [c \in Conn |-> "off"]
  /\ frame = [c \in Conn |-> Nothing]
  /\ received = [c \in Conn |-> 0]
  /\ attached = [c \in Conn |-> FALSE] /\ cleared = [c \in Conn |-> FALSE]
  /\ rank_pipe = {} /\ accepting_pipes = {} /\ pipes = {} /\ pipe_reap_queue = <<>>
  /\ msgr_lock = "free"
  /\ accepting = TRUE
  /\ reaper = "run" /\ reaper_stop = FALSE
  /\ app = "up" /\ waiter = "wait" /\ closing = NoConn
  /\ sent_local = 0
  /\ faulted = {}

(* stop(), or setting STATE_CLOSED.                                        *)
Closed(c) == state' = [state EXCEPT ![c] = "closed"]
Reader(c, pc) == reader' = [reader EXCEPT ![c] = pc]
Writer(c, pc) == writer' = [writer EXCEPT ![c] = pc]

(* clear_pipe() is true for the one caller that cuts the Connection loose. *)
(* Mutants: true for every caller, asked only after the cut, no cut.       *)
AnyCaller(c) == TRUE
AfterTheCut(c) == FALSE
Clears(c) == attached[c]
LeftAttached(c) == attached' = attached
Detach(c) == attached' = [attached EXCEPT ![c] = FALSE]
ResetIfCleared(c) ==
  IF Clears(c) THEN QueueCode("reset", c) ELSE UNCHANGED <<mqueue, dispatcher>>

(* The state test at the top of reader()'s loop.                           *)
AfterTest(s) == CASE s = "closed" -> "done" [] s = "standby" -> "sleep" [] OTHER -> "tag"
-----------------------------------------------------------------------------
(* Accepter::entry() and add_accept_pipe()                                 *)
AddAcceptPipe(c) ==
  /\ accepting /\ MsgrLockIsFree /\ state[c] = "none"
  /\ state' = [state EXCEPT ![c] = "accepting"]
  /\ Reader(c, "accept")
  /\ attached' = [attached EXCEPT ![c] = TRUE]
  /\ pipes' = pipes \cup {c}
  /\ accepting_pipes' = accepting_pipes \cup {c}
  /\ UNCHANGED <<queueVars, writer, frame, received, cleared, rank_pipe, pipe_reap_queue,
                 stopVars, msgr_lock, sent_local, history>>

(* accept(): the peer's request has been read and both locks are taken.    *)
ShuttingDown(c) == stop \/ state[c] # "accepting"

AcceptAnnounces(c) ==
  /\ reader[c] = "accept" /\ MsgrLockIsFree /\ ~ShuttingDown(c)
  /\ QueueCode("accept", c)
  /\ msgr_lock' = c
  /\ Reader(c, "announced")
  /\ UNCHANGED <<current, localVars, throttle, stop, seen, state, writer, frame, received,
                 attached, cleared, tableVars, stopVars, sent_local, history>>

(* shutting_down: fault() on a closed Pipe queues a reset if the           *)
(* Connection still leads to it.                                           *)
AcceptRefuses(c) ==
  /\ \/ reader[c] = "accept" /\ MsgrLockIsFree /\ ShuttingDown(c)
     \/ reader[c] = "announced" /\ stop
  /\ msgr_lock' = "free"
  /\ Closed(c) /\ ResetIfCleared(c) /\ Detach(c)
  /\ Reader(c, "done")
  /\ UNCHANGED <<current, localVars, throttle, stop, seen, writer, frame, received, cleared,
                 tableVars, stopVars, sent_local, history>>

(* queue_accept() is followed by another look at stop.                     *)
AcceptRegisters(c) ==
  /\ reader[c] = "announced" /\ ~stop
  /\ accepting_pipes' = accepting_pipes \ {c}
  /\ rank_pipe' = rank_pipe \cup {c}
  /\ state' = [state EXCEPT ![c] = "open"]
  /\ msgr_lock' = "free"
  /\ Reader(c, "reply")
  /\ UNCHANGED <<queueVars, writer, frame, received, attached, cleared, pipes,
                 pipe_reap_queue, stopVars, sent_local, history>>

(* The READY reply is written without locks; then the writer starts.       *)
AcceptReplies(c) ==
  /\ reader[c] = "reply"
  /\ IF state[c] # "closed" THEN Writer(c, "run") ELSE UNCHANGED writer
  /\ Reader(c, AfterTest(state[c]))
  /\ UNCHANGED <<queueVars, state, frame, received, attached, cleared, tableVars, stopVars,
                 msgr_lock, sent_local, history>>

(* The peer fails, or is silent for longer than the read timeout.          *)
(* fail_unlocked closes the Pipe (nothing is queued on it) and then calls  *)
(* fault(); if someone else has closed it, it does neither.                *)
AcceptFails(c) ==
  /\ reader[c] \in {"accept", "reply"}
  /\ IF state[c] # "closed" THEN Closed(c) /\ ResetIfCleared(c) /\ Detach(c)
     ELSE UNCHANGED <<state, attached, mqueue, dispatcher>>
  /\ Reader(c, "done")
  /\ UNCHANGED <<current, localVars, throttle, stop, seen, writer, frame, received, cleared,
                 tableVars, stopVars, msgr_lock, sent_local, history>>
-----------------------------------------------------------------------------
(* fault() by the reader (goes on with goOn) or the writer.  A lossy Pipe  *)
(* is closed at once, and unregistered when the messenger's lock is free.  *)
FaultOnClosed(c) ==
  /\ state[c] = "closed"
  /\ ResetIfCleared(c) /\ Detach(c)
  /\ UNCHANGED <<state, cleared>>

FaultOnLossy(c) ==
  /\ state[c] # "closed" /\ c \in Lossy
  /\ Closed(c)
  /\ cleared' = [cleared EXCEPT ![c] = Clears(c)]
  /\ Detach(c)
  /\ UNCHANGED <<mqueue, dispatcher>>

FaultOnLossless(c) ==
  /\ state[c] # "closed" /\ c \notin Lossy
  /\ state' = [state EXCEPT ![c] = "standby"]
  /\ UNCHANGED <<attached, cleared, mqueue, dispatcher>>

ReaderFault(c) ==
  \/ FaultOnClosed(c) /\ Reader(c, "done")
  \/ FaultOnLossy(c) /\ Reader(c, "faulting")
  \/ FaultOnLossless(c) /\ Reader(c, "sleep")

(* The second half of fault() on a lossy Pipe.  discard_queue() and        *)
(* queue_reset() in one action: between them nobody adds to the class.     *)
FaultDiscards(c) ==
  /\ MsgrLockIsFree
  /\ rank_pipe' = rank_pipe \ {c}
  /\ throttle' = AfterDiscard(c)
  /\ LET kept == [q \in Priorities \X Classes |-> IF q[2] = c THEN <<>> ELSE mqueue[q]]
         m == Code("reset", c)
     IN  IF cleared[c] /\ ~stop
         THEN /\ mqueue' = [kept EXCEPT ![<<QueuePriority(m), Loopback>>] = AtEnd(@, m)]
              /\ dispatcher' = Signalled(dispatcher)
         ELSE mqueue' = kept /\ UNCHANGED dispatcher
  /\ faulted' = faulted \cup {c}
  /\ UNCHANGED <<current, localVars, stop, seen, state, frame, received, attached, cleared,
                 accepting_pipes, pipes, pipe_reap_queue, stopVars, msgr_lock, sent_local>>

ReaderFaulted(c) ==
  /\ reader[c] = "faulting" /\ FaultDiscards(c)
  /\ Reader(c, "done") /\ UNCHANGED writer

WriterFaulted(c) ==
  /\ writer[c] = "faulting" /\ FaultDiscards(c)
  /\ Writer(c, "done") /\ UNCHANGED reader
-----------------------------------------------------------------------------
(* reader(): a tag and a header arrive, or the socket fails.  The state    *)
(* was tested before the read and is not looked at during it.              *)
ReadHeader(c) ==
  /\ reader[c] = "tag" /\ received[c] < MaxMsgs
  /\ \E k \in Kinds : frame' = [frame EXCEPT ![c] = Msg(c, received[c] + 1, k, 1)]
  /\ received' = [received EXCEPT ![c] = @ + 1]
  /\ Reader(c, "throttle")
  /\ UNCHANGED <<queueVars, state, writer, attached, cleared, tableVars, stopVars, msgr_lock,
                 sent_local, history>>

ReadTagFails(c) ==
  /\ reader[c] = "tag"
  /\ ReaderFault(c)
  /\ UNCHANGED <<current, localVars, throttle, stop, seen, writer, frame, received, tableVars,
                 stopVars, msgr_lock, sent_local, history>>

(* read_message(): dispatch_throttler.get(), then the rest of the message. *)
TakeThrottle(c) ==
  /\ reader[c] = "throttle" /\ throttle < Limit
  /\ throttle' = throttle + 1
  /\ Reader(c, "body")
  /\ UNCHANGED <<dispatchVars, localVars, stop, seen, state, writer, frame, received, attached,
                 cleared, tableVars, stopVars, msgr_lock, sent_local, history>>

ReadBodyFails(c) ==
  /\ reader[c] = "body"
  /\ throttle' = throttle - 1
  /\ frame' = [frame EXCEPT ![c] = Nothing]
  /\ ReaderFault(c)
  /\ UNCHANGED <<current, localVars, stop, seen, writer, received, tableVars, stopVars,
                 msgr_lock, sent_local, history>>

(* The message is complete and pipe_lock is taken again.  The mutant does  *)
(* not look at the state again.                                            *)
NeverStale(c) == FALSE
StaleReader(c) == state[c] = "closed"

(* A message is dropped without a fault if its footer says ABORTED, if the *)
(* reader is stale or if its number is old.  The first of these is for the *)
(* peer to choose at any time, so that nothing is asked of the Pipe.       *)
DropRead(c) ==
  /\ reader[c] = "body"
  /\ throttle' = throttle - 1
  /\ frame' = [frame EXCEPT ![c] = Nothing]
  /\ Reader(c, AfterTest(state[c]))
  /\ UNCHANGED <<dispatchVars, localVars, stop, seen, state, writer, received, attached,
                 cleared, tableVars, stopVars, msgr_lock, sent_local, history>>

QueueRead(c) ==
  /\ reader[c] = "body" /\ ~StaleReader(c) /\ ~IsFast(frame[c])
  /\ Enqueue(frame[c], c)
  /\ frame' = [frame EXCEPT ![c] = Nothing]
  /\ Reader(c, AfterTest(state[c]))
  /\ UNCHANGED <<current, localVars, throttle, stop, seen, state, writer, received, attached,
                 cleared, tableVars, stopVars, msgr_lock, sent_local, history>>

(* Fast dispatch: pipe_lock is dropped before the Dispatcher is called.    *)
UnlockForFast(c) ==
  /\ reader[c] = "body" /\ ~StaleReader(c) /\ IsFast(frame[c])
  /\ Reader(c, "fast")
  /\ UNCHANGED <<queueVars, state, writer, frame, received, attached, cleared, tableVars,
                 stopVars, msgr_lock, sent_local, history>>

BeginFast(c) ==
  /\ reader[c] = "fast"
  /\ Told(c, frame[c])
  /\ Reader(c, "in_fast")
  /\ UNCHANGED <<dispatchVars, localVars, throttle, stop, state, writer, frame, received,
                 attached, cleared, tableVars, stopVars, msgr_lock, sent_local, history>>

EndFast(c) ==
  /\ reader[c] = "in_fast"
  /\ throttle' = throttle - DispatchSize(frame[c])
  /\ frame' = [frame EXCEPT ![c] = Nothing]
  /\ Reader(c, AfterTest(state[c]))
  /\ UNCHANGED <<dispatchVars, localVars, stop, seen, state, writer, received, attached,
                 cleared, tableVars, stopVars, msgr_lock, sent_local, history>>

(* The sleeping reader and the writer see that the Pipe is closed.         *)
ReaderExits(c) ==
  /\ reader[c] = "sleep" /\ state[c] = "closed"
  /\ Reader(c, "done")
  /\ UNCHANGED <<queueVars, state, writer, frame, received, attached, cleared, tableVars,
                 stopVars, msgr_lock, sent_local, history>>

WriterExits(c) ==
  /\ writer[c] = "run" /\ state[c] = "closed"
  /\ Writer(c, "done")
  /\ UNCHANGED <<queueVars, state, reader, frame, received, attached, cleared, tableVars,
                 stopVars, msgr_lock, sent_local, history>>

(* The writer cannot send an acknowledgement.  The Pipe may have been      *)
(* closed while it wrote without pipe_lock.                                *)
WriteFails(c) ==
  /\ writer[c] = "run" /\ state[c] \in {"open", "closed"}
  /\ \/ FaultOnClosed(c) /\ UNCHANGED writer
     \/ FaultOnLossy(c) /\ Writer(c, "faulting")
     \/ FaultOnLossless(c) /\ UNCHANGED writer
  /\ UNCHANGED <<current, localVars, throttle, stop, seen, reader, frame, received, tableVars,
                 stopVars, msgr_lock, sent_local, history>>

(* unlock_maybe_reap() and queue_reap() by the thread that ends last.      *)
ThreadsEnded(c) == reader[c] = "done" /\ writer[c] \in {"off", "done"}

QueueReap(c) ==
  /\ ThreadsEnded(c) /\ c \in pipes /\ MsgrLockIsFree
  /\ \A i \in DOMAIN pipe_reap_queue : pipe_reap_queue[i] # c
  /\ pipe_reap_queue' = Append(pipe_reap_queue, c)
  /\ UNCHANGED <<queueVars, pipeVars, rank_pipe, accepting_pipes, pipes, stopVars, msgr_lock,
                 sent_local, history>>
-----------------------------------------------------------------------------
(* reaper(): one Pipe; the threads have ended, so that join() returns.     *)
Reap ==
  /\ MsgrLockIsFree /\ pipe_reap_queue # <<>>
  /\ LET c == Head(pipe_reap_queue)
     IN  /\ Detach(c)
         /\ rank_pipe' = rank_pipe \ {c}
         /\ accepting_pipes' = accepting_pipes \ {c}
         /\ pipes' = pipes \ {c}
  /\ pipe_reap_queue' = Tail(pipe_reap_queue)
  /\ UNCHANGED <<queueVars, state, reader, writer, frame, received, cleared, accepting, reaper,
                 reaper_stop, app, closing, msgr_lock, sent_local, history>>

ReaperReaps == reaper = "run" /\ Reap /\ UNCHANGED waiter

ReaperExits ==
  /\ reaper = "run" /\ reaper_stop /\ MsgrLockIsFree
  /\ reaper' = "exit"
  /\ UNCHANGED <<queueVars, pipeVars, tableVars, accepting, reaper_stop, app, waiter, closing,
                 msgr_lock, sent_local, history>>

(* A message of the process to itself.                                     *)
SubmitLocal ==
  /\ app = "up" /\ sent_local < MaxLocal
  /\ \E k \in Kinds : LocalDelivery(Msg(Loopback, sent_local + 1, k, 0))
  /\ sent_local' = sent_local + 1
  /\ UNCHANGED <<pipeVars, tableVars, stopVars, msgr_lock, history>>
-----------------------------------------------------------------------------
(* shutdown(): mark_down_all() under the messenger's lock, then stopped.   *)
BeginShutdown ==
  /\ Shutdown /\ app = "up" /\ MsgrLockIsFree
  /\ app' = "marking" /\ msgr_lock' = "shutdown"
  /\ UNCHANGED <<queueVars, pipeVars, tableVars, accepting, reaper, reaper_stop, waiter,
                 closing, sent_local, history>>

MarkDown(c) ==
  /\ app = "marking" /\ c \in accepting_pipes \cup rank_pipe
  /\ accepting_pipes' = accepting_pipes \ {c} /\ rank_pipe' = rank_pipe \ {c}
  /\ Closed(c) /\ ResetIfCleared(c) /\ Detach(c)
  /\ UNCHANGED <<current, localVars, throttle, stop, seen, reader, writer, frame, received,
                 cleared, pipes, pipe_reap_queue, stopVars, msgr_lock, sent_local, faulted>>

EndShutdown ==
  /\ app = "marking" /\ accepting_pipes \cup rank_pipe = {}
  /\ app' = "stopped" /\ msgr_lock' = "free"
  /\ UNCHANGED <<queueVars, pipeVars, tableVars, accepting, reaper, reaper_stop, waiter,
                 closing, sent_local, history>>
-----------------------------------------------------------------------------
(* wait(), step by step.                                                   *)
WaitFor(from, to) == waiter = from /\ waiter' = to

WaitStopsAccepter ==
  /\ WaitFor("wait", "local") /\ app = "stopped"
  /\ accepting' = FALSE
  /\ UNCHANGED <<queueVars, pipeVars, tableVars, reaper, reaper_stop, app, closing, msgr_lock,
                 sent_local, history>>

WaitStopsLocal ==
  /\ WaitFor("local", "dispatch") /\ StopLocal
  /\ UNCHANGED <<pipeVars, tableVars, accepting, reaper, reaper_stop, app, closing, msgr_lock,
                 sent_local, history>>

WaitStopsDispatch ==
  /\ WaitFor("dispatch", "join") /\ StopDispatch
  /\ UNCHANGED <<pipeVars, tableVars, accepting, reaper, reaper_stop, app, closing, msgr_lock,
                 sent_local, history>>

WaitJoins ==
  /\ WaitFor("join", "reaper") /\ deliverer = "exit" /\ dispatcher = "exit"
  /\ DiscardLocal
  /\ UNCHANGED <<pipeVars, tableVars, accepting, reaper, reaper_stop, app, closing, msgr_lock,
                 sent_local, history>>

WaitStopsReaper ==
  /\ WaitFor("reaper", "join_reaper") /\ MsgrLockIsFree
  /\ reaper_stop' = TRUE
  /\ UNCHANGED <<queueVars, pipeVars, tableVars, accepting, reaper, app, closing, msgr_lock,
                 sent_local, history>>

WaitTakesLock ==
  /\ WaitFor("join_reaper", "close") /\ reaper = "exit" /\ MsgrLockIsFree
  /\ msgr_lock' = "wait"
  /\ UNCHANGED <<queueVars, pipeVars, tableVars, accepting, reaper, reaper_stop, app, closing,
                 sent_local, history>>

(* unregister_pipe() and stop_and_wait(), which waits for a reader in fast *)
(* dispatch with the messenger's lock held; then clear_pipe(), no event.   *)
WaitStopsPipe(c) ==
  /\ waiter = "close" /\ closing = NoConn /\ c \in rank_pipe
  /\ rank_pipe' = rank_pipe \ {c}
  /\ Closed(c)
  /\ closing' = c
  /\ UNCHANGED <<queueVars, reader, writer, frame, received, attached, cleared,
                 accepting_pipes, pipes, pipe_reap_queue, accepting, reaper, reaper_stop, app,
                 waiter, msgr_lock, sent_local, history>>

WaitClearsPipe ==
  /\ waiter = "close" /\ closing # NoConn
  /\ reader[closing] \notin {"fast", "in_fast"}
  /\ Detach(closing)
  /\ closing' = NoConn
  /\ UNCHANGED <<queueVars, state, reader, writer, frame, received, cleared, tableVars,
                 accepting, reaper, reaper_stop, app, waiter, msgr_lock, sent_local, history>>

WaitDropsLock ==
  /\ WaitFor("close", "reap") /\ closing = NoConn /\ rank_pipe = {}
  /\ msgr_lock' = "free"
  /\ UNCHANGED <<queueVars, pipeVars, tableVars, accepting, reaper, reaper_stop, app, closing,
                 sent_local, history>>

WaitReaps == waiter = "reap" /\ Reap /\ UNCHANGED waiter

(* The mutant waits for the registered Pipes only.                         *)
RegisteredGone == rank_pipe = {}
AllReaped == pipes = {}
WaitReturns ==
  /\ WaitFor("reap", "done") /\ MsgrLockIsFree /\ AllReaped
  /\ UNCHANGED <<queueVars, pipeVars, tableVars, accepting, reaper, reaper_stop, app, closing,
                 msgr_lock, sent_local, history>>
-----------------------------------------------------------------------------
restVars == <<pipeVars, tableVars, stopVars, msgr_lock, sent_local, history>>

AcceptStep(c) ==
  \/ AcceptAnnounces(c) \/ AcceptRefuses(c) \/ AcceptRegisters(c) \/ AcceptReplies(c)
  \/ AcceptFails(c)

ReaderStep(c) ==
  \/ ReaderFaulted(c) \/ DropRead(c) \/ QueueRead(c) \/ UnlockForFast(c)
  \/ BeginFast(c) \/ EndFast(c) \/ ReaderExits(c)

PipeStep(c) ==
  \/ AcceptStep(c) \/ ReaderStep(c)
  \/ ReadHeader(c) \/ ReadTagFails(c) \/ TakeThrottle(c) \/ ReadBodyFails(c)
  \/ WriteFails(c) \/ WriterFaulted(c) \/ WriterExits(c) \/ QueueReap(c)

WaitStep ==
  \/ WaitStopsAccepter \/ WaitStopsLocal \/ WaitStopsDispatch \/ WaitJoins
  \/ WaitStopsReaper \/ WaitTakesLock \/ WaitClearsPipe \/ WaitDropsLock \/ WaitReaps
  \/ WaitReturns \/ \E c \in Conn : WaitStopsPipe(c)

Next ==
  \/ \E c \in Conn : AddAcceptPipe(c) \/ PipeStep(c) \/ MarkDown(c)
  \/ DispatchThread /\ UNCHANGED restVars
  \/ LocalThread /\ UNCHANGED restVars
  \/ ReaperReaps \/ ReaperExits
  \/ SubmitLocal \/ BeginShutdown \/ EndShutdown
  \/ WaitStep
  \/ waiter = "done" /\ UNCHANGED vars     \* the messenger is down: not a deadlock

Spec == MessengerInit /\ [][Next]_vars

(* The threads are scheduled; a read from a dead socket fails, any other   *)
(* read ends (ms_tcp_read_timeout); Dispatchers return.  Nothing is        *)
(* assumed of the peers and of who calls shutdown().                       *)
Fairness ==
  /\ \A c \in Conn :
       /\ WF_vars(AcceptStep(c)) /\ WF_vars(ReaderStep(c))
       /\ WF_vars(TakeThrottle(c)) /\ WF_vars(ReadBodyFails(c))
       /\ WF_vars(ReadTagFails(c) /\ state[c] # "open")
       /\ WF_vars(WriterFaulted(c)) /\ WF_vars(WriterExits(c)) /\ WF_vars(QueueReap(c))
       /\ WF_vars(MarkDown(c))
  /\ WF_vars(DispatchThread /\ UNCHANGED restVars)
  /\ WF_vars(LocalThread /\ UNCHANGED restVars)
  /\ WF_vars(ReaperReaps) /\ WF_vars(ReaperExits)
  /\ WF_vars(EndShutdown) /\ WF_vars(WaitStep)

FairSpec == Spec /\ Fairness
-----------------------------------------------------------------------------
(* Every variable stays in its type.  throttle \in 0..Limit says that the  *)
(* code never gives back more of the throttle than was taken.              *)
TypeOK ==
  /\ QueueTypeOK
  /\ state \in [Conn -> {"none", "accepting", "open", "standby", "closed"}]
  /\ reader \in [Conn -> {"off", "accept", "announced", "reply", "tag", "throttle", "body",
                          "fast", "in_fast", "sleep", "faulting", "done"}]
  /\ writer \in [Conn -> {"off", "run", "faulting", "done"}]
  /\ frame \in [Conn -> Item] /\ received \in [Conn -> 0..MaxMsgs]
  /\ attached \in [Conn -> BOOLEAN] /\ cleared \in [Conn -> BOOLEAN]
  /\ rank_pipe \subseteq pipes /\ accepting_pipes \subseteq pipes /\ pipes \subseteq Conn
  /\ pipe_reap_queue \in Seq(Conn)
  /\ msgr_lock \in Conn \cup {"free", "shutdown", "wait"}
  /\ accepting \in BOOLEAN /\ reaper \in {"run", "exit"} /\ reaper_stop \in BOOLEAN
  /\ app \in {"up", "marking", "stopped"} /\ closing \in Conn \cup {NoConn}
  /\ waiter \in {"wait", "local", "dispatch", "join", "reaper", "join_reaper", "close",
                 "reap", "done"}
  /\ sent_local \in 0..MaxLocal
  /\ faulted \subseteq Conn

(* While the dispatch queue runs, the throttle counts the messages that    *)
(* readers are reading or dispatching, those queued, and the one being     *)
(* dispatched: no path through read_message(), fault(), discard_queue() or *)
(* dispatch loses a reservation or gives one back twice.                   *)
Held ==
  Cardinality({c \in Conn : reader[c] \in {"body", "fast", "in_fast"}})
    + Reservations(Classes) + current.size
ThrottleAccounted == IF stop THEN throttle >= Held ELSE throttle = Held

(* The dispatch thread delivers the messages of a connection that have the *)
(* same priority in the order in which they came.                          *)
Delivered(s, p) == {i \in DOMAIN s : s[i].what = "msg" /\ ~IsFast(s[i]) /\ Priority(s[i]) = p}
InOrder ==
  \A c \in Classes : \A p \in Priorities : \A i, j \in Delivered(seen[c], p) :
    i < j => seen[c][i].n < seen[c][j].n

(* ms_handle_accept() comes before any message dispatched by the dispatch  *)
(* thread, although messages and events are queued by class and priority.  *)
AcceptFirst ==
  \A c \in Conn : \A p \in Priorities : \A i \in Delivered(seen[c], p) :
    \E j \in 1..(i - 1) : seen[c][j].what = "accept"

(* A connection is reported reset once, whoever closed it: fault() of      *)
(* either thread, accept() or mark_down_all().                             *)
ResetsOf(c) == {i \in DOMAIN seen[c] : seen[c][i].what = "reset"}
OneReset ==
  \A c \in Conn :
    Cardinality(ResetsOf(c))
      + Cardinality({i \in DOMAIN mqueue[<<Highest, Loopback>>] :
                        mqueue[<<Highest, Loopback>>][i] = Code("reset", c)})
      + (IF current = Code("reset", c) THEN 1 ELSE 0) <= 1

(* Once fault() has discarded the queue of a lossy connection, its reader  *)
(* queues nothing more, even if the writer faulted in the middle of a      *)
(* message.                                                                *)
NothingAfterFault == \A c \in faulted : \A p \in Priorities : mqueue[<<p, c>>] = <<>>

(* What reaper(), accept() and ~SimpleMessenger() assert: a dead Pipe has  *)
(* been cut loose from its Connection, a Pipe that accept() registers was  *)
(* still in accepting_pipes, and nothing is left once wait() has returned. *)
CodeAsserts ==
  /\ \A i \in DOMAIN pipe_reap_queue : ~attached[pipe_reap_queue[i]]
  /\ \A c \in Conn : reader[c] = "announced" => c \in accepting_pipes
  /\ waiter = "done" => rank_pipe = {} /\ reaper = "exit" /\ ~accepting

(* When wait() has returned no thread of the messenger is left that could  *)
(* call a Dispatcher, not even a reader in fast dispatch.                  *)
WaitIsFinal ==
  waiter = "done" =>
    /\ dispatcher = "exit" /\ deliverer = "exit"
    /\ \A c \in Conn : reader[c] \in {"off", "done"} /\ writer[c] \in {"off", "done"}

(* Pipe.cc:2092: the dispatch throttle does not deadlock: a reader that    *)
(* waits for it goes on.                                                   *)
ThrottleWaitEnds == \A c \in Conn : (reader[c] = "throttle") ~> (reader[c] # "throttle")

(* A message to the process itself is delivered, unless the local thread   *)
(* has been stopped.                                                       *)
LocalDelivered ==
  \A n \in 1..MaxLocal : (sent_local >= n)
    ~> (stop_local \/ \E i \in DOMAIN seen[Loopback] : seen[Loopback][i].n = n)

(* Messenger.h:543: a connection that fails while the dispatch queue runs  *)
(* is reported reset, whichever of its threads fails first.                *)
ResetsDelivered ==
  \A c \in Conn : (state[c] = "closed" /\ ~stop) ~> (ResetsOf(c) # {} \/ stop)

(* wait() returns once shutdown() has been called.                         *)
ShutdownEnds == (app = "marking") ~> (waiter = "done")
=============================================================================

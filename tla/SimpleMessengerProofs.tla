------------------------ MODULE SimpleMessengerProofs ------------------------
(***************************************************************************)
(* Proofs about SimpleMessenger, for any connections, policies and bounds: *)
(* nothing is queued for a connection after fault() has discarded its      *)
(* queue, no thread is left once wait() has returned, the assertions of    *)
(* the reaper and of accept() hold, a connection is reported reset once,   *)
(* whoever closes it, every variable stays in its type, and the dispatch   *)
(* throttle counts exactly what is read, queued or being dispatched.  Last *)
(* comes the way of a message: the dispatch thread delivers those of a     *)
(* connection that have the same priority in the order in which they came, *)
(* and none before the event that announces the connection.                *)
(***************************************************************************)
EXTENDS SimpleMessenger, FiniteSetTheorems, FunctionTheorems, SequenceTheorems, TLAPS

(* As much of the types as the argument needs.                             *)
States == {"none", "accepting", "open", "standby", "closed"}
ReaderPlaces == {"off", "accept", "announced", "reply", "tag", "throttle", "body",
                 "fast", "in_fast", "sleep", "faulting", "done"}
WriterPlaces == {"off", "run", "faulting", "done"}
Shape ==
  /\ state \in [Conn -> States]
  /\ reader \in [Conn -> ReaderPlaces]
  /\ writer \in [Conn -> WriterPlaces]
  /\ pipe_reap_queue \in Seq(Conn)
  /\ attached \in [Conn -> BOOLEAN]
  /\ faulted \subseteq Conn
  /\ mqueue = [q \in Priorities \X Classes |-> mqueue[q]]

(* Who holds the messenger's lock: shutdown() while it marks Pipes down,   *)
(* wait() while it closes them, a reader in accept() from queue_accept()   *)
(* until it has registered its Pipe, whose state is still accepting.       *)
LockHeld ==
  /\ app = "marking" => msgr_lock = "shutdown"
  /\ waiter = "close" => msgr_lock = "wait"
  /\ \A c \in Conn : reader[c] = "announced" => msgr_lock = c /\ state[c] = "accepting"

(* A Pipe in fault(), or that has been through it, is closed for good, and *)
(* a connection whose queue was discarded has nothing in it.               *)
FaultingIsClosed ==
  \A c \in Conn : reader[c] = "faulting" \/ writer[c] = "faulting" => state[c] = "closed"
FaultedIsClosed == \A c \in faulted : state[c] = "closed"

(* The threads of a Pipe run only while the Pipe is in pipes, and a Pipe   *)
(* waits for the reaper only when they have ended.                         *)
Running(c) == reader[c] \notin {"off", "done"} \/ writer[c] \notin {"off", "done"}
ThreadsOwned ==
  /\ \A c \in Conn : state[c] = "none" => reader[c] = "off"
  /\ \A c \in Conn : reader[c] = "off" => writer[c] = "off"
  /\ \A c \in Conn : Running(c) => c \in pipes
  /\ \A i \in DOMAIN pipe_reap_queue : ThreadsEnded(pipe_reap_queue[i])

(* What wait() has achieved by the time it is at each of its steps.        *)
WaitProgress ==
  /\ waiter # "wait" => ~accepting
  /\ waiter \in {"reaper", "join_reaper", "close", "reap", "done"}
       => dispatcher = "exit" /\ deliverer = "exit"
  /\ waiter \in {"close", "reap", "done"} => reaper = "exit"
  /\ waiter = "done" => pipes = {}

(* A closed Pipe has been cut loose from its Connection, unless wait() has *)
(* just stopped it and still holds the messenger's lock.                   *)
CutLoose ==
  /\ closing # NoConn => waiter = "close"
  /\ \A c \in Conn : state[c] = "closed" => ~attached[c] \/ closing = c
  /\ \A c \in Conn : reader[c] = "done" => state[c] = "closed"
  /\ \A i \in DOMAIN pipe_reap_queue : ~attached[pipe_reap_queue[i]]

(* The tables of the messenger.                                            *)
Tables ==
  /\ rank_pipe \subseteq pipes
  /\ \A c \in Conn : state[c] = "accepting" => c \in accepting_pipes

(* The inductive invariant of the threads and the tables.                  *)
Control ==
  /\ Shape /\ LockHeld /\ ThreadsOwned /\ WaitProgress
  /\ FaultingIsClosed /\ FaultedIsClosed /\ CutLoose /\ Tables
-----------------------------------------------------------------------------
(* The initial states satisfy the invariant.                               *)
LEMMA ControlInit == MessengerInit => Control
BY DEF MessengerInit, QueueInit, Control, Shape, LockHeld, ThreadsOwned, WaitProgress,
       FaultingIsClosed, FaultedIsClosed, CutLoose, Tables, Running, ThreadsEnded, States,
       ReaderPlaces, WriterPlaces, NoConn

(* An event adds to a queue and makes no new one.                          *)
LEMMA ResetKeepsShape ==
  ASSUME Shape, NEW c, ResetIfCleared(c)
  PROVE  mqueue' = [q \in Priorities \X Classes |-> mqueue'[q]]
BY DEF Shape, ResetIfCleared, QueueCode, Enqueue

(* Every step of every thread keeps it.                                    *)
LEMMA ControlKept == ASSUME Control, [Next]_vars PROVE Control'
<1> USE ConnsAreNoOwners, LoopbackIsNoConn DEF Control, Shape, LockHeld, ThreadsOwned,
        WaitProgress, FaultingIsClosed, FaultedIsClosed, CutLoose, Tables, NoConn,
        Running, ThreadsEnded, States, ReaderPlaces, WriterPlaces
<1>1. CASE UNCHANGED vars
  BY <1>1 DEF vars, queueVars, pipeVars, tableVars, stopVars, history, dispatchVars,
        localVars
<1>2. ASSUME NEW c \in Conn, AddAcceptPipe(c) PROVE Control'
  BY <1>2 DEF AddAcceptPipe, MsgrLockIsFree, Reader, queueVars, stopVars, history,
        dispatchVars, localVars
<1>3. ASSUME NEW c \in Conn, AcceptAnnounces(c) PROVE Control'
  BY <1>3 DEF AcceptAnnounces, MsgrLockIsFree, ShuttingDown, QueueCode, Reader,
        localVars, tableVars, stopVars, history, Enqueue, Signalled
<1>4. ASSUME NEW c \in Conn, AcceptRefuses(c) PROVE Control'
  BY <1>4 DEF AcceptRefuses, MsgrLockIsFree, ShuttingDown, Closed, ResetIfCleared,
        Detach, Reader, localVars, tableVars, stopVars, history, Clears, QueueCode,
        Enqueue, Signalled
<1>5. ASSUME NEW c \in Conn, AcceptRegisters(c) PROVE Control'
  BY <1>5 DEF AcceptRegisters, Reader, queueVars, stopVars, history, dispatchVars,
        localVars
<1>6. ASSUME NEW c \in Conn, AcceptReplies(c) PROVE Control'
  <2>1. /\ reader[c] = "reply" /\ reader' = [reader EXCEPT ![c] = AfterTest(state[c])]
        /\ \/ writer' = writer
           \/ state[c] # "closed" /\ writer' = [writer EXCEPT ![c] = "run"]
        /\ AfterTest(state[c]) \in {"done", "sleep", "tag"}
        /\ AfterTest(state[c]) = "done" => state[c] = "closed"
        /\ state[c] # "closed" => AfterTest(state[c]) # "done"
    BY <1>6 DEF AcceptReplies, Writer, Reader, AfterTest
  <2>2. UNCHANGED <<mqueue, state, attached, faulted, pipe_reap_queue, closing, waiter,
                    rank_pipe, pipes, accepting_pipes, accepting, reaper, msgr_lock, app,
                    deliverer, dispatcher>>
    BY <1>6 DEF AcceptReplies, queueVars, tableVars, stopVars, history, dispatchVars,
          localVars
  <2>3. Shape'
    BY <2>1, <2>2
  <2>4. LockHeld' /\ WaitProgress'
    BY <2>1, <2>2
  <2>5. ThreadsOwned'
    BY <2>1, <2>2
  <2>6. FaultingIsClosed' /\ FaultedIsClosed'
    BY <2>1, <2>2
  <2>7. CutLoose' /\ Tables'
    BY <2>1, <2>2
  <2> QED BY <2>3, <2>4, <2>5, <2>6, <2>7
<1>7. ASSUME NEW c \in Conn, AcceptFails(c) PROVE Control'
  <2>1. CASE state[c] = "closed"
    BY <1>7, <2>1 DEF AcceptFails, Reader, localVars, tableVars, stopVars, history
  <2>2. CASE state[c] # "closed"
    <3>1. /\ state' = [state EXCEPT ![c] = "closed"]
          /\ attached' = [attached EXCEPT ![c] = FALSE]
          /\ reader' = [reader EXCEPT ![c] = "done"]
          /\ ResetIfCleared(c)
      BY <1>7, <2>2 DEF AcceptFails, Closed, Detach, Reader
    <3>2. UNCHANGED <<writer, faulted, pipe_reap_queue, closing, waiter, rank_pipe, pipes,
                      accepting_pipes, accepting, reaper, msgr_lock, app, deliverer>>
      BY <1>7 DEF AcceptFails, localVars, tableVars, stopVars, history
    <3>3. dispatcher' \in {dispatcher, Signalled(dispatcher)}
      BY <3>1 DEF ResetIfCleared, QueueCode, Enqueue
    <3>4. Shape'
      BY <3>1, <3>2, ResetKeepsShape
    <3>5. LockHeld' /\ Tables'
      BY <1>7, <3>1, <3>2 DEF AcceptFails
    <3>6. WaitProgress'
      BY <3>1, <3>2, <3>3 DEF Signalled
    <3>7. ThreadsOwned'
      BY <1>7, <3>1, <3>2 DEF AcceptFails
    <3>8. FaultingIsClosed' /\ FaultedIsClosed'
      BY <3>1, <3>2
    <3>9. CutLoose'
      BY <3>1, <3>2
    <3> QED BY <3>4, <3>5, <3>6, <3>7, <3>8, <3>9
  <2> QED BY <2>1, <2>2
<1>8. ASSUME NEW c \in Conn, ReaderFaulted(c) PROVE Control'
  BY <1>8 DEF ReaderFaulted, FaultDiscards, Reader, MsgrLockIsFree, Signalled,
        localVars, stopVars
<1>9. ASSUME NEW c \in Conn, WriterFaulted(c) PROVE Control'
  BY <1>9 DEF WriterFaulted, FaultDiscards, Writer, MsgrLockIsFree, Signalled,
        localVars, stopVars
<1>10. ASSUME NEW c \in Conn, ReadHeader(c) PROVE Control'
  BY <1>10 DEF ReadHeader, Reader, queueVars, tableVars, stopVars, history,
        dispatchVars, localVars
<1>11. ASSUME NEW c \in Conn, ReadTagFails(c) PROVE Control'
  <2>1. CASE FaultOnClosed(c) /\ Reader(c, "done")
    BY <1>11, <2>1 DEF ReadTagFails, localVars, tableVars, stopVars, history, Reader,
        FaultOnClosed, ResetIfCleared, Detach, Clears, QueueCode, Enqueue, Signalled
  <2>2. CASE FaultOnLossy(c) /\ Reader(c, "faulting")
    BY <1>11, <2>2 DEF ReadTagFails, localVars, tableVars, stopVars, history, Reader,
        FaultOnLossy, Closed, Detach, Clears
  <2>3. CASE FaultOnLossless(c) /\ Reader(c, "sleep")
    BY <1>11, <2>3 DEF ReadTagFails, localVars, tableVars, stopVars, history, Reader,
        FaultOnLossless
  <2> QED BY <1>11, <2>1, <2>2, <2>3 DEF ReadTagFails, ReaderFault
<1>12. ASSUME NEW c \in Conn, TakeThrottle(c) PROVE Control'
  BY <1>12 DEF TakeThrottle, Reader, dispatchVars, localVars, tableVars, stopVars,
        history
<1>13. ASSUME NEW c \in Conn, ReadBodyFails(c) PROVE Control'
  <2>1. CASE FaultOnClosed(c) /\ Reader(c, "done")
    BY <1>13, <2>1 DEF ReadBodyFails, localVars, tableVars, stopVars, history, Reader,
        FaultOnClosed, ResetIfCleared, Detach, Clears, QueueCode, Enqueue, Signalled
  <2>2. CASE FaultOnLossy(c) /\ Reader(c, "faulting")
    BY <1>13, <2>2 DEF ReadBodyFails, localVars, tableVars, stopVars, history, Reader,
        FaultOnLossy, Closed, Detach, Clears
  <2>3. CASE FaultOnLossless(c) /\ Reader(c, "sleep")
    BY <1>13, <2>3 DEF ReadBodyFails, localVars, tableVars, stopVars, history, Reader,
        FaultOnLossless
  <2> QED BY <1>13, <2>1, <2>2, <2>3 DEF ReadBodyFails, ReaderFault
<1>14. ASSUME NEW c \in Conn, DropRead(c) PROVE Control'
  <2>1. Shape' /\ LockHeld' /\ WaitProgress'
    BY <1>14 DEF DropRead, StaleReader, Reader, AfterTest, dispatchVars, localVars,
        tableVars, stopVars, history
  <2>2. ThreadsOwned'
    BY <1>14 DEF DropRead, StaleReader, Reader, AfterTest, dispatchVars, localVars,
        tableVars, stopVars, history
  <2>3. FaultingIsClosed' /\ FaultedIsClosed'
    BY <1>14 DEF DropRead, StaleReader, Reader, AfterTest, dispatchVars, localVars,
        tableVars, stopVars, history
  <2>4. CutLoose' /\ Tables'
    BY <1>14 DEF DropRead, StaleReader, Reader, AfterTest, dispatchVars, localVars,
        tableVars, stopVars, history
  <2> QED BY <2>1, <2>2, <2>3, <2>4
<1>15. ASSUME NEW c \in Conn, QueueRead(c) PROVE Control'
  <2>1. Shape' /\ LockHeld' /\ WaitProgress'
    BY <1>15 DEF QueueRead, StaleReader, Enqueue, Reader, AfterTest, localVars,
        tableVars, stopVars, history, Signalled
  <2>2. ThreadsOwned'
    BY <1>15 DEF QueueRead, StaleReader, Enqueue, Reader, AfterTest, localVars,
        tableVars, stopVars, history, Signalled
  <2>3. FaultingIsClosed' /\ FaultedIsClosed'
    BY <1>15 DEF QueueRead, StaleReader, Enqueue, Reader, AfterTest, localVars,
        tableVars, stopVars, history, Signalled
  <2>4. CutLoose' /\ Tables'
    BY <1>15 DEF QueueRead, StaleReader, Enqueue, Reader, AfterTest, localVars,
        tableVars, stopVars, history, Signalled
  <2> QED BY <2>1, <2>2, <2>3, <2>4
<1>16. ASSUME NEW c \in Conn, UnlockForFast(c) PROVE Control'
  BY <1>16 DEF UnlockForFast, StaleReader, Reader, queueVars, tableVars, stopVars,
        history, dispatchVars, localVars
<1>17. ASSUME NEW c \in Conn, BeginFast(c) PROVE Control'
  BY <1>17 DEF BeginFast, Reader, dispatchVars, localVars, tableVars, stopVars, history
<1>18. ASSUME NEW c \in Conn, EndFast(c) PROVE Control'
  <2>1. Shape' /\ LockHeld' /\ WaitProgress'
    BY <1>18 DEF EndFast, Reader, AfterTest, dispatchVars, localVars, tableVars,
        stopVars, history
  <2>2. ThreadsOwned'
    BY <1>18 DEF EndFast, Reader, AfterTest, dispatchVars, localVars, tableVars,
        stopVars, history
  <2>3. FaultingIsClosed' /\ FaultedIsClosed'
    BY <1>18 DEF EndFast, Reader, AfterTest, dispatchVars, localVars, tableVars,
        stopVars, history
  <2>4. CutLoose' /\ Tables'
    BY <1>18 DEF EndFast, Reader, AfterTest, dispatchVars, localVars, tableVars,
        stopVars, history
  <2> QED BY <2>1, <2>2, <2>3, <2>4
<1>19. ASSUME NEW c \in Conn, ReaderExits(c) PROVE Control'
  BY <1>19 DEF ReaderExits, Reader, queueVars, tableVars, stopVars, history,
        dispatchVars, localVars
<1>20. ASSUME NEW c \in Conn, WriterExits(c) PROVE Control'
  BY <1>20 DEF WriterExits, Writer, queueVars, tableVars, stopVars, history,
        dispatchVars, localVars
<1>21. ASSUME NEW c \in Conn, WriteFails(c) PROVE Control'
  <2>1. CASE FaultOnLossy(c) /\ Writer(c, "faulting")
    BY <1>21, <2>1 DEF WriteFails, FaultOnLossy, Writer, FaultOnLossless, localVars,
        tableVars, stopVars, history, Closed, Clears, Detach
  <2>2. CASE FaultOnLossless(c) /\ UNCHANGED writer
    BY <1>21, <2>2 DEF WriteFails, FaultOnLossy, Writer, FaultOnLossless, localVars,
        tableVars, stopVars, history, Closed, Clears, Detach
  <2>3. CASE FaultOnClosed(c) /\ UNCHANGED writer
    <3>1. /\ ResetIfCleared(c) /\ attached' = [attached EXCEPT ![c] = FALSE]
          /\ UNCHANGED <<state, reader, writer>>
      BY <1>21, <2>3 DEF WriteFails, FaultOnClosed, Detach
    <3>2. UNCHANGED <<deliverer, waiter, closing, msgr_lock, app, accepting, reaper, faulted,
                      rank_pipe, accepting_pipes, pipes, pipe_reap_queue>>
      BY <1>21 DEF WriteFails, localVars, tableVars, stopVars, history
    <3>3. dispatcher' \in {dispatcher, Signalled(dispatcher)}
      BY <3>1 DEF ResetIfCleared, QueueCode, Enqueue
    <3>4. WaitProgress'
      BY <3>1, <3>2, <3>3 DEF Signalled
    <3>5. Shape'
      BY <3>1, <3>2, <3>3, ResetKeepsShape DEF Signalled
    <3>6. LockHeld' /\ Tables' /\ ThreadsOwned'
      BY <3>1, <3>2
    <3>7. FaultingIsClosed' /\ FaultedIsClosed' /\ CutLoose'
      BY <3>1, <3>2
    <3> QED BY <3>4, <3>5, <3>6, <3>7
  <2> QED BY <1>21, <2>1, <2>2, <2>3 DEF WriteFails
<1>22. ASSUME NEW c \in Conn, QueueReap(c) PROVE Control'
  BY <1>22 DEF QueueReap, MsgrLockIsFree, queueVars, pipeVars, stopVars, history,
        dispatchVars, localVars
<1>23. ASSUME NEW c \in Conn, MarkDown(c) PROVE Control'
  BY <1>23 DEF MarkDown, Closed, ResetIfCleared, Detach, localVars, stopVars, Clears,
        QueueCode, Enqueue, Signalled
<1>24. CASE Dequeue /\ UNCHANGED restVars
  BY <1>24 DEF Dequeue, localVars, restVars, pipeVars, tableVars, stopVars, history
<1>25. CASE DispatcherSleeps /\ UNCHANGED restVars
  BY <1>25 DEF DispatcherSleeps, localVars, restVars, pipeVars, tableVars, stopVars,
        history
<1>26. CASE DispatcherExits /\ UNCHANGED restVars
  BY <1>26 DEF DispatcherExits, localVars, restVars, pipeVars, tableVars, stopVars,
        history
<1>27. CASE HandleCode /\ UNCHANGED restVars
  BY <1>27 DEF HandleCode, localVars, restVars, pipeVars, tableVars, stopVars, history
<1>28. CASE DropMessage /\ UNCHANGED restVars
  BY <1>28 DEF DropMessage, localVars, restVars, pipeVars, tableVars, stopVars, history
<1>29. CASE BeginDispatch /\ UNCHANGED restVars
  BY <1>29 DEF BeginDispatch, localVars, restVars, pipeVars, tableVars, stopVars,
        history
<1>30. CASE EndDispatch /\ UNCHANGED restVars
  BY <1>30 DEF EndDispatch, localVars, restVars, pipeVars, tableVars, stopVars, history
<1>31. CASE LocalTakes /\ UNCHANGED restVars
  BY <1>31 DEF LocalTakes, dispatchVars, restVars, pipeVars, tableVars, stopVars,
        history
<1>32. CASE LocalSleeps /\ UNCHANGED restVars
  BY <1>32 DEF LocalSleeps, dispatchVars, restVars, pipeVars, tableVars, stopVars,
        history
<1>33. CASE LocalExits /\ UNCHANGED restVars
  BY <1>33 DEF LocalExits, dispatchVars, restVars, pipeVars, tableVars, stopVars,
        history
<1>34. CASE LocalDelivers /\ UNCHANGED restVars
  BY <1>34 DEF LocalDelivers, Enqueue, Signalled, restVars, pipeVars, tableVars,
        stopVars, history
<1>35. CASE ReaperReaps
  BY <1>35 DEF ReaperReaps, Reap, MsgrLockIsFree, Detach, queueVars, history,
        dispatchVars, localVars
<1>36. CASE ReaperExits
  BY <1>36 DEF ReaperExits, MsgrLockIsFree, queueVars, pipeVars, tableVars, history,
        dispatchVars, localVars
<1>37. CASE SubmitLocal
  BY <1>37 DEF SubmitLocal, LocalDelivery, pipeVars, tableVars, stopVars, history,
        WasEmpty, Signalled, dispatchVars
<1>38. CASE BeginShutdown
  BY <1>38 DEF BeginShutdown, MsgrLockIsFree, queueVars, pipeVars, tableVars, history,
        dispatchVars, localVars
<1>39. CASE EndShutdown
  BY <1>39 DEF EndShutdown, queueVars, pipeVars, tableVars, history, dispatchVars,
        localVars
<1>40. CASE WaitStopsAccepter
  BY <1>40 DEF WaitStopsAccepter, WaitFor, queueVars, pipeVars, tableVars, history,
        dispatchVars, localVars
<1>41. CASE WaitStopsLocal
  BY <1>41 DEF WaitStopsLocal, WaitFor, StopLocal, pipeVars, tableVars, history,
        Signalled, dispatchVars
<1>42. CASE WaitStopsDispatch
  BY <1>42 DEF WaitStopsDispatch, WaitFor, StopDispatch, pipeVars, tableVars, history,
        StopSignal, localVars, Signalled
<1>43. CASE WaitJoins
  BY <1>43 DEF WaitJoins, WaitFor, DiscardLocal, pipeVars, tableVars, history,
        dispatchVars
<1>44. CASE WaitStopsReaper
  BY <1>44 DEF WaitStopsReaper, WaitFor, MsgrLockIsFree, queueVars, pipeVars, tableVars,
        history, dispatchVars, localVars
<1>45. CASE WaitTakesLock
  BY <1>45 DEF WaitTakesLock, WaitFor, MsgrLockIsFree, queueVars, pipeVars, tableVars,
        history, dispatchVars, localVars
<1>46. ASSUME NEW c \in Conn, WaitStopsPipe(c) PROVE Control'
  BY <1>46 DEF WaitStopsPipe, Closed, queueVars, history, dispatchVars, localVars
<1>47. CASE WaitClearsPipe
  <2>1. Shape' /\ LockHeld' /\ WaitProgress'
    BY <1>47 DEF WaitClearsPipe, Detach, queueVars, tableVars, history, dispatchVars,
        localVars
  <2>2. ThreadsOwned'
    BY <1>47 DEF WaitClearsPipe, Detach, queueVars, tableVars, history, dispatchVars,
        localVars
  <2>3. FaultingIsClosed' /\ FaultedIsClosed'
    BY <1>47 DEF WaitClearsPipe, Detach, queueVars, tableVars, history, dispatchVars,
        localVars
  <2>4. CutLoose' /\ Tables'
    BY <1>47 DEF WaitClearsPipe, Detach, queueVars, tableVars, history, dispatchVars,
        localVars
  <2> QED BY <2>1, <2>2, <2>3, <2>4
<1>48. CASE WaitDropsLock
  BY <1>48 DEF WaitDropsLock, WaitFor, queueVars, pipeVars, tableVars, history,
        dispatchVars, localVars
<1>49. CASE WaitReaps
  BY <1>49 DEF WaitReaps, Reap, MsgrLockIsFree, Detach, queueVars, history,
        dispatchVars, localVars
<1>50. CASE WaitReturns
  BY <1>50 DEF WaitReturns, WaitFor, MsgrLockIsFree, AllReaped, queueVars, pipeVars,
        tableVars, history, dispatchVars, localVars
<1> QED BY <1>1, <1>2, <1>3, <1>4, <1>5, <1>6, <1>7, <1>8, <1>9, <1>10, <1>11, <1>12,
        <1>13, <1>14, <1>15, <1>16, <1>17, <1>18, <1>19, <1>20, <1>21, <1>22, <1>23,
        <1>24, <1>25, <1>26, <1>27, <1>28, <1>29, <1>30, <1>31, <1>32, <1>33, <1>34,
        <1>35, <1>36, <1>37, <1>38, <1>39, <1>40, <1>41, <1>42, <1>43, <1>44, <1>45,
        <1>46, <1>47, <1>48, <1>49, <1>50
       DEF Next, PipeStep, AcceptStep, ReaderStep, DispatchThread, LocalThread, WaitStep
-----------------------------------------------------------------------------
(* A step changes nothing in the queues of connections that have failed.   *)
QueuesKept == \A c \in faulted : \A p \in Priorities : mqueue'[<<p, c>>] = mqueue[<<p, c>>]

(* Putting an item in one class leaves the others alone.                   *)
LEMMA EnqueueElsewhere ==
  ASSUME Shape, NEW m, NEW class, Enqueue(m, class), NEW c \in Conn, c # class,
         NEW p \in Priorities
  PROVE  mqueue'[<<p, c>>] = mqueue[<<p, c>>]
BY DEF Shape, Enqueue, Classes

(* Events are in class 0, which no connection has.                         *)
LEMMA EventKeepsQueues ==
  ASSUME Shape, NEW what, NEW d, QueueCode(what, d)
  PROVE  QueuesKept
<1> SUFFICES ASSUME NEW c \in faulted, NEW p \in Priorities
             PROVE  mqueue'[<<p, c>>] = mqueue[<<p, c>>]
  BY DEF QueuesKept
<1>1. c \in Conn /\ c # Loopback BY LoopbackIsNoConn DEF Shape
<1>2. CASE stop BY <1>2 DEF QueueCode
<1>3. CASE ~stop BY <1>1, <1>3, EnqueueElsewhere DEF QueueCode
<1> QED BY <1>2, <1>3

(* clear_pipe() and queue_reset().                                         *)
LEMMA ResetKeepsQueues ==
  ASSUME Shape, NEW c \in Conn, ResetIfCleared(c)
  PROVE  QueuesKept
<1>1. CASE Clears(c) BY <1>1, EventKeepsQueues DEF ResetIfCleared
<1>2. CASE ~Clears(c) BY <1>2 DEF ResetIfCleared, QueuesKept
<1> QED BY <1>1, <1>2

(* fault() as far as the reader goes before it drops pipe_lock.            *)
LEMMA ReaderFaultKeepsQueues ==
  ASSUME Shape, NEW c \in Conn, ReaderFault(c)
  PROVE  QueuesKept
<1>1. CASE FaultOnClosed(c) BY <1>1, ResetKeepsQueues DEF FaultOnClosed
<1>2. CASE FaultOnLossy(c) BY <1>2 DEF FaultOnLossy, QueuesKept
<1>3. CASE FaultOnLossless(c) BY <1>3 DEF FaultOnLossless, QueuesKept
<1> QED BY <1>1, <1>2, <1>3 DEF ReaderFault

(* The second half of fault() empties the queue of its connection, and the *)
(* event it may queue goes to class 0.                                     *)
LEMMA FaultEmpties ==
  ASSUME Shape, NEW c \in Conn, FaultDiscards(c), NothingAfterFault
  PROVE  NothingAfterFault'
<1> DEFINE kept == [q \in Priorities \X Classes |-> IF q[2] = c THEN <<>> ELSE mqueue[q]]
           reset == Code("reset", c)
<1> SUFFICES ASSUME NEW d \in faulted', NEW p \in Priorities
             PROVE  mqueue'[<<p, d>>] = <<>>
  BY DEF NothingAfterFault
<1>1. faulted' = faulted \cup {c} BY DEF FaultDiscards
<1>2. d \in Conn /\ d # Loopback /\ <<p, d>> \in Priorities \X Classes
  BY <1>1, LoopbackIsNoConn DEF Shape, Classes
<1>3. kept[<<p, d>>] = <<>>
  <2>1. CASE d = c BY <2>1, <1>2
  <2>2. CASE d # c BY <2>2, <1>1, <1>2 DEF NothingAfterFault
  <2> QED BY <2>1, <2>2
<1>4. \/ mqueue' = kept
      \/ mqueue' = [kept EXCEPT ![<<QueuePriority(reset), Loopback>>] = AtEnd(@, reset)]
  BY DEF FaultDiscards
<1> HIDE DEF kept, reset
<1>5. CASE mqueue' = kept BY <1>3, <1>5
<1>6. CASE mqueue' = [kept EXCEPT ![<<QueuePriority(reset), Loopback>>] = AtEnd(@, reset)]
  <2>1. <<p, d>> # <<QueuePriority(reset), Loopback>> BY <1>2
  <2>2. <<p, d>> \in DOMAIN kept BY <1>2 DEF kept
  <2> QED BY <1>3, <1>6, <2>1, <2>2
<1> QED BY <1>4, <1>5, <1>6

(* A reader that has looked at the state again under pipe_lock adds to a   *)
(* queue that was not discarded.                                           *)
LEMMA ReadQueuedElsewhere ==
  ASSUME Control, NEW c \in Conn, QueueRead(c)
  PROVE  QueuesKept
<1>1. c \notin faulted BY DEF Control, FaultedIsClosed, QueueRead, StaleReader
<1>2. Shape /\ Enqueue(frame[c], c) /\ faulted \subseteq Conn BY DEF Control, Shape, QueueRead
<1> QED BY <1>1, <1>2, EnqueueElsewhere DEF QueuesKept

(* What the dispatch thread takes comes from a queue that was not empty.   *)
LEMMA DequeueKeepsQueues ==
  ASSUME Shape, NothingAfterFault, Dequeue
  PROVE  QueuesKept
<1> SUFFICES ASSUME NEW c \in faulted, NEW p \in Priorities
             PROVE  mqueue'[<<p, c>>] = mqueue[<<p, c>>]
  BY DEF QueuesKept
<1>1. PICK q \in NonEmpty : mqueue' = [mqueue EXCEPT ![q] = Tail(@)] BY DEF Dequeue
<1>2. q # <<p, c>> BY <1>1 DEF NonEmpty, NothingAfterFault
<1>3. <<p, c>> \in Priorities \X Classes BY DEF Shape, Classes
<1> QED BY <1>1, <1>2, <1>3 DEF Shape

(* Local messages go to class 0 too.                                       *)
LEMMA LocalKeepsQueues ==
  ASSUME Shape, LocalDelivers
  PROVE  QueuesKept
<1>1. CASE IsFast(in_hand) BY <1>1 DEF LocalDelivers, QueuesKept
<1>2. CASE ~IsFast(in_hand)
  <2>1. Enqueue(in_hand, Loopback) BY <1>2 DEF LocalDelivers
  <2>2. \A c \in faulted : c \in Conn /\ c # Loopback BY LoopbackIsNoConn DEF Shape
  <2> QED BY <2>1, <2>2, EnqueueElsewhere DEF QueuesKept
<1> QED BY <1>1, <1>2

(* No step queues anything for a connection that has failed.               *)
LEMMA NothingQueued ==
  ASSUME Control, NothingAfterFault, [Next]_vars
  PROVE  NothingAfterFault'
<1>1. Shape BY DEF Control
<1>2. ASSUME QueuesKept, faulted' = faulted PROVE NothingAfterFault'
  BY <1>2 DEF QueuesKept, NothingAfterFault
<1>3. ASSUME mqueue' = mqueue, faulted' = faulted PROVE NothingAfterFault'
  BY <1>3 DEF NothingAfterFault
<1>4. CASE UNCHANGED vars
  BY <1>3, <1>4 DEF vars, queueVars, dispatchVars, history
<1>5. ASSUME NEW c \in Conn, AddAcceptPipe(c) \/ PipeStep(c) \/ MarkDown(c)
      PROVE  NothingAfterFault'
  <2>1. CASE AcceptAnnounces(c)
    BY <1>1, <1>2, <2>1, EventKeepsQueues DEF AcceptAnnounces, history
  <2>2. CASE AcceptRefuses(c)
    BY <1>1, <1>2, <2>2, ResetKeepsQueues DEF AcceptRefuses, history
  <2>3. CASE AcceptFails(c)
    <3>1. faulted' = faulted BY <2>3 DEF AcceptFails, history
    <3>2. CASE state[c] = "closed" BY <1>3, <2>3, <3>1, <3>2 DEF AcceptFails
    <3>3. CASE state[c] # "closed"
      BY <1>1, <1>2, <2>3, <3>1, <3>3, ResetKeepsQueues DEF AcceptFails
    <3> QED BY <3>2, <3>3
  <2>4. CASE ReadTagFails(c)
    BY <1>1, <1>2, <2>4, ReaderFaultKeepsQueues DEF ReadTagFails, history
  <2>5. CASE ReadBodyFails(c)
    BY <1>1, <1>2, <2>5, ReaderFaultKeepsQueues DEF ReadBodyFails, history
  <2>6. CASE QueueRead(c)
    BY <1>2, <2>6, ReadQueuedElsewhere DEF QueueRead, history
  <2>7. CASE ReaderFaulted(c) \/ WriterFaulted(c)
    BY <1>1, <2>7, FaultEmpties DEF ReaderFaulted, WriterFaulted
  <2>8. CASE WriteFails(c)
    <3>1. faulted' = faulted BY <2>8 DEF WriteFails, history
    <3>2. CASE FaultOnClosed(c)
      BY <1>1, <1>2, <3>1, <3>2, ResetKeepsQueues DEF FaultOnClosed
    <3>3. CASE FaultOnLossy(c) \/ FaultOnLossless(c)
      BY <1>3, <3>1, <3>3 DEF FaultOnLossy, FaultOnLossless
    <3> QED BY <2>8, <3>2, <3>3 DEF WriteFails
  <2>9. CASE MarkDown(c)
    BY <1>1, <1>2, <2>9, ResetKeepsQueues DEF MarkDown
  <2>10. CASE \/ AddAcceptPipe(c) \/ AcceptRegisters(c) \/ AcceptReplies(c) \/ ReadHeader(c)
              \/ TakeThrottle(c) \/ DropRead(c)
    BY <1>3, <2>10 DEF AddAcceptPipe, AcceptRegisters, AcceptReplies, ReadHeader,
       TakeThrottle, DropRead, queueVars, dispatchVars, history
  <2>11. CASE \/ UnlockForFast(c) \/ BeginFast(c) \/ EndFast(c) \/ ReaderExits(c)
              \/ WriterExits(c) \/ QueueReap(c)
    BY <1>3, <2>11 DEF UnlockForFast, BeginFast, EndFast, ReaderExits, WriterExits,
       QueueReap, queueVars, dispatchVars, history
  <2> QED BY <1>5, <2>1, <2>2, <2>3, <2>4, <2>5, <2>6, <2>7, <2>8, <2>9, <2>10, <2>11
          DEF PipeStep, AcceptStep, ReaderStep
<1>6. CASE DispatchThread /\ UNCHANGED restVars
  <2>1. faulted' = faulted BY <1>6 DEF restVars, history
  <2>2. CASE Dequeue BY <1>1, <1>2, <2>1, <2>2, DequeueKeepsQueues
  <2>3. CASE ~Dequeue
    BY <1>3, <1>6, <2>1, <2>3 DEF DispatchThread, DispatcherSleeps, DispatcherExits,
       HandleCode, DropMessage, BeginDispatch, EndDispatch
  <2> QED BY <2>2, <2>3
<1>7. CASE LocalThread /\ UNCHANGED restVars
  <2>1. faulted' = faulted BY <1>7 DEF restVars, history
  <2>2. CASE LocalDelivers BY <1>1, <1>2, <2>1, <2>2, LocalKeepsQueues
  <2>3. CASE ~LocalDelivers
    BY <1>3, <1>7, <2>1, <2>3 DEF LocalThread, LocalTakes, LocalSleeps, LocalExits,
       dispatchVars
  <2> QED BY <2>2, <2>3
<1>8. CASE ReaperReaps \/ ReaperExits
  BY <1>3, <1>8 DEF ReaperReaps, Reap, ReaperExits, queueVars, dispatchVars, history
<1>9. CASE SubmitLocal
  <2>1. faulted' = faulted BY <1>9 DEF SubmitLocal, history
  <2>2. mqueue' = mqueue BY <1>9 DEF SubmitLocal, LocalDelivery, dispatchVars
  <2> QED BY <1>3, <2>1, <2>2
<1>10. CASE BeginShutdown \/ EndShutdown
  BY <1>3, <1>10 DEF BeginShutdown, EndShutdown, queueVars, dispatchVars, history
<1>11. CASE WaitStep
  <2>1. CASE \/ WaitStopsAccepter \/ WaitStopsLocal \/ WaitStopsDispatch \/ WaitJoins
             \/ WaitStopsReaper \/ WaitTakesLock
    BY <1>3, <2>1 DEF WaitStopsAccepter, WaitStopsLocal, WaitStopsDispatch, WaitJoins,
       WaitStopsReaper, WaitTakesLock, StopLocal, StopDispatch, DiscardLocal, queueVars,
       dispatchVars, history
  <2>2. CASE WaitClearsPipe \/ WaitDropsLock \/ WaitReaps \/ WaitReturns
    BY <1>3, <2>2 DEF WaitClearsPipe, WaitDropsLock, WaitReaps, Reap, WaitReturns,
       queueVars, dispatchVars, history
  <2>3. CASE \E c \in Conn : WaitStopsPipe(c)
    BY <1>3, <2>3 DEF WaitStopsPipe, queueVars, dispatchVars, history
  <2> QED BY <1>11, <2>1, <2>2, <2>3 DEF WaitStep
<1> QED BY <1>4, <1>5, <1>6, <1>7, <1>8, <1>9, <1>10, <1>11 DEF Next
-----------------------------------------------------------------------------
(* fault() drops pipe_lock between closing a lossy Pipe and discarding its *)
(* queue, and a reader reads without the lock: even so nothing is queued   *)
(* for the connection afterwards, whatever the connections, their policies *)
(* and the moment of a shutdown.                                           *)
THEOREM NeverAfterFault == Spec => []NothingAfterFault
<1>1. MessengerInit => Control /\ NothingAfterFault
  BY ControlInit DEF MessengerInit, NothingAfterFault
<1>2. Control /\ NothingAfterFault /\ [Next]_vars => (Control /\ NothingAfterFault)'
  BY ControlKept, NothingQueued
<1> QED BY <1>1, <1>2, PTL DEF Spec

(* When wait() has returned every thread of the messenger has ended: the   *)
(* dispatch and local delivery threads, and the readers and writers of all *)
(* Pipes, those accepted during the shutdown included.                     *)
THEOREM WaitEndsAll == Spec => []WaitIsFinal
<1>1. Control => WaitIsFinal
  BY DEF Control, ThreadsOwned, WaitProgress, WaitIsFinal, Running
<1> QED BY <1>1, ControlInit, ControlKept, PTL DEF Spec

(* What reaper(), accept() and ~SimpleMessenger() assert: the reaper finds *)
(* no Pipe its Connection still leads to, accept() registers no Pipe that  *)
(* mark_down_all() has taken away, and nothing is left after wait().       *)
THEOREM AssertionsHold == Spec => []CodeAsserts
<1>1. Control => CodeAsserts
  BY DEF Control, CutLoose, Tables, LockHeld, WaitProgress, CodeAsserts
<1> QED BY <1>1, ControlInit, ControlKept, PTL DEF Spec
------------------------------------------------------------------------------
(***************************************************************************)
(* Where a report of a reset can be.                                       *)
(***************************************************************************)
(* What may be queued, in hand or seen: only class 0 at the highest        *)
(* priority holds a reset, and it names its connection.                    *)
Reset(c)   == Code("reset", c)
Plain      == {m \in Item : m.what # "reset"}
Proper     == {m \in Item : m.what = "reset" => m = Reset(m.con)}
EventQueue == <<Highest, Loopback>>
Allowed(q) == IF q = EventQueue THEN Proper ELSE Plain
SeenBy(c)  == {m \in Item : m.what = "reset" => m = Reset(c)}

Queued == \A q \in Priorities \X Classes : mqueue[q] \in Seq(Allowed(q))
Reported ==
  /\ current \in Proper
  /\ seen = [c \in Classes |-> seen[c]]
  /\ \A c \in Classes : seen[c] \in Seq(SeenBy(c))
Working ==
  /\ in_hand \in Plain /\ local_messages \in Seq(Plain)
  /\ frame \in [Conn -> Plain]
  /\ received \in [Conn -> Nat] /\ sent_local \in Nat
Contents == Queued /\ Reported /\ Working

(* fault() is run by one of a Pipe's threads, and cuts the Connection loose *)
(* first.                                                                   *)
Faulting(c) == reader[c] = "faulting" \/ writer[c] = "faulting"
OneFaults ==
  /\ cleared \in [Conn -> BOOLEAN]
  /\ \A c \in Conn : /\ ~(reader[c] = "faulting" /\ writer[c] = "faulting")
                     /\ Faulting(c) => ~attached[c]

(* The reset of c is still owed: c is new, its Connection leads to it, or   *)
(* who cut it loose has yet to report it.                                   *)
Owed(c) == state[c] = "none" \/ attached[c] \/ (Faulting(c) /\ cleared[c])

(* The reset of c is in one place at most, there once, and in none as long  *)
(* as it is owed.                                                           *)
Has(s, m)       == \E i \in DOMAIN s : s[i] = m
AtMostOne(s, m) == \A i, j \in DOMAIN s : s[i] = m /\ s[j] = m => i = j
Known(c) == Has(seen[c], Reset(c)) \/ Has(mqueue[EventQueue], Reset(c)) \/ current = Reset(c)
Single(c) ==
  /\ AtMostOne(seen[c], Reset(c)) /\ AtMostOne(mqueue[EventQueue], Reset(c))
  /\ Has(seen[c], Reset(c)) => ~Has(mqueue[EventQueue], Reset(c)) /\ current # Reset(c)
  /\ current = Reset(c) => ~Has(mqueue[EventQueue], Reset(c))
Once == \A c \in Conn : Single(c) /\ (Owed(c) => ~Known(c))

(* What the messenger holds, threads and tables apart.                     *)
Resets == Control /\ Contents /\ OneFaults /\ Once
-----------------------------------------------------------------------------
(* Sequences.                                                              *)
LEMMA HasAppended ==
  ASSUME NEW S, NEW s \in Seq(S), NEW x \in S, NEW m
  PROVE  /\ Append(s, x) \in Seq(S)
         /\ Has(Append(s, x), m) <=> Has(s, m) \/ x = m
         /\ AtMostOne(s, m) /\ (x # m \/ ~Has(s, m)) => AtMostOne(Append(s, x), m)
<1>1. /\ Append(s, x) \in Seq(S) /\ DOMAIN s = 1..Len(s) /\ Len(s) \in Nat
      /\ DOMAIN Append(s, x) = 1..(Len(s) + 1)
      /\ \A i \in 1..Len(s) : Append(s, x)[i] = s[i]
      /\ Append(s, x)[Len(s) + 1] = x
  OBVIOUS
<1>2. 1..(Len(s) + 1) = 1..Len(s) \cup {Len(s) + 1} BY <1>1
<1> QED BY <1>1, <1>2 DEF Has, AtMostOne

(* Taking the first element of a sequence.                                 *)
LEMMA HasTail ==
  ASSUME NEW S, NEW s \in Seq(S), s # <<>>, NEW m
  PROVE  /\ Head(s) \in S /\ Tail(s) \in Seq(S)
         /\ Has(s, m) <=> Head(s) = m \/ Has(Tail(s), m)
         /\ AtMostOne(s, m) => AtMostOne(Tail(s), m) /\ (Head(s) = m => ~Has(Tail(s), m))
<1>1. /\ Head(s) \in S /\ Tail(s) \in Seq(S) /\ Len(s) \in Nat \ {0}
      /\ DOMAIN s = 1..Len(s) /\ Head(s) = s[1]
      /\ DOMAIN Tail(s) = 1..(Len(s) - 1)
      /\ \A i \in 1..(Len(s) - 1) : Tail(s)[i] = s[i + 1]
  OBVIOUS
<1>2. \A i \in 1..Len(s) : i # 1 => i - 1 \in 1..(Len(s) - 1) /\ (i - 1) + 1 = i BY <1>1
<1>3. \A i \in 1..(Len(s) - 1) : i + 1 \in 1..Len(s) /\ i + 1 # 1 BY <1>1
<1>4. Has(s, m) <=> Head(s) = m \/ Has(Tail(s), m)
  <2>1. ASSUME Has(s, m) PROVE Head(s) = m \/ Has(Tail(s), m)
    <3>1. PICK i \in 1..Len(s) : s[i] = m BY <1>1, <2>1 DEF Has
    <3>2. CASE i = 1 BY <1>1, <3>1, <3>2
    <3>3. CASE i # 1
      <4>1. i - 1 \in DOMAIN Tail(s) /\ Tail(s)[i - 1] = m BY <1>1, <1>2, <3>1, <3>3
      <4> QED BY <4>1 DEF Has
    <3> QED BY <3>2, <3>3
  <2>2. Head(s) = m => Has(s, m) BY <1>1 DEF Has
  <2>3. ASSUME Has(Tail(s), m) PROVE Has(s, m)
    <3>1. PICK i \in 1..(Len(s) - 1) : Tail(s)[i] = m BY <1>1, <2>3 DEF Has
    <3>2. i + 1 \in DOMAIN s /\ s[i + 1] = m BY <1>1, <1>3, <3>1
    <3> QED BY <3>2 DEF Has
  <2> QED BY <2>1, <2>2, <2>3
<1>5. ASSUME AtMostOne(s, m) PROVE AtMostOne(Tail(s), m)
  <2> SUFFICES ASSUME NEW i \in 1..(Len(s) - 1), NEW j \in 1..(Len(s) - 1),
                      Tail(s)[i] = m, Tail(s)[j] = m
               PROVE  i = j
    BY <1>1 DEF AtMostOne
  <2>1. s[i + 1] = m /\ s[j + 1] = m /\ i + 1 \in DOMAIN s /\ j + 1 \in DOMAIN s BY <1>1, <1>3
  <2>2. i + 1 = j + 1 BY <1>5, <2>1 DEF AtMostOne
  <2> QED BY <2>2
<1>6. ASSUME AtMostOne(s, m), Head(s) = m, Has(Tail(s), m) PROVE FALSE
  <2>1. PICK i \in 1..(Len(s) - 1) : Tail(s)[i] = m BY <1>1, <1>6 DEF Has
  <2>2. i + 1 \in DOMAIN s /\ s[i + 1] = m /\ 1 \in DOMAIN s /\ s[1] = m /\ i + 1 # 1
    BY <1>1, <1>3, <1>6, <2>1
  <2> QED BY <1>6, <2>2 DEF AtMostOne
<1> QED BY <1>1, <1>4, <1>5, <1>6

(* Items of connections.                                                   *)
LEMMA Items ==
  /\ \A c \in Conn : Reset(c) \in Proper /\ Code("accept", c) \in Plain
  /\ \A c, d \in Conn : Reset(c) = Reset(d) => c = d
  /\ Plain \subseteq Proper /\ Proper \subseteq Item
  /\ \A c : Plain \subseteq SeenBy(c) /\ SeenBy(c) \subseteq Item
  /\ \A c : \A m \in Plain : m # Reset(c)
  /\ Nothing \in Plain
  /\ \A c \in Conn, n \in Nat, k \in Kinds : Msg(c, n, k, 1) \in Plain
  /\ \A n \in Nat, k \in Kinds : Msg(Loopback, n, k, 0) \in Plain
BY LoopbackIsNoConn, KindsAreKnown
   DEF Reset, Proper, Plain, SeenBy, Item, Code, Msg, Events, Classes, Nothing

(* The initial states satisfy the invariant.                               *)
LEMMA ResetsInit == MessengerInit => Contents /\ OneFaults /\ Once
<1> SUFFICES ASSUME MessengerInit PROVE Contents /\ OneFaults /\ Once
  OBVIOUS
<1>1. Contents
  BY Items DEF MessengerInit, QueueInit, Contents, Queued, Reported, Working, Allowed, SeenBy
<1>2. OneFaults BY DEF MessengerInit, OneFaults, Faulting
<1>3. Once
  <2>1. EventQueue \in Priorities \X Classes
    BY DEF EventQueue, Priorities, Classes, Highest, Low
  <2>2. ASSUME NEW c \in Conn PROVE Single(c) /\ ~Known(c)
    <3>1. seen[c] = <<>> /\ mqueue[EventQueue] = <<>> /\ current # Reset(c)
      BY <2>1, Items DEF MessengerInit, QueueInit, Classes
    <3> QED BY <3>1 DEF Single, Known, Has, AtMostOne
  <2> QED BY <2>2 DEF Once
<1> QED BY <1>1, <1>2, <1>3
-----------------------------------------------------------------------------
(* Who owes a reset: no step makes anyone owe one.                         *)
OweKept == \A c \in Conn : Owed(c)' => Owed(c)

LEMMA FaultsKept == ASSUME Control, OneFaults, [Next]_vars PROVE OneFaults' /\ OweKept
<1> USE DEF Control, Shape, States, ReaderPlaces, WriterPlaces, CutLoose, FaultingIsClosed,
        ThreadsOwned, OneFaults, OweKept, Owed, Faulting
<1>1. CASE UNCHANGED <<state, reader, writer, attached, cleared>> BY <1>1
<1>2. ASSUME NEW c \in Conn, AddAcceptPipe(c) PROVE OneFaults' /\ OweKept
  BY <1>2 DEF AddAcceptPipe, Reader
<1>3. ASSUME NEW c \in Conn, AcceptAnnounces(c) \/ AcceptRegisters(c) \/ AcceptReplies(c)
      PROVE  OneFaults' /\ OweKept
  BY <1>3 DEF AcceptAnnounces, AcceptRegisters, AcceptReplies, Reader, Writer, AfterTest
<1>4. ASSUME NEW c \in Conn, AcceptRefuses(c) \/ AcceptFails(c) PROVE OneFaults' /\ OweKept
  BY <1>4 DEF AcceptRefuses, AcceptFails, Reader, Closed, Detach
<1>5. ASSUME NEW c \in Conn, ReaderFaulted(c) \/ WriterFaulted(c) PROVE OneFaults' /\ OweKept
  BY <1>5 DEF ReaderFaulted, WriterFaulted, FaultDiscards, Reader, Writer
<1>6. ASSUME NEW c \in Conn, reader[c] # "faulting", ReaderFault(c), UNCHANGED writer
      PROVE OneFaults' /\ OweKept
  <2>1. CASE FaultOnClosed(c) BY <1>6, <2>1 DEF ReaderFault, FaultOnClosed, FaultOnLossy,
      FaultOnLossless, Reader, Detach
  <2>2. CASE FaultOnLossy(c) BY <1>6, <2>2 DEF ReaderFault, FaultOnClosed, FaultOnLossy,
      FaultOnLossless, Reader, Detach, Closed, Clears
  <2>3. CASE FaultOnLossless(c) BY <1>6, <2>3 DEF ReaderFault, FaultOnClosed, FaultOnLossy,
      FaultOnLossless, Reader
  <2> QED BY <1>6, <2>1, <2>2, <2>3 DEF ReaderFault
<1>7. ASSUME NEW c \in Conn, ReadTagFails(c) \/ ReadBodyFails(c) PROVE OneFaults' /\ OweKept
  BY <1>6, <1>7 DEF ReadTagFails, ReadBodyFails
<1>8. ASSUME NEW c \in Conn, \/ ReadHeader(c) \/ TakeThrottle(c) \/ DropRead(c) \/ QueueRead(c)
             \/ UnlockForFast(c) \/ BeginFast(c) \/ EndFast(c) \/ ReaderExits(c)
      PROVE  OneFaults' /\ OweKept
  BY <1>8 DEF ReadHeader, TakeThrottle, DropRead, QueueRead, UnlockForFast, BeginFast,
     EndFast, ReaderExits, Reader, AfterTest
<1>9. ASSUME NEW c \in Conn, WriterExits(c) PROVE OneFaults' /\ OweKept
  BY <1>9 DEF WriterExits, Writer
<1>10. ASSUME NEW c \in Conn, WriteFails(c) PROVE OneFaults' /\ OweKept
  <2>1. CASE FaultOnLossy(c) /\ Writer(c, "faulting")
    BY <1>10, <2>1 DEF WriteFails, FaultOnLossy, Writer, Detach, Closed, Clears
  <2>2. CASE FaultOnLossless(c) /\ UNCHANGED writer
    BY <1>10, <2>2 DEF WriteFails, FaultOnLossless
  <2>3. CASE FaultOnClosed(c) /\ UNCHANGED writer
    BY <1>10, <2>3 DEF WriteFails, FaultOnClosed, Detach
  <2> QED BY <1>10, <2>1, <2>2, <2>3 DEF WriteFails
<1>11. ASSUME NEW c \in Conn, MarkDown(c) PROVE OneFaults' /\ OweKept
  BY <1>11 DEF MarkDown, Closed, Detach
<1>12. ASSUME Reap, UNCHANGED cleared PROVE OneFaults' /\ OweKept
  BY <1>12 DEF Reap, Detach
<1>13. ASSUME NEW c \in Conn, WaitStopsPipe(c) PROVE OneFaults' /\ OweKept
  BY <1>13 DEF WaitStopsPipe, Closed
<1>14. CASE WaitClearsPipe BY <1>14 DEF WaitClearsPipe, Detach
<1>15. CASE UNCHANGED vars BY <1>1, <1>15 DEF vars, pipeVars
<1>16. ASSUME NEW c \in Conn, QueueReap(c) PROVE OneFaults' /\ OweKept
  BY <1>1, <1>16 DEF QueueReap, pipeVars
<1>17. CASE UNCHANGED restVars BY <1>1, <1>17 DEF restVars, pipeVars
<1>18. CASE ReaperReaps \/ WaitReaps
  BY <1>12, <1>18 DEF ReaperReaps, WaitReaps, Reap
<1>19. CASE ReaperExits \/ SubmitLocal \/ BeginShutdown \/ EndShutdown
  BY <1>1, <1>19 DEF ReaperExits, SubmitLocal, BeginShutdown, EndShutdown, pipeVars
<1>20. CASE \/ WaitStopsAccepter \/ WaitStopsLocal \/ WaitStopsDispatch \/ WaitJoins
            \/ WaitStopsReaper \/ WaitTakesLock \/ WaitDropsLock \/ WaitReturns
  BY <1>1, <1>20 DEF WaitStopsAccepter, WaitStopsLocal, WaitStopsDispatch, WaitJoins,
     WaitStopsReaper, WaitTakesLock, WaitDropsLock, WaitReturns, pipeVars
<1> HIDE DEF Control, Shape, States, ReaderPlaces, WriterPlaces, CutLoose, FaultingIsClosed,
        ThreadsOwned, OneFaults, OweKept, Owed, Faulting
<1> QED BY <1>2, <1>3, <1>4, <1>5, <1>7, <1>8, <1>9, <1>10, <1>11, <1>13, <1>14, <1>15, <1>16,
           <1>17, <1>18, <1>19, <1>20
        DEF Next, PipeStep, AcceptStep, ReaderStep, WaitStep
-----------------------------------------------------------------------------
(* The queue of events under the operations that change it.                *)
LEMMA QueuesAreItems ==
  ASSUME Contents
  PROVE  /\ EventQueue \in Priorities \X Classes /\ Allowed(EventQueue) = Proper
         /\ mqueue[EventQueue] \in Seq(Proper)
         /\ \A c \in Conn : c \in Classes /\ seen[c] \in Seq(SeenBy(c))
<1>1. EventQueue \in Priorities \X Classes
  BY DEF EventQueue, Priorities, Classes, Highest, Low
<1>2. Allowed(EventQueue) = Proper BY DEF Allowed
<1>3. mqueue[EventQueue] \in Seq(Allowed(EventQueue)) BY <1>1 DEF Contents, Queued
<1>4. \A c \in Conn : c \in Classes /\ seen[c] \in Seq(SeenBy(c))
  BY DEF Contents, Reported, Working, Classes
<1> QED BY <1>1, <1>2, <1>3, <1>4

(* enqueue() adds to one queue what is allowed there.                      *)
LEMMA Enqueued ==
  ASSUME Shape, Contents, NEW m, NEW class \in Classes, Enqueue(m, class),
         m \in Allowed(<<Priority(m), class>>), Priority(m) \in Priorities
  PROVE  /\ Queued'
         /\ mqueue'[EventQueue] = IF <<Priority(m), class>> = EventQueue
                                  THEN Append(mqueue[EventQueue], m) ELSE mqueue[EventQueue]
<1> DEFINE q == <<Priority(m), class>>
<1>1. q \in Priorities \X Classes OBVIOUS
<1>2. mqueue' = [mqueue EXCEPT ![q] = Append(@, m)] BY DEF Enqueue, QueuePriority, AtEnd
<1>3. DOMAIN mqueue = Priorities \X Classes BY DEF Shape
<1>4. mqueue'[q] = Append(mqueue[q], m) /\ \A r \in Priorities \X Classes : r # q => mqueue'[r] = mqueue[r]
  BY <1>1, <1>2, <1>3
<1>5. m \in Allowed(q) OBVIOUS
<1> HIDE DEF q
<1>6. Queued'
  <2> SUFFICES ASSUME NEW r \in Priorities \X Classes PROVE mqueue'[r] \in Seq(Allowed(r))
    BY DEF Queued, Allowed
  <2>1. mqueue[r] \in Seq(Allowed(r)) BY DEF Contents, Queued
  <2>2. CASE r = q
    <3>1. m \in Allowed(r) BY <1>5, <2>2
    <3>2. Append(mqueue[r], m) \in Seq(Allowed(r)) BY <2>1, <3>1, HasAppended
    <3> QED BY <1>4, <2>2, <3>2
  <2>3. CASE r # q BY <1>4, <2>1, <2>3
  <2> QED BY <2>2, <2>3
<1>7. mqueue'[EventQueue] = IF q = EventQueue
                            THEN Append(mqueue[EventQueue], m) ELSE mqueue[EventQueue]
  BY <1>4, QueuesAreItems
<1> QED BY <1>6, <1>7 DEF q

(* Nothing is put in the queue of events.                                  *)
LEMMA OnceSame ==
  ASSUME Once, OweKept, UNCHANGED <<seen, current>>, mqueue'[EventQueue] = mqueue[EventQueue]
  PROVE  Once'
BY DEF Once, OweKept, Single, Known, Has, AtMostOne, EventQueue, Reset

(* Something else than a reset is queued.                                  *)
LEMMA OnceAppended ==
  ASSUME Contents, Once, OweKept, UNCHANGED <<seen, current>>, NEW m \in Plain,
         mqueue'[EventQueue] = Append(mqueue[EventQueue], m)
  PROVE  Once'
<1> SUFFICES ASSUME NEW c \in Conn PROVE Single(c)' /\ (Owed(c)' => ~Known(c)')
  BY DEF Once
<1>1. Single(c) /\ (Owed(c)' => ~Known(c)) BY DEF Once, OweKept
<1>2. m # Reset(c) /\ m \in Proper BY Items
<1>3. /\ Has(mqueue'[EventQueue], Reset(c)) <=> Has(mqueue[EventQueue], Reset(c))
      /\ AtMostOne(mqueue[EventQueue], Reset(c)) => AtMostOne(mqueue'[EventQueue], Reset(c))
  BY <1>2, HasAppended, QueuesAreItems
<1> QED BY <1>1, <1>3 DEF Single, Known, EventQueue, Reset

(* The reset of d is queued by who owed it, and owes it no longer.         *)
LEMMA OnceReported ==
  ASSUME Contents, Once, OweKept, UNCHANGED <<seen, current>>, NEW d \in Conn,
         Owed(d), ~Owed(d)', mqueue'[EventQueue] = Append(mqueue[EventQueue], Reset(d))
  PROVE  Once'
<1> SUFFICES ASSUME NEW c \in Conn PROVE Single(c)' /\ (Owed(c)' => ~Known(c)')
  BY DEF Once
<1>1. Single(c) /\ (Owed(c)' => ~Known(c)) /\ ~Known(d) BY DEF Once, OweKept
<1>2. Reset(d) \in Proper /\ (Reset(d) = Reset(c) => c = d) BY Items
<1>3. /\ Has(mqueue'[EventQueue], Reset(c)) <=> Has(mqueue[EventQueue], Reset(c)) \/ c = d
      /\ AtMostOne(mqueue[EventQueue], Reset(c)) /\ (c # d \/ ~Has(mqueue[EventQueue], Reset(c)))
           => AtMostOne(mqueue'[EventQueue], Reset(c))
  BY <1>2, HasAppended, QueuesAreItems
<1>4. CASE c = d BY <1>1, <1>3, <1>4 DEF Single, Known, EventQueue, Reset
<1>5. CASE c # d BY <1>1, <1>3, <1>5 DEF Single, Known, EventQueue, Reset
<1> QED BY <1>4, <1>5

(* queue_accept().                                                         *)
LEMMA AcceptQueued ==
  ASSUME Shape, Contents, Once, OweKept, UNCHANGED <<seen, current>>, NEW c \in Conn,
         QueueCode("accept", c)
  PROVE  Queued' /\ Once'
<1> DEFINE m == Code("accept", c)
<1>1. CASE stop
  BY <1>1, OnceSame DEF QueueCode, Contents, Queued, Allowed
<1>2. CASE ~stop
  <2>1. m \in Plain /\ m \in Proper BY Items
  <2>2. Priority(m) = Highest /\ Highest \in Priorities BY DEF Priority, Code, Priorities, Highest, Low
  <2>3. Enqueue(m, Loopback) /\ Loopback \in Classes BY <1>2 DEF QueueCode, Classes
  <2>4. m \in Allowed(<<Priority(m), Loopback>>) BY <2>1 DEF Allowed
  <2> HIDE DEF m
  <2>5. Queued' /\ mqueue'[EventQueue] = Append(mqueue[EventQueue], m)
    BY <2>2, <2>3, <2>4, Enqueued DEF EventQueue
  <2> QED BY <2>1, <2>5, OnceAppended
<1> QED BY <1>1, <1>2

(* clear_pipe() and queue_reset(), by who owes the reset no longer.        *)
LEMMA ResetQueued ==
  ASSUME Shape, Contents, Once, OweKept, UNCHANGED <<seen, current>>, NEW c \in Conn,
         ResetIfCleared(c), attached[c] => ~Owed(c)'
  PROVE  Queued' /\ Once'
<1>1. CASE stop \/ ~attached[c]
  BY <1>1, OnceSame DEF ResetIfCleared, Clears, QueueCode, Contents, Queued, Allowed
<1>2. CASE ~stop /\ attached[c]
  <2>1. Reset(c) \in Proper BY Items
  <2>2. Priority(Reset(c)) = Highest /\ Highest \in Priorities
    BY DEF Reset, Priority, Code, Priorities, Highest, Low
  <2>3. Enqueue(Reset(c), Loopback) /\ Loopback \in Classes
    BY <1>2 DEF ResetIfCleared, Clears, QueueCode, Classes, Reset
  <2>4. Reset(c) \in Allowed(<<Priority(Reset(c)), Loopback>>)
    BY <2>1, <2>2 DEF Allowed, EventQueue
  <2>5. Queued' /\ mqueue'[EventQueue] = Append(mqueue[EventQueue], Reset(c))
    BY <2>2, <2>3, <2>4, Enqueued DEF EventQueue
  <2>6. Owed(c) BY <1>2 DEF Owed
  <2> QED BY <1>2, <2>5, <2>6, OnceReported
<1> QED BY <1>1, <1>2
(* The second half of fault(): another class is emptied, and the reset is  *)
(* queued if this thread cut the Connection loose.                         *)
LEMMA FaultQueued ==
  ASSUME Resets, OweKept, NEW c \in Conn, Faulting(c), FaultDiscards(c), ~Faulting(c)'
  PROVE  Queued' /\ Once'
<1> DEFINE kept == [q \in Priorities \X Classes |-> IF q[2] = c THEN <<>> ELSE mqueue[q]]
           m == Code("reset", c)
<1>1. Shape /\ Contents /\ Once /\ OneFaults /\ FaultingIsClosed BY DEF Resets, Control
<1>2. UNCHANGED <<seen, current, state, attached, cleared>> BY DEF FaultDiscards
<1>3. c # Loopback BY LoopbackIsNoConn
<1>4. kept[EventQueue] = mqueue[EventQueue]
  BY <1>1, <1>3, QueuesAreItems DEF EventQueue
<1>5. \A q \in Priorities \X Classes : kept[q] \in Seq(Allowed(q))
  BY <1>1 DEF Contents, Queued
<1>6. \/ mqueue' = kept
      \/ cleared[c] /\ mqueue' = [kept EXCEPT ![<<QueuePriority(m), Loopback>>] = AtEnd(@, m)]
  BY DEF FaultDiscards
<1>7. m = Reset(c) /\ m \in Proper BY Items DEF Reset
<1>8. <<QueuePriority(m), Loopback>> = EventQueue
  BY DEF QueuePriority, Priority, Code, EventQueue
<1>9. DOMAIN kept = Priorities \X Classes OBVIOUS
<1> HIDE DEF kept, m
<1>10. CASE mqueue' = kept
  BY <1>1, <1>2, <1>4, <1>5, <1>10, OnceSame DEF Queued, Allowed, EventQueue
<1>11. CASE cleared[c] /\ mqueue' = [kept EXCEPT ![<<QueuePriority(m), Loopback>>] = AtEnd(@, m)]
  <2>1. /\ mqueue'[EventQueue] = Append(mqueue[EventQueue], m)
        /\ \A q \in Priorities \X Classes : q # EventQueue => mqueue'[q] = kept[q]
    BY <1>1, <1>4, <1>8, <1>9, <1>11, QueuesAreItems DEF AtEnd
  <2>2. Append(mqueue[EventQueue], m) \in Seq(Allowed(EventQueue))
    BY <1>1, <1>7, QueuesAreItems, HasAppended
  <2>3. Queued'
    <3>1. \A q \in Priorities \X Classes : mqueue'[q] \in Seq(Allowed(q)) BY <1>5, <2>1, <2>2
    <3> QED BY <3>1 DEF Queued, Allowed, EventQueue
  <2>4. Owed(c) /\ ~Owed(c)'
    <3>1. state[c] # "none" /\ ~attached[c]
      BY <1>1 DEF FaultingIsClosed, OneFaults, Faulting
    <3> QED BY <1>2, <1>11, <3>1 DEF Owed
  <2> QED BY <1>1, <1>2, <1>7, <2>1, <2>3, <2>4, OnceReported DEF EventQueue
<1> QED BY <1>6, <1>10, <1>11

(* The dispatch thread takes an item: if it is a reset, the only one.      *)
LEMMA ItemTaken ==
  ASSUME Shape, Contents, Once, OweKept, Dequeue
  PROVE  Queued' /\ Once' /\ current' \in Proper
<1>1. PICK q \in NonEmpty : current' = Head(mqueue[q]) /\ mqueue' = [mqueue EXCEPT ![q] = Tail(@)]
  BY DEF Dequeue
<1>2. q \in Priorities \X Classes /\ mqueue[q] # <<>> BY DEF NonEmpty
<1>3. mqueue[q] \in Seq(Allowed(q)) BY <1>2 DEF Contents, Queued
<1>4. Head(mqueue[q]) \in Allowed(q) /\ Tail(mqueue[q]) \in Seq(Allowed(q))
  BY <1>2, <1>3, HasTail
<1>5. /\ mqueue'[q] = Tail(mqueue[q])
      /\ \A r \in Priorities \X Classes : r # q => mqueue'[r] = mqueue[r]
  BY <1>1, <1>2 DEF Shape
<1>6. Queued'
  <2>1. \A r \in Priorities \X Classes : mqueue'[r] \in Seq(Allowed(r))
    BY <1>4, <1>5 DEF Contents, Queued
  <2> QED BY <2>1 DEF Queued, Allowed, EventQueue
<1>7. current' \in Proper BY <1>1, <1>4, Items DEF Allowed
<1>8. Once'
  <2> SUFFICES ASSUME NEW c \in Conn PROVE Single(c)' /\ (Owed(c)' => ~Known(c)')
    BY DEF Once
  <2>1. Single(c) /\ (Owed(c)' => ~Known(c)) BY DEF Once, OweKept
  <2>2. seen' = seen BY DEF Dequeue
  <2>3. CASE q = EventQueue
    <3>1. /\ Has(mqueue[q], Reset(c)) <=> current' = Reset(c) \/ Has(mqueue'[q], Reset(c))
          /\ AtMostOne(mqueue[q], Reset(c)) =>
               /\ AtMostOne(mqueue'[q], Reset(c))
               /\ current' = Reset(c) => ~Has(mqueue'[q], Reset(c))
      BY <1>1, <1>2, <1>3, <1>5, HasTail
    <3> QED BY <2>1, <2>2, <2>3, <3>1 DEF Single, Known, EventQueue, Reset
  <2>4. CASE q # EventQueue
    <3>1. current' # Reset(c) BY <1>1, <1>4, <2>4, Items DEF Allowed
    <3>2. mqueue'[EventQueue] = mqueue[EventQueue] BY <1>5, <2>4, QueuesAreItems
    <3> QED BY <2>1, <2>2, <3>1, <3>2 DEF Single, Known, EventQueue, Reset
  <2> QED BY <2>3, <2>4
<1> QED BY <1>6, <1>7, <1>8

(* A Dispatcher is called with the event in hand, or with a message.       *)
Calls(d, m) ==
  /\ Told(d, m) /\ d \in Classes /\ m \in SeenBy(d) /\ mqueue' = mqueue
  /\ \/ m \in Plain /\ current' = current
     \/ m = current /\ current' = Nothing

(* The Dispatchers of one connection see one more item.                    *)
LEMMA CallSeen ==
  ASSUME Contents, NEW d, NEW m, Calls(d, m)
  PROVE  /\ seen' = [c \in Classes |-> seen'[c]]
         /\ \A c \in Classes : seen'[c] \in Seq(SeenBy(c))
         /\ \A c \in Classes : c # d => seen'[c] = seen[c]
         /\ seen'[d] = Append(seen[d], m)
<1>1. seen' = [seen EXCEPT ![d] = Append(@, m)] /\ d \in Classes /\ m \in SeenBy(d)
  BY DEF Calls, Told
<1>2. seen = [c \in Classes |-> seen[c]] /\ \A c \in Classes : seen[c] \in Seq(SeenBy(c))
  BY DEF Contents, Reported, Working
<1>3. Append(seen[d], m) \in Seq(SeenBy(d)) BY <1>1, <1>2, HasAppended
<1>4. /\ seen' = [c \in Classes |-> seen'[c]]
      /\ \A c \in Classes : c # d => seen'[c] = seen[c]
      /\ seen'[d] = Append(seen[d], m)
  BY <1>1, <1>2
<1> QED BY <1>1, <1>2, <1>3, <1>4

(* The event in hand moves from there to what has been seen.               *)
LEMMA CallOnce ==
  ASSUME Contents, Once, OweKept, NEW d, NEW m, Calls(d, m)
  PROVE  Once'
<1> SUFFICES ASSUME NEW c \in Conn PROVE Single(c)' /\ (Owed(c)' => ~Known(c)')
  BY DEF Once
<1>1. Single(c) /\ (Owed(c)' => ~Known(c)) BY DEF Once, OweKept
<1>2. c \in Classes /\ seen[c] \in Seq(SeenBy(c)) BY QueuesAreItems
<1>3. /\ m \in SeenBy(d) /\ mqueue' = mqueue
      /\ \/ m \in Plain /\ current' = current
         \/ m = current /\ current' = Nothing
  BY DEF Calls
<1>4. Nothing # Reset(c) /\ (m \in Plain => m # Reset(c)) BY Items
<1>5. CASE c # d
  <2>1. seen'[c] = seen[c] BY <1>2, <1>5, CallSeen
  <2>2. current' = Reset(c) => current = Reset(c) BY <1>3, <1>4
  <2> QED BY <1>1, <1>3, <2>1, <2>2 DEF Single, Known, EventQueue, Reset
<1>6. CASE c = d
  <2>1. /\ Has(seen'[c], Reset(c)) <=> Has(seen[c], Reset(c)) \/ m = Reset(c)
        /\ AtMostOne(seen[c], Reset(c)) /\ (m # Reset(c) \/ ~Has(seen[c], Reset(c)))
             => AtMostOne(seen'[c], Reset(c))
    <3>1. m \in SeenBy(c) /\ seen'[c] = Append(seen[c], m) BY <1>3, <1>6, CallSeen
    <3> QED BY <1>2, <3>1, HasAppended
  <2>2. CASE m # Reset(c)
    <3>1. current' = Reset(c) => current = Reset(c) BY <1>3, <1>4
    <3> QED BY <1>1, <1>3, <2>1, <2>2, <3>1 DEF Single, Known, EventQueue, Reset
  <2>3. CASE m = Reset(c)
    <3>1. current = Reset(c) /\ current' # Reset(c) BY <1>3, <1>4, <2>3
    <3> QED BY <1>1, <1>3, <2>1, <3>1 DEF Single, Known, EventQueue, Reset
  <2> QED BY <2>2, <2>3
<1> QED BY <1>5, <1>6
-----------------------------------------------------------------------------
(* What the threads work on.                                               *)
LEMMA FrameDone ==
  ASSUME Working, NEW c \in Conn, frame' = [frame EXCEPT ![c] = Nothing],
         UNCHANGED <<in_hand, local_messages, received, sent_local>>
  PROVE  Working'
BY Items DEF Working, Plain

(* No reset gets among the messages that threads work on.                  *)
LEMMA WorkingKept == ASSUME Working, [Next]_vars PROVE Working'
<1>1. CASE UNCHANGED <<frame, in_hand, local_messages, received, sent_local>>
  BY <1>1 DEF Working, Plain
<1>2. ASSUME NEW c \in Conn, ReadHeader(c) PROVE Working'
  <2>1. PICK k \in Kinds : frame' = [frame EXCEPT ![c] = Msg(c, received[c] + 1, k, 1)]
    BY <1>2 DEF ReadHeader
  <2>2. received[c] + 1 \in Nat /\ received' = [received EXCEPT ![c] = @ + 1]
    BY <1>2 DEF ReadHeader, Working
  <2>3. Msg(c, received[c] + 1, k, 1) \in Plain BY <2>2, Items
  <2>4. UNCHANGED <<in_hand, local_messages, sent_local>>
    BY <1>2 DEF ReadHeader, queueVars, localVars
  <2> QED BY <2>1, <2>2, <2>3, <2>4 DEF Working, Plain
<1>3. ASSUME NEW c \in Conn, ReadBodyFails(c) \/ DropRead(c) \/ QueueRead(c) \/ EndFast(c)
      PROVE  Working'
  BY <1>3, FrameDone DEF ReadBodyFails, DropRead, QueueRead, EndFast, localVars
<1>4. ASSUME LocalTakes, UNCHANGED <<frame, received, sent_local>> PROVE Working'
  BY <1>4, HasTail DEF LocalTakes, Working, Plain
<1>5. ASSUME LocalDelivers, UNCHANGED <<frame, received, sent_local>> PROVE Working'
  BY <1>5, Items DEF LocalDelivers, Working, Plain
<1>6. CASE SubmitLocal
  <2>1. PICK k \in Kinds : LocalDelivery(Msg(Loopback, sent_local + 1, k, 0))
    BY <1>6 DEF SubmitLocal
  <2>2. sent_local + 1 \in Nat /\ sent_local' = sent_local + 1 BY <1>6 DEF SubmitLocal, Working
  <2>3. Msg(Loopback, sent_local + 1, k, 0) \in Plain BY <2>2, Items
  <2>4. local_messages' \in Seq(Plain)
    BY <2>1, <2>3, HasAppended DEF LocalDelivery, Working
  <2> QED BY <1>6, <2>1, <2>2, <2>4 DEF SubmitLocal, LocalDelivery, pipeVars, Working, Plain
<1>7. CASE WaitJoins BY <1>7 DEF WaitJoins, DiscardLocal, pipeVars, Working, Plain
<1>8. ASSUME NEW c \in Conn, \/ AddAcceptPipe(c) \/ AcceptStep(c) \/ ReaderFaulted(c)
                             \/ UnlockForFast(c) \/ BeginFast(c) \/ ReaderExits(c)
      PROVE  Working'
  BY <1>1, <1>8 DEF AddAcceptPipe, AcceptStep, AcceptAnnounces, AcceptRefuses, AcceptRegisters,
     AcceptReplies, AcceptFails, ReaderFaulted, FaultDiscards, UnlockForFast, BeginFast,
     ReaderExits, queueVars, localVars
<1>9. ASSUME NEW c \in Conn, \/ ReadTagFails(c) \/ TakeThrottle(c) \/ WriteFails(c)
                             \/ WriterFaulted(c) \/ WriterExits(c) \/ QueueReap(c) \/ MarkDown(c)
                             \/ WaitStopsPipe(c)
      PROVE  Working'
  BY <1>1, <1>9 DEF ReadTagFails, TakeThrottle, WriteFails, WriterFaulted, FaultDiscards,
     WriterExits, QueueReap, MarkDown, WaitStopsPipe, queueVars, localVars, pipeVars
<1>10. CASE DispatchThread /\ UNCHANGED restVars
  BY <1>1, <1>10 DEF DispatchThread, Dequeue, DispatcherSleeps, DispatcherExits, HandleCode,
     DropMessage, BeginDispatch, EndDispatch, restVars, pipeVars, localVars
<1>11. CASE LocalThread /\ UNCHANGED restVars
  <2>1. UNCHANGED <<frame, received, sent_local>> BY <1>11 DEF restVars, pipeVars
  <2>2. CASE LocalSleeps \/ LocalExits BY <1>1, <2>1, <2>2 DEF LocalSleeps, LocalExits
  <2> QED BY <1>4, <1>5, <1>11, <2>1, <2>2 DEF LocalThread
<1>12. CASE \/ ReaperReaps \/ ReaperExits \/ BeginShutdown \/ EndShutdown \/ WaitReaps
  BY <1>1, <1>12 DEF ReaperReaps, WaitReaps, Reap, ReaperExits, BeginShutdown, EndShutdown,
     queueVars, localVars, pipeVars
<1>13. CASE \/ WaitStopsAccepter \/ WaitStopsLocal \/ WaitStopsDispatch \/ WaitStopsReaper
            \/ WaitTakesLock \/ WaitClearsPipe \/ WaitDropsLock \/ WaitReturns
  BY <1>1, <1>13 DEF WaitStopsAccepter, WaitStopsLocal, WaitStopsDispatch, WaitStopsReaper,
     WaitTakesLock, WaitClearsPipe, WaitDropsLock, WaitReturns, StopLocal, StopDispatch,
     queueVars, localVars, pipeVars
<1>14. CASE UNCHANGED vars BY <1>1, <1>14 DEF vars, queueVars, localVars, pipeVars
<1> QED BY <1>2, <1>3, <1>6, <1>7, <1>8, <1>9, <1>10, <1>11, <1>12, <1>13, <1>14
        DEF Next, PipeStep, ReaderStep, WaitStep
-----------------------------------------------------------------------------
(* The queues and what the Dispatchers are told, action by action.         *)
Telling == Queued /\ Reported /\ Once

(* A step that leaves the queues and the Dispatchers alone.                *)
LEMMA Untouched ==
  ASSUME Contents, Once, OweKept, UNCHANGED <<mqueue, seen, current>>
  PROVE  Telling'
<1>1. Once' BY OnceSame
<1> QED BY <1>1 DEF Telling, Contents, Queued, Allowed, EventQueue, Reported, SeenBy, Proper, Plain

(* A step that calls no Dispatcher.                                        *)
LEMMA NoneReported ==
  ASSUME Contents, UNCHANGED <<seen, current>>, Queued', Once'
  PROVE  Telling'
BY DEF Telling, Contents, Reported, SeenBy, Proper, Plain

(* The first half of fault() by the reader.                                *)
LEMMA ReaderFaults ==
  ASSUME Resets, OweKept, NEW c \in Conn, reader[c] # "faulting", ReaderFault(c),
         UNCHANGED <<seen, current, writer>>
  PROVE  Telling'
<1>1. Shape /\ Contents /\ Once /\ OneFaults /\ FaultingIsClosed BY DEF Resets, Control
<1>2. CASE FaultOnClosed(c) /\ Reader(c, "done")
  <2>1. ResetIfCleared(c) BY <1>2 DEF FaultOnClosed
  <2>2. attached[c] => ~Owed(c)'
    BY <1>1, <1>2 DEF FaultOnClosed, Reader, Detach, Owed, Faulting, OneFaults, Shape
  <2> QED BY <1>1, <2>1, <2>2, ResetQueued, NoneReported
<1>3. CASE FaultOnLossy(c) \/ FaultOnLossless(c)
  BY <1>1, <1>3, Untouched DEF FaultOnLossy, FaultOnLossless
<1> QED BY <1>2, <1>3 DEF ReaderFault

(* accept(): the reset of a refused or failed Pipe is queued by who cut it *)
(* loose.                                                                  *)
LEMMA AcceptsTell == ASSUME Resets, OweKept, NEW c \in Conn, AcceptStep(c) PROVE Telling'
<1>1. Shape /\ Contents /\ Once /\ OneFaults /\ CutLoose /\ ThreadsOwned /\ LockHeld
  BY DEF Resets, Control
<1>2. CASE AcceptAnnounces(c)
  BY <1>1, <1>2, AcceptQueued, NoneReported DEF AcceptAnnounces
<1>3. ASSUME reader[c] \in {"accept", "announced", "reply"}, Closed(c), ResetIfCleared(c),
             Detach(c), Reader(c, "done"), UNCHANGED <<seen, current, writer>>
      PROVE  Telling'
  <2>1. attached[c] => ~Owed(c)'
    BY <1>1, <1>3 DEF Closed, Detach, Reader, Owed, Faulting, OneFaults, Shape
  <2> QED BY <1>1, <1>3, <2>1, ResetQueued, NoneReported
<1>4. CASE AcceptRefuses(c) BY <1>3, <1>4 DEF AcceptRefuses
<1>5. CASE AcceptRegisters(c) \/ AcceptReplies(c)
  BY <1>1, <1>5, Untouched DEF AcceptRegisters, AcceptReplies, queueVars, dispatchVars
<1>6. CASE AcceptFails(c)
  BY <1>1, <1>3, <1>6, Untouched DEF AcceptFails
<1> QED BY <1>2, <1>4, <1>5, <1>6 DEF AcceptStep

(* A message read goes to a class of its own, never to that of events.     *)
LEMMA ReadQueued == ASSUME Resets, OweKept, NEW c \in Conn, QueueRead(c) PROVE Telling'
<1>1. Shape /\ Contents /\ Once BY DEF Resets, Control
<1> DEFINE m == frame[c]
<1>2. m \in Plain /\ c \in Classes /\ c # Loopback
  BY <1>1, LoopbackIsNoConn DEF Contents, Working, Classes
<1>3. Enqueue(m, c) /\ UNCHANGED <<seen, current>> BY DEF QueueRead
<1>4. Priority(m) \in Priorities BY DEF Priority, Priorities, Low, High, Highest
<1> HIDE DEF m
<1>5. <<Priority(m), c>> # EventQueue BY <1>2 DEF EventQueue
<1>6. m \in Allowed(<<Priority(m), c>>) BY <1>2, <1>5 DEF Allowed
<1>7. Queued' /\ mqueue'[EventQueue] = mqueue[EventQueue]
  BY <1>1, <1>2, <1>3, <1>4, <1>5, <1>6, Enqueued
<1> QED BY <1>1, <1>3, <1>7, OnceSame, NoneReported

(* Any call of a Dispatcher.                                               *)
LEMMA CallTold ==
  ASSUME Contents, Once, OweKept, NEW d, NEW m, Calls(d, m)
  PROVE  Telling'
<1>1. Once' BY CallOnce
<1>2. /\ seen' = [c \in Classes |-> seen'[c]]
      /\ \A c \in Classes : seen'[c] \in Seq(SeenBy(c))
  BY CallSeen
<1>3. current' \in Proper BY Items DEF Calls, Contents, Reported
<1>4. mqueue' = mqueue BY DEF Calls
<1> QED BY <1>1, <1>2, <1>3, <1>4 DEF Telling, Contents, Queued, Allowed, EventQueue, Reported,
        SeenBy, Proper, Plain

(* A reader calls it with a message.                                       *)
LEMMA FastTold == ASSUME Resets, OweKept, NEW c \in Conn, BeginFast(c) PROVE Telling'
<1>1. Contents /\ Once BY DEF Resets
<1>2. frame[c] \in Plain /\ c \in Classes BY <1>1 DEF Contents, Working, Classes
<1>3. frame[c] \in SeenBy(c) BY <1>2, Items
<1>4. Calls(c, frame[c]) BY <1>2, <1>3 DEF BeginFast, Calls, dispatchVars
<1> QED BY <1>1, <1>4, CallTold

(* The dispatch thread.                                                    *)
LEMMA DispatchTells == ASSUME Resets, OweKept, DispatchThread PROVE Telling'
<1>1. Shape /\ Contents /\ Once BY DEF Resets, Control
<1>2. current \in Proper /\ current.con \in Classes
  BY <1>1 DEF Contents, Reported, Proper, Item
<1>3. CASE Dequeue
  <2>1. Queued' /\ Once' /\ current' \in Proper BY <1>1, <1>3, ItemTaken
  <2>2. seen' = seen BY <1>3 DEF Dequeue
  <2> QED BY <1>1, <2>1, <2>2 DEF Telling, Contents, Reported, SeenBy, Proper, Plain
<1>4. CASE DispatcherSleeps \/ DispatcherExits
  BY <1>1, <1>4, Untouched DEF DispatcherSleeps, DispatcherExits
<1>5. CASE HandleCode
  <2>1. current \in SeenBy(current.con) BY <1>2 DEF SeenBy, Proper
  <2>2. Calls(current.con, current) BY <1>2, <1>5, <2>1 DEF Calls, HandleCode
  <2> QED BY <1>1, <2>2, CallTold
<1>6. CASE BeginDispatch
  <2>1. current \in Plain BY <1>2, <1>6 DEF BeginDispatch, Plain, Proper
  <2>2. current \in SeenBy(current.con) BY <2>1, Items
  <2>3. Calls(current.con, current) BY <1>2, <1>6, <2>1, <2>2 DEF Calls, BeginDispatch
  <2> QED BY <1>1, <2>3, CallTold
<1>7. CASE DropMessage \/ EndDispatch
  <2>1. UNCHANGED <<mqueue, seen>> /\ current' = Nothing BY <1>7 DEF DropMessage, EndDispatch
  <2>2. Queued' BY <1>1, <2>1 DEF Contents, Queued, Allowed, EventQueue
  <2>3. Reported'
    BY <1>1, <2>1, Items DEF Contents, Reported, SeenBy, Proper, Plain
  <2>4. ASSUME NEW c \in Conn PROVE Single(c)' /\ (Owed(c)' => ~Known(c)')
    <3>1. Single(c) /\ (Owed(c)' => ~Known(c)) BY <1>1 DEF Once, OweKept
    <3>2. current' # Reset(c) BY <2>1, Items
    <3> QED BY <2>1, <3>1, <3>2 DEF Single, Known, EventQueue, Reset
  <2>5. Once' BY <2>4 DEF Once
  <2> QED BY <2>2, <2>3, <2>5 DEF Telling
<1> QED BY <1>3, <1>4, <1>5, <1>6, <1>7 DEF DispatchThread

(* The local delivery thread: its messages share class 0 with the events.  *)
LEMMA LocalTells == ASSUME Resets, OweKept, LocalThread PROVE Telling'
<1>1. Shape /\ Contents /\ Once BY DEF Resets, Control
<1>2. CASE LocalTakes \/ LocalSleeps \/ LocalExits
  BY <1>1, <1>2, Untouched DEF LocalTakes, LocalSleeps, LocalExits, dispatchVars
<1>3. CASE LocalDelivers
  <2> DEFINE m == in_hand
  <2>1. m \in Plain /\ Loopback \in Classes BY <1>1 DEF Contents, Working, Classes
  <2>2. Priority(m) \in Priorities BY DEF Priority, Priorities, Low, High, Highest
  <2>3. current' = current BY <1>3 DEF LocalDelivers
  <2>4. CASE IsFast(m)
    <3>1. m \in SeenBy(Loopback) BY <2>1, Items
    <3>2. Calls(Loopback, m) BY <1>3, <2>1, <2>3, <2>4, <3>1 DEF LocalDelivers, Calls
    <3> QED BY <1>1, <3>2, CallTold
  <2>5. CASE ~IsFast(m)
    <3>1. Enqueue(m, Loopback) /\ seen' = seen BY <1>3, <2>5 DEF LocalDelivers
    <3>2. m \in Allowed(<<Priority(m), Loopback>>) BY <2>1, Items DEF Allowed
    <3> HIDE DEF m
    <3>3. /\ Queued'
          /\ \/ mqueue'[EventQueue] = Append(mqueue[EventQueue], m)
             \/ mqueue'[EventQueue] = mqueue[EventQueue]
      BY <1>1, <2>1, <2>2, <3>1, <3>2, Enqueued
    <3>4. Once' BY <1>1, <2>1, <2>3, <3>1, <3>3, OnceSame, OnceAppended
    <3> QED BY <1>1, <2>3, <3>1, <3>3, <3>4, NoneReported
  <2> QED BY <2>4, <2>5
<1> QED BY <1>2, <1>3 DEF LocalThread

(* mark_down_all().                                                        *)
LEMMA MarkDownTells == ASSUME Resets, OweKept, NEW c \in Conn, MarkDown(c) PROVE Telling'
<1>1. Shape /\ Contents /\ Once /\ OneFaults BY DEF Resets, Control
<1>2. attached[c] => ~Owed(c)'
  BY <1>1 DEF MarkDown, Closed, Detach, Owed, Faulting, OneFaults, Shape
<1> QED BY <1>1, <1>2, ResetQueued, NoneReported DEF MarkDown

(* fault() by the writer.                                                  *)
LEMMA WriterTells == ASSUME Resets, OweKept, NEW c \in Conn, WriteFails(c) PROVE Telling'
<1>1. Shape /\ Contents /\ Once /\ OneFaults BY DEF Resets, Control
<1>2. UNCHANGED <<seen, current, reader>> BY DEF WriteFails
<1>3. CASE FaultOnClosed(c) /\ UNCHANGED writer
  <2>1. ResetIfCleared(c) BY <1>3 DEF FaultOnClosed
  <2>2. attached[c] => ~Owed(c)'
    BY <1>1, <1>2, <1>3 DEF FaultOnClosed, Detach, Owed, Faulting, OneFaults, Shape
  <2> QED BY <1>1, <1>2, <2>1, <2>2, ResetQueued, NoneReported
<1>4. CASE FaultOnLossy(c) \/ FaultOnLossless(c)
  BY <1>1, <1>2, <1>4, Untouched DEF FaultOnLossy, FaultOnLossless
<1> QED BY <1>3, <1>4 DEF WriteFails

(* All actions.                                                            *)
LEMMA TellingKept == ASSUME Resets, OweKept, [Next]_vars PROVE Telling'
<1>1. Contents /\ Once BY DEF Resets
<1>2. CASE UNCHANGED <<mqueue, seen, current>> BY <1>1, <1>2, Untouched
<1>3. ASSUME NEW c \in Conn, ReadTagFails(c) \/ ReadBodyFails(c) PROVE Telling'
  BY <1>3, ReaderFaults DEF ReadTagFails, ReadBodyFails
<1>4. ASSUME NEW c \in Conn, ReaderFaulted(c) \/ WriterFaulted(c) PROVE Telling'
  <2>1. Faulting(c) /\ FaultDiscards(c) BY <1>4 DEF ReaderFaulted, WriterFaulted, Faulting
  <2>2. ~Faulting(c)'
    BY <1>4 DEF ReaderFaulted, WriterFaulted, Reader, Writer, Faulting, Resets, OneFaults,
       Control, Shape
  <2>3. UNCHANGED <<seen, current>> BY <2>1 DEF FaultDiscards
  <2> QED BY <1>1, <2>1, <2>2, <2>3, FaultQueued, NoneReported
<1>5. ASSUME NEW c \in Conn, \/ AddAcceptPipe(c) \/ ReadHeader(c) \/ TakeThrottle(c) \/ DropRead(c)
                             \/ UnlockForFast(c) \/ EndFast(c) \/ ReaderExits(c)
                             \/ WriteFails(c) \/ WriterExits(c) \/ QueueReap(c) \/ WaitStopsPipe(c)
      PROVE  Telling'
  BY <1>2, <1>5, WriterTells DEF AddAcceptPipe, ReadHeader, TakeThrottle, DropRead,
     UnlockForFast, EndFast, ReaderExits, WriterExits, QueueReap, WaitStopsPipe, queueVars,
     dispatchVars
<1>6. CASE \/ ReaperReaps \/ ReaperExits \/ SubmitLocal \/ BeginShutdown \/ EndShutdown \/ WaitReaps
  BY <1>2, <1>6 DEF ReaperReaps, WaitReaps, Reap, ReaperExits, SubmitLocal, LocalDelivery,
     BeginShutdown, EndShutdown, queueVars, dispatchVars
<1>7. CASE \/ WaitStopsAccepter \/ WaitStopsLocal \/ WaitStopsDispatch \/ WaitJoins
           \/ WaitStopsReaper \/ WaitTakesLock \/ WaitClearsPipe \/ WaitDropsLock \/ WaitReturns
  BY <1>2, <1>7 DEF WaitStopsAccepter, WaitStopsLocal, WaitStopsDispatch, WaitJoins,
     WaitStopsReaper, WaitTakesLock, WaitClearsPipe, WaitDropsLock, WaitReturns, StopLocal,
     StopDispatch, DiscardLocal, queueVars, dispatchVars
<1>8. CASE UNCHANGED vars BY <1>2, <1>8 DEF vars, queueVars, dispatchVars
<1> QED BY <1>3, <1>4, <1>5, <1>6, <1>7, <1>8, AcceptsTell, ReadQueued, FastTold, DispatchTells,
        LocalTells, MarkDownTells
     DEF Next, PipeStep, ReaderStep, WaitStep

(* The inductive step.                                                     *)
LEMMA ResetsKept == ASSUME Resets, [Next]_vars PROVE Resets'
<1>1. Control' BY ControlKept DEF Resets
<1>2. OneFaults' /\ OweKept BY FaultsKept DEF Resets
<1>3. Queued' /\ Reported' /\ Once' BY <1>2, TellingKept DEF Telling
<1>4. Working' BY WorkingKept DEF Resets, Contents
<1> QED BY <1>1, <1>2, <1>3, <1>4 DEF Resets, Contents
-----------------------------------------------------------------------------
(* One place, once: one in all.                                            *)
LEMMA Counted ==
  ASSUME NEW S, NEW s \in Seq(S), NEW m, AtMostOne(s, m)
  PROVE  LET found == {i \in DOMAIN s : s[i] = m}
         IN  Cardinality(found) = IF Has(s, m) THEN 1 ELSE 0
<1> DEFINE found == {i \in DOMAIN s : s[i] = m}
<1>1. CASE ~Has(s, m)
  <2>1. found = {} BY <1>1 DEF Has
  <2> QED BY <1>1, <2>1, FS_EmptySet
<1>2. CASE Has(s, m)
  <2>1. PICK i \in DOMAIN s : s[i] = m BY <1>2 DEF Has
  <2>2. found = {i} BY <2>1 DEF AtMostOne
  <2> QED BY <1>2, <2>2, FS_Singleton
<1> QED BY <1>1, <1>2

(* The invariant counts to one.                                            *)
LEMMA OnceIsOne == Resets => OneReset
<1> SUFFICES ASSUME Resets, NEW c \in Conn
             PROVE  Cardinality(ResetsOf(c))
                      + Cardinality({i \in DOMAIN mqueue[EventQueue] :
                                        mqueue[EventQueue][i] = Reset(c)})
                      + (IF current = Reset(c) THEN 1 ELSE 0) <= 1
  BY DEF OneReset, EventQueue, Reset
<1>1. Single(c) /\ mqueue[EventQueue] \in Seq(Proper) /\ seen[c] \in Seq(SeenBy(c))
  BY QueuesAreItems DEF Resets, Once
<1>2. ResetsOf(c) = {i \in DOMAIN seen[c] : seen[c][i] = Reset(c)}
  <2>1. \A i \in DOMAIN seen[c] : seen[c][i] \in SeenBy(c) BY <1>1
  <2>2. Reset(c).what = "reset" BY DEF Reset, Code
  <2> QED BY <2>1, <2>2 DEF ResetsOf, SeenBy
<1>3. Cardinality(ResetsOf(c)) = IF Has(seen[c], Reset(c)) THEN 1 ELSE 0
  BY <1>1, <1>2, Counted DEF Single
<1>4. Cardinality({i \in DOMAIN mqueue[EventQueue] : mqueue[EventQueue][i] = Reset(c)})
        = IF Has(mqueue[EventQueue], Reset(c)) THEN 1 ELSE 0
  BY <1>1, Counted DEF Single
<1> QED BY <1>1, <1>3, <1>4 DEF Single
-----------------------------------------------------------------------------
(* PipeConnection.cc:50: only the thread for which clear_pipe() is true    *)
(* reports the reset.  The reader and the writer in fault(), accept() and  *)
(* mark_down_all() may all find it failed, in any order, with the lock     *)
(* dropped in between: whatever they do, the Dispatchers are told once,    *)
(* counting the report that still waits in the queue.                      *)
THEOREM ResetOnce == Spec => []OneReset
<1>1. MessengerInit => Resets BY ControlInit, ResetsInit DEF Resets
<1>2. Resets /\ [Next]_vars => Resets' BY ResetsKept
<1> QED BY <1>1, <1>2, OnceIsOne, PTL DEF Spec
------------------------------------------------------------------------------
(***************************************************************************)
(* The dispatch throttle.                                                  *)
(***************************************************************************)
(* Only a message takes room in the throttle, and only one that was read   *)
(* from a socket: the messages of the process to itself are free.          *)
Honest == {m \in Item : m.what # "msg" => m.size = 0}
Free   == {m \in Item : m.size = 0}
Queues == [Priorities \X Classes -> Seq(Honest)]
Weights ==
  /\ mqueue \in Queues
  /\ current \in Honest /\ in_hand \in Free /\ local_messages \in Seq(Free)
  /\ frame \in [Conn -> Honest]
  /\ \A c \in Conn : reader[c] \in {"throttle", "body", "fast", "in_fast"} => frame[c].size = 1
  /\ dispatcher \notin {"handle", "dispatch"} => current.size = 0

(* Who has reserved: readers with a message, and queued messages.          *)
Busy == {c \in Conn : reader[c] \in {"body", "fast", "in_fast"}}
Sized(queues, classes) ==
  {x \in (Priorities \X classes) \X Nat :
     x[2] \in DOMAIN queues[x[1]] /\ queues[x[1]][x[2]].size = 1}
Total == Cardinality(Busy) + Cardinality(Sized(mqueue, Classes)) + current.size
Books ==
  /\ Weights
  /\ IsFiniteSet(Busy) /\ IsFiniteSet(Sized(mqueue, Classes))
  /\ throttle \in Nat /\ throttle <= Limit /\ stop \in BOOLEAN
  /\ IF stop THEN throttle >= Total ELSE throttle = Total
-----------------------------------------------------------------------------
(* What the invariant counts is what the model counts.                     *)
LEMMA SizedIsQueued ==
  ASSUME mqueue \in Queues, NEW T \in SUBSET Classes
  PROVE  Reservations(T) = Cardinality(Sized(mqueue, T))
<1>1. \A q \in Priorities \X T : mqueue[q] \in Seq(Honest) BY DEF Queues
<1>2. \A q \in Priorities \X T : DOMAIN mqueue[q] = 1..Len(mqueue[q]) /\ DOMAIN mqueue[q] \subseteq Nat
  BY <1>1
<1>3. {x \in QueuedIn(T) : mqueue[x[1]][x[2]].size = 1} = Sized(mqueue, T)
  <2>1. ASSUME NEW x
        PROVE  x \in QueuedIn(T) <=> x \in (Priorities \X T) \X Nat /\ x[2] \in DOMAIN mqueue[x[1]]
    <3>1. x \in QueuedIn(T) <=> \E q \in Priorities \X T : \E i \in DOMAIN mqueue[q] : x = <<q, i>>
      BY DEF QueuedIn
    <3>2. ASSUME x \in (Priorities \X T) \X Nat, x[2] \in DOMAIN mqueue[x[1]]
          PROVE  x \in QueuedIn(T)
      <4>1. x[1] \in Priorities \X T /\ x = <<x[1], x[2]>> BY <3>2
      <4> QED BY <3>1, <3>2, <4>1
    <3>3. ASSUME x \in QueuedIn(T)
          PROVE  x \in (Priorities \X T) \X Nat /\ x[2] \in DOMAIN mqueue[x[1]]
      <4>1. PICK q \in Priorities \X T : \E i \in DOMAIN mqueue[q] : x = <<q, i>> BY <3>1, <3>3
      <4>2. PICK i \in DOMAIN mqueue[q] : x = <<q, i>> BY <4>1
      <4>3. x[1] = q /\ x[2] = i /\ i \in Nat BY <1>2, <4>2
      <4> QED BY <4>2, <4>3
    <3> QED BY <3>2, <3>3
  <2> QED BY <2>1 DEF Sized
<1> QED BY <1>3 DEF Reservations

(* The operations on the queues.                                           *)
Added(f, q, m)   == [f EXCEPT ![q] = Append(@, m)]
Taken(f, q)      == [f EXCEPT ![q] = Tail(@)]
Discarded(f, c)  == [q \in Priorities \X Classes |-> IF q[2] = c THEN <<>> ELSE f[q]]

(* An item more.                                                           *)
LEMMA SizedAppended ==
  ASSUME NEW f \in Queues, NEW q \in Priorities \X Classes,
         NEW m \in Honest, NEW g, g = Added(f, q, m),
         IsFiniteSet(Sized(f, Classes))
  PROVE  /\ g \in Queues
         /\ IsFiniteSet(Sized(g, Classes))
         /\ Cardinality(Sized(g, Classes)) = Cardinality(Sized(f, Classes)) + m.size
<1> DEFINE x == <<q, Len(f[q]) + 1>>
<1>1. f[q] \in Seq(Honest) /\ Len(f[q]) \in Nat BY DEF Queues
<1>2. /\ Append(f[q], m) \in Seq(Honest)
      /\ DOMAIN f[q] = 1..Len(f[q]) /\ DOMAIN Append(f[q], m) = 1..(Len(f[q]) + 1)
      /\ \A i \in 1..Len(f[q]) : Append(f[q], m)[i] = f[q][i]
      /\ Append(f[q], m)[Len(f[q]) + 1] = m
  BY <1>1
<1>3. g[q] = Append(f[q], m) /\ \A r \in Priorities \X Classes : r # q => g[r] = f[r]
  BY DEF Added, Queues
<1>4. g \in Queues BY <1>2 DEF Added, Queues
<1>5. m.size \in {0, 1} BY DEF Honest, Item
<1>6. x \in (Priorities \X Classes) \X Nat /\ x[1] = q /\ x[2] = Len(f[q]) + 1 BY <1>1
<1> HIDE DEF x
<1>7. x \notin Sized(f, Classes)
  <2>1. Len(f[q]) + 1 \notin 1..Len(f[q]) BY <1>1
  <2> QED BY <1>2, <1>6, <2>1 DEF Sized
<1>8. \A y \in (Priorities \X Classes) \X Nat :
        y[2] \in DOMAIN g[y[1]] <=> y[2] \in DOMAIN f[y[1]] \/ y = x
  <2> SUFFICES ASSUME NEW r \in Priorities \X Classes, NEW i \in Nat
               PROVE  i \in DOMAIN g[r] <=> i \in DOMAIN f[r] \/ <<r, i>> = x
    OBVIOUS
  <2>1. 1..(Len(f[q]) + 1) = 1..Len(f[q]) \cup {Len(f[q]) + 1} BY <1>1
  <2> QED BY <1>2, <1>3, <2>1 DEF x
<1>9. \A y \in (Priorities \X Classes) \X Nat :
        y \in Sized(g, Classes) <=> y \in Sized(f, Classes) \/ (y = x /\ m.size = 1)
  <2> SUFFICES ASSUME NEW y \in (Priorities \X Classes) \X Nat
               PROVE  y \in Sized(g, Classes) <=> y \in Sized(f, Classes) \/ (y = x /\ m.size = 1)
    OBVIOUS
  <2>1. CASE y = x
    <3>1. g[y[1]][y[2]] = m BY <1>2, <1>3, <1>6, <2>1
    <3>2. y[2] \in DOMAIN g[y[1]] BY <1>8, <2>1
    <3> QED BY <1>7, <2>1, <3>1, <3>2 DEF Sized
  <2>2. CASE y # x
    <3>1. y[1] \in Priorities \X Classes OBVIOUS
    <3>2. ASSUME y[2] \in DOMAIN f[y[1]] PROVE g[y[1]][y[2]] = f[y[1]][y[2]]
      BY <1>2, <1>3, <3>1, <3>2
    <3> QED BY <1>8, <2>2, <3>2 DEF Sized
  <2> QED BY <2>1, <2>2
<1>10. CASE m.size = 1
  <2>1. Sized(g, Classes) = Sized(f, Classes) \cup {x} BY <1>6, <1>9, <1>10 DEF Sized
  <2>2. /\ IsFiniteSet(Sized(f, Classes) \cup {x})
        /\ Cardinality(Sized(f, Classes) \cup {x}) = Cardinality(Sized(f, Classes)) + 1
    BY <1>7, FS_AddElement
  <2> QED BY <1>4, <1>10, <2>1, <2>2
<1>11. CASE m.size = 0
  <2>1. Sized(g, Classes) = Sized(f, Classes) BY <1>9, <1>11 DEF Sized
  <2>2. Cardinality(Sized(f, Classes)) \in Nat BY FS_CardinalityType
  <2> QED BY <1>4, <1>11, <2>1, <2>2
<1> QED BY <1>5, <1>10, <1>11

(* The first item of a queue taken.                                        *)
LEMMA SizedTaken ==
  ASSUME NEW f \in Queues, NEW q \in Priorities \X Classes,
         f[q] # <<>>, NEW g, g = Taken(f, q),
         IsFiniteSet(Sized(f, Classes))
  PROVE  /\ g \in Queues /\ Head(f[q]) \in Honest
         /\ IsFiniteSet(Sized(g, Classes))
         /\ Cardinality(Sized(f, Classes)) = Cardinality(Sized(g, Classes)) + Head(f[q]).size
<1> DEFINE first == <<q, 1>>
           F == Sized(f, Classes)
           G == Sized(g, Classes)
           up == [x \in G |-> IF x[1] = q THEN <<q, x[2] + 1>> ELSE x]
<1>1. /\ f[q] \in Seq(Honest) /\ Len(f[q]) \in Nat \ {0}
      /\ Head(f[q]) \in Honest /\ Tail(f[q]) \in Seq(Honest)
      /\ DOMAIN f[q] = 1..Len(f[q]) /\ Head(f[q]) = f[q][1]
      /\ DOMAIN Tail(f[q]) = 1..(Len(f[q]) - 1)
      /\ \A i \in 1..(Len(f[q]) - 1) : Tail(f[q])[i] = f[q][i + 1]
  BY DEF Queues
<1>2. g[q] = Tail(f[q]) /\ \A r \in Priorities \X Classes : r # q => g[r] = f[r]
  BY DEF Taken, Queues
<1>3. g \in Queues BY <1>1 DEF Taken, Queues
<1>4. Head(f[q]).size \in {0, 1} BY <1>1 DEF Honest, Item
<1>5. first \in (Priorities \X Classes) \X Nat /\ first[1] = q /\ first[2] = 1 OBVIOUS
<1>6. first \in F <=> Head(f[q]).size = 1 BY <1>1, <1>5 DEF Sized
<1>7. \A x \in G : up[x] \in F \ {first}
  <2> SUFFICES ASSUME NEW x \in G PROVE up[x] \in F \ {first}
    OBVIOUS
  <2>1. x[1] \in Priorities \X Classes /\ x[2] \in Nat /\ x = <<x[1], x[2]>>
        /\ x[2] \in DOMAIN g[x[1]] /\ g[x[1]][x[2]].size = 1
    BY DEF Sized
  <2>2. CASE x[1] = q
    <3>1. x[2] \in 1..(Len(f[q]) - 1)
      <4>1. DOMAIN g[x[1]] = 1..(Len(f[q]) - 1) BY <1>1, <1>2, <2>2
      <4> QED BY <2>1, <4>1
    <3>4. f[q][x[2] + 1].size = 1
      <4>1. g[x[1]][x[2]] = f[q][x[2] + 1] BY <1>1, <1>2, <2>2, <3>1
      <4> QED BY <2>1, <4>1
    <3>2. x[2] + 1 \in 1..Len(f[q]) /\ x[2] + 1 # 1 /\ x[2] + 1 \in Nat BY <1>1, <3>1
    <3>3. <<q, x[2] + 1>> \in F /\ <<q, x[2] + 1>> # first BY <1>1, <3>4, <3>2 DEF Sized
    <3> QED BY <2>2, <3>3
  <2>3. CASE x[1] # q
    <3>1. x \in F BY <1>2, <2>1, <2>3 DEF Sized
    <3> QED BY <1>5, <2>3, <3>1
  <2> QED BY <2>2, <2>3
<1>8. \A x, y \in G : up[x] = up[y] => x = y
  <2> SUFFICES ASSUME NEW x \in G, NEW y \in G, up[x] = up[y] PROVE x = y
    OBVIOUS
  <2>1. /\ x = <<x[1], x[2]>> /\ x[2] \in Nat
        /\ y = <<y[1], y[2]>> /\ y[2] \in Nat
    <3>1. x \in (Priorities \X Classes) \X Nat /\ y \in (Priorities \X Classes) \X Nat
      BY DEF Sized
    <3> HIDE DEF G, up
    <3> QED BY <3>1
  <2>2. up[x][1] = x[1] /\ up[x][2] = IF x[1] = q THEN x[2] + 1 ELSE x[2] BY <2>1
  <2>3. up[y][1] = y[1] /\ up[y][2] = IF y[1] = q THEN y[2] + 1 ELSE y[2] BY <2>1
  <2>4. x[1] = y[1] BY <2>2, <2>3
  <2>5. x[2] = y[2]
    <3> HIDE DEF up, G
    <3>1. CASE x[1] = q
      <4>1. up[x][2] = x[2] + 1 /\ up[y][2] = y[2] + 1 BY <2>2, <2>3, <2>4, <3>1
      <4>2. x[2] + 1 = y[2] + 1 BY <4>1
      <4> QED BY <2>1, <4>2
    <3>2. CASE x[1] # q
      <4>1. up[x][2] = x[2] /\ up[y][2] = y[2] BY <2>2, <2>3, <2>4, <3>2
      <4> QED BY <4>1
    <3> QED BY <3>1, <3>2
  <2> QED BY <2>1, <2>4, <2>5
<1>9. \A z \in F \ {first} : \E x \in G : up[x] = z
  <2> SUFFICES ASSUME NEW z \in F \ {first} PROVE \E x \in G : up[x] = z
    OBVIOUS
  <2>1. z[1] \in Priorities \X Classes /\ z[2] \in Nat /\ z = <<z[1], z[2]>>
        /\ z[2] \in DOMAIN f[z[1]] /\ f[z[1]][z[2]].size = 1
    BY DEF Sized
  <2>2. CASE z[1] = q
    <3>1. z[2] \in 1..Len(f[q]) /\ z[2] # 1 BY <1>1, <2>1, <2>2
    <3>2. z[2] - 1 \in 1..(Len(f[q]) - 1) /\ z[2] - 1 \in Nat /\ (z[2] - 1) + 1 = z[2]
      BY <1>1, <3>1
    <3>3. Tail(f[q])[z[2] - 1] = f[q][z[2]] BY <1>1, <3>2
    <3>4. <<q, z[2] - 1>> \in G BY <1>1, <1>2, <2>1, <2>2, <3>2, <3>3 DEF Sized
    <3>5. up[<<q, z[2] - 1>>] = z BY <2>1, <2>2, <3>2, <3>4
    <3> QED BY <3>4, <3>5
  <2>3. CASE z[1] # q
    <3>1. z \in G BY <1>2, <2>1, <2>3 DEF Sized
    <3>2. up[z] = z BY <2>3, <3>1
    <3> QED BY <3>1, <3>2
  <2> QED BY <2>2, <2>3
<1> HIDE DEF F, G, first
<1>10. up \in [G -> F \ {first}] BY <1>7
<1> HIDE DEF up
<1>11. ExistsBijection(G, F \ {first}) BY <1>8, <1>9, <1>10, Fun_IsBij DEF ExistsBijection
<1>12. IsFiniteSet(F) BY DEF F
<1>13. /\ IsFiniteSet(F \ {first})
       /\ Cardinality(F \ {first}) = IF first \in F THEN Cardinality(F) - 1 ELSE Cardinality(F)
  BY <1>12, FS_RemoveElement
<1>14. ExistsBijection(F \ {first}, G) BY <1>11, Fun_ExistsBijSymmetric
<1>15. IsFiniteSet(G) /\ Cardinality(G) = Cardinality(F \ {first})
  BY <1>13, <1>14, FS_Bijection
<1>16. Cardinality(F) \in Nat BY <1>12, FS_CardinalityType
<1>17. Cardinality(F) = Cardinality(G) + Head(f[q]).size
  BY <1>4, <1>6, <1>13, <1>15, <1>16
<1> QED BY <1>1, <1>3, <1>15, <1>17 DEF F, G

(* A class discarded.                                                      *)
LEMMA SizedDiscarded ==
  ASSUME NEW f \in Queues, NEW c \in Classes, NEW g, g = Discarded(f, c),
         IsFiniteSet(Sized(f, Classes))
  PROVE  /\ g \in Queues
         /\ IsFiniteSet(Sized(g, Classes)) /\ IsFiniteSet(Sized(f, {c}))
         /\ Cardinality(Sized(f, Classes))
              = Cardinality(Sized(g, Classes)) + Cardinality(Sized(f, {c}))
<1> DEFINE F == Sized(f, Classes)
           G == Sized(g, Classes)
           H == Sized(f, {c})
<1>1. g \in Queues
  <2>1. <<>> \in Seq(Honest) OBVIOUS
  <2> QED BY <2>1 DEF Discarded, Queues
<1>2. H \subseteq F BY DEF Sized
<1>3. G = F \ H
  <2>1. ASSUME NEW q \in Priorities \X Classes, NEW i \in Nat
        PROVE  <<q, i>> \in G <=> <<q, i>> \in F /\ <<q, i>> \notin H
    <3>1. CASE q[2] = c
      <4>1. q \in Priorities \X {c} /\ g[q] = <<>> /\ DOMAIN g[q] = {} BY <3>1 DEF Discarded
      <4> QED BY <4>1 DEF Sized
    <3>2. CASE q[2] # c
      <4>1. q \notin Priorities \X {c} /\ g[q] = f[q] BY <3>2 DEF Discarded
      <4> QED BY <4>1 DEF Sized
    <3> QED BY <3>1, <3>2
  <2>2. G \subseteq (Priorities \X Classes) \X Nat /\ F \subseteq (Priorities \X Classes) \X Nat
    BY DEF Sized
  <2> HIDE DEF F, G, H
  <2>3. \A x \in (Priorities \X Classes) \X Nat : x \in G <=> x \in F /\ x \notin H BY <2>1
  <2> QED BY <2>2, <2>3
<1> HIDE DEF F, G, H
<1>4. IsFiniteSet(F) BY DEF F
<1>5. IsFiniteSet(H) /\ F \cap H = H BY <1>2, <1>4, FS_Subset
<1>6. IsFiniteSet(G) /\ Cardinality(G) = Cardinality(F) - Cardinality(F \cap H)
  BY <1>3, <1>4, FS_Difference
<1>7. Cardinality(F) \in Nat /\ Cardinality(H) \in Nat BY <1>4, <1>5, FS_CardinalityType
<1>8. Cardinality(F \cap H) = Cardinality(H) BY <1>5
<1>9. Cardinality(F) = Cardinality(G) + Cardinality(H) BY <1>6, <1>7, <1>8
<1> QED BY <1>1, <1>5, <1>6, <1>9 DEF F, G, H
-----------------------------------------------------------------------------
(* What a step does to the books, part by part.                            *)
Gains(n) ==
  /\ mqueue' \in Queues
  /\ IsFiniteSet(Sized(mqueue', Classes))
  /\ Cardinality(Sized(mqueue', Classes)) = Cardinality(Sized(mqueue, Classes)) + n

(* The throttle moves with what is counted, or after stop by less.         *)
LEMMA Balanced ==
  ASSUME Books, Weights', IsFiniteSet(Busy'), NEW b \in Int, NEW n \in Int, NEW d \in Int,
         Cardinality(Busy') = Cardinality(Busy) + b, Gains(n),
         throttle' = throttle + d, throttle + d <= Limit,
         stop' \in BOOLEAN, stop => stop',
         \/ b + n + current'.size - current.size = d
         \/ stop' /\ b + n + current'.size - current.size <= d
  PROVE  Books'
<1>1. Cardinality(Busy) \in Nat /\ Cardinality(Sized(mqueue, Classes)) \in Nat
  BY FS_CardinalityType DEF Books
<1>2. Cardinality(Busy') \in Nat /\ Cardinality(Sized(mqueue', Classes)) \in Nat
  BY FS_CardinalityType DEF Gains
<1>3. current.size \in {0, 1} /\ current'.size \in {0, 1}
  BY DEF Books, Weights, Honest, Item
<1>4. Total' = Cardinality(Busy') + Cardinality(Sized(mqueue', Classes)) + current'.size
  BY DEF Total, Sized
<1>5. Total = Cardinality(Busy) + Cardinality(Sized(mqueue, Classes)) + current.size
  BY DEF Total
<1>6. Cardinality(Sized(mqueue', Classes)) = Cardinality(Sized(mqueue, Classes)) + n BY DEF Gains
<1>7. throttle \in Nat /\ IF stop THEN throttle >= Total ELSE throttle = Total BY DEF Books
<1>8. Total \in Nat /\ Total' \in Nat BY <1>1, <1>2, <1>3, <1>4, <1>5
<1>9. Total' = Total + (b + n + current'.size - current.size)
  BY <1>1, <1>2, <1>3, <1>4, <1>5, <1>6
<1>10. IF stop' THEN throttle' >= Total' ELSE throttle' = Total' BY <1>3, <1>7, <1>8, <1>9
<1>11. throttle' \in Nat /\ throttle' <= Limit BY <1>7, <1>8, <1>10
<1>12. IsFiniteSet(Sized(mqueue, Classes))' BY DEF Gains, Sized
<1> QED BY <1>10, <1>11, <1>12 DEF Books

(* enqueue().                                                              *)
LEMMA ItemGained ==
  ASSUME Books, NEW m \in Honest, NEW class \in Classes, Enqueue(m, class)
  PROVE  Gains(m.size)
<1>1. Priority(m) \in Priorities BY DEF Priority, Priorities, Low, High, Highest
<1>slot. PICK q : q = <<Priority(m), class>> OBVIOUS
<1>2. mqueue' = [mqueue EXCEPT ![q] = Append(@, m)] 
  BY <1>slot DEF Enqueue, QueuePriority, AtEnd
<1>3. mqueue \in Queues /\ IsFiniteSet(Sized(mqueue, Classes))
  BY DEF Books, Weights
<1>4. q \in Priorities \X Classes BY <1>1, <1>slot
<1>5. PICK f, g : f = mqueue /\ g = mqueue' OBVIOUS
<1>6. f \in Queues /\ IsFiniteSet(Sized(f, Classes))
  BY <1>3, <1>5
<1>7. g = Added(f, q, m) BY <1>2, <1>5 DEF Added
<1>8. /\ g \in Queues
      /\ IsFiniteSet(Sized(g, Classes))
      /\ Cardinality(Sized(g, Classes)) = Cardinality(Sized(f, Classes)) + m.size
  BY <1>4, <1>6, <1>7, SizedAppended
<1> QED BY <1>5, <1>8 DEF Gains

(* A step that leaves the queues alone.                                    *)
LEMMA NoneGained == ASSUME Books, UNCHANGED mqueue PROVE Gains(0)
<1>1. Cardinality(Sized(mqueue, Classes)) \in Nat BY FS_CardinalityType DEF Books
<1> QED BY <1>1 DEF Books, Weights, Gains

(* queue_accept() and queue_reset(): an event weighs nothing.              *)
Event(c) ==
  \/ UNCHANGED <<mqueue, dispatcher>>
  \/ \E what \in Events : QueueCode(what, c)

(* A step that queues an event, or does not since the queue has stopped.  *)
LEMMA EventGained ==
  ASSUME Books, NEW c \in Conn, Event(c)
  PROVE  Gains(0) /\ (dispatcher' = dispatcher \/ dispatcher' = Signalled(dispatcher))
<1>1. CASE UNCHANGED <<mqueue, dispatcher>> BY <1>1, NoneGained
<1>2. ASSUME NEW what \in Events, QueueCode(what, c)
      PROVE  Gains(0) /\ (dispatcher' = dispatcher \/ dispatcher' = Signalled(dispatcher))
  <2>1. CASE stop BY <1>2, <2>1, NoneGained DEF QueueCode
  <2>2. CASE ~stop
    <3>1. Code(what, c) \in Honest /\ Code(what, c).size = 0 /\ Loopback \in Classes
      BY <1>2 DEF Honest, Item, Code, Events, Classes
    <3>2. Enqueue(Code(what, c), Loopback) BY <1>2, <2>2 DEF QueueCode
    <3>3. Gains(Code(what, c).size) BY <3>1, <3>2, ItemGained
    <3>4. dispatcher' = Signalled(dispatcher) BY <3>2 DEF Enqueue
    <3> QED BY <3>1, <3>3, <3>4
  <2> QED BY <2>1, <2>2
<1> QED BY <1>1, <1>2 DEF Event

(* clear_pipe() with the event that follows.                               *)
LEMMA ResetIsEvent == ASSUME NEW c \in Conn, ResetIfCleared(c) PROVE Event(c)
BY DEF ResetIfCleared, Event, Events

(* A reader with a message more or less.                                   *)
LEMMA BusyMoves ==
  ASSUME Shape, Books, NEW c \in Conn, NEW pc, Reader(c, pc)
  PROVE  LET busy == {"body", "fast", "in_fast"}
         IN  /\ IsFiniteSet(Busy')
             /\ reader[c] \notin busy /\ pc \in busy => Cardinality(Busy') = Cardinality(Busy) + 1
             /\ reader[c] \in busy /\ pc \notin busy => Cardinality(Busy') = Cardinality(Busy) + (-1)
             /\ (reader[c] \in busy <=> pc \in busy) => Cardinality(Busy') = Cardinality(Busy) + 0
<1> DEFINE busy == {"body", "fast", "in_fast"}
           R == reader
<1>1. R \in [Conn -> ReaderPlaces] BY DEF Shape
<1>2. reader' = [R EXCEPT ![c] = pc] BY DEF Reader
<1>3. Busy = {d \in Conn : R[d] \in busy} BY DEF Busy
<1>4. Busy' = {d \in Conn : [R EXCEPT ![c] = pc][d] \in busy} BY <1>2 DEF Busy
<1> HIDE DEF busy
<1>5. /\ IsFiniteSet(Busy) /\ Cardinality(Busy) \in Nat
  BY FS_CardinalityType DEF Books
<1> HIDE DEF R
<1>6. pc \in busy => Busy' = Busy \cup {c} BY <1>1, <1>3, <1>4
<1>7. pc \notin busy => Busy' = Busy \ {c} BY <1>1, <1>3, <1>4
<1>8. c \in Busy <=> R[c] \in busy BY <1>3
<1>9. /\ IsFiniteSet(Busy \cup {c})
      /\ Cardinality(Busy \cup {c}) = IF c \in Busy THEN Cardinality(Busy) ELSE Cardinality(Busy) + 1
  BY <1>5, FS_AddElement
<1>10. /\ IsFiniteSet(Busy \ {c})
       /\ Cardinality(Busy \ {c}) = IF c \in Busy THEN Cardinality(Busy) - 1 ELSE Cardinality(Busy)
  BY <1>5, FS_RemoveElement
<1>11. CASE pc \in busy
  <2>1. IsFiniteSet(Busy') /\ Cardinality(Busy') = Cardinality(Busy \cup {c}) BY <1>6, <1>9, <1>11
  <2> QED BY <1>5, <1>8, <1>9, <1>11, <2>1 DEF R, busy
<1>12. CASE pc \notin busy
  <2>1. IsFiniteSet(Busy') /\ Cardinality(Busy') = Cardinality(Busy \ {c}) BY <1>7, <1>10, <1>12
  <2> QED BY <1>5, <1>8, <1>10, <1>12, <2>1 DEF R, busy
<1> QED BY <1>11, <1>12

(* A step of somebody else than a reader.                                  *)
LEMMA BusySame ==
  ASSUME Books, UNCHANGED reader
  PROVE  IsFiniteSet(Busy') /\ Cardinality(Busy') = Cardinality(Busy) + 0
<1>1. Busy' = Busy BY DEF Busy
<1>2. Cardinality(Busy) \in Nat BY FS_CardinalityType DEF Books
<1> QED BY <1>1, <1>2 DEF Books
-----------------------------------------------------------------------------
(* A reader before it has reserved, or after it gave its reservation back. *)
Away(pc) == pc \notin {"throttle", "body", "fast", "in_fast"}

(* It moves on, and may queue an event.                                    *)
LEMMA IdleReader ==
  ASSUME Shape, Books, NEW c \in Conn, NEW pc, Reader(c, pc), Away(reader[c]), Away(pc),
         Event(c), UNCHANGED <<in_hand, local_messages, frame, current, throttle, stop>>
  PROVE  Books'
<1>1. Gains(0) /\ (dispatcher' = dispatcher \/ dispatcher' = Signalled(dispatcher))
  BY EventGained
<1>2. IsFiniteSet(Busy') /\ Cardinality(Busy') = Cardinality(Busy) + 0
  BY BusyMoves DEF Away
<1>3. \A d \in Conn : reader'[d] \in {"throttle", "body", "fast", "in_fast"} => frame'[d].size = 1
  BY DEF Shape, Reader, Away, Books, Weights
<1>4. mqueue' \in Queues BY <1>1 DEF Gains
<1>5. dispatcher' \notin {"handle", "dispatch"} => current'.size = 0
  BY <1>1 DEF Books, Weights, Signalled
<1>6. Weights' BY <1>3, <1>4, <1>5 DEF Books, Weights, Honest, Free
<1>7. throttle \in Nat /\ throttle <= Limit /\ stop \in BOOLEAN /\ current.size \in {0, 1}
  BY DEF Books, Weights, Honest, Item
<1>8. throttle' = throttle + 0 /\ throttle + 0 <= Limit BY <1>7
<1>9. 0 + 0 + current'.size - current.size = 0 BY <1>7
<1> QED BY <1>1, <1>2, <1>6, <1>7, <1>8, <1>9, Balanced

(* A step without a reader that queues an event at most.                   *)
LEMMA NoReader ==
  ASSUME Books, UNCHANGED reader, NEW c \in Conn, Event(c),
         UNCHANGED <<in_hand, local_messages, frame, current, throttle, stop>>
  PROVE  Books'
<1>1. Gains(0) /\ (dispatcher' = dispatcher \/ dispatcher' = Signalled(dispatcher))
  BY EventGained
<1>2. IsFiniteSet(Busy') /\ Cardinality(Busy') = Cardinality(Busy) + 0 BY BusySame
<1>3. mqueue' \in Queues BY <1>1 DEF Gains
<1>4. dispatcher' \notin {"handle", "dispatch"} => current'.size = 0
  BY <1>1 DEF Books, Weights, Signalled
<1>5. Weights' BY <1>3, <1>4 DEF Books, Weights, Honest, Free
<1>6. throttle \in Nat /\ throttle <= Limit /\ stop \in BOOLEAN /\ current.size \in {0, 1}
  BY DEF Books, Weights, Honest, Item
<1>7. throttle' = throttle + 0 /\ throttle + 0 <= Limit BY <1>6
<1>8. 0 + 0 + current'.size - current.size = 0 BY <1>6
<1> QED BY <1>1, <1>2, <1>5, <1>6, <1>7, <1>8, Balanced

(* A step with none of this.                                               *)
LEMMA BooksSame ==
  ASSUME Books, UNCHANGED <<reader, mqueue, dispatcher, in_hand, local_messages, frame, current,
                            throttle, stop>>
  PROVE  Books'
<1>1. Gains(0) BY NoneGained
<1>2. IsFiniteSet(Busy') /\ Cardinality(Busy') = Cardinality(Busy) + 0 BY BusySame
<1>3. Weights' BY DEF Books, Weights, Honest, Free
<1>4. throttle \in Nat /\ throttle <= Limit /\ stop \in BOOLEAN /\ current.size \in {0, 1}
  BY DEF Books, Weights, Honest, Item
<1>5. throttle' = throttle + 0 /\ throttle + 0 <= Limit BY <1>4
<1>6. 0 + 0 + current'.size - current.size = 0 BY <1>4
<1> QED BY <1>1, <1>2, <1>3, <1>4, <1>5, <1>6, Balanced

(* The reader has done with its message and gives its reservation back.    *)
LEMMA ReaderGivesBack ==
  ASSUME Shape, Books, NEW c \in Conn, NEW pc, Reader(c, pc), Away(pc),
         reader[c] \in {"body", "fast", "in_fast"}, frame' = [frame EXCEPT ![c] = Nothing],
         throttle' = throttle - 1,
         Event(c), UNCHANGED <<in_hand, local_messages, current, stop>>
  PROVE  Books'
<1>1. Gains(0) /\ (dispatcher' = dispatcher \/ dispatcher' = Signalled(dispatcher))
  BY EventGained
<1>2. IsFiniteSet(Busy') /\ Cardinality(Busy') = Cardinality(Busy) + (-1)
  BY BusyMoves DEF Away
<1>3. /\ frame' \in [Conn -> Honest]
      /\ \A d \in Conn : reader'[d] \in {"throttle", "body", "fast", "in_fast"}
           => frame'[d].size = 1
  <2>1. Nothing \in Honest
    BY LoopbackIsNoConn DEF Nothing, Code, Honest, Item, Classes, Events
  <2>2. frame' \in [Conn -> Honest] BY <2>1 DEF Books, Weights
  <2>3. reader \in [Conn -> ReaderPlaces] /\ frame \in [Conn -> Honest] BY DEF Shape, Books, Weights
  <2>4. ASSUME NEW d \in Conn, reader'[d] \in {"throttle", "body", "fast", "in_fast"}
        PROVE  frame'[d].size = 1
    <3>1. d # c /\ reader'[d] = reader[d] /\ frame'[d] = frame[d]
      BY <2>3, <2>4 DEF Reader, Away
    <3> QED BY <2>4, <3>1 DEF Books, Weights
  <2> QED BY <2>2, <2>4
<1>4. mqueue' \in Queues BY <1>1 DEF Gains
<1>5. dispatcher' \notin {"handle", "dispatch"} => current'.size = 0
  BY <1>1 DEF Books, Weights, Signalled
<1>6. Weights' BY <1>3, <1>4, <1>5 DEF Books, Weights, Honest, Free
<1>7. throttle \in Nat /\ throttle <= Limit /\ stop \in BOOLEAN /\ current.size \in {0, 1}
  BY DEF Books, Weights, Honest, Item
<1>8. throttle' = throttle + (-1) /\ throttle + (-1) <= Limit BY <1>7, LimitIsPositive
<1>9. -1 + 0 + current'.size - current.size = -1 BY <1>7
<1> QED BY <1>1, <1>2, <1>6, <1>7, <1>8, <1>9, Balanced

(* A reader with its message goes on, or gets a message from its peer.     *)
LEMMA ReaderGoesOn ==
  ASSUME Shape, Working, Books, NEW c \in Conn,
         ReadHeader(c) \/ TakeThrottle(c) \/ UnlockForFast(c) \/ BeginFast(c)
  PROVE  Books'
<1>1. reader \in [Conn -> ReaderPlaces] /\ frame \in [Conn -> Honest] BY DEF Shape, Books, Weights
<1>2. Gains(0)
  BY NoneGained DEF ReadHeader, TakeThrottle, UnlockForFast, BeginFast, queueVars, dispatchVars
<1>3. /\ throttle \in Nat /\ throttle <= Limit /\ stop \in BOOLEAN /\ current.size \in {0, 1}
      /\ Limit \in Nat
  BY LimitIsPositive DEF Books, Weights, Honest, Item
<1>4. UNCHANGED <<mqueue, dispatcher, current, in_hand, local_messages, stop>>
  BY DEF ReadHeader, TakeThrottle, UnlockForFast, BeginFast, queueVars, dispatchVars, localVars
<1>5. mqueue' \in Queues /\ current' \in Honest /\ in_hand' \in Free
      /\ local_messages' \in Seq(Free)
      /\ (dispatcher' \notin {"handle", "dispatch"} => current'.size = 0)
  BY <1>4 DEF Books, Weights
<1>6. ASSUME frame' \in [Conn -> Honest],
             \A d \in Conn : reader'[d] \in {"throttle", "body", "fast", "in_fast"}
               => frame'[d].size = 1
      PROVE  Weights'
  BY <1>5, <1>6 DEF Weights, Queues, Honest, Free
<1>7. CASE ReadHeader(c)
  <2>1. PICK k \in Kinds : frame' = [frame EXCEPT ![c] = Msg(c, received[c] + 1, k, 1)]
    BY <1>7 DEF ReadHeader
  <2>2. Reader(c, "throttle") /\ reader[c] = "tag" /\ throttle' = throttle + 0
    BY <1>3, <1>7 DEF ReadHeader, queueVars
  <2>3. received[c] + 1 \in Nat
    BY DEF Working
  <2>4. Msg(c, received[c] + 1, k, 1) \in Honest /\ Msg(c, received[c] + 1, k, 1).size = 1
    BY <2>3 DEF Msg, Honest, Item, Classes
  <2>5. frame' \in [Conn -> Honest] BY <1>1, <2>1, <2>4
  <2>6. \A d \in Conn : reader'[d] \in {"throttle", "body", "fast", "in_fast"} => frame'[d].size = 1
    <3> SUFFICES ASSUME NEW d \in Conn, reader'[d] \in {"throttle", "body", "fast", "in_fast"}
                 PROVE  frame'[d].size = 1
      OBVIOUS
    <3>1. CASE d = c BY <1>1, <2>1, <2>4, <3>1
    <3>2. CASE d # c
      <4>1. reader'[d] = reader[d] /\ frame'[d] = frame[d] BY <1>1, <2>1, <2>2, <3>2 DEF Reader
      <4> QED BY <4>1 DEF Books, Weights
    <3> QED BY <3>1, <3>2
  <2>7. IsFiniteSet(Busy') /\ Cardinality(Busy') = Cardinality(Busy) + 0
    BY <2>2, BusyMoves
  <2>8. 0 + 0 + current'.size - current.size = 0 /\ throttle + 0 <= Limit BY <1>3, <1>4
  <2> QED BY <1>2, <1>3, <1>4, <1>6, <2>2, <2>5, <2>6, <2>7, <2>8, Balanced
<1>8. CASE TakeThrottle(c)
  <2>1. /\ Reader(c, "body") /\ reader[c] = "throttle" /\ throttle' = throttle + 1
        /\ throttle < Limit /\ frame' = frame
    BY <1>8 DEF TakeThrottle
  <2>2. frame' \in [Conn -> Honest] BY <1>1, <2>1
  <2>3. \A d \in Conn : reader'[d] \in {"throttle", "body", "fast", "in_fast"} => frame'[d].size = 1
    BY <1>1, <2>1 DEF Reader, Books, Weights
  <2>4. IsFiniteSet(Busy') /\ Cardinality(Busy') = Cardinality(Busy) + 1
    BY <2>1, BusyMoves
  <2>5. 1 + 0 + current'.size - current.size = 1 /\ throttle + 1 <= Limit BY <1>3, <1>4, <2>1
  <2> QED BY <1>2, <1>3, <1>4, <1>6, <2>1, <2>2, <2>3, <2>4, <2>5, Balanced
<1>9. CASE UnlockForFast(c) \/ BeginFast(c)
  <2>1. PICK pc \in {"fast", "in_fast"} : Reader(c, pc)
    BY <1>9 DEF UnlockForFast, BeginFast
  <2>2. /\ reader[c] \in {"body", "fast"} /\ throttle' = throttle + 0 /\ frame' = frame
    BY <1>3, <1>9 DEF UnlockForFast, BeginFast, queueVars
  <2>3. frame' \in [Conn -> Honest] BY <1>1, <2>2
  <2>4. \A d \in Conn : reader'[d] \in {"throttle", "body", "fast", "in_fast"} => frame'[d].size = 1
    BY <1>1, <2>1, <2>2 DEF Reader, Books, Weights
  <2>5. IsFiniteSet(Busy') /\ Cardinality(Busy') = Cardinality(Busy) + 0
    BY <2>1, <2>2, BusyMoves
  <2>6. 0 + 0 + current'.size - current.size = 0 /\ throttle + 0 <= Limit BY <1>3, <1>4
  <2> QED BY <1>2, <1>3, <1>4, <1>6, <2>2, <2>3, <2>4, <2>5, <2>6, Balanced
<1> QED BY <1>7, <1>8, <1>9

(* The message goes to the queue with its reservation.                     *)
LEMMA ReaderQueues ==
  ASSUME Shape, Books, NEW c \in Conn, QueueRead(c)
  PROVE  Books'
<1> DEFINE pc == AfterTest(state[c])
<1>1. reader \in [Conn -> ReaderPlaces] /\ frame \in [Conn -> Honest] BY DEF Shape, Books, Weights
<1>2. /\ reader[c] = "body" /\ Enqueue(frame[c], c) /\ frame' = [frame EXCEPT ![c] = Nothing]
      /\ Reader(c, pc) /\ Away(pc)
      /\ UNCHANGED <<current, in_hand, local_messages, throttle, stop>>
  BY DEF QueueRead, AfterTest, Away, localVars
<1> HIDE DEF pc
<1>3. frame[c].size = 1 /\ frame[c] \in Honest BY <1>1, <1>2 DEF Books, Weights
<1>4. c \in Classes BY DEF Classes
<1>5. Gains(frame[c].size) BY <1>2, <1>3, <1>4, ItemGained
<1>6. Gains(1) BY <1>3, <1>5
<1>7. IsFiniteSet(Busy') /\ Cardinality(Busy') = Cardinality(Busy) + (-1)
  BY <1>2, BusyMoves DEF Away
<1>8. frame' \in [Conn -> Honest]
  <2>1. Nothing \in Honest
    BY LoopbackIsNoConn DEF Nothing, Code, Honest, Item, Classes, Events
  <2> QED BY <1>1, <1>2, <2>1
<1>9. \A d \in Conn : reader'[d] \in {"throttle", "body", "fast", "in_fast"} => frame'[d].size = 1
  <2> SUFFICES ASSUME NEW d \in Conn, reader'[d] \in {"throttle", "body", "fast", "in_fast"}
               PROVE  frame'[d].size = 1
    OBVIOUS
  <2>1. d # c /\ reader'[d] = reader[d] /\ frame'[d] = frame[d]
    BY <1>1, <1>2 DEF Reader, Away
  <2> QED BY <2>1 DEF Books, Weights
<1>10. mqueue' \in Queues BY <1>6 DEF Gains
<1>11. dispatcher' \notin {"handle", "dispatch"} => current'.size = 0
  BY <1>2 DEF Books, Weights, Signalled, Enqueue
<1>12. Weights' BY <1>2, <1>8, <1>9, <1>10, <1>11 DEF Books, Weights, Queues, Honest, Free
<1>13. /\ throttle \in Nat /\ throttle <= Limit /\ stop \in BOOLEAN /\ current.size \in {0, 1}
       /\ Limit \in Nat
  BY LimitIsPositive DEF Books, Weights, Honest, Item
<1>14. throttle' = throttle + 0 /\ throttle + 0 <= Limit BY <1>2, <1>13
<1>15. -1 + 1 + current'.size - current.size = 0 BY <1>2, <1>13
<1> QED BY <1>2, <1>6, <1>7, <1>12, <1>13, <1>14, <1>15, Balanced

(* fault() discards the class with its reservations.                       *)
LEMMA FaultReleases ==
  ASSUME Shape, Books, NEW c \in Conn, ReaderFaulted(c) \/ WriterFaulted(c)
  PROVE  Books'
<1>1. FaultDiscards(c) BY DEF ReaderFaulted, WriterFaulted
<1>2. PICK f, kept : f = mqueue /\ kept = Discarded(f, c) OBVIOUS
<1>3. f \in Queues /\ IsFiniteSet(Sized(f, Classes)) /\ c \in Classes
  BY <1>2 DEF Books, Weights, Classes
<1>4. /\ kept \in Queues
      /\ IsFiniteSet(Sized(kept, Classes)) /\ IsFiniteSet(Sized(f, {c}))
      /\ Cardinality(Sized(f, Classes))
           = Cardinality(Sized(kept, Classes)) + Cardinality(Sized(f, {c}))
  BY <1>2, <1>3, SizedDiscarded
<1>5. PICK n : n = Cardinality(Sized(f, {c})) OBVIOUS
<1>6. n \in Nat /\ Cardinality(Sized(kept, Classes)) \in Nat BY <1>4, <1>5, FS_CardinalityType
<1>7. throttle' = throttle - n
  <2>1. throttle' = throttle - Reservations({c}) BY <1>1 DEF FaultDiscards, AfterDiscard
  <2>2. Reservations({c}) = Cardinality(Sized(mqueue, {c}))
    <3>1. {c} \in SUBSET Classes BY <1>3
    <3>2. mqueue \in [Priorities \X Classes -> Seq(Honest)] BY <1>2, <1>3 DEF Queues
    <3> QED BY <3>1, <3>2, SizedIsQueued DEF Queues
  <2> QED BY <1>2, <1>5, <2>1, <2>2
<1>8. Cardinality(Sized(mqueue, Classes)) = Cardinality(Sized(kept, Classes)) + n
  BY <1>2, <1>4, <1>5
<1> DEFINE m == Code("reset", c)
<1>9. \/ mqueue' = kept /\ dispatcher' = dispatcher
      \/ /\ mqueue' = [kept EXCEPT ![<<QueuePriority(m), Loopback>>] = AtEnd(@, m)]
         /\ dispatcher' = Signalled(dispatcher)
  BY <1>1, <1>2 DEF FaultDiscards, Discarded
<1>gains. Gains(-n)
  <2>1. m \in Honest /\ m.size = 0 BY DEF Code, Honest, Item, Events, Classes
  <2>2. QueuePriority(m) \in Priorities
    BY DEF QueuePriority, Priority, Code, Priorities, Low, Highest
  <2>3. PICK q : q = <<QueuePriority(m), Loopback>> OBVIOUS
  <2>4. q \in Priorities \X Classes BY <2>2, <2>3 DEF Classes
  <2> HIDE DEF m
  <2>5. CASE mqueue' = kept
    <3>1. Cardinality(Sized(kept, Classes)) = Cardinality(Sized(mqueue, Classes)) + (-n)
      BY <1>6, <1>8
    <3> QED BY <1>4, <2>5, <3>1 DEF Gains
  <2>6. CASE mqueue' = [kept EXCEPT ![<<QueuePriority(m), Loopback>>] = AtEnd(@, m)]
    <3>1. PICK g : g = mqueue' OBVIOUS
    <3>2. g = Added(kept, q, m) BY <2>3, <2>6, <3>1 DEF Added, AtEnd
    <3>3. /\ g \in Queues /\ IsFiniteSet(Sized(g, Classes))
          /\ Cardinality(Sized(g, Classes)) = Cardinality(Sized(kept, Classes)) + m.size
      BY <1>4, <2>1, <2>4, <3>2, SizedAppended
    <3>4. Cardinality(Sized(g, Classes)) = Cardinality(Sized(mqueue, Classes)) + (-n)
      BY <1>6, <1>8, <2>1, <3>3
    <3> QED BY <3>1, <3>3, <3>4 DEF Gains
  <2> QED BY <1>9, <2>5, <2>6
<1> HIDE DEF m
<1>10. IsFiniteSet(Busy') /\ Cardinality(Busy') = Cardinality(Busy) + 0
  <2>1. CASE ReaderFaulted(c)
    <3>1. Reader(c, "done") /\ reader[c] = "faulting" BY <2>1 DEF ReaderFaulted
    <3> QED BY <3>1, BusyMoves
  <2>2. CASE WriterFaulted(c) BY <2>2, BusySame DEF WriterFaulted
  <2> QED BY <2>1, <2>2
<1>11. UNCHANGED <<current, in_hand, local_messages, stop, frame>>
  BY <1>1 DEF FaultDiscards, localVars
<1>12. \A d \in Conn : reader'[d] \in {"throttle", "body", "fast", "in_fast"} => frame'[d].size = 1
  BY <1>11 DEF ReaderFaulted, WriterFaulted, Reader, Shape, Books, Weights
<1>13. mqueue' \in Queues BY <1>gains DEF Gains
<1>14. dispatcher' \notin {"handle", "dispatch"} => current'.size = 0
  BY <1>9, <1>11 DEF Books, Weights, Signalled
<1>15. Weights' BY <1>11, <1>12, <1>13, <1>14 DEF Books, Weights, Queues, Honest, Free
<1>16. /\ throttle \in Nat /\ throttle <= Limit /\ stop \in BOOLEAN /\ current.size \in {0, 1}
       /\ Limit \in Nat
  BY LimitIsPositive DEF Books, Weights, Honest, Item
<1>17. throttle' = throttle + (-n) /\ throttle + (-n) <= Limit BY <1>6, <1>7, <1>16
<1>18. 0 + (-n) + current'.size - current.size = -n BY <1>6, <1>11, <1>16
<1>19. -n \in Int BY <1>6
<1> QED BY <1>gains, <1>10, <1>11, <1>15, <1>16, <1>17, <1>18, <1>19, Balanced

(* The dispatch thread takes an item with its reservation.                 *)
LEMMA DispatcherTakes == ASSUME Books, Dequeue, UNCHANGED <<reader, frame>> PROVE Books'
<1>1. PICK q \in NonEmpty : current' = Head(mqueue[q]) /\ mqueue' = [mqueue EXCEPT ![q] = Tail(@)]
  BY DEF Dequeue
<1>2. PICK f, g : f = mqueue /\ g = mqueue' OBVIOUS
<1>3. /\ f \in Queues /\ IsFiniteSet(Sized(f, Classes))
      /\ q \in Priorities \X Classes /\ f[q] # <<>> /\ g = Taken(f, q)
  BY <1>1, <1>2 DEF Books, Weights, NonEmpty, Taken
<1>4. /\ g \in Queues /\ Head(f[q]) \in Honest /\ IsFiniteSet(Sized(g, Classes))
      /\ Cardinality(Sized(f, Classes)) = Cardinality(Sized(g, Classes)) + Head(f[q]).size
  BY <1>3, SizedTaken
<1>5. PICK n : n = Head(f[q]).size OBVIOUS
<1>6. n \in {0, 1} /\ current'.size = n /\ current' \in Honest
  BY <1>1, <1>2, <1>4, <1>5 DEF Honest, Item
<1>7. Cardinality(Sized(g, Classes)) \in Nat BY <1>4, FS_CardinalityType
<1>8. Gains(-n) BY <1>2, <1>4, <1>5, <1>6, <1>7 DEF Gains
<1>9. /\ dispatcher = "loop" /\ dispatcher' = "handle"
      /\ UNCHANGED <<in_hand, local_messages, throttle, stop>>
  BY DEF Dequeue, localVars
<1>10. current.size = 0 BY <1>9 DEF Books, Weights
<1>11. Weights' BY <1>2, <1>4, <1>6, <1>9 DEF Books, Weights, Queues, Honest, Free
<1>12. IsFiniteSet(Busy') /\ Cardinality(Busy') = Cardinality(Busy) + 0 BY BusySame
<1>13. throttle \in Nat /\ throttle <= Limit /\ stop \in BOOLEAN BY DEF Books
<1>14. throttle' = throttle + 0 /\ throttle + 0 <= Limit BY <1>9, <1>13
<1>15. 0 + (-n) + current'.size - current.size = 0 /\ -n \in Int BY <1>6, <1>10
<1> QED BY <1>8, <1>9, <1>11, <1>12, <1>13, <1>14, <1>15, Balanced

(* It has handled the item: a message dropped after the stop keeps what    *)
(* it reserved, an event has reserved nothing.                             *)
LEMMA DispatcherHandles ==
  ASSUME Books, DispatchThread, ~Dequeue, UNCHANGED <<reader, frame>>
  PROVE  Books'
<1>1. Gains(0)
  BY NoneGained DEF DispatchThread, DispatcherSleeps, DispatcherExits, HandleCode, DropMessage,
     BeginDispatch, EndDispatch
<1>2. UNCHANGED <<mqueue, in_hand, local_messages, stop>>
  BY DEF DispatchThread, DispatcherSleeps, DispatcherExits, HandleCode, DropMessage,
     BeginDispatch, EndDispatch, localVars
<1>3. /\ throttle \in Nat /\ throttle <= Limit /\ stop \in BOOLEAN /\ current.size \in {0, 1}
      /\ Limit \in Nat
  BY LimitIsPositive DEF Books, Weights, Honest, Item
<1>4. IsFiniteSet(Busy') /\ Cardinality(Busy') = Cardinality(Busy) + 0 BY BusySame
<1>5. Nothing \in Honest /\ Nothing.size = 0
  BY LoopbackIsNoConn DEF Nothing, Code, Honest, Item, Classes, Events
<1>6. ASSUME current' \in Honest, dispatcher' \notin {"handle", "dispatch"} => current'.size = 0
      PROVE  Weights'
  BY <1>2, <1>6 DEF Books, Weights, Queues, Honest, Free
<1>7. CASE DispatcherSleeps \/ DispatcherExits \/ BeginDispatch
  <2>1. throttle' = throttle + 0 /\ throttle + 0 <= Limit /\ current' = current
    BY <1>3, <1>7 DEF DispatcherSleeps, DispatcherExits, BeginDispatch
  <2>2. current' \in Honest BY <2>1 DEF Books, Weights
  <2>3. dispatcher' \notin {"handle", "dispatch"} => current'.size = 0
    BY <1>7, <2>1 DEF DispatcherSleeps, DispatcherExits, BeginDispatch, Books, Weights
  <2>4. 0 + 0 + current'.size - current.size = 0 BY <1>3, <2>1
  <2> QED BY <1>1, <1>2, <1>3, <1>4, <1>6, <2>1, <2>2, <2>3, <2>4, Balanced
<1>8. CASE HandleCode
  <2>1. throttle' = throttle + 0 /\ throttle + 0 <= Limit /\ current' = Nothing
    BY <1>3, <1>8 DEF HandleCode
  <2>2. current.size = 0 BY <1>8 DEF HandleCode, Books, Weights, Honest
  <2>3. 0 + 0 + current'.size - current.size = 0 BY <1>5, <2>1, <2>2
  <2> QED BY <1>1, <1>2, <1>3, <1>4, <1>5, <1>6, <2>1, <2>3, Balanced
<1>9. CASE DropMessage
  <2>1. throttle' = throttle + 0 /\ throttle + 0 <= Limit /\ current' = Nothing /\ stop'
    BY <1>3, <1>9 DEF DropMessage
  <2>2. 0 + 0 + current'.size - current.size <= 0 BY <1>3, <1>5, <2>1
  <2> QED BY <1>1, <1>2, <1>3, <1>4, <1>5, <1>6, <2>1, <2>2, Balanced
<1>10. CASE EndDispatch
  <2>1. throttle' = throttle - current.size /\ current' = Nothing
    BY <1>10 DEF EndDispatch, DispatchSize
  <2>2. PICK d \in Int : d = -current.size BY <1>3
  <2>3. throttle' = throttle + d /\ throttle + d <= Limit BY <1>3, <2>1, <2>2
  <2>4. 0 + 0 + current'.size - current.size = d BY <1>3, <1>5, <2>1, <2>2
  <2> QED BY <1>1, <1>2, <1>3, <1>4, <1>5, <1>6, <2>1, <2>3, <2>4, Balanced
<1> QED BY <1>7, <1>8, <1>9, <1>10 DEF DispatchThread

(* The process's messages to itself reserve nothing.                       *)
LEMMA LocalIsFree ==
  ASSUME Books, LocalThread, UNCHANGED <<reader, frame>>
  PROVE  Books'
<1>1. current' = current /\ stop' = stop /\ throttle' = throttle
  BY DEF LocalThread, LocalTakes, LocalSleeps, LocalExits, LocalDelivers, dispatchVars
<1>2. /\ throttle \in Nat /\ throttle <= Limit /\ stop \in BOOLEAN /\ current.size \in {0, 1}
      /\ Limit \in Nat
  BY LimitIsPositive DEF Books, Weights, Honest, Item
<1>3. IsFiniteSet(Busy') /\ Cardinality(Busy') = Cardinality(Busy) + 0 BY BusySame
<1>4. Nothing \in Free
  BY LoopbackIsNoConn DEF Nothing, Code, Free, Item, Classes, Events
<1>5. Gains(0) /\ (dispatcher' = dispatcher \/ dispatcher' = Signalled(dispatcher))
  <2>1. CASE LocalTakes \/ LocalSleeps \/ LocalExits
    BY <2>1, NoneGained DEF LocalTakes, LocalSleeps, LocalExits, dispatchVars
  <2>2. CASE LocalDelivers /\ IsFast(in_hand)
    BY <2>2, NoneGained DEF LocalDelivers
  <2>3. CASE LocalDelivers /\ ~IsFast(in_hand)
    <3>1. Enqueue(in_hand, Loopback) /\ dispatcher' = Signalled(dispatcher)
      BY <2>3 DEF LocalDelivers, Enqueue
    <3>2. in_hand \in Honest /\ in_hand.size = 0 /\ Loopback \in Classes
      BY DEF Books, Weights, Free, Honest, Classes
    <3>3. Gains(in_hand.size) BY <3>1, <3>2, ItemGained
    <3> QED BY <3>1, <3>2, <3>3
  <2> QED BY <2>1, <2>2, <2>3 DEF LocalThread
<1>6. in_hand' \in Free /\ local_messages' \in Seq(Free)
  <2>1. in_hand \in Free /\ local_messages \in Seq(Free) BY DEF Books, Weights
  <2>2. CASE LocalTakes BY <2>1, <2>2, HasTail DEF LocalTakes
  <2>3. CASE LocalSleeps \/ LocalExits BY <2>1, <2>3 DEF LocalSleeps, LocalExits
  <2>4. CASE LocalDelivers BY <1>4, <2>1, <2>4 DEF LocalDelivers
  <2> QED BY <2>2, <2>3, <2>4 DEF LocalThread
<1>7. mqueue' \in Queues BY <1>5 DEF Gains
<1>8. dispatcher' \notin {"handle", "dispatch"} => current'.size = 0
  BY <1>1, <1>5 DEF Books, Weights, Signalled
<1>9. Weights' BY <1>1, <1>6, <1>7, <1>8 DEF Books, Weights, Queues, Honest, Free
<1>10. throttle' = throttle + 0 /\ throttle + 0 <= Limit BY <1>1, <1>2
<1>11. 0 + 0 + current'.size - current.size = 0 BY <1>1, <1>2
<1> QED BY <1>1, <1>2, <1>3, <1>5, <1>9, <1>10, <1>11, Balanced

(* A message of the process to itself, or none left, or a thread told to   *)
(* stop: from then on the throttle need not go down any more.              *)
LEMMA OthersKeepBooks ==
  ASSUME Books, Working, UNCHANGED <<reader, frame>>,
         SubmitLocal \/ StopLocal \/ StopDispatch \/ DiscardLocal
  PROVE  Books'
<1>1. UNCHANGED <<mqueue, current, in_hand, throttle>>
  BY DEF SubmitLocal, LocalDelivery, StopLocal, StopDispatch, DiscardLocal, dispatchVars, localVars
<1>2. /\ throttle \in Nat /\ throttle <= Limit /\ stop \in BOOLEAN /\ current.size \in {0, 1}
      /\ Limit \in Nat
  BY LimitIsPositive DEF Books, Weights, Honest, Item
<1>3. IsFiniteSet(Busy') /\ Cardinality(Busy') = Cardinality(Busy) + 0 BY BusySame
<1>4. Gains(0) BY <1>1, NoneGained
<1>5. local_messages' \in Seq(Free)
  <2>1. local_messages \in Seq(Free) BY DEF Books, Weights
  <2>2. CASE SubmitLocal
    <3>1. PICK k \in Kinds : LocalDelivery(Msg(Loopback, sent_local + 1, k, 0))
      BY <2>2 DEF SubmitLocal
    <3>2. sent_local + 1 \in Nat BY DEF Working
    <3>3. Msg(Loopback, sent_local + 1, k, 0) \in Free
      BY <3>2 DEF Msg, Free, Item, Classes
    <3>4. local_messages' = Append(local_messages, Msg(Loopback, sent_local + 1, k, 0))
      BY <3>1 DEF LocalDelivery
    <3> QED BY <2>1, <3>3, <3>4, HasAppended
  <2>3. CASE StopLocal \/ StopDispatch BY <2>1, <2>3 DEF StopLocal, StopDispatch, localVars
  <2>4. CASE DiscardLocal BY <2>4 DEF DiscardLocal
  <2> QED BY <2>2, <2>3, <2>4
<1>6. dispatcher' = dispatcher \/ dispatcher' = Signalled(dispatcher)
  BY DEF SubmitLocal, LocalDelivery, StopLocal, StopDispatch, StopSignal, DiscardLocal, dispatchVars
<1>7. dispatcher' \notin {"handle", "dispatch"} => current'.size = 0
  BY <1>1, <1>6 DEF Books, Weights, Signalled
<1>8. Weights' BY <1>1, <1>5, <1>7 DEF Books, Weights, Queues, Honest, Free
<1>9. stop' \in BOOLEAN /\ (stop => stop')
  BY <1>2 DEF SubmitLocal, LocalDelivery, StopLocal, StopDispatch, DiscardLocal
<1>10. throttle' = throttle + 0 /\ throttle + 0 <= Limit BY <1>1, <1>2
<1>11. 0 + 0 + current'.size - current.size = 0 BY <1>1, <1>2
<1> QED BY <1>2, <1>3, <1>4, <1>8, <1>9, <1>10, <1>11, Balanced
-----------------------------------------------------------------------------
(* The initial state, and every step.                                      *)
LEMMA BooksInit == MessengerInit => Books
<1> SUFFICES ASSUME MessengerInit PROVE Books
  OBVIOUS
<1>1. Nothing \in Honest /\ Nothing \in Free /\ Nothing.size = 0
  BY LoopbackIsNoConn DEF Nothing, Code, Honest, Free, Item, Classes, Events
<1>2. mqueue \in Queues /\ Sized(mqueue, Classes) = {}
  BY DEF MessengerInit, QueueInit, Queues, Sized
<1>3. Weights BY <1>1, <1>2 DEF MessengerInit, QueueInit, Weights
<1>4. Busy = {} BY DEF MessengerInit, Busy
<1>5. /\ IsFiniteSet(Busy) /\ Cardinality(Busy) = 0
      /\ IsFiniteSet(Sized(mqueue, Classes)) /\ Cardinality(Sized(mqueue, Classes)) = 0
  BY <1>2, <1>4, FS_EmptySet
<1>6. current.size = 0 BY <1>1 DEF MessengerInit, QueueInit
<1>7. Total = 0 BY <1>5, <1>6 DEF Total
<1>8. throttle = 0 /\ stop = FALSE /\ 0 <= Limit
  BY LimitIsPositive DEF MessengerInit, QueueInit
<1> QED BY <1>3, <1>5, <1>7, <1>8 DEF Books

(* Every step.                                                             *)
LEMMA BooksKept == ASSUME Resets, Books, [Next]_vars PROVE Books'
<1>1. Shape /\ Working BY DEF Resets, Control, Contents
<1>2. ASSUME UNCHANGED <<queueVars, reader, frame>> PROVE Books'
  BY <1>2, BooksSame DEF queueVars, dispatchVars, localVars
<1>3. ASSUME NEW c \in Conn, AddAcceptPipe(c) \/ AcceptStep(c) PROVE Books'
  <2>1. CASE AcceptReplies(c)
    BY <1>1, <2>1, IdleReader DEF AcceptReplies, AfterTest, Away, Event, queueVars,
       dispatchVars, localVars
  <2>2. CASE AddAcceptPipe(c)
    <3>1. reader[c] = "off" BY <2>2 DEF AddAcceptPipe, Resets, Control, ThreadsOwned
    <3> QED BY <1>1, <2>2, <3>1, IdleReader DEF AddAcceptPipe, Away, Event, queueVars,
       dispatchVars, localVars
  <2>3. CASE AcceptAnnounces(c) \/ AcceptRegisters(c)
    BY <1>1, <2>3, IdleReader DEF AcceptAnnounces, AcceptRegisters, Away, Event, Events,
       queueVars, dispatchVars, localVars
  <2>4. CASE AcceptRefuses(c) \/ AcceptFails(c)
    <3>1. Event(c) BY <2>4, ResetIsEvent DEF AcceptRefuses, AcceptFails, Event
    <3> QED BY <1>1, <2>4, <3>1, IdleReader DEF AcceptRefuses, AcceptFails, Away, localVars
  <2> QED BY <1>3, <2>1, <2>2, <2>3, <2>4 DEF AcceptStep
<1>4. ASSUME NEW c \in Conn, ReaderFault(c)
      PROVE  Event(c) /\ \E pc \in {"done", "faulting", "sleep"} : Reader(c, pc)
  <2>1. Event(c)
    BY <1>4, ResetIsEvent DEF ReaderFault, FaultOnClosed, FaultOnLossy, FaultOnLossless, Event
  <2> QED BY <1>4, <2>1 DEF ReaderFault
<1>5. ASSUME NEW c \in Conn, ReadTagFails(c) PROVE Books'
  <2>1. PICK pc \in {"done", "faulting", "sleep"} : Reader(c, pc) BY <1>4, <1>5 DEF ReadTagFails
  <2>2. Event(c) BY <1>4, <1>5 DEF ReadTagFails
  <2> QED BY <1>1, <1>5, <2>1, <2>2, IdleReader DEF ReadTagFails, Away, localVars
<1>6. ASSUME NEW c \in Conn, ReadBodyFails(c) PROVE Books'
  <2>1. PICK pc \in {"done", "faulting", "sleep"} : Reader(c, pc) BY <1>4, <1>6 DEF ReadBodyFails
  <2>2. Event(c) BY <1>4, <1>6 DEF ReadBodyFails
  <2> QED BY <1>1, <1>6, <2>1, <2>2, ReaderGivesBack DEF ReadBodyFails, Away, localVars
<1>7. ASSUME NEW c \in Conn, DropRead(c) \/ EndFast(c) PROVE Books'
  <2>1. PICK pc : pc = AfterTest(state[c]) OBVIOUS
  <2>2. Reader(c, pc) /\ Away(pc) /\ reader[c] \in {"body", "fast", "in_fast"} /\ Event(c)
    BY <1>7, <2>1 DEF DropRead, EndFast, AfterTest, Away, Event, dispatchVars
  <2>3. throttle' = throttle - 1 /\ frame' = [frame EXCEPT ![c] = Nothing]
    BY <1>7 DEF DropRead, EndFast, DispatchSize, Books, Weights
  <2> QED BY <1>1, <1>7, <2>2, <2>3, ReaderGivesBack DEF DropRead, EndFast, dispatchVars, localVars
<1>8. ASSUME NEW c \in Conn, ReaderExits(c) PROVE Books'
  BY <1>1, <1>8, IdleReader DEF ReaderExits, Away, Event, queueVars, dispatchVars, localVars
<1>9. ASSUME NEW c \in Conn, MarkDown(c) PROVE Books'
  BY <1>9, NoReader, ResetIsEvent DEF MarkDown, localVars
<1>10. ASSUME NEW c \in Conn, WriteFails(c) PROVE Books'
  <2>1. Event(c)
    BY <1>10, ResetIsEvent DEF WriteFails, FaultOnClosed, FaultOnLossy, FaultOnLossless, Event
  <2> QED BY <1>10, <2>1, NoReader DEF WriteFails, localVars
<1>11. ASSUME NEW c \in Conn, WriterExits(c) \/ QueueReap(c) \/ WaitStopsPipe(c) PROVE Books'
  BY <1>2, <1>11 DEF WriterExits, QueueReap, WaitStopsPipe, pipeVars
<1>12. CASE DispatchThread /\ UNCHANGED restVars
  BY <1>12, DispatcherTakes, DispatcherHandles DEF restVars, pipeVars
<1>13. CASE LocalThread /\ UNCHANGED restVars BY <1>13, LocalIsFree DEF restVars, pipeVars
<1>14. CASE SubmitLocal \/ WaitStopsLocal \/ WaitStopsDispatch \/ WaitJoins
  BY <1>1, <1>14, OthersKeepBooks
     DEF SubmitLocal, WaitStopsLocal, WaitStopsDispatch, WaitJoins, pipeVars
<1>15. CASE ReaperReaps \/ ReaperExits \/ BeginShutdown \/ EndShutdown \/ WaitReaps
  BY <1>2, <1>15 DEF ReaperReaps, WaitReaps, Reap, ReaperExits, BeginShutdown, EndShutdown, pipeVars
<1>16. CASE \/ WaitStopsAccepter \/ WaitStopsReaper \/ WaitTakesLock \/ WaitClearsPipe
            \/ WaitDropsLock \/ WaitReturns
  BY <1>2, <1>16 DEF WaitStopsAccepter, WaitStopsReaper, WaitTakesLock, WaitClearsPipe,
     WaitDropsLock, WaitReturns, pipeVars
<1>17. CASE UNCHANGED vars BY <1>2, <1>17 DEF vars, pipeVars
<1> QED BY <1>1, <1>3, <1>5, <1>6, <1>7, <1>8, <1>9, <1>10, <1>11, <1>12, <1>13, <1>14, <1>15, <1>16,
        <1>17, ReaderGoesOn, ReaderQueues, FaultReleases
     DEF Next, PipeStep, ReaderStep, WaitStep
-----------------------------------------------------------------------------
(* The other variables, of which the invariants above say nothing.         *)
Types ==
  /\ received \in [Conn -> 0..MaxMsgs] /\ sent_local \in 0..MaxLocal
  /\ accepting_pipes \subseteq pipes /\ pipes \subseteq Conn
  /\ msgr_lock \in Conn \cup {"free", "shutdown", "wait"}
  /\ accepting \in BOOLEAN /\ reaper \in {"run", "exit"} /\ reaper_stop \in BOOLEAN
  /\ app \in {"up", "marking", "stopped"} /\ closing \in Conn \cup {NoConn}
  /\ waiter \in {"wait", "local", "dispatch", "join", "reaper", "join_reaper", "close",
                 "reap", "done"}
  /\ stop_local \in BOOLEAN
  /\ dispatcher \in {"loop", "wait", "handle", "dispatch", "exit"}
  /\ deliverer \in {"loop", "wait", "deliver", "exit"}

(* They hold at first.                                                     *)
LEMMA TypesInit == MessengerInit => Types
<1>1. 0 \in 0..MaxMsgs /\ 0 \in 0..MaxLocal BY BoundsAreNat
<1> SUFFICES ASSUME MessengerInit PROVE Types
  OBVIOUS
<1>2. received = [c \in Conn |-> 0] /\ sent_local = 0 BY DEF MessengerInit
<1>3. received \in [Conn -> 0..MaxMsgs] /\ sent_local \in 0..MaxLocal BY <1>1, <1>2
<1> QED BY <1>3 DEF MessengerInit, QueueInit, Types, NoConn

(* What the threads of the queue do.                                       *)
LEMMA SignalTyped ==
  ASSUME Types
  PROVE  /\ Signalled(dispatcher) \in {"loop", "wait", "handle", "dispatch", "exit"}
         /\ Signalled(deliverer) \in {"loop", "wait", "deliver", "exit"}
BY DEF Types, Signalled

(* The dispatch thread and the local thread.                               *)
LEMMA QueueTyped ==
  ASSUME Types, UNCHANGED restVars, DispatchThread \/ LocalThread
  PROVE  Types'
<1>1. UNCHANGED <<received, accepting_pipes, pipes, msgr_lock, accepting, reaper, reaper_stop, app,
                  closing, waiter, sent_local>>
  BY DEF restVars, pipeVars, tableVars, stopVars
<1>2. /\ dispatcher' \in {"loop", "wait", "handle", "dispatch", "exit"}
      /\ deliverer' \in {"loop", "wait", "deliver", "exit"} /\ stop_local' = stop_local
  <2>1. CASE DispatchThread
    BY <2>1 DEF Types, DispatchThread, Dequeue, DispatcherSleeps, DispatcherExits, HandleCode,
       DropMessage, BeginDispatch, EndDispatch, localVars
  <2>2. CASE LocalTakes \/ LocalSleeps \/ LocalExits
    BY <2>2 DEF Types, LocalTakes, LocalSleeps, LocalExits, dispatchVars
  <2>3. CASE LocalDelivers
    BY <2>3, SignalTyped DEF Types, LocalDelivers, Enqueue
  <2> QED BY <2>1, <2>2, <2>3 DEF LocalThread
<1> QED BY <1>1, <1>2 DEF Types, NoConn

(* Events signal the dispatch thread.                                      *)
LEMMA EventTyped ==
  ASSUME Types, NEW c \in Conn, Event(c)
  PROVE  dispatcher' \in {"loop", "wait", "handle", "dispatch", "exit"}
BY SignalTyped DEF Types, Event, QueueCode, Enqueue

(* Every step.                                                             *)
LEMMA TypesKept == ASSUME Resets, Types, [Next]_vars PROVE Types'
<1> DEFINE dispatched == dispatcher' \in {"loop", "wait", "handle", "dispatch", "exit"}
<1>1. pipe_reap_queue \in Seq(Conn) BY DEF Resets, Control, Shape
<1>2. ASSUME dispatched, UNCHANGED <<received, sent_local, accepting_pipes, pipes, msgr_lock,
                                     stopVars, stop_local, deliverer>>
      PROVE  Types'
  BY <1>2 DEF Types, stopVars, NoConn
<1>3. ASSUME UNCHANGED <<received, sent_local, accepting_pipes, pipes, msgr_lock, stopVars,
                         stop_local, deliverer, dispatcher>>
      PROVE  Types'
  BY <1>3 DEF Types, stopVars, NoConn
<1>4. ASSUME NEW c \in Conn, AddAcceptPipe(c) PROVE Types'
  BY <1>4 DEF AddAcceptPipe, Types, NoConn, queueVars, dispatchVars, localVars, stopVars
<1>5. ASSUME NEW c \in Conn, AcceptAnnounces(c) PROVE Types'
  <2>1. dispatched BY <1>5, EventTyped DEF AcceptAnnounces, Event, Events
  <2> QED BY <1>5, <2>1 DEF AcceptAnnounces, Types, NoConn, localVars, tableVars, stopVars
<1>6. ASSUME NEW c \in Conn, AcceptRefuses(c) PROVE Types'
  <2>1. dispatched BY <1>6, ResetIsEvent, EventTyped DEF AcceptRefuses
  <2> QED BY <1>6, <2>1 DEF AcceptRefuses, Types, NoConn, localVars, tableVars, stopVars
<1>7. ASSUME NEW c \in Conn, AcceptRegisters(c) PROVE Types'
  BY <1>7 DEF AcceptRegisters, Types, NoConn, queueVars, dispatchVars, localVars, stopVars
<1>8. ASSUME NEW c \in Conn, AcceptReplies(c) PROVE Types'
  BY <1>3, <1>8 DEF AcceptReplies, queueVars, dispatchVars, localVars, tableVars
<1>9. ASSUME NEW c \in Conn, AcceptFails(c) PROVE Types'
  <2>1. Event(c) BY <1>9, ResetIsEvent DEF AcceptFails, Event
  <2>2. dispatched BY <2>1, EventTyped
  <2> QED BY <1>2, <1>9, <2>2 DEF AcceptFails, localVars, tableVars
<1>10. ASSUME NEW c \in Conn, ReaderFaulted(c) \/ WriterFaulted(c) PROVE Types'
  <2>1. FaultDiscards(c) BY <1>10 DEF ReaderFaulted, WriterFaulted
  <2>2. dispatched BY <2>1, SignalTyped DEF FaultDiscards, Types
  <2> QED BY <1>2, <2>1, <2>2 DEF FaultDiscards, localVars
<1>11. ASSUME NEW c \in Conn, ReadTagFails(c) \/ ReadBodyFails(c) \/ WriteFails(c) PROVE Types'
  <2>1. Event(c)
    BY <1>11, ResetIsEvent DEF ReadTagFails, ReadBodyFails, WriteFails, ReaderFault, FaultOnClosed,
       FaultOnLossy, FaultOnLossless, Event
  <2>2. dispatched BY <2>1, EventTyped
  <2> QED BY <1>2, <1>11, <2>2 DEF ReadTagFails, ReadBodyFails, WriteFails, localVars, tableVars
<1>12. ASSUME NEW c \in Conn, ReadHeader(c) PROVE Types'
  <2>1. /\ received[c] \in 0..MaxMsgs /\ received[c] < MaxMsgs
        /\ received' = [received EXCEPT ![c] = @ + 1]
    BY <1>12 DEF ReadHeader, Types
  <2>2. received[c] + 1 \in 0..MaxMsgs BY <2>1, BoundsAreNat
  <2>3. received' \in [Conn -> 0..MaxMsgs] BY <2>1, <2>2 DEF Types
  <2> QED BY <1>12, <2>3
          DEF ReadHeader, Types, NoConn, queueVars, dispatchVars, localVars, tableVars, stopVars
<1>13. ASSUME NEW c \in Conn, QueueRead(c) PROVE Types'
  <2>1. dispatched BY <1>13, SignalTyped DEF QueueRead, Enqueue
  <2> QED BY <1>2, <1>13, <2>1 DEF QueueRead, localVars, tableVars
<1>14. ASSUME NEW c \in Conn, \/ TakeThrottle(c) \/ DropRead(c) \/ UnlockForFast(c) \/ BeginFast(c)
                              \/ EndFast(c) \/ ReaderExits(c) \/ WriterExits(c) \/ QueueReap(c)
       PROVE  Types'
  BY <1>3, <1>14 DEF TakeThrottle, DropRead, UnlockForFast, BeginFast, EndFast, ReaderExits,
     WriterExits, QueueReap, pipeVars, queueVars, dispatchVars, localVars, tableVars
<1>15. ASSUME NEW c \in Conn, MarkDown(c) PROVE Types'
  <2>1. dispatched BY <1>15, ResetIsEvent, EventTyped DEF MarkDown
  <2> QED BY <1>15, <2>1 DEF MarkDown, Types, NoConn, localVars, stopVars
<1>16. ASSUME NEW c \in Conn, WaitStopsPipe(c) PROVE Types'
  BY <1>16 DEF WaitStopsPipe, Types, NoConn, queueVars, dispatchVars, localVars
<1>17. CASE ReaperReaps \/ WaitReaps
  BY <1>17 DEF ReaperReaps, WaitReaps, Reap, Types, NoConn, queueVars, dispatchVars, localVars
<1>18. CASE ReaperExits \/ BeginShutdown \/ EndShutdown
  BY <1>18 DEF ReaperExits, BeginShutdown, EndShutdown, Types, NoConn, queueVars, dispatchVars,
     localVars, pipeVars, tableVars
<1>19. CASE SubmitLocal
  <2>1. sent_local \in 0..MaxLocal /\ sent_local < MaxLocal /\ sent_local' = sent_local + 1
    BY <1>19 DEF SubmitLocal, Types
  <2>2. sent_local' \in 0..MaxLocal BY <2>1, BoundsAreNat
  <2>3. deliverer' \in {"loop", "wait", "deliver", "exit"} /\ UNCHANGED <<stop_local, dispatcher>>
    BY <1>19, SignalTyped DEF SubmitLocal, LocalDelivery, dispatchVars, Types
  <2> QED BY <1>19, <2>2, <2>3 DEF SubmitLocal, Types, NoConn, pipeVars, tableVars, stopVars
<1>20. CASE WaitStopsAccepter \/ WaitStopsReaper \/ WaitTakesLock \/ WaitDropsLock \/ WaitReturns
  <2>1. waiter' \in {"local", "join_reaper", "close", "reap", "done"}
    BY <1>20 DEF WaitStopsAccepter, WaitStopsReaper, WaitTakesLock, WaitDropsLock, WaitReturns,
       WaitFor
  <2>2. accepting' \in BOOLEAN /\ reaper_stop' \in BOOLEAN
    BY <1>20 DEF Types, WaitStopsAccepter, WaitStopsReaper, WaitTakesLock, WaitDropsLock,
       WaitReturns
  <2>3. msgr_lock' \in Conn \cup {"free", "shutdown", "wait"}
    BY <1>20 DEF Types, WaitStopsAccepter, WaitStopsReaper, WaitTakesLock, WaitDropsLock,
       WaitReturns
  <2>4. UNCHANGED <<received, sent_local, accepting_pipes, pipes, reaper, app, closing, stop_local,
                    dispatcher, deliverer>>
    BY <1>20 DEF WaitStopsAccepter, WaitStopsReaper, WaitTakesLock, WaitDropsLock, WaitReturns,
       queueVars, dispatchVars, localVars, pipeVars, tableVars
  <2> QED BY <2>1, <2>2, <2>3, <2>4 DEF Types, NoConn
<1>21. CASE WaitStopsLocal \/ WaitStopsDispatch \/ WaitJoins
  <2>1. waiter' \in {"dispatch", "join", "reaper"} /\ stop_local' \in BOOLEAN
    BY <1>21 DEF WaitStopsLocal, WaitStopsDispatch, WaitJoins, WaitFor, StopLocal, StopDispatch,
       DiscardLocal, localVars, Types
  <2>2. dispatched /\ deliverer' \in {"loop", "wait", "deliver", "exit"}
    BY <1>21, SignalTyped DEF WaitStopsLocal, WaitStopsDispatch, WaitJoins, StopLocal, StopDispatch,
       StopSignal, DiscardLocal, dispatchVars, localVars, Types
  <2>3. UNCHANGED <<received, sent_local, accepting_pipes, pipes, msgr_lock, accepting, reaper,
                    reaper_stop, app, closing>>
    BY <1>21 DEF WaitStopsLocal, WaitStopsDispatch, WaitJoins, pipeVars, tableVars
  <2> QED BY <2>1, <2>2, <2>3 DEF Types, NoConn
<1>22. CASE WaitClearsPipe
  BY <1>22 DEF WaitClearsPipe, Types, NoConn, queueVars, dispatchVars, localVars, tableVars
<1>23. CASE UNCHANGED vars
  BY <1>3, <1>23 DEF vars, queueVars, dispatchVars, localVars, pipeVars, tableVars
<1> QED BY <1>4, <1>5, <1>6, <1>7, <1>8, <1>9, <1>10, <1>11, <1>12, <1>13, <1>14, <1>15, <1>16,
           <1>17, <1>18, <1>19, <1>20, <1>21, <1>22, <1>23, QueueTyped
        DEF Next, PipeStep, AcceptStep, ReaderStep, WaitStep
-----------------------------------------------------------------------------
(* The inductive invariant of the whole messenger.                         *)
Whole == Resets /\ Books /\ Types

(* It holds in every reachable state.                                      *)
LEMMA WholeInvariant == Spec => []Whole
<1>1. MessengerInit => Whole BY ControlInit, ResetsInit, BooksInit, TypesInit DEF Whole, Resets
<1>2. Whole /\ [Next]_vars => Whole' BY ResetsKept, BooksKept, TypesKept DEF Whole
<1> QED BY <1>1, <1>2, PTL DEF Spec

(* Its parts give the types of all variables, and the throttle its limit.  *)
LEMMA WholeTypes == Whole => TypeOK
<1> SUFFICES ASSUME Whole PROVE TypeOK
  OBVIOUS
<1>1. Shape /\ CutLoose /\ Tables /\ Contents /\ OneFaults /\ Books /\ Types
  BY DEF Whole, Resets, Control
<1>2. Honest \subseteq Item /\ Free \subseteq Item BY DEF Honest, Free
<1>3. mqueue \in [Priorities \X Classes -> Seq(Item)]
  <2>1. mqueue \in [Priorities \X Classes -> Seq(Honest)] BY <1>1 DEF Books, Weights, Queues
  <2>2. \A q \in Priorities \X Classes : mqueue[q] \in Seq(Item) BY <1>2, <2>1
  <2> QED BY <2>1, <2>2
<1>4. seen \in [Classes -> Seq(Item)]
  <2>1. \A c \in Classes : seen[c] \in Seq(Item)
    <3>1. \A c \in Classes : SeenBy(c) \subseteq Item BY DEF SeenBy
    <3>2. \A c \in Classes : seen[c] \in Seq(SeenBy(c)) BY <1>1 DEF Contents, Reported
    <3> QED BY <3>1, <3>2
  <2>2. seen = [c \in Classes |-> seen[c]] BY <1>1 DEF Contents, Reported
  <2> QED BY <2>1, <2>2
<1>5. throttle \in 0..Limit BY <1>1, LimitIsPositive DEF Books
<1>6. QueueTypeOK
  BY <1>1, <1>2, <1>3, <1>4, <1>5 DEF QueueTypeOK, Books, Weights, Types
<1>7. frame \in [Conn -> Item] BY <1>1, <1>2 DEF Books, Weights
<1> QED BY <1>1, <1>6, <1>7
        DEF TypeOK, Shape, States, ReaderPlaces, WriterPlaces, OneFaults, Tables, Types
-----------------------------------------------------------------------------
(* Every variable of the messenger stays in its type; in particular the    *)
(* throttle never goes below zero or over its limit.                       *)
THEOREM MessengerTypes == Spec => []TypeOK
BY WholeInvariant, WholeTypes, PTL

(* Pipe.cc:2092, DispatchQueue.cc:132: dispatch_throttler.get() by a reader *)
(* is answered by one put(): by the reader when the read fails, the Pipe   *)
(* was closed meanwhile or fast dispatch is over, by the dispatch thread,  *)
(* or by discard_queue() for all that is queued.  While the queue runs     *)
(* none is lost and none is given back twice, whatever the readers,        *)
(* writers, the dispatch thread and the shutdown do to each other.         *)
THEOREM ThrottleBalances == Spec => []ThrottleAccounted
<1>1. Whole => ThrottleAccounted
  <2> SUFFICES ASSUME Whole PROVE ThrottleAccounted
    OBVIOUS
  <2>1. Books BY DEF Whole
  <2>2. mqueue \in [Priorities \X Classes -> Seq(Honest)] BY <2>1 DEF Books, Weights, Queues
  <2>3. Reservations(Classes) = Cardinality(Sized(mqueue, Classes))
    BY <2>2, SizedIsQueued DEF Queues
  <2>4. Held = Total BY <2>3 DEF Held, Total, Busy
  <2> QED BY <2>1, <2>4 DEF ThrottleAccounted, Books
<1> QED BY <1>1, WholeInvariant, PTL
-----------------------------------------------------------------------------
(* The messages among a sequence of items, their numbers, and their order. *)
Ordered(p)    == {m \in Item : m.what = "msg" /\ ~IsFast(m) /\ Priority(m) = p}
Picked(s, T)  == {i \in DOMAIN s : s[i] \in T}
Numbers(s, T) == {s[i].n : i \in Picked(s, T)}
Rising(s, T)  == \A i, j \in Picked(s, T) : i < j => s[i].n < s[j].n
Before(A, B)  == \A a \in A : \A b \in B : a < b

(* A queue holds messages of its class and priority, and events; the       *)
(* dispatch thread has none that was for fast dispatch.                    *)
Slot(q) == {m \in Item : m.what = "msg" => m.con = q[2] /\ m \in Ordered(q[1])}
Filed   == \A q \in Priorities \X Classes : mqueue[q] \in Seq(Slot(q))
InHand  == dispatcher = "handle" /\ current.what = "msg" => ~IsFast(current)

(* Where messages come from: a reader has the last one its peer sent, the  *)
(* local thread takes the first of a list that rises.                      *)
Holding(c) == reader[c] \in {"throttle", "body"}
FromPeers ==
  \A c \in Conn :
    /\ Holding(c) => frame[c].what = "msg" /\ frame[c].con = c /\ frame[c].n <= received[c]
    /\ reader[c] = "fast" => IsFast(frame[c])
LocalItem == {m \in Item : m.what = "msg" /\ m.con = Loopback /\ m.n <= sent_local}
FromLocal ==
  /\ local_messages \in Seq(LocalItem) /\ Rising(local_messages, Item)
  /\ deliverer = "deliver" =>
       in_hand \in LocalItem /\ Before({in_hand.n}, Numbers(local_messages, Item))

(* The numbers a message queued from now on may have.                      *)
Later(n) == {k \in Nat : k > n}
Ahead(c) ==
  IF c = Loopback
  THEN (IF deliverer = "deliver" THEN {in_hand.n} ELSE {})
         \cup Numbers(local_messages, Item) \cup Later(sent_local)
  ELSE (IF Holding(c) THEN {frame[c].n} ELSE {}) \cup Later(received[c])

(* Of one class and priority: what was delivered comes before what is in   *)
(* hand, that before what is queued, and that before what is to come.      *)
Done(c, p)   == Numbers(seen[c], Ordered(p))
Hand(c, p)   == IF dispatcher = "handle" /\ current.con = c /\ current \in Ordered(p)
                THEN {current.n} ELSE {}
Queue(c, p)  == Numbers(mqueue[<<p, c>>], Ordered(p))
Line(c, p) ==
  /\ Rising(seen[c], Ordered(p)) /\ Rising(mqueue[<<p, c>>], Ordered(p))
  /\ Before(Done(c, p), Hand(c, p) \cup Queue(c, p) \cup Ahead(c))
  /\ Before(Hand(c, p), Queue(c, p) \cup Ahead(c))
  /\ Before(Queue(c, p), Ahead(c))
Lines == \A c \in Classes : \A p \in Priorities : Line(c, p)
Lined == Filed /\ InHand /\ Lines

Orderly == Resets /\ FromPeers /\ FromLocal /\ Lined

(* An item is announced when the event that reports the connection has     *)
(* been seen, is in hand, or waits.  Where a reader works on messages, and *)
(* where messages wait, their connection has been announced; a message in  *)
(* hand comes after the event has been seen.                               *)
Accept(c)    == Code("accept", c)
Announced(c) ==
  Has(seen[c], Accept(c)) \/ Has(mqueue[EventQueue], Accept(c)) \/ current = Accept(c)
Inside       == {"announced", "reply", "tag", "throttle", "body", "fast", "in_fast"}
Entered(c)   == reader[c] \in Inside \/ \E p \in Priorities : Queue(c, p) # {}
Announcing ==
  /\ dispatcher \in {"loop", "wait", "exit"} => current = Nothing
  /\ dispatcher = "dispatch" => current.what = "msg"
  /\ \A c \in Conn :
       /\ Entered(c) => Announced(c)
       /\ dispatcher = "handle" /\ current.what = "msg" /\ current.con = c
            => Has(seen[c], Accept(c))
-----------------------------------------------------------------------------
(* Sequences of items.                                                     *)
LEMMA NumbersAppended ==
  ASSUME NEW s \in Seq(Item), NEW m \in Item, NEW T
  PROVE  /\ Numbers(Append(s, m), T) = Numbers(s, T) \cup (IF m \in T THEN {m.n} ELSE {})
         /\ Rising(s, T) /\ (m \in T => Before(Numbers(s, T), {m.n}))
              => Rising(Append(s, m), T)
<1> DEFINE t == Append(s, m)
<1>1. /\ DOMAIN s = 1..Len(s) /\ Len(s) \in Nat /\ DOMAIN t = 1..(Len(s) + 1)
      /\ \A i \in 1..Len(s) : t[i] = s[i]
      /\ t[Len(s) + 1] = m
  OBVIOUS
<1>2. 1..(Len(s) + 1) = 1..Len(s) \cup {Len(s) + 1} BY <1>1
<1>3. \A i \in 1..Len(s) : i < Len(s) + 1 /\ ~(Len(s) + 1 < i) BY <1>1
<1> HIDE DEF t
<1>4. Picked(t, T) = Picked(s, T) \cup (IF m \in T THEN {Len(s) + 1} ELSE {})
  BY <1>1, <1>2 DEF Picked
<1>5. \A i \in Picked(s, T) : i \in 1..Len(s) /\ t[i] = s[i] BY <1>1 DEF Picked
<1>6. Numbers(t, T) = Numbers(s, T) \cup (IF m \in T THEN {m.n} ELSE {})
  <2>1. CASE m \in T BY <1>1, <1>4, <1>5, <2>1 DEF Numbers
  <2>2. CASE m \notin T BY <1>4, <1>5, <2>2 DEF Numbers
  <2> QED BY <2>1, <2>2
<1>7. ASSUME Rising(s, T), m \in T => Before(Numbers(s, T), {m.n}) PROVE Rising(t, T)
  <2> SUFFICES ASSUME NEW i \in Picked(t, T), NEW j \in Picked(t, T), i < j
               PROVE  t[i].n < t[j].n
    BY DEF Rising
  <2>1. i \in Picked(s, T) BY <1>1, <1>3, <1>4, <1>5
  <2>2. CASE j \in Picked(s, T) BY <1>5, <1>7, <2>1, <2>2 DEF Rising
  <2>3. CASE j \notin Picked(s, T)
    <3>1. m \in T /\ t[j] = m BY <1>1, <1>4, <2>3
    <3>2. s[i].n \in Numbers(s, T) BY <2>1 DEF Numbers
    <3> QED BY <1>5, <1>7, <2>1, <3>1, <3>2 DEF Before
  <2> QED BY <2>2, <2>3
<1> QED BY <1>6, <1>7 DEF t

(* Taking the first item.                                                  *)
LEMMA NumbersTail ==
  ASSUME NEW s \in Seq(Item), s # <<>>, NEW T
  PROVE  /\ Head(s) \in Item /\ Tail(s) \in Seq(Item)
         /\ Numbers(s, T) = Numbers(Tail(s), T) \cup (IF Head(s) \in T THEN {Head(s).n} ELSE {})
         /\ Rising(s, T) => /\ Rising(Tail(s), T)
                            /\ Head(s) \in T => Before({Head(s).n}, Numbers(Tail(s), T))
<1> DEFINE t == Tail(s)
           h == Head(s)
<1>1. /\ h \in Item /\ t \in Seq(Item) /\ Len(s) \in Nat \ {0}
      /\ DOMAIN s = 1..Len(s) /\ h = s[1]
      /\ DOMAIN t = 1..(Len(s) - 1)
      /\ \A i \in 1..(Len(s) - 1) : t[i] = s[i + 1]
  OBVIOUS
<1>2. \A i \in 1..Len(s) : i # 1 => i - 1 \in 1..(Len(s) - 1) /\ (i - 1) + 1 = i BY <1>1
<1>3. \A i \in 1..(Len(s) - 1) : i + 1 \in 1..Len(s) /\ 1 < i + 1 BY <1>1
<1>4. 1 \in 1..Len(s) BY <1>1
<1> HIDE DEF t, h
<1>5. \A i \in Picked(t, T) : i \in 1..(Len(s) - 1) /\ i + 1 \in Picked(s, T) /\ t[i] = s[i + 1]
  BY <1>1, <1>3 DEF Picked
<1>6. \A i \in Picked(s, T) : \/ i = 1 /\ h \in T
                              \/ i - 1 \in Picked(t, T) /\ s[i] = t[i - 1]
  <2> SUFFICES ASSUME NEW i \in Picked(s, T), i # 1
               PROVE  i - 1 \in Picked(t, T) /\ s[i] = t[i - 1]
    BY <1>1 DEF Picked
  <2>1. i \in 1..Len(s) /\ s[i] \in T BY <1>1 DEF Picked
  <2>2. i - 1 \in 1..(Len(s) - 1) /\ (i - 1) + 1 = i BY <1>2, <2>1
  <2>3. t[i - 1] = s[i] BY <1>1, <2>2
  <2> QED BY <1>1, <2>1, <2>2, <2>3 DEF Picked
<1>7. h \in T => 1 \in Picked(s, T) BY <1>1, <1>4 DEF Picked
<1>8. Numbers(s, T) = Numbers(t, T) \cup (IF h \in T THEN {h.n} ELSE {})
  <2>1. ASSUME NEW x \in Numbers(s, T)
        PROVE  x \in Numbers(t, T) \cup (IF h \in T THEN {h.n} ELSE {})
    <3>1. PICK i \in Picked(s, T) : x = s[i].n BY DEF Numbers
    <3>2. CASE i = 1 /\ h \in T BY <1>1, <3>1, <3>2
    <3>3. CASE i - 1 \in Picked(t, T) /\ s[i] = t[i - 1] BY <3>1, <3>3 DEF Numbers
    <3> QED BY <1>6, <3>2, <3>3
  <2>2. ASSUME NEW x \in Numbers(t, T) PROVE x \in Numbers(s, T)
    <3>1. PICK i \in Picked(t, T) : x = t[i].n BY DEF Numbers
    <3> QED BY <1>5, <3>1 DEF Numbers
  <2>3. h \in T => h.n \in Numbers(s, T) BY <1>1, <1>7 DEF Numbers
  <2> QED BY <2>1, <2>2, <2>3
<1>9. ASSUME Rising(s, T) PROVE Rising(t, T) /\ (h \in T => Before({h.n}, Numbers(t, T)))
  <2>1. Rising(t, T)
    <3> SUFFICES ASSUME NEW i \in Picked(t, T), NEW j \in Picked(t, T), i < j
                 PROVE  t[i].n < t[j].n
      BY DEF Rising
    <3>1. i + 1 < j + 1 BY <1>1, <1>5
    <3> QED BY <1>5, <1>9, <3>1 DEF Rising
  <2>2. ASSUME h \in T, NEW x \in Numbers(t, T) PROVE h.n < x
    <3>1. PICK i \in Picked(t, T) : x = t[i].n BY DEF Numbers
    <3>2. 1 < i + 1 /\ i + 1 \in Picked(s, T) BY <1>3, <1>5
    <3>3. s[1].n < s[i + 1].n BY <1>7, <1>9, <2>2, <3>2 DEF Rising
    <3> QED BY <1>1, <1>5, <3>1, <3>3
  <2> QED BY <2>1, <2>2 DEF Before
<1> QED BY <1>1, <1>8, <1>9 DEF t, h

(* The empty sequence.                                                     *)
LEMMA NoNumbers == \A T : Numbers(<<>>, T) = {} /\ Rising(<<>>, T)
BY DEF Numbers, Rising, Picked
-----------------------------------------------------------------------------
(* What a peer's messages may still be numbered, and those to the process  *)
(* itself: no step takes a number back.                                    *)
PeersKept == FromPeers' /\ \A c \in Conn : Ahead(c)' \subseteq Ahead(c)
LocalKept == FromLocal' /\ Ahead(Loopback)' \subseteq Ahead(Loopback)

(* A reader that goes on to work on nothing.                               *)
LEMMA ReaderLeaves ==
  ASSUME Resets, FromPeers, NEW c \in Conn, NEW pc \in ReaderPlaces, Reader(c, pc),
         pc \notin {"throttle", "body", "fast"}, received' = received,
         \A d \in Conn : d # c => frame'[d] = frame[d]
  PROVE  PeersKept
BY LoopbackIsNoConn
   DEF Reader, FromPeers, PeersKept, Ahead, Holding, Resets, Control, Shape

(* A reader changes its own message only.                                  *)
LEMMA FrameElsewhere ==
  ASSUME Resets, NEW c \in Conn,
         \/ ReadBodyFails(c) \/ DropRead(c) \/ QueueRead(c) \/ EndFast(c)
  PROVE  \A d \in Conn : d # c => frame'[d] = frame[d]
BY DEF ReadBodyFails, DropRead, QueueRead, EndFast, Resets, Contents, Working

(* Every step keeps the numbering of the peers.                            *)
LEMMA Numbering == ASSUME Resets, FromPeers, [Next]_vars PROVE PeersKept
<1>1. CASE UNCHANGED <<reader, frame, received>>
  BY <1>1, LoopbackIsNoConn DEF FromPeers, PeersKept, Ahead, Holding, Later
<1>2. {"accept", "announced", "reply", "tag", "in_fast", "sleep", "faulting", "done"}
        \subseteq ReaderPlaces
  BY DEF ReaderPlaces
<1>3. \A s : AfterTest(s) \in {"done", "sleep", "tag"} BY DEF AfterTest
<1>4. ASSUME NEW c \in Conn, AddAcceptPipe(c) \/ AcceptStep(c) PROVE PeersKept
  <2>1. UNCHANGED <<frame, received>>
    BY <1>4 DEF AddAcceptPipe, AcceptStep, AcceptAnnounces, AcceptRefuses, AcceptRegisters,
       AcceptReplies, AcceptFails
  <2>2. PICK pc \in {"accept", "announced", "done", "reply", "tag", "sleep"} : Reader(c, pc)
    BY <1>3, <1>4 DEF AddAcceptPipe, AcceptStep, AcceptAnnounces, AcceptRefuses,
       AcceptRegisters, AcceptReplies, AcceptFails
  <2> QED BY <1>2, <2>1, <2>2, ReaderLeaves
<1>5. ASSUME NEW c \in Conn, \/ ReaderFaulted(c) \/ DropRead(c) \/ QueueRead(c) \/ BeginFast(c)
                             \/ EndFast(c) \/ ReaderExits(c) \/ ReadTagFails(c) \/ ReadBodyFails(c)
      PROVE  PeersKept
  <2>1. PICK pc \in {"faulting", "done", "tag", "sleep", "in_fast"} : Reader(c, pc)
    BY <1>3, <1>5 DEF ReaderFaulted, DropRead, QueueRead, BeginFast, EndFast, ReaderExits,
       ReadTagFails, ReadBodyFails, ReaderFault
  <2>2. received' = received
    BY <1>5 DEF ReaderFaulted, FaultDiscards, DropRead, QueueRead, BeginFast, EndFast,
       ReaderExits, ReadTagFails, ReadBodyFails
  <2>3. \A d \in Conn : d # c => frame'[d] = frame[d]
    BY <1>5, FrameElsewhere DEF ReaderFaulted, FaultDiscards, BeginFast, ReaderExits, ReadTagFails
  <2> QED BY <1>2, <2>1, <2>2, <2>3, ReaderLeaves
<1>6. ASSUME NEW c \in Conn, TakeThrottle(c) \/ UnlockForFast(c) PROVE PeersKept
  BY <1>6, LoopbackIsNoConn DEF TakeThrottle, UnlockForFast, Reader, FromPeers, PeersKept, Ahead,
     Holding, Resets, Control, Shape
<1>7. ASSUME NEW c \in Conn, ReadHeader(c) PROVE PeersKept
  <2>1. PICK k \in Kinds : frame' = [frame EXCEPT ![c] = Msg(c, received[c] + 1, k, 1)]
    BY <1>7 DEF ReadHeader
  <2>2. received \in [Conn -> Nat] /\ received' = [received EXCEPT ![c] = @ + 1]
    BY <1>7 DEF ReadHeader, Resets, Contents, Working
  <2>3. reader' = [reader EXCEPT ![c] = "throttle"] /\ reader \in [Conn -> ReaderPlaces]
    BY <1>7 DEF ReadHeader, Reader, Resets, Control, Shape
  <2>4. frame'[c] = Msg(c, received[c] + 1, k, 1) /\ \A d \in Conn : d # c => frame'[d] = frame[d]
    BY <2>1 DEF Resets, Contents, Working
  <2>5. /\ frame'[c].what = "msg" /\ frame'[c].con = c /\ frame'[c].n = received[c] + 1
        /\ received'[c] = received[c] + 1 /\ \A d \in Conn : d # c => received'[d] = received[d]
    BY <2>2, <2>4 DEF Msg
  <2>6. FromPeers' BY <2>2, <2>3, <2>4, <2>5 DEF FromPeers, Holding
  <2>7. ASSUME NEW d \in Conn PROVE Ahead(d)' \subseteq Ahead(d)
    <3>1. CASE d # c
      BY <2>3, <2>4, <2>5, <3>1, LoopbackIsNoConn DEF Ahead, Holding, Later
    <3>2. CASE d = c
      <4>1. Ahead(c)' = {received[c] + 1} \cup Later(received[c] + 1)
        BY <2>3, <2>5, LoopbackIsNoConn DEF Ahead, Holding, Later
      <4>2. Later(received[c]) \subseteq Ahead(c) BY LoopbackIsNoConn DEF Ahead
      <4>3. {received[c] + 1} \cup Later(received[c] + 1) \subseteq Later(received[c])
        BY <2>2 DEF Later
      <4> QED BY <3>2, <4>1, <4>2, <4>3
    <3> QED BY <3>1, <3>2
  <2> QED BY <2>6, <2>7 DEF PeersKept
<1>8. ASSUME NEW c \in Conn, \/ WriteFails(c) \/ WriterFaulted(c) \/ WriterExits(c)
                             \/ QueueReap(c) \/ MarkDown(c) \/ WaitStopsPipe(c)
      PROVE  PeersKept
  BY <1>1, <1>8 DEF WriteFails, WriterFaulted, FaultDiscards, WriterExits, QueueReap, MarkDown,
     WaitStopsPipe, pipeVars
<1>9. CASE \/ UNCHANGED restVars \/ UNCHANGED vars \/ ReaperReaps \/ ReaperExits \/ SubmitLocal
           \/ BeginShutdown \/ EndShutdown \/ WaitReaps
  BY <1>1, <1>9 DEF restVars, vars, pipeVars, ReaperReaps, WaitReaps, Reap, ReaperExits,
     SubmitLocal, BeginShutdown, EndShutdown
<1>10. CASE \/ WaitStopsAccepter \/ WaitStopsLocal \/ WaitStopsDispatch \/ WaitJoins
            \/ WaitStopsReaper \/ WaitTakesLock \/ WaitClearsPipe \/ WaitDropsLock \/ WaitReturns
  BY <1>1, <1>10 DEF WaitStopsAccepter, WaitStopsLocal, WaitStopsDispatch, WaitJoins,
     WaitStopsReaper, WaitTakesLock, WaitClearsPipe, WaitDropsLock, WaitReturns, pipeVars
<1> QED BY <1>4, <1>5, <1>6, <1>7, <1>8, <1>9, <1>10
        DEF Next, PipeStep, ReaderStep, WaitStep

(* Every step keeps the numbering of the process itself.                   *)
LEMMA LocalNumbering == ASSUME Resets, FromLocal, [Next]_vars PROVE LocalKept
<1>1. CASE /\ UNCHANGED <<local_messages, in_hand, sent_local>>
           /\ deliverer' \in {deliverer, "loop", "wait", "exit"}
  BY <1>1 DEF FromLocal, LocalKept, Ahead, Later, LocalItem, Numbers, Rising, Picked
<1>2. /\ LocalItem \subseteq Item /\ local_messages \in Seq(LocalItem) /\ local_messages \in Seq(Item)
      /\ Rising(local_messages, Item) /\ sent_local \in Nat
      /\ \A m \in LocalItem : m.n <= sent_local
  <2>1. LocalItem \subseteq Item BY DEF LocalItem
  <2>2. local_messages \in Seq(Item) BY <2>1 DEF FromLocal
  <2> QED BY <2>1, <2>2 DEF FromLocal, LocalItem, Resets, Contents, Working
<1>3. ASSUME LocalTakes, UNCHANGED sent_local PROVE LocalKept
  <2>1. /\ local_messages # <<>> /\ in_hand' = Head(local_messages)
        /\ local_messages' = Tail(local_messages) /\ deliverer' = "deliver"
    BY <1>3 DEF LocalTakes
  <2>2. Head(local_messages) \in LocalItem /\ Tail(local_messages) \in Seq(LocalItem)
    BY <1>2, <2>1, HasTail
  <2>3. /\ Numbers(local_messages, Item)
             = Numbers(Tail(local_messages), Item) \cup {Head(local_messages).n}
        /\ Rising(Tail(local_messages), Item)
        /\ Before({Head(local_messages).n}, Numbers(Tail(local_messages), Item))
    BY <1>2, <2>1, NumbersTail
  <2>4. FromLocal'
    BY <1>3, <2>1, <2>2, <2>3 DEF FromLocal, LocalItem, Before, Numbers, Rising, Picked
  <2>5. Ahead(Loopback)' = {in_hand'.n} \cup Numbers(local_messages', Item) \cup Later(sent_local)
    BY <1>3, <2>1 DEF Ahead, Later, Numbers, Picked
  <2>6. Numbers(local_messages, Item) \cup Later(sent_local) \subseteq Ahead(Loopback)
    BY DEF Ahead
  <2> QED BY <2>1, <2>3, <2>4, <2>5, <2>6 DEF LocalKept
<1>4. CASE SubmitLocal
  <2>1. PICK kind \in Kinds : LocalDelivery(Msg(Loopback, sent_local + 1, kind, 0))
    BY <1>4 DEF SubmitLocal
  <2> DEFINE m == Msg(Loopback, sent_local + 1, kind, 0)
  <2>2. /\ local_messages' = Append(local_messages, m) /\ in_hand' = in_hand
        /\ deliverer' \in {deliverer, Signalled(deliverer)} /\ sent_local' = sent_local + 1
    BY <1>4, <2>1 DEF SubmitLocal, LocalDelivery
  <2>3. m \in Plain BY <1>2, Items
  <2>4. m \in Item /\ m.n = sent_local + 1 /\ m.what = "msg" /\ m.con = Loopback
    BY <2>3 DEF Plain, Msg
  <2> HIDE DEF m
  <2>5. m \in LocalItem' /\ LocalItem \subseteq LocalItem'
    <3>1. \A x \in Item : x.n \in Nat BY DEF Item
    <3>2. \A k \in Nat : k <= sent_local => k <= sent_local + 1 BY <1>2
    <3>3. sent_local + 1 <= sent_local + 1 BY <1>2
    <3>4. LocalItem' = {x \in Item : x.what = "msg" /\ x.con = Loopback /\ x.n <= sent_local + 1}
      BY <2>2 DEF LocalItem
    <3>5. m \in LocalItem' BY <2>4, <3>3, <3>4
    <3>6. LocalItem \subseteq LocalItem' BY <3>1, <3>2, <3>4 DEF LocalItem
    <3> QED BY <3>5, <3>6
  <2>6. local_messages' \in Seq(LocalItem')
    <3>1. local_messages \in Seq(LocalItem') BY <1>2, <2>5
    <3> QED BY <2>2, <2>5, <3>1, HasAppended
  <2>7. \A x \in Numbers(local_messages, Item) : x \in Nat /\ x <= sent_local
    <3> SUFFICES ASSUME NEW i \in DOMAIN local_messages
                 PROVE  local_messages[i].n \in Nat /\ local_messages[i].n <= sent_local
      BY DEF Numbers, Picked
    <3>1. local_messages[i] \in LocalItem BY <1>2
    <3> QED BY <3>1 DEF LocalItem, Item
  <2>8. /\ Numbers(local_messages', Item) = Numbers(local_messages, Item) \cup {sent_local + 1}
        /\ Rising(local_messages', Item)
    <3>1. Before(Numbers(local_messages, Item), {m.n}) BY <1>2, <2>4, <2>7 DEF Before
    <3>2. /\ Numbers(Append(local_messages, m), Item)
               = Numbers(local_messages, Item) \cup (IF m \in Item THEN {m.n} ELSE {})
          /\ Rising(local_messages, Item) /\ (m \in Item => Before(Numbers(local_messages, Item), {m.n}))
               => Rising(Append(local_messages, m), Item)
      BY <1>2, <2>4, NumbersAppended
    <3> QED BY <1>2, <2>2, <2>4, <3>1, <3>2
  <2>9. deliverer' = "deliver" <=> deliverer = "deliver" BY <2>2 DEF Signalled
  <2>10. FromLocal'
    <3>1. Rising(local_messages, Item)' /\ (local_messages \in Seq(LocalItem))'
      BY <2>6, <2>8 DEF Rising, Picked
    <3>2. ASSUME deliverer' = "deliver"
          PROVE  in_hand' \in LocalItem' /\ Before({in_hand'.n}, Numbers(local_messages', Item))
      <4>1. in_hand \in LocalItem /\ Before({in_hand.n}, Numbers(local_messages, Item))
        BY <2>9, <3>2 DEF FromLocal
      <4>2. in_hand.n \in Nat /\ in_hand.n <= sent_local BY <4>1 DEF LocalItem, Item
      <4>3. in_hand.n < sent_local + 1 BY <1>2, <4>2
      <4> QED BY <2>2, <2>5, <2>8, <4>1, <4>3 DEF Before
    <3> QED BY <3>1, <3>2 DEF FromLocal, Before, Numbers, Picked
  <2>11. Ahead(Loopback)' \subseteq Ahead(Loopback)
    <3>1. Ahead(Loopback)' = (IF deliverer = "deliver" THEN {in_hand.n} ELSE {})
                               \cup Numbers(local_messages', Item) \cup Later(sent_local + 1)
      BY <2>2, <2>9 DEF Ahead, Later, Numbers, Picked
    <3>2. {sent_local + 1} \cup Later(sent_local + 1) \subseteq Later(sent_local)
      BY <1>2 DEF Later
    <3> QED BY <2>8, <3>1, <3>2 DEF Ahead
  <2> QED BY <2>10, <2>11 DEF LocalKept
<1>5. CASE WaitJoins
  <2>1. local_messages' = <<>> /\ UNCHANGED <<deliverer, in_hand, sent_local>>
    BY <1>5 DEF WaitJoins, DiscardLocal
  <2>2. Numbers(local_messages', Item) = {} /\ Rising(local_messages', Item) BY <2>1, NoNumbers
  <2>3. FromLocal'
    BY <2>1, <2>2 DEF FromLocal, LocalItem, Before, Numbers, Rising, Picked
  <2>4. Ahead(Loopback)' \subseteq Ahead(Loopback)
    BY <2>1, <2>2 DEF Ahead, Later, Numbers, Picked
  <2> QED BY <2>3, <2>4 DEF LocalKept
<1>6. CASE LocalThread /\ UNCHANGED restVars
  <2>1. sent_local' = sent_local BY <1>6 DEF restVars
  <2>2. CASE LocalSleeps \/ LocalExits BY <1>1, <2>1, <2>2 DEF LocalSleeps, LocalExits
  <2>3. CASE LocalDelivers
    <3>1. local_messages' = local_messages /\ deliverer' = "loop" BY <2>3 DEF LocalDelivers
    <3> QED BY <2>1, <3>1 DEF FromLocal, LocalKept, Ahead, Later, LocalItem, Numbers, Rising, Picked
  <2> QED BY <1>3, <1>6, <2>1, <2>2, <2>3 DEF LocalThread
<1>7. CASE WaitStopsLocal
  BY <1>1, <1>7 DEF WaitStopsLocal, StopLocal, Signalled
<1>8. ASSUME NEW c \in Conn, AddAcceptPipe(c) \/ AcceptStep(c) \/ ReaderStep(c) PROVE LocalKept
  BY <1>1, <1>8 DEF AddAcceptPipe, AcceptStep, AcceptAnnounces, AcceptRefuses, AcceptRegisters,
     AcceptReplies, AcceptFails, ReaderStep, ReaderFaulted, FaultDiscards, DropRead, QueueRead,
     UnlockForFast, BeginFast, EndFast, ReaderExits, queueVars, localVars
<1>9. ASSUME NEW c \in Conn, \/ ReadHeader(c) \/ ReadTagFails(c) \/ TakeThrottle(c)
                             \/ ReadBodyFails(c) \/ WriteFails(c) \/ WriterFaulted(c)
                             \/ WriterExits(c) \/ QueueReap(c) \/ MarkDown(c) \/ WaitStopsPipe(c)
      PROVE  LocalKept
  BY <1>1, <1>9 DEF ReadHeader, ReadTagFails, TakeThrottle, ReadBodyFails, WriteFails,
     WriterFaulted, FaultDiscards, WriterExits, QueueReap, MarkDown, WaitStopsPipe, queueVars,
     localVars
<1>10. CASE DispatchThread /\ UNCHANGED restVars
  BY <1>1, <1>10 DEF DispatchThread, Dequeue, DispatcherSleeps, DispatcherExits, HandleCode,
     DropMessage, BeginDispatch, EndDispatch, restVars, localVars
<1>11. CASE \/ ReaperReaps \/ ReaperExits \/ BeginShutdown \/ EndShutdown \/ WaitReaps \/ UNCHANGED vars
  BY <1>1, <1>11 DEF ReaperReaps, WaitReaps, Reap, ReaperExits, BeginShutdown, EndShutdown, vars,
     queueVars, localVars
<1>12. CASE \/ WaitStopsAccepter \/ WaitStopsDispatch \/ WaitStopsReaper
            \/ WaitTakesLock \/ WaitClearsPipe \/ WaitDropsLock \/ WaitReturns
  BY <1>1, <1>12 DEF WaitStopsAccepter, WaitStopsDispatch, WaitStopsReaper, WaitTakesLock,
     WaitClearsPipe, WaitDropsLock, WaitReturns, StopDispatch, queueVars, localVars
<1> QED BY <1>4, <1>5, <1>6, <1>7, <1>8, <1>9, <1>10, <1>11, <1>12 DEF Next, PipeStep, WaitStep
-----------------------------------------------------------------------------
(* The steps an item takes along the line.                                 *)
AheadKept == \A c \in Classes : Ahead(c)' \subseteq Ahead(c)
NewDone(c, p)  == Numbers(seen'[c], Ordered(p))
NewHand(c, p)  == IF dispatcher' = "handle" /\ current'.con = c /\ current' \in Ordered(p)
                  THEN {current'.n} ELSE {}
NewQueue(c, p) == Numbers(mqueue'[<<p, c>>], Ordered(p))

(* The line after a step.                                                  *)
LEMMA LinePrimed ==
  ASSUME NEW c, NEW p,
         Rising(seen'[c], Ordered(p)), Rising(mqueue'[<<p, c>>], Ordered(p)),
         Before(NewDone(c, p), NewHand(c, p) \cup NewQueue(c, p) \cup Ahead(c)'),
         Before(NewHand(c, p), NewQueue(c, p) \cup Ahead(c)'),
         Before(NewQueue(c, p), Ahead(c)')
  PROVE  Line(c, p)'
BY DEF Line, NewDone, NewHand, NewQueue, Done, Hand, Queue, Rising, Numbers, Picked, Before,
       Ordered, IsFast, Priority

(* The queues after a step.                                                *)
LEMMA FiledPrimed ==
  ASSUME \A q \in Priorities \X Classes : mqueue'[q] \in Seq(Slot(q))
  PROVE  Filed'
BY DEF Filed, Slot, Ordered, IsFast, Priority

(* Nothing goes forward.                                                   *)
LEMMA LineCalm ==
  ASSUME NEW c \in Classes, NEW p \in Priorities, Line(c, p), AheadKept, seen'[c] = seen[c],
         NewHand(c, p) \subseteq Hand(c, p), NewQueue(c, p) \subseteq Queue(c, p),
         Rising(mqueue'[<<p, c>>], Ordered(p))
  PROVE  Line(c, p)'
<1>1. NewDone(c, p) = Done(c, p) /\ Ahead(c)' \subseteq Ahead(c)
  BY DEF NewDone, Done, AheadKept
<1>2. Rising(seen'[c], Ordered(p)) BY DEF Line
<1>3. /\ Before(NewDone(c, p), NewHand(c, p) \cup NewQueue(c, p) \cup Ahead(c)')
      /\ Before(NewHand(c, p), NewQueue(c, p) \cup Ahead(c)')
      /\ Before(NewQueue(c, p), Ahead(c)')
  BY <1>1 DEF Line, Before
<1> QED BY <1>2, <1>3, LinePrimed

(* A message comes to the queue.                                           *)
LEMMA LineAppended ==
  ASSUME NEW c \in Classes, NEW p \in Priorities, Line(c, p), AheadKept, seen' = seen,
         NewHand(c, p) \subseteq Hand(c, p), mqueue[<<p, c>>] \in Seq(Item), NEW m \in Item,
         mqueue'[<<p, c>>] = Append(mqueue[<<p, c>>], m),
         m.n \in Ahead(c), Before({m.n}, Ahead(c)')
  PROVE  Line(c, p)'
<1>1. NewDone(c, p) = Done(c, p) /\ Ahead(c)' \subseteq Ahead(c)
  BY DEF NewDone, Done, AheadKept
<1>2. Rising(seen'[c], Ordered(p)) BY DEF Line
<1>3. Before(Queue(c, p), {m.n}) BY DEF Line, Before
<1>4. NewQueue(c, p) \subseteq Queue(c, p) \cup {m.n} /\ Rising(mqueue'[<<p, c>>], Ordered(p))
  <2>1. /\ Numbers(Append(mqueue[<<p, c>>], m), Ordered(p))
             = Numbers(mqueue[<<p, c>>], Ordered(p)) \cup (IF m \in Ordered(p) THEN {m.n} ELSE {})
        /\ Rising(mqueue[<<p, c>>], Ordered(p))
             /\ (m \in Ordered(p) => Before(Numbers(mqueue[<<p, c>>], Ordered(p)), {m.n}))
               => Rising(Append(mqueue[<<p, c>>], m), Ordered(p))
    BY NumbersAppended
  <2>2. Rising(mqueue[<<p, c>>], Ordered(p)) BY DEF Line
  <2> QED BY <1>3, <2>1, <2>2 DEF NewQueue, Queue
<1>5. /\ Before(NewDone(c, p), NewHand(c, p) \cup NewQueue(c, p) \cup Ahead(c)')
      /\ Before(NewHand(c, p), NewQueue(c, p) \cup Ahead(c)')
      /\ Before(NewQueue(c, p), Ahead(c)')
  BY <1>1, <1>4 DEF Line, Before
<1> QED BY <1>2, <1>4, <1>5, LinePrimed

(* The dispatch thread takes the first of a queue.                         *)
LEMMA LineTaken ==
  ASSUME NEW c \in Classes, NEW p \in Priorities, Line(c, p), AheadKept, seen' = seen,
         mqueue[<<p, c>>] \in Seq(Item), mqueue[<<p, c>>] # <<>>,
         current' = Head(mqueue[<<p, c>>]), mqueue'[<<p, c>>] = Tail(mqueue[<<p, c>>])
  PROVE  Line(c, p)'
<1>1. NewDone(c, p) = Done(c, p) /\ Ahead(c)' \subseteq Ahead(c)
  BY DEF NewDone, Done, AheadKept
<1>2. Rising(seen'[c], Ordered(p)) BY DEF Line
<1>3. /\ Queue(c, p) = NewQueue(c, p) \cup (IF current' \in Ordered(p) THEN {current'.n} ELSE {})
      /\ Rising(mqueue'[<<p, c>>], Ordered(p))
      /\ current' \in Ordered(p) => Before({current'.n}, NewQueue(c, p))
  <2> DEFINE s == mqueue[<<p, c>>]
  <2>1. /\ Numbers(s, Ordered(p)) = Numbers(Tail(s), Ordered(p))
                                    \cup (IF Head(s) \in Ordered(p) THEN {Head(s).n} ELSE {})
        /\ Rising(s, Ordered(p)) => /\ Rising(Tail(s), Ordered(p))
                                    /\ Head(s) \in Ordered(p)
                                         => Before({Head(s).n}, Numbers(Tail(s), Ordered(p)))
    BY NumbersTail
  <2>2. Rising(s, Ordered(p)) BY DEF Line
  <2> QED BY <2>1, <2>2 DEF NewQueue, Queue
<1>4. NewHand(c, p) \subseteq Queue(c, p) /\ Before(NewHand(c, p), NewQueue(c, p))
  BY <1>3 DEF NewHand, Before
<1>5. /\ Before(NewDone(c, p), NewHand(c, p) \cup NewQueue(c, p) \cup Ahead(c)')
      /\ Before(NewHand(c, p), NewQueue(c, p) \cup Ahead(c)')
      /\ Before(NewQueue(c, p), Ahead(c)')
  BY <1>1, <1>3, <1>4 DEF Line, Before
<1> QED BY <1>2, <1>3, <1>5, LinePrimed

(* A Dispatcher is called with the item in hand, or with one of no line.   *)
LEMMA LineTold ==
  ASSUME NEW c \in Classes, NEW p \in Priorities, Line(c, p), AheadKept, mqueue' = mqueue,
         seen[c] \in Seq(Item), NEW m \in Item, seen'[c] = Append(seen[c], m),
         NewHand(c, p) \subseteq Hand(c, p),
         m \in Ordered(p) => m.n \in Hand(c, p) /\ NewHand(c, p) = {}
  PROVE  Line(c, p)'
<1>1. NewQueue(c, p) = Queue(c, p) /\ Ahead(c)' \subseteq Ahead(c)
  BY DEF NewQueue, Queue, AheadKept
<1>2. Rising(mqueue'[<<p, c>>], Ordered(p)) BY DEF Line
<1>3. m \in Ordered(p) => Before(Done(c, p), {m.n}) BY DEF Line, Before
<1>4. /\ NewDone(c, p) = Done(c, p) \cup (IF m \in Ordered(p) THEN {m.n} ELSE {})
      /\ Rising(seen'[c], Ordered(p))
  <2>1. /\ Numbers(Append(seen[c], m), Ordered(p))
             = Numbers(seen[c], Ordered(p)) \cup (IF m \in Ordered(p) THEN {m.n} ELSE {})
        /\ Rising(seen[c], Ordered(p))
             /\ (m \in Ordered(p) => Before(Numbers(seen[c], Ordered(p)), {m.n}))
               => Rising(Append(seen[c], m), Ordered(p))
    BY NumbersAppended
  <2>2. Rising(seen[c], Ordered(p)) BY DEF Line
  <2> QED BY <1>3, <2>1, <2>2 DEF NewDone, Done
<1>5. /\ Before(NewDone(c, p), NewHand(c, p) \cup NewQueue(c, p) \cup Ahead(c)')
      /\ Before(NewHand(c, p), NewQueue(c, p) \cup Ahead(c)')
      /\ Before(NewQueue(c, p), Ahead(c)')
  <2>1. CASE m \in Ordered(p) BY <1>1, <1>4, <2>1 DEF Line, Before
  <2>2. CASE m \notin Ordered(p) BY <1>1, <1>4, <2>2 DEF Line, Before
  <2> QED BY <2>1, <2>2
<1> QED BY <1>2, <1>4, <1>5, LinePrimed
-----------------------------------------------------------------------------
(* The queues under the operations that change them.                       *)
Steady == dispatcher' = "handle" => dispatcher = "handle" /\ current' = current
QueueCalm ==
  \A c \in Classes : \A p \in Priorities :
    NewQueue(c, p) \subseteq Queue(c, p) /\ Rising(mqueue'[<<p, c>>], Ordered(p))

(* The types of the queues and of what was seen.                           *)
LEMMA Contained ==
  ASSUME Resets, Filed
  PROVE  /\ \A q \in Priorities \X Classes : mqueue[q] \in Seq(Item)
         /\ \A c \in Classes : seen[c] \in Seq(Item)
         /\ current \in Item
         /\ mqueue = [q \in Priorities \X Classes |-> mqueue[q]]
<1>1. \A q : Slot(q) \subseteq Item BY DEF Slot
<1>2. \A c : SeenBy(c) \subseteq Item BY DEF SeenBy
<1>3. \A q \in Priorities \X Classes : mqueue[q] \in Seq(Item) BY <1>1 DEF Filed
<1>4. \A c \in Classes : seen[c] \in Seq(Item) BY <1>2 DEF Resets, Contents, Reported
<1> QED BY <1>3, <1>4 DEF Resets, Contents, Reported, Proper, Control, Shape

(* A step that takes nothing in hand puts nothing in hand.                 *)
LEMMA SteadyHand ==
  ASSUME Steady, NEW c, NEW p
  PROVE  NewHand(c, p) \subseteq Hand(c, p)
BY DEF Steady, NewHand, Hand

(* Nor does it make the item in hand one for fast dispatch.                *)
LEMMA InHandKept == ASSUME Steady, InHand PROVE InHand'
BY DEF Steady, InHand, IsFast

(* Steps that put no message in a queue and call no Dispatcher.            *)
LEMMA LinesCalm ==
  ASSUME Lined, AheadKept, seen' = seen, Steady, Filed', QueueCalm
  PROVE  Lined'
<1>1. ASSUME NEW c \in Classes, NEW p \in Priorities PROVE Line(c, p)'
  <2>1. Line(c, p) /\ NewHand(c, p) \subseteq Hand(c, p) BY SteadyHand DEF Lined, Lines
  <2> QED BY <2>1, LineCalm DEF QueueCalm
<1>2. Lines' BY <1>1 DEF Lines, Classes, Priorities, Low, Highest
<1>3. InHand' BY InHandKept DEF Lined
<1> QED BY <1>2, <1>3 DEF Lined

(* Steps that leave the queues and the Dispatchers alone.                  *)
LEMMA LinesSame ==
  ASSUME Lined, AheadKept, UNCHANGED <<mqueue, seen>>, Steady
  PROVE  Lined'
<1>1. Filed' BY FiledPrimed DEF Lined, Filed
<1>2. QueueCalm BY DEF QueueCalm, NewQueue, Queue, Lined, Lines, Line
<1> QED BY <1>1, <1>2, LinesCalm

(* enqueue() files a message under its class and priority.                 *)
LEMMA Placed ==
  ASSUME Resets, Filed, NEW m, NEW class \in Classes, Enqueue(m, class),
         Priority(m) \in Priorities, m \in Slot(<<Priority(m), class>>)
  PROVE  /\ Filed'
         /\ mqueue'[<<Priority(m), class>>] = Append(mqueue[<<Priority(m), class>>], m)
         /\ \A r \in Priorities \X Classes :
              r # <<Priority(m), class>> => mqueue'[r] = mqueue[r]
         /\ dispatcher' = "handle" => dispatcher = "handle"
<1> DEFINE q == <<Priority(m), class>>
<1>1. q \in Priorities \X Classes OBVIOUS
<1>2. mqueue' = [mqueue EXCEPT ![q] = Append(@, m)] BY DEF Enqueue, QueuePriority, AtEnd
<1>3. DOMAIN mqueue = Priorities \X Classes BY DEF Resets, Control, Shape
<1>4. /\ mqueue'[q] = Append(mqueue[q], m)
      /\ \A r \in Priorities \X Classes : r # q => mqueue'[r] = mqueue[r]
  BY <1>1, <1>2, <1>3
<1>5. dispatcher' = "handle" => dispatcher = "handle" BY DEF Enqueue, Signalled
<1>6. m \in Slot(q) OBVIOUS
<1> HIDE DEF q
<1>7. ASSUME NEW r \in Priorities \X Classes PROVE mqueue'[r] \in Seq(Slot(r))
  <2>1. mqueue[r] \in Seq(Slot(r)) BY DEF Filed
  <2>2. CASE r = q
    <3>1. m \in Slot(r) BY <1>6, <2>2
    <3>2. Append(mqueue[r], m) \in Seq(Slot(r)) BY <2>1, <3>1, HasAppended
    <3> QED BY <1>4, <2>2, <3>2
  <2>3. CASE r # q BY <1>4, <2>1, <2>3
  <2> QED BY <2>2, <2>3
<1>8. Filed' BY <1>7, FiledPrimed
<1> QED BY <1>4, <1>5, <1>8 DEF q

(* An event is no message of any line.                                     *)
LEMMA EventAppended ==
  ASSUME NEW s \in Seq(Item), NEW m \in Item, m.what # "msg", NEW p, Rising(s, Ordered(p))
  PROVE  /\ Numbers(Append(s, m), Ordered(p)) = Numbers(s, Ordered(p))
         /\ Rising(Append(s, m), Ordered(p))
<1>1. m \notin Ordered(p) BY DEF Ordered
<1>2. /\ Numbers(Append(s, m), Ordered(p))
           = Numbers(s, Ordered(p)) \cup (IF m \in Ordered(p) THEN {m.n} ELSE {})
      /\ Rising(s, Ordered(p)) /\ (m \in Ordered(p) => Before(Numbers(s, Ordered(p)), {m.n}))
           => Rising(Append(s, m), Ordered(p))
  BY NumbersAppended
<1> QED BY <1>1, <1>2

(* Events have the highest priority.                                       *)
LEMMA EventPriority ==
  ASSUME NEW what \in Events, NEW d
  PROVE  /\ Code(what, d).what = what /\ what # "msg"
         /\ QueuePriority(Code(what, d)) = Highest /\ Priority(Code(what, d)) = Highest
         /\ Highest \in Priorities
<1>1. Code(what, d).what = what /\ what # "msg" BY DEF Code, Events
<1>2. Priority(Code("accept", d)) = Highest BY DEF Priority, Code
<1>3. Priority(Code(what, d)) = Highest
  <2>1. Priority(Code("reset", d)) = Highest BY DEF Priority, Code
  <2> QED BY <1>2, <2>1 DEF Events
<1> QED BY <1>1, <1>3 DEF QueuePriority, Priorities, Highest, Low

(* queue_accept() and queue_reset().                                       *)
LEMMA EventsCalm ==
  ASSUME Resets, Lined, NEW what \in Events, NEW d \in Conn, QueueCode(what, d)
  PROVE  Filed' /\ QueueCalm /\ (dispatcher' = "handle" => dispatcher = "handle")
<1>1. CASE stop
  BY <1>1, FiledPrimed DEF QueueCode, Lined, Filed, QueueCalm, NewQueue, Queue, Lines, Line
<1>2. CASE ~stop
  <2> DEFINE m == Code(what, d)
  <2>1. m \in Item /\ m.what # "msg" BY DEF Code, Item, Classes, Events
  <2>2. Priority(m) = Highest /\ Priority(m) \in Priorities
    BY EventPriority
  <2>3. Enqueue(m, Loopback) /\ Loopback \in Classes BY <1>2 DEF QueueCode, Classes
  <2>4. m \in Slot(<<Priority(m), Loopback>>) BY <2>1 DEF Slot
  <2> HIDE DEF m
  <2>5. /\ Filed' /\ (dispatcher' = "handle" => dispatcher = "handle")
        /\ mqueue'[<<Priority(m), Loopback>>] = Append(mqueue[<<Priority(m), Loopback>>], m)
        /\ \A r \in Priorities \X Classes :
             r # <<Priority(m), Loopback>> => mqueue'[r] = mqueue[r]
    BY <2>2, <2>3, <2>4, Placed DEF Lined
  <2>6. ASSUME NEW c \in Classes, NEW p \in Priorities
        PROVE  NewQueue(c, p) \subseteq Queue(c, p) /\ Rising(mqueue'[<<p, c>>], Ordered(p))
    <3>1. Rising(mqueue[<<p, c>>], Ordered(p)) BY DEF Lined, Lines, Line
    <3>2. mqueue[<<p, c>>] \in Seq(Item) BY Contained DEF Lined
    <3>3. CASE <<p, c>> = <<Priority(m), Loopback>>
      <4>1. mqueue'[<<p, c>>] = Append(mqueue[<<p, c>>], m) BY <2>5, <3>3
      <4> QED BY <2>1, <3>1, <3>2, <4>1, EventAppended DEF NewQueue, Queue
    <3>4. CASE <<p, c>> # <<Priority(m), Loopback>>
      <4>1. mqueue'[<<p, c>>] = mqueue[<<p, c>>] BY <2>5, <3>4
      <4> QED BY <3>1, <4>1 DEF NewQueue, Queue
    <3> QED BY <3>3, <3>4
  <2> QED BY <2>5, <2>6 DEF QueueCalm
<1> QED BY <1>1, <1>2

(* fault() empties a class and may queue a reset.                          *)
LEMMA FaultCalm ==
  ASSUME Resets, Lined, NEW d \in Conn, FaultDiscards(d)
  PROVE  Filed' /\ QueueCalm /\ (dispatcher' = "handle" => dispatcher = "handle")
<1> DEFINE kept == [q \in Priorities \X Classes |-> IF q[2] = d THEN <<>> ELSE mqueue[q]]
           m == Code("reset", d)
           at == <<QueuePriority(m), Loopback>>
<1>1. \/ mqueue' = kept
      \/ mqueue' = [kept EXCEPT ![at] = AtEnd(@, m)]
  BY DEF FaultDiscards
<1>2. dispatcher' = "handle" => dispatcher = "handle" BY DEF FaultDiscards, Signalled
<1>3. m \in Item /\ m.what = "reset" BY DEF Code, Item, Classes, Events
<1>4. at \in Priorities \X Classes
  BY EventPriority DEF Events, Classes
<1>5. /\ DOMAIN kept = Priorities \X Classes
      /\ \A q \in Priorities \X Classes : kept[q] = <<>> \/ kept[q] = mqueue[q]
  OBVIOUS
<1> HIDE DEF kept, m, at
<1>6. \A q \in Priorities \X Classes :
        mqueue'[q] = kept[q] \/ mqueue'[q] = Append(kept[q], m)
  <2>1. CASE mqueue' = kept BY <2>1
  <2>2. CASE mqueue' = [kept EXCEPT ![at] = AtEnd(@, m)] BY <1>4, <1>5, <2>2 DEF AtEnd
  <2> QED BY <1>1, <2>1, <2>2
<1>7. ASSUME NEW q \in Priorities \X Classes PROVE mqueue'[q] \in Seq(Slot(q))
  <2>1. m \in Slot(q) BY <1>3 DEF Slot
  <2>2. mqueue[q] \in Seq(Slot(q)) BY DEF Lined, Filed
  <2>3. kept[q] \in Seq(Slot(q))
    <3>1. <<>> \in Seq(Slot(q)) OBVIOUS
    <3> QED BY <1>5, <2>2, <3>1
  <2>4. Append(kept[q], m) \in Seq(Slot(q)) BY <2>1, <2>3, HasAppended
  <2> QED BY <1>6, <2>3, <2>4
<1>8. ASSUME NEW c \in Classes, NEW p \in Priorities
      PROVE  NewQueue(c, p) \subseteq Queue(c, p) /\ Rising(mqueue'[<<p, c>>], Ordered(p))
  <2> DEFINE q == <<p, c>>
  <2>1. q \in Priorities \X Classes OBVIOUS
  <2>2. Rising(mqueue[q], Ordered(p)) BY DEF Lined, Lines, Line
  <2>3. mqueue[q] \in Seq(Item) BY Contained DEF Lined
  <2> HIDE DEF q
  <2>4. kept[q] \in Seq(Item) /\ Rising(kept[q], Ordered(p))
        /\ Numbers(kept[q], Ordered(p)) \subseteq Numbers(mqueue[q], Ordered(p))
    <3>1. CASE kept[q] = <<>> BY <3>1, NoNumbers
    <3>2. CASE kept[q] = mqueue[q] BY <2>2, <2>3, <3>2
    <3> QED BY <1>5, <2>1, <3>1, <3>2
  <2>5. /\ Numbers(Append(kept[q], m), Ordered(p)) = Numbers(kept[q], Ordered(p))
        /\ Rising(Append(kept[q], m), Ordered(p))
    BY <1>3, <2>4, EventAppended
  <2>6. /\ Numbers(mqueue'[q], Ordered(p)) \subseteq Numbers(mqueue[q], Ordered(p))
        /\ Rising(mqueue'[q], Ordered(p))
    BY <1>6, <2>1, <2>4, <2>5
  <2> QED BY <2>6 DEF NewQueue, Queue, q
<1>9. Filed' BY <1>7, FiledPrimed
<1> QED BY <1>2, <1>8, <1>9 DEF QueueCalm
-----------------------------------------------------------------------------
(* Queueing a message, and calling a Dispatcher.                           *)
LEMMA MessagePlaced ==
  ASSUME Resets, Lined, AheadKept, seen' = seen, current' = current,
         NEW d \in Classes, NEW m \in Item, Enqueue(m, d), m.what = "msg", ~IsFast(m), m.con = d,
         m.n \in Ahead(d), Before({m.n}, Ahead(d)')
  PROVE  Lined'
<1>1. Priority(m) \in Priorities BY DEF Priority, Priorities, Low, High, Highest
<1>2. m \in Slot(<<Priority(m), d>>) BY DEF Slot, Ordered
<1>3. /\ Filed'
      /\ mqueue'[<<Priority(m), d>>] = Append(mqueue[<<Priority(m), d>>], m)
      /\ \A r \in Priorities \X Classes : r # <<Priority(m), d>> => mqueue'[r] = mqueue[r]
      /\ dispatcher' = "handle" => dispatcher = "handle"
  BY <1>1, <1>2, Placed DEF Lined
<1>4. Steady BY <1>3 DEF Steady
<1>5. ASSUME NEW c \in Classes, NEW p \in Priorities PROVE Line(c, p)'
  <2>1. Line(c, p) /\ NewHand(c, p) \subseteq Hand(c, p)
    BY <1>4, SteadyHand DEF Lined, Lines
  <2>2. mqueue[<<p, c>>] \in Seq(Item) BY Contained DEF Lined
  <2>3. CASE c = d /\ p = Priority(m)
    <3>1. mqueue'[<<p, c>>] = Append(mqueue[<<p, c>>], m) BY <1>3, <2>3
    <3>2. m.n \in Ahead(c) /\ Before({m.n}, Ahead(c)') BY <2>3
    <3> QED BY <2>1, <2>2, <3>1, <3>2, LineAppended
  <2>4. CASE ~(c = d /\ p = Priority(m))
    <3>1. mqueue'[<<p, c>>] = mqueue[<<p, c>>] BY <1>3, <2>4
    <3>2. NewQueue(c, p) = Queue(c, p) /\ Rising(mqueue'[<<p, c>>], Ordered(p))
      BY <2>1, <3>1 DEF NewQueue, Queue, Line
    <3> QED BY <2>1, <3>2, LineCalm
  <2> QED BY <2>3, <2>4
<1>6. InHand' BY <1>4, InHandKept DEF Lined
<1>7. Lines' BY <1>5 DEF Lines, Classes, Priorities, Low, Highest
<1> QED BY <1>3, <1>6, <1>7 DEF Lined

(* Calling a Dispatcher with an item.                                      *)
LEMMA Called ==
  ASSUME Resets, Lined, AheadKept, mqueue' = mqueue, NEW d \in Classes, NEW m \in Item, Told(d, m),
         Steady, \A p \in Priorities : m \in Ordered(p) => m.n \in Hand(d, p) /\ NewHand(d, p) = {}
  PROVE  Lined'
<1>1. /\ seen'[d] = Append(seen[d], m)
      /\ \A c \in Classes : c # d => seen'[c] = seen[c]
  <2>1. seen = [c \in Classes |-> seen[c]] BY DEF Resets, Contents, Reported
  <2> QED BY <2>1 DEF Told
<1>2. ASSUME NEW c \in Classes, NEW p \in Priorities PROVE Line(c, p)'
  <2>1. Line(c, p) /\ NewHand(c, p) \subseteq Hand(c, p)
    BY SteadyHand DEF Lined, Lines
  <2>2. seen[c] \in Seq(Item) BY Contained DEF Lined
  <2>3. CASE c = d BY <1>1, <2>1, <2>2, <2>3, LineTold
  <2>4. CASE c # d
    <3>1. NewQueue(c, p) = Queue(c, p) /\ Rising(mqueue'[<<p, c>>], Ordered(p))
      BY <2>1 DEF NewQueue, Queue, Line
    <3> QED BY <1>1, <2>1, <2>4, <3>1, LineCalm
  <2> QED BY <2>3, <2>4
<1>3. Filed' BY FiledPrimed DEF Lined, Filed
<1>4. InHand' BY InHandKept DEF Lined
<1>5. Lines' BY <1>2 DEF Lines, Classes, Priorities, Low, Highest
<1> QED BY <1>3, <1>4, <1>5 DEF Lined

(* clear_pipe() and queue_reset().                                         *)
LEMMA ResetCalm ==
  ASSUME Resets, Lined, AheadKept, NEW c \in Conn, ResetIfCleared(c), UNCHANGED <<seen, current>>
  PROVE  Lined'
<1>1. CASE UNCHANGED <<mqueue, dispatcher>> BY <1>1, LinesSame DEF Steady
<1>2. CASE QueueCode("reset", c)
  BY <1>2, EventsCalm, LinesCalm DEF Steady, Events
<1> QED BY <1>1, <1>2 DEF ResetIfCleared

(* accept().                                                               *)
LEMMA AcceptsInLine ==
  ASSUME Resets, Lined, AheadKept, NEW c \in Conn, AcceptStep(c)
  PROVE  Lined'
<1>1. CASE AcceptAnnounces(c)
  BY <1>1, EventsCalm, LinesCalm DEF AcceptAnnounces, Steady, Events
<1>2. CASE AcceptRefuses(c) BY <1>2, ResetCalm DEF AcceptRefuses
<1>3. CASE AcceptRegisters(c) \/ AcceptReplies(c)
  BY <1>3, LinesSame DEF AcceptRegisters, AcceptReplies, queueVars, dispatchVars, Steady
<1>4. CASE AcceptFails(c)
  BY <1>4, ResetCalm, LinesSame DEF AcceptFails, Steady
<1> QED BY <1>1, <1>2, <1>3, <1>4 DEF AcceptStep

(* The first half of fault() by the reader.                                *)
LEMMA ReaderFaultsInLine ==
  ASSUME Resets, Lined, AheadKept, NEW c \in Conn, ReadTagFails(c) \/ ReadBodyFails(c)
  PROVE  Lined'
<1>1. ReaderFault(c) /\ UNCHANGED <<seen, current>> BY DEF ReadTagFails, ReadBodyFails
<1>2. CASE FaultOnClosed(c) BY <1>1, <1>2, ResetCalm DEF FaultOnClosed
<1>3. CASE FaultOnLossy(c) \/ FaultOnLossless(c)
  BY <1>1, <1>3, LinesSame DEF FaultOnLossy, FaultOnLossless, Steady
<1> QED BY <1>1, <1>2, <1>3 DEF ReaderFault

(* The reader queues the last message its peer has sent.                   *)
LEMMA ReadInLine ==
  ASSUME Resets, FromPeers, Lined, AheadKept, NEW c \in Conn, QueueRead(c)
  PROVE  Lined'
<1> DEFINE m == frame[c]
<1>1. Enqueue(m, c) /\ ~IsFast(m) /\ UNCHANGED <<seen, current, received>> BY DEF QueueRead
<1>2. Holding(c) /\ m.what = "msg" /\ m.con = c /\ m.n <= received[c]
  BY DEF QueueRead, FromPeers, Holding
<1>3. m \in Item /\ c \in Classes /\ c # Loopback /\ m.n \in Nat /\ received[c] \in Nat
  <2>1. m \in Plain BY DEF Resets, Contents, Working
  <2>2. m \in Item /\ m.n \in Nat BY <2>1 DEF Plain, Item
  <2> QED BY <2>2, LoopbackIsNoConn DEF Classes, Resets, Contents, Working
<1>4. m.n \in Ahead(c) BY <1>2, <1>3 DEF Ahead
<1>5. Before({m.n}, Ahead(c)')
  <2>1. ~Holding(c)'
    <3>1. Reader(c, AfterTest(state[c])) /\ AfterTest(state[c]) \in {"done", "sleep", "tag"}
      BY DEF QueueRead, AfterTest
    <3>2. reader'[c] = AfterTest(state[c]) BY <3>1 DEF Reader, Resets, Control, Shape
    <3> QED BY <3>1, <3>2 DEF Holding
  <2>2. Ahead(c)' = Later(received[c]) BY <1>1, <1>3, <2>1 DEF Ahead, Later
  <2>3. \A k \in Later(received[c]) : m.n < k BY <1>2, <1>3 DEF Later
  <2> QED BY <2>2, <2>3 DEF Before
<1> HIDE DEF m
<1> QED BY <1>1, <1>2, <1>3, <1>4, <1>5, MessagePlaced

(* Fast dispatch goes past the lines.                                      *)
LEMMA FastInLine ==
  ASSUME Resets, FromPeers, Lined, AheadKept, NEW c \in Conn, BeginFast(c)
  PROVE  Lined'
<1>1. IsFast(frame[c]) BY DEF BeginFast, FromPeers
<1>2. \A p : frame[c] \notin Ordered(p) BY <1>1 DEF Ordered
<1>3. frame[c] \in Item /\ c \in Classes
  <2>1. frame[c] \in Plain BY DEF Resets, Contents, Working
  <2> QED BY <2>1 DEF Plain, Classes
<1>4. mqueue' = mqueue /\ Told(c, frame[c]) /\ Steady BY DEF BeginFast, dispatchVars, Steady
<1> QED BY <1>2, <1>3, <1>4, Called

(* The local delivery thread.                                              *)
LEMMA LocalInLine ==
  ASSUME Resets, FromLocal, Lined, AheadKept, LocalThread, sent_local' = sent_local
  PROVE  Lined'
<1>1. CASE LocalTakes \/ LocalSleeps \/ LocalExits
  BY <1>1, LinesSame DEF LocalTakes, LocalSleeps, LocalExits, dispatchVars, Steady
<1>2. CASE LocalDelivers
  <2> DEFINE m == in_hand
  <2>1. m \in LocalItem /\ Before({m.n}, Numbers(local_messages, Item))
    BY <1>2 DEF LocalDelivers, FromLocal
  <2>2. /\ m \in Item /\ m.what = "msg" /\ m.con = Loopback /\ Loopback \in Classes
        /\ m.n \in Nat /\ m.n <= sent_local /\ sent_local \in Nat
    BY <2>1 DEF LocalItem, Item, Classes, Resets, Contents, Working
  <2>3. current' = current BY <1>2 DEF LocalDelivers
  <2>4. CASE IsFast(m)
    <3>1. \A p : m \notin Ordered(p) BY <2>4 DEF Ordered
    <3>2. Told(Loopback, m) /\ mqueue' = mqueue /\ Steady
      BY <1>2, <2>4 DEF LocalDelivers, Steady
    <3> QED BY <2>2, <3>1, <3>2, Called
  <2>5. CASE ~IsFast(m)
    <3>1. Enqueue(m, Loopback) /\ seen' = seen BY <1>2, <2>5 DEF LocalDelivers
    <3>2. m.n \in Ahead(Loopback) BY <1>2 DEF LocalDelivers, Ahead
    <3>3. Ahead(Loopback)' = Numbers(local_messages, Item) \cup Later(sent_local)
      BY <1>2, <2>5 DEF LocalDelivers, Ahead, Numbers, Picked, Later
    <3>4. \A k \in Later(sent_local) : m.n < k BY <2>2 DEF Later
    <3>5. Before({m.n}, Ahead(Loopback)') BY <2>1, <3>3, <3>4 DEF Before
    <3> HIDE DEF m
    <3> QED BY <2>2, <2>3, <2>5, <3>1, <3>2, <3>5, MessagePlaced
  <2> QED BY <2>4, <2>5
<1> QED BY <1>1, <1>2 DEF LocalThread

(* The dispatch thread takes an item.                                      *)
LEMMA TakenInLine ==
  ASSUME Resets, Lined, AheadKept, Dequeue
  PROVE  Lined'
<1>1. PICK q \in NonEmpty : current' = Head(mqueue[q]) /\ mqueue' = [mqueue EXCEPT ![q] = Tail(@)]
  BY DEF Dequeue
<1>2. q \in Priorities \X Classes /\ mqueue[q] # <<>> BY DEF NonEmpty
<1>3. /\ mqueue'[q] = Tail(mqueue[q])
      /\ \A r \in Priorities \X Classes : r # q => mqueue'[r] = mqueue[r]
  BY <1>1, <1>2, Contained DEF Lined
<1>4. mqueue[q] \in Seq(Slot(q)) BY <1>2 DEF Lined, Filed
<1>5. current' \in Slot(q) /\ Tail(mqueue[q]) \in Seq(Slot(q))
  BY <1>1, <1>2, <1>4, HasTail
<1>6. dispatcher = "loop" /\ dispatcher' = "handle" /\ seen' = seen BY DEF Dequeue
<1>7. Filed'
  <2>1. \A r \in Priorities \X Classes : mqueue'[r] \in Seq(Slot(r))
    BY <1>3, <1>5 DEF Lined, Filed
  <2> QED BY <2>1, FiledPrimed
<1>8. InHand' BY <1>5 DEF InHand, Slot, Ordered, IsFast
<1>9. ASSUME NEW c \in Classes, NEW p \in Priorities PROVE Line(c, p)'
  <2>1. Line(c, p) BY DEF Lined, Lines
  <2>2. mqueue[<<p, c>>] \in Seq(Item) BY Contained DEF Lined
  <2>3. CASE q = <<p, c>> BY <1>1, <1>2, <1>3, <1>6, <2>1, <2>2, <2>3, LineTaken
  <2>4. CASE q # <<p, c>>
    <3>1. mqueue'[<<p, c>>] = mqueue[<<p, c>>] BY <1>3, <2>4
    <3>2. NewQueue(c, p) = Queue(c, p) /\ Rising(mqueue'[<<p, c>>], Ordered(p))
      BY <2>1, <3>1 DEF NewQueue, Queue, Line
    <3>3. ~(current'.con = c /\ current' \in Ordered(p))
      <4>1. q = <<q[1], q[2]>> BY <1>2
      <4>2. current' \in Ordered(p) => current'.con = q[2] /\ p = q[1]
        BY <1>5 DEF Slot, Ordered
      <4> QED BY <2>4, <4>1, <4>2
    <3>4. NewHand(c, p) = {} BY <3>3 DEF NewHand
    <3> QED BY <1>6, <2>1, <3>2, <3>4, LineCalm
  <2> QED BY <2>3, <2>4
<1>10. Lines' BY <1>9 DEF Lines, Classes, Priorities, Low, Highest
<1> QED BY <1>7, <1>8, <1>10 DEF Lined

(* The dispatch thread.                                                    *)
LEMMA DispatchInLine ==
  ASSUME Resets, Lined, AheadKept, DispatchThread
  PROVE  Lined'
<1>1. current \in Item /\ current.con \in Classes BY Contained DEF Lined, Item
<1>2. CASE DispatcherSleeps \/ DispatcherExits \/ DropMessage \/ EndDispatch
  BY <1>2, LinesSame DEF DispatcherSleeps, DispatcherExits, DropMessage, EndDispatch, Steady
<1>3. CASE HandleCode
  <2>1. \A p : current \notin Ordered(p) BY <1>3 DEF HandleCode, Ordered
  <2>2. Told(current.con, current) /\ mqueue' = mqueue /\ Steady BY <1>3 DEF HandleCode, Steady
  <2> QED BY <1>1, <2>1, <2>2, Called
<1>4. CASE BeginDispatch
  <2>1. Told(current.con, current) /\ mqueue' = mqueue /\ Steady
    BY <1>4 DEF BeginDispatch, Steady
  <2>2. \A p : current \in Ordered(p) =>
          current.n \in Hand(current.con, p) /\ NewHand(current.con, p) = {}
    BY <1>4 DEF BeginDispatch, Hand, NewHand
  <2> QED BY <1>1, <2>1, <2>2, Called
<1> QED BY <1>2, <1>3, <1>4, TakenInLine DEF DispatchThread

(* All actions.                                                            *)
LEMMA LinedKept ==
  ASSUME Resets, FromPeers, FromLocal, Lined, AheadKept, [Next]_vars
  PROVE  Lined'
<1>1. CASE UNCHANGED <<mqueue, seen, current>> /\ (dispatcher' = "handle" => dispatcher = "handle")
  BY <1>1, LinesSame DEF Steady
<1>2. ASSUME NEW c \in Conn, ReaderFaulted(c) \/ WriterFaulted(c) PROVE Lined'
  <2>1. FaultDiscards(c) BY <1>2 DEF ReaderFaulted, WriterFaulted
  <2>2. UNCHANGED <<seen, current>> BY <2>1 DEF FaultDiscards
  <2> QED BY <2>1, <2>2, FaultCalm, LinesCalm DEF Steady
<1>3. ASSUME NEW c \in Conn, MarkDown(c) PROVE Lined'
  BY <1>3, ResetCalm DEF MarkDown
<1>4. ASSUME NEW c \in Conn, \/ AddAcceptPipe(c) \/ ReadHeader(c) \/ TakeThrottle(c) \/ DropRead(c)
                             \/ UnlockForFast(c) \/ EndFast(c) \/ ReaderExits(c)
                             \/ WriteFails(c) \/ WriterExits(c) \/ QueueReap(c) \/ WaitStopsPipe(c)
      PROVE  Lined'
  <2>1. CASE WriteFails(c) /\ FaultOnClosed(c)
    BY <2>1, ResetCalm DEF WriteFails, FaultOnClosed
  <2>2. CASE WriteFails(c) /\ (FaultOnLossy(c) \/ FaultOnLossless(c))
    BY <1>1, <2>2 DEF WriteFails, FaultOnLossy, FaultOnLossless
  <2>3. CASE ~WriteFails(c)
    BY <1>1, <1>4, <2>3 DEF AddAcceptPipe, ReadHeader, TakeThrottle, DropRead, UnlockForFast,
       EndFast, ReaderExits, WriterExits, QueueReap, WaitStopsPipe, queueVars, dispatchVars
  <2> QED BY <2>1, <2>2, <2>3 DEF WriteFails
<1>5. CASE LocalThread /\ UNCHANGED restVars
  BY <1>5, LocalInLine DEF restVars
<1>6. CASE \/ ReaperReaps \/ ReaperExits \/ SubmitLocal \/ BeginShutdown \/ EndShutdown \/ WaitReaps
  BY <1>1, <1>6 DEF ReaperReaps, WaitReaps, Reap, ReaperExits, SubmitLocal, LocalDelivery,
     BeginShutdown, EndShutdown, queueVars, dispatchVars
<1>7. CASE \/ WaitStopsAccepter \/ WaitStopsLocal \/ WaitStopsDispatch \/ WaitJoins
           \/ WaitStopsReaper \/ WaitTakesLock \/ WaitClearsPipe \/ WaitDropsLock \/ WaitReturns
  BY <1>1, <1>7 DEF WaitStopsAccepter, WaitStopsLocal, WaitStopsDispatch, WaitJoins,
     WaitStopsReaper, WaitTakesLock, WaitClearsPipe, WaitDropsLock, WaitReturns, StopLocal,
     StopDispatch, StopSignal, Signalled, DiscardLocal, queueVars, dispatchVars
<1>8. CASE UNCHANGED vars BY <1>1, <1>8 DEF vars, queueVars, dispatchVars
<1> QED BY <1>2, <1>3, <1>4, <1>5, <1>6, <1>7, <1>8, AcceptsInLine, ReaderFaultsInLine, ReadInLine,
        FastInLine, DispatchInLine
     DEF Next, PipeStep, ReaderStep, WaitStep
-----------------------------------------------------------------------------
(* Announcing connections.                                                 *)
AnnouncedFirst == Announcing /\ AcceptFirst
EventsKept ==
  \A c \in Conn : Has(mqueue[EventQueue], Accept(c)) => Has(mqueue'[EventQueue], Accept(c))
Idle  == {"loop", "wait", "exit"}
Woken == dispatcher' = dispatcher \/ (dispatcher \in Idle /\ dispatcher' \in Idle)

(* The numbers in a queue after a step.                                    *)
LEMMA QueuePrimed == \A c, p : Queue(c, p)' = NewQueue(c, p)
BY DEF Queue, NewQueue, Numbers, Picked, Ordered, IsFast, Priority

(* A connection whose Dispatchers are not called.                          *)
LEMMA SeenKept ==
  ASSUME AcceptFirst, NEW c \in Conn, seen'[c] = seen[c], NEW p \in Priorities,
         NEW i \in Delivered(seen'[c], p)
  PROVE  \E j \in 1..(i - 1) : seen'[c][j].what = "accept"
BY DEF AcceptFirst

(* AcceptFirst after a step.                                               *)
LEMMA FirstPrimed ==
  ASSUME \A c \in Conn : \A p \in Priorities : \A i \in Delivered(seen'[c], p) :
            \E j \in 1..(i - 1) : seen'[c][j].what = "accept"
  PROVE  AcceptFirst'
BY DEF AcceptFirst, Delivered, Priorities, Low, Highest, IsFast, Priority

(* Steps that call no Dispatcher and take nothing from the queue.          *)
LEMMA Onward ==
  ASSUME AnnouncedFirst, UNCHANGED <<seen, current>>, Woken, EventsKept,
         \A c \in Conn : \/ Has(mqueue'[EventQueue], Accept(c))
                         \/ /\ reader'[c] \in Inside => Entered(c)
                            /\ \A p \in Priorities : NewQueue(c, p) # {} => Entered(c)
  PROVE  AnnouncedFirst'
<1>1. AcceptFirst'
  BY SeenKept, FirstPrimed DEF AnnouncedFirst
<1>2. ASSUME NEW c \in Conn, Entered(c)' PROVE Announced(c)'
  <2>1. Entered(c) \/ Has(mqueue'[EventQueue], Accept(c))
    BY <1>2, QueuePrimed DEF Entered, Inside, Priorities, Low, Highest
  <2>2. Announced(c) \/ Has(mqueue'[EventQueue], Accept(c))
    BY <2>1 DEF AnnouncedFirst, Announcing
  <2>3. Has(seen'[c], Accept(c)) \/ Has(mqueue'[EventQueue], Accept(c)) \/ current' = Accept(c)
    BY <2>2 DEF Announced, EventsKept
  <2> QED BY <2>3 DEF Announced, Has, EventQueue, Accept, Code
<1>3. ASSUME NEW c \in Conn, dispatcher' = "handle", current'.what = "msg", current'.con = c
      PROVE  Has(seen[c], Accept(c))'
  <2>1. Has(seen[c], Accept(c)) BY <1>3 DEF Woken, Idle, AnnouncedFirst, Announcing
  <2> QED BY <2>1 DEF Has, Accept, Code
<1>4. /\ dispatcher' \in {"loop", "wait", "exit"} => current' = Nothing
      /\ dispatcher' = "dispatch" => current'.what = "msg"
  BY DEF Woken, Idle, AnnouncedFirst, Announcing
<1> QED BY <1>1, <1>2, <1>3, <1>4 DEF AnnouncedFirst, Announcing, Nothing, Code

(* Steps that put no message in a queue.                                   *)
LEMMA OnwardCalm ==
  ASSUME AnnouncedFirst, UNCHANGED <<seen, current>>, Woken, EventsKept, QueueCalm,
         \A c \in Conn : reader'[c] \in Inside => reader[c] \in Inside
  PROVE  AnnouncedFirst'
<1>1. ASSUME NEW c \in Conn
      PROVE  /\ reader'[c] \in Inside => Entered(c)
             /\ \A p \in Priorities : NewQueue(c, p) # {} => Entered(c)
  BY DEF Entered, QueueCalm, Classes
<1> QED BY <1>1, Onward

(* Steps that leave the queue alone.                                       *)
LEMMA OnwardSame ==
  ASSUME Lined, AnnouncedFirst, UNCHANGED <<mqueue, seen, current>>, Woken,
         \A c \in Conn : reader'[c] \in Inside => reader[c] \in Inside
  PROVE  AnnouncedFirst'
<1>1. EventsKept BY DEF EventsKept
<1>2. QueueCalm BY DEF QueueCalm, NewQueue, Queue, Lined, Lines, Line
<1> QED BY <1>1, <1>2, OnwardCalm

(* A queue that holds an event still holds it when another is added.       *)
LEMMA EventsGrow ==
  ASSUME Resets, NEW m, m \in Proper,
         mqueue'[EventQueue] \in {mqueue[EventQueue], Append(mqueue[EventQueue], m)}
  PROVE  EventsKept
<1>1. mqueue[EventQueue] \in Seq(Proper) BY QueuesAreItems DEF Resets
<1>2. \A c \in Conn : Has(mqueue[EventQueue], Accept(c))
                        => Has(Append(mqueue[EventQueue], m), Accept(c))
  BY <1>1, HasAppended
<1> QED BY <1>2 DEF EventsKept

(* queue_accept() and queue_reset() add an event, unless stopped.          *)
LEMMA EventWaits ==
  ASSUME Resets, Lined, NEW what \in Events, NEW c \in Conn, QueueCode(what, c)
  PROVE  /\ EventsKept /\ Woken
         /\ ~stop => Has(mqueue'[EventQueue], Code(what, c))
<1>1. CASE stop BY <1>1 DEF QueueCode, EventsKept, Woken
<1>2. CASE ~stop
  <2> DEFINE m == Code(what, c)
  <2>1. m \in Item /\ m \in Proper /\ Priority(m) = Highest /\ Highest \in Priorities /\ m.what # "msg"
    <3>1. m \in Proper BY Items DEF Events, Reset
    <3> QED BY <3>1, EventPriority DEF Proper
  <2>2. Enqueue(m, Loopback) /\ Loopback \in Classes BY <1>2 DEF QueueCode, Classes
  <2>3. m \in Slot(<<Priority(m), Loopback>>) BY <2>1 DEF Slot
  <2> HIDE DEF m
  <2>4. mqueue'[EventQueue] = Append(mqueue[EventQueue], m)
    BY <2>1, <2>2, <2>3, Placed DEF Lined, EventQueue
  <2>5. mqueue[EventQueue] \in Seq(Proper) BY QueuesAreItems DEF Resets
  <2>6. Has(mqueue'[EventQueue], m) BY <2>1, <2>4, <2>5, HasAppended
  <2>7. EventsKept BY <2>1, <2>4, EventsGrow
  <2>8. Woken BY <2>2 DEF Enqueue, Signalled, Woken, Idle
  <2> QED BY <2>6, <2>7, <2>8 DEF m
<1> QED BY <1>1, <1>2

(* clear_pipe() and queue_reset().                                         *)
LEMMA ResetOnward ==
  ASSUME Resets, Lined, AnnouncedFirst, NEW c \in Conn, ResetIfCleared(c),
         UNCHANGED <<seen, current>>, \A d \in Conn : reader'[d] \in Inside => reader[d] \in Inside
  PROVE  AnnouncedFirst'
<1>1. CASE UNCHANGED <<mqueue, dispatcher>> BY <1>1, OnwardSame DEF Woken
<1>2. CASE QueueCode("reset", c)
  BY <1>2, EventsCalm, EventWaits, OnwardCalm DEF Events
<1> QED BY <1>1, <1>2 DEF ResetIfCleared

(* The second half of fault().                                             *)
LEMMA FaultOnward ==
  ASSUME Resets, Lined, AnnouncedFirst, NEW d \in Conn, FaultDiscards(d),
         \A c \in Conn : reader'[c] \in Inside => reader[c] \in Inside
  PROVE  AnnouncedFirst'
<1>1. QueueCalm /\ UNCHANGED <<seen, current>> BY FaultCalm DEF FaultDiscards
<1>2. Woken BY DEF FaultDiscards, Signalled, Woken, Idle
<1> DEFINE kept == [q \in Priorities \X Classes |-> IF q[2] = d THEN <<>> ELSE mqueue[q]]
           m == Code("reset", d)
           at == <<QueuePriority(m), Loopback>>
<1>3. \/ mqueue' = kept
      \/ mqueue' = [kept EXCEPT ![at] = AtEnd(@, m)]
  BY DEF FaultDiscards
<1>4. m \in Proper /\ at = EventQueue
  BY Items, EventPriority DEF Reset, Events, EventQueue
<1>5. DOMAIN kept = Priorities \X Classes /\ kept[EventQueue] = mqueue[EventQueue]
      /\ EventQueue \in Priorities \X Classes
  BY QueuesAreItems, LoopbackIsNoConn DEF EventQueue, Resets
<1> HIDE DEF kept, m, at
<1>6. mqueue'[EventQueue] \in {mqueue[EventQueue], Append(mqueue[EventQueue], m)}
  BY <1>3, <1>4, <1>5 DEF AtEnd
<1>7. EventsKept BY <1>4, <1>6, EventsGrow
<1> QED BY <1>1, <1>2, <1>7, OnwardCalm

(* A message comes to a queue of its connection, which has been announced. *)
LEMMA MessageOnward ==
  ASSUME Resets, Lined, AnnouncedFirst, UNCHANGED <<seen, current>>,
         NEW d \in Classes, NEW m \in Plain, Enqueue(m, d), m.what = "msg", ~IsFast(m), m.con = d,
         d \in Conn => Entered(d), \A c \in Conn : reader'[c] \in Inside => reader[c] \in Inside
  PROVE  AnnouncedFirst'
<1>1. Priority(m) \in Priorities BY DEF Priority, Priorities, Low, High, Highest
<1>2. m \in Item /\ m \in Proper BY Items
<1>3. m \in Slot(<<Priority(m), d>>) BY <1>2 DEF Slot, Ordered
<1>4. /\ mqueue'[<<Priority(m), d>>] = Append(mqueue[<<Priority(m), d>>], m)
      /\ \A r \in Priorities \X Classes : r # <<Priority(m), d>> => mqueue'[r] = mqueue[r]
  BY <1>1, <1>3, Placed DEF Lined
<1>5. mqueue'[EventQueue] \in {mqueue[EventQueue], Append(mqueue[EventQueue], m)}
  <2>1. EventQueue \in Priorities \X Classes BY QueuesAreItems DEF Resets
  <2> QED BY <1>4, <2>1
<1>6. EventsKept BY <1>2, <1>5, EventsGrow
<1>7. Woken BY DEF Enqueue, Signalled, Woken, Idle
<1>8. ASSUME NEW c \in Conn, NEW p \in Priorities, NewQueue(c, p) # {} PROVE Entered(c)
  <2>1. CASE c = d BY <2>1
  <2>2. CASE c # d
    <3>1. mqueue'[<<p, c>>] = mqueue[<<p, c>>] BY <1>4, <2>2 DEF Classes
    <3>2. Queue(c, p) # {} BY <1>8, <3>1 DEF Queue, NewQueue
    <3> QED BY <3>2 DEF Entered
  <2> QED BY <2>1, <2>2
<1>9. \A c \in Conn : reader'[c] \in Inside => Entered(c) BY DEF Entered
<1> QED BY <1>6, <1>7, <1>8, <1>9, Onward

(* A Dispatcher is called: with a message only if the event was seen.      *)
LEMMA SeenGrows ==
  ASSUME Resets, NEW d \in Classes, NEW m \in SeenBy(d), Told(d, m)
  PROVE  /\ \A c \in Classes : c # d => seen'[c] = seen[c]
         /\ seen'[d] = Append(seen[d], m) /\ seen[d] \in Seq(SeenBy(d))
         /\ \A c \in Classes : \A a :
              Has(seen'[c], a) <=> Has(seen[c], a) \/ (c = d /\ m = a)
<1>1. seen = [c \in Classes |-> seen[c]] /\ \A c \in Classes : seen[c] \in Seq(SeenBy(c))
  BY DEF Resets, Contents, Reported
<1>2. /\ seen'[d] = Append(seen[d], m)
      /\ \A c \in Classes : c # d => seen'[c] = seen[c]
  BY <1>1 DEF Told
<1>3. \A a : Has(Append(seen[d], m), a) <=> Has(seen[d], a) \/ m = a
  BY <1>1, HasAppended
<1> QED BY <1>1, <1>2, <1>3

(* A message is told after its event.                                      *)
LEMMA FirstKept ==
  ASSUME Resets, AcceptFirst, NEW d \in Classes, NEW m \in SeenBy(d), Told(d, m),
         d \in Conn /\ m.what = "msg" /\ ~IsFast(m) => Has(seen[d], Accept(d))
  PROVE  AcceptFirst'
<1> SUFFICES ASSUME NEW c \in Conn, NEW p \in Priorities, NEW i \in Delivered(seen'[c], p)
             PROVE  \E j \in 1..(i - 1) : seen'[c][j].what = "accept"
  BY FirstPrimed
<1>1. CASE c # d
  <2>1. seen'[c] = seen[c] BY <1>1, SeenGrows DEF Classes
  <2> QED BY <2>1, SeenKept
<1>2. CASE c = d
  <2> DEFINE s == seen[c]
  <2>1. seen'[c] = Append(s, m) /\ s \in Seq(SeenBy(c)) BY <1>2, SeenGrows
  <2>2. /\ DOMAIN s = 1..Len(s) /\ Len(s) \in Nat /\ DOMAIN seen'[c] = 1..(Len(s) + 1)
        /\ \A j \in 1..Len(s) : seen'[c][j] = s[j]
        /\ seen'[c][Len(s) + 1] = m
    BY <2>1
  <2>3. i \in 1..(Len(s) + 1) BY <2>2 DEF Delivered
  <2>4. CASE i \in 1..Len(s)
    <3>1. i \in Delivered(s, p) BY <2>2, <2>4 DEF Delivered
    <3>2. PICK j \in 1..(i - 1) : s[j].what = "accept" BY <3>1 DEF AnnouncedFirst, AcceptFirst
    <3>3. j \in 1..Len(s) BY <2>2, <2>4
    <3> QED BY <2>2, <3>2, <3>3
  <2>5. CASE i = Len(s) + 1
    <3>1. m.what = "msg" /\ ~IsFast(m) BY <2>2, <2>5 DEF Delivered
    <3>2. PICK j \in 1..Len(s) : s[j] = Accept(c) BY <1>2, <2>2, <3>1 DEF Has
    <3>3. j \in 1..(i - 1) /\ seen'[c][j].what = "accept"
      BY <2>2, <2>5, <3>2 DEF Accept, Code
    <3> QED BY <3>3
  <2> QED BY <2>2, <2>3, <2>4, <2>5
<1> QED BY <1>1, <1>2

(* Fast dispatch.                                                          *)
LEMMA FastOnward ==
  ASSUME Resets, FromPeers, Lined, AnnouncedFirst, NEW d \in Classes, NEW m \in Plain, Told(d, m),
         IsFast(m), UNCHANGED <<mqueue, dispatcher, current>>,
         \A c \in Conn : reader'[c] \in Inside => reader[c] \in Inside
  PROVE  AnnouncedFirst'
<1>1. m \in SeenBy(d) BY Items
<1>2. AcceptFirst' BY <1>1, FirstKept DEF AnnouncedFirst
<1>3. \A c \in Conn : Has(seen[c], Accept(c)) => Has(seen'[c], Accept(c))
  BY <1>1, SeenGrows DEF Classes
<1>4. ASSUME NEW c \in Conn PROVE Entered(c)' => Announced(c)'
  <2>1. Entered(c)' => Entered(c)
    BY QueuePrimed DEF Entered, Inside, Priorities, Low, Highest, NewQueue, Queue
  <2>2. Announced(c) => Announced(c)' BY <1>3 DEF Announced, Has, EventQueue, Accept, Code
  <2> QED BY <2>1, <2>2 DEF AnnouncedFirst, Announcing
<1>5. ASSUME NEW c \in Conn, dispatcher' = "handle", current'.what = "msg", current'.con = c
      PROVE  Has(seen[c], Accept(c))'
  <2>1. Has(seen'[c], Accept(c)) BY <1>3, <1>5 DEF AnnouncedFirst, Announcing
  <2> QED BY <2>1 DEF Has, Accept, Code
<1>6. /\ dispatcher' \in {"loop", "wait", "exit"} => current' = Nothing
      /\ dispatcher' = "dispatch" => current'.what = "msg"
  BY DEF AnnouncedFirst, Announcing
<1> QED BY <1>2, <1>4, <1>5, <1>6 DEF AnnouncedFirst, Announcing, Nothing, Code

(* The dispatch thread takes the item of the highest priority: no message  *)
(* while an event waits.                                                   *)
LEMMA TakenOnward ==
  ASSUME Resets, Lined, AnnouncedFirst, Dequeue, reader' = reader
  PROVE  AnnouncedFirst'
<1>1. PICK q \in NonEmpty : /\ \A r \in NonEmpty : r[1] <= q[1]
                            /\ current' = Head(mqueue[q])
                            /\ mqueue' = [mqueue EXCEPT ![q] = Tail(@)]
  BY DEF Dequeue
<1>2. q \in Priorities \X Classes /\ mqueue[q] # <<>> BY DEF NonEmpty
<1>3. /\ mqueue'[q] = Tail(mqueue[q])
      /\ \A r \in Priorities \X Classes : r # q => mqueue'[r] = mqueue[r]
  BY <1>1, <1>2, Contained DEF Lined
<1>4. mqueue[q] \in Seq(Slot(q)) /\ mqueue[q] \in Seq(Item)
  BY <1>2, Contained DEF Lined, Filed
<1>5. current' \in Slot(q) BY <1>1, <1>2, <1>4, HasTail
<1>6. dispatcher = "loop" /\ dispatcher' = "handle" /\ seen' = seen BY DEF Dequeue
<1>7. current = Nothing /\ \A c \in Conn : current # Accept(c)
  BY <1>6, LoopbackIsNoConn DEF AnnouncedFirst, Announcing, Nothing, Accept, Code
<1>8. AcceptFirst' BY <1>6, SeenKept, FirstPrimed DEF AnnouncedFirst
<1>9. ASSUME NEW c \in Conn, Has(mqueue[EventQueue], Accept(c))
      PROVE  Has(mqueue'[EventQueue], Accept(c)) \/ current' = Accept(c)
  <2>1. CASE q = EventQueue
    <3>1. Has(mqueue[q], Accept(c)) => Head(mqueue[q]) = Accept(c) \/ Has(Tail(mqueue[q]), Accept(c))
      BY <1>2, <1>4, HasTail
    <3> QED BY <1>1, <1>3, <1>9, <2>1, <3>1
  <2>2. CASE q # EventQueue
    <3>1. mqueue'[EventQueue] = mqueue[EventQueue] BY <1>3, <2>2, QueuesAreItems DEF Resets
    <3> QED BY <1>9, <3>1
  <2> QED BY <2>1, <2>2
<1>10. ASSUME NEW c \in Conn, Entered(c)' PROVE Announced(c)'
  <2>1. Entered(c)
    <3>1. CASE reader'[c] \in Inside BY <3>1 DEF Entered
    <3>2. ASSUME NEW p \in Priorities, NewQueue(c, p) # {} PROVE Entered(c)
      <4>1. CASE <<p, c>> = q
        <5>1. Numbers(mqueue[q], Ordered(p)) = Numbers(Tail(mqueue[q]), Ordered(p))
                \cup (IF Head(mqueue[q]) \in Ordered(p) THEN {Head(mqueue[q]).n} ELSE {})
          BY <1>2, <1>4, NumbersTail
        <5>2. Queue(c, p) # {} BY <1>3, <3>2, <4>1, <5>1 DEF NewQueue, Queue
        <5> QED BY <5>2 DEF Entered
      <4>2. CASE <<p, c>> # q
        <5>1. mqueue'[<<p, c>>] = mqueue[<<p, c>>] BY <1>3, <4>2 DEF Classes
        <5>2. Queue(c, p) # {} BY <3>2, <5>1 DEF NewQueue, Queue
        <5> QED BY <5>2 DEF Entered
      <4> QED BY <4>1, <4>2
    <3> QED BY <1>10, <3>1, <3>2, QueuePrimed DEF Entered, Inside, Priorities, Low, Highest
  <2>2. Has(seen[c], Accept(c)) \/ Has(mqueue[EventQueue], Accept(c))
    BY <1>7, <2>1 DEF AnnouncedFirst, Announcing, Announced
  <2>3. Has(seen'[c], Accept(c)) \/ Has(mqueue'[EventQueue], Accept(c)) \/ current' = Accept(c)
    BY <1>6, <1>9, <2>2
  <2> QED BY <2>3 DEF Announced, Has, EventQueue, Accept, Code
<1>11. ASSUME NEW c \in Conn, current'.what = "msg", current'.con = c
       PROVE  Has(seen[c], Accept(c))'
  <2>1. q[2] = c /\ current' \in Ordered(q[1]) BY <1>5, <1>11 DEF Slot
  <2>2. q[1] # Highest
    <3>1. Priority(current') = q[1] /\ current'.what = "msg" BY <2>1 DEF Ordered
    <3>2. Priority(current') \in {Low, High}
      <4>1. CASE current'.kind = "high" BY <3>1, <4>1 DEF Priority
      <4>2. CASE current'.kind # "high" BY <3>1, <4>2 DEF Priority
      <4> QED BY <4>1, <4>2
    <3> QED BY <3>1, <3>2 DEF Low, High, Highest
  <2>3. mqueue[EventQueue] = <<>>
    <3>1. EventQueue \in Priorities \X Classes BY QueuesAreItems DEF Resets
    <3>2. ~(Highest <= q[1]) BY <1>2, <2>2 DEF Priorities, Low, Highest
    <3> QED BY <1>1, <3>1, <3>2 DEF NonEmpty, EventQueue
  <2>4. ~Has(mqueue[EventQueue], Accept(c)) BY <2>3 DEF Has
  <2>5. Entered(c)
    <3>1. q[1] \in Priorities /\ q = <<q[1], c>> BY <1>2, <2>1
    <3>2. Numbers(mqueue[q], Ordered(q[1])) = Numbers(Tail(mqueue[q]), Ordered(q[1]))
            \cup (IF Head(mqueue[q]) \in Ordered(q[1]) THEN {Head(mqueue[q]).n} ELSE {})
      BY <1>2, <1>4, NumbersTail
    <3>3. Queue(c, q[1]) # {} BY <1>1, <2>1, <3>1, <3>2 DEF Queue
    <3> QED BY <3>1, <3>3 DEF Entered
  <2>6. Has(seen[c], Accept(c))
    BY <1>7, <2>4, <2>5 DEF AnnouncedFirst, Announcing, Announced
  <2> QED BY <1>6, <2>6 DEF Has, Accept, Code
<1> QED BY <1>6, <1>8, <1>10, <1>11 DEF AnnouncedFirst, Announcing

(* The dispatch thread.                                                    *)
LEMMA DispatchOnward ==
  ASSUME Resets, Lined, AnnouncedFirst, DispatchThread, reader' = reader
  PROVE  AnnouncedFirst'
<1>1. CASE Dequeue BY <1>1, TakenOnward
<1>2. CASE DispatcherSleeps \/ DispatcherExits
  BY <1>2, OnwardSame DEF DispatcherSleeps, DispatcherExits, Woken, Idle
<1> DEFINE d == current.con
<1>3. d \in Classes /\ current \in SeenBy(d)
  BY DEF Resets, Contents, Reported, Proper, SeenBy, Item
<1>4. ASSUME mqueue' = mqueue, current' = Nothing /\ dispatcher' = "loop", AcceptFirst',
             \A c \in Conn : Has(seen[c], Accept(c)) \/ current = Accept(c)
                               => Has(seen'[c], Accept(c))
      PROVE  AnnouncedFirst'
  <2>1. ASSUME NEW c \in Conn PROVE Entered(c)' => Announced(c)'
    <3>1. Entered(c)' => Entered(c)
      BY <1>4, QueuePrimed DEF Entered, Inside, Priorities, Low, Highest, NewQueue, Queue
    <3>2. Announced(c) => Has(seen'[c], Accept(c)) \/ Has(mqueue'[EventQueue], Accept(c))
      BY <1>4 DEF Announced
    <3>3. Announced(c) => Announced(c)' BY <3>2 DEF Announced, Has, EventQueue, Accept, Code
    <3> QED BY <3>1, <3>3 DEF AnnouncedFirst, Announcing
  <2> QED BY <1>4, <2>1 DEF AnnouncedFirst, Announcing, Nothing, Code
<1>5. CASE HandleCode
  <2>1. AcceptFirst' BY <1>3, <1>5, FirstKept DEF HandleCode, AnnouncedFirst
  <2>2. Told(d, current) /\ mqueue' = mqueue /\ current' = Nothing /\ dispatcher' = "loop"
    BY <1>5 DEF HandleCode
  <2>3. ASSUME NEW c \in Conn, Has(seen[c], Accept(c)) \/ current = Accept(c)
        PROVE  Has(seen'[c], Accept(c))
    <3>1. Has(seen'[c], Accept(c)) <=> Has(seen[c], Accept(c)) \/ (c = d /\ current = Accept(c))
      BY <1>3, <2>2, SeenGrows DEF Classes
    <3>2. current = Accept(c) => c = d BY DEF Accept, Code
    <3> QED BY <2>3, <3>1, <3>2
  <2> QED BY <1>4, <2>1, <2>2, <2>3
<1>6. CASE DropMessage \/ EndDispatch
  <2>1. /\ UNCHANGED <<mqueue, seen>> /\ current' = Nothing /\ dispatcher' = "loop"
        /\ current.what = "msg"
    BY <1>6 DEF DropMessage, EndDispatch, AnnouncedFirst, Announcing
  <2>2. \A c \in Conn : current # Accept(c) BY <2>1 DEF Accept, Code
  <2>3. AcceptFirst' BY <2>1, SeenKept, FirstPrimed DEF AnnouncedFirst
  <2> QED BY <1>4, <2>1, <2>2, <2>3
<1>7. CASE BeginDispatch
  <2>1. /\ Told(d, current) /\ UNCHANGED <<mqueue, current>> /\ dispatcher' = "dispatch"
        /\ dispatcher = "handle" /\ current.what = "msg"
    BY <1>7 DEF BeginDispatch
  <2>2. AcceptFirst' BY <1>3, <2>1, FirstKept DEF AnnouncedFirst, Announcing
  <2>3. \A c \in Conn : Has(seen[c], Accept(c)) => Has(seen'[c], Accept(c))
    BY <1>3, <2>1, SeenGrows DEF Classes
  <2>4. ASSUME NEW c \in Conn PROVE Entered(c)' => Announced(c)'
    <3>1. Entered(c)' => Entered(c)
      BY <2>1, QueuePrimed DEF Entered, Inside, Priorities, Low, Highest, NewQueue, Queue
    <3>2. Announced(c) => Announced(c)'
      BY <2>1, <2>3 DEF Announced, Has, EventQueue, Accept, Code
    <3> QED BY <3>1, <3>2 DEF AnnouncedFirst, Announcing
  <2> QED BY <2>1, <2>2, <2>4 DEF AnnouncedFirst, Announcing
<1> QED BY <1>1, <1>2, <1>5, <1>6, <1>7 DEF DispatchThread

(* All actions.                                                            *)
LEMMA ReaderInside ==
  ASSUME Resets, NEW c \in Conn, NEW pc, Reader(c, pc), pc \notin Inside \/ reader[c] \in Inside
  PROVE  \A d \in Conn : reader'[d] \in Inside => reader[d] \in Inside
BY DEF Reader, Resets, Control, Shape

LEMMA AnnouncedKept ==
  ASSUME Resets, FromPeers, FromLocal, Lined, AnnouncedFirst, [Next]_vars
  PROVE  AnnouncedFirst'
<1> DEFINE Backwards == \A d \in Conn : reader'[d] \in Inside => reader[d] \in Inside
<1>1. CASE UNCHANGED <<mqueue, seen, current>> /\ Woken /\ Backwards
  BY <1>1, OnwardSame
<1>2. \A s : AfterTest(s) \in {"done", "sleep", "tag"} BY DEF AfterTest
<1>3. ASSUME NEW c \in Conn, AcceptAnnounces(c) PROVE AnnouncedFirst'
  <2>1. QueueCode("accept", c) /\ ~stop /\ Reader(c, "announced") /\ UNCHANGED <<seen, current>>
    BY <1>3 DEF AcceptAnnounces, ShuttingDown
  <2>2. QueueCalm /\ EventsKept /\ Woken /\ Has(mqueue'[EventQueue], Accept(c))
    BY <2>1, EventsCalm, EventWaits DEF Events, Accept
  <2>3. \A d \in Conn : d # c => reader'[d] = reader[d]
    BY <2>1 DEF Reader, Resets, Control, Shape
  <2>4. ASSUME NEW d \in Conn, ~Has(mqueue'[EventQueue], Accept(d))
        PROVE  /\ reader'[d] \in Inside => Entered(d)
               /\ \A p \in Priorities : NewQueue(d, p) # {} => Entered(d)
    BY <2>2, <2>3, <2>4 DEF Entered, QueueCalm, Classes
  <2> QED BY <2>1, <2>2, <2>4, Onward
<1>4. ASSUME NEW c \in Conn, AcceptRefuses(c) \/ AcceptFails(c) PROVE AnnouncedFirst'
  <2>1. Reader(c, "done") /\ UNCHANGED <<seen, current>> BY <1>4 DEF AcceptRefuses, AcceptFails
  <2>2. Backwards BY <2>1, ReaderInside DEF Inside
  <2>3. ResetIfCleared(c) \/ UNCHANGED <<mqueue, dispatcher>>
    BY <1>4 DEF AcceptRefuses, AcceptFails
  <2> QED BY <1>1, <2>1, <2>2, <2>3, ResetOnward DEF Woken
<1>5. ASSUME NEW c \in Conn, \/ AcceptRegisters(c) \/ AcceptReplies(c) \/ AddAcceptPipe(c)
                             \/ ReadHeader(c) \/ TakeThrottle(c) \/ DropRead(c) \/ UnlockForFast(c)
                             \/ EndFast(c) \/ ReaderExits(c)
      PROVE  AnnouncedFirst'
  <2>1. UNCHANGED <<mqueue, seen, current, dispatcher>>
    BY <1>5 DEF AcceptRegisters, AcceptReplies, AddAcceptPipe, ReadHeader, TakeThrottle, DropRead,
       UnlockForFast, EndFast, ReaderExits, queueVars, dispatchVars
  <2>2. PICK pc : Reader(c, pc) /\ (pc \notin Inside \/ reader[c] \in Inside)
    BY <1>5 DEF AcceptRegisters, AcceptReplies, AddAcceptPipe, ReadHeader, TakeThrottle, DropRead,
       UnlockForFast, EndFast, ReaderExits, Inside
  <2>3. Backwards BY <2>2, ReaderInside
  <2> QED BY <1>1, <2>1, <2>3 DEF Woken
<1>6. ASSUME NEW c \in Conn, ReadTagFails(c) \/ ReadBodyFails(c) PROVE AnnouncedFirst'
  <2>1. ReaderFault(c) /\ UNCHANGED <<seen, current>> BY <1>6 DEF ReadTagFails, ReadBodyFails
  <2>2. PICK pc \in {"done", "faulting", "sleep"} : Reader(c, pc) BY <2>1 DEF ReaderFault
  <2>3. Backwards BY <2>2, ReaderInside DEF Inside
  <2>4. ResetIfCleared(c) \/ UNCHANGED <<mqueue, dispatcher>>
    BY <2>1 DEF ReaderFault, FaultOnClosed, FaultOnLossy, FaultOnLossless
  <2> QED BY <1>1, <2>1, <2>3, <2>4, ResetOnward DEF Woken
<1>7. ASSUME NEW c \in Conn, ReaderFaulted(c) \/ WriterFaulted(c) PROVE AnnouncedFirst'
  <2>1. FaultDiscards(c) /\ (Reader(c, "done") \/ reader' = reader)
    BY <1>7 DEF ReaderFaulted, WriterFaulted
  <2>2. Backwards BY <2>1, ReaderInside DEF Inside
  <2> QED BY <2>1, <2>2, FaultOnward
<1>8. ASSUME NEW c \in Conn, QueueRead(c) PROVE AnnouncedFirst'
  <2>1. /\ Enqueue(frame[c], c) /\ ~IsFast(frame[c]) /\ UNCHANGED <<seen, current>>
        /\ reader[c] \in Inside /\ Reader(c, AfterTest(state[c]))
    BY <1>8 DEF QueueRead, Inside
  <2>2. Backwards BY <2>1, ReaderInside
  <2>3. frame[c] \in Plain /\ frame[c].what = "msg" /\ frame[c].con = c /\ c \in Classes
    BY <1>8 DEF QueueRead, FromPeers, Holding, Resets, Contents, Working, Classes
  <2>4. Entered(c) BY <2>1 DEF Entered
  <2> QED BY <2>1, <2>2, <2>3, <2>4, MessageOnward
<1>9. ASSUME NEW c \in Conn, BeginFast(c) PROVE AnnouncedFirst'
  <2>1. /\ Told(c, frame[c]) /\ UNCHANGED <<mqueue, dispatcher, current>>
        /\ reader[c] \in Inside /\ Reader(c, "in_fast") /\ IsFast(frame[c])
    BY <1>9 DEF BeginFast, dispatchVars, Inside, FromPeers
  <2>2. Backwards BY <2>1, ReaderInside
  <2>3. frame[c] \in Plain /\ c \in Classes
    BY DEF Resets, Contents, Working, Classes
  <2> QED BY <2>1, <2>2, <2>3, FastOnward
<1>10. ASSUME NEW c \in Conn, MarkDown(c) PROVE AnnouncedFirst'
  BY <1>10, ResetOnward DEF MarkDown
<1>11. ASSUME NEW c \in Conn, \/ WriteFails(c) \/ WriterExits(c) \/ QueueReap(c) \/ WaitStopsPipe(c)
      PROVE  AnnouncedFirst'
  <2>1. CASE WriteFails(c) /\ FaultOnClosed(c)
    BY <2>1, ResetOnward DEF WriteFails, FaultOnClosed
  <2>2. CASE WriteFails(c) /\ (FaultOnLossy(c) \/ FaultOnLossless(c))
    BY <1>1, <2>2 DEF WriteFails, FaultOnLossy, FaultOnLossless, Woken
  <2>3. CASE ~WriteFails(c)
    BY <1>1, <1>11, <2>3 DEF WriterExits, QueueReap, WaitStopsPipe, queueVars, dispatchVars,
       pipeVars, Woken
  <2> QED BY <2>1, <2>2, <2>3 DEF WriteFails
<1>12. CASE DispatchThread /\ UNCHANGED restVars
  BY <1>12, DispatchOnward DEF restVars, pipeVars
<1>13. CASE LocalThread /\ UNCHANGED restVars
  <2>1. reader' = reader BY <1>13 DEF restVars, pipeVars
  <2>2. CASE LocalTakes \/ LocalSleeps \/ LocalExits
    BY <1>1, <2>1, <2>2 DEF LocalTakes, LocalSleeps, LocalExits, dispatchVars, Woken
  <2>3. CASE LocalDelivers
    <3>1. in_hand \in Plain /\ in_hand.what = "msg" /\ in_hand.con = Loopback /\ Loopback \in Classes
      BY <2>3 DEF LocalDelivers, FromLocal, LocalItem, Resets, Contents, Working, Classes
    <3>2. CASE IsFast(in_hand)
      <4>1. Told(Loopback, in_hand) /\ UNCHANGED <<mqueue, dispatcher, current>>
        BY <2>3, <3>2 DEF LocalDelivers
      <4> QED BY <2>1, <3>1, <3>2, <4>1, FastOnward
    <3>3. CASE ~IsFast(in_hand)
      <4>1. Enqueue(in_hand, Loopback) /\ UNCHANGED <<seen, current>>
        BY <2>3, <3>3 DEF LocalDelivers
      <4> QED BY <2>1, <3>1, <3>3, <4>1, LoopbackIsNoConn, MessageOnward
    <3> QED BY <3>2, <3>3
  <2> QED BY <1>13, <2>2, <2>3 DEF LocalThread
<1>14. CASE \/ ReaperReaps \/ ReaperExits \/ SubmitLocal \/ BeginShutdown \/ EndShutdown \/ WaitReaps
  BY <1>1, <1>14 DEF ReaperReaps, WaitReaps, Reap, ReaperExits, SubmitLocal, LocalDelivery,
     BeginShutdown, EndShutdown, queueVars, dispatchVars, pipeVars, Woken
<1>15. CASE \/ WaitStopsAccepter \/ WaitStopsLocal \/ WaitStopsDispatch \/ WaitJoins
            \/ WaitStopsReaper \/ WaitTakesLock \/ WaitClearsPipe \/ WaitDropsLock \/ WaitReturns
  BY <1>1, <1>15 DEF WaitStopsAccepter, WaitStopsLocal, WaitStopsDispatch, WaitJoins,
     WaitStopsReaper, WaitTakesLock, WaitClearsPipe, WaitDropsLock, WaitReturns, StopLocal,
     StopDispatch, StopSignal, Signalled, DiscardLocal, queueVars, dispatchVars, pipeVars, Woken, Idle
<1>16. CASE UNCHANGED vars BY <1>1, <1>16 DEF vars, queueVars, dispatchVars, pipeVars, Woken
<1> HIDE DEF Backwards
<1> QED BY <1>3, <1>4, <1>5, <1>6, <1>7, <1>8, <1>9, <1>10, <1>11, <1>12, <1>13, <1>14, <1>15, <1>16
     DEF Next, PipeStep, AcceptStep, ReaderStep, WaitStep
-----------------------------------------------------------------------------
(* The initial states satisfy the invariant.                               *)
LEMMA OrderlyInit == MessengerInit => FromPeers /\ FromLocal /\ Lined
<1> SUFFICES ASSUME MessengerInit PROVE FromPeers /\ FromLocal /\ Lined
  OBVIOUS
<1>1. FromPeers BY DEF MessengerInit, FromPeers, Holding
<1>2. FromLocal BY NoNumbers DEF MessengerInit, QueueInit, FromLocal
<1>3. Filed /\ InHand BY DEF MessengerInit, QueueInit, Filed, InHand
<1>4. ASSUME NEW c \in Classes, NEW p \in Priorities PROVE Line(c, p)
  <2>1. seen[c] = <<>> /\ mqueue[<<p, c>>] = <<>> /\ dispatcher # "handle"
    BY DEF MessengerInit, QueueInit
  <2> QED BY <2>1, NoNumbers DEF Line, Done, Hand, Queue, Before
<1> QED BY <1>1, <1>2, <1>3, <1>4 DEF Lined, Lines

(* The inductive step.                                                     *)
LEMMA OrderlyKept == ASSUME Orderly, [Next]_vars PROVE Orderly'
<1>1. Resets /\ FromPeers /\ FromLocal /\ Lined BY DEF Orderly
<1>2. Resets' BY <1>1, ResetsKept
<1>3. PeersKept /\ LocalKept BY <1>1, Numbering, LocalNumbering
<1>4. AheadKept BY <1>3 DEF AheadKept, PeersKept, LocalKept, Classes
<1>5. Lined' BY <1>1, <1>4, LinedKept
<1> QED BY <1>2, <1>3, <1>5 DEF Orderly, PeersKept, LocalKept

(* The invariant orders what was delivered.                                *)
LEMMA LinesAreInOrder == Orderly => InOrder
<1> SUFFICES ASSUME Orderly, NEW c \in Classes, NEW p \in Priorities,
                    NEW i \in Delivered(seen[c], p), NEW j \in Delivered(seen[c], p), i < j
             PROVE  seen[c][i].n < seen[c][j].n
  BY DEF InOrder
<1>1. seen[c] \in Seq(Item) BY Contained DEF Orderly, Lined
<1>2. Delivered(seen[c], p) \subseteq Picked(seen[c], Ordered(p))
  BY <1>1 DEF Delivered, Picked, Ordered
<1>3. Rising(seen[c], Ordered(p)) BY DEF Orderly, Lined, Lines, Line
<1> QED BY <1>2, <1>3 DEF Rising

(* The dispatch thread delivers the messages of a connection that have the *)
(* same priority in the order in which they came, and those of the process *)
(* to itself in the order in which it sent them: whatever fault() discards *)
(* and re-reads, whoever queues events among them, and at any moment of a  *)
(* shutdown.                                                               *)
THEOREM DeliveredInOrder == Spec => []InOrder
<1>1. MessengerInit => Orderly BY ControlInit, ResetsInit, OrderlyInit DEF Orderly, Resets
<1>2. Orderly /\ [Next]_vars => Orderly' BY OrderlyKept
<1> QED BY <1>1, <1>2, LinesAreInOrder, PTL DEF Spec

(* The initial states satisfy the invariant.                               *)
LEMMA AnnouncedInit == MessengerInit => AnnouncedFirst
<1> SUFFICES ASSUME MessengerInit PROVE AnnouncedFirst
  OBVIOUS
<1>1. ASSUME NEW c \in Conn PROVE ~Entered(c)
  <2>1. \A p \in Priorities : Queue(c, p) = {}
    BY NoNumbers DEF MessengerInit, QueueInit, Queue, Classes
  <2> QED BY <2>1 DEF MessengerInit, Entered, Inside
<1>2. AcceptFirst BY DEF MessengerInit, QueueInit, AcceptFirst, Delivered, Classes
<1> QED BY <1>1, <1>2 DEF MessengerInit, QueueInit, AnnouncedFirst, Announcing

(* ms_handle_accept() comes before any message of the connection that the  *)
(* dispatch thread delivers.  The event waits in class 0 and the messages  *)
(* in a class of their own, so nothing but the priorities keeps the order; *)
(* and accept() announces a connection that a shutdown may then refuse.    *)
THEOREM AcceptComesFirst == Spec => []AcceptFirst
<1>1. MessengerInit => Orderly /\ AnnouncedFirst
  BY ControlInit, ResetsInit, OrderlyInit, AnnouncedInit DEF Orderly, Resets
<1>2. Orderly /\ AnnouncedFirst /\ [Next]_vars => (Orderly /\ AnnouncedFirst)'
  BY OrderlyKept, AnnouncedKept DEF Orderly
<1>3. AnnouncedFirst => AcceptFirst BY DEF AnnouncedFirst
<1> QED BY <1>1, <1>2, <1>3, PTL DEF Spec
=============================================================================

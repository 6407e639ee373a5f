----------------------------- MODULE EventCenter -----------------------------
(***************************************************************************)
(* The event loops of AsyncMessenger: one EventCenter per Worker of a      *)
(* NetworkStack, the worker threads that run them, the threads outside     *)
(* that hand them events, and the messenger's start, shutdown and wait()   *)
(* down to the end of the stack and of its centers.                        *)
(*                                                                         *)
(* A handler stands for an AsyncConnection as its center sees it: the      *)
(* callbacks it registers, its socket, its timers.  Which message it reads *)
(* or writes is no concern of the loop, so what process() does to the      *)
(* center is chosen freely among what AsyncConnection.cc can do.  What a   *)
(* thread does under external_lock is one action.                          *)
(***************************************************************************)
EXTENDS Naturals, Sequences, FiniteSets

CONSTANTS
  Workers,          \* by their index
  Conns,            \* connections
  Local,            \* the loopback connection: no socket, never an event but its clean-up
  Listener,         \* the Processor's listening socket and its callback
  ListenFd, NotifyFd,
  Threads,          \* threads that connect, send and mark down
  Admin,            \* the thread that starts and ends the messenger and the stack
  Fds,              \* descriptors the sockets of connections may get
  InitEvents,       \* size of a new file_events table
  LocalListen,      \* support_local_listen_table(): FALSE for posix, TRUE for dpdk
  MaxCalls,         \* bound: calls of the outside threads
  MaxFaults,        \* bound: shutdown_socket() by fault()
  None

Actors == Workers \cup Threads \cup {Admin}
Handlers == Conns \cup {Local, Listener}

ASSUME ActorsDiffer == Workers \cap (Threads \cup {Admin}) = {} /\ Admin \notin Threads
ASSUME WorkersAreNumbered == Workers \subseteq Nat /\ 0 \in Workers
ASSUME HandlersDiffer == Local \notin Conns /\ Listener \notin Conns \cup {Local}
ASSUME NoneIsNone == None \notin Actors \cup Handlers \cup Fds \cup {ListenFd}
ASSUME FdsAreNat == Fds \subseteq Nat /\ ListenFd \in Nat \ Fds /\ InitEvents \in Nat \ {0}
ASSUME NotifyFdDiffers == NotifyFd \notin Fds \cup {ListenFd}
ASSUME BoundsAreNat == MaxCalls \in Nat /\ MaxFaults \in Nat /\ LocalListen \in BOOLEAN

VARIABLES
  external_events, external_num_events,   \* of each center
  notify,           \* whether its notify pipe holds a byte
  mask, read_cb, write_cb,                \* its file_events
  nevent,
  time_events,      \* its timers, earliest first
  at,               \* where the worker thread is
  blocking, trigger_time, fired_events, cur_process,  \* locals of process_events()
  done, references,
  owed,             \* the center an actor has yet to wake: it dropped external_lock
  status,           \* of a handler: new, incoming (in the listen queue), open,
                    \* closed (_stop() ran), freed (cleanup() ran)
  home, fd,         \* its center and its socket
  admin,            \* where the Admin thread is
  todo, pending,    \* drain() and stop(): the workers still to be asked, to be awaited
  pool_spin,
  calls, faults,
  failed            \* the assertion or dereference that would have ended the process

queueVars == <<external_events, external_num_events, notify, owed>>
fileVars  == <<mask, read_cb, write_cb, nevent>>
loopVars  == <<at, blocking, trigger_time, fired_events, cur_process>>
connVars  == <<status, home, fd>>
adminVars == <<admin, todo, pending, pool_spin, done>>
vars == <<queueVars, fileVars, time_events, loopVars, references, connVars,
          adminVars, calls, faults, failed>>
-----------------------------------------------------------------------------
AllFds == Fds \cup {ListenFd}
UnusedFds == Fds \ {fd[h] : h \in Handlers}

Init ==
  /\ external_events = [w \in Workers |-> << >>]
  /\ external_num_events = [w \in Workers |-> 0]
  /\ notify = [w \in Workers |-> FALSE]
  /\ mask = [w \in Workers |-> [f \in AllFds |-> {}]]
  /\ read_cb = [w \in Workers |-> [f \in AllFds |-> None]]
  /\ write_cb = [w \in Workers |-> [f \in AllFds |-> None]]
  /\ nevent = [w \in Workers |-> InitEvents]
  /\ time_events = [w \in Workers |-> << >>]
  /\ at = [w \in Workers |-> "loop"]
  /\ blocking = [w \in Workers |-> FALSE] /\ trigger_time = [w \in Workers |-> FALSE]
  /\ fired_events = [w \in Workers |-> << >>] /\ cur_process = [w \in Workers |-> << >>]
  /\ done = [w \in Workers |-> FALSE]
  /\ owed = [a \in Actors |-> None]
  /\ status = [h \in Handlers |-> IF h \in Conns THEN "new" ELSE "open"]
  /\ references = [w \in Workers |-> IF w = 0 THEN 1 ELSE 0]   \* that of Local
  /\ home = [h \in Handlers |-> 0]
  /\ fd = [h \in Handlers |-> IF h = Listener THEN ListenFd ELSE None]
  /\ admin = "ready" /\ todo = {} /\ pending = {} /\ pool_spin = None
  /\ calls = 0 /\ faults = 0 /\ failed = None

(* A failed assertion ends the process.  An actor that has dropped          *)
(* external_lock first wakes the center it owes.                            *)
MayStep(a) == failed = None /\ owed[a] = None
-----------------------------------------------------------------------------
(* dispatch_event_external() under its lock: push, decide whether to wake,  *)
(* count.  The write to the notify pipe comes after the unlock: wakeup().   *)
Event(kind, h) == [kind |-> kind, of |-> h]

DispatchCountedFirst(a, w, e) ==
  /\ external_events' = [external_events EXCEPT ![w] = Append(@, e)]
  /\ external_num_events' = [external_num_events EXCEPT ![w] = @ + 1]
  /\ owed' = [owed EXCEPT ![a] = IF a # w /\ external_num_events[w] + 1 = 0 THEN w ELSE @]
  /\ UNCHANGED notify

DispatchInFront(a, w, e) ==
  /\ external_events' = [external_events EXCEPT ![w] = <<e>> \o @]
  /\ external_num_events' = [external_num_events EXCEPT ![w] = @ + 1]
  /\ owed' = [owed EXCEPT ![a] = IF a # w /\ external_num_events[w] = 0 THEN w ELSE @]
  /\ UNCHANGED notify

Dispatch(a, w, e) ==
  /\ external_events' = [external_events EXCEPT ![w] = Append(@, e)]
  /\ external_num_events' = [external_num_events EXCEPT ![w] = @ + 1]
  /\ owed' = [owed EXCEPT ![a] = IF a # w /\ external_num_events[w] = 0 THEN w ELSE @]
  /\ UNCHANGED notify

Wakeup(a) ==
  /\ failed = None
  /\ owed[a] # None
  /\ notify' = [notify EXCEPT ![owed[a]] = TRUE]
  /\ owed' = [owed EXCEPT ![a] = None]
  /\ UNCHANGED <<external_events, external_num_events, fileVars, time_events, loopVars,
                 references, connVars, adminVars, calls, faults, failed>>
-----------------------------------------------------------------------------
(* The file events of center w.                                            *)

(* The table grows by factors of four until it is not smaller than f.       *)
FourTo[k \in Nat] == IF k = 0 THEN 1 ELSE 4 * FourTo[k - 1]
NewSize(n, f) ==
  LET sizes == {n * FourTo[k] : k \in 1..(f + 1)}
  IN  CHOOSE s \in sizes : f <= s /\ \A t \in sizes : f <= t => s <= t

(* create_file_event(): a descriptor with this very mask keeps the callback *)
(* it has.                                                                  *)
CreateFileEvent(w, f, m, h) ==
  LET size == IF f >= nevent[w] THEN NewSize(nevent[w], f) ELSE nevent[w]
  IN  /\ nevent' = [nevent EXCEPT ![w] = size]
      /\ IF f >= size
         THEN failed' = "fd < nevent" /\ UNCHANGED <<mask, read_cb, write_cb>>
         ELSE /\ mask' = [mask EXCEPT ![w][f] = @ \cup m]
              /\ read_cb' = [read_cb EXCEPT ![w][f] =
                               IF "R" \in m /\ mask[w][f] # m THEN h ELSE @]
              /\ write_cb' = [write_cb EXCEPT ![w][f] =
                               IF "W" \in m /\ mask[w][f] # m THEN h ELSE @]
              /\ UNCHANGED failed

DeleteFileEvent(w, f, m) ==
  /\ mask' = [mask EXCEPT ![w][f] = @ \ m]
  /\ read_cb' = [read_cb EXCEPT ![w][f] = IF "R" \in m THEN None ELSE @]
  /\ write_cb' = [write_cb EXCEPT ![w][f] = IF "W" \in m THEN None ELSE @]
  /\ UNCHANGED nevent

(* What the callbacks of a connection do to its center w.  A callback runs  *)
(* with "timers" as w's timers.                                             *)
SetTimers(w, timers) == time_events' = [time_events EXCEPT ![w] = timers]
Without(timers, h) ==
  IF \E i \in DOMAIN timers : timers[i] = h
  THEN LET k == CHOOSE k \in DOMAIN timers : timers[k] = h
       IN  SubSeq(timers, 1, k - 1) \o SubSeq(timers, k + 1, Len(timers))
  ELSE timers
Inserted(timers, i, h) == SubSeq(timers, 1, i) \o <<h>> \o SubSeq(timers, i + 1, Len(timers))

(* AsyncConnection::shutdown_socket(): its timers, its file events, its     *)
(* socket.                                                                  *)
CloseSocket(w, h) ==
  /\ fd' = [fd EXCEPT ![h] = None]
  /\ IF fd[h] = None THEN UNCHANGED fileVars
                     ELSE DeleteFileEvent(w, fd[h], {"R", "W"})

ShutdownSocket(w, h, timers) == CloseSocket(w, h) /\ SetTimers(w, Without(timers, h))

StopReleasesTwice(a, h) ==
  /\ status' = [status EXCEPT ![h] = "closed"]
  /\ references' = [references EXCEPT ![home[h]] = @ - 2]
  /\ Dispatch(a, home[h], Event("clean", h))
  /\ UNCHANGED failed

(* Worker::release_worker() and the rest of _stop(), by actor a.            *)
Stop(a, h) ==
  IF references[home[h]] = 0
  THEN /\ failed' = "oldref > 0"
       /\ UNCHANGED <<status, references, queueVars>>
  ELSE /\ status' = [status EXCEPT ![h] = "closed"]
       /\ references' = [references EXCEPT ![home[h]] = @ - 1]
       /\ Dispatch(a, home[h], Event("clean", h))
       /\ UNCHANGED failed

(* NetworkStack::get_worker(): the first worker with the fewest references; *)
(* it spins while pool_spin is held.                                        *)
LeastLoaded ==
  CHOOSE w \in Workers :
    \A v \in Workers : \/ references[w] < references[v]
                        \/ (references[w] = references[v] /\ w <= v)

Quiet(w, h, timers) ==
  /\ SetTimers(w, timers)
  /\ UNCHANGED <<queueVars, fileVars, references, connVars, faults, failed>>

(* STATE_CONNECTING: a new socket.  STATE_ACCEPTING: the one it came with.  *)
Register(w, h, timers) ==
  /\ status[h] = "open"
  /\ \/ fd[h] = None /\ \E f \in UnusedFds : /\ fd' = [fd EXCEPT ![h] = f]
                                             /\ CreateFileEvent(w, f, {"R"}, h)
     \/ fd[h] # None /\ mask[w][fd[h]] = {} /\ CreateFileEvent(w, fd[h], {"R"}, h)
                                            /\ UNCHANGED fd
  /\ SetTimers(w, timers)
  /\ UNCHANGED <<queueVars, references, status, home, faults>>

(* _try_send() and handle_write(): ask to be called when the socket takes   *)
(* more, and stop asking.                                                   *)
OpenWrite(w, h, timers) ==
  /\ status[h] = "open" /\ fd[h] # None /\ mask[w][fd[h]] = {"R"}
  /\ CreateFileEvent(w, fd[h], {"W"}, h)
  /\ SetTimers(w, timers)
  /\ UNCHANGED <<queueVars, references, connVars, faults>>

CloseWrite(w, h, timers) ==
  /\ status[h] = "open" /\ fd[h] # None /\ "W" \in mask[w][fd[h]]
  /\ DeleteFileEvent(w, fd[h], {"W"})
  /\ SetTimers(w, timers)
  /\ UNCHANGED <<queueVars, references, connVars, faults, failed>>

(* fault(): to standby, again at once, or again after a backoff.            *)
Fault(w, h, timers) ==
  LET rest == Without(timers, h)
  IN  /\ status[h] = "open" /\ faults < MaxFaults
      /\ faults' = faults + 1
      /\ CloseSocket(w, h)
      /\ \/ SetTimers(w, rest) /\ UNCHANGED queueVars
         \/ SetTimers(w, rest) /\ Dispatch(w, w, Event("read", h))
         \/ /\ \E i \in 0..Len(rest) : SetTimers(w, Inserted(rest, i, h))
            /\ UNCHANGED queueVars
      /\ UNCHANGED <<references, status, home, failed>>

StopSelf(w, h, timers) ==
  /\ status[h] = "open"
  /\ Stop(w, h)
  /\ SetTimers(w, timers)
  /\ UNCHANGED <<fileVars, home, fd, faults>>

(* process(), handle_write(), wakeup_from(): on a closed connection they    *)
(* return.                                                                  *)
Callback(w, h, timers) ==
  IF status[h] = "freed"
  THEN /\ failed' = "callback of a freed connection"
       /\ SetTimers(w, timers)
       /\ UNCHANGED <<queueVars, fileVars, references, connVars, faults>>
  ELSE \/ Quiet(w, h, timers)
       \/ Register(w, h, timers)
       \/ OpenWrite(w, h, timers)
       \/ CloseWrite(w, h, timers)
       \/ Fault(w, h, timers)
       \/ StopSelf(w, h, timers)
-----------------------------------------------------------------------------
(* The worker thread: while (!done) process_events(), one round from the    *)
(* decision whether to block to the last external event.                    *)

(* The loop's test of done, then blocking and trigger_time.                 *)
StartRound(w) ==
  /\ MayStep(w) /\ at[w] = "loop" /\ ~done[w]
  /\ blocking' = [blocking EXCEPT ![w] = external_num_events[w] = 0]
  /\ \E due \in BOOLEAN :
       /\ due => time_events[w] # << >>
       /\ trigger_time' = [trigger_time EXCEPT ![w] = due]
  /\ at' = [at EXCEPT ![w] = "wait"]
  /\ UNCHANGED <<queueVars, fileVars, time_events, fired_events, cur_process, references,
                 connVars, adminVars, calls, faults, failed>>

(* The end of the thread: reset() clears done.                              *)
Exit(w) ==
  /\ MayStep(w) /\ at[w] = "loop" /\ done[w]
  /\ at' = [at EXCEPT ![w] = "exited"]
  /\ done' = [done EXCEPT ![w] = FALSE]
  /\ UNCHANGED <<queueVars, fileVars, time_events, blocking, trigger_time, fired_events,
                 cur_process, references, connVars, admin, todo, pending, pool_spin,
                 calls, faults, failed>>

(* event_wait(): registered descriptors fire for what they are registered   *)
(* for, or for both on an error; the notify pipe fires if it holds a byte.  *)
Fired(f, ready) == [fd |-> f, ready |-> ready]
Firing(w) ==
  {Fired(f, r) : f \in {g \in Fds : mask[w][g] # {}}, r \in {{"R"}, {"W"}, {"R", "W"}}}
ReadyFds(w) == {x \in Firing(w) : x.ready \subseteq mask[w][x.fd] \/ x.ready = {"R", "W"}}
Incoming == {h \in Conns : status[h] = "incoming"}

(* At most one connection's socket per round: connections do not touch each *)
(* other's descriptors here.                                                *)
SocketFires(w) == {<< >>} \cup {<<x>> : x \in ReadyFds(w)}
ListenFires(w) == IF Incoming # {} /\ mask[w][ListenFd] # {}
                  THEN {<<Fired(ListenFd, {"R"})>>} ELSE {<< >>}
NotifyFires(w) == IF notify[w] THEN {<<Fired(NotifyFd, {"R"})>>} ELSE {<< >>}

EventWait(w) ==
  /\ MayStep(w) /\ at[w] = "wait"
  /\ \E s \in SocketFires(w), l \in ListenFires(w), n \in NotifyFires(w) :
       /\ ~blocking[w] \/ trigger_time[w] \/ s \o l \o n # << >>
       /\ \E order \in {n \o l \o s, l \o s \o n} :
            fired_events' = [fired_events EXCEPT ![w] = order]
  /\ at' = [at EXCEPT ![w] = "fire"]
  /\ blocking' = [blocking EXCEPT ![w] = FALSE]
  /\ UNCHANGED <<queueVars, fileVars, time_events, trigger_time, cur_process,
                 references, connVars, adminVars, calls, faults, failed>>

(* The wait ends because of external work, or only because of a socket or   *)
(* a timer.  The end of the 30 seconds a wait lasts at most is left out:    *)
(* nothing may depend on it.                                                *)
Awake(w) == ~blocking[w] \/ notify[w]
WakeUp(w) == Awake(w) /\ EventWait(w)
SocketOrTimer(w) == ~Awake(w) /\ EventWait(w)

(* C_handle_notify: read the pipe empty.                                    *)
DrainNotify(w) ==
  /\ MayStep(w) /\ at[w] = "fire" /\ fired_events[w] # << >>
  /\ Head(fired_events[w]).fd = NotifyFd
  /\ notify' = [notify EXCEPT ![w] = FALSE]
  /\ fired_events' = [fired_events EXCEPT ![w] = Tail(@)]
  /\ UNCHANGED <<external_events, external_num_events, owed, fileVars, time_events, at,
                 blocking, trigger_time, cur_process, references, connVars, adminVars,
                 calls, faults, failed>>

(* Processor::accept(), one turn of its loop: an incoming connection, handed *)
(* to the least loaded worker, or EAGAIN.  get_worker() counts a reference   *)
(* either way, and w itself is not counted when each worker listens.         *)
Accept(w) ==
  /\ MayStep(w) /\ at[w] = "fire" /\ fired_events[w] # << >>
  /\ Head(fired_events[w]).fd = ListenFd
  /\ LocalListen \/ pool_spin = None
  /\ LET v == IF LocalListen THEN w ELSE LeastLoaded
     IN  /\ references' = IF LocalListen THEN references ELSE [references EXCEPT ![v] = @ + 1]
         /\ IF Incoming = {}
            THEN /\ fired_events' = [fired_events EXCEPT ![w] = Tail(@)]
                 /\ UNCHANGED <<queueVars, connVars>>
            ELSE \E h \in Incoming, f \in UnusedFds :
                   /\ status' = [status EXCEPT ![h] = "open"]
                   /\ home' = [home EXCEPT ![h] = v]
                   /\ fd' = [fd EXCEPT ![h] = f]
                   /\ Dispatch(w, v, Event("read", h))
                   /\ UNCHANGED fired_events
  /\ UNCHANGED <<fileVars, time_events, at, blocking, trigger_time, cur_process,
                 adminVars, calls, faults, failed>>

FireUnchecked(w) ==
  LET x == Head(fired_events[w])
      kind == IF "R" \in x.ready THEN "R" ELSE "W"
      cb == IF kind = "R" THEN read_cb[w][x.fd] ELSE write_cb[w][x.fd]
  IN  /\ MayStep(w) /\ at[w] = "fire" /\ fired_events[w] # << >>
      /\ x.fd \in Fds
      /\ fired_events' = [fired_events EXCEPT ![w] =
                            IF x.ready = {kind} THEN Tail(@)
                            ELSE <<Fired(x.fd, x.ready \ {kind})>> \o Tail(@)]
      /\ IF cb = None
         THEN /\ failed' = "null callback"
              /\ UNCHANGED <<queueVars, fileVars, time_events, references, connVars, faults>>
         ELSE Callback(w, cb, time_events[w])
      /\ UNCHANGED <<at, blocking, trigger_time, cur_process, adminVars, calls>>

(* The read callback of the fired descriptor and then its write callback,   *)
(* each only if the descriptor is registered for it by then.                *)
FireSocket(w) ==
  LET x == Head(fired_events[w])
      kind == IF "R" \in x.ready THEN "R" ELSE "W"
      cb == IF kind = "R" THEN read_cb[w][x.fd] ELSE write_cb[w][x.fd]
  IN  /\ MayStep(w) /\ at[w] = "fire" /\ fired_events[w] # << >>
      /\ x.fd \in Fds
      /\ fired_events' = [fired_events EXCEPT ![w] =
                            IF x.ready = {kind} THEN Tail(@)
                            ELSE <<Fired(x.fd, x.ready \ {kind})>> \o Tail(@)]
      /\ IF kind \notin mask[w][x.fd]
         THEN UNCHANGED <<queueVars, fileVars, time_events, references, connVars, faults, failed>>
         ELSE IF cb = None
         THEN /\ failed' = "null callback"
              /\ UNCHANGED <<queueVars, fileVars, time_events, references, connVars, faults>>
         ELSE Callback(w, cb, time_events[w])
      /\ UNCHANGED <<at, blocking, trigger_time, cur_process, adminVars, calls>>

(* process_time_events(): the earliest timer leaves the list before its     *)
(* callback runs.                                                           *)
RunTimer(w) ==
  /\ MayStep(w) /\ at[w] = "fire" /\ fired_events[w] = << >>
  /\ trigger_time[w] /\ time_events[w] # << >>
  /\ Callback(w, Head(time_events[w]), Tail(time_events[w]))
  /\ UNCHANGED <<loopVars, adminVars, calls>>

(* No more timers are due.  Under external_lock: take the whole queue and   *)
(* set the count to 0.                                                      *)
TakeExternal(w) ==
  /\ MayStep(w) /\ at[w] = "fire" /\ fired_events[w] = << >>
  /\ trigger_time' = [trigger_time EXCEPT ![w] = FALSE]
  /\ IF external_num_events[w] = 0
     THEN /\ at' = [at EXCEPT ![w] = "loop"]
          /\ UNCHANGED <<cur_process, external_events, external_num_events>>
     ELSE /\ at' = [at EXCEPT ![w] = "run"]
          /\ cur_process' = [cur_process EXCEPT ![w] = external_events[w]]
          /\ external_events' = [external_events EXCEPT ![w] = << >>]
          /\ external_num_events' = [external_num_events EXCEPT ![w] = 0]
  /\ UNCHANGED <<notify, owed, fileVars, time_events, blocking, fired_events, references,
                 connVars, adminVars, calls, faults, failed>>

CleanupKeepsTimers(w, h) ==
  /\ CloseSocket(w, h)
  /\ status' = [status EXCEPT ![h] = "freed"]
  /\ UNCHANGED <<queueVars, time_events, references, home, faults, failed>>

(* C_clean_handler: AsyncConnection::cleanup() frees its callbacks.         *)
Cleanup(w, h) ==
  /\ ShutdownSocket(w, h, time_events[w])
  /\ status' = [status EXCEPT ![h] = "freed"]
  /\ UNCHANGED <<queueVars, references, home, faults, failed>>

RunExternal(w) ==
  LET e == Head(cur_process[w])
  IN  /\ MayStep(w) /\ at[w] = "run" /\ cur_process[w] # << >>
      /\ cur_process' = [cur_process EXCEPT ![w] = Tail(@)]
      /\ at' = [at EXCEPT ![w] = IF Len(cur_process[w]) = 1 THEN "loop" ELSE @]
      /\ \/ /\ e.kind = "read"
            /\ Callback(w, e.of, time_events[w])
            /\ UNCHANGED pending
         \/ /\ e.kind = "clean"
            /\ Cleanup(w, e.of)
            /\ UNCHANGED pending
         \/ /\ e.kind = "listen"            \* Processor::start()
            /\ CreateFileEvent(w, ListenFd, {"R"}, Listener)
            /\ pending' = pending \ {w}
            /\ UNCHANGED <<queueVars, time_events, references, connVars, faults>>
         \/ /\ e.kind = "unlisten"          \* Processor::stop()
            /\ DeleteFileEvent(w, ListenFd, {"R"})
            /\ pending' = pending \ {w}
            /\ UNCHANGED <<queueVars, time_events, references, connVars, faults, failed>>
         \/ /\ e.kind = "drain"
            /\ pending' = pending \ {w}
            /\ UNCHANGED <<queueVars, fileVars, time_events, references, connVars, faults, failed>>
      /\ UNCHANGED <<blocking, trigger_time, fired_events, admin, todo, pool_spin, done,
                     calls>>

WorkerRuns(w) ==
  \/ StartRound(w) \/ Exit(w) \/ WakeUp(w)
  \/ DrainNotify(w) \/ Accept(w) \/ FireSocket(w)
  \/ RunTimer(w) \/ TakeExternal(w) \/ RunExternal(w)
-----------------------------------------------------------------------------
(* The outside threads, while the messenger is up.                          *)

(* A peer connects to the listening socket.                                 *)
Arrive(h) ==
  /\ failed = None /\ admin = "up"
  /\ status[h] = "new"
  /\ status' = [status EXCEPT ![h] = "incoming"]
  /\ UNCHANGED <<queueVars, fileVars, time_events, loopVars, references, home, fd, adminVars,
                 calls, faults, failed>>

(* create_connect(): the least loaded worker gets the connection.           *)
Connect(t, h) ==
  /\ MayStep(t) /\ admin = "up" /\ pool_spin = None
  /\ calls < MaxCalls /\ calls' = calls + 1
  /\ status[h] = "new"
  /\ references' = [references EXCEPT ![LeastLoaded] = @ + 1]
  /\ home' = [home EXCEPT ![h] = LeastLoaded]
  /\ Dispatch(t, LeastLoaded, Event("read", h))
  /\ status' = [status EXCEPT ![h] = "open"]
  /\ UNCHANGED <<fileVars, time_events, loopVars, fd, adminVars, faults, failed>>

(* send_message(), send_keepalive(): under write_lock, to a connection that *)
(* is not CLOSED.                                                           *)
Send(t, h) ==
  /\ MayStep(t)
  /\ calls < MaxCalls /\ calls' = calls + 1
  /\ status[h] = "open"
  /\ Dispatch(t, home[h], Event("read", h))
  /\ UNCHANGED <<fileVars, time_events, loopVars, references, connVars, adminVars, faults,
                 failed>>

MarkDown(t, h) ==
  /\ MayStep(t)
  /\ calls < MaxCalls /\ calls' = calls + 1
  /\ status[h] = "open"
  /\ Stop(t, h)
  /\ UNCHANGED <<fileVars, time_events, loopVars, home, fd, adminVars, faults>>
-----------------------------------------------------------------------------
(* The thread that owns the messenger and then the stack.                   *)

AdminGoes(from, to) == MayStep(Admin) /\ admin = from /\ admin' = to

AdminLeaves == <<fileVars, time_events, loopVars, done, calls, faults>>

(* Processor::start() and stop(): submit_to() the listener's worker, wait.  *)
Submit(kind) ==
  /\ pending' = {home[Listener]}
  /\ Dispatch(Admin, home[Listener], Event(kind, Listener))
  /\ UNCHANGED <<todo, pool_spin, references, connVars, failed, AdminLeaves>>

Ready == AdminGoes("ready", "starting") /\ Submit("listen")

Started ==
  /\ AdminGoes("starting", "up") /\ pending = {}
  /\ UNCHANGED <<queueVars, todo, pending, pool_spin, references, connVars, failed, AdminLeaves>>

Shutdown == AdminGoes("up", "unlistening") /\ Submit("unlisten")

(* shutdown_connections(): stop() every connection.                         *)
ShutdownConnection(h) ==
  /\ MayStep(Admin) /\ admin = "unlistening" /\ pending = {}
  /\ h \in Conns /\ status[h] = "open"
  /\ Stop(Admin, h)
  /\ UNCHANGED <<admin, todo, pending, pool_spin, home, fd, AdminLeaves>>

(* drain(): with pool_spin held, an event to each worker; then wait.        *)
Drain ==
  /\ AdminGoes("unlistening", "draining") /\ pending = {}
  /\ \A h \in Conns : status[h] # "open"
  /\ todo' = Workers /\ pending' = Workers /\ pool_spin' = Admin
  /\ UNCHANGED <<queueVars, references, connVars, failed, AdminLeaves>>

DrainWorker(w) ==
  /\ MayStep(Admin) /\ admin = "draining" /\ w \in todo
  /\ todo' = todo \ {w}
  /\ pool_spin' = IF todo = {w} THEN None ELSE Admin
  /\ Dispatch(Admin, w, Event("drain", Local))
  /\ UNCHANGED <<admin, pending, references, connVars, failed, AdminLeaves>>

(* ~AsyncMessenger(): local_connection->mark_down().                        *)
Destroy ==
  /\ AdminGoes("draining", "stopping") /\ todo = {} /\ pending = {}
  /\ \A t \in Threads : owed[t] = None            \* nobody uses the messenger any more
  /\ Stop(Admin, Local)
  /\ todo' = Workers
  /\ pool_spin' = Admin                          \* NetworkStack::stop()
  /\ UNCHANGED <<pending, home, fd, AdminLeaves>>

StopWorkerSilently(w) ==
  /\ MayStep(Admin) /\ admin = "stopping" /\ w \in todo /\ pending = {}
  /\ done' = [done EXCEPT ![w] = TRUE]
  /\ pending' = {w}
  /\ UNCHANGED <<queueVars, fileVars, time_events,
                 loopVars, references, connVars, admin, todo, pool_spin, calls, faults, failed>>

(* stop() one worker: done, wakeup(), join.                                 *)
StopWorker(w) ==
  /\ MayStep(Admin) /\ admin = "stopping" /\ w \in todo /\ pending = {}
  /\ done' = [done EXCEPT ![w] = TRUE]
  /\ owed' = [owed EXCEPT ![Admin] = w]
  /\ pending' = {w}
  /\ UNCHANGED <<external_events, external_num_events, notify, fileVars, time_events,
                 loopVars, references, connVars, admin, todo, pool_spin, calls, faults, failed>>

JoinWorker(w) ==
  /\ MayStep(Admin) /\ admin = "stopping" /\ pending = {w}
  /\ at[w] = "exited"
  /\ pending' = {} /\ todo' = todo \ {w}
  /\ UNCHANGED <<queueVars, fileVars, time_events, loopVars, references, connVars, admin,
                 pool_spin, done, calls, faults, failed>>

Stopped ==
  /\ AdminGoes("stopping", "destroying") /\ todo = {}
  /\ todo' = Workers /\ pool_spin' = None
  /\ UNCHANGED <<queueVars, pending, references, connVars, failed, AdminLeaves>>

(* ~EventCenter(): what is left in external_events runs in this thread,     *)
(* where delete_file_event() and delete_time_event() fail their assertion;  *)
(* no timer may be left.                                                    *)
DestroyCenter(w) ==
  /\ MayStep(Admin) /\ admin = "destroying" /\ w \in todo
  /\ IF external_events[w] = << >>
     THEN /\ todo' = todo \ {w}
          /\ failed' = IF time_events[w] = << >> THEN failed ELSE "time_events.empty()"
          /\ UNCHANGED <<external_events, status>>
     ELSE LET e == Head(external_events[w])
          IN  /\ IF e.kind = "clean" /\ fd[e.of] = None
                     /\ Without(time_events[w], e.of) = time_events[w]
                 THEN /\ external_events' = [external_events EXCEPT ![w] = Tail(@)]
                      /\ status' = [status EXCEPT ![e.of] = "freed"]
                      /\ UNCHANGED failed
                 ELSE failed' = "in_thread()" /\ UNCHANGED <<external_events, status>>
              /\ UNCHANGED todo
  /\ UNCHANGED <<external_num_events, notify, owed, fileVars, time_events, loopVars, references,
                 home, fd, admin, pending, pool_spin, done, calls, faults>>

End ==
  /\ AdminGoes("destroying", "end") /\ todo = {}
  /\ UNCHANGED <<queueVars, todo, pending, pool_spin, references, connVars, failed, AdminLeaves>>

(* The process has ended, by itself or by a failed assertion.               *)
Ended == (admin = "end" \/ failed # None) /\ UNCHANGED vars

AdminRuns ==
  \/ Ready \/ Started
  \/ (\E h \in Conns : ShutdownConnection(h))
  \/ Drain \/ (\E w \in Workers : DrainWorker(w))
  \/ Destroy \/ (\E w \in Workers : StopWorker(w) \/ JoinWorker(w)) \/ Stopped
  \/ (\E w \in Workers : DestroyCenter(w)) \/ End
-----------------------------------------------------------------------------
Next ==
  \/ \E a \in Actors : Wakeup(a)
  \/ \E w \in Workers : WorkerRuns(w) \/ SocketOrTimer(w)
  \/ \E h \in Conns : Arrive(h)
  \/ \E t \in Threads, h \in Conns : Connect(t, h) \/ Send(t, h) \/ MarkDown(t, h)
  \/ AdminRuns \/ Shutdown
  \/ Ended

Spec == Init /\ [][Next]_vars

(* Threads that can go on do.  Nothing is said of sockets and timers: what  *)
(* must happen may not depend on them.                                      *)
FairSpec ==
  /\ Spec
  /\ \A w \in Workers : WF_vars(WorkerRuns(w) \/ Wakeup(w))
  /\ \A t \in Threads : WF_vars(Wakeup(t))
  /\ WF_vars(AdminRuns \/ Wakeup(Admin))
-----------------------------------------------------------------------------
Events == [kind : {"read", "clean", "listen", "unlisten", "drain"}, of : Handlers]

(* Every variable keeps its type.                                           *)
TypeOK ==
  /\ external_events \in [Workers -> Seq(Events)]
  /\ cur_process \in [Workers -> Seq(Events)]
  /\ external_num_events \in [Workers -> Nat] /\ notify \in [Workers -> BOOLEAN]
  /\ owed \in [Actors -> Workers \cup {None}]
  /\ mask \in [Workers -> [AllFds -> SUBSET {"R", "W"}]]
  /\ read_cb \in [Workers -> [AllFds -> Handlers \cup {None}]]
  /\ write_cb \in [Workers -> [AllFds -> Handlers \cup {None}]]
  /\ nevent \in [Workers -> Nat]
  /\ time_events \in [Workers -> Seq(Handlers)]
  /\ at \in [Workers -> {"loop", "wait", "fire", "run", "exited"}]
  /\ blocking \in [Workers -> BOOLEAN] /\ trigger_time \in [Workers -> BOOLEAN]
  /\ fired_events \in [Workers -> Seq([fd : AllFds \cup {NotifyFd}, ready : SUBSET {"R", "W"}])]
  /\ done \in [Workers -> BOOLEAN] /\ references \in [Workers -> Nat]
  /\ status \in [Handlers -> {"new", "incoming", "open", "closed", "freed"}]
  /\ home \in [Handlers -> Workers] /\ fd \in [Handlers -> AllFds \cup {None}]
  /\ admin \in {"ready", "starting", "up", "unlistening", "draining", "stopping",
                "destroying", "end"}
  /\ todo \subseteq Workers /\ pending \subseteq Workers
  /\ pool_spin \in {None, Admin}
  /\ calls \in 0..MaxCalls /\ faults \in 0..MaxFaults

(* dispatch_event_external() (Event.cc:452) and stop() (Stack.cc:173): a     *)
(* worker never blocks in event_wait() with an external event queued, or    *)
(* told to stop, unless its notify pipe holds a byte or somebody is about   *)
(* to write one.                                                            *)
NoLostWakeup ==
  \A w \in Workers :
    at[w] = "wait" /\ blocking[w] /\ (external_events[w] # << >> \/ done[w])
      => notify[w] \/ \E a \in Actors : owed[a] = w

(* cleanup() (AsyncConnection.h:390) frees the callbacks of a connection:   *)
(* nothing its center will still look at leads to them, whatever was queued *)
(* or registered before.                                                    *)
NothingDangles ==
  \A w \in Workers, h \in Conns :
    status[h] = "freed" =>
      /\ \A f \in AllFds : read_cb[w][f] # h /\ write_cb[w][f] # h
      /\ \A i \in 1..Len(time_events[w]) : time_events[w][i] # h
      /\ \A i \in 1..Len(external_events[w]) : external_events[w][i].of # h
      /\ \A i \in 1..Len(cur_process[w]) : cur_process[w][i].of # h

(* No assertion of Event.cc, Event.h or Stack.h fails, no callback that was *)
(* deleted or freed is called, and what ~EventCenter() runs outside the     *)
(* center's thread needs no thread.                                         *)
CodeAsserts == failed = None

(* External events of a center run in the order they were dispatched, none  *)
(* twice, and none is dropped: a step takes at most the first of what is    *)
(* pending and adds at most one behind the last.                            *)
Pending(w) == cur_process[w] \o external_events[w]
EventsKeepOrder ==
  [][\A w \in Workers : \E n \in {1, 2} :
       LET rest == SubSeq(Pending(w), n, Len(Pending(w)))
       IN  /\ Len(Pending(w)') \in {Len(rest), Len(rest) + 1}
           /\ SubSeq(Pending(w)', 1, Len(rest)) = rest]_vars

(* A connection that was stopped is cleaned up; no socket and no timer need *)
(* help.                                                                    *)
ClosedIsFreed == \A h \in Conns : status[h] = "closed" ~> status[h] = "freed"

(* Processor::stop(), drain() and stop() return: the messenger and the stack *)
(* end once shutdown() was called.                                           *)
ShutdownEnds == admin = "unlistening" ~> admin = "end"
=============================================================================

-------------------------- MODULE EventCenterProofs --------------------------
(***************************************************************************)
(* Proofs about EventCenter, for any workers, connections and threads and  *)
(* any bounds: no worker sleeps through an external event or an order to   *)
(* stop, external events run in the order they were dispatched, nothing a  *)
(* center holds leads to a connection that has been freed, and no          *)
(* assertion fails.                                                        *)
(***************************************************************************)
EXTENDS EventCenter, FiniteSetTheorems, SequenceTheorems, WellFoundedInduction, TLAPS

(* As much of the types as the argument needs.                             *)
IsSeq(s) == \E S : s \in Seq(S)
Shape ==
  /\ external_events = [w \in Workers |-> external_events[w]]
  /\ cur_process = [w \in Workers |-> cur_process[w]]
  /\ \A w \in Workers : IsSeq(external_events[w]) /\ IsSeq(cur_process[w])
  /\ external_num_events \in [Workers -> Nat]
  /\ notify \in [Workers -> BOOLEAN]
  /\ owed = [a \in Actors |-> owed[a]]
  /\ at = [w \in Workers |-> at[w]]
  /\ blocking \in [Workers -> BOOLEAN]
  /\ done \in [Workers -> BOOLEAN]

(* A center that counts no external event has none.  The count is larger   *)
(* than the queue only while ~EventCenter() empties it.                    *)
Counted == \A w \in Workers : external_num_events[w] = 0 => external_events[w] = << >>

(* Who sleeps although events are counted, or although it was told to      *)
(* stop, has a byte in its pipe or somebody who is about to write one.     *)
Asleep(w) == at[w] = "wait" /\ blocking[w]
Needed(w) == external_num_events[w] # 0 \/ done[w]
Called(w) == notify[w] \/ \E a \in Actors : owed[a] = w
NobodyForgotten == \A w \in Workers : Asleep(w) /\ Needed(w) => Called(w)

(* The events of a round are taken over when those of the last have run.   *)
RunsOnlyTaken == \A w \in Workers : at[w] # "run" => cur_process[w] = << >>

(* Workers that stop() has joined have ended, and so have all of them      *)
(* before a center is destroyed.                                           *)
AllJoined ==
  /\ admin = "stopping" => \A w \in Workers \ todo : at[w] = "exited"
  /\ admin \in {"destroying", "end"} => \A w \in Workers : at[w] = "exited"

Loop == Shape /\ Counted /\ NobodyForgotten /\ RunsOnlyTaken /\ AllJoined

LEMMA EmptyIsSeq == IsSeq(<< >>)
<1>1. << >> \in Seq({})
  BY EmptySeq
<1> QED BY <1>1 DEF IsSeq

LEMMA AppendIsSeq == ASSUME NEW s, IsSeq(s), NEW e PROVE IsSeq(Append(s, e))
<1>1. PICK S : s \in Seq(S)
  BY DEF IsSeq
<1>2. s \in Seq(S \cup {e})
  BY <1>1, LenProperties
<1>3. Append(s, e) \in Seq(S \cup {e})
  BY <1>2
<1> QED BY <1>3 DEF IsSeq

LEMMA TailIsSeq == ASSUME NEW s, IsSeq(s), s # << >> PROVE IsSeq(Tail(s))
<1>1. PICK S : s \in Seq(S)
  BY DEF IsSeq
<1>2. Tail(s) \in Seq(S)
  BY <1>1
<1> QED BY <1>2 DEF IsSeq

LEMMA LoopInit == Init => Loop
<1> SUFFICES ASSUME Init PROVE Loop
  OBVIOUS
<1>1. Shape
  BY EmptyIsSeq DEF Init, Shape
<1>2. Counted /\ NobodyForgotten /\ RunsOnlyTaken /\ AllJoined
  BY DEF Init, Counted, NobodyForgotten, RunsOnlyTaken, AllJoined, Asleep
<1> QED BY <1>1, <1>2 DEF Loop
-----------------------------------------------------------------------------
(* What a step does to the queues: nothing, or actor a, which owes nobody  *)
(* a wake-up and does not sleep, dispatches one event.                     *)
Dispatches(a) ==
  /\ a \in Actors /\ owed[a] = None
  /\ a \in Workers => at[a] # "wait"
  /\ \E v, e : Dispatch(a, v, e)

(* dispatch_event_external() keeps the invariant, as long as nobody falls  *)
(* asleep in the same step.                                                *)
LEMMA DispatchShape ==
  ASSUME Loop, NEW a, Dispatches(a)
  PROVE  /\ external_events' = [w \in Workers |-> external_events'[w]]
         /\ external_num_events' \in [Workers -> Nat]
         /\ notify' = notify
         /\ owed' = [b \in Actors |-> owed'[b]]
         /\ \A w \in Workers : \/ external_events'[w] = external_events[w]
                               \/ \E e : external_events'[w] = Append(external_events[w], e)
         /\ Counted'
         /\ \A b \in Actors : owed[b] # None => owed'[b] = owed[b]
         /\ \A w \in Workers :
              \/ external_num_events'[w] = external_num_events[w]
              \/ external_num_events[w] # 0
              \/ w = a
              \/ owed'[a] = w
<1>1. PICK v, e : Dispatch(a, v, e)
  BY DEF Dispatches
<1>2. external_events' = [external_events EXCEPT ![v] = Append(@, e)]
  BY <1>1 DEF Dispatch
<1>3. external_num_events' = [external_num_events EXCEPT ![v] = @ + 1]
  BY <1>1 DEF Dispatch
<1>4. owed' = [owed EXCEPT ![a] =
                 IF a # v /\ external_num_events[v] = 0 THEN v ELSE @]
  BY <1>1 DEF Dispatch
<1>5. external_events' = [w \in Workers |-> external_events'[w]]
  BY <1>2 DEF Loop, Shape
<1>6. external_num_events' \in [Workers -> Nat]
  <2>1. CASE v \in Workers
    BY <1>3, <2>1 DEF Loop, Shape
  <2>2. CASE v \notin Workers
    <3>1. external_num_events' = external_num_events
      BY <1>3, <2>2 DEF Loop, Shape
    <3> QED BY <3>1 DEF Loop, Shape
  <2> QED BY <2>1, <2>2
<1>7. owed' = [b \in Actors |-> owed'[b]]
  BY <1>4 DEF Loop, Shape
<1>8. notify' = notify
  BY <1>1 DEF Dispatch
<1>9. \A w \in Workers : \/ external_events'[w] = external_events[w]
                          \/ \E f : external_events'[w] = Append(external_events[w], f)
  BY <1>2 DEF Loop, Shape
<1>10. Counted'
  BY <1>2, <1>3 DEF Counted, Loop, Shape
<1>11. \A b \in Actors : owed[b] # None => owed'[b] = owed[b]
  BY <1>4 DEF Dispatches, Loop, Shape
<1>12. ASSUME NEW w \in Workers
       PROVE  \/ external_num_events'[w] = external_num_events[w]
              \/ external_num_events[w] # 0
              \/ w = a
              \/ owed'[a] = w
  BY <1>3, <1>4 DEF Dispatches, Loop, Shape
<1> QED BY <1>5, <1>6, <1>7, <1>8, <1>9, <1>10, <1>11, <1>12

LEMMA DispatchWakes ==
  ASSUME Loop, NEW a, Dispatches(a),
         \A w \in Workers : at'[w] = "wait" => at[w] = "wait",
         \A w \in Workers : at'[w] = "wait" => blocking'[w] = blocking[w],
         UNCHANGED done
  PROVE  NobodyForgotten'
<1> SUFFICES ASSUME NEW w \in Workers, Asleep(w)', Needed(w)'
             PROVE  Called(w)'
  BY DEF NobodyForgotten
<1>1. Asleep(w) /\ notify' = notify
  BY DispatchShape DEF Asleep
<1>2. CASE Needed(w)
  <2>1. Called(w)
    BY <1>1, <1>2 DEF Loop, NobodyForgotten
  <2>2. CASE notify[w]
    BY <1>1, <2>2 DEF Called
  <2>3. CASE \E b \in Actors : owed[b] = w
    <3>1. w # None
      BY NoneIsNone DEF Actors
    <3> QED BY <2>3, <3>1, DispatchShape DEF Called
  <2> QED BY <2>1, <2>2, <2>3 DEF Called
<1>3. CASE ~Needed(w)
  <2>1. external_num_events[w] = 0 /\ external_num_events'[w] # 0
    BY <1>3 DEF Needed
  <2>2. w # a
    BY <1>1 DEF Dispatches, Asleep
  <2>3. owed'[a] = w
    BY <2>1, <2>2, DispatchShape
  <2> QED BY <2>3 DEF Called, Dispatches
<1> QED BY <1>2, <1>3

(* The steps that leave the threads where they are: nothing happens to the *)
(* queues, or one event is dispatched.                                     *)
InPlace ==
  /\ UNCHANGED <<at, blocking, cur_process, done>>
  /\ UNCHANGED queueVars \/ \E a : Dispatches(a)

LEMMA InPlaceKeepsLoop == ASSUME Loop, InPlace, AllJoined' PROVE Loop'
<1> USE DEF InPlace
<1>1. CASE UNCHANGED queueVars
  <2>1. Shape'
    BY <1>1 DEF Loop, Shape, queueVars
  <2>2. Counted' /\ RunsOnlyTaken'
    BY <1>1 DEF Loop, Counted, RunsOnlyTaken, queueVars
  <2>3. NobodyForgotten'
    BY <1>1 DEF Loop, NobodyForgotten, Asleep, Needed, Called, queueVars
  <2> QED BY <2>1, <2>2, <2>3 DEF Loop
<1>2. ASSUME NEW a, Dispatches(a) PROVE Loop'
  <2>1. ASSUME NEW w \in Workers PROVE IsSeq(external_events'[w])
    <3>1. IsSeq(external_events[w])
      BY DEF Loop, Shape
    <3>2. CASE external_events'[w] = external_events[w]
      BY <3>1, <3>2
    <3>3. ASSUME NEW e, external_events'[w] = Append(external_events[w], e)
          PROVE  IsSeq(external_events'[w])
      BY <3>1, <3>3, AppendIsSeq
    <3>4. \/ external_events'[w] = external_events[w]
          \/ \E e : external_events'[w] = Append(external_events[w], e)
      BY <1>2, DispatchShape
    <3> QED BY <3>2, <3>3, <3>4
  <2>2. Shape'
    BY <1>2, <2>1, DispatchShape DEF Loop, Shape
  <2>3. Counted'
    BY <1>2, DispatchShape
  <2>4. NobodyForgotten'
    BY <1>2, DispatchWakes
  <2>5. RunsOnlyTaken'
    BY DEF Loop, RunsOnlyTaken
  <2> QED BY <2>2, <2>3, <2>4, <2>5 DEF Loop
<1> QED BY <1>1, <1>2

(* A callback of w dispatches at most one event.                           *)
LEMMA CallbackQueues ==
  ASSUME NEW w, NEW h, NEW timers, Callback(w, h, timers)
  PROVE  UNCHANGED queueVars \/ \E v, e : Dispatch(w, v, e)
BY DEF Callback, Quiet, Register, OpenWrite, CloseWrite, Fault, StopSelf, Stop

LEMMA StopQueues ==
  ASSUME NEW a, NEW h, Stop(a, h)
  PROVE  UNCHANGED queueVars \/ \E v, e : Dispatch(a, v, e)
BY DEF Stop
-----------------------------------------------------------------------------
(* The steps of a worker.                                                  *)
LEMMA WakeupLoop == ASSUME Loop, NEW a \in Actors, Wakeup(a) PROVE Loop'
<1>1. /\ owed[a] # None
      /\ notify' = [notify EXCEPT ![owed[a]] = TRUE]
      /\ owed' = [owed EXCEPT ![a] = None]
  BY DEF Wakeup
<1>2. UNCHANGED <<external_events, external_num_events, cur_process, at, blocking, done,
                  admin, todo>>
  BY DEF Wakeup, loopVars, adminVars
<1>3. Shape'
  BY <1>1, <1>2 DEF Loop, Shape
<1>4. NobodyForgotten'
  <2> SUFFICES ASSUME NEW w \in Workers, Asleep(w)', Needed(w)'
               PROVE  Called(w)'
    BY DEF NobodyForgotten
  <2>1. Called(w)
    BY <1>2 DEF Loop, NobodyForgotten, Asleep, Needed
  <2>2. CASE owed[a] = w
    BY <1>1, <2>2 DEF Called, Loop, Shape
  <2>3. CASE owed[a] # w
    BY <1>1, <2>1, <2>3 DEF Called, Loop, Shape
  <2> QED BY <2>2, <2>3
<1>5. Counted' /\ RunsOnlyTaken' /\ AllJoined'
  BY <1>2 DEF Loop, Counted, RunsOnlyTaken, AllJoined
<1> QED BY <1>3, <1>4, <1>5 DEF Loop

(* A worker that decides to block has seen neither an event nor done.      *)
LEMMA StartRoundLoop == ASSUME Loop, NEW w \in Workers, StartRound(w) PROVE Loop'
<1>1. /\ at[w] = "loop" /\ ~done[w]
      /\ blocking' = [blocking EXCEPT ![w] = external_num_events[w] = 0]
      /\ at' = [at EXCEPT ![w] = "wait"]
  BY DEF StartRound
<1>2. UNCHANGED <<external_events, external_num_events, notify, owed, cur_process, done,
                  admin, todo>>
  BY DEF StartRound, queueVars, adminVars
<1>3. Shape'
  BY <1>1, <1>2 DEF Loop, Shape
<1>4. NobodyForgotten'
  <2> SUFFICES ASSUME NEW v \in Workers, Asleep(v)', Needed(v)'
               PROVE  Called(v)'
    BY DEF NobodyForgotten
  <2>1. v # w
    BY <1>1, <1>2 DEF Asleep, Needed, Loop, Shape
  <2>2. Asleep(v) /\ Needed(v)
    BY <1>1, <1>2, <2>1 DEF Asleep, Needed, Loop, Shape
  <2> QED BY <1>2, <2>2 DEF Called, Loop, NobodyForgotten
<1>5. Counted' /\ RunsOnlyTaken'
  BY <1>1, <1>2 DEF Loop, Shape, Counted, RunsOnlyTaken
<1>6. AllJoined'
  BY <1>1, <1>2 DEF Loop, Shape, AllJoined
<1> QED BY <1>3, <1>4, <1>5, <1>6 DEF Loop

(* A worker that moves on within its round, or ends, is not asleep; the    *)
(* calls to others stand.                                                  *)
LEMMA AwakeLoop ==
  ASSUME Loop, NEW w \in Workers, at'[w] # "wait",
         \A u \in Workers \ {w} : Asleep(u)' /\ Needed(u)' => Asleep(u) /\ Needed(u),
         \A u \in Workers \ {w} : notify'[u] = notify[u],
         UNCHANGED owed
  PROVE  NobodyForgotten'
<1> SUFFICES ASSUME NEW u \in Workers, Asleep(u)', Needed(u)'
             PROVE  Called(u)'
  BY DEF NobodyForgotten
<1>1. u # w
  BY DEF Asleep
<1> QED BY <1>1 DEF Called, Loop, NobodyForgotten

LEMMA ExitLoop == ASSUME Loop, NEW w \in Workers, Exit(w) PROVE Loop'
<1>1. /\ at[w] = "loop" /\ at' = [at EXCEPT ![w] = "exited"]
      /\ done' = [done EXCEPT ![w] = FALSE]
  BY DEF Exit
<1>2. UNCHANGED <<external_events, external_num_events, notify, owed, cur_process, blocking,
                  admin, todo>>
  BY DEF Exit, queueVars
<1>3. Shape'
  BY <1>1, <1>2 DEF Loop, Shape
<1>4. NobodyForgotten'
  <2>1. at'[w] # "wait"
    BY <1>1 DEF Loop, Shape
  <2>2. \A u \in Workers \ {w} : Asleep(u)' /\ Needed(u)' => Asleep(u) /\ Needed(u)
    BY <1>1, <1>2 DEF Asleep, Needed, Loop, Shape
  <2> QED BY <1>2, <2>1, <2>2, AwakeLoop
<1>5. Counted' /\ RunsOnlyTaken' /\ AllJoined'
  BY <1>1, <1>2 DEF Loop, Shape, Counted, RunsOnlyTaken, AllJoined
<1> QED BY <1>3, <1>4, <1>5 DEF Loop

LEMMA EventWaitLoop == ASSUME Loop, NEW w \in Workers, EventWait(w) PROVE Loop'
<1>1. /\ at[w] = "wait" /\ at' = [at EXCEPT ![w] = "fire"]
      /\ blocking' = [blocking EXCEPT ![w] = FALSE]
  BY DEF EventWait
<1>2. UNCHANGED <<external_events, external_num_events, notify, owed, cur_process, done,
                  admin, todo>>
  BY DEF EventWait, queueVars, adminVars
<1>3. Shape'
  BY <1>1, <1>2 DEF Loop, Shape
<1>4. NobodyForgotten'
  <2>1. at'[w] # "wait"
    BY <1>1 DEF Loop, Shape
  <2>2. \A u \in Workers \ {w} : Asleep(u)' /\ Needed(u)' => Asleep(u) /\ Needed(u)
    BY <1>1, <1>2 DEF Asleep, Needed, Loop, Shape
  <2> QED BY <1>2, <2>1, <2>2, AwakeLoop
<1>5. Counted' /\ RunsOnlyTaken' /\ AllJoined'
  BY <1>1, <1>2 DEF Loop, Shape, Counted, RunsOnlyTaken, AllJoined
<1> QED BY <1>3, <1>4, <1>5 DEF Loop

(* The byte is read by a worker that will look at its queue before it      *)
(* waits again.                                                            *)
LEMMA DrainNotifyLoop == ASSUME Loop, NEW w \in Workers, DrainNotify(w) PROVE Loop'
<1>1. at[w] = "fire" /\ notify' = [notify EXCEPT ![w] = FALSE]
  BY DEF DrainNotify
<1>2. UNCHANGED <<external_events, external_num_events, owed, at, blocking, cur_process,
                  done, admin, todo>>
  BY DEF DrainNotify, adminVars
<1>3. Shape'
  BY <1>1, <1>2 DEF Loop, Shape
<1>4. NobodyForgotten'
  BY <1>1, <1>2 DEF NobodyForgotten, Asleep, Needed, Called, Loop, Shape
<1>5. Counted' /\ RunsOnlyTaken' /\ AllJoined'
  BY <1>2 DEF Loop, Counted, RunsOnlyTaken, AllJoined
<1> QED BY <1>3, <1>4, <1>5 DEF Loop

LEMMA AcceptInPlace == ASSUME Loop, NEW w \in Workers, Accept(w)
  PROVE  InPlace /\ AllJoined'
<1>1. at[w] = "fire" /\ owed[w] = None /\ w \in Actors
  BY DEF Accept, MayStep, Actors
<1>2. UNCHANGED <<at, blocking, cur_process, done, admin, todo>>
  BY DEF Accept, adminVars
<1>3. UNCHANGED queueVars \/ Dispatches(w)
  BY <1>1 DEF Accept, Dispatches
<1>4. AllJoined'
  BY <1>2 DEF Loop, AllJoined
<1> QED BY <1>2, <1>3, <1>4 DEF InPlace

LEMMA FireSocketInPlace == ASSUME Loop, NEW w \in Workers, FireSocket(w)
  PROVE  InPlace /\ AllJoined'
<1>1. at[w] = "fire" /\ owed[w] = None /\ w \in Actors
  BY DEF FireSocket, MayStep, Actors
<1>2. UNCHANGED <<at, blocking, cur_process, done, admin, todo>>
  BY DEF FireSocket, adminVars
<1>3. UNCHANGED queueVars \/ \E h, timers : Callback(w, h, timers)
  BY DEF FireSocket
<1>4. UNCHANGED queueVars \/ Dispatches(w)
  BY <1>1, <1>3, CallbackQueues DEF Dispatches
<1>5. AllJoined'
  BY <1>2 DEF Loop, AllJoined
<1> QED BY <1>2, <1>4, <1>5 DEF InPlace

LEMMA RunTimerInPlace == ASSUME Loop, NEW w \in Workers, RunTimer(w)
  PROVE  InPlace /\ AllJoined'
<1>1. at[w] = "fire" /\ owed[w] = None /\ w \in Actors
  BY DEF RunTimer, MayStep, Actors
<1>2. UNCHANGED <<at, blocking, cur_process, done, admin, todo>>
  BY DEF RunTimer, loopVars, adminVars
<1>3. UNCHANGED queueVars \/ Dispatches(w)
  BY <1>1, CallbackQueues DEF RunTimer, Dispatches
<1>4. AllJoined'
  BY <1>2 DEF Loop, AllJoined
<1> QED BY <1>2, <1>3, <1>4 DEF InPlace

(* The whole queue is taken and the count set to 0.                        *)
LEMMA TakeExternalLoop == ASSUME Loop, NEW w \in Workers, TakeExternal(w) PROVE Loop'
<1>1. at[w] = "fire" /\ cur_process[w] = << >>
  BY DEF TakeExternal, Loop, RunsOnlyTaken
<1>2. UNCHANGED <<notify, owed, blocking, done, admin, todo>>
  BY DEF TakeExternal, adminVars
<1>3. CASE external_num_events[w] = 0
  <2>1. at' = [at EXCEPT ![w] = "loop"]
    BY <1>3 DEF TakeExternal
  <2>2. UNCHANGED <<cur_process, external_events, external_num_events>>
    BY <1>3 DEF TakeExternal
  <2>3. Shape'
    BY <1>2, <2>1, <2>2 DEF Loop, Shape
  <2>4. NobodyForgotten'
    <3>1. at'[w] # "wait"
      BY <2>1 DEF Loop, Shape
    <3>2. \A u \in Workers \ {w} : Asleep(u)' /\ Needed(u)' => Asleep(u) /\ Needed(u)
      BY <1>2, <2>1, <2>2 DEF Asleep, Needed, Loop, Shape
    <3> QED BY <1>2, <3>1, <3>2, AwakeLoop
  <2>5. Counted' /\ RunsOnlyTaken' /\ AllJoined'
    BY <1>1, <1>2, <2>1, <2>2 DEF Loop, Shape, Counted, RunsOnlyTaken, AllJoined
  <2> QED BY <2>3, <2>4, <2>5 DEF Loop
<1>4. CASE external_num_events[w] # 0
  <2>1. /\ at' = [at EXCEPT ![w] = "run"]
        /\ cur_process' = [cur_process EXCEPT ![w] = external_events[w]]
        /\ external_events' = [external_events EXCEPT ![w] = << >>]
        /\ external_num_events' = [external_num_events EXCEPT ![w] = 0]
    BY <1>4 DEF TakeExternal
  <2>2. \A u \in Workers : IsSeq(external_events'[u]) /\ IsSeq(cur_process'[u])
    BY <2>1, EmptyIsSeq DEF Loop, Shape
  <2>3. Shape'
    BY <1>2, <2>1, <2>2 DEF Loop, Shape
  <2>4. NobodyForgotten'
    <3>1. at'[w] # "wait"
      BY <2>1 DEF Loop, Shape
    <3>2. \A u \in Workers \ {w} : Asleep(u)' /\ Needed(u)' => Asleep(u) /\ Needed(u)
      BY <1>2, <2>1 DEF Asleep, Needed, Loop, Shape
    <3> QED BY <1>2, <3>1, <3>2, AwakeLoop
  <2>5. Counted' /\ RunsOnlyTaken'
    BY <2>1 DEF Loop, Shape, Counted, RunsOnlyTaken
  <2>6. AllJoined'
    BY <1>1, <1>2, <2>1 DEF Loop, Shape, AllJoined
  <2> QED BY <2>3, <2>4, <2>5, <2>6 DEF Loop
<1> QED BY <1>3, <1>4

(* What a worker does with an external event, apart from taking it: one    *)
(* more may be dispatched.                                                 *)
LEMMA RunExternalQueues ==
  ASSUME NEW w \in Workers, RunExternal(w)
  PROVE  UNCHANGED queueVars \/ Dispatches(w)
<1>1. at[w] = "run" /\ owed[w] = None /\ w \in Actors
  BY DEF RunExternal, MayStep, Actors
<1>2. \/ UNCHANGED queueVars
      \/ \E h, timers : Callback(w, h, timers)
  BY DEF RunExternal, Cleanup
<1> QED BY <1>1, <1>2, CallbackQueues DEF Dispatches

LEMMA RunExternalLoop == ASSUME Loop, NEW w \in Workers, RunExternal(w) PROVE Loop'
<1>1. /\ at[w] = "run" /\ cur_process[w] # << >>
      /\ cur_process' = [cur_process EXCEPT ![w] = Tail(@)]
      /\ at' = [at EXCEPT ![w] = IF Len(cur_process[w]) = 1 THEN "loop" ELSE @]
  BY DEF RunExternal
<1>2. UNCHANGED <<blocking, done, admin, todo>>
  BY DEF RunExternal
<1>3. \A u \in Workers : IsSeq(cur_process'[u])
  BY <1>1, TailIsSeq DEF Loop, Shape
<1>4. RunsOnlyTaken'
  <2> SUFFICES ASSUME NEW u \in Workers, at'[u] # "run" PROVE cur_process'[u] = << >>
    BY DEF RunsOnlyTaken
  <2>1. CASE u = w
    <3>1. Len(cur_process[w]) = 1
      BY <1>1, <2>1 DEF Loop, Shape
    <3>2. PICK S : cur_process[w] \in Seq(S)
      BY DEF Loop, Shape, IsSeq
    <3>3. Tail(cur_process[w]) \in Seq(S) /\ Len(Tail(cur_process[w])) = 0
      BY <1>1, <3>1, <3>2
    <3>4. Tail(cur_process[w]) = << >>
      BY <3>3, EmptySeq
    <3> QED BY <1>1, <2>1, <3>4 DEF Loop, Shape
  <2>2. CASE u # w
    BY <1>1, <2>2 DEF Loop, Shape, RunsOnlyTaken
  <2> QED BY <2>1, <2>2
<1>5. AllJoined'
  BY <1>1, <1>2 DEF Loop, Shape, AllJoined
<1>6. \A u \in Workers : at'[u] = "wait" => at[u] = "wait"
  BY <1>1 DEF Loop, Shape
<1>7. CASE UNCHANGED queueVars
  <2>1. Shape' /\ Counted'
    BY <1>1, <1>2, <1>3, <1>7 DEF Loop, Shape, Counted, queueVars
  <2>2. NobodyForgotten'
    BY <1>2, <1>6, <1>7 DEF Loop, NobodyForgotten, Asleep, Needed, Called, queueVars
  <2> QED BY <1>4, <1>5, <2>1, <2>2 DEF Loop
<1>8. CASE Dispatches(w)
  <2>1. ASSUME NEW u \in Workers PROVE IsSeq(external_events'[u])
    <3>1. IsSeq(external_events[u])
      BY DEF Loop, Shape
    <3>2. CASE external_events'[u] = external_events[u]
      BY <3>1, <3>2
    <3>3. ASSUME NEW e, external_events'[u] = Append(external_events[u], e)
          PROVE  IsSeq(external_events'[u])
      BY <3>1, <3>3, AppendIsSeq
    <3>4. \/ external_events'[u] = external_events[u]
          \/ \E e : external_events'[u] = Append(external_events[u], e)
      BY <1>8, DispatchShape
    <3> QED BY <3>2, <3>3, <3>4
  <2>2. Shape'
    BY <1>1, <1>2, <1>3, <1>8, <2>1, DispatchShape DEF Loop, Shape
  <2>3. Counted'
    BY <1>8, DispatchShape
  <2>4. NobodyForgotten'
    BY <1>2, <1>6, <1>8, DispatchWakes
  <2> QED BY <1>4, <1>5, <2>2, <2>3, <2>4 DEF Loop
<1> QED BY <1>7, <1>8, RunExternalQueues
-----------------------------------------------------------------------------
(* The steps of the threads outside.                                       *)
LEMMA OutsideInPlace ==
  ASSUME Loop, NEW t \in Threads, NEW h,
         Connect(t, h) \/ Send(t, h) \/ MarkDown(t, h)
  PROVE  InPlace /\ AllJoined'
<1>1. owed[t] = None /\ t \in Actors /\ t \notin Workers
  BY ActorsDiffer DEF Connect, Send, MarkDown, MayStep, Actors
<1>2. UNCHANGED <<at, blocking, cur_process, done, admin, todo>>
  BY DEF Connect, Send, MarkDown, loopVars, adminVars
<1>3. UNCHANGED queueVars \/ Dispatches(t)
  BY <1>1, StopQueues DEF Connect, Send, MarkDown, Dispatches
<1>4. AllJoined'
  BY <1>2 DEF Loop, AllJoined
<1> QED BY <1>2, <1>3, <1>4 DEF InPlace

LEMMA ArriveInPlace == ASSUME Loop, NEW h, Arrive(h)
  PROVE  InPlace /\ AllJoined'
<1>1. UNCHANGED <<queueVars, at, blocking, cur_process, done, admin, todo>>
  BY DEF Arrive, loopVars, adminVars
<1>2. AllJoined'
  BY <1>1 DEF Loop, AllJoined
<1> QED BY <1>1, <1>2 DEF InPlace

(* The Admin's steps up to the end of drain().                             *)
LEMMA AdminDispatchInPlace ==
  ASSUME Loop,
         \/ Ready \/ Started \/ Shutdown \/ Drain \/ Destroy \/ Stopped \/ End
         \/ \E h : ShutdownConnection(h)
         \/ \E w : DrainWorker(w)
  PROVE  InPlace /\ AllJoined'
<1>1. owed[Admin] = None /\ Admin \in Actors /\ Admin \notin Workers
  BY ActorsDiffer
     DEF Ready, Started, Shutdown, Drain, Destroy, Stopped, End, ShutdownConnection,
         DrainWorker, AdminGoes, MayStep, Actors
<1>2. UNCHANGED <<at, blocking, cur_process, done>>
  BY DEF Ready, Started, Shutdown, Drain, Destroy, Stopped, End, ShutdownConnection,
         DrainWorker, Submit, AdminLeaves, loopVars
<1>3. UNCHANGED queueVars \/ Dispatches(Admin)
  BY <1>1, StopQueues
     DEF Ready, Started, Shutdown, Drain, Destroy, Stopped, End, ShutdownConnection,
         DrainWorker, Submit, Dispatches
<1>4. AllJoined'
  BY <1>2
     DEF Ready, Started, Shutdown, Drain, Destroy, Stopped, End, ShutdownConnection,
         DrainWorker, AdminGoes, Loop, AllJoined
<1> QED BY <1>2, <1>3, <1>4 DEF InPlace

(* stop(): whoever sets done is about to wake the worker.                  *)
LEMMA StopWorkerLoop == ASSUME Loop, NEW w \in Workers, StopWorker(w) PROVE Loop'
<1>1. /\ owed[Admin] = None /\ Admin \in Actors
      /\ done' = [done EXCEPT ![w] = TRUE]
      /\ owed' = [owed EXCEPT ![Admin] = w]
  BY DEF StopWorker, MayStep, Actors
<1>2. UNCHANGED <<external_events, external_num_events, notify, at, blocking, cur_process,
                  admin, todo>>
  BY DEF StopWorker, loopVars
<1>3. Shape'
  BY <1>1, <1>2 DEF Loop, Shape
<1>4. NobodyForgotten'
  <2> SUFFICES ASSUME NEW u \in Workers, Asleep(u)', Needed(u)'
               PROVE  Called(u)'
    BY DEF NobodyForgotten
  <2>1. CASE u = w
    <3>1. owed'[Admin] = u
      BY <1>1, <2>1 DEF Loop, Shape
    <3> QED BY <1>1, <3>1 DEF Called
  <2>2. CASE u # w
    <3>1. Called(u)
      BY <1>1, <1>2, <2>2 DEF Asleep, Needed, Loop, Shape, NobodyForgotten
    <3>2. u # None
      BY NoneIsNone DEF Actors
    <3> QED BY <1>1, <1>2, <3>1, <3>2 DEF Called, Loop, Shape
  <2> QED BY <2>1, <2>2
<1>5. Counted' /\ RunsOnlyTaken' /\ AllJoined'
  BY <1>2 DEF Loop, Counted, RunsOnlyTaken, AllJoined
<1> QED BY <1>3, <1>4, <1>5 DEF Loop

LEMMA JoinWorkerInPlace == ASSUME Loop, NEW w \in Workers, JoinWorker(w)
  PROVE  InPlace /\ AllJoined'
<1>1. /\ admin = "stopping" /\ at[w] = "exited" /\ todo' = todo \ {w}
      /\ UNCHANGED <<queueVars, at, blocking, cur_process, done, admin>>
  BY DEF JoinWorker, loopVars
<1>2. AllJoined'
  BY <1>1 DEF Loop, AllJoined
<1> QED BY <1>1, <1>2 DEF InPlace

(* ~EventCenter() takes events out of a center whose worker has ended.     *)
LEMMA DestroyCenterLoop == ASSUME Loop, NEW w \in Workers, DestroyCenter(w) PROVE Loop'
<1>1. /\ admin = "destroying" /\ admin' = admin
      /\ UNCHANGED <<external_num_events, notify, owed, at, blocking, cur_process, done>>
  BY DEF DestroyCenter, loopVars
<1>2. AllJoined' /\ RunsOnlyTaken'
  BY <1>1 DEF Loop, AllJoined, RunsOnlyTaken
<1>3. NobodyForgotten'
  BY <1>1 DEF Loop, NobodyForgotten, Asleep, Needed, Called
<1>4. CASE external_events' = external_events
  <2>1. Shape' /\ Counted'
    BY <1>1, <1>4 DEF Loop, Shape, Counted
  <2> QED BY <1>2, <1>3, <2>1 DEF Loop
<1>5. CASE external_events[w] # << >> /\ external_events' # external_events
  <2>1. external_events' = [external_events EXCEPT ![w] = Tail(@)]
    BY <1>5 DEF DestroyCenter
  <2>2. \A u \in Workers : IsSeq(external_events'[u])
    BY <1>5, <2>1, TailIsSeq DEF Loop, Shape
  <2>3. Shape'
    BY <1>1, <2>1, <2>2 DEF Loop, Shape
  <2>4. Counted'
    BY <1>1, <1>5, <2>1 DEF Loop, Shape, Counted
  <2> QED BY <1>2, <1>3, <2>3, <2>4 DEF Loop
<1> QED BY <1>4, <1>5 DEF DestroyCenter

LEMMA IdleInPlace == ASSUME Loop, Ended \/ UNCHANGED vars PROVE InPlace /\ AllJoined'
<1>1. UNCHANGED <<queueVars, at, blocking, cur_process, done, admin, todo>>
  BY DEF Ended, vars, loopVars, adminVars
<1> QED BY <1>1 DEF InPlace, Loop, AllJoined

(* Every other step, by the actor that takes it.                           *)
WorkerMoves(w) ==
  \/ StartRound(w) \/ Exit(w) \/ EventWait(w) \/ DrainNotify(w)
  \/ TakeExternal(w) \/ RunExternal(w)

LEMMA StepsOfNext ==
  ASSUME Loop, [Next]_vars
  PROVE  \/ InPlace /\ AllJoined'
         \/ \E a \in Actors : Wakeup(a)
         \/ \E w \in Workers : WorkerMoves(w) \/ StopWorker(w) \/ DestroyCenter(w)
<1>1. ASSUME NEW w \in Workers, WorkerRuns(w) \/ SocketOrTimer(w)
      PROVE  WorkerMoves(w) \/ (InPlace /\ AllJoined')
  <2>1. CASE Accept(w) \/ FireSocket(w) \/ RunTimer(w)
    BY <2>1, AcceptInPlace, FireSocketInPlace, RunTimerInPlace
  <2>2. CASE WorkerMoves(w)
    BY <2>2
  <2> QED BY <1>1, <2>1, <2>2 DEF WorkerRuns, WakeUp, SocketOrTimer, WorkerMoves
<1>2. ASSUME NEW h \in Conns, Arrive(h) PROVE InPlace /\ AllJoined'
  BY <1>2, ArriveInPlace
<1>3. ASSUME NEW t \in Threads, NEW h \in Conns,
             Connect(t, h) \/ Send(t, h) \/ MarkDown(t, h)
      PROVE  InPlace /\ AllJoined'
  BY <1>3, OutsideInPlace
<1>4. CASE AdminRuns \/ Shutdown
  BY <1>4, AdminDispatchInPlace, JoinWorkerInPlace DEF AdminRuns
<1>5. CASE Ended \/ UNCHANGED vars
  BY <1>5, IdleInPlace
<1> QED BY <1>1, <1>2, <1>3, <1>4, <1>5 DEF Next

LEMMA LoopNext == ASSUME Loop, [Next]_vars PROVE Loop'
<1>1. ASSUME NEW a \in Actors, Wakeup(a) PROVE Loop'
  BY <1>1, WakeupLoop
<1>2. ASSUME NEW w \in Workers, WorkerMoves(w) \/ StopWorker(w) \/ DestroyCenter(w)
      PROVE  Loop'
  BY <1>2, StartRoundLoop, ExitLoop, EventWaitLoop, DrainNotifyLoop, TakeExternalLoop,
     RunExternalLoop, StopWorkerLoop, DestroyCenterLoop DEF WorkerMoves
<1>3. CASE InPlace /\ AllJoined'
  BY <1>3, InPlaceKeepsLoop
<1> QED BY <1>1, <1>2, <1>3, StepsOfNext

-----------------------------------------------------------------------------
(* What a step does to the events pending at one center: c, those of the   *)
(* round, and x, those that wait.                                          *)
Grows(x, x2) == x2 = x \/ \E e : x2 = Append(x, e)
Moves(c, x, c2, x2) ==
  \/ c2 = c /\ Grows(x, x2)
  \/ c # << >> /\ c2 = Tail(c) /\ Grows(x, x2)
  \/ c = << >> /\ c2 = x /\ x2 = << >>
  \/ c = << >> /\ c2 = c /\ x # << >> /\ x2 = Tail(x)

Keeps(p, q) ==
  \E n \in {1, 2} :
    LET rest == SubSeq(p, n, Len(p))
    IN  /\ Len(q) \in {Len(rest), Len(rest) + 1}
        /\ SubSeq(q, 1, Len(rest)) = rest

LEMMA RestIsSeq ==
  ASSUME NEW S, NEW p \in Seq(S), NEW n \in {1, 2}
  PROVE  SubSeq(p, n, Len(p)) \in Seq(S)
<1>1. Len(p) \in Nat
  BY LenProperties
<1>2. \A i \in n .. Len(p) : p[i] \in S
  BY <1>1, ElementOfSeq
<1> QED BY <1>1, <1>2, SubSeqProperties

LEMMA RestKeeps ==
  ASSUME NEW S, NEW p \in Seq(S), NEW n \in {1, 2}
  PROVE  Keeps(p, SubSeq(p, n, Len(p)))
<1> DEFINE rest == SubSeq(p, n, Len(p))
<1>1. rest \in Seq(S)
  BY RestIsSeq
<1>2. SubSeq(rest, 1, Len(rest)) = rest
  BY <1>1, SubSeqFull
<1> QED BY <1>2 DEF Keeps

LEMMA AppendKeeps ==
  ASSUME NEW S, NEW p \in Seq(S), NEW n \in {1, 2}, NEW e \in S
  PROVE  Keeps(p, Append(SubSeq(p, n, Len(p)), e))
<1> DEFINE rest == SubSeq(p, n, Len(p))
<1>1. rest \in Seq(S) /\ Len(rest) \in Nat
  BY RestIsSeq, LenProperties
<1> HIDE DEF rest
<1>2. Len(Append(rest, e)) = Len(rest) + 1
  BY <1>1, AppendProperties
<1>3. SubSeq(Append(rest, e), 1, Len(rest)) = rest
  <2>1. CASE Len(rest) = 0
    <3>1. rest = << >>
      BY <1>1, <2>1, EmptySeq
    <3>2. SubSeq(Append(rest, e), 1, Len(rest)) = << >>
      BY <2>1, SubSeqEmpty
    <3> QED BY <3>1, <3>2
  <2>2. CASE Len(rest) # 0
    <3>1. Append(rest, e) = rest \o <<e>> /\ <<e>> \in Seq(S)
      BY <1>1, AppendIsConcat
    <3>2. 1 \in 1 .. Len(rest) /\ Len(rest) \in 1 .. Len(rest)
      BY <1>1, <2>2
    <3>3. SubSeq(rest \o <<e>>, 1, Len(rest)) = SubSeq(rest, 1, Len(rest))
      BY <1>1, <3>1, <3>2, SubSeqOfConcat1
    <3>4. SubSeq(rest, 1, Len(rest)) = rest
      BY <1>1, SubSeqFull
    <3> QED BY <3>1, <3>3, <3>4
  <2> QED BY <2>1, <2>2
<1> QED BY <1>2, <1>3 DEF Keeps, rest

LEMMA ConcatIsAssociative ==
  ASSUME NEW S, NEW s \in Seq(S), NEW t \in Seq(S), NEW u \in Seq(S)
  PROVE  (s \o t) \o u = s \o (t \o u)
BY ConcatAssociative

LEMMA AppendToConcat ==
  ASSUME NEW S, NEW c \in Seq(S), NEW x \in Seq(S), NEW e \in S
  PROVE  c \o Append(x, e) = Append(c \o x, e)
<1>1. <<e>> \in Seq(S)
  OBVIOUS
<1>2. (c \o x) \o <<e>> = c \o (x \o <<e>>)
  BY <1>1, ConcatIsAssociative
<1>3. c \o x \in Seq(S)
  BY ConcatProperties
<1>4. Append(x, e) = x \o <<e>> /\ Append(c \o x, e) = (c \o x) \o <<e>>
  BY <1>3, AppendIsConcat
<1> QED BY <1>2, <1>4

LEMMA GrowsBehind ==
  ASSUME NEW S, NEW T, NEW c \in Seq(S), NEW x \in Seq(T), NEW x2, Grows(x, x2)
  PROVE  Grows(c \o x, c \o x2)
<1>1. ASSUME NEW e PROVE c \o Append(x, e) = Append(c \o x, e)
  <2>1. c \in Seq(S \cup T \cup {e}) /\ x \in Seq(S \cup T \cup {e})
    BY SeqMonotonic
  <2> QED BY <2>1, AppendToConcat
<1> QED BY <1>1 DEF Grows

LEMMA GrowthKeeps ==
  ASSUME NEW p, IsSeq(p), NEW n \in {1, 2}, NEW q, Grows(SubSeq(p, n, Len(p)), q)
  PROVE  Keeps(p, q)
<1>1. PICK S : p \in Seq(S)
  BY DEF IsSeq
<1>2. CASE q = SubSeq(p, n, Len(p))
  BY <1>1, <1>2, RestKeeps
<1>3. ASSUME NEW e, q = Append(SubSeq(p, n, Len(p)), e) PROVE Keeps(p, q)
  <2>1. p \in Seq(S \cup {e})
    BY <1>1, SeqMonotonic
  <2> QED BY <1>3, <2>1, AppendKeeps
<1> QED BY <1>2, <1>3 DEF Grows

LEMMA MovesKeep ==
  ASSUME NEW c, NEW x, NEW c2, NEW x2, IsSeq(c), IsSeq(x), Moves(c, x, c2, x2)
  PROVE  Keeps(c \o x, c2 \o x2)
<1>1. PICK S, T : c \in Seq(S) /\ x \in Seq(T)
  BY DEF IsSeq
<1> DEFINE U == S \cup T
           p == c \o x
<1>2. c \in Seq(U) /\ x \in Seq(U)
  BY <1>1, SeqMonotonic
<1> HIDE DEF U
<1>3. p \in Seq(U) /\ IsSeq(p)
  BY <1>2, ConcatProperties DEF IsSeq
<1>4. p = SubSeq(p, 1, Len(p))
  BY <1>3, SubSeqFull
<1>5. CASE c2 = c /\ Grows(x, x2)
  <2>1. Grows(p, c2 \o x2)
    BY <1>2, <1>5, GrowsBehind
  <2> QED BY <1>3, <1>4, <2>1, GrowthKeeps
<1>6. CASE c # << >> /\ c2 = Tail(c) /\ Grows(x, x2)
  <2>1. Tail(c) \in Seq(U)
    BY <1>2, <1>6, HeadTailProperties
  <2>2. p # << >>
    BY <1>2, <1>6, ConcatEqualIffEmpty
  <2>3. SubSeq(p, 2, Len(p)) = Tail(p)
    BY <1>3, <2>2, TailIsSubSeq
  <2>4. Tail(p) = Tail(c) \o x
    <3>1. /\ Tail(p) \in Seq(U) /\ Len(Tail(p)) = Len(p) - 1
          /\ \A i \in 1 .. Len(Tail(p)) : Tail(p)[i] = p[i + 1]
      BY <1>3, <2>2, HeadTailProperties
    <3>2. /\ Len(Tail(c)) = Len(c) - 1
          /\ \A i \in 1 .. Len(Tail(c)) : Tail(c)[i] = c[i + 1]
      BY <1>2, <1>6, HeadTailProperties
    <3>3. /\ Len(p) = Len(c) + Len(x)
          /\ \A i \in 1 .. Len(c) + Len(x) : p[i] = IF i <= Len(c) THEN c[i] ELSE x[i - Len(c)]
      BY <1>2, ConcatProperties
    <3>4. /\ Tail(c) \o x \in Seq(U) /\ Len(Tail(c) \o x) = Len(Tail(c)) + Len(x)
          /\ \A i \in 1 .. Len(Tail(c)) + Len(x) :
               (Tail(c) \o x)[i] = IF i <= Len(Tail(c)) THEN Tail(c)[i] ELSE x[i - Len(Tail(c))]
      BY <1>2, <2>1, ConcatProperties
    <3>5. Len(c) \in Nat \ {0} /\ Len(x) \in Nat
      BY <1>2, <1>6, EmptySeq, LenProperties
    <3> DEFINE q == Tail(c) \o x
               r == Tail(p)
    <3> HIDE DEF p, q, r
    <3>6. \A i \in 1 .. Len(r) : r[i] = q[i]
      <4> TAKE i \in 1 .. Len(r)
      <4>1. i \in Nat \ {0} /\ i < Len(c) + Len(x)
        BY <3>1, <3>3, <3>5 DEF r
      <4>2. r[i] = IF i + 1 <= Len(c) THEN c[i + 1] ELSE x[i + 1 - Len(c)]
        BY <3>1, <3>3, <3>5, <4>1 DEF r
      <4>3. q[i] = IF i <= Len(c) - 1 THEN c[i + 1] ELSE x[i - (Len(c) - 1)]
        BY <3>2, <3>4, <3>5, <4>1 DEF q
      <4> QED BY <3>5, <4>1, <4>2, <4>3
    <3>7. Len(r) = Len(q)
      BY <3>1, <3>2, <3>3, <3>4, <3>5 DEF q, r
    <3> QED BY <3>1, <3>4, <3>6, <3>7, SeqEqual DEF q, r
  <2>5. Grows(SubSeq(p, 2, Len(p)), c2 \o x2)
    BY <1>2, <1>6, <2>1, <2>3, <2>4, GrowsBehind
  <2> QED BY <1>3, <2>5, GrowthKeeps
<1>7. CASE c = << >> /\ c2 = x /\ x2 = << >>
  <2>1. c2 \o x2 = p
    BY <1>2, <1>7, ConcatEmptySeq
  <2> QED BY <1>3, <1>4, <2>1, RestKeeps
<1>8. CASE c = << >> /\ c2 = c /\ x # << >> /\ x2 = Tail(x)
  <2>1. Tail(x) \in Seq(U)
    BY <1>2, <1>8, HeadTailProperties
  <2>2. p = x /\ c2 \o x2 = Tail(x)
    BY <1>2, <1>8, <2>1, ConcatEmptySeq
  <2>3. c2 \o x2 = SubSeq(p, 2, Len(p))
    BY <1>2, <1>8, <2>2, TailIsSubSeq
  <2> QED BY <1>3, <2>3, RestKeeps
<1> QED BY <1>5, <1>6, <1>7, <1>8 DEF Moves

LEMMA NextMoves ==
  ASSUME Loop, [Next]_vars, NEW w \in Workers
  PROVE  Moves(cur_process[w], external_events[w], cur_process'[w], external_events'[w])
<1>1. CASE InPlace
  <2>1. cur_process'[w] = cur_process[w]
    BY <1>1 DEF InPlace
  <2>2. Grows(external_events[w], external_events'[w])
    BY <1>1, DispatchShape DEF InPlace, Grows, queueVars
  <2> QED BY <2>1, <2>2 DEF Moves
<1>2. ASSUME NEW a \in Actors, Wakeup(a)
      PROVE  UNCHANGED <<cur_process, external_events>>
  BY <1>2 DEF Wakeup, loopVars
<1>3. ASSUME NEW v \in Workers,
             \/ StartRound(v) \/ Exit(v) \/ EventWait(v) \/ DrainNotify(v) \/ StopWorker(v)
      PROVE  UNCHANGED <<cur_process, external_events>>
  BY <1>3 DEF StartRound, Exit, EventWait, DrainNotify, StopWorker, loopVars, queueVars
<1>4. CASE UNCHANGED <<cur_process, external_events>>
  BY <1>4 DEF Moves, Grows
<1>5. ASSUME NEW v \in Workers, TakeExternal(v)
      PROVE  Moves(cur_process[w], external_events[w], cur_process'[w], external_events'[w])
  <2>1. cur_process[v] = << >>
    BY <1>5 DEF TakeExternal, Loop, RunsOnlyTaken
  <2>2. CASE external_num_events[v] = 0
    BY <1>4, <1>5, <2>2 DEF TakeExternal
  <2>3. CASE external_num_events[v] # 0
    <3>1. /\ cur_process' = [cur_process EXCEPT ![v] = external_events[v]]
          /\ external_events' = [external_events EXCEPT ![v] = << >>]
      BY <1>5, <2>3 DEF TakeExternal
    <3> QED BY <2>1, <3>1 DEF Moves, Grows, Loop, Shape
  <2> QED BY <2>2, <2>3
<1>6. ASSUME NEW v \in Workers, RunExternal(v)
      PROVE  Moves(cur_process[w], external_events[w], cur_process'[w], external_events'[w])
  <2>1. cur_process[v] # << >> /\ cur_process' = [cur_process EXCEPT ![v] = Tail(@)]
    BY <1>6 DEF RunExternal
  <2>2. Grows(external_events[w], external_events'[w])
    BY <1>6, RunExternalQueues, DispatchShape DEF Grows, queueVars
  <2> QED BY <2>1, <2>2 DEF Moves, Loop, Shape
<1>7. ASSUME NEW v \in Workers, DestroyCenter(v)
      PROVE  Moves(cur_process[w], external_events[w], cur_process'[w], external_events'[w])
  <2>1. cur_process' = cur_process /\ admin = "destroying"
    BY <1>7 DEF DestroyCenter, loopVars
  <2>2. cur_process[v] = << >>
    BY <2>1 DEF Loop, AllJoined, RunsOnlyTaken
  <2>3. CASE external_events' = external_events
    BY <1>4, <1>7, <2>1, <2>3 DEF DestroyCenter
  <2>4. CASE external_events[v] # << >> /\ external_events' # external_events
    <3>1. external_events' = [external_events EXCEPT ![v] = Tail(@)]
      BY <1>7, <2>4 DEF DestroyCenter
    <3> QED BY <2>1, <2>2, <2>4, <3>1 DEF Moves, Grows, Loop, Shape
  <2> QED BY <1>7, <2>3, <2>4 DEF DestroyCenter
<1> QED BY <1>1, <1>2, <1>3, <1>4, <1>5, <1>6, <1>7, StepsOfNext DEF WorkerMoves

THEOREM LoopInvariant == Spec => []Loop
<1> QED BY LoopInit, LoopNext, PTL DEF Spec

(* dispatch_event_external() and stop(): a worker that blocks with an      *)
(* external event in its queue, or after it was told to stop, has been or  *)
(* is being woken.                                                         *)
THEOREM NoWakeupIsLost == Spec => []NoLostWakeup
<1>1. Loop => NoLostWakeup
  BY DEF Loop, Counted, NobodyForgotten, Asleep, Needed, Called, NoLostWakeup
<1> QED BY <1>1, LoopInvariant, PTL

(* process_events(): external events run in the order in which they were   *)
(* dispatched; a step drops, repeats and reorders none.                    *)
THEOREM EventsRunInOrder == Spec => EventsKeepOrder
<1> DEFINE Ordered == \A w \in Workers : Keeps(Pending(w), Pending(w)')
<1>1. ASSUME Loop, [Next]_vars PROVE Ordered
  <2> SUFFICES ASSUME NEW w \in Workers PROVE Keeps(Pending(w), Pending(w)')
    OBVIOUS
  <2>1. IsSeq(cur_process[w]) /\ IsSeq(external_events[w])
    BY <1>1 DEF Loop, Shape
  <2>2. Moves(cur_process[w], external_events[w], cur_process'[w], external_events'[w])
    BY <1>1, NextMoves
  <2> QED BY <2>1, <2>2, MovesKeep DEF Pending
<1>2. Loop /\ [Next]_vars => [Ordered]_vars
  BY <1>1
<1>3. Spec => [][Ordered]_vars
  BY <1>2, LoopInvariant, PTL DEF Spec
<1> QED BY <1>3 DEF EventsKeepOrder, Keeps
-----------------------------------------------------------------------------
(* Sequences of events: what is in one, and that nothing in B follows      *)
(* something in A, within one queue or from one to the next.               *)
In(s, A) == \E i \in DOMAIN s : s[i] \in A
NoneAfter(s, A, B) == \A i, j \in DOMAIN s : s[i] \in A /\ s[j] \in B => j <= i
Fenced(c, x, A, B) ==
  NoneAfter(c, A, B) /\ NoneAfter(x, A, B) /\ (In(c, A) => ~In(x, B))

(* Nothing is in the empty queue.                                          *)
LEMMA EmptyHasNone == \A A, B : ~In(<< >>, A) /\ NoneAfter(<< >>, A, B)
BY DEF In, NoneAfter

(* What append() adds to a queue.                                          *)
LEMMA AppendedIn ==
  ASSUME NEW S, NEW s \in Seq(S), NEW e \in S, NEW A, NEW B
  PROVE  /\ Append(s, e) \in Seq(S) /\ Append(s, e) # s
         /\ In(Append(s, e), A) <=> In(s, A) \/ e \in A
         /\ NoneAfter(s, A, B) /\ (e \in B => ~In(s, A)) => NoneAfter(Append(s, e), A, B)
<1> DEFINE t == Append(s, e)
<1>1. /\ t \in Seq(S) /\ Len(s) \in Nat /\ Len(t) = Len(s) + 1
      /\ DOMAIN s = 1..Len(s) /\ DOMAIN t = 1..Len(t)
      /\ \A i \in 1..Len(s) : t[i] = s[i]
      /\ t[Len(s) + 1] = e
  BY AppendProperties, LenProperties
<1> HIDE DEF t
<1>2. t # s
  BY <1>1
<1>3. \A i \in DOMAIN t : i \in DOMAIN s \/ i = Len(s) + 1
  BY <1>1
<1>4. In(t, A) <=> In(s, A) \/ e \in A
  <2>1. In(s, A) => In(t, A)
    BY <1>1 DEF In
  <2>2. e \in A => In(t, A)
    BY <1>1 DEF In
  <2>3. In(t, A) => In(s, A) \/ e \in A
    BY <1>1, <1>3 DEF In
  <2> QED BY <2>1, <2>2, <2>3
<1>5. ASSUME NoneAfter(s, A, B), e \in B => ~In(s, A) PROVE NoneAfter(t, A, B)
  <2> SUFFICES ASSUME NEW i \in DOMAIN t, NEW j \in DOMAIN t, t[i] \in A, t[j] \in B
               PROVE  j <= i
    BY DEF NoneAfter
  <2>1. CASE j \in DOMAIN s /\ i \in DOMAIN s
    BY <1>1, <1>5, <2>1 DEF NoneAfter
  <2>2. CASE j \in DOMAIN s /\ i = Len(s) + 1
    BY <1>1, <2>2
  <2>3. CASE j = Len(s) + 1 /\ i \in DOMAIN s
    BY <1>1, <1>5, <2>3 DEF In
  <2>4. CASE j = Len(s) + 1 /\ i = Len(s) + 1
    BY <1>1, <2>4
  <2> QED BY <1>3, <2>1, <2>2, <2>3, <2>4
<1> QED BY <1>1, <1>2, <1>4, <1>5 DEF t

(* What is left when the first of a queue is taken.                        *)
LEMMA TailIn ==
  ASSUME NEW S, NEW s \in Seq(S), s # << >>, NEW A, NEW B
  PROVE  /\ Tail(s) \in Seq(S) /\ Head(s) \in S /\ Tail(s) # s
         /\ In(Tail(s), A) => In(s, A)
         /\ In(s, A) <=> Head(s) \in A \/ In(Tail(s), A)
         /\ NoneAfter(s, A, B) => NoneAfter(Tail(s), A, B)
         /\ NoneAfter(s, A, B) /\ Head(s) \in A => ~In(Tail(s), B)
<1> DEFINE t == Tail(s)
<1>1. /\ t \in Seq(S) /\ Len(s) \in Nat \ {0} /\ Len(t) = Len(s) - 1
      /\ Head(s) \in S /\ Head(s) = s[1]
      /\ DOMAIN s = 1..Len(s) /\ DOMAIN t = 1..Len(t)
      /\ \A i \in 1..Len(t) : t[i] = s[i + 1]
  BY HeadTailProperties, LenProperties, EmptySeq
<1> HIDE DEF t
<1>2. \A i \in DOMAIN t : i + 1 \in DOMAIN s /\ i + 1 # 1
  BY <1>1
<1>3. \A i \in DOMAIN s : i = 1 \/ (i - 1 \in DOMAIN t /\ t[i - 1] = s[i])
  BY <1>1
<1>4. 1 \in DOMAIN s
  BY <1>1
<1>5. In(t, A) => In(s, A)
  BY <1>1, <1>2 DEF In
<1>6. In(s, A) <=> Head(s) \in A \/ In(t, A)
  BY <1>1, <1>3, <1>4, <1>5 DEF In
<1>7. NoneAfter(s, A, B) => NoneAfter(t, A, B)
  <2> SUFFICES ASSUME NoneAfter(s, A, B), NEW i \in DOMAIN t, NEW j \in DOMAIN t,
                      t[i] \in A, t[j] \in B
               PROVE  j <= i
    BY DEF NoneAfter
  <2>1. j + 1 <= i + 1
    BY <1>1, <1>2 DEF NoneAfter
  <2> QED BY <1>1, <2>1
<1>8. NoneAfter(s, A, B) /\ Head(s) \in A => ~In(t, B)
  <2> SUFFICES ASSUME NoneAfter(s, A, B), Head(s) \in A, NEW i \in DOMAIN t, t[i] \in B
               PROVE  FALSE
    BY DEF In
  <2>1. i + 1 <= 1
    BY <1>1, <1>2, <1>4 DEF NoneAfter
  <2> QED BY <1>1, <2>1
<1>9. t # s
  BY <1>1
<1> QED BY <1>1, <1>5, <1>6, <1>7, <1>8, <1>9 DEF t

(* A step that takes at most the first event of c and adds at most e       *)
(* behind x.                                                               *)
LEMMA QueueStep ==
  ASSUME NEW S, NEW c \in Seq(S), NEW x \in Seq(S), NEW e \in S, NEW c2, NEW x2,
         c2 = c \/ (c # << >> /\ c2 = Tail(c)), x2 = x \/ x2 = Append(x, e),
         NEW A, NEW B
  PROVE  /\ c2 \in Seq(S) /\ x2 \in Seq(S)
         /\ In(c2, A) => In(c, A)
         /\ In(c, A) => In(c2, A) \/ (c2 # c /\ Head(c) \in A)
         /\ In(x2, A) => In(x, A) \/ (x2 = Append(x, e) /\ e \in A)
         /\ In(x, A) => In(x2, A)
         /\ x2 = Append(x, e) /\ e \in A => In(x2, A)
         /\ /\ Fenced(c, x, A, B)
            /\ x2 # x /\ e \in B => ~In(c, A) /\ ~In(x, A)
            => Fenced(c2, x2, A, B)
<1>1. /\ c2 \in Seq(S)
      /\ In(c2, A) => In(c, A)
      /\ In(c, A) => In(c2, A) \/ (c2 # c /\ Head(c) \in A)
      /\ NoneAfter(c, A, B) => NoneAfter(c2, A, B)
  <2>1. CASE c2 = c
    BY <2>1
  <2>2. CASE c # << >> /\ c2 = Tail(c)
    <3>1. /\ Tail(c) \in Seq(S) /\ Tail(c) # c
          /\ In(Tail(c), A) => In(c, A)
          /\ In(c, A) <=> Head(c) \in A \/ In(Tail(c), A)
          /\ NoneAfter(c, A, B) => NoneAfter(Tail(c), A, B)
      BY <2>2, TailIn
    <3> QED BY <2>2, <3>1
  <2> QED BY <2>1, <2>2
<1>2. /\ x2 \in Seq(S)
      /\ In(x2, A) => In(x, A) \/ (x2 = Append(x, e) /\ e \in A)
      /\ In(x, A) => In(x2, A)
      /\ x2 = Append(x, e) /\ e \in A => In(x2, A)
      /\ NoneAfter(x, A, B) /\ (x2 # x /\ e \in B => ~In(x, A)) => NoneAfter(x2, A, B)
      /\ In(x2, B) => In(x, B) \/ (x2 # x /\ e \in B)
  <2>1. CASE x2 = x
    <3>1. Append(x, e) # x
      BY AppendedIn
    <3> QED BY <2>1, <3>1
  <2>2. CASE x2 = Append(x, e)
    <3>1. /\ Append(x, e) \in Seq(S) /\ Append(x, e) # x
          /\ In(Append(x, e), A) <=> In(x, A) \/ e \in A
          /\ In(Append(x, e), B) <=> In(x, B) \/ e \in B
          /\ NoneAfter(x, A, B) /\ (e \in B => ~In(x, A)) => NoneAfter(Append(x, e), A, B)
      BY AppendedIn
    <3> QED BY <2>2, <3>1
  <2> QED BY <2>1, <2>2
<1> QED BY <1>1, <1>2 DEF Fenced
-----------------------------------------------------------------------------
(* Lists of timers: which handlers have one, and none has two.             *)
Occurs(s, h) == \E i \in DOMAIN s : s[i] = h
Once(s) == \A i, j \in DOMAIN s : s[i] = s[j] => i = j

(* The first k elements of a list, and those after the first l.            *)
LEMMA PartsOfSeq ==
  ASSUME NEW S, NEW s \in Seq(S), NEW k \in 0..Len(s), NEW l \in 0..Len(s)
  PROVE  /\ SubSeq(s, 1, k) \in Seq(S) /\ Len(SubSeq(s, 1, k)) = k
         /\ \A i \in 1..k : SubSeq(s, 1, k)[i] = s[i]
         /\ SubSeq(s, l + 1, Len(s)) \in Seq(S) /\ Len(SubSeq(s, l + 1, Len(s))) = Len(s) - l
         /\ \A i \in 1..(Len(s) - l) : SubSeq(s, l + 1, Len(s))[i] = s[i + l]
<1>1. Len(s) \in Nat /\ k \in Nat /\ k <= Len(s) /\ l \in Nat /\ l <= Len(s)
  BY LenProperties
<1>2. \A i \in 1..Len(s) : s[i] \in S
  BY ElementOfSeq
<1>3. \A i \in 1..k : s[i] \in S
  BY <1>1, <1>2
<1>4. /\ SubSeq(s, 1, k) \in Seq(S)
      /\ Len(SubSeq(s, 1, k)) = IF 1 <= k THEN k - 1 + 1 ELSE 0
      /\ \A i \in 1..(k - 1 + 1) : SubSeq(s, 1, k)[i] = s[1 + i - 1]
  BY <1>1, <1>3, SubSeqProperties
<1>5. Len(SubSeq(s, 1, k)) = k /\ \A i \in 1..k : SubSeq(s, 1, k)[i] = s[i]
  BY <1>1, <1>4
<1> DEFINE b == SubSeq(s, l + 1, Len(s))
<1>6. \A i \in (l + 1)..Len(s) : s[i] \in S
  BY <1>1, <1>2
<1>7. /\ b \in Seq(S)
      /\ Len(b) = IF l + 1 <= Len(s) THEN Len(s) - (l + 1) + 1 ELSE 0
      /\ \A i \in 1..(Len(s) - (l + 1) + 1) : b[i] = s[(l + 1) + i - 1]
  BY <1>1, <1>6, SubSeqProperties
<1> HIDE DEF b
<1>8. Len(b) = Len(s) - l /\ Len(s) - (l + 1) + 1 = Len(s) - l
  BY <1>1, <1>7
<1>9. ASSUME NEW i \in 1..(Len(s) - l) PROVE b[i] = s[i + l]
  <2>1. (l + 1) + i - 1 = i + l
    BY <1>1
  <2>2. b[i] = s[(l + 1) + i - 1]
    BY <1>7, <1>8
  <2> QED BY <2>1, <2>2
<1> QED BY <1>4, <1>5, <1>7, <1>8, <1>9 DEF b

(* delete_time_event() takes the only timer of a handler away.             *)
LEMMA WithoutOnce ==
  ASSUME NEW S, NEW s \in Seq(S), NEW h, Once(s)
  PROVE  /\ Without(s, h) \in Seq(S) /\ Once(Without(s, h))
         /\ \A k : Occurs(Without(s, h), k) <=> Occurs(s, k) /\ k # h
<1>1. CASE ~Occurs(s, h)
  BY <1>1 DEF Without, Occurs
<1>2. CASE Occurs(s, h)
  <2> DEFINE k == CHOOSE k \in DOMAIN s : s[k] = h
             a == SubSeq(s, 1, k - 1)
             b == SubSeq(s, k + 1, Len(s))
             t == a \o b
  <2>1. k \in DOMAIN s /\ s[k] = h
    BY <1>2 DEF Occurs
  <2>2. Without(s, h) = t
    BY <1>2 DEF Without, Occurs
  <2> HIDE DEF k
  <2>3. Len(s) \in Nat /\ DOMAIN s = 1..Len(s) /\ k \in 1..Len(s)
    BY <2>1, LenProperties
  <2>4. /\ a \in Seq(S) /\ Len(a) = k - 1 /\ \A i \in 1..(k - 1) : a[i] = s[i]
        /\ b \in Seq(S) /\ Len(b) = Len(s) - k /\ \A i \in 1..(Len(s) - k) : b[i] = s[i + k]
    <3>1. k - 1 \in 0..Len(s) /\ k \in 0..Len(s)
      BY <2>3
    <3> QED BY <3>1, PartsOfSeq
  <2> HIDE DEF a, b
  <2>5. /\ t \in Seq(S) /\ Len(t) = Len(a) + Len(b)
        /\ \A i \in 1..(Len(a) + Len(b)) : t[i] = IF i <= Len(a) THEN a[i] ELSE b[i - Len(a)]
    BY <2>4, ConcatProperties
  <2> HIDE DEF t
  <2>6. DOMAIN t = 1..(Len(s) - 1)
    <3>1. DOMAIN t = 1..Len(t)
      BY <2>5, LenProperties
    <3> QED BY <2>3, <2>4, <2>5, <3>1
  <2>7. ASSUME NEW i \in DOMAIN t PROVE t[i] = IF i < k THEN s[i] ELSE s[i + 1]
    <3>1. CASE i < k
      BY <2>3, <2>4, <2>5, <2>6, <2>7, <3>1
    <3>2. CASE ~(i < k)
      <4>0. /\ i \in 1..(Len(a) + Len(b)) /\ ~(i <= Len(a)) /\ Len(a) = k - 1
            /\ i - (k - 1) \in 1..(Len(s) - k)
        BY <2>3, <2>4, <2>6, <3>2
      <4>1. t[i] = b[i - (k - 1)] /\ i - (k - 1) \in 1..(Len(s) - k)
        BY <2>5, <4>0
      <4>2. b[i - (k - 1)] = s[i - (k - 1) + k]
        BY <2>4, <4>1
      <4>3. i - (k - 1) + k = i + 1
        BY <2>3, <2>6
      <4> QED BY <3>2, <4>1, <4>2, <4>3
    <3> QED BY <3>1, <3>2
  <2>8. Once(t)
    <3> SUFFICES ASSUME NEW i \in DOMAIN t, NEW j \in DOMAIN t, t[i] = t[j] PROVE i = j
      BY DEF Once
    <3>1. (IF i < k THEN s[i] ELSE s[i + 1]) = (IF j < k THEN s[j] ELSE s[j + 1])
      BY <2>7
    <3>2. i \in 1..(Len(s) - 1) /\ j \in 1..(Len(s) - 1)
      BY <2>6
    <3>3. (IF i < k THEN i ELSE i + 1) = (IF j < k THEN j ELSE j + 1)
      BY <2>3, <3>1, <3>2 DEF Once
    <3> QED BY <2>3, <3>2, <3>3
  <2>9. ASSUME NEW x PROVE Occurs(t, x) <=> Occurs(s, x) /\ x # h
    <3>1. ASSUME NEW i \in DOMAIN t, t[i] = x PROVE Occurs(s, x) /\ x # h
      <4>1. i \in DOMAIN s /\ i + 1 \in DOMAIN s
        BY <2>3, <2>6
      <4>2. CASE i < k
        <5>1. s[i] = x /\ i # k
          BY <2>3, <2>6, <2>7, <3>1, <4>2
        <5> QED BY <2>1, <4>1, <5>1 DEF Once, Occurs
      <4>3. CASE ~(i < k)
        <5>1. s[i + 1] = x /\ i + 1 # k
          BY <2>3, <2>6, <2>7, <3>1, <4>3
        <5> QED BY <2>1, <4>1, <5>1 DEF Once, Occurs
      <4> QED BY <4>2, <4>3
    <3>2. ASSUME NEW i \in DOMAIN s, s[i] = x, x # h PROVE Occurs(t, x)
      <4>1. CASE i < k
        <5>1. i \in DOMAIN t
          BY <2>3, <2>6, <4>1
        <5>2. t[i] = s[i]
          BY <2>7, <4>1, <5>1
        <5> QED BY <3>2, <5>1, <5>2 DEF Occurs
      <4>2. CASE ~(i < k)
        <5>1. i # k
          BY <2>1, <3>2
        <5>2. i - 1 \in DOMAIN t /\ ~(i - 1 < k) /\ i - 1 + 1 = i
          BY <2>3, <2>6, <4>2, <5>1
        <5>3. t[i - 1] = s[i - 1 + 1]
          BY <2>7, <5>2
        <5> QED BY <3>2, <5>2, <5>3 DEF Occurs
      <4> QED BY <4>1, <4>2
    <3> QED BY <3>1, <3>2 DEF Occurs
  <2> QED BY <2>2, <2>5, <2>8, <2>9
<1> QED BY <1>1, <1>2

(* create_time_event() adds one for a handler that has none.               *)
LEMMA InsertOnce ==
  ASSUME NEW S, NEW s \in Seq(S), NEW h \in S, Once(s), ~Occurs(s, h), NEW m \in 0..Len(s)
  PROVE  /\ Inserted(s, m, h) \in Seq(S) /\ Once(Inserted(s, m, h))
         /\ \A k : Occurs(Inserted(s, m, h), k) <=> Occurs(s, k) \/ k = h
<1> DEFINE a == SubSeq(s, 1, m)
           b == SubSeq(s, m + 1, Len(s))
           c == a \o <<h>>
           t == Inserted(s, m, h)
<1>1. Len(s) \in Nat /\ DOMAIN s = 1..Len(s) /\ m \in Nat /\ m <= Len(s)
  BY LenProperties
<1>2. /\ a \in Seq(S) /\ Len(a) = m /\ \A i \in 1..m : a[i] = s[i]
      /\ b \in Seq(S) /\ Len(b) = Len(s) - m /\ \A i \in 1..(Len(s) - m) : b[i] = s[i + m]
  BY PartsOfSeq
<1> HIDE DEF a, b
<1>3. <<h>> \in Seq(S) /\ Len(<<h>>) = 1 /\ <<h>>[1] = h
  OBVIOUS
<1>4. /\ c \in Seq(S) /\ Len(c) = m + 1
      /\ \A i \in 1..m : c[i] = s[i]
      /\ c[m + 1] = h
  <2>1. /\ c \in Seq(S) /\ Len(c) = Len(a) + Len(<<h>>)
        /\ \A i \in 1..(Len(a) + Len(<<h>>)) :
             c[i] = IF i <= Len(a) THEN a[i] ELSE <<h>>[i - Len(a)]
    BY <1>2, <1>3, ConcatProperties
  <2> HIDE DEF c
  <2> QED BY <1>1, <1>2, <1>3, <2>1
<1>5. t = c \o b
  BY DEF a, b, Inserted
<1> HIDE DEF c, t
<1>6. /\ t \in Seq(S) /\ Len(t) = Len(c) + Len(b)
      /\ \A i \in 1..(Len(c) + Len(b)) : t[i] = IF i <= Len(c) THEN c[i] ELSE b[i - Len(c)]
  <2>1. c \in Seq(S) /\ b \in Seq(S)
    BY <1>2, <1>4
  <2>2. /\ c \o b \in Seq(S) /\ Len(c \o b) = Len(c) + Len(b)
        /\ \A i \in 1..(Len(c) + Len(b)) :
             (c \o b)[i] = IF i <= Len(c) THEN c[i] ELSE b[i - Len(c)]
    BY <2>1, ConcatProperties
  <2> QED BY <1>5, <2>2
<1>7. DOMAIN t = 1..(Len(s) + 1)
  <2>1. DOMAIN t = 1..Len(t)
    BY <1>6, LenProperties
  <2> QED BY <1>1, <1>2, <1>4, <1>6, <2>1
<1>8. ASSUME NEW i \in DOMAIN t
      PROVE  t[i] = IF i <= m THEN s[i] ELSE IF i = m + 1 THEN h ELSE s[i - 1]
  <2>0. i \in 1..(Len(s) + 1)
    BY <1>7, <1>8
  <2>1. CASE i <= m + 1
    <3>0. i \in 1..(Len(c) + Len(b)) /\ i <= Len(c)
      BY <1>1, <1>2, <1>4, <2>0, <2>1
    <3>1. t[i] = c[i]
      BY <1>6, <3>0
    <3> QED BY <1>1, <1>4, <2>0, <2>1, <3>1
  <2>2. CASE ~(i <= m + 1)
    <3>0. /\ i \in 1..(Len(c) + Len(b)) /\ ~(i <= Len(c)) /\ Len(c) = m + 1
          /\ i - (m + 1) \in 1..(Len(s) - m)
      BY <1>1, <1>2, <1>4, <2>0, <2>2
    <3>1. t[i] = b[i - (m + 1)] /\ i - (m + 1) \in 1..(Len(s) - m)
      BY <1>6, <3>0
    <3>2. b[i - (m + 1)] = s[i - (m + 1) + m]
      BY <1>2, <3>1
    <3>3. i - (m + 1) + m = i - 1
      BY <1>1, <2>0
    <3> QED BY <1>1, <2>0, <2>2, <3>1, <3>2, <3>3
  <2> QED BY <2>1, <2>2
<1>9. ASSUME NEW i \in DOMAIN t, NEW j \in DOMAIN t, t[i] = t[j] PROVE i = j
  <2>1. i \in 1..(Len(s) + 1) /\ j \in 1..(Len(s) + 1)
    BY <1>7
  <2>2. \A l \in DOMAIN s : s[l] # h
    BY DEF Occurs
  <2>3. \A l \in DOMAIN t : l # m + 1 =>
          /\ (IF l <= m THEN l ELSE l - 1) \in DOMAIN s
          /\ t[l] = s[IF l <= m THEN l ELSE l - 1]
    BY <1>1, <1>7, <1>8
  <2>4. i = m + 1 <=> j = m + 1
    BY <1>1, <1>8, <1>9, <2>2, <2>3
  <2>5. CASE i # m + 1
    <3>1. (IF i <= m THEN i ELSE i - 1) = (IF j <= m THEN j ELSE j - 1)
      BY <1>9, <2>3, <2>4, <2>5 DEF Once
    <3> QED BY <1>1, <2>1, <2>4, <2>5, <3>1
  <2> QED BY <2>4, <2>5
<1>10. ASSUME NEW x PROVE Occurs(t, x) <=> Occurs(s, x) \/ x = h
  <2>1. ASSUME NEW i \in DOMAIN t, t[i] = x PROVE Occurs(s, x) \/ x = h
    <3>1. CASE i = m + 1
      BY <1>1, <1>8, <2>1, <3>1
    <3>2. CASE i # m + 1
      <4>1. (IF i <= m THEN i ELSE i - 1) \in DOMAIN s
        BY <1>1, <1>7, <3>2
      <4>2. t[i] = s[IF i <= m THEN i ELSE i - 1]
        BY <1>1, <1>8, <3>2
      <4> QED BY <2>1, <4>1, <4>2 DEF Occurs
    <3> QED BY <3>1, <3>2
  <2>2. ASSUME NEW i \in DOMAIN s, s[i] = x PROVE Occurs(t, x)
    <3>1. CASE i <= m
      <4>1. i \in DOMAIN t /\ t[i] = s[i]
        BY <1>1, <1>7, <1>8, <3>1
      <4> QED BY <2>2, <4>1 DEF Occurs
    <3>2. CASE ~(i <= m)
      <4>1. i + 1 \in DOMAIN t /\ ~(i + 1 <= m) /\ i + 1 # m + 1 /\ i + 1 - 1 = i
        BY <1>1, <1>7, <3>2
      <4>2. t[i + 1] = s[i + 1 - 1]
        BY <1>8, <4>1
      <4> QED BY <2>2, <4>1, <4>2 DEF Occurs
    <3> QED BY <3>1, <3>2
  <2>3. Occurs(t, h)
    <3>1. m + 1 \in DOMAIN t /\ t[m + 1] = h
      BY <1>1, <1>7, <1>8
    <3> QED BY <3>1 DEF Occurs
  <2> QED BY <2>1, <2>2, <2>3 DEF Occurs
<1>11. Once(t)
  BY <1>9 DEF Once
<1> QED BY <1>6, <1>10, <1>11 DEF t

(* The earliest timer leaves the list.                                     *)
LEMMA TailOnce ==
  ASSUME NEW S, NEW s \in Seq(S), s # << >>, Once(s)
  PROVE  /\ Tail(s) \in Seq(S) /\ Head(s) \in S /\ Once(Tail(s))
         /\ \A k : Occurs(Tail(s), k) <=> Occurs(s, k) /\ k # Head(s)
<1>1. /\ Tail(s) \in Seq(S) /\ Len(s) \in Nat \ {0} /\ Len(Tail(s)) = Len(s) - 1
      /\ Head(s) \in S /\ Head(s) = s[1]
      /\ DOMAIN s = 1..Len(s) /\ DOMAIN Tail(s) = 1..Len(Tail(s))
      /\ \A i \in 1..Len(Tail(s)) : Tail(s)[i] = s[i + 1]
  BY HeadTailProperties, LenProperties, EmptySeq
<1> DEFINE t == Tail(s)
<1> HIDE DEF t
<1>2. \A i \in DOMAIN t : i + 1 \in DOMAIN s /\ i + 1 # 1 /\ t[i] = s[i + 1]
  BY <1>1 DEF t
<1>3. \A i \in DOMAIN s : i = 1 \/ (i - 1 \in DOMAIN t /\ t[i - 1] = s[i])
  BY <1>1 DEF t
<1>4. 1 \in DOMAIN s
  BY <1>1
<1>5. Once(t)
  <2> SUFFICES ASSUME NEW i \in DOMAIN t, NEW j \in DOMAIN t, t[i] = t[j] PROVE i = j
    BY DEF Once
  <2>1. i + 1 = j + 1
    BY <1>2 DEF Once
  <2> QED BY <1>1, <2>1 DEF t
<1>6. ASSUME NEW k PROVE Occurs(t, k) <=> Occurs(s, k) /\ k # Head(s)
  <2>1. Occurs(t, k) => Occurs(s, k) /\ k # Head(s)
    BY <1>1, <1>2, <1>4 DEF Once, Occurs
  <2>2. Occurs(s, k) /\ k # Head(s) => Occurs(t, k)
    BY <1>1, <1>3 DEF Occurs
  <2> QED BY <2>1, <2>2
<1> QED BY <1>1, <1>5, <1>6 DEF t
-----------------------------------------------------------------------------
(* What is queued, registered and held, by kind.  Only connections have    *)
(* events to run, descriptors in Fds and timers.                           *)
GoodEvents == [kind : {"read"}, of : Conns] \cup [kind : {"clean"}, of : Conns \cup {Local}]
              \cup [kind : {"listen", "unlisten"}, of : {Listener}]
              \cup [kind : {"drain"}, of : {Local}]
Callbacks == Conns \cup {Listener, None}
QueueTypes ==
  /\ external_events \in [Workers -> Seq(GoodEvents)]
  /\ cur_process \in [Workers -> Seq(GoodEvents)]
  /\ external_num_events \in [Workers -> Nat] /\ notify \in [Workers -> BOOLEAN]
  /\ owed \in [Actors -> Workers \cup {None}]
TableTypes ==
  /\ mask \in [Workers -> [AllFds -> SUBSET {"R", "W"}]]
  /\ read_cb \in [Workers -> [AllFds -> Callbacks]]
  /\ write_cb \in [Workers -> [AllFds -> Callbacks]]
  /\ \A w \in Workers, f \in Fds : read_cb[w][f] # Listener /\ write_cb[w][f] # Listener
  /\ \A w \in Workers : read_cb[w][ListenFd] \notin Conns /\ write_cb[w][ListenFd] \notin Conns
  /\ nevent \in [Workers -> Nat \ {0}]
ConnTypes ==
  /\ status \in [Handlers -> {"new", "incoming", "open", "closed", "freed"}]
  /\ home \in [Handlers -> Workers]
  /\ fd \in [Handlers -> AllFds \cup {None}]
  /\ \A h \in Conns : fd[h] # ListenFd
  /\ fd[Local] = None
  /\ references \in [Workers -> Nat]
  /\ time_events \in [Workers -> Seq(Conns)]
LoopTypes ==
  /\ at \in [Workers -> {"loop", "wait", "fire", "run", "exited"}]
  /\ blocking \in [Workers -> BOOLEAN] /\ trigger_time \in [Workers -> BOOLEAN]
  /\ fired_events \in [Workers -> Seq([fd : AllFds \cup {NotifyFd}, ready : SUBSET {"R", "W"}])]
AdminTypes ==
  /\ admin \in {"ready", "starting", "up", "unlistening", "draining", "stopping",
                "destroying", "end"}
  /\ todo \subseteq Workers /\ pending \subseteq Workers /\ pool_spin \in {None, Admin}
  /\ done \in [Workers -> BOOLEAN]
  /\ calls \in 0..MaxCalls /\ faults \in 0..MaxFaults
Kinds == QueueTypes /\ TableTypes /\ ConnTypes /\ LoopTypes /\ AdminTypes

(* What the center of a connection holds of it, it holds only between the  *)
(* connection's opening and its clean-up.                                  *)
InUse(k) == status[k] \in {"open", "closed"}
TimersLead ==
  \A w \in Workers : /\ Once(time_events[w])
                     /\ \A k \in Conns : Occurs(time_events[w], k) => w = home[k] /\ InUse(k)
FilesLead ==
  \A w \in Workers, f \in AllFds, k \in Conns :
    read_cb[w][f] = k \/ write_cb[w][f] = k => w = home[k] /\ f = fd[k] /\ InUse(k)

(* The events of a connection: its clean-up is queued when it is closed,   *)
(* and is the last of them.                                                *)
Of(k) == {e \in GoodEvents : e.of = k}
Clean(k) == {Event("clean", k)}
Queued(w, A) == In(cur_process[w], A) \/ In(external_events[w], A)
EventsLeadTo(k) ==
  /\ \A w \in Workers :
       /\ Queued(w, Of(k)) => w = home[k] /\ InUse(k)
       /\ Queued(w, Clean(k)) => status[k] = "closed"
       /\ Fenced(cur_process[w], external_events[w], Clean(k), Of(k))
  /\ status[k] = "closed" => Queued(home[k], Clean(k))
EventsLead == \A k \in Conns : EventsLeadTo(k)

Leads == TimersLead /\ FilesLead /\ EventsLead
-----------------------------------------------------------------------------
(* The kinds of handlers and descriptors do not overlap.                   *)
LEMMA NamesDiffer ==
  /\ Conns \subseteq Handlers /\ Local \in Handlers /\ Listener \in Handlers
  /\ Local \notin Conns /\ Listener \notin Conns /\ Local # Listener
  /\ None \notin Handlers /\ None \notin Actors /\ None \notin AllFds
  /\ Workers \subseteq Actors /\ Threads \subseteq Actors /\ Admin \in Actors
  /\ Fds \subseteq AllFds /\ ListenFd \in AllFds /\ ListenFd \notin Fds
  /\ AllFds \subseteq Nat /\ \A f \in AllFds : f \in Fds \/ f = ListenFd
BY HandlersDiffer, NoneIsNone, FdsAreNat DEF Handlers, Actors, AllFds

(* Every set of numbers has a least one, so there is a least loaded worker. *)
LEMMA LeastNumber ==
  ASSUME NEW T \in SUBSET Nat, T # {}
  PROVE  \E x \in T : \A y \in T : x <= y
<1> DEFINE Less == {ss \in Nat \X Nat : ss[1] < ss[2]}
<1>0. IsWellFoundedOn(Less, Nat)
  BY NatLessThanWellFounded DEF OpToRel
<1>1. PICK x \in T : \A y \in T : ~ (<<y, x>> \in Less)
  <2> HIDE DEF Less
  <2> QED BY <1>0, WFMin
<1>2. ASSUME NEW y \in T PROVE x <= y
  <2>1. ~ (<<y, x>> \in Less)
    BY <1>1
  <2>2. x \in Nat /\ y \in Nat
    OBVIOUS
  <2>3. ~(y < x)
    BY <2>1, <2>2
  <2> QED BY <2>2, <2>3
<1> QED BY <1>2

(* get_worker() finds a worker.                                            *)
LEMMA LeastLoadedIsWorker ==
  ASSUME references \in [Workers -> Nat] PROVE LeastLoaded \in Workers
<1> DEFINE loads == {references[w] : w \in Workers}
<1>1. loads \in SUBSET Nat /\ loads # {} /\ Workers \subseteq Nat
  BY WorkersAreNumbered
<1>2. PICK r \in loads : \A y \in loads : r <= y
  BY <1>1, LeastNumber
<1> DEFINE least == {w \in Workers : references[w] = r}
<1>3. least \in SUBSET Nat /\ least # {}
  BY <1>1, <1>2
<1>4. PICK w \in least : \A v \in least : w <= v
  BY <1>3, LeastNumber
<1>5. ASSUME NEW v \in Workers
      PROVE  references[w] < references[v] \/ (references[w] = references[v] /\ w <= v)
  <2>1. references[w] <= references[v] /\ references[w] \in Nat /\ references[v] \in Nat
    BY <1>2
  <2>2. CASE references[v] = r
    BY <1>4, <2>2
  <2>3. CASE references[v] # r
    BY <2>1, <2>3
  <2> QED BY <2>2, <2>3
<1>6. \E u \in Workers : \A v \in Workers :
        \/ references[u] < references[v]
        \/ (references[u] = references[v] /\ u <= v)
  BY <1>5
<1> QED BY <1>6 DEF LeastLoaded
-----------------------------------------------------------------------------
(* The powers of four exist, and so does the size a table grows to.        *)
UpTo(n, p) == p \in [0..n -> Nat] /\ p[0] = 1 /\ \A k \in 1..n : p[k] = 4 * p[k - 1]

(* There is a table of powers up to any number,                            *)
LEMMA UpToExists == \A n \in Nat : \E p : UpTo(n, p)
<1> DEFINE bad == {n \in Nat : ~ \E p : UpTo(n, p)}
<1> SUFFICES ASSUME bad # {} PROVE FALSE
  OBVIOUS
<1>1. PICK n \in bad : \A m \in bad : n <= m
  <2> bad \in SUBSET Nat
    OBVIOUS
  <2> HIDE DEF bad
  <2> QED BY LeastNumber
<1>2. CASE n = 0
  <2>1. UpTo(0, [k \in 0..0 |-> 1])
    BY DEF UpTo
  <2> QED BY <1>1, <1>2, <2>1
<1>3. CASE n # 0
  <2>1. n \in Nat /\ n - 1 \in Nat /\ ~(n <= n - 1)
    BY <1>1, <1>3
  <2>2. PICK q : UpTo(n - 1, q)
    BY <1>1, <2>1
  <2> DEFINE p == [k \in 0..n |-> IF k = n THEN 4 * q[n - 1] ELSE q[k]]
  <2>3. q \in [0..(n - 1) -> Nat] /\ q[0] = 1 /\ \A k \in 1..(n - 1) : q[k] = 4 * q[k - 1]
    BY <2>2 DEF UpTo
  <2>4. q[n - 1] \in Nat
    BY <2>1, <2>3
  <2>5. \A k \in 0..n : k = n \/ k \in 0..(n - 1)
    BY <2>1
  <2>6. p \in [0..n -> Nat]
    BY <2>3, <2>4, <2>5
  <2>7. p[0] = 1
    BY <1>3, <2>1, <2>3
  <2>8. ASSUME NEW k \in 1..n PROVE p[k] = 4 * p[k - 1]
    <3>1. k \in 0..n /\ k - 1 \in 0..n /\ k - 1 # n
      BY <2>1
    <3>2. p[k - 1] = q[k - 1] /\ p[k] = IF k = n THEN 4 * q[n - 1] ELSE q[k]
      BY <3>1
    <3> HIDE DEF p
    <3>3. k # n => k \in 1..(n - 1)
      BY <2>1
    <3> QED BY <2>3, <3>2, <3>3
  <2> HIDE DEF p
  <2> QED BY <1>1, <2>6, <2>7, <2>8 DEF UpTo
<1> QED BY <1>2, <1>3

(* and no two of them disagree,                                            *)
LEMMA UpToUnique ==
  ASSUME NEW n \in Nat, NEW m \in Nat, NEW p, NEW q, UpTo(n, p), UpTo(m, q),
         NEW k \in Nat, k <= n, k <= m
  PROVE  p[k] = q[k]
<1> DEFINE bad == {j \in Nat : j <= n /\ j <= m /\ p[j] # q[j]}
<1> SUFFICES ASSUME bad # {} PROVE FALSE
  OBVIOUS
<1>1. PICK j \in bad : \A i \in bad : j <= i
  <2> bad \in SUBSET Nat
    OBVIOUS
  <2> HIDE DEF bad
  <2> QED BY LeastNumber
<1>2. CASE j = 0
  BY <1>1, <1>2 DEF UpTo
<1>3. CASE j # 0
  <2>1. j \in 1..n /\ j \in 1..m /\ j - 1 \in Nat /\ ~(j <= j - 1) /\ j - 1 <= n /\ j - 1 <= m
    BY <1>1, <1>3
  <2>2. p[j - 1] = q[j - 1]
    BY <1>1, <2>1
  <2>3. p[j] = 4 * p[j - 1] /\ q[j] = 4 * q[j - 1]
    BY <2>1 DEF UpTo
  <2> QED BY <1>1, <2>2, <2>3
<1> QED BY <1>2, <1>3

(* so FourTo is what its definition says                                   *)
LEMMA FourToDef == FourTo = [k \in Nat |-> IF k = 0 THEN 1 ELSE 4 * FourTo[k - 1]]
<1> DEFINE part(n) == CHOOSE p : UpTo(n, p)
           g == [k \in Nat |-> part(k)[k]]
<1>1. \A n \in Nat : UpTo(n, part(n))
  BY UpToExists
<1>2. ASSUME NEW k \in Nat PROVE g[k] = IF k = 0 THEN 1 ELSE 4 * g[k - 1]
  <2>1. UpTo(k, part(k))
    BY <1>1
  <2>2. CASE k = 0
    BY <2>1, <2>2 DEF UpTo
  <2>3. CASE k # 0
    <3>1. k - 1 \in Nat /\ k - 1 <= k /\ k - 1 <= k - 1 /\ k \in 1..k
      BY <2>3
    <3>2. UpTo(k - 1, part(k - 1))
      BY <1>1, <3>1
    <3>3. g[k] = part(k)[k] /\ g[k - 1] = part(k - 1)[k - 1]
      BY <3>1
    <3> HIDE DEF part, g
    <3>4. part(k)[k - 1] = part(k - 1)[k - 1]
      BY <2>1, <3>1, <3>2, UpToUnique
    <3>5. part(k)[k] = 4 * part(k)[k - 1]
      BY <2>1, <3>1 DEF UpTo
    <3> QED BY <2>3, <3>3, <3>4, <3>5
  <2> QED BY <2>2, <2>3
<1>3. g = [k \in Nat |-> g[k]]
  OBVIOUS
<1> HIDE DEF g
<1>4. g = [k \in Nat |-> IF k = 0 THEN 1 ELSE 4 * g[k - 1]]
  BY <1>2, <1>3
<1> QED BY <1>4 DEF FourTo

(* and exceeds any number.                                                 *)
LEMMA FourToGrows == \A k \in Nat : FourTo[k] \in Nat /\ k < FourTo[k]
<1> DEFINE bad == {k \in Nat : ~(FourTo[k] \in Nat /\ k < FourTo[k])}
<1> SUFFICES ASSUME bad # {} PROVE FALSE
  OBVIOUS
<1>1. PICK k \in bad : \A j \in bad : k <= j
  <2> bad \in SUBSET Nat
    OBVIOUS
  <2> HIDE DEF bad
  <2> QED BY LeastNumber
<1>2. FourTo[k] = IF k = 0 THEN 1 ELSE 4 * FourTo[k - 1]
  BY <1>1, FourToDef
<1>3. CASE k = 0
  BY <1>1, <1>2, <1>3
<1>4. CASE k # 0
  <2>1. k \in Nat /\ k - 1 \in Nat /\ ~(k <= k - 1)
    BY <1>1, <1>4
  <2>2. FourTo[k - 1] \in Nat /\ k - 1 < FourTo[k - 1]
    BY <1>1, <2>1
  <2> QED BY <1>1, <1>2, <1>4, <2>1, <2>2
<1> QED BY <1>3, <1>4

(* The table grows to a size that is not smaller than the descriptor.      *)
LEMMA NewSizeIsSize ==
  ASSUME NEW n \in Nat \ {0}, NEW f \in Nat
  PROVE  /\ f <= NewSize(n, f) /\ NewSize(n, f) \in Nat \ {0}
         /\ \E k \in Nat : NewSize(n, f) = n * FourTo[k]
<1> DEFINE sizes == {n * FourTo[k] : k \in 1..(f + 1)}
           large == {s \in sizes : f <= s}
<1>1. \A k \in 1..(f + 1) : FourTo[k] \in Nat \ {0} /\ n * FourTo[k] \in Nat \ {0}
  <2> TAKE k \in 1..(f + 1)
  <2>1. FourTo[k] \in Nat \ {0}
    BY FourToGrows
  <2> QED BY <2>1
<1>2. sizes \in SUBSET (Nat \ {0})
  BY <1>1
<1>3. n * FourTo[f + 1] \in large
  <2>1. f + 1 \in 1..(f + 1) /\ f + 1 \in Nat
    OBVIOUS
  <2>2. FourTo[f + 1] \in Nat /\ f + 1 < FourTo[f + 1]
    BY <2>1, FourToGrows
  <2>3. FourTo[f + 1] <= n * FourTo[f + 1]
    BY <2>2
  <2>4. n * FourTo[f + 1] \in Nat
    BY <1>1, <2>1
  <2>5. f <= n * FourTo[f + 1]
    BY <2>2, <2>3, <2>4
  <2> QED BY <2>1, <2>5
<1>4. large \in SUBSET Nat /\ large # {}
  BY <1>2, <1>3
<1>5. PICK s \in large : \A t \in large : s <= t
  <2> HIDE DEF large
  <2> QED BY <1>4, LeastNumber
<1>6. \E u \in sizes : f <= u /\ \A t \in sizes : f <= t => u <= t
  BY <1>5
<1>7. NewSize(n, f) = CHOOSE u \in sizes : f <= u /\ \A t \in sizes : f <= t => u <= t
  BY DEF NewSize
<1>8. NewSize(n, f) \in sizes /\ f <= NewSize(n, f)
  <2> HIDE DEF sizes
  <2> QED BY <1>6, <1>7
<1> QED BY <1>2, <1>8
-----------------------------------------------------------------------------
(* The kinds of events, and what dispatch_event_external() does to the     *)
(* queues.                                                                 *)
LEMMA KindsOfEvents ==
  /\ \A k \in Conns :
       /\ Event("read", k) \in GoodEvents /\ Event("clean", k) \in GoodEvents
       /\ Event("read", k) \in Of(k) /\ Event("clean", k) \in Of(k)
       /\ Event("read", k) \notin Clean(k) /\ Event("clean", k) \in Clean(k)
       /\ Clean(k) \subseteq Of(k)
       /\ \A e \in Of(k) : e \in GoodEvents /\ e.of = k
       /\ \A e \in GoodEvents : e \in Of(k) <=> e.of = k
       /\ \A e \in GoodEvents : e \in Clean(k) <=> e.kind = "clean" /\ e.of = k
  /\ Event("clean", Local) \in GoodEvents /\ Event("drain", Local) \in GoodEvents
  /\ Event("listen", Listener) \in GoodEvents /\ Event("unlisten", Listener) \in GoodEvents
  /\ \A x, y : Event(x, y).of = y /\ Event(x, y).kind = x
BY DEF Event, GoodEvents, Of, Clean

(* dispatch_event_external() appends to one queue.                         *)
LEMMA DispatchTypes ==
  ASSUME QueueTypes, NEW a \in Actors, NEW v \in Workers, NEW e \in GoodEvents,
         Dispatch(a, v, e)
  PROVE  /\ external_events' \in [Workers -> Seq(GoodEvents)]
         /\ external_num_events' \in [Workers -> Nat] /\ notify' \in [Workers -> BOOLEAN]
         /\ owed' \in [Actors -> Workers \cup {None}]
         /\ \A w \in Workers :
              external_events'[w] = IF w = v THEN Append(external_events[w], e)
                                             ELSE external_events[w]
<1>1. /\ external_events' = [external_events EXCEPT ![v] = Append(@, e)]
      /\ external_num_events' = [external_num_events EXCEPT ![v] = @ + 1]
      /\ owed' = [owed EXCEPT ![a] =
                    IF a # v /\ external_num_events[v] = 0 THEN v ELSE @]
      /\ notify' = notify
  BY DEF Dispatch
<1>2. Append(external_events[v], e) \in Seq(GoodEvents)
  BY DEF QueueTypes
<1> QED BY <1>1, <1>2 DEF QueueTypes

(* It keeps the types of the queues.                                       *)
LEMMA DispatchKeepsTypes ==
  ASSUME QueueTypes, NEW a \in Actors, NEW v \in Workers, NEW e \in GoodEvents,
         Dispatch(a, v, e), cur_process' \in [Workers -> Seq(GoodEvents)]
  PROVE  QueueTypes'
BY DispatchTypes DEF QueueTypes

(* The events of k still lead to it after a step that takes at most the    *)
(* first event of a center, and no clean-up of k, and adds at most e to    *)
(* one.                                                                    *)
Taken(w, A) ==
  \/ cur_process'[w] = cur_process[w]
  \/ /\ cur_process[w] # << >> /\ cur_process'[w] = Tail(cur_process[w])
     /\ Head(cur_process[w]) \notin A
Added(w, e) == external_events'[w] = Append(external_events[w], e)
Stays(k) == InUse(k) => InUse(k)' /\ home'[k] = home[k]
LeadsOn(k, e) ==
  /\ \A w \in Workers : /\ Taken(w, Clean(k))
                        /\ external_events'[w] = external_events[w] \/ Added(w, e)
                        /\ Added(w, e) /\ e \in Of(k)
                             => w = home'[k] /\ InUse(k)' /\ status[k] # "closed"
                        /\ Added(w, e) /\ e \in Clean(k) => status'[k] = "closed"
  /\ Stays(k)
  /\ status[k] = "closed" => status'[k] = "closed"
  /\ status'[k] = "closed" /\ status[k] # "closed" => e \in Clean(k) /\ Added(home'[k], e)

(* A step that leads on keeps the order of a connection's events.          *)
LEMMA EventsKept ==
  ASSUME Kinds, Kinds', NEW k \in Conns, NEW e \in GoodEvents, EventsLeadTo(k), LeadsOn(k, e)
  PROVE  EventsLeadTo(k)'
<1>1. ASSUME NEW w \in Workers
      PROVE  /\ Queued(w, Of(k))' => Queued(w, Of(k)) \/ (Added(w, e) /\ e \in Of(k))
             /\ Queued(w, Clean(k))' => Queued(w, Clean(k)) \/ (Added(w, e) /\ e \in Clean(k))
             /\ Queued(w, Clean(k)) => Queued(w, Clean(k))'
             /\ Added(w, e) /\ e \in Clean(k) => Queued(w, Clean(k))'
             /\ Fenced(cur_process[w], external_events[w], Clean(k), Of(k))'
  <2> DEFINE c == cur_process[w]
             x == external_events[w]
             c2 == cur_process'[w]
             x2 == external_events'[w]
  <2>1. c \in Seq(GoodEvents) /\ x \in Seq(GoodEvents)
    BY DEF Kinds, QueueTypes
  <2>2. /\ c2 = c \/ (c # << >> /\ c2 = Tail(c) /\ Head(c) \notin Clean(k))
        /\ x2 = x \/ x2 = Append(x, e)
    BY DEF LeadsOn, Taken, Added
  <2>3. Fenced(c, x, Clean(k), Of(k))
    BY DEF EventsLeadTo
  <2>4. Append(x, e) # x
    BY <2>1, AppendedIn
  <2>5. x2 # x /\ e \in Of(k) => ~In(c, Clean(k)) /\ ~In(x, Clean(k))
    BY <2>2 DEF LeadsOn, Added, EventsLeadTo, Queued
  <2>6. Added(w, e) <=> x2 = Append(x, e)
    BY DEF Added
  <2> HIDE DEF c, x, c2, x2
  <2>7. ASSUME NEW A
        PROVE  /\ In(c2, A) => In(c, A)
               /\ In(c, A) => In(c2, A) \/ (c2 # c /\ Head(c) \in A)
               /\ In(x2, A) => In(x, A) \/ (x2 = Append(x, e) /\ e \in A)
               /\ In(x, A) => In(x2, A)
               /\ x2 = Append(x, e) /\ e \in A => In(x2, A)
    <3>1. /\ In(c2, A) => In(c, A)
          /\ In(c, A) => In(c2, A) \/ (c2 # c /\ Head(c) \in A)
      <4>1. CASE c2 = c
        BY <4>1
      <4>2. CASE c # << >> /\ c2 = Tail(c)
        <5>1. /\ Tail(c) # c
              /\ In(c, A) <=> Head(c) \in A \/ In(Tail(c), A)
          BY <2>1, <4>2, TailIn
        <5> QED BY <4>2, <5>1
      <4> QED BY <2>2, <4>1, <4>2
    <3>2. /\ In(x2, A) => In(x, A) \/ (x2 = Append(x, e) /\ e \in A)
          /\ In(x, A) => In(x2, A)
          /\ x2 = Append(x, e) /\ e \in A => In(x2, A)
      <4>1. CASE x2 = x
        BY <2>4, <4>1
      <4>2. CASE x2 = Append(x, e)
        <5>1. In(Append(x, e), A) <=> In(x, A) \/ e \in A
          BY <2>1, AppendedIn
        <5> QED BY <4>2, <5>1
      <4> QED BY <2>2, <4>1, <4>2
    <3> QED BY <3>1, <3>2
  <2>8. Fenced(c2, x2, Clean(k), Of(k))
    BY <2>1, <2>2, <2>3, <2>5, QueueStep
  <2>9. /\ In(c2, Of(k)) => In(c, Of(k))
        /\ In(x2, Of(k)) => In(x, Of(k)) \/ (x2 = Append(x, e) /\ e \in Of(k))
    BY <2>7
  <2>10. /\ In(c2, Clean(k)) => In(c, Clean(k))
         /\ In(c, Clean(k)) => In(c2, Clean(k))
         /\ In(x2, Clean(k)) => In(x, Clean(k)) \/ (x2 = Append(x, e) /\ e \in Clean(k))
         /\ In(x, Clean(k)) => In(x2, Clean(k))
         /\ x2 = Append(x, e) /\ e \in Clean(k) => In(x2, Clean(k))
    BY <2>2, <2>7
  <2>11. /\ Queued(w, Of(k)) <=> In(c, Of(k)) \/ In(x, Of(k))
         /\ Queued(w, Clean(k)) <=> In(c, Clean(k)) \/ In(x, Clean(k))
         /\ Queued(w, Of(k))' <=> In(c2, Of(k)) \/ In(x2, Of(k))
         /\ Queued(w, Clean(k))' <=> In(c2, Clean(k)) \/ In(x2, Clean(k))
         /\ Fenced(cur_process[w], external_events[w], Clean(k), Of(k))'
              <=> Fenced(c2, x2, Clean(k), Of(k))
    BY DEF Queued, Of, Clean, c, x, c2, x2
  <2> QED BY <2>6, <2>8, <2>9, <2>10, <2>11
<1>2. ASSUME NEW w \in Workers
      PROVE  /\ Queued(w, Of(k))' => w = home'[k] /\ InUse(k)'
             /\ Queued(w, Clean(k))' => status'[k] = "closed"
  BY <1>1 DEF EventsLeadTo, LeadsOn, Stays
<1>3. status'[k] = "closed" => Queued(home[k], Clean(k))'
  <2> SUFFICES ASSUME status'[k] = "closed" PROVE Queued(home[k], Clean(k))'
    OBVIOUS
  <2>0. PICK v \in Workers : v = home'[k]
    BY NamesDiffer DEF Kinds, ConnTypes
  <2>1. CASE status[k] = "closed"
    <3>1. v = home[k] /\ Queued(home[k], Clean(k))
      BY <2>0, <2>1 DEF EventsLeadTo, LeadsOn, Stays, InUse
    <3>2. Queued(v, Clean(k))'
      BY <1>1, <3>1
    <3> QED BY <2>0, <3>2
  <2>2. CASE status[k] # "closed"
    <3>1. e \in Clean(k) /\ Added(v, e)
      BY <2>0, <2>2 DEF LeadsOn
    <3> QED BY <1>1, <2>0, <3>1
  <2> QED BY <2>1, <2>2
<1> QED BY <1>1, <1>2, <1>3 DEF EventsLeadTo
-----------------------------------------------------------------------------
(* A step that posts at most one event, for a connection that stays, opens *)
(* or closes, or for none.                                                 *)
Unmoved(k) == status'[k] = status[k] /\ home'[k] = home[k]
NothingPosted ==
  /\ external_events' = external_events
  /\ \A k \in Conns : /\ home'[k] = home[k]
                      /\ \/ status'[k] = status[k]
                         \/ status[k] = "new" /\ status'[k] = "incoming"
ReadPosted(a, h) ==
  /\ Dispatch(a, home'[h], Event("read", h))
  /\ status[h] \in {"new", "incoming", "open"} /\ status'[h] = "open"
  /\ status[h] = "open" => home'[h] = home[h]
  /\ \A k \in Conns \ {h} : Unmoved(k)
CleanPosted(a, h) ==
  /\ Dispatch(a, home'[h], Event("clean", h))
  /\ status[h] = "open" /\ status'[h] = "closed" /\ home'[h] = home[h]
  /\ \A k \in Conns \ {h} : Unmoved(k)
ControlPosted(a) ==
  /\ \E v \in Workers, e \in GoodEvents : e.of \notin Conns /\ Dispatch(a, v, e)
  /\ \A k \in Conns : Unmoved(k)
Posts(a) ==
  \/ NothingPosted
  \/ \E h \in Conns : ReadPosted(a, h)
  \/ \E h \in Conns : CleanPosted(a, h)
  \/ ControlPosted(a)

(* Whatever a step posts, the events of each connection stay in order.     *)
LEMMA PostsLeadOn ==
  ASSUME Kinds, Kinds', EventsLead, NEW a \in Actors, Posts(a),
         \A k \in Conns, w \in Workers : Taken(w, Clean(k))
  PROVE  EventsLead'
<1> SUFFICES ASSUME NEW k \in Conns PROVE EventsLeadTo(k)'
  BY DEF EventsLead
<1>0. EventsLeadTo(k) /\ \A w \in Workers : Taken(w, Clean(k))
  BY DEF EventsLead
<1>1. /\ k \in Handlers /\ Local \in Handlers /\ Local \notin Conns
      /\ status[k] \in {"new", "incoming", "open", "closed", "freed"}
      /\ \A h \in Handlers : home'[h] \in Workers
  BY NamesDiffer DEF Kinds, ConnTypes
<1>2. CASE NothingPosted
  <2> DEFINE e == Event("drain", Local)
  <2>1. e \in GoodEvents /\ e \notin Of(k) /\ e \notin Clean(k)
    BY <1>1, KindsOfEvents
  <2>2. \A w \in Workers : external_events'[w] = external_events[w]
    BY <1>2 DEF NothingPosted
  <2>3. Stays(k) /\ (status[k] = "closed" <=> status'[k] = "closed")
    BY <1>2 DEF NothingPosted, Stays, InUse
  <2> HIDE DEF e
  <2>4. LeadsOn(k, e)
    BY <1>0, <2>1, <2>2, <2>3 DEF LeadsOn
  <2> QED BY <1>0, <2>1, <2>4, EventsKept
<1>3. ASSUME NEW h \in Conns, ReadPosted(a, h) PROVE EventsLeadTo(k)'
  <2> DEFINE e == Event("read", h)
  <2>1. /\ e \in GoodEvents /\ e.of = h /\ e.kind = "read"
        /\ e \in Of(k) <=> h = k
        /\ e \notin Clean(k)
    BY KindsOfEvents
  <2>2. \A w \in Workers : external_events'[w] = IF w = home'[h]
                              THEN Append(external_events[w], e) ELSE external_events[w]
    BY <1>1, <1>3, <2>1, NamesDiffer, DispatchTypes DEF Kinds, ReadPosted
  <2>3. \A w \in Workers : external_events[w] \in Seq(GoodEvents)
    BY DEF Kinds, QueueTypes
  <2>4. \A w \in Workers : Added(w, e) => w = home'[h]
    BY <2>1, <2>2, <2>3, AppendedIn DEF Added
  <2>5. \A w \in Workers : external_events'[w] = external_events[w] \/ Added(w, e)
    BY <2>2 DEF Added
  <2>6. Stays(k) /\ (status[k] = "closed" <=> status'[k] = "closed")
    BY <1>3 DEF ReadPosted, Unmoved, Stays, InUse
  <2>7. h = k => InUse(k)' /\ status[k] # "closed"
    BY <1>3 DEF ReadPosted, InUse
  <2> HIDE DEF e
  <2>8. LeadsOn(k, e)
    BY <1>0, <2>1, <2>4, <2>5, <2>6, <2>7 DEF LeadsOn
  <2> QED BY <1>0, <2>1, <2>8, EventsKept
<1>4. ASSUME NEW h \in Conns, CleanPosted(a, h) PROVE EventsLeadTo(k)'
  <2> DEFINE e == Event("clean", h)
  <2>1. /\ e \in GoodEvents /\ e.of = h /\ e.kind = "clean"
        /\ e \in Of(k) <=> h = k
        /\ e \in Clean(k) <=> h = k
    BY KindsOfEvents
  <2>2. \A w \in Workers : external_events'[w] = IF w = home'[h]
                              THEN Append(external_events[w], e) ELSE external_events[w]
    BY <1>1, <1>4, <2>1, NamesDiffer, DispatchTypes DEF Kinds, CleanPosted
  <2>3. \A w \in Workers : external_events[w] \in Seq(GoodEvents)
    BY DEF Kinds, QueueTypes
  <2>4. /\ \A w \in Workers : Added(w, e) => w = home'[h]
        /\ \A w \in Workers : w = home'[h] => Added(w, e)
    <3>1. \A w \in Workers : Added(w, e) => w = home'[h]
      BY <2>1, <2>2, <2>3, AppendedIn DEF Added
    <3>2. \A w \in Workers : w = home'[h] => Added(w, e)
      BY <2>2 DEF Added
    <3> QED BY <3>1, <3>2
  <2>5. \A w \in Workers : external_events'[w] = external_events[w] \/ Added(w, e)
    BY <2>2 DEF Added
  <2>6. /\ Stays(k) /\ (status[k] = "closed" => status'[k] = "closed")
        /\ h # k => (status'[k] = "closed" => status[k] = "closed")
    BY <1>4 DEF CleanPosted, Unmoved, Stays, InUse
  <2>7. h = k => InUse(k)' /\ status[k] # "closed" /\ status'[k] = "closed"
    BY <1>4 DEF CleanPosted, InUse
  <2>8. h = k => Added(home'[k], e)
    BY <1>1, <2>4
  <2> HIDE DEF e
  <2>9. LeadsOn(k, e)
    BY <1>0, <2>1, <2>4, <2>5, <2>6, <2>7, <2>8 DEF LeadsOn
  <2> QED BY <1>0, <2>1, <2>9, EventsKept
<1>5. CASE ControlPosted(a)
  <2>1. PICK v \in Workers, e \in GoodEvents : e.of \notin Conns /\ Dispatch(a, v, e)
    BY <1>5 DEF ControlPosted
  <2>2. e \notin Of(k) /\ e \notin Clean(k)
    BY <2>1, KindsOfEvents
  <2>3. \A w \in Workers : external_events'[w] = external_events[w] \/ Added(w, e)
    BY <2>1, DispatchTypes DEF Kinds, Added
  <2>4. Stays(k) /\ (status[k] = "closed" <=> status'[k] = "closed")
    BY <1>5 DEF ControlPosted, Unmoved, Stays, InUse
  <2>5. LeadsOn(k, e)
    BY <1>0, <2>2, <2>3, <2>4 DEF LeadsOn
  <2> QED BY <1>0, <2>5, EventsKept
<1> QED BY <1>2, <1>3, <1>4, <1>5 DEF Posts
-----------------------------------------------------------------------------
(* The file events: which callbacks a step registers and which it takes    *)
(* away.                                                                   *)
LEMMA CreateKeeps ==
  ASSUME TableTypes, NEW w \in Workers, NEW f \in AllFds, NEW m \in {{"R"}, {"W"}},
         NEW h \in Conns \cup {Listener}, h = Listener <=> f = ListenFd,
         CreateFileEvent(w, f, m, h)
  PROVE  /\ TableTypes'
         /\ \A u \in Workers, g \in AllFds :
              /\ read_cb'[u][g] = read_cb[u][g]
                   \/ (u = w /\ g = f /\ read_cb'[u][g] = h)
              /\ write_cb'[u][g] = write_cb[u][g]
                   \/ (u = w /\ g = f /\ write_cb'[u][g] = h)
<1> DEFINE size == IF f >= nevent[w] THEN NewSize(nevent[w], f) ELSE nevent[w]
<1>1. nevent' = [nevent EXCEPT ![w] = size]
  BY DEF CreateFileEvent
<1>2. size \in Nat \ {0}
  BY NewSizeIsSize, NamesDiffer DEF TableTypes
<1>3. nevent' \in [Workers -> Nat \ {0}]
  BY <1>1, <1>2 DEF TableTypes
<1> HIDE DEF size
<1>4. CASE UNCHANGED <<mask, read_cb, write_cb>>
  BY <1>3, <1>4 DEF TableTypes
<1>5. CASE /\ mask' = [mask EXCEPT ![w][f] = @ \cup m]
           /\ read_cb' = [read_cb EXCEPT ![w][f] =
                            IF "R" \in m /\ mask[w][f] # m THEN h ELSE @]
           /\ write_cb' = [write_cb EXCEPT ![w][f] =
                             IF "W" \in m /\ mask[w][f] # m THEN h ELSE @]
  <2>1. h \in Callbacks /\ h # None
    BY NamesDiffer DEF Callbacks
  <2>2. mask' \in [Workers -> [AllFds -> SUBSET {"R", "W"}]]
    BY <1>5 DEF TableTypes
  <2>3. /\ read_cb' \in [Workers -> [AllFds -> Callbacks]]
        /\ \A u \in Workers, g \in AllFds : read_cb'[u][g] = read_cb[u][g]
                                              \/ (u = w /\ g = f /\ read_cb'[u][g] = h)
    BY <1>5, <2>1 DEF TableTypes
  <2>4. /\ write_cb' \in [Workers -> [AllFds -> Callbacks]]
        /\ \A u \in Workers, g \in AllFds : write_cb'[u][g] = write_cb[u][g]
                                              \/ (u = w /\ g = f /\ write_cb'[u][g] = h)
    BY <1>5, <2>1 DEF TableTypes
  <2>5. ASSUME NEW u \in Workers, NEW g \in Fds
        PROVE  read_cb'[u][g] # Listener /\ write_cb'[u][g] # Listener
    <3>1. g \in AllFds /\ g # ListenFd
      BY NamesDiffer
    <3> QED BY <2>3, <2>4, <3>1 DEF TableTypes
  <2>6. ASSUME NEW u \in Workers
        PROVE  read_cb'[u][ListenFd] \notin Conns /\ write_cb'[u][ListenFd] \notin Conns
    BY <2>3, <2>4, NamesDiffer DEF TableTypes
  <2>7. TableTypes'
    BY <1>3, <2>2, <2>3, <2>4, <2>5, <2>6 DEF TableTypes
  <2> QED BY <2>3, <2>4, <2>7
<1> QED BY <1>4, <1>5 DEF CreateFileEvent

(* delete_file_event() takes callbacks away and adds none.                 *)
LEMMA DeleteKeeps ==
  ASSUME TableTypes, NEW w \in Workers, NEW f \in AllFds, NEW m \in SUBSET {"R", "W"},
         DeleteFileEvent(w, f, m)
  PROVE  /\ TableTypes'
         /\ \A u \in Workers, g \in AllFds :
              /\ read_cb'[u][g] \in {read_cb[u][g], None}
              /\ write_cb'[u][g] \in {write_cb[u][g], None}
              /\ u = w /\ g = f /\ "R" \in m => read_cb'[u][g] = None
              /\ u = w /\ g = f /\ "W" \in m => write_cb'[u][g] = None
<1>1. /\ mask' = [mask EXCEPT ![w][f] = @ \ m]
      /\ read_cb' = [read_cb EXCEPT ![w][f] = IF "R" \in m THEN None ELSE @]
      /\ write_cb' = [write_cb EXCEPT ![w][f] = IF "W" \in m THEN None ELSE @]
      /\ nevent' = nevent
  BY DEF DeleteFileEvent
<1>2. None \in Callbacks /\ None # Listener /\ None \notin Conns
  BY NamesDiffer DEF Callbacks
<1>3. mask' \in [Workers -> [AllFds -> SUBSET {"R", "W"}]]
  BY <1>1 DEF TableTypes
<1>4. /\ read_cb' \in [Workers -> [AllFds -> Callbacks]]
      /\ \A u \in Workers, g \in AllFds :
           /\ read_cb'[u][g] \in {read_cb[u][g], None}
           /\ u = w /\ g = f /\ "R" \in m => read_cb'[u][g] = None
  BY <1>1, <1>2 DEF TableTypes
<1>5. /\ write_cb' \in [Workers -> [AllFds -> Callbacks]]
      /\ \A u \in Workers, g \in AllFds :
           /\ write_cb'[u][g] \in {write_cb[u][g], None}
           /\ u = w /\ g = f /\ "W" \in m => write_cb'[u][g] = None
  BY <1>1, <1>2 DEF TableTypes
<1>6. TableTypes'
  BY <1>1, <1>2, <1>3, <1>4, <1>5, NamesDiffer DEF TableTypes
<1> QED BY <1>4, <1>5, <1>6

(* The callbacks still lead to their connections after a step that does    *)
(* not touch those of others than h, and leaves only what leads to h.      *)
FilesOnlyOf(h) ==
  /\ \A k \in Conns \ {h} :
       /\ Stays(k) /\ fd'[k] = fd[k]
       /\ \A u \in Workers, g \in AllFds : /\ read_cb'[u][g] = k => read_cb[u][g] = k
                                           /\ write_cb'[u][g] = k => write_cb[u][g] = k
  /\ \A u \in Workers, g \in AllFds :
       read_cb'[u][g] = h \/ write_cb'[u][g] = h
         => u = home'[h] /\ g = fd'[h] /\ InUse(h)'

(* Callbacks lead to connections in use if those of h do.                  *)
LEMMA FilesKept == ASSUME FilesLead, NEW h \in Conns, FilesOnlyOf(h) PROVE FilesLead'
<1> SUFFICES ASSUME NEW w \in Workers, NEW f \in AllFds, NEW k \in Conns,
                    (read_cb[w][f] = k \/ write_cb[w][f] = k)'
             PROVE  (w = home[k] /\ f = fd[k] /\ InUse(k))'
  BY DEF FilesLead
<1>1. CASE k = h
  BY <1>1 DEF FilesOnlyOf
<1>2. CASE k # h
  <2>1. read_cb[w][f] = k \/ write_cb[w][f] = k
    BY <1>2 DEF FilesOnlyOf
  <2>2. w = home[k] /\ f = fd[k] /\ InUse(k)
    BY <2>1 DEF FilesLead
  <2> QED BY <1>2, <2>2 DEF FilesOnlyOf, Stays
<1> QED BY <1>1, <1>2

(* The same where the tables stay.                                         *)
LEMMA FilesSteady ==
  ASSUME FilesLead, UNCHANGED <<read_cb, write_cb>>,
         \A k \in Conns : Stays(k) /\ (InUse(k) => fd'[k] = fd[k])
  PROVE  FilesLead'
<1> SUFFICES ASSUME NEW w \in Workers, NEW f \in AllFds, NEW k \in Conns,
                    (read_cb[w][f] = k \/ write_cb[w][f] = k)'
             PROVE  (w = home[k] /\ f = fd[k] /\ InUse(k))'
  BY DEF FilesLead
<1>1. w = home[k] /\ f = fd[k] /\ InUse(k)
  BY DEF FilesLead
<1> QED BY <1>1 DEF Stays

(* And the timers.                                                         *)
LEMMA TimersKept ==
  ASSUME Kinds, TimersLead, NEW w \in Workers, NEW timers \in Seq(Conns), Once(timers),
         SetTimers(w, timers),
         \A k \in Conns : /\ Occurs(timers, k) => w = home'[k] /\ InUse(k)'
                          /\ InUse(k) /\ home[k] # w => InUse(k)' /\ home'[k] = home[k]
  PROVE  TimersLead' /\ time_events' \in [Workers -> Seq(Conns)]
<1>1. /\ time_events' = [time_events EXCEPT ![w] = timers]
      /\ time_events \in [Workers -> Seq(Conns)]
  BY DEF SetTimers, Kinds, ConnTypes
<1>2. ASSUME NEW u \in Workers
      PROVE  /\ Once(time_events'[u])
             /\ \A k \in Conns : Occurs(time_events'[u], k) => u = home'[k] /\ InUse(k)'
  <2>1. CASE u = w
    BY <1>1, <2>1
  <2>2. CASE u # w
    <3>1. time_events'[u] = time_events[u]
      BY <1>1, <2>2
    <3> QED BY <2>2, <3>1 DEF TimersLead
  <2> QED BY <2>1, <2>2
<1>3. TimersLead'
  <2> SUFFICES ASSUME NEW u \in Workers
               PROVE  (/\ Once(time_events[u])
                       /\ \A k \in Conns : Occurs(time_events[u], k)
                                             => u = home[k] /\ InUse(k))'
    BY DEF TimersLead
  <2> QED BY <1>2 DEF Once, Occurs
<1> QED BY <1>1, <1>3

(* The same where no timer list changes.                                   *)
LEMMA TimersSteady ==
  ASSUME TimersLead, UNCHANGED time_events, \A k \in Conns : Stays(k)
  PROVE  TimersLead'
BY DEF TimersLead, Stays, Once, Occurs
-----------------------------------------------------------------------------
(* What a callback of connection h does, run by its center w with the      *)
(* timers it was called with.                                              *)
Serves(w, h, timers) ==
  /\ w \in Workers /\ h \in Conns /\ w = home[h] /\ InUse(h)
  /\ timers \in Seq(Conns) /\ Once(timers)
  /\ \A k \in Conns : Occurs(timers, k) => Occurs(time_events[w], k)
QueuesKept == cur_process' \in [Workers -> Seq(GoodEvents)] => QueueTypes'
Served(w) ==
  /\ TableTypes' /\ ConnTypes' /\ faults' \in 0..MaxFaults
  /\ TimersLead' /\ FilesLead'
  /\ Posts(w) /\ QueuesKept

(* A callback that posts nothing.                                          *)
LEMMA ServedQuietly ==
  ASSUME Kinds, UNCHANGED <<queueVars, status, home>>, NEW w
  PROVE  Posts(w) /\ QueuesKept
BY DEF Posts, NothingPosted, QueuesKept, Kinds, QueueTypes, queueVars

(* Timers after a callback that keeps the list it was given.               *)
LEMMA ServedTimers ==
  ASSUME Kinds, TimersLead, NEW w, NEW h, NEW timers, Serves(w, h, timers),
         SetTimers(w, timers), home' = home, \A k \in Conns : InUse(k) => InUse(k)'
  PROVE  TimersLead' /\ time_events' \in [Workers -> Seq(Conns)]
<1>1. \A k \in Conns : /\ Occurs(timers, k) => w = home'[k] /\ InUse(k)'
                       /\ InUse(k) /\ home[k] # w => InUse(k)' /\ home'[k] = home[k]
  BY DEF Serves, TimersLead
<1> QED BY <1>1, TimersKept DEF Serves

(* The branches of Callback, one by one: nothing is done,                  *)
LEMMA QuietServes ==
  ASSUME Kinds, Leads, NEW w, NEW h, NEW timers, Serves(w, h, timers), Quiet(w, h, timers)
  PROVE  Served(w)
<1>1. /\ SetTimers(w, timers)
      /\ UNCHANGED <<queueVars, fileVars, references, connVars, faults>>
  BY DEF Quiet
<1>2. TimersLead' /\ time_events' \in [Workers -> Seq(Conns)]
  BY <1>1, ServedTimers DEF connVars, InUse, Leads
<1>3. FilesLead'
  BY <1>1, FilesSteady DEF fileVars, connVars, Stays, InUse, Leads
<1>4. Posts(w) /\ QueuesKept
  BY <1>1, ServedQuietly DEF connVars
<1>5. TableTypes' /\ ConnTypes' /\ faults' \in 0..MaxFaults
  BY <1>1, <1>2 DEF Kinds, TableTypes, ConnTypes, AdminTypes, fileVars, connVars
<1> QED BY <1>2, <1>3, <1>4, <1>5 DEF Served

(* A callback is registered for a descriptor of h.                         *)
LEMMA CreateServes ==
  ASSUME Kinds, Leads, NEW w, NEW h, NEW timers, Serves(w, h, timers),
         NEW f \in Fds, NEW m \in {{"R"}, {"W"}}, CreateFileEvent(w, f, m, h),
         fd[h] \in {None, f}, fd' = [fd EXCEPT ![h] = f], SetTimers(w, timers),
         UNCHANGED <<queueVars, references, status, home, faults>>
  PROVE  Served(w)
<1>0. w \in Workers /\ h \in Conns /\ w = home[h] /\ InUse(h)
  BY DEF Serves
<1>1. /\ h \in Handlers /\ h # Local /\ h # Listener /\ f \in AllFds /\ f # ListenFd
      /\ None \notin AllFds
  BY <1>0, NamesDiffer
<1>2. TimersLead' /\ time_events' \in [Workers -> Seq(Conns)]
  BY ServedTimers DEF InUse, Leads
<1>3. TableTypes /\ fd \in [Handlers -> AllFds \cup {None}]
  BY DEF Kinds, ConnTypes
<1>4. /\ TableTypes'
      /\ \A u \in Workers, g \in AllFds :
           /\ read_cb'[u][g] = read_cb[u][g]
                \/ (u = w /\ g = f /\ read_cb'[u][g] = h)
           /\ write_cb'[u][g] = write_cb[u][g]
                \/ (u = w /\ g = f /\ write_cb'[u][g] = h)
  <2>1. w \in Workers /\ h \in Conns \cup {Listener} /\ (h = Listener <=> f = ListenFd)
    BY <1>0, <1>1
  <2>2. TableTypes /\ f \in AllFds
    BY <1>1, <1>3
  <2> QED BY <2>1, <2>2, CreateKeeps
<1>5. fd'[h] = f /\ \A k \in Handlers : k # h => fd'[k] = fd[k]
  BY <1>1, <1>3
<1>6. FilesOnlyOf(h)
  <2>1. ASSUME NEW k \in Conns \ {h}
        PROVE  /\ Stays(k) /\ fd'[k] = fd[k]
               /\ \A u \in Workers, g \in AllFds : /\ read_cb'[u][g] = k => read_cb[u][g] = k
                                                   /\ write_cb'[u][g] = k => write_cb[u][g] = k
    BY <1>4, <1>5, NamesDiffer DEF Stays, InUse
  <2>2. ASSUME NEW u \in Workers, NEW g \in AllFds, read_cb'[u][g] = h \/ write_cb'[u][g] = h
        PROVE  u = home'[h] /\ g = fd'[h] /\ InUse(h)'
    <3>1. u = w /\ g = f
      <4>1. CASE read_cb[u][g] = h \/ write_cb[u][g] = h
        <5>1. u = home[h] /\ g = fd[h]
          BY <1>0, <4>1 DEF Leads, FilesLead
        <5> QED BY <1>0, <1>1, <5>1
      <4>2. CASE ~(read_cb[u][g] = h \/ write_cb[u][g] = h)
        BY <1>4, <2>2, <4>2
      <4> QED BY <4>1, <4>2
    <3> QED BY <1>0, <1>5, <3>1 DEF InUse
  <2> QED BY <2>1, <2>2 DEF FilesOnlyOf
<1>7. FilesLead'
  BY <1>0, <1>6, FilesKept DEF Leads
<1>8. Posts(w) /\ QueuesKept
  BY ServedQuietly
<1>9. ConnTypes' /\ faults' \in 0..MaxFaults
  <2>1. /\ fd' \in [Handlers -> AllFds \cup {None}] /\ fd'[Local] = None
        /\ \A k \in Conns : fd'[k] # ListenFd
    BY <1>1, <1>3, <1>5, NamesDiffer DEF Kinds, ConnTypes
  <2> QED BY <1>2, <2>1 DEF Kinds, ConnTypes, AdminTypes
<1> QED BY <1>2, <1>4, <1>7, <1>8, <1>9 DEF Served

(* a socket is registered,                                                 *)
LEMMA RegisterServes ==
  ASSUME Kinds, Leads, NEW w, NEW h, NEW timers, Serves(w, h, timers), Register(w, h, timers)
  PROVE  Served(w)
<1>0. /\ h \in Handlers /\ fd \in [Handlers -> AllFds \cup {None}] /\ fd[h] # ListenFd
      /\ \A f \in AllFds : f \in Fds \/ f = ListenFd
  BY NamesDiffer DEF Serves, Kinds, ConnTypes
<1>1. PICK f \in Fds : /\ CreateFileEvent(w, f, {"R"}, h) /\ fd[h] \in {None, f}
                       /\ fd' = [fd EXCEPT ![h] = f]
  <2>1. ASSUME fd[h] = None, NEW f \in UnusedFds, fd' = [fd EXCEPT ![h] = f],
               CreateFileEvent(w, f, {"R"}, h)
        PROVE  \E g \in Fds : /\ CreateFileEvent(w, g, {"R"}, h) /\ fd[h] \in {None, g}
                              /\ fd' = [fd EXCEPT ![h] = g]
    BY <2>1 DEF UnusedFds
  <2>2. ASSUME fd[h] # None, fd' = fd, CreateFileEvent(w, fd[h], {"R"}, h)
        PROVE  \E g \in Fds : /\ CreateFileEvent(w, g, {"R"}, h) /\ fd[h] \in {None, g}
                              /\ fd' = [fd EXCEPT ![h] = g]
    <3>1. fd[h] \in Fds
      BY <1>0, <2>2
    <3>2. fd' = [fd EXCEPT ![h] = fd[h]]
      BY <1>0, <2>2
    <3> QED BY <2>2, <3>1, <3>2
  <2> QED BY <2>1, <2>2 DEF Register
<1>2. SetTimers(w, timers) /\ UNCHANGED <<queueVars, references, status, home, faults>>
  BY DEF Register
<1> QED BY <1>1, <1>2, CreateServes

(* the write callback is asked for                                         *)
LEMMA OpenWriteServes ==
  ASSUME Kinds, Leads, NEW w, NEW h, NEW timers, Serves(w, h, timers), OpenWrite(w, h, timers)
  PROVE  Served(w)
<1>0. /\ h \in Handlers /\ fd \in [Handlers -> AllFds \cup {None}] /\ fd[h] # ListenFd
      /\ \A f \in AllFds : f \in Fds \/ f = ListenFd
  BY NamesDiffer DEF Serves, Kinds, ConnTypes
<1>1. /\ fd[h] # None /\ CreateFileEvent(w, fd[h], {"W"}, h) /\ SetTimers(w, timers)
      /\ fd' = fd /\ UNCHANGED <<queueVars, references, status, home, faults>>
  BY DEF OpenWrite, connVars
<1>2. fd[h] \in Fds /\ fd' = [fd EXCEPT ![h] = fd[h]]
  BY <1>0, <1>1
<1> QED BY <1>1, <1>2, CreateServes

(* and given up.                                                           *)
LEMMA CloseWriteServes ==
  ASSUME Kinds, Leads, NEW w, NEW h, NEW timers, Serves(w, h, timers), CloseWrite(w, h, timers)
  PROVE  Served(w)
<1>1. /\ fd[h] # None /\ DeleteFileEvent(w, fd[h], {"W"}) /\ SetTimers(w, timers)
      /\ UNCHANGED <<queueVars, references, connVars, faults>>
  BY DEF CloseWrite
<1>2. w \in Workers /\ h \in Conns /\ fd[h] \in AllFds /\ {"W"} \in SUBSET {"R", "W"}
  BY <1>1, NamesDiffer DEF Serves, Kinds, ConnTypes
<1>3. TimersLead' /\ time_events' \in [Workers -> Seq(Conns)]
  BY <1>1, ServedTimers DEF connVars, InUse, Leads
<1>4. /\ TableTypes'
      /\ \A u \in Workers, g \in AllFds : /\ read_cb'[u][g] \in {read_cb[u][g], None}
                                          /\ write_cb'[u][g] \in {write_cb[u][g], None}
  BY <1>1, <1>2, DeleteKeeps DEF Kinds
<1>5. FilesLead'
  <2>1. /\ \A k \in Conns : Stays(k) /\ fd'[k] = fd[k] /\ k # None
        /\ fd'[h] = fd[h] /\ home'[h] = home[h] /\ status'[h] = status[h]
    BY <1>1, NamesDiffer DEF connVars, Stays, InUse
  <2>2. FilesOnlyOf(h)
    BY <1>2, <1>4, <2>1 DEF FilesOnlyOf, Leads, FilesLead, InUse
  <2> QED BY <1>2, <2>2, FilesKept DEF Leads
<1>6. Posts(w) /\ QueuesKept
  BY <1>1, ServedQuietly DEF connVars
<1>7. ConnTypes' /\ faults' \in 0..MaxFaults
  BY <1>1, <1>3 DEF Kinds, ConnTypes, AdminTypes, connVars
<1> QED BY <1>3, <1>4, <1>5, <1>6, <1>7 DEF Served
(* The socket of h is closed and its callbacks are taken away.             *)
LEMMA CloseSocketKeeps ==
  ASSUME Kinds, FilesLead, NEW w \in Workers, NEW h \in Conns \cup {Local},
         h \in Conns => w = home[h], CloseSocket(w, h)
  PROVE  /\ TableTypes'
         /\ fd' \in [Handlers -> AllFds \cup {None}] /\ fd'[Local] = None
         /\ \A k \in Conns : fd'[k] # ListenFd
         /\ \A k \in Handlers : k # h => fd'[k] = fd[k]
         /\ \A u \in Workers, g \in AllFds :
              /\ read_cb'[u][g] # h /\ write_cb'[u][g] # h
              /\ read_cb'[u][g] \in {read_cb[u][g], None}
              /\ write_cb'[u][g] \in {write_cb[u][g], None}
<1>1. /\ fd' = [fd EXCEPT ![h] = None]
      /\ IF fd[h] = None THEN UNCHANGED fileVars
                         ELSE DeleteFileEvent(w, fd[h], {"R", "W"})
  BY DEF CloseSocket
<1>2. /\ h \in Handlers /\ None \notin AllFds /\ ListenFd # None /\ h # None
      /\ Conns \subseteq Handlers /\ Local \in Handlers /\ h # Listener
  BY NamesDiffer
<1>3. /\ fd \in [Handlers -> AllFds \cup {None}] /\ fd[Local] = None
      /\ \A k \in Conns : fd[k] # ListenFd
      /\ TableTypes
  BY DEF Kinds, ConnTypes
<1>4. /\ fd' \in [Handlers -> AllFds \cup {None}] /\ fd'[Local] = None
      /\ \A k \in Conns : fd'[k] # ListenFd
      /\ \A k \in Handlers : k # h => fd'[k] = fd[k]
  BY <1>1, <1>2, <1>3
<1>5. ASSUME NEW u \in Workers, NEW g \in AllFds, read_cb[u][g] = h \/ write_cb[u][g] = h
      PROVE  u = w /\ g = fd[h]
  <2>1. read_cb[u][g] \in Callbacks /\ write_cb[u][g] \in Callbacks
    BY <1>3 DEF TableTypes
  <2>2. h \in Conns
    BY <1>2, <1>5, <2>1, NamesDiffer DEF Callbacks
  <2> QED BY <1>5, <2>2 DEF FilesLead
<1>6. CASE fd[h] = None
  <2>1. UNCHANGED <<mask, read_cb, write_cb, nevent>>
    BY <1>1, <1>6 DEF fileVars
  <2>2. TableTypes'
    BY <1>3, <2>1 DEF TableTypes
  <2> QED BY <1>2, <1>4, <1>5, <1>6, <2>1, <2>2
<1>7. CASE fd[h] # None
  <2>1. fd[h] \in AllFds /\ {"R", "W"} \in SUBSET {"R", "W"}
    BY <1>2, <1>3, <1>7
  <2>2. /\ TableTypes'
        /\ \A u \in Workers, g \in AllFds :
             /\ read_cb'[u][g] \in {read_cb[u][g], None}
             /\ write_cb'[u][g] \in {write_cb[u][g], None}
             /\ u = w /\ g = fd[h] /\ "R" \in {"R", "W"} => read_cb'[u][g] = None
             /\ u = w /\ g = fd[h] /\ "W" \in {"R", "W"} => write_cb'[u][g] = None
    BY <1>1, <1>3, <1>7, <2>1, DeleteKeeps
  <2>3. \A u \in Workers, g \in AllFds : read_cb'[u][g] # h /\ write_cb'[u][g] # h
    BY <1>2, <1>5, <2>2
  <2> QED BY <1>4, <2>2, <2>3
<1> QED BY <1>6, <1>7

(* No callback leads to a connection whose socket is closed.               *)
LEMMA ClosedFilesLead ==
  ASSUME Kinds, FilesLead, NEW w \in Workers, NEW h \in Conns, w = home[h], CloseSocket(w, h),
         \A k \in Conns \ {h} : Stays(k)
  PROVE  FilesLead'
<1>1. FilesOnlyOf(h)
  <2>1. /\ \A k \in Conns \ {h} : fd'[k] = fd[k]
        /\ \A u \in Workers, g \in AllFds : /\ read_cb'[u][g] # h /\ write_cb'[u][g] # h
                                            /\ read_cb'[u][g] \in {read_cb[u][g], None}
                                            /\ write_cb'[u][g] \in {write_cb[u][g], None}
    BY CloseSocketKeeps, NamesDiffer
  <2> QED BY <2>1, NamesDiffer DEF FilesOnlyOf
<1> QED BY <1>1, FilesKept

(* fault() closes the socket and may post an event or set a timer.         *)
LEMMA FaultServes ==
  ASSUME Kinds, Leads, NEW w, NEW h, NEW timers, Serves(w, h, timers), Fault(w, h, timers)
  PROVE  Served(w)
<1> DEFINE rest == Without(timers, h)
<1>0. /\ w \in Workers /\ h \in Conns /\ w = home[h] /\ w \in Actors
      /\ timers \in Seq(Conns) /\ Once(timers)
  BY NamesDiffer DEF Serves
<1>1. /\ status[h] = "open" /\ faults < MaxFaults /\ faults' = faults + 1
      /\ CloseSocket(w, h)
      /\ UNCHANGED <<references, status, home>>
  BY DEF Fault
<1>2. \/ SetTimers(w, rest) /\ UNCHANGED queueVars
      \/ SetTimers(w, rest) /\ Dispatch(w, w, Event("read", h))
      \/ /\ \E i \in 0..Len(rest) : SetTimers(w, Inserted(rest, i, h))
         /\ UNCHANGED queueVars
  BY DEF Fault
<1>3. rest \in Seq(Conns) /\ Once(rest) /\ \A k : Occurs(rest, k) <=> Occurs(timers, k) /\ k # h
  BY <1>0, WithoutOnce
<1> HIDE DEF rest
<1>4. \A k \in Conns : Stays(k)
  BY <1>1 DEF Stays, InUse
<1>5. PICK t \in Seq(Conns) : SetTimers(w, t) /\ Once(t)
                              /\ \A k \in Conns : Occurs(t, k) => Occurs(timers, k) \/ k = h
  <2>1. CASE SetTimers(w, rest)
    BY <1>3, <2>1
  <2>2. ASSUME NEW i \in 0..Len(rest), SetTimers(w, Inserted(rest, i, h))
        PROVE  \E t \in Seq(Conns) : SetTimers(w, t) /\ Once(t)
                 /\ \A k \in Conns : Occurs(t, k) => Occurs(timers, k) \/ k = h
    <3>1. ~Occurs(rest, h)
      BY <1>3
    <3>2. /\ Inserted(rest, i, h) \in Seq(Conns) /\ Once(Inserted(rest, i, h))
          /\ \A k : Occurs(Inserted(rest, i, h), k) <=> Occurs(rest, k) \/ k = h
      BY <1>0, <1>3, <3>1, InsertOnce
    <3> QED BY <1>3, <2>2, <3>2
  <2> QED BY <1>2, <2>1, <2>2
<1>6. TimersLead' /\ time_events' \in [Workers -> Seq(Conns)]
  <2>1. \A k \in Conns : /\ Occurs(t, k) => w = home'[k] /\ InUse(k)'
                         /\ InUse(k) /\ home[k] # w => InUse(k)' /\ home'[k] = home[k]
    BY <1>0, <1>1, <1>4, <1>5 DEF Serves, Leads, TimersLead, Stays, InUse
  <2> QED BY <1>0, <1>5, <2>1, TimersKept DEF Leads
<1>7. FilesLead'
  BY <1>0, <1>1, <1>4, ClosedFilesLead DEF Leads
<1>8. /\ TableTypes'
      /\ fd' \in [Handlers -> AllFds \cup {None}] /\ fd'[Local] = None
      /\ \A k \in Conns : fd'[k] # ListenFd
  BY <1>0, <1>1, CloseSocketKeeps DEF Leads
<1>9. ConnTypes' /\ faults' \in 0..MaxFaults
  BY <1>1, <1>6, <1>8, BoundsAreNat DEF Kinds, ConnTypes, AdminTypes
<1>10. Posts(w) /\ QueuesKept
  <2>1. CASE UNCHANGED queueVars
    BY <1>1, <2>1, ServedQuietly
  <2>2. CASE Dispatch(w, w, Event("read", h))
    <3>1. ReadPosted(w, h)
      BY <1>0, <1>1, <2>2 DEF ReadPosted, Unmoved
    <3>2. QueuesKept
      BY <1>0, <2>2, KindsOfEvents, DispatchKeepsTypes DEF QueuesKept, Kinds
    <3> QED BY <1>0, <3>1, <3>2 DEF Posts
  <2> QED BY <1>2, <2>1, <2>2
<1> QED BY <1>6, <1>7, <1>8, <1>9, <1>10 DEF Served

(* _stop() by actor a.                                                     *)
LEMMA StopPosts ==
  ASSUME Kinds, NEW a \in Actors, NEW h \in Conns \cup {Local},
         h \in Conns => status[h] = "open",
         Stop(a, h), UNCHANGED home
  PROVE  /\ Posts(a) /\ QueuesKept
         /\ status' \in [Handlers -> {"new", "incoming", "open", "closed", "freed"}]
         /\ references' \in [Workers -> Nat]
         /\ \A k \in Conns : Stays(k)
<1>1. /\ h \in Handlers /\ home[h] \in Workers /\ Conns \subseteq Handlers
      /\ status \in [Handlers -> {"new", "incoming", "open", "closed", "freed"}]
      /\ references \in [Workers -> Nat] /\ home' = home
  BY NamesDiffer DEF Kinds, ConnTypes
<1>2. CASE references[home[h]] = 0
  <2>1. UNCHANGED <<status, references, queueVars>>
    BY <1>2 DEF Stop
  <2> QED BY <1>1, <2>1, ServedQuietly DEF Stays, InUse
<1>3. CASE references[home[h]] # 0
  <2>1. /\ status' = [status EXCEPT ![h] = "closed"]
        /\ references' = [references EXCEPT ![home[h]] = @ - 1]
        /\ Dispatch(a, home[h], Event("clean", h))
    BY <1>3 DEF Stop
  <2>2. references' \in [Workers -> Nat]
    BY <1>1, <1>3, <2>1
  <2>3. status' \in [Handlers -> {"new", "incoming", "open", "closed", "freed"}]
    BY <1>1, <2>1
  <2>4. Posts(a)
    <3>1. CASE h \in Conns
      <4>1. CleanPosted(a, h)
        BY <1>1, <2>1, <3>1 DEF CleanPosted, Unmoved
      <4> QED BY <3>1, <4>1 DEF Posts
    <3>2. CASE h = Local
      <4>1. /\ Event("clean", h) \in GoodEvents /\ Event("clean", h).of \notin Conns
            /\ \A k \in Conns : Unmoved(k)
        BY <1>1, <2>1, <3>2, KindsOfEvents, NamesDiffer DEF Unmoved
      <4>2. ControlPosted(a)
        BY <1>1, <2>1, <4>1 DEF ControlPosted
      <4> QED BY <4>2 DEF Posts
    <3> QED BY <3>1, <3>2
  <2>5. QueuesKept
    BY <1>1, <2>1, KindsOfEvents, DispatchKeepsTypes DEF QueuesKept, Kinds
  <2>6. \A k \in Conns : Stays(k)
    BY <1>1, <2>1 DEF Stays, InUse
  <2> QED BY <2>2, <2>3, <2>4, <2>5, <2>6
<1> QED BY <1>2, <1>3

(* A connection that stops itself.                                         *)
LEMMA StopSelfServes ==
  ASSUME Kinds, Leads, NEW w, NEW h, NEW timers, Serves(w, h, timers), StopSelf(w, h, timers)
  PROVE  Served(w)
<1>1. /\ status[h] = "open" /\ Stop(w, h) /\ SetTimers(w, timers)
      /\ UNCHANGED <<fileVars, home, fd, faults>>
  BY DEF StopSelf
<1>2. w \in Actors /\ h \in Conns \cup {Local}
  BY NamesDiffer DEF Serves
<1>3. /\ Posts(w) /\ QueuesKept
      /\ status' \in [Handlers -> {"new", "incoming", "open", "closed", "freed"}]
      /\ references' \in [Workers -> Nat]
      /\ \A k \in Conns : Stays(k)
  BY <1>1, <1>2, StopPosts
<1>4. TimersLead' /\ time_events' \in [Workers -> Seq(Conns)]
  BY <1>1, <1>3, ServedTimers DEF Stays, Leads
<1>5. FilesLead'
  BY <1>1, <1>3, FilesSteady DEF fileVars, Leads
<1>6. TableTypes' /\ ConnTypes' /\ faults' \in 0..MaxFaults
  BY <1>1, <1>3, <1>4 DEF Kinds, TableTypes, ConnTypes, AdminTypes, fileVars
<1> QED BY <1>3, <1>4, <1>5, <1>6 DEF Served

(* All branches together.                                                  *)
LEMMA CallbackServes ==
  ASSUME Kinds, Leads, NEW w, NEW h, NEW timers, Serves(w, h, timers), Callback(w, h, timers)
  PROVE  Served(w)
<1>1. status[h] # "freed"
  BY DEF Serves, InUse
<1> QED BY <1>1, QuietServes, RegisterServes, OpenWriteServes, CloseWriteServes, FaultServes,
           StopSelfServes DEF Callback
-----------------------------------------------------------------------------
Lives == Kinds /\ Leads

(* The invariant holds at the start,                                       *)
LEMMA LivesInit == Init => Lives
<1> SUFFICES ASSUME Init PROVE Lives
  OBVIOUS
<1>1. QueueTypes
  BY EmptySeq DEF Init, QueueTypes
<1>2. TableTypes
  BY NamesDiffer, FdsAreNat DEF Init, TableTypes, Callbacks
<1>3. ConnTypes
  BY EmptySeq, NamesDiffer, WorkersAreNumbered DEF Init, ConnTypes
<1>4. LoopTypes
  BY EmptySeq DEF Init, LoopTypes
<1>5. AdminTypes
  BY BoundsAreNat DEF Init, AdminTypes
<1>6. TimersLead /\ FilesLead
  <2>1. \A k \in Conns : k # None
    BY NamesDiffer
  <2> QED BY <2>1 DEF Init, TimersLead, FilesLead, Once, Occurs
<1>7. EventsLead
  <2>1. ASSUME NEW w \in Workers, NEW A, NEW B
        PROVE  ~Queued(w, A) /\ Fenced(cur_process[w], external_events[w], A, B)
    BY EmptyHasNone DEF Init, Queued, Fenced
  <2>2. \A k \in Conns : status[k] # "closed"
    BY NamesDiffer DEF Init
  <2> QED BY <2>1, <2>2 DEF EventsLead, EventsLeadTo
<1> QED BY <1>1, <1>2, <1>3, <1>4, <1>5, <1>6, <1>7 DEF Lives, Kinds, Leads

(* A step that leaves timers and callbacks alone.                          *)
LEMMA RestLives ==
  ASSUME Lives, NEW a \in Actors, Posts(a), Kinds', UNCHANGED cur_process,
         UNCHANGED <<time_events, read_cb, write_cb>>,
         \A k \in Conns : Stays(k) /\ (InUse(k) => fd'[k] = fd[k])
  PROVE  Lives'
<1>1. EventsLead'
  BY PostsLeadOn DEF Lives, Leads, Taken
<1>2. TimersLead' /\ FilesLead'
  BY TimersSteady, FilesSteady DEF Lives, Leads
<1> QED BY <1>1, <1>2 DEF Lives, Leads

(* And one that does nothing to connections either.                        *)
LEMMA IdleLives ==
  ASSUME Lives, Kinds', UNCHANGED <<external_events, cur_process, connVars>>,
         UNCHANGED <<time_events, read_cb, write_cb>>
  PROVE  Lives'
<1>1. Posts(Admin) /\ Admin \in Actors
  BY NamesDiffer DEF Posts, NothingPosted, connVars
<1>2. \A k \in Conns : Stays(k) /\ (InUse(k) => fd'[k] = fd[k])
  BY DEF connVars, Stays, InUse
<1> QED BY <1>1, <1>2, RestLives

(* and is kept by each action: of anybody who writes to a notify pipe,     *)
LEMMA WakeupLives == ASSUME Lives, NEW a \in Actors, Wakeup(a) PROVE Lives'
<1>1. UNCHANGED <<external_events, external_num_events, fileVars, time_events, loopVars,
                  references, connVars, adminVars, calls, faults>>
  BY DEF Wakeup
<1>2. QueueTypes'
  BY <1>1 DEF Wakeup, Lives, Kinds, QueueTypes, loopVars
<1>3. Kinds'
  BY <1>1, <1>2
     DEF Lives, Kinds, TableTypes, ConnTypes, LoopTypes, AdminTypes, fileVars, connVars,
         loopVars, adminVars
<1> QED BY <1>1, <1>3, IdleLives DEF fileVars, loopVars

(* of a worker that starts its round                                       *)
LEMMA StartRoundLives == ASSUME Lives, NEW w \in Workers, StartRound(w) PROVE Lives'
<1>1. UNCHANGED <<queueVars, fileVars, time_events, fired_events, cur_process, references,
                  connVars, adminVars, calls, faults>>
  BY DEF StartRound
<1>2. LoopTypes'
  BY <1>1 DEF StartRound, Lives, Kinds, LoopTypes
<1>3. Kinds'
  BY <1>1, <1>2
     DEF Lives, Kinds, QueueTypes, TableTypes, ConnTypes, AdminTypes, fileVars, connVars,
         queueVars, adminVars
<1> QED BY <1>1, <1>3, IdleLives DEF fileVars, queueVars

(* or ends,                                                                *)
LEMMA ExitLives == ASSUME Lives, NEW w \in Workers, Exit(w) PROVE Lives'
<1>1. UNCHANGED <<queueVars, fileVars, time_events, blocking, trigger_time, fired_events,
                  cur_process, references, connVars, admin, todo, pending, pool_spin,
                  calls, faults>>
  BY DEF Exit
<1>2. LoopTypes' /\ AdminTypes'
  BY <1>1 DEF Exit, Lives, Kinds, LoopTypes, AdminTypes
<1>3. Kinds'
  BY <1>1, <1>2
     DEF Lives, Kinds, QueueTypes, TableTypes, ConnTypes, fileVars, connVars, queueVars
<1> QED BY <1>1, <1>3, IdleLives DEF fileVars, queueVars

(* What event_wait() hands back.                                           *)
FiredRecords == [fd : AllFds \cup {NotifyFd}, ready : SUBSET {"R", "W"}]
(* What event_wait() returns has the type of fired_events.                 *)
LEMMA FiresAreFired ==
  ASSUME NEW w
  PROVE  /\ SocketFires(w) \subseteq Seq(FiredRecords)
         /\ ListenFires(w) \subseteq Seq(FiredRecords)
         /\ NotifyFires(w) \subseteq Seq(FiredRecords)
<1>1. /\ ReadyFds(w) \subseteq FiredRecords
      /\ Fired(ListenFd, {"R"}) \in FiredRecords /\ Fired(NotifyFd, {"R"}) \in FiredRecords
  BY NamesDiffer DEF ReadyFds, Firing, Fired, FiredRecords
<1>2. << >> \in Seq(FiredRecords) /\ \A x \in FiredRecords : <<x>> \in Seq(FiredRecords)
  BY EmptySeq
<1> HIDE DEF FiredRecords
<1>3. SocketFires(w) \subseteq Seq(FiredRecords)
  BY <1>1, <1>2 DEF SocketFires
<1>4. ListenFires(w) \subseteq Seq(FiredRecords)
  BY <1>1, <1>2 DEF ListenFires
<1>5. NotifyFires(w) \subseteq Seq(FiredRecords)
  BY <1>1, <1>2 DEF NotifyFires
<1> QED BY <1>3, <1>4, <1>5

(* of a worker that waits                                                  *)
LEMMA EventWaitLives == ASSUME Lives, NEW w \in Workers, EventWait(w) PROVE Lives'
<1>1. UNCHANGED <<queueVars, fileVars, time_events, trigger_time, cur_process, references,
                  connVars, adminVars, calls, faults>>
  BY DEF EventWait
<1>2. PICK s \in SocketFires(w), l \in ListenFires(w), n \in NotifyFires(w) :
        \E order \in {n \o l \o s, l \o s \o n} :
          fired_events' = [fired_events EXCEPT ![w] = order]
  BY DEF EventWait
<1>3. s \in Seq(FiredRecords) /\ l \in Seq(FiredRecords) /\ n \in Seq(FiredRecords)
  BY FiresAreFired
<1>4. n \o l \o s \in Seq(FiredRecords) /\ l \o s \o n \in Seq(FiredRecords)
  <2>1. n \o l \in Seq(FiredRecords) /\ l \o s \in Seq(FiredRecords)
    BY <1>3, ConcatProperties
  <2> QED BY <1>3, <2>1, ConcatProperties
<1>5. PICK order \in Seq(FiredRecords) : fired_events' = [fired_events EXCEPT ![w] = order]
  BY <1>2, <1>4
<1>6. fired_events \in [Workers -> Seq(FiredRecords)]
  BY DEF Lives, Kinds, LoopTypes, FiredRecords
<1>7. fired_events' \in [Workers -> Seq(FiredRecords)]
  BY <1>5, <1>6
<1>8. LoopTypes'
  BY <1>1, <1>7 DEF EventWait, Lives, Kinds, LoopTypes, FiredRecords
<1>9. Kinds'
  BY <1>1, <1>8
     DEF Lives, Kinds, QueueTypes, TableTypes, ConnTypes, AdminTypes, fileVars, connVars,
         queueVars, adminVars
<1> QED BY <1>1, <1>9, IdleLives DEF fileVars, queueVars

(* or empties its notify pipe.                                             *)
LEMMA DrainNotifyLives == ASSUME Lives, NEW w \in Workers, DrainNotify(w) PROVE Lives'
<1>1. /\ notify' = [notify EXCEPT ![w] = FALSE]
      /\ fired_events' = [fired_events EXCEPT ![w] = Tail(@)] /\ fired_events[w] # << >>
      /\ UNCHANGED <<external_events, external_num_events, owed, fileVars, time_events, at,
                     blocking, trigger_time, cur_process, references, connVars, adminVars,
                     calls, faults>>
  BY DEF DrainNotify
<1>2. QueueTypes'
  BY <1>1 DEF Lives, Kinds, QueueTypes
<1>3. LoopTypes'
  <2>1. fired_events \in [Workers -> Seq(FiredRecords)]
    BY DEF Lives, Kinds, LoopTypes, FiredRecords
  <2>2. Tail(fired_events[w]) \in Seq(FiredRecords)
    BY <1>1, <2>1, HeadTailProperties
  <2>3. fired_events' \in [Workers -> Seq(FiredRecords)]
    BY <1>1, <2>1, <2>2
  <2> QED BY <1>1, <2>3 DEF Lives, Kinds, LoopTypes, FiredRecords
<1>4. Kinds'
  BY <1>1, <1>2, <1>3
     DEF Lives, Kinds, TableTypes, ConnTypes, AdminTypes, fileVars, connVars, adminVars
<1> QED BY <1>1, <1>4, IdleLives DEF fileVars

(* The queue becomes the round: nothing was left of the last one.          *)
LEMMA TakeExternalLives ==
  ASSUME Lives, Loop, NEW w \in Workers, TakeExternal(w) PROVE Lives'
<1>1. /\ cur_process[w] = << >> /\ trigger_time' = [trigger_time EXCEPT ![w] = FALSE]
      /\ UNCHANGED <<notify, owed, fileVars, time_events, blocking, fired_events, references,
                     connVars, adminVars, calls, faults>>
  BY DEF TakeExternal, Loop, RunsOnlyTaken
<1>2. CASE external_num_events[w] = 0
  <2>1. /\ at' = [at EXCEPT ![w] = "loop"]
        /\ UNCHANGED <<cur_process, external_events, external_num_events>>
    BY <1>2 DEF TakeExternal
  <2>2. Kinds'
    BY <1>1, <2>1
       DEF Lives, Kinds, QueueTypes, TableTypes, ConnTypes, LoopTypes, AdminTypes,
           fileVars, connVars, adminVars
  <2> QED BY <1>1, <2>1, <2>2, IdleLives DEF fileVars
<1>3. CASE external_num_events[w] # 0
  <2>1. /\ at' = [at EXCEPT ![w] = "run"]
        /\ cur_process' = [cur_process EXCEPT ![w] = external_events[w]]
        /\ external_events' = [external_events EXCEPT ![w] = << >>]
        /\ external_num_events' = [external_num_events EXCEPT ![w] = 0]
    BY <1>3 DEF TakeExternal
  <2>2. QueueTypes'
    BY <1>1, <2>1, EmptySeq DEF Lives, Kinds, QueueTypes
  <2>3. Kinds'
    BY <1>1, <2>1, <2>2
       DEF Lives, Kinds, TableTypes, ConnTypes, LoopTypes, AdminTypes, fileVars, connVars,
           adminVars
  <2>4. ASSUME NEW v \in Workers, NEW A
        PROVE  (In(cur_process'[v], A) \/ In(external_events'[v], A)) <=> Queued(v, A)
    <3>1. CASE v = w
      BY <1>1, <2>1, <3>1, EmptyHasNone DEF Queued, Lives, Kinds, QueueTypes
    <3>2. CASE v # w
      BY <2>1, <3>2 DEF Queued, Lives, Kinds, QueueTypes
    <3> QED BY <3>1, <3>2
  <2>5. ASSUME NEW v \in Workers, NEW A, NEW B,
               Fenced(cur_process[v], external_events[v], A, B)
        PROVE  Fenced(cur_process'[v], external_events'[v], A, B)
    <3>1. CASE v = w
      BY <1>1, <2>1, <2>5, <3>1, EmptyHasNone DEF Fenced, Lives, Kinds, QueueTypes
    <3>2. CASE v # w
      BY <2>1, <2>5, <3>2 DEF Lives, Kinds, QueueTypes
    <3> QED BY <3>1, <3>2
  <2>6. EventsLead'
    <3> SUFFICES ASSUME NEW k \in Conns PROVE EventsLeadTo(k)'
      BY DEF EventsLead
    <3>1. EventsLeadTo(k) /\ k \in Handlers /\ home[k] \in Workers
      BY NamesDiffer DEF Lives, Kinds, ConnTypes, Leads, EventsLead
    <3>2. UNCHANGED <<status, home>>
      BY <1>1 DEF connVars
    <3>3. ASSUME NEW v \in Workers
          PROVE  /\ Queued(v, Of(k))' <=> Queued(v, Of(k))
                 /\ Queued(v, Clean(k))' <=> Queued(v, Clean(k))
                 /\ Fenced(cur_process[v], external_events[v], Clean(k), Of(k))'
      <4>1. Fenced(cur_process[v], external_events[v], Clean(k), Of(k))
        BY <3>1 DEF EventsLeadTo
      <4>2. /\ In(cur_process'[v], Of(k)) \/ In(external_events'[v], Of(k))
                 <=> Queued(v, Of(k))
            /\ In(cur_process'[v], Clean(k)) \/ In(external_events'[v], Clean(k))
                 <=> Queued(v, Clean(k))
            /\ Fenced(cur_process'[v], external_events'[v], Clean(k), Of(k))
        BY <2>4, <2>5, <4>1
      <4> QED BY <4>2 DEF Queued, Of, Clean
    <3> QED BY <3>1, <3>2, <3>3 DEF EventsLeadTo, InUse
  <2>7. TimersLead' /\ FilesLead'
    <3>1. \A k \in Conns : Stays(k) /\ (InUse(k) => fd'[k] = fd[k])
      BY <1>1 DEF connVars, Stays, InUse
    <3> QED BY <1>1, <3>1, TimersSteady, FilesSteady DEF Lives, Leads, fileVars
  <2> QED BY <2>3, <2>6, <2>7 DEF Lives, Leads
<1> QED BY <1>2, <1>3
-----------------------------------------------------------------------------
(* The callbacks of a round.                                               *)
LEMMA ServedLives ==
  ASSUME Lives, NEW w \in Workers, Served(w), LoopTypes', AdminTypes',
         cur_process' \in [Workers -> Seq(GoodEvents)],
         \A k \in Conns, u \in Workers : Taken(u, Clean(k))
  PROVE  Lives'
<1>1. Kinds'
  BY DEF Served, QueuesKept, Kinds
<1>2. EventsLead'
  BY <1>1, NamesDiffer, PostsLeadOn DEF Served, Lives, Leads
<1> QED BY <1>1, <1>2 DEF Served, Lives, Leads

(* The timers of a worker satisfy what a callback is given.                *)
LEMMA ServesNow ==
  ASSUME Lives, NEW w \in Workers, NEW h \in Conns, w = home[h], InUse(h)
  PROVE  Serves(w, h, time_events[w])
<1>1. time_events[w] \in Seq(Conns) /\ Once(time_events[w])
  BY DEF Lives, Kinds, ConnTypes, Leads, TimersLead
<1> QED BY <1>1 DEF Serves

(* The callbacks of a fired descriptor                                     *)
LEMMA FireSocketLives == ASSUME Lives, NEW w \in Workers, FireSocket(w) PROVE Lives'
<1> DEFINE x == Head(fired_events[w])
           kind == IF "R" \in x.ready THEN "R" ELSE "W"
           cb == IF kind = "R" THEN read_cb[w][x.fd] ELSE write_cb[w][x.fd]
           rest == IF x.ready = {kind} THEN Tail(fired_events[w])
                   ELSE <<Fired(x.fd, x.ready \ {kind})>> \o Tail(fired_events[w])
<1>1. /\ fired_events[w] # << >> /\ x.fd \in Fds
      /\ fired_events' = [fired_events EXCEPT ![w] = rest]
      /\ UNCHANGED <<at, blocking, trigger_time, cur_process, adminVars, calls>>
      /\ \/ UNCHANGED <<queueVars, fileVars, time_events, references, connVars, faults>>
         \/ cb # None /\ Callback(w, cb, time_events[w])
  BY DEF FireSocket
<1>2. LoopTypes'
  <2>1. fired_events \in [Workers -> Seq(FiredRecords)]
    BY DEF Lives, Kinds, LoopTypes, FiredRecords
  <2>2. Tail(fired_events[w]) \in Seq(FiredRecords) /\ x \in FiredRecords
    BY <1>1, <2>1, HeadTailProperties
  <2>3. Fired(x.fd, x.ready \ {kind}) \in FiredRecords
    BY <2>2 DEF FiredRecords, Fired
  <2> DEFINE y == Fired(x.fd, x.ready \ {kind})
  <2>4. <<y>> \in Seq(FiredRecords)
    BY <2>3
  <2> HIDE DEF y
  <2>5. <<y>> \o Tail(fired_events[w]) \in Seq(FiredRecords)
    BY <2>2, <2>4, ConcatProperties
  <2>6. rest \in Seq(FiredRecords)
    BY <2>2, <2>5 DEF y
  <2> HIDE DEF rest
  <2>7. fired_events' \in [Workers -> Seq(FiredRecords)]
    BY <1>1, <2>1, <2>6
  <2> QED BY <1>1, <2>7 DEF Lives, Kinds, LoopTypes, FiredRecords
<1>3. /\ x.fd \in AllFds /\ cb \in Callbacks /\ cb # Listener
      /\ cb = read_cb[w][x.fd] \/ cb = write_cb[w][x.fd]
  <2>1. x.fd \in Fds /\ x.fd \in AllFds
    BY <1>1, NamesDiffer
  <2> DEFINE f == x.fd
  <2> HIDE DEF x
  <2>2. /\ read_cb[w][f] \in Callbacks /\ read_cb[w][f] # Listener
        /\ write_cb[w][f] \in Callbacks /\ write_cb[w][f] # Listener
    <3> HIDE DEF f
    <3> QED BY <2>1 DEF f, Lives, Kinds, TableTypes
  <2> HIDE DEF kind
  <2> QED BY <2>1, <2>2
<1> HIDE DEF cb, rest, kind, x
<1>4. CASE UNCHANGED <<queueVars, fileVars, time_events, references, connVars, faults>>
  <2>1. Kinds'
    BY <1>1, <1>2, <1>4
       DEF Lives, Kinds, QueueTypes, TableTypes, ConnTypes, AdminTypes, fileVars,
           connVars, queueVars, adminVars
  <2> QED BY <1>1, <1>4, <2>1, IdleLives DEF fileVars, queueVars
<1>5. CASE cb # None /\ Callback(w, cb, time_events[w])
  <2>1. cb \in Conns
    BY <1>3, <1>5 DEF Callbacks
  <2>2. w = home[cb] /\ InUse(cb)
    BY <1>3, <2>1 DEF Lives, Leads, FilesLead
  <2>3. Serves(w, cb, time_events[w])
    BY <2>1, <2>2, ServesNow
  <2>4. Served(w)
    BY <1>5, <2>3, CallbackServes DEF Lives
  <2>5. AdminTypes'
    BY <1>1, <2>4 DEF Served, Lives, Kinds, AdminTypes, adminVars
  <2>6. /\ cur_process' \in [Workers -> Seq(GoodEvents)]
        /\ \A k \in Conns, u \in Workers : Taken(u, Clean(k))
    BY <1>1 DEF Lives, Kinds, QueueTypes, Taken
  <2> QED BY <1>2, <2>4, <2>5, <2>6, ServedLives
<1> QED BY <1>1, <1>4, <1>5

(* and of a timer.                                                         *)
LEMMA RunTimerLives == ASSUME Lives, NEW w \in Workers, RunTimer(w) PROVE Lives'
<1> DEFINE h == Head(time_events[w])
           timers == Tail(time_events[w])
<1>1. /\ time_events[w] # << >> /\ Callback(w, h, timers)
      /\ UNCHANGED <<loopVars, adminVars, calls>>
  BY DEF RunTimer
<1>2. time_events[w] \in Seq(Conns) /\ Once(time_events[w])
  BY DEF Lives, Kinds, ConnTypes, Leads, TimersLead
<1>3. /\ timers \in Seq(Conns) /\ h \in Conns /\ Once(timers)
      /\ \A k : Occurs(timers, k) <=> Occurs(time_events[w], k) /\ k # h
  BY <1>1, <1>2, TailOnce
<1>4. Occurs(time_events[w], h)
  <2>1. 1 \in DOMAIN time_events[w] /\ time_events[w][1] = h
    BY <1>1, <1>2, HeadTailProperties, LenProperties, EmptySeq
  <2> QED BY <2>1 DEF Occurs
<1> HIDE DEF h, timers
<1>5. w = home[h] /\ InUse(h)
  BY <1>3, <1>4 DEF Lives, Leads, TimersLead
<1>6. Serves(w, h, timers)
  BY <1>3, <1>5 DEF Serves
<1>7. Served(w)
  BY <1>1, <1>6, CallbackServes DEF Lives
<1>8. LoopTypes' /\ AdminTypes'
  BY <1>1, <1>7 DEF Served, Lives, Kinds, LoopTypes, AdminTypes, loopVars, adminVars
<1>9. /\ cur_process' \in [Workers -> Seq(GoodEvents)]
      /\ \A k \in Conns, u \in Workers : Taken(u, Clean(k))
  BY <1>1 DEF Lives, Kinds, QueueTypes, Taken, loopVars
<1> QED BY <1>7, <1>8, <1>9, ServedLives
-----------------------------------------------------------------------------
(* External events.                                                        *)
LEMMA GoneLeads ==
  ASSUME NEW k \in Conns, status'[k] = "freed",
         \A v \in Workers : ~In(cur_process'[v], Of(k)) /\ ~In(external_events'[v], Of(k))
  PROVE  EventsLeadTo(k)'
<1>1. Clean(k) \subseteq Of(k)
  BY KindsOfEvents
<1>2. ASSUME NEW v \in Workers
      PROVE  /\ ~In(cur_process'[v], Clean(k)) /\ ~In(external_events'[v], Clean(k))
             /\ Fenced(cur_process'[v], external_events'[v], Clean(k), Of(k))
  BY <1>1 DEF In, Fenced, NoneAfter
<1>3. ASSUME NEW v \in Workers
      PROVE  /\ ~Queued(v, Of(k))' /\ ~Queued(v, Clean(k))'
             /\ Fenced(cur_process[v], external_events[v], Clean(k), Of(k))'
  BY <1>2 DEF Queued, Of, Clean
<1> QED BY <1>3 DEF EventsLeadTo

(* What a worker takes from its round.                                     *)
LEMMA RunExternalTypes ==
  ASSUME Lives, NEW w \in Workers, RunExternal(w)
  PROVE  /\ cur_process' \in [Workers -> Seq(GoodEvents)]
         /\ LoopTypes' /\ Head(cur_process[w]) \in GoodEvents
         /\ In(cur_process[w], {Head(cur_process[w])})
         /\ cur_process[w] \in Seq(GoodEvents) /\ cur_process[w] # << >>
         /\ cur_process'[w] = Tail(cur_process[w])
         /\ \A u \in Workers : u # w => cur_process'[u] = cur_process[u]
         /\ \A A : Head(cur_process[w]) \notin A => \A u \in Workers : Taken(u, A)
<1>1. /\ cur_process[w] # << >> /\ cur_process' = [cur_process EXCEPT ![w] = Tail(@)]
      /\ at' = [at EXCEPT ![w] = IF Len(cur_process[w]) = 1 THEN "loop" ELSE @]
      /\ UNCHANGED <<blocking, trigger_time, fired_events>>
  BY DEF RunExternal
<1>2. cur_process \in [Workers -> Seq(GoodEvents)]
  BY DEF Lives, Kinds, QueueTypes
<1>3. cur_process[w] \in Seq(GoodEvents)
  BY <1>2
<1>4. /\ Tail(cur_process[w]) \in Seq(GoodEvents) /\ Head(cur_process[w]) \in GoodEvents
      /\ Head(cur_process[w]) = cur_process[w][1] /\ 1 \in DOMAIN cur_process[w]
  BY <1>1, <1>3, HeadTailProperties, LenProperties, EmptySeq
<1>5. cur_process' \in [Workers -> Seq(GoodEvents)]
  BY <1>1, <1>2, <1>4
<1>6. LoopTypes'
  BY <1>1 DEF Lives, Kinds, LoopTypes
<1>7. /\ cur_process'[w] = Tail(cur_process[w])
      /\ \A u \in Workers : u # w => cur_process'[u] = cur_process[u]
  BY <1>1, <1>2
<1>8. In(cur_process[w], {Head(cur_process[w])})
  BY <1>4 DEF In
<1>9. \A A : Head(cur_process[w]) \notin A => \A u \in Workers : Taken(u, A)
  BY <1>1, <1>7 DEF Taken
<1> QED BY <1>1, <1>3, <1>4, <1>5, <1>6, <1>7, <1>8, <1>9

(* A larger set has members wherever a smaller one has.                    *)
LEMMA InMore == ASSUME NEW s, NEW A, NEW B, In(s, A), A \subseteq B PROVE In(s, B)
BY DEF In

(* process() for an event of a connection.                                 *)
LEMMA RunReadLives ==
  ASSUME Lives, NEW w \in Workers, RunExternal(w), Head(cur_process[w]).kind = "read"
  PROVE  Lives'
<1> DEFINE e == Head(cur_process[w])
<1>1. /\ Callback(w, e.of, time_events[w])
      /\ UNCHANGED <<pending, admin, todo, pool_spin, done, calls>>
  BY DEF RunExternal
<1>2. /\ cur_process' \in [Workers -> Seq(GoodEvents)] /\ LoopTypes' /\ e \in GoodEvents
      /\ In(cur_process[w], {e})
      /\ \A A : e \notin A => \A u \in Workers : Taken(u, A)
  BY RunExternalTypes
<1> DEFINE h == e.of
<1>3. h \in Conns
  BY <1>2 DEF GoodEvents
<1>4. e \in Of(h) /\ \A k \in Conns : e \notin Clean(k)
  BY <1>2, <1>3, KindsOfEvents
<1> HIDE DEF e
<1>5. Queued(w, Of(h))
  BY <1>2, <1>4, InMore DEF Queued
<1> HIDE DEF h
<1>6. w = home[h] /\ InUse(h)
  BY <1>3, <1>5 DEF Lives, Leads, EventsLead, EventsLeadTo
<1>7. Serves(w, h, time_events[w])
  BY <1>3, <1>6, ServesNow
<1>8. Served(w)
  BY <1>1, <1>7, CallbackServes DEF Lives, h
<1>9. AdminTypes'
  BY <1>1, <1>8 DEF Served, Lives, Kinds, AdminTypes
<1>10. \A k \in Conns, u \in Workers : Taken(u, Clean(k))
  BY <1>2, <1>4
<1> QED BY <1>2, <1>8, <1>9, <1>10, ServedLives
(* cleanup(): the last event of a connection.                              *)
LEMMA RunCleanLives ==
  ASSUME Lives, NEW w \in Workers, RunExternal(w), Head(cur_process[w]).kind = "clean"
  PROVE  Lives'
<1> DEFINE e == Head(cur_process[w])
           h == e.of
           timers == Without(time_events[w], h)
<1>1. /\ CloseSocket(w, h) /\ SetTimers(w, timers)
      /\ status' = [status EXCEPT ![h] = "freed"]
      /\ UNCHANGED <<queueVars, references, home, faults>>
      /\ UNCHANGED <<pending, admin, todo, pool_spin, done, calls>>
  BY DEF RunExternal, Cleanup, ShutdownSocket
<1>2. /\ cur_process' \in [Workers -> Seq(GoodEvents)] /\ LoopTypes' /\ e \in GoodEvents
      /\ In(cur_process[w], {e})
      /\ cur_process[w] \in Seq(GoodEvents) /\ cur_process[w] # << >>
      /\ cur_process'[w] = Tail(cur_process[w])
      /\ \A u \in Workers : u # w => cur_process'[u] = cur_process[u]
      /\ \A A : e \notin A => \A u \in Workers : Taken(u, A)
  BY RunExternalTypes
<1>3. h \in Conns \cup {Local} /\ h \in Handlers
  BY <1>2, NamesDiffer DEF GoodEvents
<1>4. \A k \in Conns : e \in Clean(k) <=> h = k
  BY <1>2, KindsOfEvents
<1> HIDE DEF e
<1>5. ASSUME h \in Conns
      PROVE  /\ w = home[h] /\ status[h] = "closed"
             /\ \A u \in Workers : /\ ~In(cur_process'[u], Of(h))
                                   /\ ~In(external_events'[u], Of(h))
  <2>1. Queued(w, Clean(h)) /\ In(cur_process[w], Clean(h))
    BY <1>2, <1>4, <1>5, InMore DEF Queued
  <2>2. EventsLeadTo(h) /\ Clean(h) \subseteq Of(h)
    BY <1>5, KindsOfEvents DEF Lives, Leads, EventsLead
  <2>3. w = home[h] /\ status[h] = "closed"
    <3>1. Queued(w, Of(h))
      BY <2>1, <2>2, InMore DEF Queued
    <3> QED BY <2>1, <2>2, <3>1 DEF EventsLeadTo
  <2>4. external_events' = external_events
    BY <1>1 DEF queueVars
  <2>5. ASSUME NEW u \in Workers
        PROVE  ~In(cur_process'[u], Of(h)) /\ ~In(external_events'[u], Of(h))
    <3>1. CASE u # w
      <4>1. ~Queued(u, Of(h))
        BY <2>2, <2>3, <3>1 DEF EventsLeadTo
      <4> QED BY <1>2, <2>4, <3>1, <4>1 DEF Queued
    <3>2. CASE u = w
      <4>1. Fenced(cur_process[w], external_events[w], Clean(h), Of(h))
        BY <2>2 DEF EventsLeadTo
      <4>2. ~In(external_events[w], Of(h)) /\ NoneAfter(cur_process[w], Clean(h), Of(h))
        BY <2>1, <4>1 DEF Fenced
      <4>3. ~In(Tail(cur_process[w]), Of(h))
        BY <1>2, <1>4, <1>5, <4>2, TailIn DEF e
      <4> QED BY <1>2, <2>4, <3>2, <4>2, <4>3
    <3> QED BY <3>1, <3>2
  <2> QED BY <2>3, <2>5
<1>6. /\ status' \in [Handlers -> {"new", "incoming", "open", "closed", "freed"}]
      /\ status'[h] = "freed" /\ \A k \in Handlers : k # h => status'[k] = status[k]
      /\ home' = home
  BY <1>1, <1>3 DEF Lives, Kinds, ConnTypes
<1>7. \A k \in Conns : k # h => Stays(k) /\ Unmoved(k)
  BY <1>6, NamesDiffer DEF Stays, Unmoved, InUse
<1>8. /\ timers \in Seq(Conns) /\ Once(timers)
      /\ \A k : Occurs(timers, k) <=> Occurs(time_events[w], k) /\ k # h
  <2>1. time_events[w] \in Seq(Conns) /\ Once(time_events[w])
    BY DEF Lives, Kinds, ConnTypes, Leads, TimersLead
  <2> QED BY <2>1, WithoutOnce
<1> HIDE DEF timers
<1>9. TimersLead' /\ time_events' \in [Workers -> Seq(Conns)]
  <2>1. \A k \in Conns : /\ Occurs(timers, k) => w = home'[k] /\ InUse(k)'
                         /\ InUse(k) /\ home[k] # w => InUse(k)' /\ home'[k] = home[k]
    BY <1>5, <1>7, <1>8 DEF Stays, Lives, Leads, TimersLead
  <2> QED BY <1>1, <1>8, <2>1, TimersKept DEF Lives, Leads
<1>10. /\ TableTypes'
       /\ fd' \in [Handlers -> AllFds \cup {None}] /\ fd'[Local] = None
       /\ \A k \in Conns : fd'[k] # ListenFd
  BY <1>1, <1>3, <1>5, CloseSocketKeeps DEF Lives, Leads
<1>11. Kinds'
  <2>1. QueueTypes'
    BY <1>1, <1>2 DEF Lives, Kinds, QueueTypes, queueVars
  <2>2. ConnTypes'
    BY <1>1, <1>6, <1>9, <1>10 DEF Lives, Kinds, ConnTypes
  <2>3. AdminTypes'
    BY <1>1 DEF Lives, Kinds, AdminTypes
  <2> QED BY <1>2, <1>10, <2>1, <2>2, <2>3 DEF Kinds
<1>12. FilesLead'
  <2>1. CASE h \in Conns
    BY <1>1, <1>5, <1>7, <2>1, ClosedFilesLead DEF Lives, Leads
  <2>2. CASE h = Local
    <3>1. fd[h] = None /\ h \notin Conns /\ fd \in [Handlers -> AllFds \cup {None}]
      BY <2>2, NamesDiffer DEF Lives, Kinds, ConnTypes
    <3>2. UNCHANGED <<read_cb, write_cb>> /\ fd' = [fd EXCEPT ![h] = None]
      BY <1>1, <3>1 DEF CloseSocket, fileVars
    <3>3. \A k \in Conns : Stays(k) /\ (InUse(k) => fd'[k] = fd[k])
      BY <1>7, <3>1, <3>2, NamesDiffer
    <3> QED BY <3>2, <3>3, FilesSteady DEF Lives, Leads
  <2> QED BY <1>3, <2>1, <2>2
<1>13. EventsLead'
  <2> SUFFICES ASSUME NEW k \in Conns PROVE EventsLeadTo(k)'
    BY DEF EventsLead
  <2>1. CASE k = h
    BY <1>5, <1>6, <2>1, GoneLeads
  <2>2. CASE k # h
    <3> DEFINE idle == Event("drain", Local)
    <3>1. idle \in GoodEvents /\ idle \notin Of(k) /\ idle \notin Clean(k)
      BY NamesDiffer, KindsOfEvents
    <3> HIDE DEF idle
    <3>2. LeadsOn(k, idle)
      BY <1>1, <1>2, <1>4, <1>7, <2>2, <3>1 DEF LeadsOn, Unmoved, queueVars
    <3> QED BY <1>11, <3>1, <3>2, EventsKept DEF Lives, Leads, EventsLead
  <2> QED BY <2>1, <2>2
<1> QED BY <1>9, <1>11, <1>12, <1>13 DEF Lives, Leads

(* Processor::start(), Processor::stop() and the event drain() waits for.  *)
LEMMA RunControlLives ==
  ASSUME Lives, NEW w \in Workers, RunExternal(w),
         Head(cur_process[w]).kind \in {"listen", "unlisten", "drain"}
  PROVE  Lives'
<1> DEFINE e == Head(cur_process[w])
<1>1. /\ pending' = pending \ {w}
      /\ UNCHANGED <<queueVars, time_events, references, connVars, faults>>
      /\ UNCHANGED <<admin, todo, pool_spin, done, calls>>
      /\ \/ CreateFileEvent(w, ListenFd, {"R"}, Listener)
         \/ DeleteFileEvent(w, ListenFd, {"R"})
         \/ UNCHANGED fileVars
  BY DEF RunExternal
<1>2. /\ cur_process' \in [Workers -> Seq(GoodEvents)] /\ LoopTypes' /\ e \in GoodEvents
      /\ \A A : e \notin A => \A u \in Workers : Taken(u, A)
  BY RunExternalTypes
<1>3. \A k \in Conns : e \notin Clean(k)
  BY <1>2, KindsOfEvents
<1> HIDE DEF e
<1>4. /\ TableTypes'
      /\ \A u \in Workers, g \in AllFds :
           /\ read_cb'[u][g] \in {read_cb[u][g], Listener, None}
           /\ write_cb'[u][g] \in {write_cb[u][g], Listener, None}
  <2>1. ListenFd \in AllFds /\ Listener \in Conns \cup {Listener} /\ TableTypes
    BY NamesDiffer DEF Lives, Kinds
  <2>2. CASE CreateFileEvent(w, ListenFd, {"R"}, Listener)
    <3>1. /\ TableTypes'
          /\ \A u \in Workers, g \in AllFds :
               /\ read_cb'[u][g] = read_cb[u][g]
                    \/ (u = w /\ g = ListenFd /\ read_cb'[u][g] = Listener)
               /\ write_cb'[u][g] = write_cb[u][g]
                    \/ (u = w /\ g = ListenFd /\ write_cb'[u][g] = Listener)
      BY <2>1, <2>2, CreateKeeps
    <3> QED BY <3>1
  <2>3. CASE DeleteFileEvent(w, ListenFd, {"R"})
    <3>1. {"R"} \in SUBSET {"R", "W"}
      OBVIOUS
    <3> QED BY <2>1, <2>3, <3>1, DeleteKeeps
  <2>4. CASE UNCHANGED fileVars
    BY <2>1, <2>4 DEF fileVars, TableTypes
  <2> QED BY <1>1, <2>2, <2>3, <2>4
<1>5. Kinds'
  <2>1. QueueTypes'
    BY <1>1, <1>2 DEF Lives, Kinds, QueueTypes, queueVars
  <2>2. ConnTypes' /\ AdminTypes'
    BY <1>1 DEF Lives, Kinds, ConnTypes, AdminTypes, connVars
  <2> QED BY <1>2, <1>4, <2>1, <2>2 DEF Kinds
<1>6. \A k \in Conns : Stays(k) /\ Unmoved(k)
  BY <1>1 DEF connVars, Stays, Unmoved, InUse
<1>7. TimersLead'
  BY <1>1, <1>6, TimersSteady DEF Lives, Leads
<1>8. FilesLead'
  <2> SUFFICES ASSUME NEW u \in Workers, NEW f \in AllFds, NEW k \in Conns,
                      (read_cb[u][f] = k \/ write_cb[u][f] = k)'
               PROVE  (u = home[k] /\ f = fd[k] /\ InUse(k))'
    BY DEF FilesLead
  <2>1. read_cb[u][f] = k \/ write_cb[u][f] = k
    BY <1>4, NamesDiffer
  <2>2. u = home[k] /\ f = fd[k] /\ InUse(k)
    BY <2>1 DEF Lives, Leads, FilesLead
  <2> QED BY <1>1, <2>2 DEF connVars, InUse
<1>9. EventsLead'
  <2>1. NothingPosted
    BY <1>1, <1>6 DEF NothingPosted, Unmoved, queueVars
  <2>2. Posts(Admin) /\ Admin \in Actors
    BY <2>1, NamesDiffer DEF Posts
  <2> QED BY <1>2, <1>3, <1>5, <2>2, PostsLeadOn DEF Lives, Leads
<1> QED BY <1>5, <1>7, <1>8, <1>9 DEF Lives, Leads

(* Every kind of external event.                                           *)
LEMMA RunExternalLives == ASSUME Lives, NEW w \in Workers, RunExternal(w) PROVE Lives'
<1>1. Head(cur_process[w]).kind \in {"read", "clean", "listen", "unlisten", "drain"}
  BY DEF RunExternal
<1> QED BY <1>1, RunReadLives, RunCleanLives, RunControlLives
-----------------------------------------------------------------------------
(* Connections that open.                                                  *)
LEMMA AcceptLives == ASSUME Lives, NEW w \in Workers, Accept(w) PROVE Lives'
<1> DEFINE v == IF LocalListen THEN w ELSE LeastLoaded
<1>0. v \in Workers /\ w \in Actors
  BY LeastLoadedIsWorker, NamesDiffer DEF Lives, Kinds, ConnTypes
<1>1. /\ fired_events[w] # << >>
      /\ references' = IF LocalListen THEN references ELSE [references EXCEPT ![v] = @ + 1]
      /\ UNCHANGED <<fileVars, time_events, at, blocking, trigger_time, cur_process,
                     adminVars, calls, faults>>
      /\ \/ /\ fired_events' = [fired_events EXCEPT ![w] = Tail(@)]
            /\ UNCHANGED <<queueVars, connVars>>
         \/ \E h \in Incoming, f \in UnusedFds :
              /\ status' = [status EXCEPT ![h] = "open"]
              /\ home' = [home EXCEPT ![h] = v]
              /\ fd' = [fd EXCEPT ![h] = f]
              /\ Dispatch(w, v, Event("read", h))
              /\ UNCHANGED fired_events
  BY DEF Accept
<1> HIDE DEF v
<1>2. references' \in [Workers -> Nat]
  BY <1>0, <1>1 DEF Lives, Kinds, ConnTypes
<1>3. CASE /\ fired_events' = [fired_events EXCEPT ![w] = Tail(@)]
           /\ UNCHANGED <<queueVars, connVars>>
  <2>1. fired_events \in [Workers -> Seq(FiredRecords)]
    BY DEF Lives, Kinds, LoopTypes, FiredRecords
  <2>2. Tail(fired_events[w]) \in Seq(FiredRecords)
    BY <1>1, <2>1, HeadTailProperties
  <2>3. fired_events' \in [Workers -> Seq(FiredRecords)]
    BY <1>3, <2>1, <2>2
  <2>4. LoopTypes'
    BY <1>1, <2>3 DEF Lives, Kinds, LoopTypes, FiredRecords
  <2>5. Kinds'
    BY <1>1, <1>2, <1>3, <2>4
       DEF Lives, Kinds, QueueTypes, TableTypes, ConnTypes, AdminTypes, fileVars, connVars,
           queueVars, adminVars
  <2> QED BY <1>1, <1>3, <2>5, IdleLives DEF fileVars, queueVars
<1>4. ASSUME NEW h \in Incoming, NEW f \in UnusedFds,
             status' = [status EXCEPT ![h] = "open"], home' = [home EXCEPT ![h] = v],
             fd' = [fd EXCEPT ![h] = f], Dispatch(w, v, Event("read", h)),
             UNCHANGED fired_events
      PROVE  Lives'
  <2>1. /\ h \in Conns /\ h \in Handlers /\ h # Local /\ status[h] = "incoming"
        /\ f \in AllFds /\ f # ListenFd
    BY NamesDiffer DEF Incoming, UnusedFds
  <2>2. /\ status'[h] = "open" /\ home'[h] = v
        /\ \A k \in Handlers : k # h => /\ status'[k] = status[k] /\ home'[k] = home[k]
                                        /\ fd'[k] = fd[k]
    BY <1>4, <2>1 DEF Lives, Kinds, ConnTypes
  <2>3. /\ status' \in [Handlers -> {"new", "incoming", "open", "closed", "freed"}]
        /\ home' \in [Handlers -> Workers] /\ fd' \in [Handlers -> AllFds \cup {None}]
        /\ \A k \in Conns : fd'[k] # ListenFd
        /\ fd'[Local] = None
    BY <1>0, <1>4, <2>1, NamesDiffer DEF Lives, Kinds, ConnTypes
  <2>4. ConnTypes'
    BY <1>1, <1>2, <2>3 DEF Lives, Kinds, ConnTypes
  <2>5. QueueTypes'
    BY <1>0, <1>1, <1>4, <2>1, KindsOfEvents, DispatchKeepsTypes DEF Lives, Kinds, QueueTypes
  <2>6. Kinds'
    BY <1>1, <1>4, <2>4, <2>5
       DEF Lives, Kinds, TableTypes, LoopTypes, AdminTypes, fileVars, adminVars
  <2>7. Posts(w)
    <3>1. ReadPosted(w, h)
      BY <1>4, <2>1, <2>2, NamesDiffer DEF ReadPosted, Unmoved
    <3> QED BY <2>1, <3>1 DEF Posts
  <2>8. \A k \in Conns : Stays(k) /\ (InUse(k) => fd'[k] = fd[k])
    BY <2>1, <2>2, NamesDiffer DEF Stays, InUse
  <2> QED BY <1>0, <1>1, <2>6, <2>7, <2>8, RestLives DEF fileVars
<1> QED BY <1>1, <1>3, <1>4

(* A peer connects.                                                        *)
LEMMA ArriveLives == ASSUME Lives, NEW h \in Conns, Arrive(h) PROVE Lives'
<1>1. /\ status[h] = "new" /\ status' = [status EXCEPT ![h] = "incoming"]
      /\ UNCHANGED <<queueVars, fileVars, time_events, loopVars, references, home, fd,
                     adminVars, calls, faults>>
  BY DEF Arrive
<1>2. /\ status' \in [Handlers -> {"new", "incoming", "open", "closed", "freed"}]
      /\ status'[h] = "incoming" /\ \A k \in Conns : k # h => status'[k] = status[k]
  BY <1>1, NamesDiffer DEF Lives, Kinds, ConnTypes
<1>3. Kinds'
  <2>1. TableTypes' /\ LoopTypes'
    BY <1>1 DEF Lives, Kinds, TableTypes, LoopTypes, fileVars, loopVars
  <2>2. ConnTypes'
    BY <1>1, <1>2 DEF Lives, Kinds, ConnTypes
  <2>3. QueueTypes' /\ AdminTypes'
    BY <1>1 DEF Lives, Kinds, QueueTypes, AdminTypes, queueVars, loopVars, adminVars
  <2> QED BY <2>1, <2>2, <2>3 DEF Kinds
<1>4. Posts(Admin) /\ Admin \in Actors
  BY <1>1, <1>2, NamesDiffer DEF Posts, NothingPosted, queueVars
<1>5. \A k \in Conns : Stays(k) /\ (InUse(k) => fd'[k] = fd[k])
  BY <1>1, <1>2 DEF Stays, InUse
<1> QED BY <1>1, <1>3, <1>4, <1>5, RestLives DEF fileVars, loopVars

(* create_connection().                                                    *)
LEMMA ConnectLives ==
  ASSUME Lives, NEW t \in Threads, NEW h \in Conns, Connect(t, h) PROVE Lives'
<1> DEFINE v == LeastLoaded
<1>0. v \in Workers /\ t \in Actors /\ h \in Handlers
  BY LeastLoadedIsWorker, NamesDiffer DEF Lives, Kinds, ConnTypes
<1>1. /\ calls < MaxCalls /\ calls' = calls + 1 /\ status[h] = "new"
      /\ references' = [references EXCEPT ![v] = @ + 1]
      /\ home' = [home EXCEPT ![h] = v]
      /\ Dispatch(t, v, Event("read", h))
      /\ status' = [status EXCEPT ![h] = "open"]
      /\ UNCHANGED <<fileVars, time_events, loopVars, fd, adminVars, faults>>
  BY DEF Connect
<1> HIDE DEF v
<1>2. /\ status' \in [Handlers -> {"new", "incoming", "open", "closed", "freed"}]
      /\ home' \in [Handlers -> Workers] /\ references' \in [Workers -> Nat]
      /\ status'[h] = "open" /\ home'[h] = v
      /\ \A k \in Handlers : k # h => status'[k] = status[k] /\ home'[k] = home[k]
  BY <1>0, <1>1 DEF Lives, Kinds, ConnTypes
<1>3. QueueTypes'
  BY <1>0, <1>1, KindsOfEvents, DispatchKeepsTypes DEF Lives, Kinds, QueueTypes, loopVars
<1>4. Kinds'
  <2>1. TableTypes' /\ LoopTypes'
    BY <1>1 DEF Lives, Kinds, TableTypes, LoopTypes, fileVars, loopVars
  <2>2. ConnTypes'
    BY <1>1, <1>2 DEF Lives, Kinds, ConnTypes
  <2>3. AdminTypes'
    BY <1>1, BoundsAreNat DEF Lives, Kinds, AdminTypes, adminVars
  <2> QED BY <1>3, <2>1, <2>2, <2>3 DEF Kinds
<1>5. Posts(t)
  <2>1. ReadPosted(t, h)
    BY <1>1, <1>2, NamesDiffer DEF ReadPosted, Unmoved
  <2> QED BY <2>1 DEF Posts
<1>6. \A k \in Conns : Stays(k) /\ (InUse(k) => fd'[k] = fd[k])
  BY <1>1, <1>2, NamesDiffer DEF Stays, InUse
<1> QED BY <1>0, <1>1, <1>4, <1>5, <1>6, RestLives DEF fileVars, loopVars

(* A call posts a read event to a connection that is open.                 *)
LEMMA SendLives ==
  ASSUME Lives, NEW t \in Threads, NEW h \in Conns, Send(t, h) PROVE Lives'
<1>0. home[h] \in Workers /\ t \in Actors /\ h \in Handlers
  BY NamesDiffer DEF Lives, Kinds, ConnTypes
<1>1. /\ calls < MaxCalls /\ calls' = calls + 1 /\ status[h] = "open"
      /\ Dispatch(t, home[h], Event("read", h))
      /\ UNCHANGED <<fileVars, time_events, loopVars, references, connVars, adminVars, faults>>
  BY DEF Send
<1>2. QueueTypes'
  BY <1>0, <1>1, KindsOfEvents, DispatchKeepsTypes DEF Lives, Kinds, QueueTypes, loopVars
<1>3. Kinds'
  <2>1. TableTypes' /\ ConnTypes' /\ LoopTypes'
    BY <1>1 DEF Lives, Kinds, TableTypes, ConnTypes, LoopTypes, fileVars, loopVars, connVars
  <2>2. AdminTypes'
    BY <1>1, BoundsAreNat DEF Lives, Kinds, AdminTypes, adminVars
  <2> QED BY <1>2, <2>1, <2>2 DEF Kinds
<1>4. Posts(t)
  <2>1. ReadPosted(t, h)
    BY <1>1 DEF ReadPosted, Unmoved, connVars
  <2> QED BY <2>1 DEF Posts
<1>5. \A k \in Conns : Stays(k) /\ (InUse(k) => fd'[k] = fd[k])
  BY <1>1 DEF Stays, InUse, connVars
<1> QED BY <1>0, <1>1, <1>3, <1>4, <1>5, RestLives DEF fileVars, loopVars

(* Whoever stops a connection that is open.                                *)
LEMMA StoppedLives ==
  ASSUME Lives, NEW a \in Actors, NEW h \in Conns \cup {Local},
         h \in Conns => status[h] = "open", Stop(a, h),
         UNCHANGED <<fileVars, time_events, loopVars, home, fd>>, AdminTypes'
  PROVE  Lives'
<1>1. /\ Posts(a) /\ QueuesKept
      /\ status' \in [Handlers -> {"new", "incoming", "open", "closed", "freed"}]
      /\ references' \in [Workers -> Nat]
      /\ \A k \in Conns : Stays(k)
  BY StopPosts DEF Lives
<1>2. QueueTypes'
  BY <1>1 DEF QueuesKept, Lives, Kinds, QueueTypes, loopVars
<1>3. TableTypes' /\ ConnTypes' /\ LoopTypes'
  BY <1>1 DEF Lives, Kinds, TableTypes, ConnTypes, LoopTypes, fileVars, loopVars
<1>4. Kinds'
  BY <1>2, <1>3 DEF Kinds
<1> QED BY <1>1, <1>4, RestLives DEF fileVars, loopVars

(* mark_down() from outside.                                               *)
LEMMA MarkDownLives ==
  ASSUME Lives, NEW t \in Threads, NEW h \in Conns, MarkDown(t, h) PROVE Lives'
<1>1. /\ calls < MaxCalls /\ calls' = calls + 1 /\ status[h] = "open" /\ Stop(t, h)
      /\ UNCHANGED <<fileVars, time_events, loopVars, home, fd, adminVars, faults>>
  BY DEF MarkDown
<1>2. AdminTypes'
  BY <1>1, BoundsAreNat DEF Lives, Kinds, AdminTypes, adminVars
<1> QED BY <1>1, <1>2, StoppedLives, NamesDiffer
-----------------------------------------------------------------------------
(* The Admin.                                                              *)
LEMMA AdminPostsLives ==
  ASSUME Lives, NEW v \in Workers, NEW e \in GoodEvents, e.of \notin Conns,
         Dispatch(Admin, v, e),
         UNCHANGED <<references, connVars, fileVars, time_events, loopVars>>, AdminTypes'
  PROVE  Lives'
<1>0. Admin \in Actors
  BY NamesDiffer
<1>1. QueueTypes'
  BY <1>0, DispatchKeepsTypes DEF Lives, Kinds, QueueTypes, loopVars
<1>2. Kinds'
  BY <1>1
     DEF Lives, Kinds, TableTypes, ConnTypes, LoopTypes, fileVars, loopVars, connVars
<1>3. Posts(Admin)
  <2>1. \A k \in Conns : Unmoved(k)
    BY DEF Unmoved, connVars
  <2> QED BY <2>1 DEF Posts, ControlPosted
<1>4. \A k \in Conns : Stays(k) /\ (InUse(k) => fd'[k] = fd[k])
  BY DEF Stays, InUse, connVars
<1> QED BY <1>0, <1>2, <1>3, <1>4, RestLives DEF fileVars, loopVars

(* Processor::start() and stop(),                                          *)
LEMMA SubmitLives ==
  ASSUME Lives, Ready \/ Shutdown
  PROVE  Lives'
<1>1. PICK kind \in {"listen", "unlisten"} :
        /\ Submit(kind) /\ admin' \in {"starting", "unlistening"}
  BY DEF Ready, Shutdown, AdminGoes
<1> DEFINE v == home[Listener]
           e == Event(kind, Listener)
<1>2. /\ pending' = {v} /\ Dispatch(Admin, v, e)
      /\ UNCHANGED <<todo, pool_spin, references, connVars, fileVars, time_events, loopVars,
                     done, calls, faults>>
  BY <1>1 DEF Submit, AdminLeaves
<1>3. v \in Workers /\ e \in GoodEvents /\ e.of \notin Conns
  BY <1>1, NamesDiffer, KindsOfEvents DEF Lives, Kinds, ConnTypes
<1> HIDE DEF v, e
<1>4. AdminTypes'
  BY <1>1, <1>2, <1>3 DEF Lives, Kinds, AdminTypes
<1> QED BY <1>2, <1>3, <1>4, AdminPostsLives

(* drain(),                                                                *)
LEMMA DrainWorkerLives ==
  ASSUME Lives, NEW w \in Workers, DrainWorker(w) PROVE Lives'
<1>1. /\ todo' = todo \ {w} /\ pool_spin' \in {None, Admin}
      /\ Dispatch(Admin, w, Event("drain", Local))
      /\ UNCHANGED <<admin, pending, references, connVars, fileVars, time_events, loopVars,
                     done, calls, faults>>
  BY DEF DrainWorker, AdminLeaves
<1>2. AdminTypes'
  BY <1>1 DEF Lives, Kinds, AdminTypes
<1>3. Event("drain", Local) \in GoodEvents /\ Event("drain", Local).of \notin Conns
  BY NamesDiffer, KindsOfEvents
<1> QED BY <1>1, <1>2, <1>3, AdminPostsLives

(* shutdown_connections() and the end of the local connection.             *)
LEMMA AdminStopsLives ==
  ASSUME Lives, Destroy \/ \E h \in Conns : ShutdownConnection(h)
  PROVE  Lives'
<1>1. CASE Destroy
  <2>1. /\ Stop(Admin, Local) /\ todo' = Workers /\ pool_spin' = Admin
        /\ admin' = "stopping"
        /\ UNCHANGED <<pending, home, fd, fileVars, time_events, loopVars, done, calls,
                       faults>>
    BY <1>1 DEF Destroy, AdminGoes, AdminLeaves
  <2>2. AdminTypes'
    BY <2>1 DEF Lives, Kinds, AdminTypes
  <2> QED BY <2>1, <2>2, StoppedLives, NamesDiffer
<1>2. ASSUME NEW h \in Conns, ShutdownConnection(h) PROVE Lives'
  <2>1. /\ Stop(Admin, h) /\ status[h] = "open"
        /\ UNCHANGED <<admin, todo, pending, pool_spin, home, fd, fileVars, time_events,
                       loopVars, done, calls, faults>>
    BY <1>2 DEF ShutdownConnection, AdminLeaves
  <2>2. AdminTypes'
    BY <2>1 DEF Lives, Kinds, AdminTypes
  <2> QED BY <2>1, <2>2, StoppedLives, NamesDiffer
<1> QED BY <1>1, <1>2

(* The Admin's steps that leave queues and connections alone.              *)
LEMMA AdminWaitsLives ==
  ASSUME Lives,
         \/ Started \/ Drain \/ Stopped \/ End
         \/ \E w \in Workers : StopWorker(w) \/ JoinWorker(w)
  PROVE  Lives'
<1>1. UNCHANGED <<external_events, external_num_events, notify, fileVars, time_events,
                  loopVars, references, connVars, calls, faults>>
  BY DEF Started, Drain, Stopped, End, StopWorker, JoinWorker, AdminLeaves, queueVars
<1>2. owed' \in [Actors -> Workers \cup {None}]
  <2>1. owed' = owed \/ \E w \in Workers : owed' = [owed EXCEPT ![Admin] = w]
    BY DEF Started, Drain, Stopped, End, StopWorker, JoinWorker, queueVars
  <2> QED BY <2>1 DEF Lives, Kinds, QueueTypes
<1>3. AdminTypes'
  <2>1. CASE Started \/ Drain \/ Stopped \/ End
    BY <1>1, <2>1
       DEF Started, Drain, Stopped, End, AdminGoes, AdminLeaves, Lives, Kinds, AdminTypes
  <2>2. ASSUME NEW w \in Workers, StopWorker(w) \/ JoinWorker(w) PROVE AdminTypes'
    BY <1>1, <2>2 DEF StopWorker, JoinWorker, Lives, Kinds, AdminTypes
  <2> QED BY <2>1, <2>2
<1>4. Kinds'
  BY <1>1, <1>2, <1>3
     DEF Lives, Kinds, QueueTypes, TableTypes, ConnTypes, LoopTypes, fileVars, connVars,
         loopVars
<1> QED BY <1>1, <1>4, IdleLives DEF fileVars, loopVars

(* ~EventCenter() frees a connection only when nothing is left of it.      *)
LEMMA DestroyCenterLives ==
  ASSUME Lives, Loop, NEW w \in Workers, DestroyCenter(w) PROVE Lives'
<1>1. /\ admin = "destroying"
      /\ UNCHANGED <<external_num_events, notify, owed, fileVars, time_events, loopVars,
                     references, home, fd, admin, pending, pool_spin, done, calls, faults>>
  BY DEF DestroyCenter
<1>2. AdminTypes'
  BY <1>1 DEF DestroyCenter, Lives, Kinds, AdminTypes
<1>3. CASE UNCHANGED <<external_events, status>>
  <2>1. Kinds'
    BY <1>1, <1>2, <1>3
       DEF Lives, Kinds, QueueTypes, TableTypes, ConnTypes, LoopTypes, fileVars, loopVars
  <2> QED BY <1>1, <1>3, <2>1, IdleLives DEF fileVars, loopVars, connVars
<1> DEFINE x == external_events[w]
           e == Head(x)
           h == e.of
<1>4. CASE /\ x # << >>
           /\ external_events' = [external_events EXCEPT ![w] = Tail(@)]
           /\ status' = [status EXCEPT ![h] = "freed"]
           /\ e.kind = "clean" /\ fd[h] = None
           /\ Without(time_events[w], h) = time_events[w]
  <2>1. x \in Seq(GoodEvents) /\ external_events \in [Workers -> Seq(GoodEvents)]
    BY DEF Lives, Kinds, QueueTypes
  <2>2. /\ Tail(x) \in Seq(GoodEvents) /\ e \in GoodEvents
        /\ e = x[1] /\ 1 \in DOMAIN x
    BY <1>4, <2>1, HeadTailProperties, LenProperties, EmptySeq
  <2>3. h \in Conns \cup {Local} /\ h \in Handlers /\ \A k \in Conns : e \in Clean(k) <=> h = k
    BY <1>4, <2>2, NamesDiffer, KindsOfEvents DEF GoodEvents
  <2>4. external_events'[w] = Tail(x)
        /\ \A u \in Workers : u # w => external_events'[u] = external_events[u]
    BY <1>4, <2>1
  <2>5. /\ status' \in [Handlers -> {"new", "incoming", "open", "closed", "freed"}]
        /\ status'[h] = "freed" /\ \A k \in Handlers : k # h => status'[k] = status[k]
    BY <1>4, <2>3 DEF Lives, Kinds, ConnTypes
  <2>6. cur_process[w] = << >> /\ cur_process' = cur_process
    BY <1>1 DEF Loop, AllJoined, RunsOnlyTaken, loopVars
  <2>7. QueueTypes'
    BY <1>1, <1>4, <2>1, <2>2, <2>6 DEF Lives, Kinds, QueueTypes
  <2>8. Kinds'
    BY <1>1, <1>2, <2>5, <2>7
       DEF Lives, Kinds, TableTypes, ConnTypes, LoopTypes, fileVars, loopVars
  <2>9. In(x, {e})
    BY <2>2 DEF In
  <2>10. ~Occurs(time_events[w], h)
    <3>1. time_events[w] \in Seq(Conns) /\ Once(time_events[w])
      BY DEF Lives, Kinds, ConnTypes, Leads, TimersLead
    <3>2. \A k : Occurs(Without(time_events[w], h), k) <=> Occurs(time_events[w], k) /\ k # h
      BY <3>1, WithoutOnce
    <3> QED BY <1>4, <3>2
  <2> HIDE DEF e
  <2>11. ASSUME h \in Conns
         PROVE  /\ w = home[h]
                /\ \A u \in Workers : /\ ~In(cur_process'[u], Of(h))
                                      /\ ~In(external_events'[u], Of(h))
    <3>1. In(x, Clean(h)) /\ In(x, Of(h)) /\ EventsLeadTo(h)
      BY <2>3, <2>9, <2>11, InMore, KindsOfEvents DEF Lives, Leads, EventsLead
    <3>2. w = home[h]
      BY <3>1 DEF EventsLeadTo, Queued
    <3>3. ASSUME NEW u \in Workers
          PROVE  ~In(cur_process'[u], Of(h)) /\ ~In(external_events'[u], Of(h))
      <4>1. CASE u # w
        <5>1. ~Queued(u, Of(h))
          BY <3>1, <3>2, <4>1 DEF EventsLeadTo
        <5> QED BY <2>4, <2>6, <4>1, <5>1 DEF Queued
      <4>2. CASE u = w
        <5>1. NoneAfter(x, Clean(h), Of(h))
          BY <3>1 DEF EventsLeadTo, Fenced
        <5>2. ~In(Tail(x), Of(h))
          BY <1>4, <2>1, <2>3, <2>11, <5>1, TailIn DEF e
        <5>3. ~In(<< >>, Of(h))
          BY EmptyHasNone
        <5> QED BY <2>4, <2>6, <4>2, <5>2, <5>3
      <4> QED BY <4>1, <4>2
    <3> QED BY <3>2, <3>3
  <2>12. \A k \in Conns : k # h => status'[k] = status[k] /\ home'[k] = home[k] /\ Stays(k)
    BY <1>1, <2>5, NamesDiffer DEF Stays, InUse
  <2>13. TimersLead'
    <3>1. ASSUME NEW u \in Workers
          PROVE  /\ Once(time_events'[u])
                 /\ \A k \in Conns : Occurs(time_events'[u], k) => u = home'[k] /\ InUse(k)'
      <4>1. time_events'[u] = time_events[u]
        BY <1>1
      <4>2. \A k \in Conns : Occurs(time_events[u], k) => u = home[k] /\ InUse(k) /\ k # h
        BY <2>10, <2>11 DEF Lives, Leads, TimersLead
      <4>3. Once(time_events[u])
        BY DEF Lives, Leads, TimersLead
      <4> QED BY <2>12, <4>1, <4>2, <4>3 DEF Stays
    <3> QED BY <3>1 DEF TimersLead, Once, Occurs
  <2>14. FilesLead'
    <3> SUFFICES ASSUME NEW u \in Workers, NEW f \in AllFds, NEW k \in Conns,
                        (read_cb[u][f] = k \/ write_cb[u][f] = k)'
                 PROVE  (u = home[k] /\ f = fd[k] /\ InUse(k))'
      BY DEF FilesLead
    <3>1. u = home[k] /\ f = fd[k] /\ InUse(k)
      BY <1>1 DEF Lives, Leads, FilesLead, fileVars
    <3>2. k # h
      BY <1>4, <3>1, NamesDiffer
    <3> QED BY <1>1, <2>12, <3>1, <3>2 DEF Stays
  <2>15. EventsLead'
    <3> SUFFICES ASSUME NEW k \in Conns PROVE EventsLeadTo(k)'
      BY DEF EventsLead
    <3>1. CASE k = h
      BY <2>5, <2>11, <3>1, GoneLeads
    <3>2. CASE k # h
      <4>1. EventsLeadTo(k) /\ e \notin Clean(k) /\ status'[k] = status[k] /\ home'[k] = home[k]
        BY <2>3, <2>12, <3>2 DEF Lives, Leads, EventsLead
      <4>2. ASSUME NEW u \in Workers
            PROVE  /\ Queued(u, Of(k))' => Queued(u, Of(k))
                   /\ Queued(u, Clean(k))' <=> Queued(u, Clean(k))
                   /\ Fenced(cur_process[u], external_events[u], Clean(k), Of(k))'
        <5>1. Fenced(cur_process[u], external_events[u], Clean(k), Of(k))
          BY <4>1 DEF EventsLeadTo
        <5>2. CASE u # w
          <6>1. external_events'[u] = external_events[u] /\ cur_process'[u] = cur_process[u]
            BY <2>4, <2>6, <5>2
          <6> QED BY <5>1, <6>1 DEF Queued, Of, Clean
        <5>3. CASE u = w
          <6>1. /\ external_events'[u] = Tail(x) /\ external_events[u] = x
                /\ cur_process'[u] = cur_process[u] /\ cur_process[u] = << >>
            BY <2>4, <2>6, <5>3
          <6>2. /\ In(Tail(x), Of(k)) => In(x, Of(k))
                /\ In(Tail(x), Clean(k)) <=> In(x, Clean(k))
                /\ NoneAfter(x, Clean(k), Of(k)) => NoneAfter(Tail(x), Clean(k), Of(k))
            <7>1. /\ In(Tail(x), Of(k)) => In(x, Of(k))
                  /\ NoneAfter(x, Clean(k), Of(k)) => NoneAfter(Tail(x), Clean(k), Of(k))
              BY <1>4, <2>1, TailIn
            <7>2. In(x, Clean(k)) <=> Head(x) \in Clean(k) \/ In(Tail(x), Clean(k))
              BY <1>4, <2>1, TailIn
            <7> QED BY <4>1, <7>1, <7>2 DEF e
          <6>3. Fenced(<< >>, Tail(x), Clean(k), Of(k))
            BY <5>1, <6>1, <6>2, EmptyHasNone DEF Fenced
          <6>4. ~In(<< >>, Of(k)) /\ ~In(<< >>, Clean(k))
            BY EmptyHasNone
          <6> HIDE DEF x
          <6> QED BY <6>1, <6>2, <6>3, <6>4 DEF Queued, Of, Clean
        <5> QED BY <5>2, <5>3
      <4>3. ASSUME NEW u \in Workers
            PROVE  /\ Queued(u, Of(k))' => u = home'[k] /\ InUse(k)'
                   /\ Queued(u, Clean(k))' => status'[k] = "closed"
        BY <4>1, <4>2 DEF EventsLeadTo, InUse
      <4>4. status'[k] = "closed" => Queued(home[k], Clean(k))'
        <5> SUFFICES ASSUME status'[k] = "closed" PROVE Queued(home[k], Clean(k))'
          OBVIOUS
        <5>1. PICK v \in Workers : v = home[k]
          BY NamesDiffer DEF Lives, Kinds, ConnTypes
        <5>2. Queued(home[k], Clean(k)) /\ home'[k] = v
          BY <4>1, <5>1 DEF EventsLeadTo
        <5>3. Queued(v, Clean(k))'
          BY <4>2, <5>1, <5>2
        <5> QED BY <5>2, <5>3
      <4> QED BY <4>2, <4>3, <4>4 DEF EventsLeadTo
    <3> QED BY <3>1, <3>2
  <2> QED BY <2>8, <2>13, <2>14, <2>15 DEF Lives, Leads
<1> QED BY <1>3, <1>4 DEF DestroyCenter

(* No step breaks the invariant.                                           *)
LEMMA LivesNext == ASSUME Lives, Loop, [Next]_vars PROVE Lives'
<1>1. ASSUME NEW a \in Actors, Wakeup(a) PROVE Lives'
  BY <1>1, WakeupLives
<1>2. ASSUME NEW w \in Workers, WorkerRuns(w) \/ SocketOrTimer(w) PROVE Lives'
  BY <1>2, StartRoundLives, ExitLives, EventWaitLives, DrainNotifyLives, AcceptLives,
     FireSocketLives, RunTimerLives, TakeExternalLives, RunExternalLives
     DEF WorkerRuns, WakeUp, SocketOrTimer
<1>3. ASSUME NEW h \in Conns, Arrive(h) PROVE Lives'
  BY <1>3, ArriveLives
<1>4. ASSUME NEW t \in Threads, NEW h \in Conns,
             Connect(t, h) \/ Send(t, h) \/ MarkDown(t, h)
      PROVE  Lives'
  BY <1>4, ConnectLives, SendLives, MarkDownLives
<1>5. CASE AdminRuns \/ Shutdown
  BY <1>5, SubmitLives, AdminWaitsLives, AdminStopsLives, DrainWorkerLives,
     DestroyCenterLives DEF AdminRuns
<1>6. CASE Ended \/ UNCHANGED vars
  <2>1. UNCHANGED <<queueVars, fileVars, time_events, loopVars, references, connVars,
                    adminVars, calls, faults>>
    BY <1>6 DEF Ended, vars
  <2>2. Kinds'
    BY <2>1
       DEF Lives, Kinds, QueueTypes, TableTypes, ConnTypes, LoopTypes, AdminTypes,
           queueVars, fileVars, loopVars, connVars, adminVars
  <2> QED BY <2>1, <2>2, IdleLives DEF queueVars, fileVars, loopVars
<1> QED BY <1>1, <1>2, <1>3, <1>4, <1>5, <1>6 DEF Next

(* What centers hold of a connection - events, callbacks, timers - they    *)
(* hold between its opening and its clean-up, and the clean-up is the last *)
(* of its events: AsyncConnection::_stop() and cleanup().                  *)
THEOREM LivesInvariant == Spec => []Lives
<1> QED BY LivesInit, LivesNext, LoopInvariant, PTL DEF Spec

(* The kinds are within the types.                                         *)
LEMMA KindsAreTypes == Kinds => TypeOK
<1> SUFFICES ASSUME Kinds PROVE TypeOK
  OBVIOUS
<1>1. GoodEvents \subseteq Events /\ Conns \subseteq Handlers
      /\ Callbacks \subseteq Handlers \cup {None}
  BY NamesDiffer DEF GoodEvents, Events, Callbacks
<1>2. /\ external_events \in [Workers -> Seq(Events)]
      /\ cur_process \in [Workers -> Seq(Events)]
      /\ time_events \in [Workers -> Seq(Handlers)]
  BY <1>1, SeqMonotonic DEF Kinds, QueueTypes, ConnTypes
<1>3. /\ mask \in [Workers -> [AllFds -> SUBSET {"R", "W"}]]
      /\ read_cb \in [Workers -> [AllFds -> Handlers \cup {None}]]
      /\ write_cb \in [Workers -> [AllFds -> Handlers \cup {None}]]
      /\ nevent \in [Workers -> Nat]
  BY <1>1 DEF Kinds, TableTypes
<1> QED BY <1>2, <1>3
       DEF Kinds, QueueTypes, ConnTypes, LoopTypes, AdminTypes, TypeOK

(* Every variable keeps its type, for any number of workers, connections   *)
(* and descriptors: CreateFileEvent always finds a size that fits the      *)
(* descriptor and getWorker() a worker that is the least loaded.           *)
THEOREM TypesHold == Spec => []TypeOK
<1> QED BY LivesInvariant, KindsAreTypes, PTL DEF Lives

(* A freed connection is not in use, so nothing is held of it.             *)
LEMMA LeadsDanglesNot == Lives => NothingDangles
<1> SUFFICES ASSUME Lives, NEW w \in Workers, NEW k \in Conns, status[k] = "freed"
             PROVE  /\ \A f \in AllFds : read_cb[w][f] # k /\ write_cb[w][f] # k
                    /\ \A i \in 1..Len(time_events[w]) : time_events[w][i] # k
                    /\ \A i \in 1..Len(external_events[w]) : external_events[w][i].of # k
                    /\ \A i \in 1..Len(cur_process[w]) : cur_process[w][i].of # k
  BY DEF NothingDangles
<1>1. ~InUse(k)
  BY DEF InUse
<1>2. \A f \in AllFds : read_cb[w][f] # k /\ write_cb[w][f] # k
  BY <1>1 DEF Lives, Leads, FilesLead
<1>3. \A i \in 1..Len(time_events[w]) : time_events[w][i] # k
  <2>1. ~Occurs(time_events[w], k) /\ time_events[w] \in Seq(Conns)
    BY <1>1 DEF Lives, Kinds, ConnTypes, Leads, TimersLead
  <2> QED BY <2>1, LenProperties DEF Occurs
<1>4. ASSUME NEW s \in Seq(GoodEvents), ~In(s, Of(k)), NEW i \in 1..Len(s)
      PROVE  s[i].of # k
  <2>1. i \in DOMAIN s /\ s[i] \in GoodEvents
    BY <1>4, LenProperties, ElementOfSeq
  <2> QED BY <1>4, <2>1, KindsOfEvents DEF In
<1>5. ~Queued(w, Of(k))
  BY <1>1 DEF Lives, Leads, EventsLead, EventsLeadTo
<1>6. external_events[w] \in Seq(GoodEvents) /\ cur_process[w] \in Seq(GoodEvents)
  BY DEF Lives, Kinds, QueueTypes
<1> QED BY <1>2, <1>3, <1>4, <1>5, <1>6 DEF Queued

(* cleanup() (AsyncConnection.h:390) deletes the handlers of a connection: *)
(* by then no descriptor, no timer and no external event of any center     *)
(* leads to it, whoever stopped it and wherever its worker was.            *)
THEOREM NoHandlerDangles == Spec => []NothingDangles
<1> QED BY LivesInvariant, LeadsDanglesNot, PTL
-----------------------------------------------------------------------------
(* The sizes of the tables.                                                *)
Sized == \A w \in Workers : \E k \in Nat : nevent[w] = InitEvents * FourTo[k]

(* A descriptor registered for something has the callback for it.          *)
Masked ==
  \A w \in Workers, f \in AllFds :
    /\ "R" \in mask[w][f] => read_cb[w][f] # None
    /\ "W" \in mask[w][f] => write_cb[w][f] # None

(* The references of a worker cover its open connections.                  *)
OpenAt(w) == {h \in Conns \cup {Local} : status[h] = "open" /\ home[h] = w}
Referenced ==
  \A w \in Workers : IsFiniteSet(OpenAt(w)) /\ Cardinality(OpenAt(w)) <= references[w]

(* The stack stops with no connection open, and the local one is the last. *)
Stopping == {"stopping", "destroying", "end"}
Closing ==
  /\ admin \in Stopping \cup {"draining"} => \A k \in Conns : status[k] # "open"
  /\ admin \notin Stopping => status[Local] = "open"

(* The listening socket: only its center knows it, it fires only while it  *)
(* is registered, and it is not once Processor::stop() has returned.       *)
FiresListener(w) == \E i \in DOMAIN fired_events[w] : fired_events[w][i].fd = ListenFd
Unlistened ==
  \/ admin = "unlistening" /\ pending = {}
  \/ admin \in Stopping \cup {"draining"}
Listening ==
  /\ \A w \in Workers :
       /\ mask[w][ListenFd] \subseteq {"R"}
       /\ mask[w][ListenFd] # {} => w = home[Listener]
       /\ at[w] # "fire" => fired_events[w] = << >>
       /\ FiresListener(w) => mask[w][ListenFd] # {}
  /\ Unlistened => \A w \in Workers : mask[w][ListenFd] = {}

(* The events the Admin posts and awaits: at most one at a center, none    *)
(* when it awaits none, and behind that of drain() nothing at all.         *)
OfKind(x) == {e \in GoodEvents : e.kind = x}
Control == {e \in GoodEvents : e.kind \in {"listen", "unlisten", "drain"}}
OfConns == {e \in GoodEvents : e.of \in Conns}
LocalClean == {Event("clean", Local)}
Posted(w) ==
  /\ Queued(w, OfKind("listen")) => admin = "starting" /\ w \in pending
  /\ Queued(w, OfKind("unlisten")) => admin = "unlistening" /\ w \in pending
  /\ Queued(w, OfKind("drain")) => admin = "draining" /\ w \in pending \ todo
  /\ Queued(w, LocalClean) => admin \in Stopping
  /\ Queued(w, OfConns) => admin \notin Stopping
  /\ Queued(w, GoodEvents) => ~(admin = "draining" /\ w \notin pending)
  /\ Fenced(cur_process[w], external_events[w], Control, Control)
  /\ Fenced(cur_process[w], external_events[w], OfKind("drain"), GoodEvents)
Awaited ==
  /\ \A w \in Workers : Posted(w)
  /\ admin \in {"starting", "unlistening"} => pending \subseteq {home[Listener]}
  /\ admin = "draining" => todo \subseteq pending

Sound == CodeAsserts /\ Sized /\ Masked /\ Referenced /\ Closing /\ Listening /\ Awaited

(* The code's limits: posix, where the Processor's get_worker() counts a   *)
(* reference for each connection it accepts, and no descriptor that is     *)
(* exactly as large as a grown table (expand() stops at a size that is not *)
(* smaller than the descriptor, create_file_event() then needs a larger    *)
(* one).                                                                   *)
PosixFds ==
  /\ ~LocalListen
  /\ \A f \in AllFds, k \in Nat \ {0} : f # InitEvents * FourTo[k]
-----------------------------------------------------------------------------
(* The sizes of the tables.                                                *)
LEMMA FourToAdds == \A j, k \in Nat : FourTo[j] * FourTo[k] = FourTo[j + k]
<1> SUFFICES ASSUME NEW j \in Nat PROVE \A k \in Nat : FourTo[j] * FourTo[k] = FourTo[j + k]
  OBVIOUS
<1> DEFINE bad == {k \in Nat : FourTo[j] * FourTo[k] # FourTo[j + k]}
<1> SUFFICES ASSUME bad # {} PROVE FALSE
  OBVIOUS
<1>1. PICK k \in bad : \A i \in bad : k <= i
  <2> bad \in SUBSET Nat
    OBVIOUS
  <2> HIDE DEF bad
  <2> QED BY LeastNumber
<1>2. /\ FourTo[k] = IF k = 0 THEN 1 ELSE 4 * FourTo[k - 1]
      /\ FourTo[j + k] = IF j + k = 0 THEN 1 ELSE 4 * FourTo[j + k - 1]
  <2>1. j + k \in Nat /\ k \in Nat
    BY <1>1
  <2> QED BY <2>1, FourToDef
<1>3. FourTo[j] \in Nat /\ FourTo[k] \in Nat
  BY <1>1, FourToGrows
<1>4. CASE k = 0
  BY <1>1, <1>2, <1>3, <1>4
<1>5. CASE k # 0
  <2>1. k \in Nat /\ k - 1 \in Nat /\ ~(k <= k - 1) /\ j + k # 0 /\ j + k - 1 = j + (k - 1)
    BY <1>1, <1>5
  <2>2. FourTo[j] * FourTo[k - 1] = FourTo[j + (k - 1)]
    BY <1>1, <2>1
  <2> DEFINE x == FourTo[j]
             y == FourTo[k - 1]
  <2>3. x \in Nat /\ y \in Nat
    BY <2>1, FourToGrows
  <2>4. FourTo[k] = 4 * y /\ FourTo[j + k] = 4 * (x * y)
    BY <1>2, <1>5, <2>1, <2>2
  <2>5. x * FourTo[k] # FourTo[j + k]
    BY <1>1
  <2> HIDE DEF x, y
  <2>6. x * (4 * y) = 4 * (x * y)
    BY <2>3
  <2> QED BY <2>4, <2>5, <2>6
<1> QED BY <1>4, <1>5

(* A table that grows does so at least once.                               *)
LEMMA NewSizeGrows ==
  ASSUME NEW n \in Nat \ {0}, NEW f \in Nat
  PROVE  \E k \in Nat \ {0} : NewSize(n, f) = n * FourTo[k]
<1> DEFINE sizes == {n * FourTo[k] : k \in 1..(f + 1)}
           fits(s) == f <= s /\ \A t \in sizes : f <= t => s <= t
<1>1. \A k \in 1..(f + 1) : n * FourTo[k] \in Nat
  <2> TAKE k \in 1..(f + 1)
  <2>1. FourTo[k] \in Nat
    BY FourToGrows
  <2> QED BY <2>1
<1> DEFINE large == {s \in sizes : f <= s}
<1>2. large \in SUBSET Nat /\ n * FourTo[f + 1] \in large
  <2>1. f + 1 \in 1..(f + 1) /\ f + 1 \in Nat
    OBVIOUS
  <2>2. FourTo[f + 1] \in Nat /\ f + 1 < FourTo[f + 1]
    BY <2>1, FourToGrows
  <2>3. FourTo[f + 1] <= n * FourTo[f + 1] /\ n * FourTo[f + 1] \in Nat
    BY <2>2
  <2>4. f <= n * FourTo[f + 1]
    BY <2>2, <2>3
  <2> QED BY <1>1, <2>1, <2>4
<1>3. \E s \in large : \A t \in large : s <= t
  <2> HIDE DEF large
  <2> QED BY <1>2, LeastNumber
<1>4. \E s \in sizes : fits(s)
  BY <1>3
<1>5. NewSize(n, f) = CHOOSE s \in sizes : fits(s)
  BY DEF NewSize
<1>6. NewSize(n, f) \in sizes
  <2> HIDE DEF sizes, fits
  <2> QED BY <1>4, <1>5
<1>7. \A k \in 1..(f + 1) : k \in Nat \ {0}
  OBVIOUS
<1> QED BY <1>6, <1>7

(* create_file_event() finds room for the descriptor                       *)
LEMMA CreateFine ==
  ASSUME PosixFds, TableTypes, Sized, Masked,
         NEW w \in Workers, NEW f \in AllFds, NEW m \in {{"R"}, {"W"}}, NEW h \in Handlers,
         CreateFileEvent(w, f, m, h)
  PROVE  /\ Sized' /\ Masked' /\ failed' = failed
         /\ mask'[w][f] = mask[w][f] \cup m
         /\ \A u \in Workers, g \in AllFds : u # w \/ g # f => mask'[u][g] = mask[u][g]
<1> DEFINE size == IF f >= nevent[w] THEN NewSize(nevent[w], f) ELSE nevent[w]
<1>1. nevent' = [nevent EXCEPT ![w] = size]
  BY DEF CreateFileEvent
<1>2. f \in Nat /\ nevent[w] \in Nat \ {0} /\ InitEvents \in Nat \ {0}
  BY NamesDiffer, FdsAreNat DEF TableTypes
<1>3. PICK j \in Nat : nevent[w] = InitEvents * FourTo[j]
  BY DEF Sized
<1>4. f < size /\ \E k \in Nat : size = InitEvents * FourTo[k]
  <2>1. CASE f >= nevent[w]
    <3> DEFINE n == NewSize(nevent[w], f)
    <3>1. f <= n /\ n \in Nat
      BY <1>2, NewSizeIsSize
    <3>2. PICK k \in Nat \ {0} : n = nevent[w] * FourTo[k]
      BY <1>2, NewSizeGrows
    <3>3. FourTo[j] \in Nat /\ FourTo[k] \in Nat /\ FourTo[j] * FourTo[k] = FourTo[j + k]
      BY <3>2, FourToGrows, FourToAdds
    <3> DEFINE x == FourTo[j]
               y == FourTo[k]
    <3>4. n = (InitEvents * x) * y
      BY <1>3, <3>2
    <3>5. (InitEvents * x) * y = InitEvents * (x * y)
      <4>1. x \in Nat /\ y \in Nat
        BY <3>3
      <4> HIDE DEF x, y
      <4> QED BY <1>2, <4>1
    <3>6. n = InitEvents * FourTo[j + k]
      BY <3>3, <3>4, <3>5
    <3>7. j + k \in Nat \ {0}
      BY <3>2
    <3>8. f # n
      BY <3>6, <3>7 DEF PosixFds
    <3> HIDE DEF n
    <3>9. f < n
      BY <1>2, <3>1, <3>8
    <3> QED BY <2>1, <3>6, <3>7, <3>9 DEF n
  <2>2. CASE ~(f >= nevent[w])
    BY <1>2, <1>3, <2>2
  <2> QED BY <2>1, <2>2
<1>5. Sized'
  <2> HIDE DEF size
  <2> QED BY <1>1, <1>4 DEF Sized, TableTypes
<1>6. /\ mask' = [mask EXCEPT ![w][f] = @ \cup m]
      /\ read_cb' = [read_cb EXCEPT ![w][f] = IF "R" \in m /\ mask[w][f] # m THEN h ELSE @]
      /\ write_cb' = [write_cb EXCEPT ![w][f] = IF "W" \in m /\ mask[w][f] # m THEN h ELSE @]
      /\ failed' = failed
  <2>1. size \in Nat
    BY <1>2, NewSizeIsSize
  <2>2. ~(f >= size)
    <3> HIDE DEF size
    <3> QED BY <1>2, <1>4, <2>1
  <2> QED BY <2>2 DEF CreateFileEvent
<1>7. /\ mask'[w][f] = mask[w][f] \cup m
      /\ \A u \in Workers, g \in AllFds : u # w \/ g # f => mask'[u][g] = mask[u][g]
  BY <1>6 DEF TableTypes
<1>8. ASSUME NEW u \in Workers, NEW g \in AllFds
      PROVE  /\ "R" \in mask'[u][g] => read_cb'[u][g] # None
             /\ "W" \in mask'[u][g] => write_cb'[u][g] # None
  <2>1. CASE u = w /\ g = f
    <3>1. /\ mask'[u][g] = mask[u][g] \cup m
          /\ read_cb'[u][g] = IF "R" \in m /\ mask[u][g] # m THEN h ELSE read_cb[u][g]
          /\ write_cb'[u][g] = IF "W" \in m /\ mask[u][g] # m THEN h ELSE write_cb[u][g]
      BY <1>6, <2>1 DEF TableTypes
    <3>2. h # None
      BY NamesDiffer
    <3> QED BY <3>1, <3>2 DEF Masked
  <2>2. CASE ~(u = w /\ g = f)
    <3>1. /\ mask'[u][g] = mask[u][g] /\ read_cb'[u][g] = read_cb[u][g]
          /\ write_cb'[u][g] = write_cb[u][g]
      BY <1>6, <2>2 DEF TableTypes
    <3> QED BY <3>1 DEF Masked
  <2> QED BY <2>1, <2>2
<1> QED BY <1>5, <1>6, <1>7, <1>8 DEF Masked

(* and delete_file_event() takes the callbacks with the mask.              *)
LEMMA DeleteFine ==
  ASSUME TableTypes, Sized, Masked,
         NEW w \in Workers, NEW f \in AllFds, NEW m \in SUBSET {"R", "W"},
         DeleteFileEvent(w, f, m)
  PROVE  /\ Sized' /\ Masked'
         /\ \A u \in Workers, g \in AllFds :
              mask'[u][g] = IF u = w /\ g = f THEN mask[u][g] \ m ELSE mask[u][g]
<1>1. /\ mask' = [mask EXCEPT ![w][f] = @ \ m]
      /\ read_cb' = [read_cb EXCEPT ![w][f] = IF "R" \in m THEN None ELSE @]
      /\ write_cb' = [write_cb EXCEPT ![w][f] = IF "W" \in m THEN None ELSE @]
      /\ nevent' = nevent
  BY DEF DeleteFileEvent
<1>2. Sized'
  BY <1>1 DEF Sized
<1>3. ASSUME NEW u \in Workers, NEW g \in AllFds
      PROVE  /\ mask'[u][g] = IF u = w /\ g = f THEN mask[u][g] \ m ELSE mask[u][g]
             /\ "R" \in mask'[u][g] => read_cb'[u][g] # None
             /\ "W" \in mask'[u][g] => write_cb'[u][g] # None
  <2>1. CASE u = w /\ g = f
    <3>1. /\ mask'[u][g] = mask[u][g] \ m
          /\ read_cb'[u][g] = IF "R" \in m THEN None ELSE read_cb[u][g]
          /\ write_cb'[u][g] = IF "W" \in m THEN None ELSE write_cb[u][g]
      BY <1>1, <2>1 DEF TableTypes
    <3> QED BY <2>1, <3>1 DEF Masked
  <2>2. CASE ~(u = w /\ g = f)
    <3>1. /\ mask'[u][g] = mask[u][g] /\ read_cb'[u][g] = read_cb[u][g]
          /\ write_cb'[u][g] = write_cb[u][g]
      BY <1>1, <2>2 DEF TableTypes
    <3> QED BY <2>2, <3>1 DEF Masked
  <2> QED BY <2>1, <2>2
<1> QED BY <1>2, <1>3 DEF Masked

(* A step that leaves the tables alone.                                    *)
LEMMA TablesFine ==
  ASSUME Sized, Masked, UNCHANGED fileVars
  PROVE  Sized' /\ Masked' /\ \A u \in Workers : mask'[u][ListenFd] = mask[u][ListenFd]
BY DEF Sized, Masked, fileVars
-----------------------------------------------------------------------------
(* The references.                                                         *)

(* A worker that gives none of them up and gets no open connection.        *)
LEMMA FewerReferenced ==
  ASSUME ConnTypes, ConnTypes', Referenced,
         \A h \in Conns \cup {Local} :
           status'[h] = "open" => status[h] = "open" /\ home'[h] = home[h],
         \A w \in Workers : references[w] <= references'[w]
  PROVE  Referenced'
<1> SUFFICES ASSUME NEW w \in Workers
             PROVE  IsFiniteSet(OpenAt(w)') /\ Cardinality(OpenAt(w)') <= references'[w]
  BY DEF Referenced
<1>1. OpenAt(w)' \in SUBSET OpenAt(w)
  BY DEF OpenAt
<1>2. IsFiniteSet(OpenAt(w)) /\ Cardinality(OpenAt(w)) <= references[w]
  BY DEF Referenced
<1>3. /\ IsFiniteSet(OpenAt(w)') /\ Cardinality(OpenAt(w)') <= Cardinality(OpenAt(w))
      /\ Cardinality(OpenAt(w)') \in Nat /\ Cardinality(OpenAt(w)) \in Nat
  BY <1>1, <1>2, FS_Subset, FS_CardinalityType
<1>4. references[w] \in Nat /\ references'[w] \in Nat /\ references[w] <= references'[w]
  BY DEF ConnTypes
<1> QED BY <1>2, <1>3, <1>4

(* Worker v gets connection k, and a reference for it.                     *)
Opens(k, v) ==
  /\ status[k] # "open" /\ status' = [status EXCEPT ![k] = "open"]
  /\ home' = [home EXCEPT ![k] = v]
  /\ references' = [references EXCEPT ![v] = @ + 1]

(* It counts all of them still.                                            *)
LEMMA OpenedReferenced ==
  ASSUME ConnTypes, Referenced, NEW k \in Conns, NEW v \in Workers, Opens(k, v)
  PROVE  Referenced'
<1> SUFFICES ASSUME NEW w \in Workers
             PROVE  IsFiniteSet(OpenAt(w)') /\ Cardinality(OpenAt(w)') <= references'[w]
  BY DEF Referenced
<1>1. IsFiniteSet(OpenAt(w)) /\ Cardinality(OpenAt(w)) <= references[w]
  BY DEF Referenced
<1>2. k \in Handlers /\ Conns \cup {Local} \subseteq Handlers
  BY NamesDiffer
<1>3. Cardinality(OpenAt(w)) \in Nat /\ references[w] \in Nat
  BY <1>1, FS_CardinalityType DEF ConnTypes
<1>4. /\ status'[k] = "open" /\ home'[k] = v /\ status[k] # "open"
      /\ \A h \in Handlers : h # k => status'[h] = status[h] /\ home'[h] = home[h]
  BY <1>2 DEF Opens, ConnTypes
<1>5. references'[w] = IF w = v THEN references[w] + 1 ELSE references[w]
  BY DEF Opens, ConnTypes
<1>6. CASE w = v
  <2>1. OpenAt(w)' = OpenAt(w) \cup {k} /\ k \notin OpenAt(w)
    BY <1>2, <1>4, <1>6 DEF OpenAt
  <2>2. IsFiniteSet(OpenAt(w)') /\ Cardinality(OpenAt(w)') = Cardinality(OpenAt(w)) + 1
    BY <1>1, <2>1, FS_AddElement
  <2> QED BY <1>1, <1>3, <1>5, <1>6, <2>2
<1>7. CASE w # v
  <2>1. OpenAt(w)' = OpenAt(w)
    BY <1>2, <1>4, <1>7 DEF OpenAt
  <2> QED BY <1>1, <1>5, <1>7, <2>1
<1> QED BY <1>6, <1>7

(* A connection that is open holds a reference: release_worker()'s         *)
(* assertion,                                                              *)
LEMMA OpenHoldsReference ==
  ASSUME ConnTypes, Referenced, NEW k \in Conns \cup {Local}, status[k] = "open"
  PROVE  references[home[k]] # 0
<1> DEFINE w == home[k]
<1>1. w \in Workers
  BY NamesDiffer DEF ConnTypes
<1>2. k \in OpenAt(w)
  BY DEF OpenAt
<1>3. IsFiniteSet(OpenAt(w)) /\ Cardinality(OpenAt(w)) <= references[w]
  BY <1>1 DEF Referenced
<1>4. Cardinality(OpenAt(w)) # 0 /\ Cardinality(OpenAt(w)) \in Nat
  BY <1>2, <1>3, FS_EmptySet, FS_CardinalityType
<1> HIDE DEF w
<1>5. references[w] # 0
  BY <1>3, <1>4
<1> QED BY <1>5 DEF w

(* and gives it up with its state.                                         *)
Stops(a, k) ==
  /\ status[k] = "open" /\ status' = [status EXCEPT ![k] = "closed"]
  /\ references' = [references EXCEPT ![home[k]] = @ - 1]
  /\ home' = home
  /\ Dispatch(a, home[k], Event("clean", k))

(* The others remain counted.                                              *)
LEMMA StoppedReferenced ==
  ASSUME ConnTypes, Referenced, NEW k \in Conns \cup {Local}, NEW a, Stops(a, k)
  PROVE  Referenced'
<1> SUFFICES ASSUME NEW w \in Workers
             PROVE  IsFiniteSet(OpenAt(w)') /\ Cardinality(OpenAt(w)') <= references'[w]
  BY DEF Referenced
<1>1. IsFiniteSet(OpenAt(w)) /\ Cardinality(OpenAt(w)) <= references[w]
  BY DEF Referenced
<1>2. k \in Handlers /\ Conns \cup {Local} \subseteq Handlers /\ home[k] \in Workers
  BY NamesDiffer DEF ConnTypes
<1>3. Cardinality(OpenAt(w)) \in Nat /\ references[w] \in Nat
  BY <1>1, FS_CardinalityType DEF ConnTypes
<1>4. /\ status'[k] # "open" /\ status[k] = "open" /\ home' = home
      /\ \A h \in Handlers : h # k => status'[h] = status[h]
  BY <1>2 DEF Stops, ConnTypes
<1>5. references'[w] = IF w = home[k] THEN references[w] - 1 ELSE references[w]
  BY <1>2 DEF Stops, ConnTypes
<1>6. CASE w = home[k]
  <2>1. OpenAt(w)' = OpenAt(w) \ {k} /\ k \in OpenAt(w)
    BY <1>2, <1>4, <1>6 DEF OpenAt
  <2>2. IsFiniteSet(OpenAt(w)') /\ Cardinality(OpenAt(w)') = Cardinality(OpenAt(w)) - 1
    BY <1>1, <2>1, FS_RemoveElement
  <2> QED BY <1>1, <1>3, <1>5, <1>6, <2>2
<1>7. CASE w # home[k]
  <2>1. OpenAt(w)' = OpenAt(w)
    BY <1>2, <1>4, <1>7 DEF OpenAt
  <2> QED BY <1>1, <1>5, <1>7, <2>1
<1> QED BY <1>6, <1>7

(* So _stop() of an open connection never fails.                           *)
LEMMA StopSound ==
  ASSUME ConnTypes, Referenced, NEW k \in Conns \cup {Local}, status[k] = "open",
         NEW a, Stop(a, k), UNCHANGED home
  PROVE  Stops(a, k) /\ failed' = failed
BY OpenHoldsReference DEF Stop, Stops
-----------------------------------------------------------------------------
(* What a step does to connections when it does not open one: nothing, or  *)
(* it posts a "read" for an open one, or stops one.                        *)
ConnDoes(a) ==
  \/ UNCHANGED <<external_events, references, status, home>>
  \/ \E k \in Conns : /\ status[k] = "open" /\ UNCHANGED <<references, status, home>>
                      /\ Dispatch(a, home[k], Event("read", k))
  \/ \E k \in Conns : Stops(a, k)

(* None of this leaves an open connection without its reference,           *)
LEMMA ConnReferenced ==
  ASSUME ConnTypes, ConnTypes', Referenced, NEW a, ConnDoes(a) PROVE Referenced'
<1>1. CASE UNCHANGED <<references, status, home>>
  BY <1>1, FewerReferenced DEF ConnTypes
<1>2. ASSUME NEW k \in Conns, Stops(a, k) PROVE Referenced'
  BY <1>2, StoppedReferenced
<1> QED BY <1>1, <1>2 DEF ConnDoes

(* or opens one while the messenger shuts down.                            *)
LEMMA ConnClosing ==
  ASSUME ConnTypes, Closing, NEW a, ConnDoes(a), UNCHANGED admin PROVE Closing'
<1>1. CASE UNCHANGED status
  BY <1>1 DEF Closing, Stopping
<1>2. ASSUME NEW k \in Conns, Stops(a, k) PROVE Closing'
  <2>1. /\ status'[k] = "closed"
        /\ \A h \in Handlers : h # k => status'[h] = status[h]
    BY <1>2, NamesDiffer DEF Stops, ConnTypes
  <2> QED BY <2>1, NamesDiffer DEF Closing, Stopping
<1> QED BY <1>1, <1>2 DEF ConnDoes

(* What connections register leaves the listening descriptor alone.        *)
LEMMA CreateOfConn ==
  ASSUME PosixFds, TableTypes, Sized, Masked,
         NEW w \in Workers, NEW f \in Fds, NEW m \in {{"R"}, {"W"}}, NEW h \in Conns,
         CreateFileEvent(w, f, m, h)
  PROVE  /\ Sized' /\ Masked' /\ failed' = failed
         /\ \A u \in Workers : mask'[u][ListenFd] = mask[u][ListenFd]
<1>1. f \in AllFds /\ f # ListenFd /\ h \in Handlers /\ ListenFd \in AllFds
  BY NamesDiffer
<1>2. /\ Sized' /\ Masked' /\ failed' = failed
      /\ \A u \in Workers, g \in AllFds : u # w \/ g # f => mask'[u][g] = mask[u][g]
  BY <1>1, CreateFine
<1> QED BY <1>1, <1>2

(* So does what they take away.                                            *)
LEMMA DeleteOfConn ==
  ASSUME TableTypes, Sized, Masked,
         NEW w \in Workers, NEW f \in Fds, NEW m \in SUBSET {"R", "W"},
         DeleteFileEvent(w, f, m)
  PROVE  /\ Sized' /\ Masked'
         /\ \A u \in Workers : mask'[u][ListenFd] = mask[u][ListenFd]
<1>1. f \in AllFds /\ f # ListenFd /\ ListenFd \in AllFds
  BY NamesDiffer
<1>2. /\ Sized' /\ Masked'
      /\ \A u \in Workers, g \in AllFds :
           mask'[u][g] = IF u = w /\ g = f THEN mask[u][g] \ m ELSE mask[u][g]
  BY <1>1, DeleteFine
<1> QED BY <1>1, <1>2

(* Processor::stop() takes it away.                                        *)
LEMMA UnlistenFine ==
  ASSUME TableTypes, Sized, Masked, NEW w \in Workers, DeleteFileEvent(w, ListenFd, {"R"})
  PROVE  /\ Sized' /\ Masked'
         /\ \A u \in Workers :
              mask'[u][ListenFd] = IF u = w THEN mask[u][ListenFd] \ {"R"} ELSE mask[u][ListenFd]
<1>1. ListenFd \in AllFds
  BY NamesDiffer
<1>2. ASSUME NEW f \in AllFds, NEW m \in SUBSET {"R", "W"}, DeleteFileEvent(w, f, m)
      PROVE  /\ Sized' /\ Masked'
             /\ \A u \in Workers, g \in AllFds :
                  mask'[u][g] = IF u = w /\ g = f THEN mask[u][g] \ m ELSE mask[u][g]
  BY <1>2, DeleteFine
<1>3. {"R"} \in SUBSET {"R", "W"}
  OBVIOUS
<1>4. /\ Sized' /\ Masked'
      /\ \A u \in Workers, g \in AllFds :
           mask'[u][g] = IF u = w /\ g = ListenFd THEN mask[u][g] \ {"R"} ELSE mask[u][g]
  BY <1>1, <1>2, <1>3
<1> QED BY <1>1, <1>4

(* The callbacks of a connection fail no assertion.                        *)
LEMMA CallbackSound ==
  ASSUME PosixFds, Kinds, Leads, Sized, Masked, Referenced, CodeAsserts,
         NEW w, NEW h, NEW timers, Serves(w, h, timers), Callback(w, h, timers)
  PROVE  /\ CodeAsserts' /\ Sized' /\ Masked' /\ ConnDoes(w)
         /\ \A u \in Workers : mask'[u][ListenFd] = mask[u][ListenFd]
<1> DEFINE Same == \A u \in Workers : mask'[u][ListenFd] = mask[u][ListenFd]
<1>1. /\ w \in Workers /\ h \in Conns /\ w = home[h] /\ InUse(h) /\ h \in Handlers
      /\ TableTypes /\ ConnTypes
  BY NamesDiffer DEF Serves, Kinds
<1>2. fd[h] # None => fd[h] \in Fds /\ fd[h] \in AllFds
  BY <1>1, NamesDiffer DEF ConnTypes
<1>3. CASE Quiet(w, h, timers)
  BY <1>3, TablesFine DEF Quiet, ConnDoes, queueVars, connVars, CodeAsserts
<1>4. ASSUME NEW f \in Fds, NEW m \in {{"R"}, {"W"}}, CreateFileEvent(w, f, m, h)
      PROVE  CodeAsserts' /\ Sized' /\ Masked' /\ Same
  BY <1>1, <1>4, CreateOfConn DEF CodeAsserts
<1>5. ASSUME NEW f \in Fds, NEW m \in SUBSET {"R", "W"}, DeleteFileEvent(w, f, m)
      PROVE  Sized' /\ Masked' /\ Same
  BY <1>1, <1>5, DeleteOfConn
<1>6. CASE Register(w, h, timers)
  <2>1. PICK f \in Fds : CreateFileEvent(w, f, {"R"}, h)
    BY <1>2, <1>6 DEF Register, UnusedFds
  <2>2. ConnDoes(w)
    BY <1>6 DEF Register, ConnDoes, queueVars
  <2> QED BY <1>4, <2>1, <2>2
<1>7. CASE OpenWrite(w, h, timers)
  <2>1. fd[h] \in Fds /\ CreateFileEvent(w, fd[h], {"W"}, h)
    BY <1>2, <1>7 DEF OpenWrite
  <2>2. ConnDoes(w)
    BY <1>7 DEF OpenWrite, ConnDoes, queueVars, connVars
  <2> QED BY <1>4, <2>1, <2>2
<1>8. CASE CloseWrite(w, h, timers)
  <2>1. fd[h] \in Fds /\ DeleteFileEvent(w, fd[h], {"W"})
    BY <1>2, <1>8 DEF CloseWrite
  <2>2. ConnDoes(w) /\ failed' = failed
    BY <1>8 DEF CloseWrite, ConnDoes, queueVars, connVars
  <2>3. Sized' /\ Masked' /\ Same
    BY <1>5, <2>1
  <2> QED BY <2>2, <2>3 DEF CodeAsserts
<1>9. CASE Fault(w, h, timers)
  <2>1. /\ CloseSocket(w, h) /\ status[h] = "open"
        /\ UNCHANGED <<references, status, home, failed>>
        /\ UNCHANGED queueVars \/ Dispatch(w, w, Event("read", h))
    BY <1>9 DEF Fault
  <2>2. Sized' /\ Masked' /\ Same
    <3>1. CASE fd[h] = None
      BY <2>1, <3>1, TablesFine DEF CloseSocket
    <3>2. CASE fd[h] # None
      BY <1>2, <1>5, <2>1, <3>2 DEF CloseSocket
    <3> QED BY <3>1, <3>2
  <2>3. ConnDoes(w)
    BY <1>1, <2>1 DEF ConnDoes, queueVars
  <2> QED BY <2>1, <2>2, <2>3 DEF CodeAsserts
<1>10. CASE StopSelf(w, h, timers)
  <2>1. /\ status[h] = "open" /\ Stop(w, h) /\ UNCHANGED <<fileVars, home>>
    BY <1>10 DEF StopSelf
  <2>2. Stops(w, h) /\ failed' = failed
    BY <1>1, <2>1, StopSound
  <2> QED BY <1>1, <2>1, <2>2, TablesFine DEF ConnDoes, CodeAsserts
<1>11. status[h] # "freed"
  BY <1>1 DEF InUse
<1> QED BY <1>3, <1>6, <1>7, <1>8, <1>9, <1>10, <1>11 DEF Callback
-----------------------------------------------------------------------------
(* The queue of a center in a step that takes at most the first event of a *)
(* round and adds at most e behind.                                        *)
Turns(w, e) == Taken(w, {}) /\ (external_events'[w] = external_events[w] \/ Added(w, e))

(* What is queued was, or is e; and fences stand.                          *)
LEMMA TurnQueued ==
  ASSUME QueueTypes, NEW w \in Workers, NEW e \in GoodEvents, Turns(w, e), NEW A, NEW B
  PROVE  /\ Queued(w, A)' => Queued(w, A) \/ (Added(w, e) /\ e \in A)
         /\ /\ Fenced(cur_process[w], external_events[w], A, B)
            /\ Added(w, e) /\ e \in B => ~Queued(w, A)
            => Fenced(cur_process[w], external_events[w], A, B)'
         /\ /\ Fenced(cur_process[w], external_events[w], A, B)
            /\ cur_process'[w] # cur_process[w] /\ Head(cur_process[w]) \in A
            /\ external_events'[w] = external_events[w]
            => ~Queued(w, B)'
<1> DEFINE c == cur_process[w]
           x == external_events[w]
           c2 == cur_process'[w]
           x2 == external_events'[w]
<1>1. c \in Seq(GoodEvents) /\ x \in Seq(GoodEvents)
  BY DEF QueueTypes
<1>2. c2 = c \/ (c # << >> /\ c2 = Tail(c))
  BY DEF Turns, Taken
<1>3. x2 = x \/ x2 = Append(x, e)
  BY DEF Turns, Added
<1>4. Added(w, e) <=> x2 = Append(x, e)
  BY DEF Added
<1>5. /\ Queued(w, A) <=> In(c, A) \/ In(x, A)
      /\ Queued(w, A)' <=> In(c2, A) \/ In(x2, A)
      /\ Queued(w, B)' <=> In(c2, B) \/ In(x2, B)
      /\ Fenced(cur_process[w], external_events[w], A, B)' <=> Fenced(c2, x2, A, B)
  BY DEF Queued
<1> HIDE DEF c, x, c2, x2
<1>6. /\ In(c2, A) => In(c, A)
      /\ In(x2, A) => In(x, A) \/ (x2 = Append(x, e) /\ e \in A)
  <2>1. In(c2, A) => In(c, A)
    <3>1. c # << >> => (In(Tail(c), A) => In(c, A))
      BY <1>1, TailIn
    <3> QED BY <1>2, <3>1
  <2>2. In(x2, A) => In(x, A) \/ (x2 = Append(x, e) /\ e \in A)
    <3>1. In(Append(x, e), A) <=> In(x, A) \/ e \in A
      BY <1>1, AppendedIn
    <3> QED BY <1>3, <3>1
  <2> QED BY <2>1, <2>2
<1>10. ASSUME Fenced(c, x, A, B), x2 # x /\ e \in B => ~In(c, A) /\ ~In(x, A)
       PROVE  Fenced(c2, x2, A, B)
  BY <1>1, <1>2, <1>3, <1>10, QueueStep
<1>7. ASSUME Fenced(c, x, A, B), c2 # c, Head(c) \in A, x2 = x
      PROVE  ~In(c2, B) /\ ~In(x2, B)
  <2>1. c # << >> /\ c2 = Tail(c)
    BY <1>2, <1>7
  <2>2. NoneAfter(c, A, B) /\ (In(c, A) => ~In(x, B))
    BY <1>7 DEF Fenced
  <2>3. /\ In(c, A) <=> Head(c) \in A \/ In(Tail(c), A)
        /\ NoneAfter(c, A, B) /\ Head(c) \in A => ~In(Tail(c), B)
    BY <1>1, <2>1, TailIn
  <2> QED BY <1>7, <2>1, <2>2, <2>3
<1>8. Fenced(cur_process[w], external_events[w], A, B) <=> Fenced(c, x, A, B)
  BY DEF c, x
<1>9. /\ external_events'[w] = external_events[w] <=> x2 = x
      /\ cur_process'[w] = cur_process[w] <=> c2 = c
      /\ Head(cur_process[w]) = Head(c)
  BY DEF c, x, c2, x2
<1>11. Queued(w, A)' => Queued(w, A) \/ (Added(w, e) /\ e \in A)
  BY <1>4, <1>5, <1>6
<1>12. ASSUME Fenced(cur_process[w], external_events[w], A, B),
              Added(w, e) /\ e \in B => ~Queued(w, A)
       PROVE  Fenced(cur_process[w], external_events[w], A, B)'
  BY <1>3, <1>4, <1>5, <1>8, <1>10, <1>12
<1>13. ASSUME Fenced(cur_process[w], external_events[w], A, B),
              cur_process'[w] # cur_process[w], Head(cur_process[w]) \in A,
              external_events'[w] = external_events[w]
       PROVE  ~Queued(w, B)'
  BY <1>5, <1>7, <1>8, <1>9, <1>13
<1> QED BY <1>11, <1>12, <1>13

(* Which events are which.                                                 *)
LEMMA KindsApart ==
  /\ \A k \in Conns : Event("read", k) \in OfConns /\ Event("clean", k) \in OfConns
  /\ OfConns \subseteq GoodEvents /\ LocalClean \subseteq GoodEvents
  /\ Control \subseteq GoodEvents /\ \A x : OfKind(x) \subseteq GoodEvents
  /\ \A e \in OfConns : e \notin Control /\ e \notin LocalClean
  /\ \A e \in LocalClean : e \notin Control
  /\ \A x \in {"listen", "unlisten", "drain"} : OfKind(x) \subseteq Control
  /\ \A e \in Control : e \in OfKind("listen") \/ e \in OfKind("unlisten") \/ e \in OfKind("drain")
  /\ \A e \in GoodEvents : e \in OfConns \/ e \in LocalClean \/ e \in Control
  /\ \A e \in GoodEvents : \A x : e \in OfKind(x) <=> e.kind = x
  /\ \A e \in GoodEvents : e \in LocalClean <=> e.kind = "clean" /\ e.of = Local
  /\ \A e \in GoodEvents : e.kind = "clean" => e.of \in Conns \cup {Local}
  /\ \A e \in GoodEvents : e.kind = "read" => e.of \in Conns
BY NamesDiffer DEF Event, GoodEvents, OfKind, Control, OfConns, LocalClean

(* A center whose events the Admin's progress does not concern: what is    *)
(* queued was queued, what is added is of a connection.                    *)
LEMMA PostedKept ==
  ASSUME QueueTypes, NEW w \in Workers, Posted(w), NEW e \in GoodEvents, Turns(w, e),
         Added(w, e) => e \in OfConns /\ admin \notin Stopping \cup {"draining"},
         admin' = admin, w \in pending' <=> w \in pending, w \in todo' => w \in todo
  PROVE  Posted(w)'
<1>1. Added(w, e) => /\ e \notin Control /\ e \notin LocalClean
                     /\ \A x \in {"listen", "unlisten", "drain"} : e \notin OfKind(x)
  BY KindsApart
<1>2. /\ Queued(w, OfKind("listen"))' => Queued(w, OfKind("listen"))
      /\ Queued(w, OfKind("unlisten"))' => Queued(w, OfKind("unlisten"))
      /\ Queued(w, OfKind("drain"))' => Queued(w, OfKind("drain"))
      /\ Queued(w, LocalClean)' => Queued(w, LocalClean)
      /\ Queued(w, OfConns)' => Queued(w, OfConns) \/ Added(w, e)
      /\ Queued(w, GoodEvents)' => Queued(w, GoodEvents) \/ Added(w, e)
  <2>1. ASSUME NEW A PROVE Queued(w, A)' => Queued(w, A) \/ (Added(w, e) /\ e \in A)
    BY TurnQueued
  <2> QED BY <1>1, <2>1
<1>3. /\ Fenced(cur_process[w], external_events[w], Control, Control)'
      /\ Fenced(cur_process[w], external_events[w], OfKind("drain"), GoodEvents)'
  <2>1. /\ Fenced(cur_process[w], external_events[w], Control, Control)
        /\ Fenced(cur_process[w], external_events[w], OfKind("drain"), GoodEvents)
        /\ Added(w, e) => ~Queued(w, OfKind("drain"))
    BY DEF Posted
  <2> QED BY <1>1, <2>1, TurnQueued
<1> QED BY <1>2, <1>3 DEF Posted

(* Nothing is added where nothing changes.                                 *)
LEMMA NothingAdded ==
  ASSUME QueueTypes, NEW w \in Workers, external_events'[w] = external_events[w],
         NEW e \in GoodEvents
  PROVE  ~Added(w, e)
<1>1. external_events[w] \in Seq(GoodEvents)
  BY DEF QueueTypes
<1>2. Append(external_events[w], e) # external_events[w]
  BY <1>1, AppendedIn
<1> QED BY <1>2 DEF Added

(* What the Admin awaits is not touched by what connections do.            *)
LEMMA AwaitedKept ==
  ASSUME QueueTypes, Awaited, NEW e \in GoodEvents,
         \A w \in Workers :
           /\ Turns(w, e)
           /\ Added(w, e) => e \in OfConns /\ admin \notin Stopping \cup {"draining"},
         UNCHANGED <<admin, todo, pending>>, home'[Listener] = home[Listener]
  PROVE  Awaited'
<1>1. ASSUME NEW w \in Workers PROVE Posted(w)'
  BY <1>1, PostedKept DEF Awaited
<1> QED BY <1>1 DEF Awaited

(* Nor by a step of a connection, given what Closing says of it.           *)
LEMMA ConnAwaited ==
  ASSUME Kinds, Closing, Awaited, NEW a \in Actors, ConnDoes(a),
         UNCHANGED <<admin, todo, pending>>, \A w \in Workers : Taken(w, {})
  PROVE  Awaited'
<1>1. QueueTypes /\ ConnTypes /\ \A k \in Conns : home[k] \in Workers
  BY NamesDiffer DEF Kinds, ConnTypes
<1>2. home' = home
  BY DEF ConnDoes, Stops
<1>3. CASE external_events' = external_events
  <2>1. Event("clean", Local) \in GoodEvents
    BY KindsOfEvents
  <2>2. \A w \in Workers : ~Added(w, Event("clean", Local))
    BY <1>1, <1>3, <2>1, NothingAdded
  <2>3. \A w \in Workers : Turns(w, Event("clean", Local))
    BY <1>3 DEF Turns
  <2> QED BY <1>1, <1>2, <2>1, <2>2, <2>3, AwaitedKept
<1>4. ASSUME NEW k \in Conns, NEW e \in OfConns, status[k] = "open", Dispatch(a, home[k], e)
      PROVE  Awaited'
  <2>1. e \in GoodEvents
    BY KindsApart
  <2>2. \A w \in Workers :
          external_events'[w] = IF w = home[k] THEN Append(external_events[w], e)
                                               ELSE external_events[w]
    BY <1>1, <1>4, <2>1, DispatchTypes
  <2>3. \A w \in Workers : Turns(w, e)
    BY <2>2 DEF Turns, Added
  <2>4. admin \notin Stopping \cup {"draining"}
    BY <1>4 DEF Closing
  <2> QED BY <1>1, <1>2, <2>1, <2>3, <2>4, AwaitedKept
<1>5. \A k \in Conns : Event("read", k) \in OfConns /\ Event("clean", k) \in OfConns
  BY KindsApart
<1> QED BY <1>3, <1>4, <1>5 DEF ConnDoes, Stops
-----------------------------------------------------------------------------
(* Queues that stay, and the queue that becomes the round.                 *)
LEMMA SameQueue ==
  ASSUME NEW w, cur_process'[w] = cur_process[w], external_events'[w] = external_events[w],
         NEW A, NEW B
  PROVE  /\ Queued(w, A)' <=> Queued(w, A)
         /\ Fenced(cur_process[w], external_events[w], A, B)'
              <=> Fenced(cur_process[w], external_events[w], A, B)
BY DEF Queued

(* The round takes the whole queue.                                        *)
LEMMA TakenQueue ==
  ASSUME QueueTypes, NEW w \in Workers, cur_process[w] = << >>,
         cur_process' = [cur_process EXCEPT ![w] = external_events[w]],
         external_events' = [external_events EXCEPT ![w] = << >>],
         NEW v \in Workers, NEW A, NEW B
  PROVE  /\ Queued(v, A)' <=> Queued(v, A)
         /\ Fenced(cur_process[v], external_events[v], A, B)
              => Fenced(cur_process[v], external_events[v], A, B)'
<1>1. CASE v = w
  <2>1. cur_process'[v] = external_events[v] /\ external_events'[v] = << >>
        /\ cur_process[v] = << >>
    BY <1>1 DEF QueueTypes
  <2> QED BY <2>1, EmptyHasNone DEF Queued, Fenced
<1>2. CASE v # w
  BY <1>2, SameQueue DEF QueueTypes
<1> QED BY <1>1, <1>2

(* Nothing follows what is not there.                                      *)
LEMMA NoFence ==
  ASSUME NEW w, NEW A, NEW B, ~Queued(w, A)
  PROVE  Fenced(cur_process[w], external_events[w], A, B)
BY DEF Queued, Fenced, NoneAfter, In

(* Queues hold the same.                                                   *)
LEMMA PostedSame ==
  ASSUME NEW w, Posted(w),
         \A A : Queued(w, A)' <=> Queued(w, A),
         \A A, B : Fenced(cur_process[w], external_events[w], A, B)
                     => Fenced(cur_process[w], external_events[w], A, B)',
         admin' = admin, w \in pending' <=> w \in pending, w \in todo' => w \in todo
  PROVE  Posted(w)'
<1>1. /\ Queued(w, OfKind("listen"))' <=> Queued(w, OfKind("listen"))
      /\ Queued(w, OfKind("unlisten"))' <=> Queued(w, OfKind("unlisten"))
      /\ Queued(w, OfKind("drain"))' <=> Queued(w, OfKind("drain"))
      /\ Queued(w, LocalClean)' <=> Queued(w, LocalClean)
      /\ Queued(w, OfConns)' <=> Queued(w, OfConns)
      /\ Queued(w, GoodEvents)' <=> Queued(w, GoodEvents)
  OBVIOUS
<1>2. /\ Fenced(cur_process[w], external_events[w], Control, Control)'
      /\ Fenced(cur_process[w], external_events[w], OfKind("drain"), GoodEvents)'
  BY DEF Posted
<1> QED BY <1>1, <1>2 DEF Posted

(* The event that the Admin awaits runs.                                   *)
LEMMA ControlRuns ==
  ASSUME QueueTypes, Awaited, NEW w \in Workers,
         cur_process[w] # << >>, Head(cur_process[w]) \in Control,
         cur_process' = [cur_process EXCEPT ![w] = Tail(@)],
         UNCHANGED <<external_events, home, admin, todo>>, pending' = pending \ {w}
  PROVE  /\ Awaited' /\ w \in pending
         /\ ~Queued(w, Control)'
         /\ Head(cur_process[w]).kind = "listen" => admin = "starting"
         /\ Head(cur_process[w]).kind = "unlisten" => admin = "unlistening"
         /\ Head(cur_process[w]).kind = "drain" => admin = "draining"
<1> DEFINE e == Head(cur_process[w])
<1>1. /\ cur_process[w] \in Seq(GoodEvents) /\ e \in GoodEvents
      /\ cur_process'[w] = Tail(cur_process[w]) /\ Tail(cur_process[w]) # cur_process[w]
      /\ \A A : In(cur_process[w], A) <=> e \in A \/ In(Tail(cur_process[w]), A)
  <2>1. cur_process[w] \in Seq(GoodEvents)
    BY DEF QueueTypes
  <2>2. cur_process'[w] = Tail(cur_process[w])
    BY DEF QueueTypes
  <2> QED BY <2>1, <2>2, TailIn
<1>2. \A A : e \in A => Queued(w, A)
  BY <1>1 DEF Queued
<1>3. Turns(w, e) /\ external_events'[w] = external_events[w]
  BY <1>1 DEF Turns, Taken
<1>4. /\ Fenced(cur_process[w], external_events[w], Control, Control)
      /\ Fenced(cur_process[w], external_events[w], OfKind("drain"), GoodEvents)
      /\ Posted(w)
  BY DEF Awaited, Posted
<1>5. ~Queued(w, Control)' /\ (e \in OfKind("drain") => ~Queued(w, GoodEvents)')
  BY <1>1, <1>3, <1>4, TurnQueued
<1>6. ~Added(w, e)
  BY <1>1, <1>3, NothingAdded
<1>7. \A A : Queued(w, A)' => Queued(w, A)
  BY <1>1, <1>3, <1>6, TurnQueued
<1>8. \A x \in {"listen", "unlisten", "drain"} : ~Queued(w, OfKind(x))'
  <2> TAKE x \in {"listen", "unlisten", "drain"}
  <2>1. OfKind(x) \subseteq Control
    BY KindsApart
  <2> QED BY <1>5, <2>1 DEF Queued, In
<1>9. /\ e.kind = "listen" => admin = "starting" /\ w \in pending
      /\ e.kind = "unlisten" => admin = "unlistening" /\ w \in pending
      /\ e.kind = "drain" => admin = "draining" /\ w \in pending \ todo
  <2>1. \A x : e \in OfKind(x) <=> e.kind = x
    BY <1>1, KindsApart
  <2> QED BY <1>2, <1>4, <2>1 DEF Posted
<1>10. /\ e.kind \in {"listen", "unlisten", "drain"}
       /\ e \in OfKind("drain") <=> e.kind = "drain"
  BY <1>1, KindsApart DEF Control
<1>11. Posted(w)'
  <2>1. ~Queued(w, OfKind("listen"))' /\ ~Queued(w, OfKind("unlisten"))'
        /\ ~Queued(w, OfKind("drain"))'
    BY <1>8
  <2>2. /\ Queued(w, LocalClean)' => admin \in Stopping
        /\ Queued(w, OfConns)' => admin \notin Stopping
    BY <1>4, <1>7 DEF Posted
  <2>3. admin = "draining" => ~Queued(w, GoodEvents)'
    BY <1>5, <1>9, <1>10
  <2>4. /\ Fenced(cur_process[w], external_events[w], Control, Control)'
        /\ Fenced(cur_process[w], external_events[w], OfKind("drain"), GoodEvents)'
    BY <1>5, <2>1 DEF Queued, Fenced, NoneAfter, In
  <2> QED BY <2>1, <2>2, <2>3, <2>4 DEF Posted
<1>12. ASSUME NEW u \in Workers, u # w PROVE Posted(u)'
  <2>1. cur_process'[u] = cur_process[u] /\ external_events'[u] = external_events[u]
    BY <1>12 DEF QueueTypes
  <2>2. /\ \A A : Queued(u, A)' <=> Queued(u, A)
        /\ \A A, B : Fenced(cur_process[u], external_events[u], A, B)
                       => Fenced(cur_process[u], external_events[u], A, B)'
    BY <2>1, SameQueue
  <2>3. Posted(u) /\ (u \in pending' <=> u \in pending)
    BY <1>12 DEF Awaited
  <2> QED BY <2>2, <2>3, PostedSame
<1>13. admin = "draining" => w \notin todo
  BY <1>9, <1>10
<1>14. Awaited'
  BY <1>11, <1>12, <1>13 DEF Awaited
<1>15. w \in pending
  BY <1>9, <1>10
<1> QED BY <1>5, <1>9, <1>14, <1>15
-----------------------------------------------------------------------------
(* A center whose event the Admin does not await has none.                 *)
LEMMA NoControl ==
  ASSUME QueueTypes, NEW w \in Workers, Posted(w),
         admin \notin {"starting", "unlistening", "draining"} \/ w \notin pending
           \/ (admin = "draining" /\ w \in todo)
  PROVE  ~Queued(w, Control) /\ \A x \in {"listen", "unlisten", "drain"} : ~Queued(w, OfKind(x))
<1>1. \A x \in {"listen", "unlisten", "drain"} : ~Queued(w, OfKind(x))
  BY DEF Posted
<1>2. ASSUME Queued(w, Control) PROVE FALSE
  <2>1. \A e \in Control :
          e \in OfKind("listen") \/ e \in OfKind("unlisten") \/ e \in OfKind("drain")
    BY KindsApart
  <2>2. ~Queued(w, OfKind("listen")) /\ ~Queued(w, OfKind("unlisten"))
        /\ ~Queued(w, OfKind("drain"))
    BY <1>1
  <2> QED BY <1>2, <2>1, <2>2 DEF Queued, In
<1> QED BY <1>1, <1>2

(* The Admin goes on when what it awaited has run.                         *)
LEMMA AdminGoesOn ==
  ASSUME QueueTypes, NEW w \in Workers, Posted(w),
         cur_process'[w] = cur_process[w], external_events'[w] = external_events[w],
         admin \notin {"starting", "unlistening", "draining"} \/ w \notin pending,
         admin' \in Stopping <=> admin \in Stopping, admin' = "draining" => w \in pending'
  PROVE  Posted(w)'
<1>1. ~Queued(w, Control) /\ \A x \in {"listen", "unlisten", "drain"} : ~Queued(w, OfKind(x))
  BY NoControl
<1>2. /\ \A A : Queued(w, A)' <=> Queued(w, A)
      /\ \A A, B : Fenced(cur_process[w], external_events[w], A, B)'
                     <=> Fenced(cur_process[w], external_events[w], A, B)
  BY SameQueue
<1>3. /\ ~Queued(w, OfKind("listen"))' /\ ~Queued(w, OfKind("unlisten"))'
      /\ ~Queued(w, OfKind("drain"))'
      /\ Queued(w, LocalClean)' <=> Queued(w, LocalClean)
      /\ Queued(w, OfConns)' <=> Queued(w, OfConns)
  BY <1>1, <1>2
<1>4. /\ Fenced(cur_process[w], external_events[w], Control, Control)'
      /\ Fenced(cur_process[w], external_events[w], OfKind("drain"), GoodEvents)'
  BY <1>2 DEF Posted
<1> QED BY <1>3, <1>4 DEF Posted

(* The steps of the Admin that post nothing.                               *)
LEMMA AdminGoesAwaited ==
  ASSUME Kinds, Awaited,
         \/ Started \/ Drain \/ Stopped \/ End
         \/ \E w \in Workers : StopWorker(w) \/ JoinWorker(w)
  PROVE  Awaited'
<1>1. /\ UNCHANGED <<cur_process, external_events, home>>
      /\ \A w \in Workers :
           admin \notin {"starting", "unlistening", "draining"} \/ w \notin pending
      /\ admin' \in Stopping <=> admin \in Stopping
      /\ admin' = "draining" => todo' = Workers /\ pending' = Workers
      /\ admin' \notin {"starting", "unlistening"}
  BY DEF Started, Drain, Stopped, End, StopWorker, JoinWorker, AdminGoes, AdminLeaves,
         queueVars, loopVars, connVars, Stopping
<1>2. ASSUME NEW w \in Workers PROVE Posted(w)'
  BY <1>1, <1>2, AdminGoesOn DEF Awaited, Kinds
<1> QED BY <1>1, <1>2 DEF Awaited

(* It posts one event, to a center that has none of its events.            *)
LEMMA AdminPosts ==
  ASSUME QueueTypes, NEW w \in Workers, Posted(w), NEW v \in Workers, NEW e \in GoodEvents,
         Dispatch(Admin, v, e), UNCHANGED cur_process,
         w = v => ~Queued(w, Control), NEW A
  PROVE  /\ Queued(w, A)' => Queued(w, A) \/ (w = v /\ e \in A)
         /\ Fenced(cur_process[w], external_events[w], Control, Control)'
         /\ Fenced(cur_process[w], external_events[w], OfKind("drain"), GoodEvents)'
<1>1. external_events'[w] = IF w = v THEN Append(external_events[w], e) ELSE external_events[w]
  BY NamesDiffer, DispatchTypes
<1>2. Turns(w, e)
  BY <1>1 DEF Turns, Taken, Added
<1>3. Added(w, e) => w = v
  BY <1>1, NothingAdded
<1>4. w = v => ~Queued(w, OfKind("drain"))
  <2>1. OfKind("drain") \subseteq Control
    BY KindsApart
  <2> QED BY <2>1 DEF Queued, In
<1>5. Queued(w, A)' => Queued(w, A) \/ (w = v /\ e \in A)
  BY <1>2, <1>3, TurnQueued
<1>6. /\ Fenced(cur_process[w], external_events[w], Control, Control)'
      /\ Fenced(cur_process[w], external_events[w], OfKind("drain"), GoodEvents)'
  <2>1. /\ Fenced(cur_process[w], external_events[w], Control, Control)
        /\ Fenced(cur_process[w], external_events[w], OfKind("drain"), GoodEvents)
    BY DEF Posted
  <2> QED BY <1>2, <1>3, <1>4, <2>1, TurnQueued
<1> QED BY <1>5, <1>6

(* Processor::start() and stop(),                                          *)
LEMMA SubmitAwaited ==
  ASSUME Kinds, Awaited, Ready \/ Shutdown PROVE Awaited'
<1>1. PICK x \in {"listen", "unlisten"} :
        /\ Dispatch(Admin, home[Listener], Event(x, Listener))
        /\ x = "listen" => admin = "ready" /\ admin' = "starting"
        /\ x = "unlisten" => admin = "up" /\ admin' = "unlistening"
        /\ pending' = {home[Listener]} /\ UNCHANGED <<cur_process, home>>
  BY DEF Ready, Shutdown, AdminGoes, Submit, AdminLeaves, loopVars, connVars
<1> DEFINE v == home[Listener]
           e == Event(x, Listener)
<1>2. v \in Workers /\ e \in GoodEvents /\ e \in Control /\ e \notin LocalClean
      /\ \A y : e \in OfKind(y) <=> y = x
  <2>1. v \in Workers
    BY NamesDiffer DEF Kinds, ConnTypes
  <2>2. e \in GoodEvents /\ e.kind = x
    BY KindsOfEvents
  <2>3. e \in Control
    BY <2>2 DEF Control
  <2> QED BY <2>1, <2>2, <2>3, KindsApart
<1> HIDE DEF v, e
<1>3. ASSUME NEW w \in Workers PROVE Posted(w)'
  <2>1. QueueTypes /\ Posted(w) /\ admin \notin {"starting", "unlistening", "draining"}
        /\ admin \notin Stopping
    BY <1>1 DEF Kinds, Awaited, Stopping
  <2>2. ~Queued(w, Control) /\ \A y \in {"listen", "unlisten", "drain"} : ~Queued(w, OfKind(y))
    BY <2>1, NoControl
  <2>3. Dispatch(Admin, v, e) /\ cur_process' = cur_process
    BY <1>1 DEF v, e
  <2>4. /\ \A A : Queued(w, A)' => Queued(w, A) \/ (w = v /\ e \in A)
        /\ Fenced(cur_process[w], external_events[w], Control, Control)'
        /\ Fenced(cur_process[w], external_events[w], OfKind("drain"), GoodEvents)'
    BY <1>2, <2>1, <2>2, <2>3, AdminPosts
  <2>5. /\ Queued(w, OfKind("listen"))' => w = v /\ x = "listen"
        /\ Queued(w, OfKind("unlisten"))' => w = v /\ x = "unlisten"
        /\ ~Queued(w, OfKind("drain"))'
        /\ ~Queued(w, LocalClean)'
    <3>1. ~Queued(w, LocalClean)
      BY <2>1 DEF Posted
    <3> QED BY <1>1, <1>2, <2>2, <2>4, <3>1
  <2>6. /\ pending' = {v} /\ admin' \notin Stopping /\ admin' # "draining"
        /\ x = "listen" => admin' = "starting"
        /\ x = "unlisten" => admin' = "unlistening"
    BY <1>1 DEF v, Stopping
  <2> QED BY <2>4, <2>5, <2>6 DEF Posted
<1> QED BY <1>1, <1>3 DEF Awaited

(* drain() for each worker,                                                *)
LEMMA DrainWorkerAwaited ==
  ASSUME Kinds, Awaited, NEW v \in Workers, DrainWorker(v) PROVE Awaited'
<1> DEFINE e == Event("drain", Local)
<1>1. /\ admin = "draining" /\ v \in todo /\ todo' = todo \ {v}
      /\ Dispatch(Admin, v, e) /\ UNCHANGED <<admin, pending, cur_process, home>>
  BY DEF DrainWorker, AdminLeaves, loopVars, connVars
<1>2. /\ e \in GoodEvents /\ e \notin LocalClean
      /\ \A y : e \in OfKind(y) <=> y = "drain"
  <2>1. e \in GoodEvents /\ e.kind = "drain"
    BY KindsOfEvents
  <2> QED BY <2>1, KindsApart
<1> HIDE DEF e
<1>3. ASSUME NEW w \in Workers PROVE Posted(w)'
  <2>1. QueueTypes /\ Posted(w) /\ todo \subseteq pending /\ admin \notin Stopping
    BY <1>1 DEF Kinds, Awaited, Stopping
  <2>2. w = v => ~Queued(w, Control)
    BY <1>1, <2>1, NoControl
  <2>3. /\ \A A : Queued(w, A)' => Queued(w, A) \/ (w = v /\ e \in A)
        /\ Fenced(cur_process[w], external_events[w], Control, Control)'
        /\ Fenced(cur_process[w], external_events[w], OfKind("drain"), GoodEvents)'
    BY <1>1, <1>2, <2>1, <2>2, AdminPosts
  <2>4. /\ Queued(w, OfKind("listen"))' => Queued(w, OfKind("listen"))
        /\ Queued(w, OfKind("unlisten"))' => Queued(w, OfKind("unlisten"))
        /\ Queued(w, OfKind("drain"))' => Queued(w, OfKind("drain")) \/ w = v
        /\ Queued(w, LocalClean)' => Queued(w, LocalClean)
        /\ Queued(w, GoodEvents)' => Queued(w, GoodEvents) \/ w = v
    BY <1>2, <2>3
  <2> QED BY <1>1, <2>1, <2>3, <2>4 DEF Posted
<1> QED BY <1>1, <1>3 DEF Awaited

(* and the last event of all, that of the local connection.                *)
LEMMA DestroyAwaited ==
  ASSUME Kinds, Awaited, Destroy, Stops(Admin, Local) PROVE Awaited'
<1> DEFINE v == home[Local]
           e == Event("clean", Local)
<1>1. /\ admin = "draining" /\ admin' = "stopping" /\ pending = {} /\ pending' = pending
      /\ Dispatch(Admin, v, e) /\ UNCHANGED <<cur_process, home>>
  BY DEF Destroy, AdminGoes, AdminLeaves, loopVars, Stops
<1>2. v \in Workers /\ e \in GoodEvents
  BY NamesDiffer, KindsOfEvents DEF Kinds, ConnTypes
<1>3. e \in LocalClean /\ e \notin OfConns /\ e \notin Control
      /\ \A x \in {"listen", "unlisten", "drain"} : e \notin OfKind(x)
  <2>1. e \in LocalClean
    BY DEF LocalClean
  <2> QED BY <2>1, KindsApart
<1> HIDE DEF v, e
<1>4. ASSUME NEW w \in Workers PROVE Posted(w)'
  <2>1. QueueTypes /\ Posted(w)
    BY DEF Kinds, Awaited
  <2>2. ~Queued(w, GoodEvents)
    BY <1>1, <2>1 DEF Posted
  <2>3. \A A : A \subseteq GoodEvents => ~Queued(w, A)
    BY <2>2 DEF Queued, In
  <2>4. ~Queued(w, Control)
    BY <2>3, KindsApart
  <2>5. /\ \A A : Queued(w, A)' => Queued(w, A) \/ (w = v /\ e \in A)
        /\ Fenced(cur_process[w], external_events[w], Control, Control)'
        /\ Fenced(cur_process[w], external_events[w], OfKind("drain"), GoodEvents)'
    BY <1>1, <1>2, <2>1, <2>4, AdminPosts
  <2>6. \A A : A \subseteq GoodEvents /\ Queued(w, A)' => e \in A
    BY <2>3, <2>5
  <2>7. /\ ~Queued(w, OfKind("listen"))' /\ ~Queued(w, OfKind("unlisten"))'
        /\ ~Queued(w, OfKind("drain"))' /\ ~Queued(w, OfConns)'
    BY <1>3, <2>6, KindsApart
  <2>8. admin' \in Stopping /\ admin' # "draining"
    BY <1>1 DEF Stopping
  <2> QED BY <2>5, <2>7, <2>8 DEF Posted
<1> QED BY <1>1, <1>4 DEF Awaited

(* ~EventCenter() takes events from a queue.                               *)
LEMMA DestroyCenterAwaited ==
  ASSUME Kinds, Awaited, NEW w \in Workers, DestroyCenter(w) PROVE Awaited'
<1>1. /\ admin = "destroying" /\ UNCHANGED <<admin, pending, home, cur_process>>
      /\ \/ UNCHANGED external_events
         \/ /\ external_events[w] # << >>
            /\ external_events' = [external_events EXCEPT ![w] = Tail(@)]
  BY DEF DestroyCenter, loopVars
<1>2. ASSUME NEW v \in Workers PROVE Posted(v)'
  <2>1. QueueTypes /\ Posted(v)
    BY DEF Kinds, Awaited
  <2>2. \A A : In(external_events'[v], A) => In(external_events[v], A)
    <3>1. CASE external_events'[v] = external_events[v]
      BY <3>1
    <3>2. CASE external_events[v] # << >> /\ external_events'[v] = Tail(external_events[v])
      <4>1. external_events[v] \in Seq(GoodEvents)
        BY <2>1 DEF QueueTypes
      <4>2. \A A : In(Tail(external_events[v]), A) => In(external_events[v], A)
        BY <3>2, <4>1, TailIn
      <4> QED BY <3>2, <4>2
    <3>3. external_events'[v] = external_events[v]
          \/ (external_events[v] # << >> /\ external_events'[v] = Tail(external_events[v]))
      BY <1>1, <2>1 DEF QueueTypes
    <3> QED BY <3>1, <3>2, <3>3
  <2>3. \A A : Queued(v, A)' => Queued(v, A)
    BY <1>1, <2>2 DEF Queued
  <2>4. ~Queued(v, Control) /\ \A x \in {"listen", "unlisten", "drain"} : ~Queued(v, OfKind(x))
    BY <1>1, <2>1, NoControl
  <2>5. /\ ~Queued(v, OfKind("listen"))' /\ ~Queued(v, OfKind("unlisten"))'
        /\ ~Queued(v, OfKind("drain"))' /\ ~Queued(v, Control)'
        /\ Queued(v, LocalClean)' => Queued(v, LocalClean)
        /\ Queued(v, OfConns)' => Queued(v, OfConns)
    BY <2>3, <2>4
  <2>6. /\ Fenced(cur_process[v], external_events[v], Control, Control)'
        /\ Fenced(cur_process[v], external_events[v], OfKind("drain"), GoodEvents)'
    BY <2>5 DEF Queued, Fenced, NoneAfter, In
  <2> QED BY <1>1, <2>1, <2>5, <2>6 DEF Posted
<1> QED BY <1>1, <1>2 DEF Awaited
-----------------------------------------------------------------------------
(* The listening socket.                                                   *)
LEMMA ListeningKept ==
  ASSUME Listening, \A u \in Workers : mask'[u][ListenFd] = mask[u][ListenFd],
         home'[Listener] = home[Listener], Unlistened' => Unlistened,
         \A u \in Workers : /\ at'[u] # "fire" => fired_events'[u] = << >>
                            /\ FiresListener(u)' => FiresListener(u)
  PROVE  Listening'
BY DEF Listening

(* The thread moves between rounds.                                        *)
LEMMA FiredStays ==
  ASSUME Listening, UNCHANGED fired_events,
         \A u \in Workers : at'[u] # "fire" => at[u] # "fire" \/ fired_events[u] = << >>
  PROVE  \A u \in Workers : /\ at'[u] # "fire" => fired_events'[u] = << >>
                            /\ FiresListener(u)' => FiresListener(u)
BY DEF Listening, FiresListener

(* A socket that fires while it is registered keeps it open for accept().  *)
LEMMA ListenerFires ==
  ASSUME Listening, LoopTypes, NEW w \in Workers, fired_events[w] # << >>,
         Head(fired_events[w]).fd = ListenFd
  PROVE  ~Unlistened
<1>1. fired_events[w] \in Seq(FiredRecords)
  BY DEF LoopTypes, FiredRecords
<1>2. 1 \in DOMAIN fired_events[w] /\ Head(fired_events[w]) = fired_events[w][1]
  BY <1>1, LenProperties, EmptySeq, HeadTailProperties
<1>3. FiresListener(w)
  BY <1>2 DEF FiresListener
<1> QED BY <1>3 DEF Listening

(* What fires: sequences without the listening socket.                     *)
NoListen(s) == \A i \in DOMAIN s : s[i].fd # ListenFd

(* Joined they have none,                                                  *)
LEMMA NoListenJoins ==
  ASSUME NEW S, NEW s \in Seq(S), NEW t \in Seq(S), NoListen(s), NoListen(t)
  PROVE  NoListen(s \o t)
<1> SUFFICES ASSUME NEW i \in DOMAIN (s \o t) PROVE (s \o t)[i].fd # ListenFd
  BY DEF NoListen
<1>1. /\ Len(s) \in Nat /\ Len(t) \in Nat /\ DOMAIN s = 1..Len(s) /\ DOMAIN t = 1..Len(t)
      /\ s \o t \in Seq(S)
  BY LenProperties, ConcatProperties
<1>2. /\ Len(s \o t) = Len(s) + Len(t) /\ DOMAIN (s \o t) = 1..Len(s \o t)
      /\ \A j \in 1 .. Len(s) + Len(t) :
           (s \o t)[j] = IF j <= Len(s) THEN s[j] ELSE t[j - Len(s)]
  BY <1>1, ConcatProperties, LenProperties
<1>3. i \in 1..(Len(s) + Len(t))
  BY <1>2
<1>4. CASE i <= Len(s)
  BY <1>1, <1>2, <1>3, <1>4 DEF NoListen
<1>5. CASE ~(i <= Len(s))
  <2>1. i - Len(s) \in DOMAIN t
    BY <1>1, <1>3, <1>5
  <2> QED BY <1>2, <1>3, <1>5, <2>1 DEF NoListen
<1> QED BY <1>4, <1>5

(* nor has what is left of one,                                            *)
LEMMA NoListenTail ==
  ASSUME NEW S, NEW s \in Seq(S), s # << >>, NoListen(s)
  PROVE  NoListen(Tail(s))
<1> SUFFICES ASSUME NEW i \in DOMAIN Tail(s) PROVE Tail(s)[i].fd # ListenFd
  BY DEF NoListen
<1>1. Len(s) \in Nat \ {0} /\ DOMAIN s = 1..Len(s)
  BY LenProperties, EmptySeq
<1>2. Tail(s) \in Seq(S) /\ Len(Tail(s)) = Len(s) - 1
      /\ \A j \in 1 .. Len(Tail(s)) : Tail(s)[j] = s[j + 1]
  BY HeadTailProperties
<1>3. DOMAIN Tail(s) = 1..Len(Tail(s))
  BY <1>2, LenProperties
<1>4. i + 1 \in DOMAIN s /\ Tail(s)[i] = s[i + 1]
  BY <1>1, <1>2, <1>3
<1> QED BY <1>4 DEF NoListen

(* nor the shortest.                                                       *)
LEMMA NoListenOne ==
  ASSUME NEW x, x.fd # ListenFd PROVE NoListen(<<x>>) /\ NoListen(<< >>)
BY DEF NoListen

(* The one change of fired_events at w: what it held, less its head, and   *)
(* nothing new of the listening socket.                                    *)
LEMMA FiredChanges ==
  ASSUME Listening, LoopTypes, NEW w \in Workers, NEW s,
         fired_events' = [fired_events EXCEPT ![w] = s], at' = at, at[w] = "fire",
         NoListen(fired_events[w]) => NoListen(s)
  PROVE  \A u \in Workers : /\ at'[u] # "fire" => fired_events'[u] = << >>
                            /\ FiresListener(u)' => FiresListener(u)
<1> TAKE u \in Workers
<1>1. CASE u = w
  <2>1. fired_events'[u] = s
    BY <1>1 DEF LoopTypes
  <2> QED BY <1>1, <2>1 DEF FiresListener, NoListen
<1>2. CASE u # w
  <2>1. fired_events'[u] = fired_events[u]
    BY <1>2 DEF LoopTypes
  <2> QED BY <2>1 DEF FiresListener, Listening
<1> QED BY <1>1, <1>2

(* Steps that leave tables, connections and the Admin alone.               *)
LEMMA IdleSound ==
  ASSUME Sound, UNCHANGED <<fileVars, references, connVars, failed, admin>>
  PROVE  /\ CodeAsserts' /\ Sized' /\ Masked' /\ Referenced' /\ Closing'
         /\ home' = home /\ \A u \in Workers : mask'[u][ListenFd] = mask[u][ListenFd]
<1>1. CodeAsserts' /\ Sized' /\ Masked'
  BY TablesFine DEF Sound, CodeAsserts
<1>2. \A u \in Workers : mask'[u][ListenFd] = mask[u][ListenFd]
  BY DEF fileVars
<1>3. Referenced'
  BY DEF Sound, Referenced, OpenAt, connVars
<1>4. Closing' /\ home' = home
  BY DEF Sound, Closing, connVars, Stopping
<1> QED BY <1>1, <1>2, <1>3, <1>4

(* And the queues.                                                         *)
LEMMA QuietAwaited ==
  ASSUME Awaited, UNCHANGED <<external_events, cur_process, home, admin, todo, pending>>
  PROVE  Awaited'
<1>1. ASSUME NEW w \in Workers PROVE Posted(w)'
  <2>1. /\ \A A : Queued(w, A)' <=> Queued(w, A)
        /\ \A A, B : Fenced(cur_process[w], external_events[w], A, B)
                       => Fenced(cur_process[w], external_events[w], A, B)'
    BY SameQueue
  <2> QED BY <1>1, <2>1, PostedSame DEF Awaited
<1> QED BY <1>1 DEF Awaited

(* The worker's loop.                                                      *)
LEMMA RoundSound ==
  ASSUME Sound, Lives, NEW w \in Workers,
         (\E a \in Actors : Wakeup(a)) \/ StartRound(w) \/ Exit(w)
  PROVE  Sound'
<1>1. /\ UNCHANGED <<fileVars, references, connVars, failed, admin, todo, pending,
                     external_events, cur_process, fired_events>>
      /\ at' = at \/ \E x : x # "fire" /\ at[w] # "fire" /\ at' = [at EXCEPT ![w] = x]
  BY DEF Wakeup, StartRound, Exit, queueVars, loopVars, adminVars
<1>2. \A u \in Workers : at'[u] # "fire" => at[u] # "fire"
  BY <1>1 DEF Lives, Kinds, LoopTypes
<1>3. Listening'
  BY <1>1, <1>2, IdleSound, FiredStays, ListeningKept DEF Sound, Unlistened, Stopping
<1>4. Awaited'
  BY <1>1, QuietAwaited DEF Sound, connVars
<1> QED BY <1>1, <1>3, <1>4, IdleSound DEF Sound

(* event_wait() reports the listening socket only while it is registered.  *)
LEMMA EventWaitSound ==
  ASSUME Sound, Lives, NEW w \in Workers, EventWait(w) PROVE Sound'
<1>1. /\ UNCHANGED <<fileVars, references, connVars, failed, admin, todo, pending,
                     external_events, cur_process>>
      /\ at' = [at EXCEPT ![w] = "fire"]
  BY DEF EventWait, queueVars, adminVars
<1>2. PICK s \in SocketFires(w), l \in ListenFires(w), n \in NotifyFires(w) :
        \E order \in {n \o l \o s, l \o s \o n} :
          fired_events' = [fired_events EXCEPT ![w] = order]
  BY DEF EventWait
<1>3. s \in Seq(FiredRecords) /\ l \in Seq(FiredRecords) /\ n \in Seq(FiredRecords)
  BY FiresAreFired
<1>4. NoListen(s) /\ NoListen(n)
  <2>1. NoListen(<< >>)
    BY DEF NoListen
  <2>2. \A x \in ReadyFds(w) : x.fd # ListenFd
    BY NamesDiffer DEF ReadyFds, Firing, Fired
  <2>3. Fired(NotifyFd, {"R"}).fd # ListenFd
    BY NotifyFdDiffers DEF Fired
  <2> QED BY <2>1, <2>2, <2>3, NoListenOne DEF SocketFires, NotifyFires
<1>5. mask[w][ListenFd] = {} => NoListen(l)
  BY DEF ListenFires, NoListen
<1>6. PICK order : /\ fired_events' = [fired_events EXCEPT ![w] = order]
                   /\ mask[w][ListenFd] = {} => NoListen(order)
  <2>1. NoListen(l) => NoListen(n \o l \o s) /\ NoListen(l \o s \o n)
    <3>1. n \o l \in Seq(FiredRecords) /\ l \o s \in Seq(FiredRecords)
      BY <1>3, ConcatProperties
    <3>2. NoListen(l) => NoListen(n \o l) /\ NoListen(l \o s)
      BY <1>3, <1>4, NoListenJoins
    <3> QED BY <1>3, <1>4, <3>1, <3>2, NoListenJoins
  <2> QED BY <1>2, <1>5, <2>1
<1>7. Listening'
  <2>1. ASSUME NEW u \in Workers
        PROVE  /\ at'[u] # "fire" => fired_events'[u] = << >>
               /\ FiresListener(u)' => mask[u][ListenFd] # {}
    <3>1. CASE u = w
      <4>1. at'[u] = "fire" /\ fired_events'[u] = order
        BY <1>1, <1>6, <3>1 DEF Lives, Kinds, LoopTypes
      <4> QED BY <1>6, <3>1, <4>1 DEF FiresListener, NoListen
    <3>2. CASE u # w
      <4>1. at'[u] = at[u] /\ fired_events'[u] = fired_events[u]
        BY <1>1, <1>6, <3>2 DEF Lives, Kinds, LoopTypes
      <4> QED BY <4>1 DEF Sound, Listening, FiresListener
    <3> QED BY <3>1, <3>2
  <2> QED BY <1>1, <2>1 DEF Sound, Listening, fileVars, connVars, Unlistened, Stopping
<1>8. Awaited'
  BY <1>1, QuietAwaited DEF Sound, connVars
<1> QED BY <1>1, <1>7, <1>8, IdleSound DEF Sound

(* The notify pipe is not the listening socket.                            *)
LEMMA DrainNotifySound ==
  ASSUME Sound, Lives, NEW w \in Workers, DrainNotify(w) PROVE Sound'
<1>1. /\ UNCHANGED <<fileVars, references, connVars, failed, admin, todo, pending,
                     external_events, cur_process, at>>
      /\ at[w] = "fire" /\ fired_events[w] # << >>
      /\ fired_events' = [fired_events EXCEPT ![w] = Tail(fired_events[w])]
  BY DEF DrainNotify, adminVars
<1>2. LoopTypes /\ fired_events[w] \in Seq(FiredRecords)
  BY DEF Lives, Kinds, LoopTypes, FiredRecords
<1>3. NoListen(fired_events[w]) => NoListen(Tail(fired_events[w]))
  BY <1>1, <1>2, NoListenTail
<1>4. Listening'
  <2>1. \A u \in Workers : /\ at'[u] # "fire" => fired_events'[u] = << >>
                           /\ FiresListener(u)' => FiresListener(u)
    BY <1>1, <1>2, <1>3, FiredChanges DEF Sound
  <2> QED BY <1>1, <2>1, IdleSound, ListeningKept DEF Sound, Unlistened, Stopping
<1>5. Awaited'
  BY <1>1, QuietAwaited DEF Sound, connVars
<1> QED BY <1>1, <1>4, <1>5, IdleSound DEF Sound

(* The queue becomes the round, nothing else.                              *)
LEMMA TakeExternalSound ==
  ASSUME Sound, Lives, Loop, NEW w \in Workers, TakeExternal(w) PROVE Sound'
<1>1. /\ UNCHANGED <<fileVars, references, connVars, failed, admin, todo, pending,
                     fired_events>>
      /\ at[w] = "fire" /\ fired_events[w] = << >>
      /\ \E x : at' = [at EXCEPT ![w] = x]
  BY DEF TakeExternal, adminVars
<1>2. \A u \in Workers : at'[u] # "fire" => at[u] # "fire" \/ fired_events[u] = << >>
  BY <1>1 DEF Lives, Kinds, LoopTypes
<1>3. Listening'
  BY <1>1, <1>2, IdleSound, FiredStays, ListeningKept DEF Sound, Unlistened, Stopping
<1>4. Awaited'
  <2>1. cur_process[w] = << >> /\ home' = home
    BY <1>1 DEF Loop, RunsOnlyTaken, connVars
  <2>2. CASE UNCHANGED <<cur_process, external_events>>
    BY <1>1, <2>1, <2>2, QuietAwaited DEF Sound
  <2>3. CASE /\ cur_process' = [cur_process EXCEPT ![w] = external_events[w]]
             /\ external_events' = [external_events EXCEPT ![w] = << >>]
    <3>1. ASSUME NEW v \in Workers PROVE Posted(v)'
      <4>1. QueueTypes
        BY DEF Lives, Kinds
      <4>2. /\ \A A : Queued(v, A)' <=> Queued(v, A)
            /\ \A A, B : Fenced(cur_process[v], external_events[v], A, B)
                           => Fenced(cur_process[v], external_events[v], A, B)'
        BY <2>1, <2>3, <4>1, TakenQueue
      <4>3. Posted(v)
        BY DEF Sound, Awaited
      <4> QED BY <1>1, <4>2, <4>3, PostedSame
    <3> QED BY <1>1, <2>1, <3>1 DEF Sound, Awaited
  <2> QED BY <2>2, <2>3 DEF TakeExternal
<1> QED BY <1>1, <1>3, <1>4, IdleSound DEF Sound
-----------------------------------------------------------------------------
(* The start.                                                              *)
LEMMA SoundInit == Init => Sound
<1> SUFFICES ASSUME Init PROVE Sound
  OBVIOUS
<1>1. CodeAsserts /\ Masked
  BY DEF Init, CodeAsserts, Masked
<1>2. Sized
  <2>1. FourTo[0] = 1 /\ 0 \in Nat
    BY FourToDef
  <2>2. \A w \in Workers : nevent[w] = InitEvents
    BY DEF Init
  <2>3. InitEvents = InitEvents * FourTo[0]
    BY <2>1, FdsAreNat
  <2> QED BY <2>1, <2>2, <2>3 DEF Sized
<1>3. Referenced
  <2> SUFFICES ASSUME NEW w \in Workers
               PROVE  IsFiniteSet(OpenAt(w)) /\ Cardinality(OpenAt(w)) <= references[w]
    BY DEF Referenced
  <2>1. \A h \in Conns \cup {Local} : (status[h] = "open" <=> h = Local) /\ home[h] = 0
    BY NamesDiffer DEF Init
  <2>2. references[w] = IF w = 0 THEN 1 ELSE 0
    BY DEF Init
  <2>3. CASE w = 0
    <3>1. OpenAt(w) = {Local}
      BY <2>1, <2>3 DEF OpenAt
    <3>2. IsFiniteSet(OpenAt(w)) /\ Cardinality(OpenAt(w)) = 1
      BY <3>1, FS_Singleton
    <3> QED BY <2>2, <2>3, <3>2
  <2>4. CASE w # 0
    <3>1. OpenAt(w) = {}
      BY <2>1, <2>4 DEF OpenAt
    <3>2. IsFiniteSet(OpenAt(w)) /\ Cardinality(OpenAt(w)) = 0
      BY <3>1, FS_EmptySet
    <3> QED BY <2>2, <2>4, <3>2
  <2> QED BY <2>3, <2>4
<1>4. Closing
  BY NamesDiffer DEF Init, Closing, Stopping
<1>5. Listening
  <2>1. ListenFd \in AllFds
    BY NamesDiffer
  <2>2. \A w \in Workers : mask[w][ListenFd] = {} /\ fired_events[w] = << >>
    BY <2>1 DEF Init
  <2> QED BY <2>2 DEF Listening, FiresListener
<1>6. Awaited
  <2>1. ASSUME NEW w \in Workers, NEW A, NEW B
        PROVE  ~Queued(w, A) /\ Fenced(cur_process[w], external_events[w], A, B)
    BY EmptyHasNone DEF Init, Queued, Fenced
  <2>2. \A w \in Workers : Posted(w)
    BY <2>1 DEF Posted
  <2> QED BY <2>2 DEF Init, Awaited
<1> QED BY <1>1, <1>2, <1>3, <1>4, <1>5, <1>6 DEF Sound

(* Processor::accept(): it still listens, so connections may open.         *)
LEMMA AcceptSound ==
  ASSUME PosixFds, Sound, Lives, Lives', NEW w \in Workers, Accept(w) PROVE Sound'
<1> DEFINE v == LeastLoaded
<1>0. /\ v \in Workers /\ w \in Actors /\ Kinds /\ ConnTypes /\ ConnTypes' /\ QueueTypes
      /\ LoopTypes /\ fired_events[w] \in Seq(FiredRecords)
  BY LeastLoadedIsWorker, NamesDiffer DEF Lives, Kinds, ConnTypes, LoopTypes, FiredRecords
<1>1. /\ fired_events[w] # << >> /\ Head(fired_events[w]).fd = ListenFd /\ at[w] = "fire"
      /\ references' = [references EXCEPT ![v] = @ + 1]
      /\ UNCHANGED <<fileVars, time_events, at, cur_process, admin, todo, pending, failed>>
      /\ \/ /\ fired_events' = [fired_events EXCEPT ![w] = Tail(@)]
            /\ UNCHANGED <<queueVars, connVars>>
         \/ \E h \in Incoming :
              /\ status' = [status EXCEPT ![h] = "open"]
              /\ home' = [home EXCEPT ![h] = v]
              /\ Dispatch(w, v, Event("read", h))
              /\ UNCHANGED fired_events
  BY DEF Accept, PosixFds, adminVars
<1> HIDE DEF v
<1>2. admin \notin Stopping \cup {"draining"}
  <2>1. ~Unlistened
    BY <1>0, <1>1, ListenerFires DEF Sound
  <2> QED BY <2>1 DEF Unlistened
<1>3. CodeAsserts' /\ Sized' /\ Masked'
      /\ \A u \in Workers : mask'[u][ListenFd] = mask[u][ListenFd]
  BY <1>1, TablesFine DEF Sound, CodeAsserts
<1>4. CASE /\ fired_events' = [fired_events EXCEPT ![w] = Tail(@)]
           /\ UNCHANGED <<queueVars, connVars>>
  <2>1. NoListen(fired_events[w]) => NoListen(Tail(fired_events[w]))
    BY <1>0, <1>1, NoListenTail
  <2>2. \A u \in Workers : /\ at'[u] # "fire" => fired_events'[u] = << >>
                           /\ FiresListener(u)' => FiresListener(u)
    BY <1>0, <1>1, <1>4, <2>1, FiredChanges DEF Sound
  <2>3. Listening'
    BY <1>1, <1>3, <1>4, <2>2, ListeningKept DEF Sound, connVars, Unlistened, Stopping
  <2>4. Awaited'
    BY <1>1, <1>4, QuietAwaited DEF Sound, connVars, queueVars
  <2>5. Referenced'
    <3>1. \A u \in Workers : references[u] <= references'[u]
      BY <1>0, <1>1 DEF ConnTypes
    <3> QED BY <1>0, <1>4, <3>1, FewerReferenced DEF Sound, connVars
  <2>6. Closing'
    BY <1>1, <1>4 DEF Sound, Closing, Stopping, connVars
  <2> QED BY <1>3, <2>3, <2>4, <2>5, <2>6 DEF Sound
<1>5. ASSUME NEW h \in Incoming,
             status' = [status EXCEPT ![h] = "open"], home' = [home EXCEPT ![h] = v],
             Dispatch(w, v, Event("read", h)), UNCHANGED fired_events
      PROVE  Sound'
  <2>1. h \in Conns /\ h \in Handlers /\ h # Listener /\ h # Local /\ status[h] = "incoming"
    BY NamesDiffer DEF Incoming
  <2>2. home'[Listener] = home[Listener] /\ status'[Local] = status[Local]
    BY <1>5, <2>1, NamesDiffer, <1>0 DEF ConnTypes
  <2>3. Listening'
    <3>1. \A u \in Workers : /\ at'[u] # "fire" => fired_events'[u] = << >>
                             /\ FiresListener(u)' => FiresListener(u)
      BY <1>1, <1>5, FiredStays DEF Sound
    <3> QED BY <1>1, <1>3, <2>2, <3>1, ListeningKept DEF Sound, Unlistened, Stopping
  <2>4. Awaited'
    <3> DEFINE e == Event("read", h)
    <3>1. e \in GoodEvents /\ e \in OfConns
      BY <2>1, KindsApart
    <3>2. \A u \in Workers :
            external_events'[u] = IF u = v THEN Append(external_events[u], e)
                                           ELSE external_events[u]
      BY <1>0, <1>5, <3>1, DispatchTypes
    <3>3. \A u \in Workers : Turns(u, e)
      BY <1>1, <3>2 DEF Turns, Taken, Added
    <3> QED BY <1>0, <1>1, <1>2, <2>2, <3>1, <3>3, AwaitedKept DEF Sound
  <2>5. Referenced'
    <3>1. Opens(h, v)
      BY <1>1, <1>5, <2>1 DEF Opens
    <3> QED BY <1>0, <2>1, <3>1, OpenedReferenced DEF Sound
  <2>6. Closing'
    BY <1>1, <1>2, <2>2 DEF Sound, Closing
  <2> QED BY <1>3, <2>3, <2>4, <2>5, <2>6 DEF Sound
<1> QED BY <1>1, <1>4, <1>5

(* A callback of a connection, in whatever place of the round.             *)
LEMMA ServedSound ==
  ASSUME PosixFds, Sound, Lives, Lives', NEW w \in Workers, NEW h, NEW timers,
         Serves(w, h, timers), Callback(w, h, timers),
         UNCHANGED <<admin, todo, pending>>, \A u \in Workers : Taken(u, {}),
         \A u \in Workers : /\ at'[u] # "fire" => fired_events'[u] = << >>
                            /\ FiresListener(u)' => FiresListener(u)
  PROVE  Sound'
<1>1. Kinds /\ Leads /\ ConnTypes /\ ConnTypes' /\ w \in Actors
  BY NamesDiffer DEF Lives, Kinds
<1>2. /\ CodeAsserts' /\ Sized' /\ Masked' /\ ConnDoes(w)
      /\ \A u \in Workers : mask'[u][ListenFd] = mask[u][ListenFd]
  BY <1>1, CallbackSound DEF Sound
<1>3. Referenced' /\ Closing'
  BY <1>1, <1>2, ConnReferenced, ConnClosing DEF Sound
<1>4. Awaited'
  BY <1>1, <1>2, ConnAwaited DEF Sound
<1>5. home' = home
  BY <1>2 DEF ConnDoes, Stops
<1>6. Listening'
  BY <1>2, <1>5, ListeningKept DEF Sound, Unlistened, Stopping
<1> QED BY <1>2, <1>3, <1>4, <1>6 DEF Sound

(* A fired descriptor that is still registered has a callback.             *)
LEMMA FireSocketSound ==
  ASSUME PosixFds, Sound, Lives, Lives', NEW w \in Workers, FireSocket(w) PROVE Sound'
<1> DEFINE x == Head(fired_events[w])
           kind == IF "R" \in x.ready THEN "R" ELSE "W"
           cb == IF kind = "R" THEN read_cb[w][x.fd] ELSE write_cb[w][x.fd]
           rest == IF x.ready = {kind} THEN Tail(fired_events[w])
                   ELSE <<Fired(x.fd, x.ready \ {kind})>> \o Tail(fired_events[w])
<1>1. /\ fired_events[w] # << >> /\ x.fd \in Fds /\ at[w] = "fire"
      /\ fired_events' = [fired_events EXCEPT ![w] = rest]
      /\ UNCHANGED <<at, cur_process, admin, todo, pending>>
      /\ \/ UNCHANGED <<queueVars, fileVars, references, connVars, failed>>
         \/ kind \in mask[w][x.fd] /\ cb = None
         \/ cb # None /\ Callback(w, cb, time_events[w])
  BY DEF FireSocket, adminVars
<1>2. x.fd \in AllFds /\ x.fd # ListenFd
  BY <1>1, NamesDiffer
<1>3. \A u \in Workers : /\ at'[u] # "fire" => fired_events'[u] = << >>
                         /\ FiresListener(u)' => FiresListener(u)
  <2>1. fired_events[w] \in Seq(FiredRecords) /\ LoopTypes
    BY DEF Lives, Kinds, LoopTypes, FiredRecords
  <2>2. Tail(fired_events[w]) \in Seq(FiredRecords) /\ x \in FiredRecords
    BY <1>1, <2>1, HeadTailProperties
  <2> DEFINE y == Fired(x.fd, x.ready \ {kind})
  <2>3. y \in FiredRecords /\ y.fd # ListenFd
    BY <1>2, <2>2 DEF FiredRecords, Fired
  <2> HIDE DEF y
  <2>4. <<y>> \in Seq(FiredRecords) /\ NoListen(<<y>>)
    BY <2>3, NoListenOne
  <2>5. NoListen(fired_events[w]) => NoListen(Tail(fired_events[w]))
    BY <1>1, <2>1, NoListenTail
  <2>6. NoListen(Tail(fired_events[w])) => NoListen(<<y>> \o Tail(fired_events[w]))
    BY <2>2, <2>4, NoListenJoins
  <2>7. NoListen(fired_events[w]) => NoListen(rest)
    BY <2>5, <2>6 DEF y
  <2> HIDE DEF rest
  <2> QED BY <1>1, <2>1, <2>7, FiredChanges DEF Sound
<1>4. /\ cb \in Callbacks /\ cb # Listener
      /\ cb = read_cb[w][x.fd] \/ cb = write_cb[w][x.fd]
      /\ kind \in mask[w][x.fd] => cb # None
  <2> DEFINE f == x.fd
  <2>1. f \in Fds /\ f \in AllFds
    BY <1>1, <1>2
  <2> HIDE DEF x, f
  <2>2. /\ read_cb[w][f] \in Callbacks /\ read_cb[w][f] # Listener
        /\ write_cb[w][f] \in Callbacks /\ write_cb[w][f] # Listener
    BY <2>1 DEF Lives, Kinds, TableTypes
  <2>3. /\ "R" \in mask[w][f] => read_cb[w][f] # None
        /\ "W" \in mask[w][f] => write_cb[w][f] # None
    BY <2>1 DEF Sound, Masked
  <2> QED BY <2>2, <2>3 DEF f
<1> HIDE DEF cb, rest, kind, x
<1>5. CASE UNCHANGED <<queueVars, fileVars, references, connVars, failed>>
  <2>1. Listening'
    BY <1>1, <1>3, <1>5, IdleSound, ListeningKept DEF Sound, Unlistened, Stopping
  <2>2. Awaited'
    BY <1>1, <1>5, QuietAwaited DEF Sound, connVars, queueVars
  <2> QED BY <1>1, <1>5, <2>1, <2>2, IdleSound DEF Sound
<1>6. CASE cb # None /\ Callback(w, cb, time_events[w])
  <2>1. cb \in Conns
    BY <1>4, <1>6 DEF Callbacks
  <2>2. w = home[cb] /\ InUse(cb)
    BY <1>2, <1>4, <2>1 DEF Lives, Leads, FilesLead
  <2>3. Serves(w, cb, time_events[w])
    BY <2>1, <2>2, ServesNow
  <2>4. \A u \in Workers : Taken(u, {})
    BY <1>1 DEF Taken
  <2> QED BY <1>1, <1>3, <1>6, <2>3, <2>4, ServedSound
<1> QED BY <1>1, <1>4, <1>5, <1>6

(* A timer calls a connection that is in use.                              *)
LEMMA RunTimerSound ==
  ASSUME PosixFds, Sound, Lives, Lives', NEW w \in Workers, RunTimer(w) PROVE Sound'
<1> DEFINE h == Head(time_events[w])
           timers == Tail(time_events[w])
<1>1. /\ time_events[w] # << >> /\ Callback(w, h, timers)
      /\ UNCHANGED <<at, fired_events, cur_process, admin, todo, pending>>
  BY DEF RunTimer, loopVars, adminVars
<1>2. time_events[w] \in Seq(Conns) /\ Once(time_events[w])
  BY DEF Lives, Kinds, ConnTypes, Leads, TimersLead
<1>3. /\ timers \in Seq(Conns) /\ h \in Conns /\ Once(timers)
      /\ \A k : Occurs(timers, k) <=> Occurs(time_events[w], k) /\ k # h
  BY <1>1, <1>2, TailOnce
<1>4. Occurs(time_events[w], h)
  <2>1. 1 \in DOMAIN time_events[w] /\ time_events[w][1] = h
    BY <1>1, <1>2, HeadTailProperties, LenProperties, EmptySeq
  <2> QED BY <2>1 DEF Occurs
<1> HIDE DEF h, timers
<1>5. w = home[h] /\ InUse(h)
  BY <1>3, <1>4 DEF Lives, Leads, TimersLead
<1>6. Serves(w, h, timers)
  BY <1>3, <1>5 DEF Serves
<1>7. \A u \in Workers : /\ at'[u] # "fire" => fired_events'[u] = << >>
                         /\ FiresListener(u)' => FiresListener(u)
  BY <1>1, FiredStays DEF Sound
<1>8. \A u \in Workers : Taken(u, {})
  BY <1>1 DEF Taken
<1> QED BY <1>1, <1>6, <1>7, <1>8, ServedSound
-----------------------------------------------------------------------------
(* External events.                                                        *)
LEMMA RunExternalFired ==
  ASSUME Listening, LoopTypes, NEW w \in Workers, RunExternal(w)
  PROVE  /\ \A u \in Workers : /\ at'[u] # "fire" => fired_events'[u] = << >>
                               /\ FiresListener(u)' => FiresListener(u)
         /\ ~FiresListener(w)
<1>1. /\ at[w] = "run" /\ UNCHANGED fired_events
      /\ \E x : at' = [at EXCEPT ![w] = x]
  BY DEF RunExternal
<1>2. \A u \in Workers : at'[u] # "fire" => at[u] # "fire" \/ fired_events[u] = << >>
  BY <1>1 DEF LoopTypes
<1>3. ~FiresListener(w)
  BY <1>1 DEF Listening, FiresListener
<1> QED BY <1>1, <1>2, <1>3, FiredStays

(* process() for an event calls a connection that is in use.               *)
LEMMA RunReadSound ==
  ASSUME PosixFds, Sound, Lives, Lives', NEW w \in Workers, RunExternal(w),
         Head(cur_process[w]).kind = "read"
  PROVE  Sound'
<1> DEFINE e == Head(cur_process[w])
           h == e.of
<1>1. /\ Callback(w, h, time_events[w]) /\ UNCHANGED <<pending, admin, todo>>
  BY DEF RunExternal
<1>2. /\ e \in GoodEvents /\ In(cur_process[w], {e}) /\ \A u \in Workers : Taken(u, {})
  BY RunExternalTypes
<1>3. h \in Conns
  BY <1>2, KindsApart
<1>4. e \in Of(h)
  BY <1>2, <1>3, KindsOfEvents
<1> HIDE DEF e
<1>5. Queued(w, Of(h))
  BY <1>2, <1>4, InMore DEF Queued
<1> HIDE DEF h
<1>6. w = home[h] /\ InUse(h)
  BY <1>3, <1>5 DEF Lives, Leads, EventsLead, EventsLeadTo
<1>7. Serves(w, h, time_events[w])
  BY <1>3, <1>6, ServesNow
<1>8. \A u \in Workers : /\ at'[u] # "fire" => fired_events'[u] = << >>
                         /\ FiresListener(u)' => FiresListener(u)
  BY RunExternalFired DEF Sound, Lives, Kinds
<1> QED BY <1>1, <1>2, <1>7, <1>8, ServedSound

(* cleanup(), of the local connection only at the end.                     *)
LEMMA RunCleanSound ==
  ASSUME Sound, Lives, Lives', NEW w \in Workers, RunExternal(w),
         Head(cur_process[w]).kind = "clean"
  PROVE  Sound'
<1> DEFINE e == Head(cur_process[w])
           h == e.of
<1>1. /\ CloseSocket(w, h) /\ status' = [status EXCEPT ![h] = "freed"]
      /\ UNCHANGED <<queueVars, references, home, failed, pending, admin, todo>>
  BY DEF RunExternal, Cleanup, ShutdownSocket
<1>2. /\ e \in GoodEvents /\ In(cur_process[w], {e}) /\ \A u \in Workers : Taken(u, {})
  BY RunExternalTypes
<1>3. h \in Conns \cup {Local} /\ h \in Handlers /\ (h = Local => e \in LocalClean)
  BY <1>2, KindsApart, NamesDiffer
<1> HIDE DEF e
<1>4. h = Local => admin \in Stopping
  <2>1. h = Local => Queued(w, LocalClean)
    BY <1>2, <1>3, InMore DEF Queued
  <2> QED BY <2>1 DEF Sound, Awaited, Posted
<1> HIDE DEF h
<1>5. Kinds /\ TableTypes /\ ConnTypes /\ ConnTypes' /\ QueueTypes /\ LoopTypes
  BY DEF Lives, Kinds
<1>6. /\ status'[h] = "freed" /\ home' = home
      /\ \A k \in Handlers : k # h => status'[k] = status[k]
  BY <1>1, <1>3, <1>5 DEF ConnTypes
<1>7. CodeAsserts' /\ Sized' /\ Masked'
      /\ \A u \in Workers : mask'[u][ListenFd] = mask[u][ListenFd]
  <2>1. CASE fd[h] = None
    BY <1>1, <2>1, TablesFine DEF CloseSocket, Sound, CodeAsserts
  <2>2. CASE fd[h] # None
    <3>1. fd[h] \in Fds /\ DeleteFileEvent(w, fd[h], {"R", "W"})
      <4>1. fd[h] \in AllFds /\ fd[h] # ListenFd
        BY <1>3, <1>5, <2>2 DEF ConnTypes
      <4> QED BY <1>1, <2>2, <4>1, NamesDiffer DEF CloseSocket
    <3>2. Sized' /\ Masked' /\ \A u \in Workers : mask'[u][ListenFd] = mask[u][ListenFd]
      BY <1>5, <3>1, DeleteOfConn DEF Sound
    <3> QED BY <1>1, <3>2 DEF Sound, CodeAsserts
  <2> QED BY <2>1, <2>2
<1>8. Referenced'
  <2>1. \A k \in Conns \cup {Local} :
          status'[k] = "open" => status[k] = "open" /\ home'[k] = home[k]
    BY <1>6, NamesDiffer
  <2>2. \A u \in Workers : references[u] <= references'[u]
    BY <1>1, <1>5 DEF ConnTypes
  <2> QED BY <1>5, <2>1, <2>2, FewerReferenced DEF Sound
<1>9. Closing'
  BY <1>1, <1>4, <1>6, NamesDiffer DEF Sound, Closing, Stopping
<1>10. Listening'
  <2>1. \A u \in Workers : /\ at'[u] # "fire" => fired_events'[u] = << >>
                           /\ FiresListener(u)' => FiresListener(u)
    BY <1>5, RunExternalFired DEF Sound
  <2> QED BY <1>1, <1>6, <1>7, <2>1, ListeningKept DEF Sound, Unlistened, Stopping
<1>11. Awaited'
  <2> DEFINE x == Event("clean", Local)
  <2>1. x \in GoodEvents /\ external_events' = external_events
    BY <1>1, KindsOfEvents DEF queueVars
  <2>2. \A u \in Workers : ~Added(u, x)
    BY <1>5, <2>1, NothingAdded
  <2>3. \A u \in Workers : Turns(u, x)
    BY <1>2, <2>1 DEF Turns
  <2> HIDE DEF x
  <2> QED BY <1>1, <1>5, <1>6, <2>1, <2>2, <2>3, AwaitedKept DEF Sound
<1> QED BY <1>7, <1>8, <1>9, <1>10, <1>11 DEF Sound

(* The listening socket comes and goes, and drain() is answered.           *)
LEMMA RunControlSound ==
  ASSUME PosixFds, Sound, Lives, Lives', NEW w \in Workers, RunExternal(w),
         Head(cur_process[w]).kind \in {"listen", "unlisten", "drain"}
  PROVE  Sound'
<1> DEFINE e == Head(cur_process[w])
<1>1. /\ e.kind \in {"listen", "unlisten", "drain"}
      /\ cur_process[w] # << >> /\ cur_process' = [cur_process EXCEPT ![w] = Tail(@)]
      /\ UNCHANGED <<queueVars, references, connVars, admin, todo>>
      /\ pending' = pending \ {w}
      /\ e.kind = "listen" => CreateFileEvent(w, ListenFd, {"R"}, Listener)
      /\ e.kind = "unlisten" => DeleteFileEvent(w, ListenFd, {"R"}) /\ failed' = failed
      /\ e.kind = "drain" => UNCHANGED <<fileVars, failed>>
  BY DEF RunExternal
<1>2. e \in GoodEvents
  BY RunExternalTypes
<1>3. e \in Control
  BY <1>1, <1>2 DEF Control
<1>4. /\ Awaited' /\ w \in pending
      /\ e.kind = "listen" => admin = "starting"
      /\ e.kind = "unlisten" => admin = "unlistening"
      /\ e.kind = "drain" => admin = "draining"
  <2>1. Kinds /\ QueueTypes /\ Awaited
    BY DEF Lives, Kinds, Sound
  <2> QED BY <1>1, <1>3, <2>1, ControlRuns DEF queueVars, connVars
<1> HIDE DEF e
<1>5. e.kind \in {"listen", "unlisten"} => w = home[Listener]
  BY <1>4 DEF Sound, Awaited
<1>6. /\ TableTypes /\ ListenFd \in AllFds /\ Listener \in Handlers
      /\ \A u \in Workers : /\ at'[u] # "fire" => fired_events'[u] = << >>
                            /\ FiresListener(u)' => FiresListener(u)
      /\ ~FiresListener(w) /\ home' = home
  <2>1. LoopTypes /\ TableTypes /\ Listening
    BY DEF Lives, Kinds, Sound
  <2> QED BY <1>1, <2>1, RunExternalFired, NamesDiffer DEF connVars
<1>7. Referenced' /\ Closing'
  BY <1>1 DEF Sound, Referenced, OpenAt, Closing, Stopping, connVars
<1>8. CASE e.kind = "listen"
  <2>1. /\ Sized' /\ Masked' /\ failed' = failed
        /\ mask'[w][ListenFd] = mask[w][ListenFd] \cup {"R"}
        /\ \A u \in Workers : u # w => mask'[u][ListenFd] = mask[u][ListenFd]
    BY <1>1, <1>6, <1>8, CreateFine DEF Sound
  <2>2. ~Unlistened'
    BY <1>1, <1>4, <1>8 DEF Unlistened, Stopping
  <2>3. Listening'
    BY <1>5, <1>6, <1>8, <2>1, <2>2 DEF Sound, Listening
  <2> QED BY <1>4, <1>7, <2>1, <2>3 DEF Sound, CodeAsserts
<1>9. CASE e.kind = "unlisten"
  <2>1. /\ Sized' /\ Masked'
        /\ \A u \in Workers :
             mask'[u][ListenFd] = IF u = w THEN mask[u][ListenFd] \ {"R"} ELSE mask[u][ListenFd]
    <3>1. TableTypes /\ Sized /\ Masked /\ DeleteFileEvent(w, ListenFd, {"R"})
      BY <1>1, <1>6, <1>9 DEF Sound
    <3> QED BY <3>1, UnlistenFine
  <2>2. \A u \in Workers : mask'[u][ListenFd] = {} /\ ~FiresListener(u)'
    <3>1. \A u \in Workers : u # w => mask[u][ListenFd] = {} /\ ~FiresListener(u)
      BY <1>5, <1>9 DEF Sound, Listening
    <3>2. mask[w][ListenFd] \subseteq {"R"}
      BY DEF Sound, Listening
    <3> QED BY <1>6, <2>1, <3>1, <3>2
  <2>3. Listening'
    BY <1>6, <2>2 DEF Listening
  <2> QED BY <1>1, <1>4, <1>7, <1>9, <2>1, <2>3 DEF Sound, CodeAsserts
<1>10. CASE e.kind = "drain"
  <2>1. CodeAsserts' /\ Sized' /\ Masked'
        /\ \A u \in Workers : mask'[u][ListenFd] = mask[u][ListenFd]
    BY <1>1, <1>10, TablesFine DEF Sound, CodeAsserts
  <2>2. Unlistened
    BY <1>4, <1>10 DEF Unlistened
  <2>3. Listening'
    BY <1>6, <2>1, <2>2, ListeningKept DEF Sound
  <2> QED BY <1>4, <1>7, <2>1, <2>3 DEF Sound
<1> QED BY <1>1, <1>8, <1>9, <1>10
-----------------------------------------------------------------------------
(* The threads outside.                                                    *)
LEMMA OutsideSound ==
  ASSUME Sound, Lives, Lives', NEW a \in Actors, ConnDoes(a),
         UNCHANGED <<fileVars, failed, admin, todo, pending, cur_process, at, fired_events>>
  PROVE  Sound'
<1>1. Kinds /\ ConnTypes /\ ConnTypes'
  BY DEF Lives, Kinds
<1>2. CodeAsserts' /\ Sized' /\ Masked'
      /\ \A u \in Workers : mask'[u][ListenFd] = mask[u][ListenFd]
  BY TablesFine DEF Sound, CodeAsserts
<1>3. Referenced' /\ Closing'
  BY <1>1, ConnReferenced, ConnClosing DEF Sound
<1>4. Awaited'
  <2>1. \A u \in Workers : Taken(u, {})
    BY DEF Taken
  <2> QED BY <1>1, <2>1, ConnAwaited DEF Sound
<1>5. Listening'
  <2>1. home' = home
    BY DEF ConnDoes, Stops
  <2>2. \A u \in Workers : /\ at'[u] # "fire" => fired_events'[u] = << >>
                           /\ FiresListener(u)' => FiresListener(u)
    BY FiredStays DEF Sound
  <2> QED BY <1>2, <2>1, <2>2, ListeningKept DEF Sound, Unlistened, Stopping
<1> QED BY <1>2, <1>3, <1>4, <1>5 DEF Sound

(* Calls to an open connection.                                            *)
LEMMA SendSound ==
  ASSUME Sound, Lives, Lives', NEW t \in Threads, NEW h \in Conns, Send(t, h) \/ MarkDown(t, h)
  PROVE  Sound'
<1>1. t \in Actors
  BY NamesDiffer
<1>2. CASE Send(t, h)
  <2>1. ConnDoes(t)
    BY <1>2 DEF Send, ConnDoes, connVars
  <2> QED BY <1>1, <1>2, <2>1, OutsideSound DEF Send, loopVars, adminVars
<1>3. CASE MarkDown(t, h)
  <2>1. status[h] = "open" /\ Stop(t, h) /\ UNCHANGED home
    BY <1>3 DEF MarkDown
  <2>2. Stops(t, h) /\ failed' = failed
    BY <2>1, StopSound DEF Sound, Lives, Kinds
  <2>3. ConnDoes(t)
    BY <2>2 DEF ConnDoes
  <2> QED BY <1>1, <1>3, <2>2, <2>3, OutsideSound DEF MarkDown, loopVars, adminVars
<1> QED BY <1>2, <1>3

(* shutdown_connections().                                                 *)
LEMMA ShutdownConnectionSound ==
  ASSUME Sound, Lives, Lives', NEW h \in Conns, ShutdownConnection(h) PROVE Sound'
<1>1. status[h] = "open" /\ Stop(Admin, h) /\ UNCHANGED home
  BY DEF ShutdownConnection
<1>2. Stops(Admin, h) /\ failed' = failed
  BY <1>1, StopSound DEF Sound, Lives, Kinds
<1>3. ConnDoes(Admin) /\ Admin \in Actors
  BY <1>2, NamesDiffer DEF ConnDoes
<1> QED BY <1>2, <1>3, OutsideSound DEF ShutdownConnection, AdminLeaves, loopVars

(* A peer connects.                                                        *)
LEMMA ArriveSound ==
  ASSUME Sound, Lives, Lives', NEW h \in Conns, Arrive(h) PROVE Sound'
<1>1. /\ admin = "up" /\ status' = [status EXCEPT ![h] = "incoming"]
      /\ UNCHANGED <<external_events, fileVars, at, fired_events, cur_process, references, home,
                     failed, admin, todo, pending>>
  BY DEF Arrive, queueVars, loopVars, adminVars
<1>2. ConnTypes /\ ConnTypes' /\ h \in Handlers /\ h # Local
  BY NamesDiffer DEF Lives, Kinds
<1>3. status'[h] = "incoming" /\ \A k \in Handlers : k # h => status'[k] = status[k]
  BY <1>1, <1>2 DEF ConnTypes
<1>4. CodeAsserts' /\ Sized' /\ Masked'
      /\ \A u \in Workers : mask'[u][ListenFd] = mask[u][ListenFd]
  BY <1>1, TablesFine DEF Sound, CodeAsserts
<1>5. Referenced'
  <2>1. \A k \in Conns \cup {Local} :
          status'[k] = "open" => status[k] = "open" /\ home'[k] = home[k]
    BY <1>1, <1>3, NamesDiffer
  <2>2. \A u \in Workers : references[u] <= references'[u]
    BY <1>1, <1>2 DEF ConnTypes
  <2> QED BY <1>2, <2>1, <2>2, FewerReferenced DEF Sound
<1>6. Closing'
  BY <1>1, <1>2, <1>3, NamesDiffer DEF Sound, Closing, Stopping
<1>7. Listening'
  <2>1. \A u \in Workers : /\ at'[u] # "fire" => fired_events'[u] = << >>
                           /\ FiresListener(u)' => FiresListener(u)
    BY <1>1, FiredStays DEF Sound
  <2> QED BY <1>1, <1>4, <2>1, ListeningKept DEF Sound, Unlistened, Stopping
<1>8. Awaited'
  BY <1>1, QuietAwaited DEF Sound
<1> QED BY <1>4, <1>5, <1>6, <1>7, <1>8 DEF Sound

(* create_connect() counts the connection that it opens.                   *)
LEMMA ConnectSound ==
  ASSUME Sound, Lives, Lives', NEW t \in Threads, NEW h \in Conns, Connect(t, h) PROVE Sound'
<1> DEFINE v == LeastLoaded
           e == Event("read", h)
<1>0. /\ v \in Workers /\ t \in Actors /\ ConnTypes /\ QueueTypes
      /\ h \in Handlers /\ h # Local /\ h # Listener /\ e \in GoodEvents /\ e \in OfConns
  <2>1. ConnTypes /\ QueueTypes /\ references \in [Workers -> Nat]
    BY DEF Lives, Kinds, ConnTypes
  <2>2. t \in Actors /\ h \in Handlers /\ h # Local /\ h # Listener
    BY NamesDiffer
  <2>3. e \in GoodEvents /\ e \in OfConns
    BY KindsApart
  <2> QED BY <2>1, <2>2, <2>3, LeastLoadedIsWorker
<1>1. /\ admin = "up" /\ status[h] = "new" /\ status' = [status EXCEPT ![h] = "open"]
      /\ home' = [home EXCEPT ![h] = v]
      /\ references' = [references EXCEPT ![v] = @ + 1]
      /\ Dispatch(t, v, e)
      /\ UNCHANGED <<fileVars, at, fired_events, cur_process, failed, admin, todo, pending>>
  <2>1. UNCHANGED <<at, fired_events, cur_process, admin, todo, pending>>
    BY DEF Connect, loopVars, adminVars
  <2> QED BY <2>1 DEF Connect
<1> HIDE DEF v, e
<1>2. home'[Listener] = home[Listener] /\ status'[Local] = status[Local]
  BY <1>0, <1>1, NamesDiffer DEF ConnTypes
<1>3. CodeAsserts' /\ Sized' /\ Masked'
      /\ \A u \in Workers : mask'[u][ListenFd] = mask[u][ListenFd]
  BY <1>1, TablesFine DEF Sound, CodeAsserts
<1>4. Referenced'
  <2>1. Opens(h, v)
    BY <1>1 DEF Opens
  <2> QED BY <1>0, <2>1, OpenedReferenced DEF Sound
<1>5. Closing'
  BY <1>1, <1>2 DEF Sound, Closing, Stopping
<1>6. Listening'
  <2>1. \A u \in Workers : /\ at'[u] # "fire" => fired_events'[u] = << >>
                           /\ FiresListener(u)' => FiresListener(u)
    BY <1>1, FiredStays DEF Sound
  <2> QED BY <1>1, <1>2, <1>3, <2>1, ListeningKept DEF Sound, Unlistened, Stopping
<1>7. Awaited'
  <2>1. \A u \in Workers :
          external_events'[u] = IF u = v THEN Append(external_events[u], e)
                                         ELSE external_events[u]
    BY <1>0, <1>1, DispatchTypes
  <2>2. \A u \in Workers : Turns(u, e)
    BY <1>1, <2>1 DEF Turns, Taken, Added
  <2>3. admin \notin Stopping \cup {"draining"}
    BY <1>1 DEF Stopping
  <2> QED BY <1>0, <1>1, <1>2, <2>2, <2>3, AwaitedKept DEF Sound
<1> QED BY <1>3, <1>4, <1>5, <1>6, <1>7 DEF Sound
-----------------------------------------------------------------------------
(* The Admin, where it does nothing to connections.                        *)
LEMMA AdminSound ==
  ASSUME Sound, Awaited', Closing', Unlistened' => Unlistened,
         UNCHANGED <<fileVars, references, connVars, failed, at, fired_events>>
  PROVE  Sound'
<1>1. CodeAsserts' /\ Sized' /\ Masked'
      /\ \A u \in Workers : mask'[u][ListenFd] = mask[u][ListenFd]
  BY TablesFine DEF Sound, CodeAsserts
<1>2. Referenced'
  BY DEF Sound, Referenced, OpenAt, connVars
<1>3. Listening'
  <2>1. \A u \in Workers : /\ at'[u] # "fire" => fired_events'[u] = << >>
                           /\ FiresListener(u)' => FiresListener(u)
    BY FiredStays DEF Sound
  <2> QED BY <1>1, <2>1, ListeningKept DEF Sound, connVars
<1> QED BY <1>1, <1>2, <1>3 DEF Sound

(* Processor::start() and stop().                                          *)
LEMMA SubmitSound == ASSUME Sound, Lives, Ready \/ Shutdown PROVE Sound'
<1>1. /\ UNCHANGED <<fileVars, references, connVars, failed, at, fired_events>>
      /\ pending' # {} /\ admin \in {"ready", "up"}
      /\ admin' \in {"starting", "unlistening"}
  BY DEF Ready, Shutdown, AdminGoes, Submit, AdminLeaves, loopVars
<1>2. Awaited'
  BY SubmitAwaited DEF Sound, Lives
<1>3. Closing'
  BY <1>1 DEF Sound, Closing, Stopping, connVars
<1>4. ~Unlistened'
  BY <1>1 DEF Unlistened, Stopping
<1> QED BY <1>1, <1>2, <1>3, <1>4, AdminSound

(* Waiting, and what follows it.                                           *)
LEMMA AdminWaitsSound ==
  ASSUME Sound, Lives,
         \/ Started \/ Drain \/ Stopped \/ End
         \/ \E w \in Workers : StopWorker(w) \/ JoinWorker(w)
  PROVE  Sound'
<1>1. UNCHANGED <<fileVars, references, connVars, failed, at, fired_events>>
  BY DEF Started, Drain, Stopped, End, StopWorker, JoinWorker, AdminLeaves, loopVars
<1>2. \/ admin = "starting" /\ admin' = "up"
      \/ /\ admin = "unlistening" /\ pending = {} /\ admin' = "draining"
         /\ \A h \in Conns : status[h] # "open"
      \/ admin \in Stopping /\ admin' \in Stopping
  BY DEF Started, Drain, Stopped, End, StopWorker, JoinWorker, AdminGoes, Stopping
<1>3. Awaited'
  BY AdminGoesAwaited DEF Sound, Lives
<1>4. Closing'
  BY <1>1, <1>2 DEF Sound, Closing, Stopping, connVars
<1>5. Unlistened' => Unlistened
  BY <1>2 DEF Unlistened, Stopping
<1> QED BY <1>1, <1>3, <1>4, <1>5, AdminSound

(* drain().                                                                *)
LEMMA DrainWorkerSound ==
  ASSUME Sound, Lives, NEW w \in Workers, DrainWorker(w) PROVE Sound'
<1>1. UNCHANGED <<fileVars, references, connVars, failed, at, fired_events, admin, pending>>
  BY DEF DrainWorker, AdminLeaves, loopVars
<1>2. Awaited'
  BY DrainWorkerAwaited DEF Sound, Lives
<1>3. Closing' /\ (Unlistened' => Unlistened)
  BY <1>1 DEF Sound, Closing, Stopping, connVars, Unlistened
<1> QED BY <1>1, <1>2, <1>3, AdminSound

(* ~AsyncMessenger() stops the local connection, which holds a reference.  *)
LEMMA DestroySound == ASSUME Sound, Lives, Destroy PROVE Sound'
<1>1. /\ admin = "draining" /\ admin' = "stopping" /\ Stop(Admin, Local)
      /\ UNCHANGED <<fileVars, home, at, fired_events>>
  BY DEF Destroy, AdminGoes, AdminLeaves, loopVars
<1>2. ConnTypes /\ Kinds /\ status[Local] = "open" /\ Local \in Handlers
  BY <1>1, NamesDiffer DEF Lives, Kinds, Sound, Closing, Stopping
<1>3. Stops(Admin, Local) /\ failed' = failed
  BY <1>1, <1>2, StopSound DEF Sound
<1>4. CodeAsserts' /\ Sized' /\ Masked'
      /\ \A u \in Workers : mask'[u][ListenFd] = mask[u][ListenFd]
  BY <1>1, <1>3, TablesFine DEF Sound, CodeAsserts
<1>5. Referenced'
  BY <1>2, <1>3, StoppedReferenced DEF Sound
<1>6. Closing'
  <2>1. \A k \in Conns : status'[k] = status[k]
    BY <1>2, <1>3, NamesDiffer DEF Stops, ConnTypes
  <2> QED BY <1>1, <2>1 DEF Sound, Closing, Stopping
<1>7. Awaited'
  BY <1>2, <1>3, DestroyAwaited DEF Sound
<1>8. Listening'
  <2>1. \A u \in Workers : /\ at'[u] # "fire" => fired_events'[u] = << >>
                           /\ FiresListener(u)' => FiresListener(u)
    BY <1>1, FiredStays DEF Sound
  <2>2. Unlistened
    BY <1>1 DEF Unlistened
  <2> QED BY <1>1, <1>4, <2>1, <2>2, ListeningKept DEF Sound
<1> QED BY <1>4, <1>5, <1>6, <1>7, <1>8 DEF Sound

(* ~EventCenter(): no timer is left, and no event but the clean-up of the  *)
(* local connection, which has no socket and no timer.                     *)
LEMMA NoTimersAtEnd ==
  ASSUME Sound, Lives, NEW w \in Workers, admin = "destroying",
         external_events[w] = << >>, cur_process[w] = << >>
  PROVE  time_events[w] = << >>
<1> SUFFICES ASSUME time_events[w] # << >> PROVE FALSE
  OBVIOUS
<1>1. time_events[w] \in Seq(Conns)
  BY DEF Lives, Kinds, ConnTypes
<1>2. 1 \in DOMAIN time_events[w] /\ time_events[w][1] \in Conns
  BY <1>1, LenProperties, EmptySeq, ElementOfSeq
<1>3. PICK k \in Conns : Occurs(time_events[w], k)
  BY <1>2 DEF Occurs
<1>4. w = home[k] /\ InUse(k) /\ status[k] # "open"
  BY <1>3 DEF Lives, Leads, TimersLead, Sound, Closing, Stopping
<1>5. Queued(home[k], Clean(k))
  BY <1>4 DEF InUse, Lives, Leads, EventsLead, EventsLeadTo
<1> QED BY <1>4, <1>5, EmptyHasNone DEF Queued

(* All that may be queued is that clean-up.                                *)
LEMMA LastIsLocalClean ==
  ASSUME Sound, Lives, NEW w \in Workers, admin = "destroying",
         external_events[w] # << >>
  PROVE  /\ Head(external_events[w]) \in LocalClean
         /\ fd[Local] = None /\ Without(time_events[w], Local) = time_events[w]
<1> DEFINE x == external_events[w]
           e == Head(x)
<1>1. x \in Seq(GoodEvents) /\ QueueTypes /\ Posted(w) /\ time_events[w] \in Seq(Conns)
      /\ fd[Local] = None
  BY DEF Lives, Kinds, QueueTypes, ConnTypes, Sound, Awaited
<1>2. e \in GoodEvents /\ \A A : e \in A => Queued(w, A)
  BY <1>1, TailIn, HeadTailProperties DEF Queued
<1>3. ~Queued(w, Control)
  BY <1>1, NoControl
<1>4. ~Queued(w, OfConns)
  BY <1>1 DEF Posted, Stopping
<1> HIDE DEF e
<1>5. e \in LocalClean
  BY <1>2, <1>3, <1>4, KindsApart
<1>6. \A i \in DOMAIN time_events[w] : time_events[w][i] # Local
  BY <1>1, NamesDiffer, LenProperties, ElementOfSeq
<1>7. Without(time_events[w], Local) = time_events[w]
  BY <1>6 DEF Without
<1> QED BY <1>1, <1>5, <1>7 DEF e

(* So both of its assertions hold.                                         *)
LEMMA DestroyCenterSound ==
  ASSUME Sound, Lives, Lives', Loop, NEW w \in Workers, DestroyCenter(w) PROVE Sound'
<1> DEFINE e == Head(external_events[w])
<1>1. /\ admin = "destroying"
      /\ UNCHANGED <<fileVars, at, fired_events, cur_process, references, home, admin, pending>>
  BY DEF DestroyCenter, loopVars
<1>2. cur_process[w] = << >>
  BY <1>1 DEF Loop, AllJoined, RunsOnlyTaken
<1>3. /\ failed' = failed
      /\ status' = status \/ status' = [status EXCEPT ![Local] = "freed"]
  <2>1. CASE external_events[w] = << >>
    <3>1. time_events[w] = << >>
      BY <1>1, <1>2, <2>1, NoTimersAtEnd
    <3> QED BY <2>1, <3>1 DEF DestroyCenter
  <2>2. CASE external_events[w] # << >>
    <3>1. e.kind = "clean" /\ e.of = Local
      BY <1>1, <2>2, LastIsLocalClean DEF LocalClean, Event
    <3>2. fd[Local] = None /\ Without(time_events[w], Local) = time_events[w]
      BY <1>1, <2>2, LastIsLocalClean
    <3> QED BY <2>2, <3>1, <3>2 DEF DestroyCenter
  <2> QED BY <2>1, <2>2
<1>4. ConnTypes /\ ConnTypes' /\ Local \in Handlers /\ Local \notin Conns /\ Conns \subseteq Handlers
  BY NamesDiffer DEF Lives, Kinds
<1>5. \A k \in Conns : status'[k] = status[k]
  BY <1>3, <1>4 DEF ConnTypes
<1>6. status'[Local] = "open" => status[Local] = "open"
  BY <1>3, <1>4 DEF ConnTypes
<1>7. CodeAsserts' /\ Sized' /\ Masked'
      /\ \A u \in Workers : mask'[u][ListenFd] = mask[u][ListenFd]
  BY <1>1, <1>3, TablesFine DEF Sound, CodeAsserts
<1>8. Referenced'
  <2>1. \A u \in Workers : references[u] <= references'[u]
    BY <1>1, <1>4 DEF ConnTypes
  <2> QED BY <1>1, <1>4, <1>5, <1>6, <2>1, FewerReferenced DEF Sound
<1>9. Closing'
  BY <1>1, <1>5 DEF Sound, Closing, Stopping
<1>10. Listening'
  <2>1. \A u \in Workers : /\ at'[u] # "fire" => fired_events'[u] = << >>
                           /\ FiresListener(u)' => FiresListener(u)
    BY <1>1, FiredStays DEF Sound
  <2> QED BY <1>1, <1>7, <2>1, ListeningKept DEF Sound, Unlistened, Stopping
<1>11. Awaited'
  BY DestroyCenterAwaited DEF Sound, Lives
<1> QED BY <1>7, <1>8, <1>9, <1>10, <1>11 DEF Sound
-----------------------------------------------------------------------------
(* No step fails an assertion.                                             *)
LEMMA SoundNext ==
  ASSUME PosixFds, Sound, Lives, Loop, Lives', [Next]_vars PROVE Sound'
<1>1. ASSUME NEW a \in Actors, Wakeup(a) PROVE Sound'
  <2>1. 0 \in Workers
    BY WorkersAreNumbered
  <2> QED BY <1>1, <2>1, RoundSound
<1>2. ASSUME NEW w \in Workers, WorkerRuns(w) \/ SocketOrTimer(w) PROVE Sound'
  <2>1. CASE RunExternal(w)
    <3>1. Head(cur_process[w]).kind \in {"read", "clean", "listen", "unlisten", "drain"}
      BY <2>1 DEF RunExternal
    <3> QED BY <2>1, <3>1, RunReadSound, RunCleanSound, RunControlSound
  <2>2. CASE StartRound(w) \/ Exit(w) \/ EventWait(w) \/ DrainNotify(w) \/ TakeExternal(w)
    BY <2>2, RoundSound, EventWaitSound, DrainNotifySound, TakeExternalSound
  <2>3. CASE Accept(w) \/ FireSocket(w) \/ RunTimer(w)
    BY <2>3, AcceptSound, FireSocketSound, RunTimerSound
  <2> QED BY <1>2, <2>1, <2>2, <2>3 DEF WorkerRuns, WakeUp, SocketOrTimer
<1>3. ASSUME NEW h \in Conns, Arrive(h) PROVE Sound'
  BY <1>3, ArriveSound
<1>4. ASSUME NEW t \in Threads, NEW h \in Conns,
             Connect(t, h) \/ Send(t, h) \/ MarkDown(t, h)
      PROVE  Sound'
  BY <1>4, ConnectSound, SendSound
<1>5. CASE AdminRuns \/ Shutdown
  BY <1>5, SubmitSound, AdminWaitsSound, ShutdownConnectionSound, DrainWorkerSound,
     DestroySound, DestroyCenterSound DEF AdminRuns
<1>6. CASE Ended \/ UNCHANGED vars
  <2>1. UNCHANGED vars
    BY <1>6 DEF Ended
  <2>2. ConnDoes(Admin) /\ Admin \in Actors
    BY <2>1, NamesDiffer DEF ConnDoes, vars, queueVars, connVars
  <2>3. UNCHANGED <<fileVars, failed, admin, todo, pending, cur_process, at, fired_events>>
    BY <2>1 DEF vars, loopVars, adminVars
  <2> QED BY <2>2, <2>3, OutsideSound
<1> QED BY <1>1, <1>2, <1>3, <1>4, <1>5, <1>6 DEF Next

(* No assertion of the event centers fails: create_file_event() has room   *)
(* for every descriptor (Event.cc), release_worker() finds a reference to  *)
(* give up (Stack.h), every descriptor that is registered has a callback,  *)
(* none is called after cleanup() freed it, and ~EventCenter() finds no    *)
(* timer and no event that would need the center's thread.                 *)
THEOREM NoAssertFails == ASSUME PosixFds PROVE Spec => []CodeAsserts
<1>1. Sound => CodeAsserts
  BY DEF Sound
<1>2. Sound /\ Lives /\ Loop /\ Lives' /\ [Next]_vars => Sound'
  BY SoundNext
<1> QED BY <1>1, <1>2, SoundInit, LivesInvariant, LoopInvariant, PTL DEF Spec
=============================================================================

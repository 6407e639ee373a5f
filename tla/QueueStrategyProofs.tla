------------------------- MODULE QueueStrategyProofs -------------------------
(***************************************************************************)
(* Proofs about QueueStrategy, for any pool of threads and any messages:   *)
(* the list of sleeping threads names each thread that sleeps once and no  *)
(* other, and nobody sleeps while a message needs a thread.                *)
(***************************************************************************)
EXTENDS QueueStrategy, FiniteSetTheorems, TLAPS

(* As much of the types as the argument needs.                             *)
Places == {"none", "loop", "wait", "took", "deliver", "done"}
Shape ==
  /\ mqueue \in Seq(Messages)
  /\ disp_threads \in Seq(Threads)
  /\ pc \in [Threads -> Places]

(* A thread on the list sleeps, and is on it once: whoever wakes the first *)
(* of them wakes a thread that was asleep.                                 *)
ListedSleep == \A i \in 1..Len(disp_threads) : pc[disp_threads[i]] = "wait"
ListedOnce ==
  \A i, j \in 1..Len(disp_threads) : i # j => disp_threads[i] # disp_threads[j]

Listed == Shape /\ ListedSleep /\ ListedOnce

LEMMA ListedInit == Init => Listed
BY DEF Init, Listed, Shape, ListedSleep, ListedOnce, Places

(* ds_dispatch() takes the first of the list, and the rest still sleep.    *)
LEMMA ListedDispatch ==
  ASSUME Listed, NEW m \in Messages, ds_dispatch(m)
  PROVE  Listed'
<1>1. mqueue' \in Seq(Messages)
  BY DEF Listed, Shape, ds_dispatch
<1>2. CASE disp_threads = <<>>
  <2>1. UNCHANGED <<pc, disp_threads>>
    BY <1>2 DEF ds_dispatch, SomeoneWaits
  <2> QED BY <1>1, <2>1 DEF Listed, Shape, ListedSleep, ListedOnce
<1>3. CASE disp_threads # <<>>
  <2>1. /\ pc' = [pc EXCEPT ![disp_threads[1]] = "loop"]
        /\ disp_threads' = Tail(disp_threads)
    BY <1>3 DEF ds_dispatch, SomeoneWaits, Listed, Shape
  <2>2. /\ disp_threads' \in Seq(Threads)
        /\ Len(disp_threads') = Len(disp_threads) - 1
        /\ \A i \in 1..Len(disp_threads') : disp_threads'[i] = disp_threads[i + 1]
    BY <1>3, <2>1 DEF Listed, Shape
  <2>3. pc' \in [Threads -> Places]
    BY <2>1 DEF Listed, Shape, Places
  <2>4. ListedOnce'
    <3> SUFFICES ASSUME NEW i \in 1..Len(disp_threads'), NEW j \in 1..Len(disp_threads'),
                        i # j
                 PROVE  disp_threads'[i] # disp_threads'[j]
      BY DEF ListedOnce
    <3>1. /\ i + 1 \in 1..Len(disp_threads) /\ j + 1 \in 1..Len(disp_threads)
          /\ i + 1 # j + 1
      BY <2>2 DEF Listed, Shape
    <3>2. disp_threads[i + 1] # disp_threads[j + 1]
      BY <3>1 DEF Listed, ListedOnce
    <3> QED BY <2>2, <3>2
  <2>5. ListedSleep'
    <3> SUFFICES ASSUME NEW i \in 1..Len(disp_threads')
                 PROVE  pc'[disp_threads'[i]] = "wait"
      BY DEF ListedSleep
    <3>1. i + 1 \in 1..Len(disp_threads) /\ 1 \in 1..Len(disp_threads) /\ i + 1 # 1
      BY <2>2 DEF Listed, Shape
    <3>2. disp_threads[i + 1] # disp_threads[1] /\ pc[disp_threads[i + 1]] = "wait"
      BY <3>1 DEF Listed, ListedOnce, ListedSleep
    <3>3. disp_threads[i + 1] \in Threads
      BY <3>1 DEF Listed, Shape
    <3> QED BY <2>1, <2>2, <3>2, <3>3 DEF Listed, Shape
  <2> QED BY <1>1, <2>2, <2>3, <2>4, <2>5 DEF Listed, Shape
<1> QED BY <1>2, <1>3

(* A thread that goes to sleep was not on the list.                        *)
LEMMA ListedSleeps ==
  ASSUME Listed, NEW t \in Threads, Sleep(t)
  PROVE  Listed'
<1>1. /\ pc[t] = "loop" /\ pc' = [pc EXCEPT ![t] = "wait"]
      /\ disp_threads' = <<t>> \o disp_threads
      /\ mqueue' = mqueue
  BY DEF Sleep
<1>2. /\ disp_threads' \in Seq(Threads)
      /\ Len(disp_threads') = Len(disp_threads) + 1
      /\ disp_threads'[1] = t
      /\ \A i \in 2..Len(disp_threads') : disp_threads'[i] = disp_threads[i - 1]
  BY <1>1 DEF Listed, Shape
<1>3. \A i \in 1..Len(disp_threads) : disp_threads[i] \in Threads /\ disp_threads[i] # t
  BY <1>1 DEF Listed, Shape, ListedSleep
<1>4. Shape'
  BY <1>1, <1>2 DEF Listed, Shape, Places
<1>5. ListedSleep'
  BY <1>1, <1>2, <1>3 DEF Listed, Shape, ListedSleep
<1>6. ListedOnce'
  <2> SUFFICES ASSUME NEW i \in 1..Len(disp_threads'), NEW j \in 1..Len(disp_threads'),
                      i # j
               PROVE  disp_threads'[i] # disp_threads'[j]
    BY DEF ListedOnce
  <2>1. Len(disp_threads) \in Nat
    BY DEF Listed, Shape
  <2>2. CASE i = 1
    <3>1. j \in 2..Len(disp_threads') /\ j - 1 \in 1..Len(disp_threads)
      BY <1>2, <2>1, <2>2
    <3> QED BY <1>2, <1>3, <2>2, <3>1
  <2>3. CASE j = 1
    <3>1. i \in 2..Len(disp_threads') /\ i - 1 \in 1..Len(disp_threads)
      BY <1>2, <2>1, <2>3
    <3> QED BY <1>2, <1>3, <2>3, <3>1
  <2>4. CASE i # 1 /\ j # 1
    <3>1. /\ i \in 2..Len(disp_threads') /\ i - 1 \in 1..Len(disp_threads)
          /\ j \in 2..Len(disp_threads') /\ j - 1 \in 1..Len(disp_threads)
          /\ i - 1 # j - 1
      BY <1>2, <2>1, <2>4
    <3>2. disp_threads[i - 1] # disp_threads[j - 1]
      BY <3>1 DEF Listed, ListedOnce
    <3> QED BY <1>2, <3>1, <3>2
  <2> QED BY <2>2, <2>3, <2>4
<1> QED BY <1>4, <1>5, <1>6 DEF Listed

(* Every other step of a thread leaves the list alone and is one of a      *)
(* thread that does not sleep.                                             *)
LEMMA ListedEntry ==
  ASSUME Listed, NEW t \in Threads, Entry(t)
  PROVE  Listed'
<1>1. CASE Sleep(t)
  BY <1>1, ListedSleeps
<1>2. CASE ~Sleep(t)
  <2>1. /\ pc[t] # "wait" /\ disp_threads' = disp_threads
        /\ \E p \in Places : pc' = [pc EXCEPT ![t] = p]
        /\ mqueue' = mqueue \/ (mqueue # <<>> /\ mqueue' = Tail(mqueue))
    BY <1>2 DEF Entry, Take, Exit, Drop, Deliver, Delivered, queue, callers, Places
  <2>2. Shape'
    <3>1. mqueue' \in Seq(Messages)
      BY <2>1 DEF Listed, Shape
    <3>2. pc' \in [Threads -> Places]
      BY <2>1 DEF Listed, Shape
    <3> QED BY <2>1, <3>1, <3>2 DEF Listed, Shape
  <2>3. \A i \in 1..Len(disp_threads) : disp_threads[i] \in Threads /\ disp_threads[i] # t
    BY <2>1 DEF Listed, Shape, ListedSleep
  <2>4. ListedSleep'
    BY <2>1, <2>3 DEF Listed, Shape, ListedSleep
  <2>5. ListedOnce'
    BY <2>1 DEF Listed, ListedOnce
  <2> QED BY <2>2, <2>4, <2>5 DEF Listed
<1> QED BY <1>1, <1>2

LEMMA ListedNext == ASSUME Listed, [Next]_vars PROVE Listed'
<1>1. CASE Start
  <2>1. disp_threads = <<>>
    BY <1>1 DEF Start, Listed, Shape, ListedSleep
  <2> QED BY <1>1, <2>1 DEF Start, Listed, Shape, ListedSleep, ListedOnce, Places, queue, callers
<1>2. ASSUME NEW m \in Messages, ds_dispatch(m) PROVE Listed'
  BY <1>2, ListedDispatch
<1>3. ASSUME NEW t \in Threads, Entry(t) PROVE Listed'
  BY <1>3, ListedEntry
<1>4. CASE shutdown
  BY <1>4 DEF shutdown, Listed, Shape, ListedSleep, ListedOnce, Places
<1>5. CASE StopPortals \/ JoinPortals \/ wait \/ Joined \/ UNCHANGED vars
  BY <1>5 DEF StopPortals, JoinPortals, wait, Joined, vars, queue, callers,
              Listed, Shape, ListedSleep, ListedOnce
<1> QED BY <1>1, <1>2, <1>3, <1>4, <1>5 DEF Next

(* The list of sleeping threads is exact.                                  *)
THEOREM ListIsExact == Spec => []Listed
<1> QED BY ListedInit, ListedNext, PTL DEF Spec
-----------------------------------------------------------------------------
(* The threads that will look at the queue before they sleep.              *)
Awake == {t \in Threads : pc[t] = "loop"}

LEMMA AwakeIsFinite == IsFiniteSet(Awake) /\ Cardinality(Awake) \in Nat
<1>1. Awake \in SUBSET Threads
  BY DEF Awake
<1> QED BY <1>1, PoolAssumption, FS_Subset, FS_CardinalityType

LEMMA AwakeIsFiniteNext == IsFiniteSet(Awake') /\ Cardinality(Awake') \in Nat
<1>1. Awake' \in SUBSET Threads
  BY DEF Awake
<1> QED BY <1>1, PoolAssumption, FS_Subset, FS_CardinalityType

(* Whoever queues a message wakes a thread for it.                         *)
LEMMA DispatchWakes ==
  ASSUME Listed, NoneSleepsInNeed, NEW m \in Messages, ds_dispatch(m)
  PROVE  NoneSleepsInNeed'
<1>1. CASE disp_threads = <<>>
  BY <1>1 DEF ds_dispatch, SomeoneWaits, NoneSleepsInNeed
<1>2. CASE disp_threads # <<>>
  <2> DEFINE t == disp_threads[1]
  <2>1. t \in Threads /\ pc[t] = "wait"
    BY <1>2 DEF Listed, Shape, ListedSleep
  <2>2. pc' = [pc EXCEPT ![t] = "loop"] /\ mqueue' = Append(mqueue, m)
    BY <1>2 DEF ds_dispatch, SomeoneWaits, Listed, Shape
  <2>3. Awake' = Awake \cup {t} /\ t \notin Awake
    BY <2>1, <2>2 DEF Awake, Listed, Shape
  <2>4. Cardinality(Awake') = Cardinality(Awake) + 1
    BY <2>3, AwakeIsFinite, FS_AddElement
  <2>5. Len(mqueue) <= Cardinality(Awake)
    BY <1>2 DEF NoneSleepsInNeed, Awake
  <2>6. Len(mqueue') = Len(mqueue) + 1 /\ Len(mqueue) \in Nat
    BY <2>2 DEF Listed, Shape
  <2>7. Len(mqueue') <= Cardinality(Awake')
    BY <2>4, <2>5, <2>6, AwakeIsFinite
  <2> QED BY <2>7 DEF NoneSleepsInNeed, Awake
<1> QED BY <1>1, <1>2

(* A thread that takes a message is one fewer, for one message fewer.      *)
LEMMA TakeKeepsBalance ==
  ASSUME Listed, NoneSleepsInNeed, NEW t \in Threads, Take(t)
  PROVE  NoneSleepsInNeed'
<1>1. /\ pc[t] = "loop" /\ pc' = [pc EXCEPT ![t] = "took"]
      /\ mqueue # <<>> /\ mqueue' = Tail(mqueue) /\ disp_threads' = disp_threads
  BY DEF Take
<1>2. Awake' = Awake \ {t} /\ t \in Awake
  BY <1>1 DEF Awake, Listed, Shape
<1>3. Cardinality(Awake') = Cardinality(Awake) - 1
  BY <1>2, AwakeIsFinite, FS_RemoveElement
<1>4. Len(mqueue') = Len(mqueue) - 1 /\ Len(mqueue) \in Nat
  BY <1>1 DEF Listed, Shape
<1>5. CASE disp_threads # <<>>
  <2>1. Len(mqueue) <= Cardinality(Awake)
    BY <1>5 DEF NoneSleepsInNeed, Awake
  <2>2. Len(mqueue') <= Cardinality(Awake')
    BY <1>3, <1>4, <2>1, AwakeIsFinite
  <2> QED BY <2>2 DEF NoneSleepsInNeed, Awake
<1>6. CASE disp_threads = <<>>
  BY <1>1, <1>6 DEF NoneSleepsInNeed
<1> QED BY <1>5, <1>6

(* A thread that comes back to the queue only adds to those awake.         *)
LEMMA ReturnKeepsBalance ==
  ASSUME Listed, NoneSleepsInNeed, NEW t \in Threads,
         Drop(t) \/ Deliver(t) \/ Delivered(t)
  PROVE  NoneSleepsInNeed'
<1>1. Awake \in SUBSET Awake' /\ UNCHANGED <<mqueue, disp_threads>>
  BY DEF Drop, Deliver, Delivered, queue, callers, Awake, Listed, Shape
<1>2. Cardinality(Awake) <= Cardinality(Awake')
  BY <1>1, AwakeIsFiniteNext, FS_Subset
<1>3. Len(mqueue) \in Nat
  BY DEF Listed, Shape
<1>4. disp_threads # <<>> => Len(mqueue) <= Cardinality(Awake)
  BY DEF NoneSleepsInNeed, Awake
<1>5. disp_threads' # <<>> => Len(mqueue') <= Cardinality(Awake')
  BY <1>1, <1>2, <1>3, <1>4, AwakeIsFinite, AwakeIsFiniteNext
<1> QED BY <1>5 DEF NoneSleepsInNeed, Awake

(* A thread sleeps or ends only on an empty queue.                         *)
LEMMA EmptyKeepsBalance ==
  ASSUME mqueue = <<>>, UNCHANGED mqueue
  PROVE  NoneSleepsInNeed'
<1>1. Len(mqueue') = 0
  OBVIOUS
<1>2. Len(mqueue') <= Cardinality(Awake')
  BY <1>1, AwakeIsFiniteNext
<1> QED BY <1>2 DEF NoneSleepsInNeed, Awake

LEMMA BalanceNext ==
  ASSUME Listed, NoneSleepsInNeed, [Next]_vars
  PROVE  NoneSleepsInNeed'
<1>1. CASE Start
  <2>1. disp_threads' = <<>>
    BY <1>1 DEF Start, Listed, Shape, ListedSleep, queue
  <2> QED BY <2>1 DEF NoneSleepsInNeed
<1>2. ASSUME NEW m \in Messages, ds_dispatch(m) PROVE NoneSleepsInNeed'
  BY <1>2, DispatchWakes
<1>3. ASSUME NEW t \in Threads, Entry(t) PROVE NoneSleepsInNeed'
  <2>1. CASE Take(t)
    BY <2>1, TakeKeepsBalance
  <2>2. CASE Exit(t) \/ Sleep(t)
    BY <2>2, EmptyKeepsBalance DEF Exit, Sleep, NothingWaits, queue
  <2>3. CASE Drop(t) \/ Deliver(t) \/ Delivered(t)
    BY <2>3, ReturnKeepsBalance
  <2> QED BY <1>3, <2>1, <2>2, <2>3 DEF Entry
<1>4. CASE shutdown
  BY <1>4 DEF shutdown, NoneSleepsInNeed
<1>5. CASE StopPortals \/ JoinPortals \/ wait \/ Joined \/ UNCHANGED vars
  <2>1. UNCHANGED <<mqueue, disp_threads, pc>>
    BY <1>5 DEF StopPortals, JoinPortals, wait, Joined, vars, queue, callers
  <2> QED BY <2>1 DEF NoneSleepsInNeed
<1> QED BY <1>1, <1>2, <1>3, <1>4, <1>5 DEF Next

(* ds_dispatch() and entry(): as long as a thread sleeps there is, for     *)
(* every message that waits, a thread that will look at the queue.         *)
THEOREM EveryMessageHasAThread == Spec => []NoneSleepsInNeed
<1>1. Init => NoneSleepsInNeed
  BY DEF Init, NoneSleepsInNeed
<1> QED BY <1>1, ListIsExact, BalanceNext, PTL DEF Spec
=============================================================================

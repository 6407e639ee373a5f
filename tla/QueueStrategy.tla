---------------------------- MODULE QueueStrategy ----------------------------
(***************************************************************************)
(* The dispatch threads of an XioMessenger: portal threads queue messages, *)
(* a pool of threads takes them.  A thread that finds nothing puts itself  *)
(* on a list and sleeps; who queues a message takes one thread off that    *)
(* list and wakes it, and shutdown() wakes them all.                       *)
(*                                                                         *)
(* What a thread does with the lock held is one action.  Condition         *)
(* variables do not wake up spuriously: a thread that did would put itself *)
(* on the list twice.  The messages are those that no Dispatcher takes     *)
(* fast.                                                                   *)
(***************************************************************************)
EXTENDS Integers, Sequences, FiniteSets

CONSTANTS
  Threads,     \* the pool
  Messages,    \* bound: each is dispatched at most once
  None         \* no message

ASSUME PoolAssumption == IsFiniteSet(Threads) /\ Threads # {}
ASSUME NoneAssumption == None \notin Messages

VARIABLES
  mqueue,        \* messages that wait for a thread
  disp_threads,  \* waiting threads, the last that came first
  stop,
  pc,            \* where each thread is
  in_hand,       \* the message it has taken
  dispatched,    \* messages that were queued
  handled,       \* messages delivered, or dropped because of stop
  portals,       \* the threads that queue messages
  waiter,        \* the thread in XioMessenger::wait()
  aborted        \* assert(stop) has failed

queue == <<mqueue, disp_threads, stop>>
callers == <<portals, waiter, aborted>>
vars == <<queue, pc, in_hand, dispatched, handled, callers>>

(* start() makes the threads with the lock held, after the portals.        *)
Init ==
  /\ mqueue = <<>> /\ disp_threads = <<>> /\ stop = FALSE
  /\ pc = [t \in Threads |-> "none"] /\ in_hand = [t \in Threads |-> None]
  /\ dispatched = {} /\ handled = {}
  /\ portals = "run" /\ waiter = "out" /\ aborted = FALSE

Start ==
  /\ ~aborted /\ pc = [t \in Threads |-> "none"]
  /\ pc' = [t \in Threads |-> "loop"]
  /\ UNCHANGED <<queue, in_hand, dispatched, handled, callers>>
-----------------------------------------------------------------------------
(* ds_dispatch(), for a message without fast dispatch: one waiting thread  *)
(* is woken.  The mutant tests the queue, as one that wakes only for the   *)
(* first message would.  Portals call it until they are joined, and any    *)
(* thread that sends to its own messenger calls it, also after that.       *)
OnlyTheFirst == mqueue = <<>> /\ disp_threads # <<>>
SomeoneWaits == disp_threads # <<>>

ds_dispatch(m) ==
  /\ ~aborted /\ m \notin dispatched
  /\ dispatched' = dispatched \cup {m}
  /\ mqueue' = Append(mqueue, m)
  /\ IF SomeoneWaits
     THEN /\ pc' = [pc EXCEPT ![Head(disp_threads)] = "loop"]
          /\ disp_threads' = Tail(disp_threads)
     ELSE UNCHANGED <<pc, disp_threads>>
  /\ UNCHANGED <<stop, in_hand, handled, callers>>
-----------------------------------------------------------------------------
(* entry(): a thread takes a message, sees stop, or sleeps.                *)
Take(t) ==
  /\ pc[t] = "loop" /\ mqueue # <<>>
  /\ in_hand' = [in_hand EXCEPT ![t] = Head(mqueue)]
  /\ mqueue' = Tail(mqueue)
  /\ pc' = [pc EXCEPT ![t] = "took"]
  /\ UNCHANGED <<disp_threads, stop, dispatched, handled, callers>>

(* Stop counts only once the queue is empty; the mutant ends at once.      *)
AtOnce == TRUE
NothingWaits == mqueue = <<>>
Exit(t) ==
  /\ pc[t] = "loop" /\ NothingWaits /\ stop
  /\ pc' = [pc EXCEPT ![t] = "done"]
  /\ UNCHANGED <<queue, in_hand, dispatched, handled, callers>>

Sleep(t) ==
  /\ pc[t] = "loop" /\ mqueue = <<>> /\ ~stop
  /\ disp_threads' = <<t>> \o disp_threads
  /\ pc' = [pc EXCEPT ![t] = "wait"]
  /\ UNCHANGED <<mqueue, stop, in_hand, dispatched, handled, callers>>

(* Without the lock: a message taken before stop was set is dropped.       *)
Drop(t) ==
  /\ pc[t] = "took" /\ stop
  /\ handled' = handled \cup {in_hand[t]}
  /\ in_hand' = [in_hand EXCEPT ![t] = None]
  /\ pc' = [pc EXCEPT ![t] = "loop"]
  /\ UNCHANGED <<queue, dispatched, callers>>

Deliver(t) ==
  /\ pc[t] = "took" /\ ~stop
  /\ pc' = [pc EXCEPT ![t] = "deliver"]
  /\ UNCHANGED <<queue, in_hand, dispatched, handled, callers>>

Delivered(t) ==
  /\ pc[t] = "deliver"
  /\ handled' = handled \cup {in_hand[t]}
  /\ in_hand' = [in_hand EXCEPT ![t] = None]
  /\ pc' = [pc EXCEPT ![t] = "loop"]
  /\ UNCHANGED <<queue, dispatched, callers>>

Entry(t) ==
  /\ ~aborted
  /\ Take(t) \/ Exit(t) \/ Sleep(t) \/ Drop(t) \/ Deliver(t) \/ Delivered(t)
-----------------------------------------------------------------------------
(* XioMessenger::shutdown() stops the portals, then the strategy.          *)
StopPortals ==
  /\ ~aborted /\ portals = "run" /\ pc # [t \in Threads |-> "none"]
  /\ portals' = "stopped"
  /\ UNCHANGED <<queue, pc, in_hand, dispatched, handled, waiter, aborted>>

(* shutdown(): the mutant wakes one thread only.                           *)
WakesOne == {disp_threads[i] : i \in {1} \cap DOMAIN disp_threads}
Woken == {disp_threads[i] : i \in DOMAIN disp_threads}

shutdown ==
  /\ ~aborted /\ portals # "run" /\ ~stop
  /\ stop' = TRUE
  /\ pc' = [t \in Threads |-> IF t \in Woken THEN "loop" ELSE pc[t]]
  /\ disp_threads' = <<>>
  /\ UNCHANGED <<mqueue, in_hand, dispatched, handled, callers>>

(* XioMessenger::wait() joins the portals and calls wait(), whose assertion *)
(* holds only if shutdown() has got that far; then it joins the threads.   *)
JoinPortals ==
  /\ ~aborted /\ waiter = "out" /\ portals = "stopped"
  /\ portals' = "joined" /\ waiter' = "wait"
  /\ UNCHANGED <<queue, pc, in_hand, dispatched, handled, aborted>>

wait ==
  /\ ~aborted /\ waiter = "wait"
  /\ IF stop THEN waiter' = "join" /\ UNCHANGED aborted
             ELSE aborted' = TRUE /\ UNCHANGED waiter
  /\ UNCHANGED <<queue, pc, in_hand, dispatched, handled, portals>>

Joined ==
  /\ waiter = "join" /\ \A t \in Threads : pc[t] = "done"
  /\ waiter' = "done"
  /\ UNCHANGED <<queue, pc, in_hand, dispatched, handled, portals, aborted>>

Next ==
  \/ Start
  \/ \E m \in Messages : ds_dispatch(m)
  \/ \E t \in Threads : Entry(t)
  \/ StopPortals \/ shutdown \/ JoinPortals \/ wait \/ Joined

Spec == Init /\ [][Next]_vars

(* The threads run and Dispatchers return; shutdown() is called.           *)
FairSpec ==
  /\ Spec
  /\ \A t \in Threads : WF_vars(Entry(t))
  /\ WF_vars(Start) /\ WF_vars(StopPortals) /\ WF_vars(shutdown)
  /\ WF_vars(JoinPortals) /\ WF_vars(wait) /\ WF_vars(Joined)
-----------------------------------------------------------------------------
(* Every variable keeps its type.                                          *)
TypeOK ==
  /\ mqueue \in Seq(Messages)
  /\ disp_threads \in Seq(Threads)
  /\ stop \in BOOLEAN /\ aborted \in BOOLEAN
  /\ pc \in [Threads -> {"none", "loop", "wait", "took", "deliver", "done"}]
  /\ in_hand \in [Threads -> Messages \cup {None}]
  /\ dispatched \subseteq Messages /\ handled \subseteq Messages
  /\ portals \in {"run", "stopped", "joined"}
  /\ waiter \in {"out", "wait", "join", "done"}

(* ds_dispatch() and entry(): as long as a thread sleeps, every message    *)
(* that waits has a thread that is awake and has nothing in hand.          *)
NoneSleepsInNeed ==
  disp_threads # <<>> =>
    Len(mqueue) <= Cardinality({t \in Threads : pc[t] = "loop"})

(* entry() and shutdown(): a message that was queued before stop was set   *)
(* is delivered or dropped, never left in the queue by threads that ended. *)
NothingLeftBehind ==
  \A m \in Messages :
    (m \in dispatched /\ ~stop) ~> (m \in handled \/ aborted)

(* shutdown() and wait(): the threads end, also one that was between its   *)
(* look at the queue and its sleep.                                        *)
WaitReturns == (waiter = "wait") ~> (waiter = "done" \/ aborted)
=============================================================================

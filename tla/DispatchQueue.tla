---------------------------- MODULE DispatchQueue ----------------------------
(***************************************************************************)
(* The queue of incoming messages of one messenger: the dispatch thread    *)
(* that hands its items to the Dispatchers one at a time, the thread that  *)
(* delivers messages the process sends to itself, and the throttle on the  *)
(* bytes that wait for dispatch.  The callers (readers, fault(), wait())   *)
(* are in SimpleMessenger, which extends this module.                      *)
(*                                                                         *)
(* PrioritizedQueue and Throttle are not part of this repository: a queue  *)
(* per priority and class, of which the highest priority goes first (which *)
(* of its classes is open), and a counter with a limit.  Every message     *)
(* read from a socket reserves one unit of the throttle.                   *)
(***************************************************************************)
EXTENDS Integers, Sequences, FiniteSets

CONSTANTS
  Conn,        \* the connections: each has one Pipe, and its conn_id is a class of mqueue
  Loopback,    \* class 0: events, and messages the process sends to itself
  Kinds,       \* the messages of a run: "low" and "high" priority, or "fast" dispatch
  Limit        \* capacity of dispatch_throttler, in messages

ASSUME LoopbackIsNoConn == Loopback \notin Conn
ASSUME KindsAreKnown == Kinds \subseteq {"low", "high", "fast"}
ASSUME LimitIsPositive == Limit \in Nat \ {0}

VARIABLES
  mqueue,          \* [priority, class] -> the items queued
  throttle,        \* units of dispatch_throttler in use
  stop,            \* tells the dispatch thread to finish
  dispatcher,      \* where the dispatch thread is
  current,         \* the item it has in hand
  local_messages,  \* messages to the process itself
  stop_local,      \* stop_local_delivery
  deliverer,       \* where the local delivery thread is
  in_hand,         \* the message it has in hand
  seen             \* what the Dispatchers have been called with, per connection

dispatchVars == <<mqueue, dispatcher, current>>
localVars    == <<local_messages, stop_local, deliverer, in_hand>>
queueVars    == <<dispatchVars, localVars, throttle, stop, seen>>
-----------------------------------------------------------------------------
Low     == 1
High    == 2
Highest == 3
Priorities == Low..Highest
Classes    == Conn \cup {Loopback}
Events     == {"accept", "reset"}

Item == [what : {"msg"} \cup Events, con : Classes, n : Nat, kind : Kinds \cup {"code"},
         size : {0, 1}]
Code(what, c) == [what |-> what, con |-> c, n |-> 0, kind |-> "code", size |-> 0]
Msg(c, n, k, size) == [what |-> "msg", con |-> c, n |-> n, kind |-> k, size |-> size]
Nothing == Code("accept", Loopback)
Priority(m) == CASE m.what # "msg" -> Highest
                 [] m.kind = "high" -> High
                 [] OTHER -> Low
IsFast(m) == m.kind = "fast"

QueueInit ==
  /\ mqueue = [q \in Priorities \X Classes |-> <<>>]
  /\ throttle = 0
  /\ stop = FALSE
  /\ dispatcher = "loop" /\ current = Nothing
  /\ local_messages = <<>> /\ stop_local = FALSE
  /\ deliverer = "loop" /\ in_hand = Nothing
  /\ seen = [c \in Classes |-> <<>>]

Signalled(thread) == IF thread = "wait" THEN "loop" ELSE thread
Told(c, m) == seen' = [seen EXCEPT ![c] = Append(@, m)]

(* enqueue(), queue_accept() and queue_reset(): only the last two look at  *)
(* stop.  Events go to class 0 at the highest priority.  Mutants: a stack, *)
(* and events at the priority of messages.                                 *)
InFront(s, m) == <<m>> \o s
AtEnd(s, m) == Append(s, m)
OfMessages(m) == Low
QueuePriority(m) == Priority(m)

Enqueue(m, class) ==
  /\ mqueue' = [mqueue EXCEPT ![<<QueuePriority(m), class>>] = AtEnd(@, m)]
  /\ dispatcher' = Signalled(dispatcher)

QueueCode(what, c) ==
  IF stop THEN UNCHANGED <<mqueue, dispatcher>> ELSE Enqueue(Code(what, c), Loopback)

(* discard_queue(): a class leaves the queue, and its reservations with it *)
QueuedIn(classes) ==
  UNION {{<<q, i>> : i \in DOMAIN mqueue[q]} : q \in Priorities \X classes}
Reservations(classes) ==
  Cardinality({x \in QueuedIn(classes) : mqueue[x[1]][x[2]].size = 1})

(* Mutants: none of the class's reservations is released, or all there are.*)
KeepsReservations(c) == throttle
ReleasesAll(c) == throttle - Reservations(Classes)
AfterDiscard(c) == throttle - Reservations({c})
DiscardQueue(c) ==
  /\ mqueue' = [q \in Priorities \X Classes |-> IF q[2] = c THEN <<>> ELSE mqueue[q]]
  /\ throttle' = AfterDiscard(c)
-----------------------------------------------------------------------------
(* entry(): the dispatch thread.  It looks at stop without the lock when   *)
(* it has a message in hand, and ends only when the queue is empty.        *)
NonEmpty == {q \in Priorities \X Classes : mqueue[q] # <<>>}

Dequeue ==
  /\ dispatcher = "loop"
  /\ \E q \in NonEmpty :
       /\ \A r \in NonEmpty : r[1] <= q[1]
       /\ current' = Head(mqueue[q])
       /\ mqueue' = [mqueue EXCEPT ![q] = Tail(@)]
  /\ dispatcher' = "handle"
  /\ UNCHANGED <<localVars, throttle, stop, seen>>

DispatcherSleeps ==
  /\ dispatcher = "loop" /\ NonEmpty = {} /\ ~stop
  /\ dispatcher' = "wait"
  /\ UNCHANGED <<mqueue, current, localVars, throttle, stop, seen>>

DispatcherExits ==
  /\ dispatcher = "loop" /\ NonEmpty = {} /\ stop
  /\ dispatcher' = "exit"
  /\ UNCHANGED <<mqueue, current, localVars, throttle, stop, seen>>

HandleCode ==
  /\ dispatcher = "handle" /\ current.what # "msg"
  /\ Told(current.con, current)
  /\ dispatcher' = "loop" /\ current' = Nothing
  /\ UNCHANGED <<mqueue, localVars, throttle, stop>>

(* With stop set a message is dropped; its reservation is not released.    *)
DropMessage ==
  /\ dispatcher = "handle" /\ current.what = "msg" /\ stop
  /\ dispatcher' = "loop" /\ current' = Nothing
  /\ UNCHANGED <<mqueue, localVars, throttle, stop, seen>>

BeginDispatch ==
  /\ dispatcher = "handle" /\ current.what = "msg" /\ ~stop
  /\ Told(current.con, current)
  /\ dispatcher' = "dispatch"
  /\ UNCHANGED <<mqueue, current, localVars, throttle, stop>>

(* post_dispatch(); the mutant reads the size after it was cleared.        *)
ClearedSize(m) == 0
DispatchSize(m) == m.size
EndDispatch ==
  /\ dispatcher = "dispatch"
  /\ throttle' = throttle - DispatchSize(current)
  /\ dispatcher' = "loop" /\ current' = Nothing
  /\ UNCHANGED <<mqueue, localVars, stop, seen>>

DispatchThread ==
  \/ Dequeue \/ DispatcherSleeps \/ DispatcherExits
  \/ HandleCode \/ DropMessage \/ BeginDispatch \/ EndDispatch
-----------------------------------------------------------------------------
(* local_delivery(): signals only a list that was empty; the mutant tests  *)
(* after the push.                                                         *)
NeverEmpty == FALSE
WasEmpty == local_messages = <<>>
LocalDelivery(m) ==
  /\ local_messages' = Append(local_messages, m)
  /\ deliverer' = IF WasEmpty THEN Signalled(deliverer) ELSE deliverer
  /\ UNCHANGED <<dispatchVars, stop_local, in_hand, throttle, stop, seen>>

(* run_local_delivery()                                                    *)
LocalTakes ==
  /\ deliverer = "loop" /\ ~stop_local /\ local_messages # <<>>
  /\ in_hand' = Head(local_messages)
  /\ local_messages' = Tail(local_messages)
  /\ deliverer' = "deliver"
  /\ UNCHANGED <<dispatchVars, stop_local, throttle, stop, seen>>

LocalSleeps ==
  /\ deliverer = "loop" /\ ~stop_local /\ local_messages = <<>>
  /\ deliverer' = "wait"
  /\ UNCHANGED <<dispatchVars, local_messages, stop_local, in_hand, throttle, stop, seen>>

LocalExits ==
  /\ deliverer = "loop" /\ stop_local
  /\ deliverer' = "exit"
  /\ UNCHANGED <<dispatchVars, local_messages, stop_local, in_hand, throttle, stop, seen>>

LocalDelivers ==
  /\ deliverer = "deliver"
  /\ IF IsFast(in_hand)
     THEN Told(Loopback, in_hand) /\ UNCHANGED <<mqueue, dispatcher>>
     ELSE Enqueue(in_hand, Loopback) /\ UNCHANGED seen
  /\ deliverer' = "loop" /\ in_hand' = Nothing
  /\ UNCHANGED <<current, local_messages, stop_local, throttle, stop>>

LocalThread == LocalTakes \/ LocalSleeps \/ LocalExits \/ LocalDelivers
-----------------------------------------------------------------------------
(* shutdown(): first the local thread is told, then the dispatch thread.   *)
StopLocal ==
  /\ stop_local' = TRUE
  /\ deliverer' = Signalled(deliverer)
  /\ UNCHANGED <<dispatchVars, local_messages, in_hand, throttle, stop, seen>>

(* The mutant leaves out cond.Signal().                                    *)
NotSignalled(thread) == thread
StopSignal(thread) == Signalled(thread)
StopDispatch ==
  /\ stop' = TRUE
  /\ dispatcher' = StopSignal(dispatcher)
  /\ UNCHANGED <<mqueue, current, localVars, throttle, seen>>

DiscardLocal ==
  /\ local_messages' = <<>>
  /\ UNCHANGED <<dispatchVars, stop_local, deliverer, in_hand, throttle, stop, seen>>
-----------------------------------------------------------------------------
QueueTypeOK ==
  /\ mqueue \in [Priorities \X Classes -> Seq(Item)]
  /\ throttle \in 0..Limit
  /\ stop \in BOOLEAN /\ stop_local \in BOOLEAN
  /\ dispatcher \in {"loop", "wait", "handle", "dispatch", "exit"}
  /\ deliverer \in {"loop", "wait", "deliver", "exit"}
  /\ current \in Item /\ in_hand \in Item
  /\ local_messages \in Seq(Item)
  /\ seen \in [Classes -> Seq(Item)]
=============================================================================

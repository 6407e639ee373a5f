-------------------------- MODULE ReliableChannel --------------------------
(***************************************************************************)
(* What a SimpleMessenger with a lossless policy promises its application  *)
(* (Messenger.h, send_message and the Policy constructors): messages reach *)
(* the peer in the order they were submitted, each at most once, and one   *)
(* is skipped only if an end has been told, by a reset event, that it may  *)
(* be lost.                                                                *)
(***************************************************************************)
EXTENDS Integers, Sequences

CONSTANT MaxSubmit   \* bound: MaxSubmit[p] messages are submitted at p

VARIABLES submitted, delivered, excused

Peers == {1, 2}
Other(p) == 3 - p

Init == /\ submitted = [p \in Peers |-> 0]
        /\ delivered = [p \in Peers |-> <<>>]
        /\ excused = [p \in Peers |-> {}]

(* Message m of p goes out; without a session to send it on it is lost.    *)
Submit(p) ==
  /\ submitted[p] < MaxSubmit[p]
  /\ submitted' = [submitted EXCEPT ![p] = @ + 1]
  /\ excused' \in {excused, [excused EXCEPT ![p] = @ \cup {submitted'[p]}]}
  /\ UNCHANGED delivered

Last(s) == IF s = <<>> THEN 0 ELSE s[Len(s)]

(* p is given a later message of its peer than any it was given before,    *)
(* and nothing in between is still owed to it.                             *)
Deliver(p) ==
  \E m \in (Last(delivered[p]) + 1)..submitted[Other(p)] :
    /\ \A n \in (Last(delivered[p]) + 1)..(m - 1) : n \in excused[Other(p)]
    /\ delivered' = [delivered EXCEPT ![p] = Append(@, m)]
    /\ UNCHANGED <<submitted, excused>>

(* An end is told that the session was reset.                              *)
Reset ==
  /\ excused' = [p \in Peers |-> 1..submitted[p]]
  /\ UNCHANGED <<submitted, delivered>>

Next == Reset \/ \E p \in Peers : Submit(p) \/ Deliver(p)

Spec == Init /\ [][Next]_<<submitted, delivered, excused>>
=============================================================================

--------------------------- MODULE AsyncSessionMC ---------------------------
(* Scenarios for AsyncSession: the policies of Messenger.h, the number of  *)
(* workers and what may happen.                                            *)
EXTENDS AsyncSession

Pol(l, s, st, r) == [lossy |-> l, server |-> s, standby |-> st, resetcheck |-> r]

LosslessPeer    == [p \in Peers |-> Pol(FALSE, FALSE, TRUE, FALSE)]
(* 1 is the server, 2 its client.                                          *)
StatefulServer  == [p \in Peers |-> IF p = 1 THEN Pol(FALSE, TRUE, TRUE, TRUE)
                                    ELSE Pol(FALSE, FALSE, FALSE, TRUE)]
LossyClient     == [p \in Peers |-> IF p = 1 THEN Pol(TRUE, TRUE, FALSE, FALSE)
                                    ELSE Pol(TRUE, FALSE, FALSE, FALSE)]

Scenario(pol, w1, s1, s2, f, d, k) ==
  [policy |-> pol, workers |-> [p \in Peers |-> IF p = 1 THEN w1 ELSE 1],
   left |-> [submit |-> [p \in Peers |-> IF p = 1 THEN s1 ELSE s2],
             faults |-> f, downs |-> d, keepalives |-> k]]

TwoEach == [p \in Peers |-> 2]

(* No fault and one worker each: both connect at once.  Two workers and a   *)
(* mark_down(): what accepts races with what is accepted.                   *)
SessionScenarios ==
  {Scenario(LosslessPeer, 1, 1, 1, 0, 0, 0), Scenario(LosslessPeer, 2, 0, 1, 1, 1, 0),
   Scenario(LosslessPeer, 1, 1, 0, 1, 1, 1), Scenario(LosslessPeer, 1, 0, 1, 2, 0, 0),
   Scenario(StatefulServer, 2, 0, 2, 1, 0, 0), Scenario(StatefulServer, 1, 1, 1, 0, 1, 1),
   Scenario(LossyClient, 2, 0, 1, 1, 1, 0)}

(* One worker each and no mark_down().                                      *)
DeliveryScenarios ==
  {Scenario(LosslessPeer, 1, 0, 2, 1, 0, 0), Scenario(StatefulServer, 1, 0, 2, 1, 0, 0),
   Scenario(LosslessPeer, 1, 0, 1, 2, 0, 0), Scenario(LossyClient, 1, 0, 1, 1, 0, 0),
   Scenario(StatefulServer, 1, 1, 1, 0, 0, 0)}

(* A connection that is replaced and marked down.                           *)
MarkDownScenarios == {Scenario(StatefulServer, 1, 0, 2, 1, 1, 0)}
=============================================================================

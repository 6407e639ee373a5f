---------------------------- MODULE PipeSessionMC ----------------------------
(* Values for PipeSession's constants: the policies of Messenger.h.        *)
EXTENDS PipeSession

Pol(l, s, st, r) == [lossy |-> l, server |-> s, standby |-> st, resetcheck |-> r]

LosslessPeer    == [p \in Peers |-> Pol(FALSE, FALSE, TRUE, FALSE)]
(* 1 is the server, 2 its client.                                          *)
StatefulServer  == [p \in Peers |-> IF p = 1 THEN Pol(FALSE, TRUE, TRUE, TRUE)
                                    ELSE Pol(FALSE, FALSE, FALSE, TRUE)]
LossyClient     == [p \in Peers |-> IF p = 1 THEN Pol(TRUE, TRUE, FALSE, FALSE)
                                    ELSE Pol(TRUE, FALSE, FALSE, FALSE)]

OnlyOne(q, n) == [p \in Peers |-> IF p = q THEN n ELSE 0]
ClientOne == OnlyOne(2, 1)
ClientTwo == OnlyOne(2, 2)
OneEach == [p \in Peers |-> 1]
ClientMore == [p \in Peers |-> p]
=============================================================================

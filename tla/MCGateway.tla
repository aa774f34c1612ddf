----------------------------- MODULE MCGateway -----------------------------
(* A frame that fits and one too long; a list of two entries, and one      *)
(* without a valid interval whose second letter is wrong.                  *)
EXTENDS Gateway

F(i) == [id |-> i, len |-> i]
E(k, i, w) == [key |-> k, frame |-> F(i), wait |-> w]
L(s) == [entries |-> s]
SomeFrames == {F(1), F(2)}
SomeLists == {L(<<E(1, 1, 2), E(2, 2, 0)>>), L(<<E(1, 2, -1), E(3, 1, 1)>>)}
=============================================================================

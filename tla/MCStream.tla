------------------------------ MODULE MCStream ------------------------------
EXTENDS Stream

CONSTANTS m1, m2

\* The client sends one message and the server another, which is malformed.
TwoMessages == {m1, m2}
FromEach == [m \in TwoMessages |-> IF m = m1 THEN "client" ELSE "server"]
OneMalformed == {m2}
=============================================================================

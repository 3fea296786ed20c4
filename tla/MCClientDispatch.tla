--------------------------- MODULE MCClientDispatch ---------------------------
EXTENDS ClientDispatch

CONSTANTS c1, t1

OneCall == {c1}
OneStream == {t1}

\* One more than there is room for on the way to the caller, or to the stream.
FewAnswers == [t \in {c1, t1} |-> IF t = c1 THEN 4 ELSE 2]

\* As on redis.
AllLocking == {"RES", "CLAIM", "STR"}
=============================================================================

----------------------------- MODULE MCRedisBus -----------------------------
EXTENDS RedisBus, TLC

CONSTANTS c1, c2, m1, m2, m3, f1, s1, s2, s3, handler, dispatcher

\* Two goroutines publish on c1, as does another process.  A handler's loop takes from the
\* queue of c1 and answers there; a dispatcher reads c1 and c2, and closes both itself.
FourMessages == {m1, m2, m3, f1}
OneForeign == {f1}
OneMessage == {m1}
OnC1 == [m \in Messages |-> c1]
AnswerOfHandler == [m \in Messages |-> IF m = m3 THEN handler ELSE None]
TwoReaders == {handler, dispatcher}
TheDispatcher == {dispatcher}
HandlerOfS1 == [s \in Subscribers |-> IF s = s1 THEN handler ELSE dispatcher]
ThreeSubscribers == {s1, s2, s3}
TwoSubscribers == {s1, s2}
ExceptS3OnC1 == [s \in Subscribers |-> IF s = s3 THEN c2 ELSE c1]
OnlyS1Queue == [s \in Subscribers |-> s = s1]
TwoChannels == {c1, c2}
OneChannel == {c1}
Nobody == {}

\* Bound: four messages, subscribers and failures together; or five, the one
\* subscriber and four messages.
Crowd ==
    LET messages == Cardinality({m \in Messages : ppc[m] # "idle"})
        subscribers == Cardinality({s \in Subscribers : spc[s] # "new"})
        failed == Failures - failures IN
    messages + subscribers + failed <= IF subscribers + failed <= 1 THEN 5 ELSE 4

Symmetry == Permutations({m1, m2})
=============================================================================

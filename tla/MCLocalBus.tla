----------------------------- MODULE MCLocalBus -----------------------------
EXTENDS LocalBus, TLC

CONSTANTS p1, p2, s1, s2, s3

TwoPublishers == {p1, p2}
OnePublisher == {p1}
TwoSubscribers == {s1, s2}
ThreeSubscribers == {s1, s2, s3}

\* Bound: one publisher; or two, of one message each, and two subscribers; or two and
\* one subscriber, whose buffers then overflow.
Crowd ==
    \/ Cardinality({p \in Publishers : sent[p] > 0}) <= 1
    \/ /\ \A p \in Publishers : sent[p] <= 1
       /\ Cardinality({s \in Subscribers : spc[s] # "new"}) <= 2
    \/ Cardinality({s \in Subscribers : spc[s] # "new"}) <= 1

Symmetry == Permutations(Publishers) \cup Permutations(Subscribers)
=============================================================================

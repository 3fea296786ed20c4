------------------------------ MODULE MCNatsBus ------------------------------
EXTENDS NatsBus, TLC

CONSTANTS a1, a2, b, q, d, m1, m2, part, here, there

\* Two subscribers of one channel, one of another on the same server part, one
\* that asks for it as a queue, and one that is not routed.
AllKinds == {a1, a2, b, q, d}
SameServer == [s \in AllKinds \cup {m1, m2} |-> part]
Locals == [s \in AllKinds \cup {m1, m2} |->
              CASE s \in {a1, a2, q, m1, m2} -> here [] s = b -> there [] s = d -> None]
OneQueue == {q}
TwoMessages == {m1, m2}

\* Bound: three subscribers, or two of which one is direct.
Crowd ==
    LET begun == {s \in Subscribers : spc[s] # "new"} IN
    Cardinality(begun) + Cardinality(begun \cap Direct) <= 3

Symmetry == Permutations({a1, a2}) \cup Permutations(Messages)
=============================================================================

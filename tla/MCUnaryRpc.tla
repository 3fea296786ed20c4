----------------------------- MODULE MCUnaryRpc -----------------------------
(***************************************************************************)
(* The calls of MCRequests differ in their method and SelectionOpts; a     *)
(* behaviour makes the calls of one member of Mixes.                       *)
(***************************************************************************)
EXTENDS UnaryRpc, TLC

CONSTANTS best, range, picked, first, queued, direct, s1, s2

MCRequests == {best, range, picked, first, queued, direct}
LiveRequests == {range, queued, direct}
MCServers == {s1, s2}

MCMethod ==
    [r \in Requests |-> [claim |-> r # direct, queue |-> r = queued]]

MCSelection ==
    [r \in Requests |->
        [first   |-> r \in {first, queued, direct},
         minimum |-> IF r = range THEN 1 ELSE 0,
         maximum |-> IF r = range THEN 2 ELSE 0,
         custom  |-> r = picked]]

\* The methods with an affinity function, and those without.
MCAffinities ==
    [r \in Requests |-> IF r \in {queued, direct} THEN {1} ELSE -1..2]

FewAffinities ==
    [r \in Requests |-> IF r \in {queued, direct} THEN {1} ELSE {1, 2}]

\* NATS, and redis, for a client without streams.
NoneLocking == {}
ClaimsAndResponses == {"claims", "responses"}

CONSTANTS Mixes, MayClose
SomeMayClose == {best, range, direct}
EachAlone == {{r} : r \in Requests}
AloneOrShared == EachAlone \cup {{queued, direct}}

ServerSymmetry == Permutations(MCServers)

\* The calls begun are of one mix; and the client is closed only during one of
\* MayClose.
OneMix ==
    LET begun == {r \in Requests : pc[r] # "idle"} IN
    /\ \E mix \in Mixes : begun \subseteq mix
    /\ closed => Cardinality(begun) <= 1 /\ begun \subseteq MayClose
=============================================================================

------------------------------ MODULE MCMission ------------------------------
(* TLC instances of Mission: two steps, the second waiting for the first.    *)
EXTENDS Mission, TLC

CONSTANTS s1, s2

ChainNeeds == [s \in Steps |-> IF s = s2 THEN {s1} ELSE {}]

WorkerSymmetry == Permutations(Workers)
=============================================================================

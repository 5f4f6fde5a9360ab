------------------------- MODULE MCCollections -----------------------------
(* A Director with two clients, one storage, two jobs and one pool.        *)
EXTENDS Collections

CONSTANTS C1, C2, S1, J1, J2, P1

MCClientList  == <<C1, C2>>
MCStorageList == <<S1>>
MCJobList     == <<J1, J2>>
MCPoolList    == <<P1>>
MCJobClient  == [j \in {J1, J2} |-> IF j = J1 THEN C1 ELSE C2]
MCJobStorage == [j \in {J1, J2} |-> S1]
=============================================================================

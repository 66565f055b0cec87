------------------------------- MODULE MCCache -------------------------------
(* Model-checking instance of ResultsCache: two datasets, one of which can   *)
(* also be named with its schema; a join that names that one with its schema *)
(* and the other without, and a plan that the cache does not accept.         *)
EXTENDS ResultsCache

CONSTANTS a, b, aName, aQualified, bName, join, system, q1, q2

MCTableOf == [r \in References |-> IF r = bName THEN b ELSE a]
MCNameOf == [d \in Datasets |-> IF d = b THEN bName ELSE aName]
MCRefsOf == [p \in Plans |-> IF p = join THEN {aQualified, bName} ELSE {}]
=============================================================================

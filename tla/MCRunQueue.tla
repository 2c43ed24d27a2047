--------------------------- MODULE MCRunQueue ---------------------------
(* RunQueue for TLC: multi covers the variants of two assets, spy those of *)
(* one.  In the first two instances r1 is imported for both assets, by     *)
(* POST /runs/import/prices, which stores expectedVariants, and r2 for spy, *)
(* by POST /runs/import/spy29, which stores none.                          *)
EXTENDS RunQueue, TLC

CONSTANTS r1, r2, multi, spy, c1, c2, v1, v2

MCImported == [r \in Runs |-> IF r = r1 THEN multi ELSE spy]
MCCovers   == [a \in Assets |-> IF a = multi THEN {v1, v2} ELSE {v1}]
MCExpected == [r \in Runs |-> IF r = r1 THEN 2 ELSE 0]

\* A run of spy alone.
SpyImported == [r \in Runs |-> spy]
SpyExpected == [r \in Runs |-> 1]

Symmetry == Permutations({c1, c2})
=============================================================================

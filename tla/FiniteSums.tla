----------------------------- MODULE FiniteSums -----------------------------
(***************************************************************************)
(* The sum of a natural-valued function over its finite domain, as the     *)
(* code computes it with a loop over a Map.  The sum is stated as a number *)
(* of units, a pair <<x, k>> for every k in 1..f[x], so that what a proof  *)
(* needs to know of a sum follows from the library's facts about           *)
(* cardinality and no induction is needed.                                 *)
(***************************************************************************)
EXTENDS Integers, FiniteSets, Functions

\* The units that x contributes to the sum of f.
UnitsOf(f, x) == {x} \X (1 .. f[x])

\* All the units of f.
Units(f) == UNION {UnitsOf(f, x) : x \in DOMAIN f}

\* The sum of f[x] over the domain of f.
Total(f) == Cardinality(Units(f))

=============================================================================

------------------------------ MODULE Counting ------------------------------
(***************************************************************************)
(* Sums and orders said with cardinalities.  A loop that adds up a column, *)
(* or that goes through a set in its order, has the result of these        *)
(* operators; they are not recursive, so that facts about them can be      *)
(* proved (CountingProofs).                                                *)
(***************************************************************************)
EXTENDS Naturals, FiniteSets

(* The sum of the numbers count[x]: x stands for as many pairs.               *)
Tally(count) == Cardinality(UNION {{x} \X (1 .. count[x]) : x \in DOMAIN count})

(* The n-th element of S in the order of Before(_, _).                        *)
Nth(S, Before(_, _), n) == CHOOSE x \in S : Cardinality({y \in S : Before(y, x)}) = n - 1
=============================================================================

----------------------------- MODULE Positions -----------------------------
(***************************************************************************)
(* What a loop over an array collects when it keeps the elements that pass *)
(* a test: their positions in ascending order.                             *)
(***************************************************************************)
EXTENDS Naturals, FiniteSets

(* How many positions of S come before i.                                  *)
Before(S, i) == Cardinality({j \in S : j < i})

(* The positions of S, a finite set of numbers, from the lowest on.        *)
Ascending(S) ==
  [k \in 1 .. Cardinality(S) |-> CHOOSE i \in S : Before(S, i) = k - 1]
=============================================================================

------------------------------ MODULE Ordering ------------------------------
(* Sets of numbers in their order.                                          *)
EXTENDS Naturals, FiniteSets

(* A finite set of numbers as a sequence, the smallest first. *)
Ascending(S) ==
    [i \in 1 .. Cardinality(S) |-> CHOOSE k \in S : Cardinality({j \in S : j <= k}) = i]

=============================================================================

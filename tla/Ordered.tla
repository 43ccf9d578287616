------------------------------ MODULE Ordered ------------------------------
(***************************************************************************)
(* A set of numbers as a sequence: positions of a list that are picked     *)
(* (filter.rs), rows that are asked for in an order (store/db.rs).         *)
(***************************************************************************)
EXTENDS Naturals, FiniteSets

Place(k, S) == Cardinality({j \in S : j <= k})

Ascending(S) == [n \in 1 .. Cardinality(S) |-> CHOOSE k \in S : Place(k, S) = n]
=============================================================================

------------------------------ MODULE Ordered ------------------------------
(***************************************************************************)
(* Lists in an order: what a query answers with ORDER BY, and what a page  *)
(* keeps of a list it filters.  An element is found by its place, how many *)
(* are not after it.                                                       *)
(***************************************************************************)
EXTENDS Integers, FiniteSets

Place(S, i) == Cardinality({j \in S : j <= i})

\* A finite set of numbers, the smallest first.
Ascending(S) == [k \in 1 .. Cardinality(S) |-> CHOOSE i \in S : Place(S, i) = k]

\* The largest first.
Descending(S) ==
  [k \in 1 .. Cardinality(S) |-> Ascending(S)[Cardinality(S) + 1 - k]]

\* What stands at these places of a list.
Kept(list, places) == [k \in 1 .. Cardinality(places) |-> list[Ascending(places)[k]]]
=============================================================================

----------------------------- MODULE MCFeatures -----------------------------
(***************************************************************************)
(* A small instance of Features for TLC.  Slots and people are             *)
(* interchangeable; what has an order or is looked up is not.              *)
(***************************************************************************)
EXTENDS Features, TLC

(* What Nominatim may know of the town of Places: a museum that is found with the name
   of the town or without it, here or elsewhere, a market and a square. *)

N(t) == [term |-> t, name |-> TRUE]
A(t) == [term |-> t, name |-> FALSE]

Museums == << <<N("museum")>>, <<N("market"), A("square")>>, <<N("square")>> >>

Hit(where, right) == [where |-> where, right |-> right]
Miss    == Hit("nowhere", FALSE)
Away(h) == [town |-> Miss, alone |-> h]
Both(h) == [town |-> h, alone |-> h]

Towns ==
  {[town |-> Both(Hit("near", TRUE)), museum |-> Away(m), market |-> Both(k), square |-> Both(s)] :
     m \in {Hit("far", TRUE), Hit("aside", TRUE)}, k \in {Miss, Hit("near", TRUE)},
     s \in {Hit("near", FALSE), Hit("near", TRUE)}}

\* Two names for one text, one for the other.
MCSuggestions == [t \in {"par", "lis"} |-> IF t = "par" THEN <<"Paris", "Parma">> ELSE <<"Lisbon">>]

Symmetry == Permutations(Users) \cup Permutations(Requests)
=============================================================================

---------------------------- MODULE MCItinerary ----------------------------
(***************************************************************************)
(* Itinerary on a small instance.                                          *)
(***************************************************************************)
EXTENDS Itinerary, TLC

\* Slots, edits and tabs are interchangeable.
Alike == Permutations(Requests) \cup Permutations(Edits) \cup Permutations(Tabs)
=============================================================================

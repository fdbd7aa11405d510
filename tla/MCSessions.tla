----------------------------- MODULE MCSessions -----------------------------
(***************************************************************************)
(* Sessions on a small instance.                                           *)
(***************************************************************************)
EXTENDS Sessions, TLC

\* Request slots are interchangeable: no property tells one from another.
Slots == Permutations(Requests)
=============================================================================

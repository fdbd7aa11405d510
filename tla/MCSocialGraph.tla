--------------------------- MODULE MCSocialGraph ---------------------------
(***************************************************************************)
(* SocialGraph on a small instance: two fans and one host, so that two     *)
(* followers race for the first milestone.                                 *)
(***************************************************************************)
EXTENDS SocialGraph, TLC

CONSTANTS ana, bia, rui

MCUsers == {ana, bia, rui}

TwoFans == {<<bia, ana>>, <<rui, ana>>}

OneFan == {<<bia, ana>>}

Slots == Permutations(Requests)
=============================================================================

---------------------------- MODULE MCFragments -----------------------------
(***************************************************************************)
(* An instance of Fragments for TLC: packets of one or two fragments.      *)
(***************************************************************************)
EXTENDS Fragments

OneOrTwo == {1, 2}

=============================================================================

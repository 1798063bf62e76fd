------------------------------ MODULE MCJournal ------------------------------
(***************************************************************************)
(* A small instance of the journal for TLC: two commands that may overlap. *)
(***************************************************************************)
EXTENDS Journal, TLC

CONSTANTS w1, w2

EitherWriter == Permutations(Writers)
=============================================================================

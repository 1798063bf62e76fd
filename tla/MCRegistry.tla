----------------------------- MODULE MCRegistry ------------------------------
(***************************************************************************)
(* A small instance of the registry for TLC: two workspaces with a change  *)
(* each.  w1 requires signatures and trusts its own key only; w2 takes     *)
(* what it gets.                                                           *)
(***************************************************************************)
EXTENDS Registry

CONSTANTS w1, w2, c1, c2

OneEach == [c \in ChangeSets |-> IF c = c1 THEN w1 ELSE w2]
TrustOwn == [w \in Workspaces |-> {w1}]
=============================================================================

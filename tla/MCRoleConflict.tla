---------------------------- MODULE MCRoleConflict ----------------------------
(***************************************************************************)
(* Two agents; only the order of their tie-breakers matters, and the       *)
(* initial roles cover the four combinations.                              *)
(***************************************************************************)
EXTENDS RoleConflict, TLC

MCTie == ("a" :> 2) @@ ("b" :> 1)
=============================================================================

---------------------------- MODULE ProjectFiles ----------------------------
(***************************************************************************)
(* The first-party files of one project: the reachability walk and the     *)
(* index of symbols speak of the same ones.                                *)
(***************************************************************************)
CONSTANT Files
=============================================================================

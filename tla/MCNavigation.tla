---------------------------- MODULE MCNavigation ----------------------------
(***************************************************************************)
(* One build of the repository's workflows (MCCompiler) with readers      *)
(* navigating the graph while it is written.                                *)
(***************************************************************************)
EXTENDS Navigation, MCCompiler
=============================================================================

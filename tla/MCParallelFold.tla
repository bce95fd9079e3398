--------------------------- MODULE MCParallelFold ---------------------------
(***************************************************************************)
(* Four items and three threads: a thread may claim several items, finish  *)
(* before another started, and panic on any subset of the items.           *)
(***************************************************************************)
EXTENDS ParallelFold

MCWork == <<"x", "y", "x", "z">>
=============================================================================

----------------------------- MODULE MCParseJob -----------------------------
(* Any set of cached, unreadable and panicking sources, any thread refused. *)
EXTENDS ParseJob, TLC
=============================================================================

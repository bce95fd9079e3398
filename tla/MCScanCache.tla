---------------------------- MODULE MCScanCache -----------------------------
(* Two changes are enough to return a file under old stamps; processes     *)
(* that follow each other share the cache as those that overlap do.        *)
EXTENDS ScanCache
=============================================================================

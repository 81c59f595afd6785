-------------------------- MODULE MCSharedSegments --------------------------
(* Two processes, at most two writers dead with one segment, and a process *)
(* that may attach again to an entry that a failed call left attached.     *)
EXTENDS SharedSegments
=============================================================================

--------------------------- MODULE MCSharedQueue ---------------------------
(* Two workers and the API process over one job.                           *)
EXTENDS SharedQueue
=============================================================================

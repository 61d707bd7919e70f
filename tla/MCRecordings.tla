---------------------------- MODULE MCRecordings ----------------------------
(* A small instance of Recordings: every upload is of one user.            *)
EXTENDS Recordings

MCOwner == [i \in Ids |-> CHOOSE u \in Users : TRUE]
=============================================================================

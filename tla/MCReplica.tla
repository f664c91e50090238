----------------------------- MODULE MCReplica -----------------------------
(* Replica for TLC: a watched stream and an unwatched call.                  *)
EXTENDS Replica
=============================================================================

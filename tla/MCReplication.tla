--------------------------- MODULE MCReplication ----------------------------
(* A finite instance of Replication. *)
EXTENDS Replication
=============================================================================

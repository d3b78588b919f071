----------------------------- MODULE MCKeyspace -----------------------------
(* Finite instances of Keyspace: one database with two keys in two shards. *)
EXTENDS Keyspace

OneDb == {0}
TwoShards == {0, 1}
SplitNames == [n \in Names |-> IF n = "a" THEN 0 ELSE 1]
VisitTwo == <<<<0, 0>>, <<0, 1>>>>
=============================================================================

-------------------------- MODULE MCBlockingLists --------------------------
(* Finite instances of BlockingLists. *)
EXTENDS BlockingLists, TLC

SingleKeys == {<<k>> : k \in Names}
BothKeys == {<<"a", "b">>}
OneKeyOrBoth == SingleKeys \cup BothKeys
ClientSymmetry == Permutations(Clients)
=============================================================================

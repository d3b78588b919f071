--------------------------- MODULE MCTransactions ---------------------------
(* Finite instances of Transactions.  The two keys share a shard in the    *)
(* one-database instances, so that the watch of one keeps the tracker of   *)
(* the other awake.                                                        *)
EXTENDS Transactions, TLC

OneDb == {0}
TwoDbs == {0, 1}
OneShard == {0}
SameShard == [n \in Names |-> 0]
VisitOne == <<<<0, 0>>>>
VisitBoth == <<<<0, 0>>, <<1, 0>>>>
ClientSymmetry == Permutations(Clients)
=============================================================================

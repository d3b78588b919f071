----------------------------- MODULE MCScripts ------------------------------
(* Finite instances of Scripts. *)
EXTENDS Scripts, TLC

OneDb == {0}
TwoDbs == {0, 1}
OneShard == {0}
SameShard == [n \in Names |-> 0]
VisitOne == <<<<0, 0>>>>
VisitBoth == <<<<0, 0>>, <<1, 0>>>>
=============================================================================

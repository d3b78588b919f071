--------------------------- MODULE MCPersistence ---------------------------
(* Finite instance of Persistence. *)
EXTENDS Persistence

AnyChange == {<<1, 1>>}
OldKey == <<"a">>
EitherTtl == {NoTime, 0}
=============================================================================

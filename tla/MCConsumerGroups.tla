-------------------------- MODULE MCConsumerGroups --------------------------
(* Finite instances of ConsumerGroups: one group with two consumers over a *)
(* stream of two entries and two milliseconds of IDs.                      *)
EXTENDS ConsumerGroups

FirstId == {0}
LastOfFirstMilli == {SeqSpace - 1}
=============================================================================

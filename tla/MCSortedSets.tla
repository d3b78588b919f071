---------------------------- MODULE MCSortedSets ----------------------------
(* A finite instance of SortedSets: two members, the infinities as the     *)
(* only scores beside zero and NaN, nodes of one or two levels.            *)
EXTENDS SortedSets

TwoMembers == {1, 2}
Floats == {-1, 1}
NoPattern == {{1, 2}}
=============================================================================

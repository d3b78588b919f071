------------------------------ MODULE SkipList ------------------------------
(***************************************************************************)
(* The skip list behind a sorted set (storage/skiplist.rs): the linked     *)
(* nodes with their forward pointers at every level, the index from member *)
(* to score, and the operations as the pointer walks that the code does.   *)
(* This module has no variables: an operation takes a list and gives the   *)
(* list it leaves behind, or the answer of a query.                        *)
(*                                                                         *)
(* A node is a place in memory; a place is free when its height is Freed.  *)
(* Scores are integers and NaN, which is neither less than, equal to nor   *)
(* greater than any score, itself included.                                *)
(***************************************************************************)
EXTENDS Integers, Sequences, FiniteSets

CONSTANTS
  Members,    \* members, in the order of their bytes
  Numbers,    \* scores that are numbers
  NaN,        \* the score that is not a number
  Absent,     \* no score, no rank
  MaxLevel,   \* the highest level, MAX_LEVEL - 1
  MaxNodes,   \* bound on the nodes alive at once
  NodeBytes,  \* size of a node without its pointers
  LinkBytes   \* size of one forward pointer

ASSUME SkipListAssumption ==
  /\ Members \subseteq Nat /\ Numbers \subseteq Int /\ NaN \notin Int /\ Absent \notin Int /\ Absent # NaN
  /\ IsFiniteSet(Members) /\ IsFiniteSet(Numbers)
  /\ MaxLevel \in Nat /\ MaxNodes \in Nat /\ NodeBytes \in Nat /\ LinkBytes \in Nat

Scores == Numbers \cup {NaN}
Levels == 0 .. MaxLevel
Nodes == 1 .. MaxNodes
HEAD == 0
NIL == -1
Freed == -1

(* An empty list: the sentinel has a pointer at every level. *)
new ==
  [forward |-> [n \in {HEAD} \cup Nodes |-> [i \in Levels |-> NIL]],
   key |-> [n \in Nodes |-> Absent], value |-> [n \in Nodes |-> Absent],
   height |-> [n \in Nodes |-> Freed],
   level |-> 0, length |-> 0, memory_usage |-> NodeBytes + (MaxLevel + 1) * LinkBytes,
   key_index |-> [m \in Members |-> Absent]]

calculate_node_size(levels) == NodeBytes + levels * LinkBytes

-----------------------------------------------------------------------------
(* Order *)

is_nan(v) == v = NaN
Equals(v, w) == ~is_nan(v) /\ ~is_nan(w) /\ v = w

(* Mutation: members with equal scores are not told apart. *)
compare_scores_only(v, k, w, q) ==
  CASE is_nan(v) /\ is_nan(w) -> "Equal"
    [] is_nan(v) /\ ~is_nan(w) -> "Greater"
    [] ~is_nan(v) /\ is_nan(w) -> "Less"
    [] OTHER -> IF v < w THEN "Less" ELSE IF v > w THEN "Greater" ELSE "Equal"

(* By score, then by member; NaN comes after every number. *)
compare_nodes(v, k, w, q) ==
  LET ByKey == IF k < q THEN "Less" ELSE IF k > q THEN "Greater" ELSE "Equal"
  IN CASE is_nan(v) /\ is_nan(w) -> ByKey
       [] is_nan(v) /\ ~is_nan(w) -> "Greater"
       [] ~is_nan(v) /\ is_nan(w) -> "Less"
       [] OTHER -> IF v < w THEN "Less" ELSE IF v > w THEN "Greater" ELSE ByKey

compare_with_query(v, k, w, q) == compare_nodes(v, k, w, q)

(* The place before (s, k): from the sentinel at the top level, forward    *)
(* while the next node is smaller, then one level down.  The result is the *)
(* place at which the walk left each level.                                *)
Search(L, k, s) ==
  LET Before(n) == compare_with_query(L.value[n], L.key[n], s, k) = "Less"
      Walk(i) == LET walk[n \in {HEAD} \cup Nodes] ==
                       LET next == L.forward[n][i]
                       IN IF next # NIL /\ Before(next) THEN walk[next] ELSE n
                 IN walk
      update[i \in 0 .. L.level] ==
        Walk(i)[IF i = L.level THEN HEAD ELSE update[i + 1]]
  IN update

-----------------------------------------------------------------------------
(* Updates *)

(* Levels above the old one start at the sentinel. *)
raised(L, new_level) == IF new_level > L.level THEN new_level ELSE L.level

(* The new node has a random height and the first free place in memory,    *)
(* and is linked behind the node found at each of its levels.              *)
insert_new_node(L, k, s, new_level) ==
  LET found == Search(L, k, s)
      node == CHOOSE n \in Nodes : /\ L.height[n] = Freed
                                   /\ \A p \in 1 .. n - 1 : L.height[p] # Freed
      update == [i \in 0 .. new_level |-> IF i <= L.level THEN found[i] ELSE HEAD]
      Link(n, i) ==
        CASE i > new_level -> L.forward[n][i]
          [] n = node -> L.forward[update[i]][i]
          [] n = update[i] -> node
          [] OTHER -> L.forward[n][i]
  IN [L EXCEPT
        !.forward = [n \in {HEAD} \cup Nodes |-> [i \in Levels |-> Link(n, i)]],
        !.key[node] = k, !.value[node] = s, !.height[node] = new_level + 1,
        !.level = raised(L, new_level), !.length = @ + 1,
        !.memory_usage = @ + calculate_node_size(new_level + 1)]

(* Mutation: the node is taken out of the lowest level only. *)
unlinked_levels_lowest(L, update, target) == {0}

(* The levels at which the node is taken out: upwards, until a level at    *)
(* which the walk ended before another node.                               *)
unlinked_levels(L, update, target) ==
  LET next(i) == L.forward[update[i]][i]
  IN {i \in 0 .. L.level : /\ next(i) = target
                           /\ \A j \in 0 .. i - 1 : next(j) \in {target, NIL}}

(* The highest level that still has a node. *)
lowered(forward, level) ==
  CHOOSE i \in 0 .. level : /\ i = 0 \/ forward[HEAD][i] # NIL
                            /\ \A j \in i + 1 .. level : forward[HEAD][j] = NIL

(* The node behind the walk is the right one only if its score equals the  *)
(* one looked for, which NaN never does.                                   *)
is_target(L, target, k, s) == L.key[target] = k /\ Equals(L.value[target], s)

(* Nothing happens unless the node is found. *)
remove_node_by_score(L, k, s) ==
  LET update == Search(L, k, s)
      target == L.forward[update[0]][0]
      out == unlinked_levels(L, update, target)
      forward == [n \in {HEAD} \cup Nodes |-> [i \in Levels |->
                    CASE n = target -> NIL
                      [] i \in out /\ n = update[i] -> L.forward[target][i]
                      [] OTHER -> L.forward[n][i]]]
  IN IF target = NIL THEN L
     ELSE IF ~is_target(L, target, k, s) THEN L
     ELSE [L EXCEPT
             !.forward = forward,
             !.key[target] = Absent, !.value[target] = Absent, !.height[target] = Freed,
             !.level = lowered(forward, @), !.length = @ - 1,
             !.memory_usage = @ - calculate_node_size(L.height[target])]

get_score(L, k) == L.key_index[k]

(* A member that has a score loses its node before it gets another. *)
insert(L, k, s, new_level) ==
  LET old == get_score(L, k)
      rest == IF old = Absent THEN L ELSE remove_node_by_score(L, k, old)
  IN insert_new_node([rest EXCEPT !.key_index[k] = s], k, s, new_level)

remove(L, k) ==
  LET old == get_score(L, k)
  IN IF old = Absent THEN L
     ELSE remove_node_by_score([L EXCEPT !.key_index[k] = Absent], k, old)

-----------------------------------------------------------------------------
(* Queries *)

is_empty(L) == L.length = 0

(* The nodes behind n at level i, in order. *)
Behind(L, n, i) ==
  LET behind[p \in {HEAD} \cup Nodes] ==
        LET next == L.forward[p][i]
        IN IF next = NIL THEN <<>> ELSE <<next>> \o behind[next]
  IN behind[n]

Item(L, n) == <<L.key[n], L.value[n]>>
get_all_items(L) ==
  LET chain == Behind(L, HEAD, 0) IN [j \in DOMAIN chain |-> Item(L, chain[j])]

(* The position of the member on the lowest level, found by walking while  *)
(* the nodes are smaller; Absent if the walk passes its place.             *)
get_rank(L, k) ==
  LET items == get_all_items(L)
      score == get_score(L, k)
      Cmp(j) == compare_with_query(items[j][2], items[j][1], score, k)
      stops == {j \in DOMAIN items : Cmp(j) # "Less"}
      stop == CHOOSE j \in stops : \A i \in stops : j <= i
  IN IF score = Absent \/ stops = {} THEN Absent
     ELSE IF Cmp(stop) = "Equal" THEN stop - 1 ELSE Absent

(* Ranks are counted from 0, both ends are included, and the walk ends at  *)
(* the length of the list or at its last node.                             *)
range_by_rank(L, start_rank, end_rank) ==
  LET items == get_all_items(L)
      last == CHOOSE j \in {end_rank + 1, L.length, Len(items)} :
                j <= end_rank + 1 /\ j <= L.length /\ j <= Len(items)
  IN IF start_rank >= L.length THEN <<>> ELSE SubSeq(items, start_rank + 1, last)

(* The order of numbers, in which NaN has no place. *)
below(v, min_score) == ~is_nan(v) /\ ~is_nan(min_score) /\ v < min_score

(* From the top level down past everything below the least score, then on  *)
(* along the lowest level until a score is not at most the greatest.       *)
range_by_score(L, min_score, max_score) ==
  LET Walk(i) == LET walk[n \in {HEAD} \cup Nodes] ==
                       LET next == L.forward[n][i]
                       IN IF next # NIL /\ below(L.value[next], min_score)
                            THEN walk[next] ELSE n
                 IN walk
      at[i \in 0 .. L.level] == Walk(i)[IF i = L.level THEN HEAD ELSE at[i + 1]]
      rest == Behind(L, at[0], 0)
      AtMost(v) == below(v, max_score) \/ Equals(v, max_score)
      ends == {j \in 0 .. Len(rest) : \A i \in 1 .. j : AtMost(L.value[rest[i]])}
      last == CHOOSE j \in ends : \A i \in ends : i <= j
  IN [j \in 1 .. last |-> Item(L, rest[j])]
=============================================================================

----------------------------- MODULE SortedSets -----------------------------
(***************************************************************************)
(* One sorted set of the storage engine: the commands that change it       *)
(* (storage/engine.rs and their handlers in network/server.rs), a client   *)
(* that iterates over it with ZSCAN, and the thread that writes a snapshot *)
(* (storage/rdb.rs).                                                       *)
(*                                                                         *)
(* The value in the map is a counted reference to the list.  The snapshot  *)
(* thread clones the reference, not the list: it reads the list while the  *)
(* main thread changes it, and keeps it alive when the key is deleted.     *)
(* The client that iterates and the thread only read, so that they are     *)
(* looked at one at a time.                                                *)
(***************************************************************************)
EXTENDS SkipList, Scans

CONSTANTS
  Infinity,   \* the greatest number, a score of its own
  ScanCounts, \* COUNT arguments
  Patterns    \* MATCH arguments, as sets of members

ASSUME SortedSetsAssumption ==
  /\ Infinity \in Nat /\ {Infinity, -Infinity} \subseteq Numbers
  /\ Numbers \subseteq -Infinity .. Infinity
  /\ ScanCounts \subseteq Int /\ Patterns \subseteq SUBSET Members

VARIABLES
  stored, \* is the key in the map?
  list,   \* its skip list
  reply,  \* the member that the last command has popped
  iter,   \* the client's iteration
  saver   \* the snapshot thread

vars == <<stored, list, reply, iter, saver>>

NoIteration == [pc |-> "none"]
Iterating(cursor, match, count, seen, always, removed) ==
  [pc |-> "more", cursor |-> cursor, match |-> match, count |-> count,
   seen |-> seen, always |-> always, removed |-> removed]
NoDump == [pc |-> "idle"]

SortedSetsInit ==
  /\ stored = FALSE
  /\ list = new
  /\ reply = <<"none">>
  /\ iter = NoIteration
  /\ saver = NoDump

(* The entries ZSCAN sorts: one for each node of the list, by member and,  *)
(* where a member has several nodes, in the order of the list.             *)
Entry(m, j) == m * (MaxNodes + 1) + j
MemberOf(e) == e \div (MaxNodes + 1)
Entries(L) ==
  LET items == get_all_items(L)
      Earlier(j) == {i \in 1 .. j - 1 : items[i][1] = items[j][1]}
  IN {Entry(items[j][1], Cardinality(Earlier(j))) : j \in DOMAIN items}

(* History of an iteration: the entries that were there all the time, and  *)
(* whether one has gone.  It is forgotten once the iteration is over.      *)
TrackIteration ==
  iter' = IF iter.pc # "more" THEN NoIteration
          ELSE [iter EXCEPT !.always = @ \cap Entries(list'),
                            !.removed = @ \/ ~(Entries(list) \subseteq Entries(list'))]

(* The snapshot thread keeps the list that the map lets go, which nobody   *)
(* changes any more.  What it has written is forgotten likewise.           *)
Keep == saver' = IF saver.pc = "written" THEN NoDump ELSE saver
Release(L) ==
  saver' = IF saver.pc \in {"held", "length"} /\ saver.shared
             THEN [saver EXCEPT !.shared = FALSE, !.own = L.length]
           ELSE IF saver.pc = "written" THEN NoDump ELSE saver

-----------------------------------------------------------------------------
(* Commands.  A list without a node is taken out of the map. *)

HasRoom == \E n \in Nodes : list.height[n] = Freed

Become(L) ==
  /\ stored' = TRUE /\ list' = L
  /\ TrackIteration /\ Keep

(* Mutation: an emptied sorted set stays in the map. *)
Shrink_keeps(L) ==
  stored' = stored /\ list' = L /\ TrackIteration /\ Keep

Shrink(L) ==
  IF is_empty(L) THEN /\ stored' = FALSE /\ list' = new
                      /\ TrackIteration /\ Release(L)
                 ELSE /\ stored' = stored /\ list' = L
                      /\ TrackIteration /\ Keep

zadd(m, s) ==
  /\ HasRoom
  /\ \E level \in Levels : Become(insert(list, m, s, level))
  /\ reply' = <<"none">>

(* The sum of two floats: beyond the greatest number it is infinite, and   *)
(* opposite infinities have none.                                          *)
Sum(v, d) ==
  CASE is_nan(v) \/ is_nan(d) -> NaN
    [] {v, d} = {Infinity, -Infinity} -> NaN
    [] v + d > Infinity -> Infinity
    [] v + d < -Infinity -> -Infinity
    [] OTHER -> v + d

zincrby(m, d) ==
  LET old == get_score(list, m)
      s == IF old = Absent THEN d ELSE Sum(old, d)
  IN /\ HasRoom
     /\ \E level \in Levels : Become(insert(list, m, s, level))
     /\ reply' = <<"none">>

zrem(m) ==
  /\ IF stored /\ get_score(list, m) # Absent
       THEN Shrink(remove(list, m))
       ELSE UNCHANGED <<stored, list>> /\ TrackIteration /\ Keep
  /\ reply' = <<"none">>

(* ZADD and ZREM call the engine for each of their arguments: one call is  *)
(* one step, so that the background threads may come between.              *)
handle_zadd(m, s) == zadd(m, s)
handle_zrem(m) == zrem(m)
handle_zincrby(m, d) == zincrby(m, d)

(* The bounds of ZRANGE count from the end when they are negative. *)
Clamp(i, len) == IF i >= 0 THEN i ELSE IF len + i > 0 THEN len + i ELSE 0
Reversed(items) == [j \in DOMAIN items |-> items[Len(items) + 1 - j]]
AtMost(i, j) == IF i <= j THEN i ELSE j

(* Mutation: bounds of a reversed range are taken as they are. *)
zrange_unreversed(L, start, stop, reverse) ==
  LET items == range_by_rank(L, Clamp(start, L.length), Clamp(stop, L.length))
  IN IF reverse THEN Reversed(items) ELSE items

zrange(L, start, stop, reverse) ==
  LET len == L.length
      from == Clamp(start, len)
      to == Clamp(stop, len)
      back(i) == len - 1 - AtMost(i, len - 1)
      items == range_by_rank(L, back(to), back(from))
  IN CASE len = 0 -> <<>>
       [] len > 0 /\ reverse -> Reversed(items)
       [] len > 0 /\ ~reverse ->
            IF from >= len \/ from > to THEN <<>>
            ELSE range_by_rank(L, from, AtMost(to, len - 1))

zrangebyscore(L, min_score, max_score, reverse) ==
  LET items == range_by_score(L, min_score, max_score)
  IN IF reverse THEN Reversed(items) ELSE items

zcount(L, min_score, max_score) == Len(zrangebyscore(L, min_score, max_score, FALSE))
zcard(L) == L.length

zrank(L, m, reverse) ==
  LET rank == get_rank(L, m)
  IN IF rank # Absent /\ reverse THEN L.length - 1 - rank ELSE rank

handle_zrange(start, stop) == zrange(list, start, stop, FALSE)
handle_zrevrange(start, stop) == zrange(list, start, stop, TRUE)
handle_zrangebyscore(min, max) == zrangebyscore(list, min, max, FALSE)
handle_zrevrangebyscore(max, min) == zrangebyscore(list, min, max, TRUE)
handle_zcount(min, max) == zcount(list, min, max)
handle_zrank(m) == zrank(list, m, FALSE)
handle_zrevrank(m) == zrank(list, m, TRUE)

(* The member shown at one end is removed by name, if the index has it.    *)
(* The list is read and changed by two calls of the engine; if the set     *)
(* expires in between, nothing is popped, as if it had expired before.     *)
(* With a COUNT the two calls are repeated.                                *)
Pop(items) ==
  IF items # <<>> /\ get_score(list, items[1][1]) # Absent
    THEN Shrink(remove(list, items[1][1])) /\ reply' = <<"popped", items[1][1]>>
    ELSE UNCHANGED <<stored, list>> /\ TrackIteration /\ Keep /\ reply' = <<"none">>

handle_zpopmin == Pop(zrange(list, 0, 0, FALSE))
handle_zpopmax == Pop(zrange(list, -1, -1, FALSE))

(* DEL, FLUSHDB, an overwriting command or the expiration thread. *)
drop ==
  /\ stored /\ stored' = FALSE /\ list' = new
  /\ TrackIteration /\ Release(list) /\ UNCHANGED reply

-----------------------------------------------------------------------------
(* ZSCAN *)

Call(cursor, match, count) ==
  LET E == Entries(list)
  IN handle_zscan(E, cursor, {e \in E : MemberOf(e) \in match}, count)

Scanned(p, i) ==
  IF p.next = 0 THEN [i EXCEPT !.pc = "done", !.cursor = 0, !.seen = @ \cup p.found]
  ELSE [i EXCEPT !.cursor = p.next, !.seen = @ \cup p.found]

scan_begin(match, count) ==
  /\ iter.pc # "more" /\ saver = NoDump
  /\ iter' = Scanned(Call(0, match, count),
                     Iterating(0, match, count, {}, Entries(list), FALSE))
  /\ UNCHANGED <<stored, list, reply, saver>>

scan_more ==
  /\ iter.pc = "more"
  /\ iter' = Scanned(Call(iter.cursor, iter.match, iter.count), iter)
  /\ UNCHANGED <<stored, list, reply, saver>>

-----------------------------------------------------------------------------
(* The snapshot thread: the value, then the number of its members, then    *)
(* the members.                                                            *)

saver_get ==
  /\ saver.pc \in {"idle", "written"} /\ stored /\ iter = NoIteration
  /\ saver' = [pc |-> "held", shared |-> TRUE, own |-> 0]
  /\ UNCHANGED <<stored, list, reply, iter>>

(* The members of the list that the thread has, by itself or with the map. *)
Held == IF saver.shared THEN zcard(list) ELSE saver.own

write_length ==
  /\ saver.pc = "held"
  /\ saver' = [pc |-> "length", shared |-> saver.shared, own |-> saver.own, len |-> Held]
  /\ UNCHANGED <<stored, list, reply, iter>>

(* The range 0 .. len - 1 of n members; if len is 0, the subtraction wraps *)
(* around and the range has no end.                                        *)
members_to_write(n, len) == IF len = 0 THEN n ELSE AtMost(len, n)

write_members ==
  /\ saver.pc = "length"
  /\ saver' = [pc |-> "written", announced |-> saver.len,
               written |-> members_to_write(Held, saver.len)]
  /\ UNCHANGED <<stored, list, reply, iter>>

-----------------------------------------------------------------------------
SortedSetsNext ==
  \/ \E m \in Members : \/ handle_zrem(m)
                        \/ \E s \in Scores : handle_zadd(m, s) \/ handle_zincrby(m, s)
  \/ handle_zpopmin \/ handle_zpopmax \/ drop
  \/ scan_more
  \/ \E match \in Patterns, count \in ScanCounts : scan_begin(match, count)
  \/ saver_get \/ write_length \/ write_members

SortedSetsSpec == SortedSetsInit /\ [][SortedSetsNext]_vars

-----------------------------------------------------------------------------
(* Properties *)

Live == {n \in Nodes : list.height[n] # Freed}
Chain(i) == Behind(list, HEAD, i)
OnChain(i) == {Chain(i)[j] : j \in 1 .. Len(Chain(i))}
Indexed == {m \in Members : list.key_index[m] # Absent}

SortedSetsTypeOK ==
  /\ stored \in BOOLEAN /\ stored = (list # new)
  /\ list.forward \in [{HEAD} \cup Nodes -> [Levels -> Nodes \cup {NIL}]]
  /\ list.height \in [Nodes -> {Freed} \cup 1 .. MaxLevel + 1]
  /\ list.key \in [Nodes -> Members \cup {Absent}]
  /\ list.value \in [Nodes -> Scores \cup {Absent}]
  /\ list.key_index \in [Members -> Scores \cup {Absent}]
  /\ list.level \in Levels /\ list.length \in 0 .. MaxNodes
  /\ iter.pc \in {"none", "more", "done"}
  /\ saver.pc \in {"idle", "held", "length", "written"}

(* The list is a skip list whatever was inserted and removed, and in       *)
(* whatever order (insert_new_node, remove_node_by_score): a pointer leads *)
(* to a node that is alive and as tall as the pointer is high, every node  *)
(* is on all of its levels, each level is in order, and the level, the     *)
(* length and the memory counted are those of the nodes.                   *)
ListSound ==
  /\ \A n \in {HEAD} \cup Live, i \in Levels :
       list.forward[n][i] # NIL => list.height[list.forward[n][i]] > i
  /\ \A i \in Levels :
       /\ OnChain(i) = {n \in Live : list.height[n] > i}
       /\ \A j \in 1 .. Len(Chain(i)) - 1 :
            LET a == Chain(i)[j]
                b == Chain(i)[j + 1]
            IN compare_nodes(list.value[a], list.key[a], list.value[b], list.key[b]) # "Greater"
       /\ i > list.level => Chain(i) = <<>>
  /\ list.level > 0 => Chain(list.level) # <<>>
  /\ list.length = Cardinality(Live)
  /\ list.memory_usage = new.memory_usage +
       (LET total[n \in 0 .. MaxNodes] ==
              IF n = 0 THEN 0
              ELSE total[n - 1] + IF n \in Live THEN calculate_node_size(list.height[n]) ELSE 0
        IN total[MaxNodes])

(* The index and the list tell the same story about every score that is a  *)
(* number: one node for the member, with the score of the index, and no    *)
(* node for a member without one (insert, remove: "dual indexing").  Nodes *)
(* whose score is NaN are never unlinked, and may be left behind.          *)
IndexAgrees ==
  /\ {Item(list, n) : n \in {p \in Live : ~is_nan(list.value[p])}}
       = {<<m, list.key_index[m]>> : m \in {d \in Indexed : ~is_nan(list.key_index[d])}}
  /\ \A n, p \in Live : n # p /\ list.key[n] = list.key[p]
       => is_nan(list.value[n]) \/ is_nan(list.value[p])
  /\ \A m \in Indexed : \E n \in Live : Item(list, n) = <<m, list.key_index[m]>>

(* The reference order, straight from the index. *)
Precedes(m, d) ==
  LET v == list.key_index[m]
      w == list.key_index[d]
  IN \/ ~is_nan(v) /\ (is_nan(w) \/ v < w)
     \/ v = w /\ m < d
Ranked ==
  [j \in 1 .. Cardinality(Indexed) |->
     LET m == CHOOSE d \in Indexed : Cardinality({e \in Indexed : Precedes(e, d)}) = j - 1
     IN <<m, list.key_index[m]>>]

(* No node was left behind. *)
Clean == list.length = Cardinality(Indexed)

ScoreIn(item, min, max) == ~is_nan(item[2]) /\ min <= item[2] /\ item[2] <= max

(* Ranks and ranges found by walking the pointers are those of the members *)
(* sorted by score and name: ZRANK of every member that has a number, and  *)
(* every range by score, in both directions and counted; by rank every     *)
(* range of a list without a node left behind (get_rank, range_by_rank,    *)
(* range_by_score).                                                        *)
ReadsExact ==
  /\ \A m \in Members : ~is_nan(list.key_index[m]) =>
       handle_zrank(m) = IF m \notin Indexed THEN Absent
                         ELSE Cardinality({d \in Indexed : Precedes(d, m)})
  /\ \A min, max \in Numbers :
       LET within == SelectSeq(Ranked, LAMBDA item : ScoreIn(item, min, max))
       IN /\ handle_zrangebyscore(min, max) = within
          /\ handle_zrevrangebyscore(max, min) = Reversed(within)
          /\ handle_zcount(min, max) = Len(within)
  /\ Clean => \A i, j \in 0 .. MaxNodes :
       range_by_rank(list, i, j) = SubSeq(Ranked, i + 1, AtMost(j + 1, Len(Ranked)))

(* ZRANGE and ZREVRANGE give the elements between two positions, counted   *)
(* from the end if negative, in either direction, wherever the last        *)
(* position is not before the first element and, in reverse, the first not *)
(* behind the last one.  ZREVRANK counts from the other end.               *)
ZRangeExact ==
  Clean =>
    LET n == Len(Ranked)
        Pos(i) == IF i < 0 THEN n + i ELSE i
        From(i) == IF Pos(i) < 0 THEN 0 ELSE Pos(i)
        Backwards == Reversed(Ranked)
    IN /\ \A start, stop \in -MaxNodes - 1 .. MaxNodes + 1 : Pos(stop) >= 0 =>
            /\ handle_zrange(start, stop)
                 = SubSeq(Ranked, From(start) + 1, AtMost(Pos(stop) + 1, n))
            /\ Pos(start) < n => handle_zrevrange(start, stop)
                 = SubSeq(Backwards, From(start) + 1, AtMost(Pos(stop) + 1, n))
       /\ \A j \in 1 .. n : handle_zrevrank(Ranked[j][1]) = n - j

(* The score of a member as the list has it: the number of its only node   *)
(* that has one, or NaN if the index says so.                              *)
Listed(m) ==
  LET values == {list.value[n] : n \in {p \in Live : list.key[p] = m}} \ {NaN}
  IN IF list.key_index[m] = NaN \/ Cardinality(values) > 1 THEN NaN
     ELSE IF values = {} THEN Absent ELSE CHOOSE v \in values : TRUE

Abstract == INSTANCE OrderedSet
  WITH score <- [m \in Members |-> Listed(m)],
       nan <- NaN \in {list.value[n] : n \in Live}

(* The commands on the linked list are the operations of an ordered set,   *)
(* answers included; each changes one member, whatever the heights of the  *)
(* nodes (zadd, zincrby, zrem, handle_zpopmin, handle_zpopmax).            *)
ImplementsOrderedSet == Abstract!OrderedSetSpec

(* An iteration during which no entry was removed has returned every entry *)
(* that matches and was there all the time, however many were added or got *)
(* another score (zscan: the cursor is a position in the sorted entries).  *)
ScanComplete ==
  iter.pc = "done" /\ ~iter.removed =>
    {e \in iter.always : MemberOf(e) \in iter.match} \subseteq iter.seen

(* If nothing changes, an iteration of each kind ends and returns every    *)
(* matching element exactly once, for every pattern and count (scan,       *)
(* hscan, sscan, zscan).                                                   *)
IterationExact ==
  \A match \in SUBSET Indexed, count \in ScanCounts \cup {-1, 0} :
    \A pages \in {Iteration(LAMBDA c : handle_scan(Indexed, c, match, count), Indexed),
                  Iteration(LAMBDA c : handle_hscan(Indexed, c, match, count), Indexed),
                  Iteration(LAMBDA c : handle_sscan(Indexed, c, match, count), Indexed),
                  Iteration(LAMBDA c : handle_zscan(Indexed, c, match, count), Indexed)} :
      /\ UNION {pages[j] : j \in DOMAIN pages} = match
      /\ \A i, j \in DOMAIN pages : i # j => pages[i] \cap pages[j] = {}

(* The snapshot never holds more members of a sorted set than the number   *)
(* written before them, although the list may grow between the two reads   *)
(* (write_key_value; it may hold fewer).                                   *)
DumpNotOverlong == saver.pc = "written" => saver.written <= saver.announced

(* After any commands the linked nodes are a sorted list on every level,   *)
(* and the index from member to score tells the same members and scores    *)
(* (insert, remove).                                                       *)
ListAgrees == ListSound /\ IndexAgrees

(* Iterations and snapshots only read: every list there is can be looked   *)
(* at while none of them is under way.                                     *)
Quiet == iter = NoIteration /\ saver = NoDump

(* What readers get out of the list: answers of the reference order, at    *)
(* the ends of ranges too, and for the snapshot thread, which reads beside *)
(* the main thread, no more members than it has announced (get_rank,       *)
(* range_by_rank, range_by_score, zrange, write_key_value).                *)
QueriesExact == (Quiet => ReadsExact /\ ZRangeExact) /\ DumpNotOverlong

(* Cursors lead through everything: the four commands over elements that   *)
(* stay as they are, and ZSCAN beside commands that add members and change *)
(* scores (scan, hscan, sscan, zscan).                                     *)
CursorsComplete == ScanComplete /\ (Quiet => IterationExact)
=============================================================================

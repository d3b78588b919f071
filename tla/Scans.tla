------------------------------- MODULE Scans --------------------------------
(***************************************************************************)
(* The cursor of SCAN, HSCAN, SSCAN and ZSCAN (storage/engine.rs and       *)
(* storage/commands/scan.rs).  The elements are sorted anew on every call  *)
(* and the cursor is a position in that order, so that it means something  *)
(* else once the elements have changed.                                    *)
(***************************************************************************)
EXTENDS Integers, Sequences, FiniteSets

CONSTANTS
  DefaultCount,   \* elements returned if COUNT is 0
  MaxCount,       \* the greatest COUNT that is honoured
  ExamineFactor   \* elements examined for each one to be returned

ASSUME ScansAssumption ==
  {DefaultCount, MaxCount, ExamineFactor} \subseteq Nat \ {0}

max_scan_count(count) ==
  LET scan_count == IF count = 0 THEN DefaultCount ELSE count
  IN IF scan_count < MaxCount THEN scan_count ELSE MaxCount

(* The elements in ascending order. *)
Ascending(S) ==
  [j \in 1 .. Cardinality(S) |->
     CHOOSE e \in S : Cardinality({d \in S : d < e}) = j - 1]

(* Mutation: the element at which the page ends is skipped. *)
next_cursor_skips(all, pos) == IF pos >= Len(all) THEN 0 ELSE pos + 1

(* Where the next call goes on; 0 is the end of the iteration. *)
next_cursor(all, pos) == IF pos >= Len(all) THEN 0 ELSE pos

(* One call: examine from the cursor on until enough elements match, or    *)
(* too many were examined, or there are no more.  A pattern is the set of  *)
(* the elements that match it; no pattern matches everything.              *)
page(S, cursor, match, count) ==
  LET all == Ascending(S)
      limit == max_scan_count(count)
      Found(pos) == {all[j] : j \in cursor + 1 .. pos} \cap match
      Stop(pos) == \/ pos = Len(all)
                   \/ pos - cursor = limit * ExamineFactor
                   \/ Cardinality(Found(pos)) = limit
      pos == CHOOSE p \in cursor .. Len(all) :
               Stop(p) /\ \A q \in cursor .. p - 1 : ~Stop(q)
  IN IF cursor >= Len(all)
       THEN [next |-> 0, found |-> {}]
       ELSE [next |-> next_cursor(all, pos), found |-> Found(pos)]

(* HSCAN, SSCAN and ZSCAN give a small collection as a whole if there is   *)
(* no pattern; SCAN pages through the keys in any case.  The elements S    *)
(* are those the code sorts: for SCAN the keys that are not expired and    *)
(* have the TYPE asked for.                                                *)
whole(S, cursor, match, count) ==
  Cardinality(S) <= max_scan_count(count) /\ cursor = 0 /\ S \subseteq match

collection_page(S, cursor, match, count) ==
  IF whole(S, cursor, match, count)
    THEN [next |-> 0, found |-> S] ELSE page(S, cursor, match, count)

scan(S, cursor, match, count) == page(S, cursor, match, count)
hscan(S, cursor, match, count) == collection_page(S, cursor, match, count)
sscan(S, cursor, match, count) == collection_page(S, cursor, match, count)
zscan(S, cursor, match, count) == collection_page(S, cursor, match, count)

(* The handlers.  A COUNT that is not given is negative here, and pattern  *)
(* and count have been parsed.                                             *)
Given(count) == IF count < 0 THEN DefaultCount ELSE count

handle_scan(S, cursor, match, count) == scan(S, cursor, match, Given(count))
handle_hscan(S, cursor, match, count) == hscan(S, cursor, match, Given(count))
handle_sscan(S, cursor, match, count) == sscan(S, cursor, match, Given(count))
handle_zscan(S, cursor, match, count) == zscan(S, cursor, match, Given(count))

(* What an iteration returns if nothing changes while it lasts. *)
Iteration(Call(_), S) ==
  LET from[cursor \in 0 .. Cardinality(S)] ==
        LET p == Call(cursor)
        IN IF p.next = 0 THEN <<p.found>>
           ELSE IF p.next <= cursor THEN <<p.found, {"no progress"}>>
           ELSE <<p.found>> \o from[p.next]
  IN from[0]
=============================================================================

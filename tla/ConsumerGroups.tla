--------------------------- MODULE ConsumerGroups ---------------------------
(***************************************************************************)
(* The consumer groups of a stream (storage/consumer_groups.rs) and the    *)
(* commands on them (storage/commands/consumer_groups.rs): a cursor, the   *)
(* consumers with their counters and the pending entries list, which is    *)
(* kept twice, by ID and by consumer.                                      *)
(*                                                                         *)
(* The vector of IDs of a consumer is a multiset: how often it holds each  *)
(* ID.  Delivery times and counts are left out; whether an entry has been  *)
(* idle for long enough is a choice of the environment.  A command with    *)
(* several IDs or several streams is one after the other, since nothing    *)
(* runs in between.                                                        *)
(***************************************************************************)
EXTENDS Streams, FiniteSetsExt

CONSTANTS
  Groups,     \* names of groups
  Consumers,  \* names of consumers
  Nobody,     \* owner of an ID that is not pending
  CursorIds,  \* IDs that clients pass to XGROUP SETID
  HistoryIds, \* IDs other than ">" that clients pass to XREADGROUP
  MaxPending  \* bound: no delivery to a group that counts this many

ASSUME GroupsAssumption ==
  /\ Nobody \notin Consumers
  /\ CursorIds \subseteq Ids /\ HistoryIds \subseteq Ids
  /\ MaxPending \in Nat

VARIABLES
  groups,     \* [Groups -> group or NoGroup]
  delivered,  \* history: IDs a group has put into its pending list
  settled     \* history: IDs acknowledged, or dropped with their consumer

history == <<delivered, settled>>
vars == <<streamVars, groups, history>>

Absent == -1
NoGroup == [name |-> "none"]
Exists(g) == groups[g] # NoGroup

(* The start ID of a group is stored in it and never read again: the       *)
(* cursor starts at 0-0.                                                   *)
new_group ==
  [last_delivered_id |-> 0,
   consumers |-> [c \in Consumers |-> Absent],        \* their pending_count
   consumer_count |-> 0, total_pending |-> 0,
   by_id |-> [id \in Ids |-> Nobody],                 \* owner of a pending ID
   by_consumer |-> [c \in Consumers |-> [id \in Ids |-> 0]]]

GroupsInit ==
  /\ StreamInit
  /\ groups = [g \in Groups |-> NoGroup]
  /\ delivered = [g \in Groups |-> {}]
  /\ settled = [g \in Groups |-> {}]

-----------------------------------------------------------------------------
(* A group *)

saturating_sub(a, b) == IF b < a THEN a - b ELSE 0

create_consumer(grp, c) ==
  IF grp.consumers[c] # Absent THEN grp
  ELSE [grp EXCEPT !.consumers[c] = 0, !.consumer_count = @ + 1]

(* The pending list, by ID and by consumer.  An entry that is pending      *)
(* already changes its owner, but stays in the vector of the old one.      *)
add_entry(grp, c, new) ==
  [grp EXCEPT !.by_id = [id \in Ids |-> IF id \in new THEN c ELSE @[id]],
              !.by_consumer[c] = [id \in Ids |-> IF id \in new THEN @[id] + 1 ELSE @[id]]]

remove_entry(grp, id) ==
  [grp EXCEPT !.by_id[id] = Nobody, !.by_consumer[grp.by_id[id]][id] = 0]

transfer_ownership(grp, c, id) ==
  [grp EXCEPT !.by_consumer[grp.by_id[id]][id] = 0, !.by_consumer[c][id] = @ + 1,
              !.by_id[id] = c]


(* Everything in the vector of the consumer is removed from the list by    *)
(* ID, whoever owns it there.                                              *)
remove_consumer_entries(grp, c) ==
  [grp EXCEPT !.by_id = [id \in Ids |-> IF grp.by_consumer[c][id] > 0 THEN Nobody ELSE @[id]],
              !.by_consumer[c] = [id \in Ids |-> 0]]

(* Mutation: the cursor goes to the first entry delivered. *)
add_pending_first(grp, c, new) ==
  [add_entry(create_consumer(grp, c), c, new) EXCEPT
     !.consumers[c] = @ + Cardinality(new),
     !.total_pending = @ + Cardinality(new),
     !.last_delivered_id = IF Min(new) > @ THEN Min(new) ELSE @]

(* Entries that are delivered become pending for their consumer, and are   *)
(* counted, also if they were pending already.                             *)
add_pending(grp, c, new) ==
  [add_entry(create_consumer(grp, c), c, new) EXCEPT
     !.consumers[c] = @ + Cardinality(new),
     !.total_pending = @ + Cardinality(new),
     !.last_delivered_id = IF Max(new) > @ THEN Max(new) ELSE @]

acknowledge(grp, id) ==
  LET c == grp.by_id[id] IN
  [remove_entry(grp, id) EXCEPT
     !.consumers[c] = IF @ = Absent THEN @ ELSE saturating_sub(@, 1),
     !.total_pending = saturating_sub(@, 1)]

(* XCLAIM of an entry that may be taken: it moves to the new consumer,     *)
(* which is created even if the entry is not pending.                      *)
claim_messages(grp, c, id) ==
  LET h == create_consumer(grp, c)
      old == h.by_id[id]
  IN IF old = Nobody THEN h
     ELSE [transfer_ownership(h, c, id) EXCEPT
             !.consumers[old] = IF @ = Absent THEN @ ELSE saturating_sub(@, 1),
             !.consumers[c] = @ + 1]

delete_consumer(grp, c) ==
  LET removed == MapThenSumSet(LAMBDA id : grp.by_consumer[c][id], Ids) IN
  [remove_consumer_entries(grp, c) EXCEPT
     !.consumers[c] = Absent,
     !.consumer_count = saturating_sub(@, 1),
     !.total_pending = saturating_sub(@, removed)]

-----------------------------------------------------------------------------
(* Commands *)

Become(g, grp) == groups' = [groups EXCEPT ![g] = grp]

(* XGROUP CREATE, with MKSTREAM also on a missing key. *)
handle_xgroup_create(g, mkstream) ==
  /\ exists \/ mkstream
  /\ exists' = TRUE
  /\ ~Exists(g)
  /\ Become(g, new_group)
  /\ delivered' = [delivered EXCEPT ![g] = {}]
  /\ settled' = [settled EXCEPT ![g] = {}]
  /\ UNCHANGED <<entries, last_id, last_id_millis, last_id_seq, length>>

handle_xgroup_destroy(g) ==
  /\ Exists(g)
  /\ Become(g, NoGroup)
  /\ UNCHANGED <<streamVars, history>>

handle_xgroup_createconsumer(g, c) ==
  /\ Exists(g)
  /\ Become(g, create_consumer(groups[g], c))
  /\ UNCHANGED <<streamVars, history>>

Owned(g, c) == {id \in Ids : groups[g].by_id[id] = c}

handle_xgroup_delconsumer(g, c) ==
  /\ Exists(g) /\ groups[g].consumers[c] # Absent
  /\ Become(g, delete_consumer(groups[g], c))
  /\ settled' = [settled EXCEPT ![g] = @ \cup Owned(g, c)]
  /\ UNCHANGED <<streamVars, delivered>>

(* XGROUP SETID.  What lies beyond the new cursor will be delivered again. *)
handle_xgroup_setid(g, id) ==
  /\ Exists(g)
  /\ Become(g, [groups[g] EXCEPT !.last_delivered_id = id])
  /\ delivered' = [delivered EXCEPT ![g] = {d \in @ : d <= id}]
  /\ UNCHANGED <<streamVars, settled>>

(* The entries XREADGROUP finds, and their delivery.  With NOACK nothing   *)
(* is recorded, the cursor included.                                       *)
ToRead(after, count) ==
  LET s == range_after(after, count) IN {s[i] : i \in DOMAIN s}

read_group(g, c, new, noack) ==
  /\ Exists(g) /\ groups[g].total_pending < MaxPending
  /\ IF noack \/ new = {}
       THEN UNCHANGED <<groups, history>>
       ELSE /\ Become(g, add_pending(groups[g], c, new))
            /\ delivered' = [delivered EXCEPT ![g] = @ \cup new]
            /\ settled' = [settled EXCEPT ![g] = @ \ new]
  /\ UNCHANGED streamVars

NewEntries(g, count) == ToRead(groups[g].last_delivered_id, count)

(* XREADGROUP with ">" *)
handle_xreadgroup_new(g, c, count, noack) == read_group(g, c, NewEntries(g, count), noack)

(* XREADGROUP with an ID reads the stream, not the pending list. *)
handle_xreadgroup_id(g, c, after, count, noack) == read_group(g, c, ToRead(after, count), noack)

handle_xack(g, id) ==
  /\ Exists(g) /\ groups[g].by_id[id] # Nobody
  /\ Become(g, acknowledge(groups[g], id))
  /\ settled' = [settled EXCEPT ![g] = @ \cup {id}]
  /\ UNCHANGED <<streamVars, delivered>>

(* XCLAIM of an entry that is idle for long enough, or with FORCE. *)
handle_xclaim(g, c, id) ==
  /\ Exists(g)
  /\ Become(g, claim_messages(groups[g], c, id))
  /\ UNCHANGED <<streamVars, history>>

(* XCLAIM of an entry that is not: only the consumer is created. *)
handle_xclaim_busy(g, c, id) ==
  /\ Exists(g) /\ groups[g].by_id[id] # Nobody
  /\ Become(g, create_consumer(groups[g], c))
  /\ UNCHANGED <<streamVars, history>>

(* What XPENDING answers: the summary, and the entries of one consumer. *)
get_pending_info(g) ==
  LET pending == {id \in Ids : groups[g].by_id[id] # Nobody} IN
  [count |-> Cardinality(pending),
   consumers |-> {c \in Consumers : groups[g].consumers[c] > 0}]

get_pending_range(g, c) ==
  {id \in Ids : groups[g].by_consumer[c][id] > 0 /\ groups[g].by_id[id] # Nobody}

handle_xinfo_groups(g) ==
  [consumers |-> groups[g].consumer_count, pending |-> groups[g].total_pending]

handle_xinfo_consumers(g) == {c \in Consumers : groups[g].consumers[c] # Absent}

(* The groups live and die with the stream. *)
delete_stream ==
  /\ DropKey
  /\ groups' = [g \in Groups |-> NoGroup]
  /\ UNCHANGED history

Counts == {1, MaxEntries}

Next ==
  \/ StreamStep /\ UNCHANGED <<groups, history>>
  \/ delete_stream
  \/ \E g \in Groups :
       \/ \E mkstream \in BOOLEAN : handle_xgroup_create(g, mkstream)
       \/ handle_xgroup_destroy(g)
       \/ \E id \in CursorIds : handle_xgroup_setid(g, id)
       \/ \E id \in Ids : handle_xack(g, id)
       \/ \E c \in Consumers :
            \/ handle_xgroup_createconsumer(g, c)
            \/ handle_xgroup_delconsumer(g, c)
            \/ \E count \in Counts, noack \in BOOLEAN :
                 \/ handle_xreadgroup_new(g, c, count, noack)
                 \/ \E id \in HistoryIds : handle_xreadgroup_id(g, c, id, count, noack)
            \/ \E id \in Ids : handle_xclaim(g, c, id) \/ handle_xclaim_busy(g, c, id)

Spec == GroupsInit /\ [][Next]_vars

-----------------------------------------------------------------------------
(* Properties *)

GroupType ==
  [last_delivered_id : Ids,
   consumers : [Consumers -> Nat \cup {Absent}],
   consumer_count : Nat, total_pending : Nat,
   by_id : [Ids -> Consumers \cup {Nobody}],
   by_consumer : [Consumers -> [Ids -> Nat]]]

GroupsTypeOK ==
  /\ StreamTypeOK
  /\ groups \in [Groups -> GroupType \cup {NoGroup}]
  /\ delivered \in [Groups -> SUBSET Ids] /\ settled \in [Groups -> SUBSET Ids]

(* Every pending entry belongs to a consumer that exists and is in its     *)
(* vector, so that XPENDING shows it, DELCONSUMER removes it and XCLAIM    *)
(* finds it, after any deliveries, claims and deletions (add_entry,        *)
(* transfer_ownership, remove_entry, remove_consumer_entries).             *)
PendingOwned ==
  \A g \in Groups : Exists(g) => \A id \in Ids :
    LET c == groups[g].by_id[id] IN
    c # Nobody => groups[g].consumers[c] # Absent /\ id \in get_pending_range(g, c)

InVector(g, c) == MapThenSumSet(LAMBDA id : groups[g].by_consumer[c][id], Ids)

(* The counters that XINFO and XPENDING report never fall below what is    *)
(* really pending, though they are kept by hand beside the list: of a      *)
(* consumer and of the whole group (pending_count, total_pending).         *)
CountsCover ==
  \A g \in Groups : Exists(g) =>
    /\ \A c \in Consumers : InVector(g, c) > 0 =>
         c \in get_pending_info(g).consumers /\ groups[g].consumers[c] >= InVector(g, c)
    /\ groups[g].total_pending >= MapThenSumSet(LAMBDA c : InVector(g, c), Consumers)
    /\ handle_xinfo_groups(g).pending >= get_pending_info(g).count
    /\ handle_xinfo_groups(g).consumers = Cardinality(handle_xinfo_consumers(g))


(* ">" means only new entries: a group never gets an entry by it that is   *)
(* recorded as delivered already, by whichever consumer and form of the    *)
(* command, unless SETID has moved the cursor back (read_group).           *)
NewEntriesOnce ==
  [][\A g \in Groups, c \in Consumers, count \in Counts, noack \in BOOLEAN :
       handle_xreadgroup_new(g, c, count, noack)
         => NewEntries(g, count) \cap delivered[g] = {}]_vars

(* An entry that was delivered and not acknowledged is pending, unless its *)
(* own consumer was deleted: nothing that still has to be worked on is     *)
(* lost (add_pending, claim_messages, delete_consumer).                    *)
NothingLost ==
  \A g \in Groups : Exists(g) => \A id \in delivered[g] :
    id \in settled[g] \/ groups[g].by_id[id] # Nobody
=============================================================================

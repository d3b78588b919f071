------------------------------ MODULE Keyspace ------------------------------
(***************************************************************************)
(* The keyspace of the storage engine (storage/engine.rs): the sharded     *)
(* key-value map, the index of keys that have a deadline, the per-shard    *)
(* WATCH trackers, every operation that changes them, and the background   *)
(* thread that reaps expired keys.                                         *)
(*                                                                         *)
(* One engine call holds the lock of its shard from beginning to end and   *)
(* is one action.  A command handler that makes two calls leaves the       *)
(* second one in `then', so that the other threads run in between.         *)
(*                                                                         *)
(* The contents of a value are abstracted to a number: 0 is the empty      *)
(* collection, different numbers are different contents.  What is kept is  *)
(* everything the life of a key depends on: its type, its deadline, when   *)
(* it is created, replaced, emptied and removed, and which of these mark   *)
(* it as modified for WATCH.                                               *)
(***************************************************************************)
EXTENDS Integers, Sequences, FiniteSets

CONSTANTS
  Dbs,              \* database indices
  Names,            \* key names
  Shards,           \* shard numbers of one database
  get_shard_index,  \* [Names -> Shards], the hash of the key
  ShardOrder,       \* the order in which the reaper visits the shards
  Ttls,             \* durations a client may ask for
  MaxContent,       \* contents are 0 .. MaxContent, the last one i64::MAX
  MaxTime,          \* bound on the clock
  UsizeMod,         \* number of values of a usize
  Workload          \* names of the operations the clients issue

Key == Dbs \X Names
DbShard == Dbs \X Shards

ASSUME KeyspaceAssumption ==
  /\ IsFiniteSet(Names)
  /\ get_shard_index \in [Names -> Shards]
  /\ ShardOrder \in Seq(DbShard) /\ Len(ShardOrder) > 0
  /\ Ttls \subseteq Nat
  /\ MaxContent \in Nat \ {0} /\ MaxTime \in Nat
  /\ UsizeMod \in Nat /\ Cardinality(Names) <= UsizeMod

VARIABLES
  data,            \* [Key -> Value], Missing where the map has no entry
  expiring_keys,   \* [Key -> instant], NoTime where the index has no entry
  active_watchers, \* [DbShard -> count of registered WATCHes]
  key_counters,    \* [Key -> last modification number]
  global_counter,  \* [DbShard -> modification numbers given out]
  then,            \* second engine call of the command being served
  reaper,          \* the expiration thread
  now              \* the clock

shardVars == <<data, expiring_keys, key_counters, global_counter>>
keyspaceVars == <<shardVars, active_watchers, then, reaper, now>>

(* get_shard: the shard of a key in its database. *)
ShardOf(k) == <<k[1], get_shard_index[k[2]]>>

Types == {"string", "list", "set", "hash", "zset", "stream"}
Collections == {"list", "set", "hash", "zset"}
Contents == 0 .. MaxContent
Written == 1 .. MaxContent
NoTime == -1
Missing == [type |-> "none", content |-> 0, expires_at |-> NoTime]
Value == {Missing} \cup [type : Types, content : Contents, expires_at : Int]

NoCall == [op |-> "none"]
SetCall(k, c, ttl) == [op |-> "set_value", key |-> k, content |-> c, ttl |-> ttl]
RenameCall(k, n) == [op |-> "rename", key |-> k, new_key |-> n]
Calls == {NoCall}
  \cup [op : {"set_value"}, key : Key, content : Contents, ttl : Ttls \cup {NoTime}]
  \cup [op : {"rename"}, key : Key, new_key : Key]

KeyspaceInit ==
  /\ data = [k \in Key |-> Missing]
  /\ expiring_keys = [k \in Key |-> NoTime]
  /\ active_watchers = [s \in DbShard |-> 0]
  /\ key_counters = [k \in Key |-> 0]
  /\ global_counter = [s \in DbShard |-> 0]
  /\ then = NoCall
  /\ reaper = [pc |-> "idle", pos |-> 1, scan |-> 0, dead |-> {}]
  /\ now = 0

Present(k) == data[k].type # "none"
is_expired(v) == v.expires_at # NoTime /\ now > v.expires_at
exists(k) == Present(k) /\ ~is_expired(data[k])

(* The shard lock.  The reaper deletes one key after the other under the   *)
(* write lock; every other call is a single step.                          *)
Unlocked(k) == ~(reaper.pc = "delete" /\ ShardOrder[reaper.pos] = ShardOf(k))

(* Marking a key as modified costs nothing while nobody watches its shard. *)
mark_key_modified(k) ==
  LET s == ShardOf(k)
      n == global_counter[s] + 1
  IN IF active_watchers[s] = 0
       THEN UNCHANGED <<key_counters, global_counter>>
       ELSE /\ global_counter' = [global_counter EXCEPT ![s] = n]
            /\ key_counters' = [key_counters EXCEPT ![k] = n]

store(k, v) == data' = [data EXCEPT ![k] = v]
index(k, t) == expiring_keys' = [expiring_keys EXCEPT ![k] = t]

(* Some operations read the clock once for the deadline of the value and   *)
(* again for the index: the entry may be late by one reading.              *)
index_late(k, ttl) == \E late \in {0, 1} : index(k, now + ttl + late)

-----------------------------------------------------------------------------
(* Strings and keys *)

(* Replaces whatever the key held.  The index is written only when there   *)
(* is a deadline; an entry of the value that is replaced stays.            *)
set_value(k, c, ttl) ==
  /\ Unlocked(k)
  /\ store(k, [type |-> "string", content |-> c,
               expires_at |-> IF ttl = NoTime THEN NoTime ELSE now + ttl])
  /\ IF ttl = NoTime THEN UNCHANGED expiring_keys ELSE index(k, now + ttl)
  /\ mark_key_modified(k)

set_string(k, c) == set_value(k, c, NoTime)
set_string_ex(k, c, ttl) == set_value(k, c, ttl)

(* SET NX: like SET, but a live key is left alone. *)
set_string_nx(k, c) ==
  /\ Unlocked(k)
  /\ IF exists(k) THEN UNCHANGED shardVars ELSE set_value(k, c, NoTime)

set_string_nx_ex(k, c, ttl) ==
  /\ Unlocked(k)
  /\ IF exists(k)
       THEN UNCHANGED shardVars
       ELSE /\ store(k, [type |-> "string", content |-> c, expires_at |-> now + ttl])
            /\ index_late(k, ttl)
            /\ mark_key_modified(k)

(* Reading an expired key removes it. *)
get(k) ==
  /\ Unlocked(k)
  /\ IF Present(k) /\ is_expired(data[k])
       THEN store(k, Missing) /\ index(k, NoTime) /\ mark_key_modified(k)
       ELSE UNCHANGED shardVars

(* Mutation: DEL does not tell the watchers. *)
delete_unmarked(k) ==
  /\ Unlocked(k)
  /\ IF Present(k)
       THEN /\ store(k, Missing) /\ index(k, NoTime)
            /\ UNCHANGED <<key_counters, global_counter>>
       ELSE UNCHANGED shardVars

delete(k) ==
  /\ Unlocked(k)
  /\ IF Present(k)
       THEN store(k, Missing) /\ index(k, NoTime) /\ mark_key_modified(k)
       ELSE UNCHANGED shardVars

(* Mutation: the deadline is stored with the value only. *)
expire_unindexed(k, ttl) ==
  /\ Unlocked(k)
  /\ IF Present(k)
       THEN store(k, [data[k] EXCEPT !.expires_at = now + ttl])
       ELSE UNCHANGED data
  /\ UNCHANGED <<expiring_keys, key_counters, global_counter>>

(* EXPIRE gives the stored value a deadline, an expired one included, and  *)
(* does not mark the key.                                                  *)
expire(k, ttl) ==
  /\ Unlocked(k)
  /\ IF Present(k)
       THEN /\ store(k, [data[k] EXCEPT !.expires_at = now + ttl])
            /\ index_late(k, ttl)
       ELSE UNCHANGED <<data, expiring_keys>>
  /\ UNCHANGED <<key_counters, global_counter>>

persist(k) ==
  /\ Unlocked(k)
  /\ IF Present(k) /\ data[k].expires_at # NoTime
       THEN /\ store(k, [data[k] EXCEPT !.expires_at = NoTime])
            /\ index(k, NoTime)
       ELSE UNCHANGED <<data, expiring_keys>>
  /\ UNCHANGED <<key_counters, global_counter>>

(* RENAME moves the stored value, deadline included, and marks only the    *)
(* new name.  The index of neither name changes.                           *)
rename(k, new) ==
  /\ Unlocked(k) /\ Unlocked(new)
  /\ IF Present(k)
       THEN /\ data' = [[data EXCEPT ![k] = Missing] EXCEPT ![new] = data[k]]
            /\ mark_key_modified(new)
       ELSE UNCHANGED <<data, key_counters, global_counter>>
  /\ UNCHANGED expiring_keys

(* FLUSHDB empties shard after shard.  Only main-thread commands touch two *)
(* shards, so clearing them one at a time is as good as at once.           *)
flush_db(db) ==
  /\ \A k \in Key : k[1] = db => Unlocked(k)
  /\ data' = [k \in Key |-> IF k[1] = db THEN Missing ELSE data[k]]
  /\ expiring_keys' = [k \in Key |-> IF k[1] = db THEN NoTime ELSE expiring_keys[k]]
  /\ UNCHANGED <<key_counters, global_counter>>

-----------------------------------------------------------------------------
(* Values changed in place.  None of these looks at the deadline of the    *)
(* value, and none of them touches the index.                              *)

(* Contents of a key of the given type become c, a missing key is created; *)
(* a value of another type is an error.  The key is marked if its contents *)
(* change or the operation marks it always.                                *)
Fill(k, type, c, always) ==
  /\ Unlocked(k)
  /\ IF data[k].type \in {type, "none"}
       THEN /\ store(k, [type |-> type, content |-> c, expires_at |-> data[k].expires_at])
            /\ IF always \/ c # data[k].content
                 THEN mark_key_modified(k)
                 ELSE UNCHANGED <<key_counters, global_counter>>
       ELSE UNCHANGED <<data, key_counters, global_counter>>
  /\ UNCHANGED expiring_keys

(* Mutation: an emptied collection stays in the map. *)
Drain_keeps_empty(k, type, c, always) ==
  /\ Unlocked(k)
  /\ IF data[k].type = type
       THEN /\ store(k, [data[k] EXCEPT !.content = c])
            /\ IF always \/ c # data[k].content
                 THEN mark_key_modified(k)
                 ELSE UNCHANGED <<key_counters, global_counter>>
       ELSE UNCHANGED <<data, key_counters, global_counter>>
  /\ UNCHANGED expiring_keys

(* Contents of an existing key become c.  An emptied collection is removed *)
(* from the map, but not from the index.                                   *)
Drain(k, type, c, always) ==
  /\ Unlocked(k)
  /\ IF data[k].type = type
       THEN /\ store(k, IF c = 0 THEN Missing ELSE [data[k] EXCEPT !.content = c])
            /\ IF always \/ c # data[k].content
                 THEN mark_key_modified(k)
                 ELSE UNCHANGED <<key_counters, global_counter>>
       ELSE UNCHANGED <<data, key_counters, global_counter>>
  /\ UNCHANGED expiring_keys

(* INCRBY works on the stored number whatever its deadline; a sum beyond   *)
(* the largest integer is an error that changes nothing.                   *)
incr_by(k) ==
  /\ Unlocked(k)
  /\ IF data[k].type = "string" /\ data[k].content = MaxContent
       THEN UNCHANGED shardVars
       ELSE Fill(k, "string", data[k].content + 1, TRUE)

append(k, c) == Fill(k, "string", c, TRUE)
setrange(k, c) == Fill(k, "string", c, TRUE)

lpush(k, c) == Fill(k, "list", c, TRUE)
rpush(k, c) == Fill(k, "list", c, TRUE)
lpop(k, c) == Drain(k, "list", c, FALSE)
rpop(k, c) == Drain(k, "list", c, FALSE)
lset(k, c) == Present(k) /\ Fill(k, "list", c, TRUE)
ltrim(k, c) == Drain(k, "list", c, TRUE)
lrem(k, c) == Drain(k, "list", c, FALSE)

sadd(k, c) == Fill(k, "set", c, FALSE)
srem(k, c) == Drain(k, "set", c, FALSE)
spop(k, c) == Drain(k, "set", c, FALSE)

hset(k, c) == Fill(k, "hash", c, TRUE)
hincrby(k, c) == Fill(k, "hash", c, TRUE)
hdel(k, c) == Drain(k, "hash", c, TRUE)

zadd(k, c) == Fill(k, "zset", c, TRUE)
zincrby(k, c) == Fill(k, "zset", c, TRUE)
zrem(k, c) == Drain(k, "zset", c, FALSE)

xadd(k, c) == Fill(k, "stream", c, TRUE)
xtrim(k, c) == Present(k) /\ Fill(k, "stream", c, FALSE)
xdel(k, c) == Present(k) /\ Fill(k, "stream", c, FALSE)

-----------------------------------------------------------------------------
(* WATCH trackers *)

(* Subtraction on usize: below zero it wraps around. *)
WrapSub(a, b) == IF b <= a THEN a - b ELSE a - b + UsizeMod

(* Mutation: the watch is not counted. *)
register_watch_uncounted(k) == Unlocked(k) /\ UNCHANGED active_watchers

register_watch(k) ==
  /\ Unlocked(k)
  /\ active_watchers' = [active_watchers EXCEPT ![ShardOf(k)] = @ + 1]

(* unregister_watch for each of a set of keys. *)
unregister_watches(K) ==
  /\ \A k \in K : Unlocked(k)
  /\ active_watchers' =
       [s \in DbShard |-> WrapSub(active_watchers[s],
                                  Cardinality({k \in K : ShardOf(k) = s}))]

was_modified_since(k, baseline) ==
  key_counters[k] > baseline \/ (Present(k) /\ is_expired(data[k]))

-----------------------------------------------------------------------------
(* The expiration thread *)

(* Mutation: the last shard is never visited. *)
NextShard_short == IF reaper.pos < Len(ShardOrder) - 1 THEN reaper.pos + 1 ELSE 1

NextShard == (reaper.pos % Len(ShardOrder)) + 1

(* First half of a visit, under the read lock: which keys of the shard are *)
(* due.  The clock is read once per database.                              *)
reaper_collect ==
  LET s == ShardOrder[reaper.pos]
      newDb == reaper.pos = 1 \/ ShardOrder[reaper.pos - 1][1] # s[1]
      scan == IF newDb THEN now ELSE reaper.scan
      dead == {k \in Key : /\ ShardOf(k) = s
                           /\ expiring_keys[k] # NoTime
                           /\ expiring_keys[k] <= scan}
  IN /\ reaper.pc = "idle"
     /\ reaper' = IF dead = {}
                    THEN [pc |-> "idle", pos |-> NextShard, scan |-> scan, dead |-> {}]
                    ELSE [reaper EXCEPT !.pc = "collected", !.scan = scan, !.dead = dead]
     /\ UNCHANGED <<shardVars, active_watchers, then, now>>

(* Mutation: no key is taken off the list, and the write lock is kept. *)
reaper_delete_keeps_lock ==
  /\ reaper.pc \in {"collected", "delete"}
  /\ \E k \in reaper.dead :
       /\ IF Present(k)
            THEN store(k, Missing) /\ index(k, NoTime) /\ mark_key_modified(k)
            ELSE UNCHANGED shardVars
       /\ reaper' = [reaper EXCEPT !.pc = "delete"]
  /\ UNCHANGED <<active_watchers, then, now>>

(* Second half, under the write lock: remove them, whatever they have      *)
(* become in between.  An index entry without a value stays.               *)
reaper_delete ==
  /\ reaper.pc \in {"collected", "delete"}
  /\ \E k \in reaper.dead :
       /\ IF Present(k)
            THEN store(k, Missing) /\ index(k, NoTime) /\ mark_key_modified(k)
            ELSE UNCHANGED shardVars
       /\ reaper' = IF reaper.dead = {k}
                      THEN [reaper EXCEPT !.pc = "idle", !.pos = NextShard, !.dead = {}]
                      ELSE [reaper EXCEPT !.pc = "delete", !.dead = @ \ {k}]
  /\ UNCHANGED <<active_watchers, then, now>>

expiration_cleanup_loop == reaper_collect \/ reaper_delete

-----------------------------------------------------------------------------
(* Commands *)

On(op) == op \in Workload

(* The commands that are one engine call on the key. *)
SingleCall(k) ==
  \/ On("get") /\ get(k)
  \/ On("delete") /\ delete(k)
  \/ On("persist") /\ persist(k)
  \/ On("incr_by") /\ incr_by(k)
  \/ On("flush_db") /\ flush_db(k[1])
  \/ \E ttl \in Ttls : On("expire") /\ expire(k, ttl)
  \/ \E n \in Names : On("rename") /\ rename(k, <<k[1], n>>)
  \/ \E c \in Written :
       \/ On("set") /\ set_string(k, c)
       \/ On("set_nx") /\ set_string_nx(k, c)
       \/ \E ttl \in Ttls : \/ On("set_ex") /\ set_string_ex(k, c, ttl)
                            \/ On("set_nx_ex") /\ set_string_nx_ex(k, c, ttl)
       \/ On("string") /\ (append(k, c) \/ setrange(k, c))
       \/ On("list") /\ (lpush(k, c) \/ rpush(k, c) \/ lset(k, c))
       \/ On("set_type") /\ sadd(k, c)
       \/ On("hash") /\ (hset(k, c) \/ hincrby(k, c))
       \/ On("zset") /\ (zadd(k, c) \/ zincrby(k, c))
       \/ On("stream") /\ xadd(k, c)
  \/ \E c \in Contents :
       \/ On("list") /\ (lpop(k, c) \/ rpop(k, c) \/ ltrim(k, c) \/ lrem(k, c))
       \/ On("set_type") /\ (srem(k, c) \/ spop(k, c))
       \/ On("hash") /\ hdel(k, c)
       \/ On("zset") /\ zrem(k, c)
       \/ On("stream") /\ (xtrim(k, c) \/ xdel(k, c))

(* The commands that read first and write in a second engine call. *)
handle_setnx(k, c) ==
  /\ Unlocked(k)
  /\ then' = IF exists(k) THEN NoCall ELSE SetCall(k, c, NoTime)
  /\ UNCHANGED shardVars

handle_set_xx(k, c, ttl) ==
  /\ Unlocked(k)
  /\ then' = IF exists(k) THEN SetCall(k, c, ttl) ELSE NoCall
  /\ UNCHANGED shardVars

handle_getset(k, c) ==
  /\ get(k)
  /\ then' = IF exists(k) /\ data[k].type # "string"
               THEN NoCall ELSE SetCall(k, c, NoTime)

handle_renamenx(k, new) ==
  /\ Unlocked(k) /\ Unlocked(new)
  /\ then' = IF exists(k) /\ ~exists(new) THEN RenameCall(k, new) ELSE NoCall
  /\ UNCHANGED shardVars

FirstCall(k) ==
  \/ \E c \in Written : \/ On("setnx") /\ handle_setnx(k, c)
                        \/ On("getset") /\ handle_getset(k, c)
                        \/ \E ttl \in Ttls \cup {NoTime} :
                             On("set_xx") /\ handle_set_xx(k, c, ttl)
  \/ \E n \in Names : On("renamenx") /\ handle_renamenx(k, <<k[1], n>>)

SecondCall ==
  /\ \/ then.op = "set_value" /\ set_value(then.key, then.content, then.ttl)
     \/ then.op = "rename" /\ rename(then.key, then.new_key)
  /\ then' = NoCall

(* One step of the main thread on behalf of a client. *)
Command(k) ==
  /\ then = NoCall
  /\ (SingleCall(k) /\ UNCHANGED then) \/ FirstCall(k)
  /\ UNCHANGED <<active_watchers, reaper, now>>

FinishCommand == SecondCall /\ UNCHANGED <<active_watchers, reaper, now>>

(* The thread that writes a snapshot reads keys with get, which removes    *)
(* the expired ones.                                                       *)
SnapshotRead(k) == get(k) /\ UNCHANGED <<active_watchers, then, reaper, now>>

Tick == /\ now < MaxTime
        /\ now' = now + 1
        /\ UNCHANGED <<shardVars, active_watchers, then, reaper>>

KeyspaceNext ==
  \/ \E k \in Key : Command(k) \/ SnapshotRead(k)
  \/ FinishCommand
  \/ expiration_cleanup_loop
  \/ Tick

(* The reaper sleeps for a second and always wakes; the main thread        *)
(* finishes the command it serves.                                         *)
KeyspaceSpec ==
  /\ KeyspaceInit /\ [][KeyspaceNext]_keyspaceVars
  /\ WF_keyspaceVars(expiration_cleanup_loop)
  /\ WF_keyspaceVars(FinishCommand)

-----------------------------------------------------------------------------
(* Properties *)

KeyspaceTypeOK ==
  /\ data \in [Key -> Value]
  /\ expiring_keys \in [Key -> Int]
  /\ active_watchers \in [DbShard -> Nat]
  /\ key_counters \in [Key -> Nat]
  /\ global_counter \in [DbShard -> Nat]
  /\ then \in Calls
  /\ reaper \in [pc : {"idle", "collected", "delete"}, pos : 1 .. Len(ShardOrder),
                 scan : Nat, dead : SUBSET Key]
  /\ now \in Nat

(* The key has other contents after the step; its deadline may differ. *)
Changed(k) == \/ data'[k].type # data[k].type
              \/ data'[k].content # data[k].content

(* A stored value that has a deadline is in the index of expiring keys,    *)
(* and not under an earlier instant: no operation may lose the entry, for  *)
(* the reaper looks nowhere else (engine.rs, expiring_keys).               *)
DeadlinesIndexed ==
  \A k \in Key : Present(k) /\ data[k].expires_at # NoTime
                   => /\ expiring_keys[k] # NoTime
                      /\ expiring_keys[k] >= data[k].expires_at

(* A list, set, hash or sorted set that lost its last element is gone from *)
(* the map, whichever operation took it (lpop, ltrim, lrem, srem, spop,    *)
(* hdel, zrem; a renamed value too).                                       *)
NoEmptyCollection ==
  \A k \in Key : data[k].type \in Collections => data[k].content # 0

(* A key whose deadline has passed is eventually removed or given a later  *)
(* life, even if no client ever reads it again (expiration_cleanup_loop).  *)
ExpiredKeysReaped ==
  \A k \in Key : Present(k) /\ is_expired(data[k])
                   ~> ~(Present(k) /\ is_expired(data[k]))

(* The expiration thread removes expired keys only: a key it removes has   *)
(* reached its deadline at the moment it is removed.                       *)
OnlyExpiredReaped ==
  [][reaper_delete => \A k \in Key : Present(k) /\ data'[k] = Missing
                        => /\ data[k].expires_at # NoTime
                           /\ data[k].expires_at <= now]_keyspaceVars
=============================================================================

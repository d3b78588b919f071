--------------------------- MODULE KeyspaceProofs ---------------------------
(***************************************************************************)
(* What one engine call does to the shards, for every key, every value of  *)
(* the constants and every operation: the types are kept, the modification *)
(* numbers grow, and a key that gets other contents while its shard is     *)
(* watched gets a new number.                                              *)
(***************************************************************************)
EXTENDS Keyspace, FiniteSetTheorems, TLAPS

ShardType ==
  /\ data \in [Key -> Value]
  /\ expiring_keys \in [Key -> Int]
  /\ key_counters \in [Key -> Nat]
  /\ global_counter \in [DbShard -> Nat]

(* Numbers are given out in increasing order, shard by shard. *)
CountersGrow ==
  /\ \A s \in DbShard : global_counter'[s] >= global_counter[s]
  /\ \A k \in Key : \/ key_counters'[k] = key_counters[k]
                    \/ /\ key_counters'[k] = global_counter[ShardOf(k)] + 1
                       /\ global_counter'[ShardOf(k)] = global_counter[ShardOf(k)] + 1

(* A key with other contents has a new number, unless nobody watches. *)
ChangesMarked ==
  \A k \in Key : Changed(k) => \/ active_watchers[ShardOf(k)] = 0
                               \/ key_counters'[k] = global_counter[ShardOf(k)] + 1

SafeStep == ShardType' /\ NoEmptyCollection' /\ CountersGrow
ShardStep == SafeStep /\ ChangesMarked

(* The operations that change contents behind the back of the trackers. *)
Unmarked == {"flush_db", "rename", "renamenx"}

-----------------------------------------------------------------------------
(* The shard of a key is one of the shards (get_shard).                    *)
LEMMA ShardOfType == \A k \in Key : ShardOf(k) \in DbShard
  BY KeyspaceAssumption DEF ShardOf, Key, DbShard

(* Marking a key gives it the next number of its shard, or does nothing    *)
(* while nobody watches the shard (mark_key_modified).                     *)
LEMMA MarkStep ==
  ASSUME KeyspaceTypeOK, NEW k \in Key, mark_key_modified(k)
  PROVE  /\ key_counters' \in [Key -> Nat]
         /\ global_counter' \in [DbShard -> Nat]
         /\ CountersGrow
         /\ \/ active_watchers[ShardOf(k)] = 0
            \/ key_counters'[k] = global_counter[ShardOf(k)] + 1
  <1> DEFINE s == ShardOf(k)
  <1> USE DEF KeyspaceTypeOK
  <1>1. s \in DbShard
    BY ShardOfType
  <1>2. CASE active_watchers[s] = 0
    BY <1>2 DEF mark_key_modified, CountersGrow
  <1>3. CASE active_watchers[s] # 0
    <2>1. /\ global_counter' = [global_counter EXCEPT ![s] = global_counter[s] + 1]
          /\ key_counters' = [key_counters EXCEPT ![k] = global_counter[s] + 1]
      BY <1>3 DEF mark_key_modified
    <2>2. CountersGrow
      BY <1>1, <2>1 DEF CountersGrow
    <2>3. QED
      BY <1>1, <2>1, <2>2
  <1>4. QED
    BY <1>2, <1>3

(* A call that writes one key and marks it.                                *)
LEMMA StoreMarked ==
  ASSUME KeyspaceTypeOK, NoEmptyCollection, NEW k \in Key, NEW v \in Value, store(k, v),
         v.type \in Collections => v.content # 0,
         mark_key_modified(k), expiring_keys' \in [Key -> Int]
  PROVE  ShardStep
  <1>1. data' \in [Key -> Value] /\ data'[k] = v
        /\ \A j \in Key : j # k => data'[j] = data[j]
    BY DEF KeyspaceTypeOK, store
  <1>2. NoEmptyCollection'
    BY <1>1 DEF NoEmptyCollection, Collections
  <1>3. QED
    BY <1>1, <1>2, MarkStep DEF ShardStep, SafeStep, ShardType, ChangesMarked, Changed

(* A call that changes no more than the deadline of a key need not mark it. *)
LEMMA StoreUnmarked ==
  ASSUME KeyspaceTypeOK, NoEmptyCollection, NEW k \in Key, NEW v \in Value, store(k, v),
         v.type = data[k].type, v.content = data[k].content,
         UNCHANGED <<key_counters, global_counter>>, expiring_keys' \in [Key -> Int]
  PROVE  ShardStep
  <1>1. data' \in [Key -> Value] /\ data'[k] = v
        /\ \A j \in Key : j # k => data'[j] = data[j]
    BY DEF KeyspaceTypeOK, store
  <1>2. CountersGrow
    BY DEF KeyspaceTypeOK, CountersGrow
  <1>3. NoEmptyCollection'
    BY <1>1 DEF NoEmptyCollection
  <1>4. QED
    BY <1>1, <1>2, <1>3 DEF ShardStep, SafeStep, ShardType, ChangesMarked, Changed, KeyspaceTypeOK

(* A call that changes nothing.                                            *)
LEMMA NoStore ==
  ASSUME KeyspaceTypeOK, NoEmptyCollection, UNCHANGED shardVars
  PROVE  ShardStep
  BY DEF KeyspaceTypeOK, NoEmptyCollection, shardVars, ShardStep, SafeStep, ShardType,
         CountersGrow, ChangesMarked, Changed

(* An entry of the index is written or removed.                            *)
LEMMA IndexType ==
  ASSUME KeyspaceTypeOK, NEW k \in Key, NEW t \in Int, index(k, t)
  PROVE  expiring_keys' \in [Key -> Int]
  BY DEF KeyspaceTypeOK, index

-----------------------------------------------------------------------------
(* The operations *)

(* What a stored value is made of.                                         *)
LEMMA ValueType ==
  ASSUME KeyspaceTypeOK, NEW k \in Key
  PROVE  /\ data[k] \in Value /\ Missing \in Value
         /\ data[k].content \in Contents /\ data[k].expires_at \in Int
         /\ data[k].type \in Types \cup {"none"}
         /\ Present(k) => data[k] \in [type : Types, content : Contents, expires_at : Int]
         /\ ~Present(k) => data[k] = Missing
  BY KeyspaceAssumption DEF KeyspaceTypeOK, Value, Missing, Contents, Present, Types, NoTime

(* SET, SETEX, PSETEX: the value replaces what was there (set_value).      *)
LEMMA SetValueStep ==
  ASSUME KeyspaceTypeOK, NoEmptyCollection, NEW k \in Key, NEW c \in Contents,
         NEW ttl \in Ttls \cup {NoTime}, set_value(k, c, ttl)
  PROVE  ShardStep
  <1> DEFINE v == [type |-> "string", content |-> c,
                   expires_at |-> IF ttl = NoTime THEN NoTime ELSE now + ttl]
  <1>1. v \in Value /\ now + ttl \in Int
    BY KeyspaceAssumption DEF KeyspaceTypeOK, Value, Types, NoTime
  <1>2. expiring_keys' \in [Key -> Int]
    BY <1>1, IndexType DEF set_value, KeyspaceTypeOK
  <1>3. store(k, v) /\ mark_key_modified(k)
    BY DEF set_value
  <1>4. QED
    BY <1>1, <1>2, <1>3, StoreMarked DEF Collections

(* SET NX EX: the same for a key that is not there (set_string_nx_ex).     *)
LEMMA SetNxExStep ==
  ASSUME KeyspaceTypeOK, NoEmptyCollection, NEW k \in Key, NEW c \in Contents, NEW ttl \in Ttls,
         set_string_nx_ex(k, c, ttl)
  PROVE  ShardStep
  <1> DEFINE v == [type |-> "string", content |-> c, expires_at |-> now + ttl]
  <1>1. CASE exists(k)
    BY <1>1, NoStore DEF set_string_nx_ex
  <1>2. CASE ~exists(k)
    <2>1. v \in Value /\ now + ttl + 1 \in Int /\ now + ttl + 0 \in Int
      BY KeyspaceAssumption DEF KeyspaceTypeOK, Value, Types
    <2>2. expiring_keys' \in [Key -> Int]
      BY <1>2, <2>1, IndexType DEF set_string_nx_ex, index_late
    <2>3. store(k, v) /\ mark_key_modified(k)
      BY <1>2 DEF set_string_nx_ex
    <2>4. QED
      BY <2>1, <2>2, <2>3, StoreMarked DEF Collections
  <1>3. QED
    BY <1>1, <1>2

(* DEL, and the removal of an expired key by a read or by the reaper.      *)
LEMMA RemoveStep ==
  ASSUME KeyspaceTypeOK, NoEmptyCollection, NEW k \in Key,
         store(k, Missing), index(k, NoTime), mark_key_modified(k)
  PROVE  ShardStep
  <1>1. expiring_keys' \in [Key -> Int]
    BY IndexType DEF NoTime
  <1>2. QED
    BY <1>1, ValueType, StoreMarked DEF Missing, Collections

(* EXPIRE and PERSIST change the deadline only (expire, persist).          *)
LEMMA DeadlineStep ==
  ASSUME KeyspaceTypeOK, NoEmptyCollection, NEW k \in Key,
         persist(k) \/ \E ttl \in Ttls : expire(k, ttl)
  PROVE  ShardStep
  <1>1. CASE ~Present(k)
    BY <1>1, NoStore DEF persist, expire, shardVars
  <1>2. CASE Present(k) /\ persist(k)
    <2>1. CASE data[k].expires_at # NoTime
      <3> DEFINE v == [data[k] EXCEPT !.expires_at = NoTime]
      <3>1. v \in Value /\ v.type = data[k].type /\ v.content = data[k].content
        BY <1>2, ValueType DEF Value, NoTime
      <3>2. store(k, v) /\ expiring_keys' \in [Key -> Int]
        BY <1>2, <2>1, IndexType DEF persist, NoTime
      <3>3. QED
        BY <1>2, <3>1, <3>2, StoreUnmarked DEF persist
    <2>2. CASE data[k].expires_at = NoTime
      BY <1>2, <2>2, NoStore DEF persist, shardVars
    <2>3. QED
      BY <2>1, <2>2
  <1>3. ASSUME Present(k), NEW ttl \in Ttls, expire(k, ttl)
        PROVE  ShardStep
    <2> DEFINE v == [data[k] EXCEPT !.expires_at = now + ttl]
    <2>1. now + ttl \in Int /\ now + ttl + 1 \in Int /\ now + ttl + 0 \in Int
      BY KeyspaceAssumption DEF KeyspaceTypeOK
    <2>2. v \in Value /\ v.type = data[k].type /\ v.content = data[k].content
      BY <1>3, <2>1, ValueType DEF Value
    <2>3. store(k, v) /\ expiring_keys' \in [Key -> Int]
      BY <1>3, <2>1, IndexType DEF expire, index_late
    <2>4. QED
      BY <1>3, <2>2, <2>3, StoreUnmarked DEF expire
  <1>4. QED
    BY <1>1, <1>2, <1>3

(* Commands that write a value in place, or create it (append .. xdel).    *)
LEMMA FillStep ==
  ASSUME KeyspaceTypeOK, NoEmptyCollection, NEW k \in Key, NEW type \in Types, NEW c \in Contents,
         NEW always \in BOOLEAN, c # 0 \/ (type = "stream" /\ Present(k)),
         Fill(k, type, c, always)
  PROVE  ShardStep
  <1> DEFINE v == [type |-> type, content |-> c, expires_at |-> data[k].expires_at]
  <1>1. CASE data[k].type \notin {type, "none"}
    BY <1>1, NoStore DEF Fill, shardVars
  <1>2. CASE data[k].type \in {type, "none"}
    <2>1. v \in Value
      BY ValueType DEF Value
    <2>2. store(k, v) /\ expiring_keys' \in [Key -> Int]
      BY <1>2 DEF Fill, KeyspaceTypeOK
    <2>3. CASE always \/ c # data[k].content
      BY <1>2, <2>1, <2>2, <2>3, StoreMarked DEF Fill, Collections
    <2>4. CASE ~(always \/ c # data[k].content)
      <3>1. v.content = data[k].content /\ UNCHANGED <<key_counters, global_counter>>
        BY <1>2, <2>4 DEF Fill
      <3>2. v.type = data[k].type
        BY <1>2, <2>4, ValueType DEF Missing, Present
      <3>3. QED
        BY <2>1, <2>2, <3>1, <3>2, StoreUnmarked
    <2>5. QED
      BY <2>3, <2>4
  <1>3. QED
    BY <1>1, <1>2

(* Commands that take elements out of a collection (lpop .. zrem).         *)
LEMMA DrainStep ==
  ASSUME KeyspaceTypeOK, NoEmptyCollection, NEW k \in Key,
         NEW type \in Collections, NEW c \in Contents,
         NEW always \in BOOLEAN, Drain(k, type, c, always)
  PROVE  ShardStep
  <1> DEFINE v == IF c = 0 THEN Missing ELSE [data[k] EXCEPT !.content = c]
  <1>1. CASE data[k].type # type
    BY <1>1, NoStore DEF Drain, shardVars
  <1>2. CASE data[k].type = type
    <2>0. Present(k) /\ data[k].content # 0
      BY <1>2 DEF Present, NoEmptyCollection, Collections
    <2>1. v \in Value
      BY <2>0, ValueType DEF Value
    <2>2. store(k, v) /\ expiring_keys' \in [Key -> Int]
      BY <1>2 DEF Drain, KeyspaceTypeOK
    <2>3. CASE always \/ c # data[k].content
      <3>1. v.type \in Collections => v.content # 0
        BY <2>0, ValueType DEF Missing, Collections
      <3>2. QED
        BY <1>2, <2>1, <2>2, <2>3, <3>1, StoreMarked DEF Drain
    <2>4. CASE ~(always \/ c # data[k].content)
      <3>1. /\ v.content = data[k].content /\ v.type = data[k].type
            /\ UNCHANGED <<key_counters, global_counter>>
        BY <1>2, <2>0, <2>4, ValueType DEF Drain
      <3>2. QED
        BY <2>1, <2>2, <3>1, StoreUnmarked
    <2>5. QED
      BY <2>3, <2>4
  <1>3. QED
    BY <1>1, <1>2

(* GET, and every read by the snapshot thread (get).                       *)
LEMMA GetStep ==
  ASSUME KeyspaceTypeOK, NoEmptyCollection, NEW k \in Key, get(k)
  PROVE  ShardStep
  BY RemoveStep, NoStore DEF get

(* INCRBY (incr_by).                                                       *)
LEMMA IncrStep ==
  ASSUME KeyspaceTypeOK, NoEmptyCollection, NEW k \in Key, incr_by(k)
  PROVE  ShardStep
  <1>1. CASE data[k].type = "string" /\ data[k].content = MaxContent
    BY <1>1, NoStore DEF incr_by
  <1>2. CASE data[k].type \notin {"string", "none"}
    BY <1>2, NoStore DEF incr_by, Fill, shardVars
  <1>3. CASE data[k].type = "none" \/ (data[k].type = "string" /\ data[k].content # MaxContent)
    <2>1. data[k].content + 1 \in Contents /\ data[k].content + 1 # 0
      BY <1>3, ValueType, KeyspaceAssumption DEF Missing, Present, Contents
    <2>2. Fill(k, "string", data[k].content + 1, TRUE)
      BY <1>3 DEF incr_by
    <2>3. QED
      BY <2>1, <2>2, FillStep DEF Types
  <1>4. QED
    BY <1>1, <1>2, <1>3

(* RENAME moves a value that is there (rename).                            *)
LEMMA RenameStep ==
  ASSUME KeyspaceTypeOK, NoEmptyCollection, NEW k \in Key, NEW new \in Key,
         rename(k, new)
  PROVE  SafeStep
  <1>1. CASE ~Present(k)
    BY <1>1, NoStore DEF rename, shardVars, ShardStep
  <1>2. CASE Present(k)
    <2>1. data' = [[data EXCEPT ![k] = Missing] EXCEPT ![new] = data[k]]
      BY <1>2 DEF rename
    <2>2. data' \in [Key -> Value]
      BY <2>1, ValueType DEF KeyspaceTypeOK
    <2>3. NoEmptyCollection'
      BY <2>1, ValueType DEF KeyspaceTypeOK, NoEmptyCollection, Missing, Collections
    <2>4. QED
      BY <1>2, <2>2, <2>3, MarkStep DEF rename, SafeStep, ShardType, KeyspaceTypeOK
  <1>3. QED
    BY <1>1, <1>2

(* FLUSHDB (flush_db).                                                     *)
LEMMA FlushStep ==
  ASSUME KeyspaceTypeOK, NoEmptyCollection, NEW db \in Dbs, flush_db(db)
  PROVE  SafeStep
  <1>1. data' \in [Key -> Value] /\ NoEmptyCollection'
    BY ValueType DEF flush_db, KeyspaceTypeOK, NoEmptyCollection, Missing, Collections
  <1>2. expiring_keys' \in [Key -> Int]
    BY DEF flush_db, KeyspaceTypeOK, NoTime
  <1>3. CountersGrow
    BY DEF flush_db, CountersGrow, KeyspaceTypeOK
  <1>4. QED
    BY <1>1, <1>2, <1>3 DEF flush_db, SafeStep, ShardType, KeyspaceTypeOK

(* Every command of one engine call.                                       *)
LEMMA SingleCallStep ==
  ASSUME KeyspaceTypeOK, NoEmptyCollection, NEW k \in Key, SingleCall(k)
  PROVE  SafeStep /\ (Workload \cap Unmarked = {} => ChangesMarked)
  <1> USE DEF Types, Collections
  <1>1. CASE (On("flush_db") /\ flush_db(k[1]))
             \/ \E n \in Names : On("rename") /\ rename(k, <<k[1], n>>)
    <2>1. Workload \cap Unmarked # {}
      BY <1>1 DEF On, Unmarked
    <2>2. k[1] \in Dbs /\ \A n \in Names : <<k[1], n>> \in Key
      BY DEF Key
    <2>3. QED
      BY <1>1, <2>1, <2>2, FlushStep, RenameStep
  <1>2. CASE get(k) \/ delete(k)
    BY <1>2, GetStep, RemoveStep, NoStore DEF delete, ShardStep
  <1>3. CASE persist(k) \/ \E ttl \in Ttls : expire(k, ttl)
    BY <1>3, DeadlineStep DEF ShardStep
  <1>4. CASE incr_by(k)
    BY <1>4, IncrStep DEF ShardStep
  <1>5. ASSUME NEW c \in Written,
               \/ set_string(k, c) \/ set_string_nx(k, c)
               \/ \E ttl \in Ttls : set_string_ex(k, c, ttl) \/ set_string_nx_ex(k, c, ttl)
        PROVE  ShardStep
    <2>1. c \in Contents
      BY KeyspaceAssumption DEF Written, Contents
    <2>2. CASE set_string(k, c) \/ set_string_nx(k, c)
      BY <2>1, <2>2, SetValueStep, NoStore DEF set_string, set_string_nx
    <2>3. CASE \E ttl \in Ttls : set_string_ex(k, c, ttl) \/ set_string_nx_ex(k, c, ttl)
      BY <2>1, <2>3, SetValueStep, SetNxExStep DEF set_string_ex
    <2>4. QED
      BY <1>5, <2>2, <2>3
  <1>6. ASSUME NEW c \in Written,
               \/ append(k, c) \/ setrange(k, c)
               \/ lpush(k, c) \/ rpush(k, c) \/ lset(k, c)
               \/ sadd(k, c) \/ hset(k, c) \/ hincrby(k, c)
               \/ zadd(k, c) \/ zincrby(k, c) \/ xadd(k, c)
        PROVE  ShardStep
    <2>1. c \in Contents /\ c # 0
      BY KeyspaceAssumption DEF Written, Contents
    <2>2. \E type \in Types, always \in BOOLEAN : Fill(k, type, c, always)
      BY <1>6 DEF append, setrange, lpush, rpush, lset, sadd, hset, hincrby,
                  zadd, zincrby, xadd
    <2>3. QED
      BY <2>1, <2>2, FillStep
  <1>7. ASSUME NEW c \in Contents,
               \/ lpop(k, c) \/ rpop(k, c) \/ ltrim(k, c) \/ lrem(k, c)
               \/ srem(k, c) \/ spop(k, c) \/ hdel(k, c) \/ zrem(k, c)
        PROVE  ShardStep
    <2>1. \E type \in Collections, always \in BOOLEAN : Drain(k, type, c, always)
      BY <1>7 DEF lpop, rpop, ltrim, lrem, srem, spop, hdel, zrem
    <2>2. QED
      BY <2>1, DrainStep
  <1>8. ASSUME NEW c \in Contents, xtrim(k, c) \/ xdel(k, c)
        PROVE  ShardStep
    <2>1. Present(k) /\ Fill(k, "stream", c, FALSE)
      BY <1>8 DEF xtrim, xdel
    <2>2. QED
      BY <2>1, FillStep
  <1>9. QED
    BY <1>1, <1>2, <1>3, <1>4, <1>5, <1>6, <1>7, <1>8 DEF SingleCall, ShardStep

-----------------------------------------------------------------------------
(* The steps of the threads *)

KeyspaceInv == KeyspaceTypeOK /\ NoEmptyCollection

(* What every step of every thread respects.                               *)
EngineStep ==
  /\ KeyspaceInv' /\ CountersGrow
  /\ (Workload \cap Unmarked = {} /\ then.op # "rename" => ChangesMarked /\ then'.op # "rename")

(* The first of two calls reads, and leaves a call of the right type.      *)
LEMMA FirstCallStep ==
  ASSUME KeyspaceTypeOK, NoEmptyCollection, NEW k \in Key, FirstCall(k)
  PROVE  /\ ShardStep /\ then' \in Calls
         /\ Workload \cap Unmarked = {} => then'.op # "rename"
  <1>1. ASSUME NEW c \in Written,
               \/ On("setnx") /\ handle_setnx(k, c)
               \/ On("getset") /\ handle_getset(k, c)
               \/ \E ttl \in Ttls \cup {NoTime} : On("set_xx") /\ handle_set_xx(k, c, ttl)
        PROVE  ShardStep /\ then' \in Calls /\ then'.op # "rename"
    <2>1. c \in Contents
      BY KeyspaceAssumption DEF Written, Contents
    <2>2. ShardStep
      BY <1>1, NoStore, GetStep DEF handle_setnx, handle_getset, handle_set_xx
    <2>3. then' = NoCall \/ \E ttl \in Ttls \cup {NoTime} : then' = SetCall(k, c, ttl)
      BY <1>1 DEF handle_setnx, handle_getset, handle_set_xx
    <2>4. QED
      BY <2>1, <2>2, <2>3 DEF Calls, SetCall, NoCall
  <1>2. ASSUME NEW n \in Names, On("renamenx"), handle_renamenx(k, <<k[1], n>>)
        PROVE  ShardStep /\ then' \in Calls /\ Workload \cap Unmarked # {}
    <2>1. <<k[1], n>> \in Key
      BY DEF Key
    <2>2. ShardStep
      BY <1>2, NoStore DEF handle_renamenx
    <2>3. then' = NoCall \/ then' = RenameCall(k, <<k[1], n>>)
      BY <1>2 DEF handle_renamenx
    <2>4. QED
      BY <1>2, <2>1, <2>2, <2>3 DEF Calls, RenameCall, NoCall, On, Unmarked
  <1>3. QED
    BY <1>1, <1>2 DEF FirstCall

(* The second call runs with what the first one left.                      *)
LEMMA SecondCallStep ==
  ASSUME KeyspaceTypeOK, NoEmptyCollection, SecondCall
  PROVE  SafeStep /\ then' = NoCall /\ (then.op # "rename" => ChangesMarked)
  <1>1. then \in Calls /\ then' = NoCall
    BY DEF KeyspaceTypeOK, SecondCall
  <1>2. CASE then.op = "set_value" /\ set_value(then.key, then.content, then.ttl)
    <2>1. then \in [op : {"set_value"}, key : Key, content : Contents, ttl : Ttls \cup {NoTime}]
      BY <1>1, <1>2 DEF Calls, NoCall
    <2>2. QED
      BY <1>1, <1>2, <2>1, SetValueStep DEF ShardStep
  <1>3. CASE then.op = "rename" /\ rename(then.key, then.new_key)
    <2>1. then \in [op : {"rename"}, key : Key, new_key : Key]
      BY <1>1, <1>3 DEF Calls, NoCall
    <2>2. QED
      BY <1>1, <1>3, <2>1, RenameStep
  <1>4. QED
    BY <1>2, <1>3 DEF SecondCall

(* A step on behalf of a client.                                           *)
LEMMA CommandStep ==
  ASSUME KeyspaceInv, NEW k \in Key, Command(k)
  PROVE  EngineStep
  <1>1. UNCHANGED <<active_watchers, reaper, now>>
    BY DEF Command
  <1>2. CASE SingleCall(k) /\ UNCHANGED then
    BY <1>1, <1>2, SingleCallStep
       DEF EngineStep, KeyspaceInv, KeyspaceTypeOK, SafeStep, ShardType
  <1>3. CASE FirstCall(k)
    BY <1>1, <1>3, FirstCallStep
       DEF EngineStep, KeyspaceInv, KeyspaceTypeOK, ShardStep, SafeStep, ShardType
  <1>4. QED
    BY <1>2, <1>3 DEF Command

(* The second engine call of a command.                                    *)
LEMMA FinishStep ==
  ASSUME KeyspaceInv, FinishCommand
  PROVE  EngineStep
  <1>1. SecondCall /\ UNCHANGED <<active_watchers, reaper, now>>
    BY DEF FinishCommand
  <1>2. QED
    BY <1>1, SecondCallStep
       DEF EngineStep, KeyspaceInv, KeyspaceTypeOK, SafeStep, ShardType, Calls, NoCall

(* The expiration thread.                                                  *)
LEMMA ReaperStep ==
  ASSUME KeyspaceInv, expiration_cleanup_loop
  PROVE  EngineStep
  <1> DEFINE ReaperType == [pc : {"idle", "collected", "delete"}, pos : 1 .. Len(ShardOrder),
                            scan : Nat, dead : SUBSET Key]
  <1>1. reaper \in ReaperType /\ Len(ShardOrder) \in Nat /\ Len(ShardOrder) > 0
    BY KeyspaceAssumption DEF KeyspaceInv, KeyspaceTypeOK
  <1>2. NextShard \in 1 .. Len(ShardOrder)
    BY <1>1 DEF NextShard
  <1>3. CASE reaper_collect
    <2>1. ShardStep
      BY <1>3, NoStore DEF reaper_collect, KeyspaceInv
    <2>2. PICK scan \in Nat, dead \in SUBSET Key :
            reaper' = IF dead = {}
                        THEN [pc |-> "idle", pos |-> NextShard, scan |-> scan, dead |-> {}]
                        ELSE [reaper EXCEPT !.pc = "collected", !.scan = scan, !.dead = dead]
      <3> DEFINE s == ShardOrder[reaper.pos]
                 newDb == reaper.pos = 1 \/ ShardOrder[reaper.pos - 1][1] # s[1]
                 time == IF newDb THEN now ELSE reaper.scan
                 due == {k \in Key : /\ ShardOf(k) = s
                                     /\ expiring_keys[k] # NoTime
                                     /\ expiring_keys[k] <= time}
      <3>1. time \in Nat /\ due \in SUBSET Key
        BY <1>1 DEF KeyspaceInv, KeyspaceTypeOK
      <3>2. reaper' = IF due = {}
                        THEN [pc |-> "idle", pos |-> NextShard, scan |-> time, dead |-> {}]
                        ELSE [reaper EXCEPT !.pc = "collected", !.scan = time, !.dead = due]
        BY <1>3 DEF reaper_collect
      <3> HIDE DEF time, due
      <3>3. QED
        BY <3>1, <3>2
    <2>3. reaper' \in ReaperType
      BY <1>1, <1>2, <2>2
    <2>4. QED
      BY <1>3, <2>1, <2>3
         DEF reaper_collect, EngineStep, KeyspaceInv, KeyspaceTypeOK, ShardStep, SafeStep, ShardType
  <1>4. CASE reaper_delete
    <2>1. PICK k \in reaper.dead :
            /\ IF Present(k)
                 THEN store(k, Missing) /\ index(k, NoTime) /\ mark_key_modified(k)
                 ELSE UNCHANGED shardVars
            /\ reaper' = IF reaper.dead = {k}
                           THEN [reaper EXCEPT !.pc = "idle", !.pos = NextShard, !.dead = {}]
                           ELSE [reaper EXCEPT !.pc = "delete", !.dead = @ \ {k}]
      BY <1>4 DEF reaper_delete
    <2>2. k \in Key
      BY <1>1
    <2>3. ShardStep
      BY <2>1, <2>2, RemoveStep, NoStore DEF KeyspaceInv
    <2>4. reaper' \in ReaperType
      BY <1>1, <1>2, <2>1
    <2>5. QED
      BY <1>4, <2>3, <2>4
         DEF reaper_delete, EngineStep, KeyspaceInv, KeyspaceTypeOK, ShardStep, SafeStep, ShardType
  <1>5. QED
    BY <1>3, <1>4 DEF expiration_cleanup_loop

(* The snapshot thread and the clock.                                      *)
LEMMA BackgroundStep ==
  ASSUME KeyspaceInv, (\E k \in Key : SnapshotRead(k)) \/ Tick
  PROVE  EngineStep
  <1>1. CASE \E k \in Key : SnapshotRead(k)
    BY <1>1, GetStep
       DEF SnapshotRead, EngineStep, KeyspaceInv, KeyspaceTypeOK, ShardStep, SafeStep, ShardType
  <1>2. CASE Tick
    <2>1. ShardStep /\ now' \in Nat
      BY <1>2, NoStore DEF Tick, KeyspaceInv, KeyspaceTypeOK
    <2>2. QED
      BY <1>2, <2>1
         DEF Tick, EngineStep, KeyspaceInv, KeyspaceTypeOK, ShardStep, SafeStep, ShardType
  <1>3. QED
    BY <1>1, <1>2

(* The engine starts empty.                                                *)
LEMMA KeyspaceInitInv == KeyspaceInit => KeyspaceInv
  BY KeyspaceAssumption
     DEF KeyspaceInit, KeyspaceInv, KeyspaceTypeOK, NoEmptyCollection, Value, Missing,
         Collections, Calls, NoTime

(* Whatever the clients do, the state of the engine keeps its type and no  *)
(* list, set, hash or sorted set is ever stored empty (lpop .. zrem remove *)
(* the key with its last element).                                         *)
THEOREM KeyspaceSafety == KeyspaceSpec => [](KeyspaceTypeOK /\ NoEmptyCollection)
  <1>1. KeyspaceInit => KeyspaceInv
    BY KeyspaceInitInv
  <1>2. KeyspaceInv /\ [KeyspaceNext]_keyspaceVars => KeyspaceInv'
    <2> SUFFICES ASSUME KeyspaceInv, [KeyspaceNext]_keyspaceVars PROVE KeyspaceInv'
      OBVIOUS
    <2>1. CASE KeyspaceNext
      BY <2>1, CommandStep, FinishStep, ReaperStep, BackgroundStep DEF KeyspaceNext, EngineStep
    <2>2. CASE UNCHANGED keyspaceVars
      BY <2>2 DEF keyspaceVars, shardVars, KeyspaceInv, KeyspaceTypeOK, NoEmptyCollection
    <2>3. QED
      BY <2>1, <2>2
  <1>3. QED
    BY <1>1, <1>2, PTL DEF KeyspaceSpec, KeyspaceInv
=============================================================================

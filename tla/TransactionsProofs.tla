------------------------- MODULE TransactionsProofs -------------------------
(***************************************************************************)
(* Type correctness of the transactions for every workload, and, for the   *)
(* workloads that neither change the selected database nor use one of the  *)
(* operations that do not mark what they change, the isolation of EXEC.    *)
(***************************************************************************)
EXTENDS Transactions, KeyspaceProofs

-----------------------------------------------------------------------------
(* Types *)

TypeInv == TypeOK /\ NoEmptyCollection

(* The watched keys of a shard that UNWATCH unregisters. *)
Unregistered(db, W, s) == {k \in {<<db, n>> : n \in W} : ShardOf(k) = s}

(* UNWATCH unregisters no more keys in a shard than there are names.       *)
LEMMA UnregisteredBound ==
  ASSUME NEW db, NEW W \in SUBSET Names, NEW s
  PROVE  /\ IsFiniteSet(Unregistered(db, W, s))
         /\ Cardinality(Unregistered(db, W, s)) \in Nat
         /\ Cardinality(Unregistered(db, W, s)) <= Cardinality(Names)
  <1> DEFINE Ks == Unregistered(db, W, s)
             f == [k \in Ks |-> k[2]]
  <1>1. f \in Injection(Ks, Names)
    BY DEF Injection, IsInjective, Unregistered
  <1>2. IsFiniteSet(Names)
    BY KeyspaceAssumption
  <1>3. IsFiniteSet(Ks) /\ Cardinality(Ks) <= Cardinality(Names)
    BY <1>1, <1>2, FS_Injection
  <1>4. QED
    BY <1>3, FS_CardinalityType

(* The counters of UNWATCH stay natural numbers (unregister_watch).        *)
LEMMA UnregisterType ==
  ASSUME KeyspaceTypeOK, NEW db, NEW W \in SUBSET Names,
         unregister_watches({<<db, n>> : n \in W})
  PROVE  active_watchers' \in [DbShard -> Nat]
  <1> DEFINE count(s) == Cardinality(Unregistered(db, W, s))
  <1>1. \A s \in DbShard : count(s) \in Nat /\ count(s) <= Cardinality(Names)
    BY UnregisteredBound
  <1>2. active_watchers' = [s \in DbShard |-> WrapSub(active_watchers[s], count(s))]
    BY DEF unregister_watches, Unregistered
  <1>3. Cardinality(Names) \in Nat /\ UsizeMod \in Nat /\ Cardinality(Names) <= UsizeMod
    BY KeyspaceAssumption, FS_CardinalityType
  <1> HIDE DEF count
  <1>4. \A s \in DbShard : WrapSub(active_watchers[s], count(s)) \in Nat
    BY <1>1, <1>3 DEF WrapSub, KeyspaceTypeOK
  <1>5. QED
    BY <1>2, <1>4

(* The part of TypeOK that is about the connections and EXEC.              *)
ConnType ==
  /\ db_index \in [Clients -> Dbs]
  /\ in_transaction \in [Clients -> BOOLEAN]
  /\ queued_commands \in [Clients -> Nat]
  /\ watched_keys \in [Clients -> [Names -> Nat \cup {NotWatched}]]
  /\ watch_db \in [Clients -> [Names -> Dbs]]
  /\ touched \subseteq Clients \X Names

ChecksType == [pc : {"check"}, conn : Clients, left : SUBSET Names]
RunsType == [pc : {"run"}, db : Dbs, left : Nat]
ExecType == exec \in {NoExec} \cup ChecksType \cup RunsType

LEMMA TypeParts == TypeOK <=> KeyspaceTypeOK /\ ConnType /\ ExecType
  BY DEF TypeOK, ConnType, ExecType, ChecksType, RunsType

LEMMA ExecCases ==
  ASSUME ExecType
  PROVE  /\ exec.pc = "check" => exec \in ChecksType
         /\ exec.pc = "run" => exec \in RunsType
  BY DEF ExecType, ChecksType, RunsType, NoExec

LEMMA EndTransactionType ==
  ASSUME ConnType, NEW c \in Clients, EndTransaction(c), db_index' \in [Clients -> Dbs]
  PROVE  ConnType'
  BY TransactionsAssumption DEF ConnType, EndTransaction, ForgetWatches, NoWatches

LEMMA TrackType ==
  ASSUME ConnType, Track, UNCHANGED connVars
  PROVE  ConnType'
  BY DEF ConnType, Track, connVars

(* Requests that leave the keyspace alone.                                 *)
LEMMA ConnStepType ==
  ASSUME TypeInv, NEW c \in Clients,
         \/ handle_multi(c) \/ queue_command(c) \/ handle_discard(c)
         \/ handle_exec(c) \/ remove_connection(c)
         \/ \E db \in Dbs : handle_select(c, db)
  PROVE  TypeInv'
  <1> USE DEF TypeInv
  <1>1. KeyspaceTypeOK /\ ConnType /\ ExecType
    BY TypeParts
  <1>2. UNCHANGED keyspaceVars
    BY DEF handle_multi, queue_command, handle_discard, handle_exec, remove_connection, handle_select
  <1>3. KeyspaceTypeOK' /\ NoEmptyCollection'
    BY <1>1, <1>2 DEF keyspaceVars, shardVars, KeyspaceTypeOK, NoEmptyCollection
  <1>4. ConnType' /\ ExecType'
    <2>1. CASE handle_multi(c)
      BY <1>1, <2>1 DEF handle_multi, ConnType, ExecType, history
    <2>2. CASE queue_command(c)
      BY <1>1, <2>2 DEF queue_command, ConnType, ExecType, history
    <2>3. CASE handle_discard(c)
      BY <1>1, <2>3, EndTransactionType DEF handle_discard, ConnType, ExecType
    <2>4. CASE handle_exec(c)
      <3>1. ExecType'
        BY <2>4 DEF handle_exec, ExecType, ChecksType, Watches
      <3>2. QED
        BY <1>1, <2>4, <3>1 DEF handle_exec, ConnType, connVars, history
    <2>5. CASE remove_connection(c)
      <3>1. db_index' \in [Clients -> Dbs]
        BY <1>1, <2>5, TransactionsAssumption DEF remove_connection, ConnType
      <3>2. QED
        BY <1>1, <2>5, <3>1, EndTransactionType DEF remove_connection, ExecType
    <2>6. CASE \E db \in Dbs : handle_select(c, db)
      BY <1>1, <2>6 DEF handle_select, ConnType, ExecType, history
    <2>7. QED
      BY <2>1, <2>2, <2>3, <2>4, <2>5, <2>6
  <1>5. QED
    BY <1>3, <1>4 DEF TypeOK, ConnType, ExecType, ChecksType, RunsType

(* WATCH and UNWATCH.                                                      *)
LEMMA WatchStepType ==
  ASSUME TypeInv, NEW c \in Clients,
         handle_unwatch(c) \/ \E n \in Names : handle_watch(c, n)
  PROVE  TypeInv'
  <1> USE DEF TypeInv
  <1>1. KeyspaceTypeOK /\ ConnType /\ ExecType
    BY TypeParts
  <1>2. UNCHANGED <<shardVars, then, reaper, now, db_index, in_transaction,
                    queued_commands, exec>>
    BY DEF handle_watch, handle_unwatch
  <1>3. active_watchers' \in [DbShard -> Nat] /\ ConnType'
    <2>1. CASE handle_unwatch(c)
      <3>1. Watches(c) \in SUBSET Names
        BY DEF Watches
      <3>2. active_watchers' \in [DbShard -> Nat]
        BY <1>1, <2>1, <3>1, UnregisterType DEF handle_unwatch
      <3>3. ConnType'
        BY <1>1, <1>2, <2>1, TransactionsAssumption
           DEF handle_unwatch, ForgetWatches, NoWatches, ConnType
      <3>4. QED
        BY <3>2, <3>3
    <2>2. ASSUME NEW n \in Names, handle_watch(c, n)
          PROVE  active_watchers' \in [DbShard -> Nat] /\ ConnType'
      <3> DEFINE k == <<db_index[c], n>>
                 s == ShardOf(k)
      <3>1. k \in Key /\ key_counters[k] \in Nat /\ s \in DbShard
        BY <1>1, ShardOfType DEF Key, ConnType, KeyspaceTypeOK
      <3>2. active_watchers' = [active_watchers EXCEPT ![s] = @ + 1]
        BY <2>2 DEF handle_watch, register_watch
      <3> HIDE DEF s
      <3>3. active_watchers' \in [DbShard -> Nat]
        BY <1>1, <3>1, <3>2 DEF KeyspaceTypeOK
      <3>4. watched_keys' = [watched_keys EXCEPT ![c][n] = key_counters[k]]
        BY <2>2 DEF handle_watch
      <3>5. watched_keys' \in [Clients -> [Names -> Nat \cup {NotWatched}]]
        BY <1>1, <3>1, <3>4 DEF ConnType
      <3>6. watch_db' = [watch_db EXCEPT ![c][n] = db_index[c]] /\ db_index[c] \in Dbs
        BY <1>1, <2>2 DEF handle_watch, ConnType
      <3>7. watch_db' \in [Clients -> [Names -> Dbs]]
        BY <1>1, <3>6 DEF ConnType
      <3>8. touched' \subseteq Clients \X Names
        BY <1>1, <2>2 DEF handle_watch, ConnType
      <3>9. QED
        BY <1>1, <1>2, <3>3, <3>5, <3>7, <3>8 DEF ConnType
    <2>3. QED
      BY <2>1, <2>2
  <1>4. KeyspaceTypeOK' /\ NoEmptyCollection' /\ ExecType'
    BY <1>1, <1>2, <1>3 DEF shardVars, KeyspaceTypeOK, NoEmptyCollection, ExecType
  <1>5. QED
    BY <1>3, <1>4 DEF TypeOK, ConnType, ExecType, ChecksType, RunsType

(* The steps of EXEC that leave the keyspace alone.                        *)
LEMMA ExecStepType ==
  ASSUME TypeInv, exec_start \/ exec_end \/ \E n \in Names : exec_check(n)
  PROVE  TypeInv'
  <1> USE DEF TypeInv
  <1>1. KeyspaceTypeOK /\ ConnType /\ ExecType
    BY TypeParts
  <1>2. UNCHANGED <<keyspaceVars, db_index>>
    BY DEF exec_start, exec_end, exec_check, connVars
  <1>3. KeyspaceTypeOK' /\ NoEmptyCollection'
    BY <1>1, <1>2 DEF keyspaceVars, shardVars, KeyspaceTypeOK, NoEmptyCollection
  <1>4. ConnType' /\ ExecType'
    <2>1. CASE exec_end
      BY <1>1, <2>1 DEF exec_end, connVars, history, ConnType, ExecType
    <2>2. CASE exec_start
      <3>1. exec \in ChecksType
        BY <1>1, <2>2, ExecCases DEF exec_start
      <3>2. exec' \in RunsType
        BY <1>1, <2>2, <3>1 DEF exec_start, ConnType, ChecksType, RunsType
      <3>3. exec.conn \in Clients /\ EndTransaction(exec.conn)
        BY <2>2, <3>1 DEF exec_start, ChecksType
      <3>4. ConnType'
        BY <1>1, <1>2, <3>3, EndTransactionType DEF ConnType
      <3>5. QED
        BY <3>2, <3>4 DEF ExecType
    <2>3. ASSUME NEW n \in Names, exec_check(n)
          PROVE  ConnType' /\ ExecType'
      <3>1. exec \in ChecksType
        BY <1>1, <2>3, ExecCases DEF exec_check
      <3>2. CASE Modified(exec.conn, n)
        BY <1>1, <1>2, <2>3, <3>1, <3>2, EndTransactionType
           DEF exec_check, ChecksType, ConnType, ExecType
      <3>3. CASE ~Modified(exec.conn, n)
        <4>1. exec' = [exec EXCEPT !.left = @ \ {n}]
          BY <2>3, <3>3 DEF exec_check
        <4>2. ExecType'
          BY <3>1, <4>1 DEF ExecType, ChecksType
        <4>3. QED
          BY <1>1, <1>2, <2>3, <3>3, <4>2 DEF exec_check, ConnType, history
      <3>4. QED
        BY <3>2, <3>3
    <2>4. QED
      BY <2>1, <2>2, <2>3
  <1>5. QED
    BY <1>3, <1>4 DEF TypeOK, ConnType, ExecType, ChecksType, RunsType

(* Every step of the engine, on behalf of whom it may be.                  *)
LEMMA StorageStep ==
  ASSUME TypeInv,
         \/ exec_command \/ Finish \/ Reap \/ Background
         \/ \E c \in Clients : process_normal_command(c)
  PROVE  EngineStep /\ Track /\ UNCHANGED connVars /\ UNCHANGED active_watchers
  <1> USE DEF TypeInv
  <1>1. KeyspaceInv /\ ConnType /\ ExecType
    BY TypeParts DEF KeyspaceInv
  <1>2. CASE exec_command
    <2>1. exec.db \in Dbs
      BY <1>1, <1>2, ExecCases DEF exec_command, RunsType
    <2>2. PICK n \in Names : Command(<<exec.db, n>>)
      BY <1>2 DEF exec_command
    <2>3. <<exec.db, n>> \in Key
      BY <2>1 DEF Key
    <2>4. QED
      BY <1>1, <1>2, <2>2, <2>3, CommandStep DEF exec_command, Command
  <1>3. ASSUME NEW c \in Clients, process_normal_command(c)
        PROVE  EngineStep /\ Track /\ UNCHANGED connVars /\ UNCHANGED active_watchers
    <2>1. db_index[c] \in Dbs
      BY <1>1 DEF ConnType
    <2>2. PICK n \in Names : Command(<<db_index[c], n>>)
      BY <1>3 DEF process_normal_command
    <2>3. <<db_index[c], n>> \in Key
      BY <2>1 DEF Key
    <2>4. QED
      BY <1>1, <1>3, <2>2, <2>3, CommandStep DEF process_normal_command, Command
  <1>4. CASE Finish
    BY <1>1, <1>4, FinishStep DEF Finish, FinishCommand
  <1>5. CASE Reap
    BY <1>1, <1>5, ReaperStep DEF Reap, expiration_cleanup_loop, reaper_collect, reaper_delete
  <1>6. CASE Background
    BY <1>1, <1>6, BackgroundStep DEF Background, SnapshotRead, Tick
  <1>7. QED
    BY <1>2, <1>3, <1>4, <1>5, <1>6

LEMMA StorageStepType ==
  ASSUME TypeInv,
         \/ exec_command \/ Finish \/ Reap \/ Background
         \/ \E c \in Clients : process_normal_command(c)
  PROVE  TypeInv'
  <1>1. KeyspaceInv' /\ Track /\ UNCHANGED connVars
    BY StorageStep DEF EngineStep
  <1>2. ConnType /\ ExecType
    BY TypeParts DEF TypeInv
  <1>3. ConnType'
    BY <1>1, <1>2, TrackType
  <1>4. ExecType'
    <2>1. CASE exec_command
      <3>1. exec \in RunsType /\ exec.left > 0 /\ exec' = [exec EXCEPT !.left = @ - 1]
        BY <1>2, <2>1, ExecCases DEF exec_command
      <3>2. exec.left \in Nat
        BY <3>1 DEF RunsType
      <3>3. exec.left - 1 \in Nat
        BY <3>1, <3>2
      <3>4. QED
        BY <3>1, <3>3 DEF ExecType, RunsType
    <2>2. CASE UNCHANGED exec
      BY <1>2, <2>2 DEF ExecType
    <2>3. QED
      BY <2>1, <2>2 DEF Finish, Reap, Background, process_normal_command
  <1>5. QED
    BY <1>1, <1>3, <1>4
       DEF TypeInv, TypeOK, KeyspaceInv, ConnType, ExecType, ChecksType, RunsType

(* For every workload the state keeps its type: no counter of watchers, no *)
(* queue and no EXEC in progress leaves its domain, whatever the clients   *)
(* and the background threads do (connection.rs, transactions.rs).         *)
THEOREM TransactionsType == Spec => []TypeInv
  <1>1. Init => TypeInv
    BY KeyspaceInitInv, TransactionsAssumption
       DEF Init, TypeInv, TypeOK, KeyspaceInv, NoWatches, NotWatched
  <1>2. TypeInv /\ [Next]_vars => TypeInv'
    <2> SUFFICES ASSUME TypeInv, [Next]_vars PROVE TypeInv'
      OBVIOUS
    <2>1. CASE UNCHANGED vars
      BY <2>1 DEF vars, keyspaceVars, shardVars, connVars, history, TypeInv, TypeOK,
                  KeyspaceTypeOK, NoEmptyCollection
    <2>2. CASE Next
      BY <2>2, ConnStepType, WatchStepType, ExecStepType, StorageStepType DEF Next, ExecStep
    <2>3. QED
      BY <2>1, <2>2
  <1>3. QED
    BY <1>1, <1>2, PTL DEF Spec

-----------------------------------------------------------------------------
(* Isolation *)

(* The workloads for which EXEC is isolated: no SELECT, and every command  *)
(* marks the keys whose contents it changes.                               *)
Plain == Workload \cap (Unmarked \cup {"select"}) = {}

(* Every connection stays in the database where it watches. *)
OneDatabase == \A c \in Clients : db_index[c] = 0 /\ \A n \in Names : watch_db[c][n] = 0

(* A key has no number that its shard has not given out. *)
Ordered == \A k \in Key : key_counters[k] <= global_counter[ShardOf(k)]

(* A baseline is a number that the key had. *)
Baselines == \A c \in Clients : \A n \in Watches(c) : watched_keys[c][n] <= key_counters[<<0, n>>]

(* A watched key that got other contents also got a new number. *)
TouchedMarked ==
  \A c \in Clients : \A n \in Watches(c) :
    <<c, n>> \in touched => watched_keys[c][n] < key_counters[<<0, n>>]

(* What EXEC has checked already was clean. *)
CheckedClean ==
  exec.pc = "check" => \A n \in Watches(exec.conn) \ exec.left : <<exec.conn, n>> \notin touched

IsoInv ==
  /\ then.op # "rename" /\ OneDatabase /\ Ordered /\ Baselines
  /\ WatchesRegistered /\ TouchedMarked /\ CheckedClean

(* The watches in a shard can be counted.                                  *)
LEMMA WatchesFinite ==
  \A s : IsFiniteSet(WatchesIn(s)) /\ Cardinality(WatchesIn(s)) \in Nat
  <1>1. IsFiniteSet(Clients \X Names)
    BY KeyspaceAssumption, TransactionsAssumption, FS_Product
  <1>2. \A s : WatchesIn(s) \in SUBSET (Clients \X Names)
    BY DEF WatchesIn
  <1>3. QED
    BY <1>1, <1>2, FS_Subset, FS_CardinalityType

(* If the watches do not grow and the counters stay, they still suffice.   *)
LEMMA FewerWatches ==
  ASSUME TypeInv, WatchesRegistered, UNCHANGED active_watchers,
         \A s \in DbShard : WatchesIn(s)' \subseteq WatchesIn(s)
  PROVE  WatchesRegistered'
  <1>1. \A s \in DbShard : Cardinality(WatchesIn(s)') <= Cardinality(WatchesIn(s))
                          /\ Cardinality(WatchesIn(s)') \in Nat
    BY WatchesFinite, FS_Subset, FS_CardinalityType
  <1>2. \A s \in DbShard : active_watchers[s] \in Nat
    BY DEF TypeInv, TypeOK, KeyspaceTypeOK
  <1>3. QED
    BY <1>1, <1>2, WatchesFinite DEF WatchesRegistered

(* A watched key lies in a shard that counts a watcher, so marking it is   *)
(* not skipped.                                                            *)
LEMMA WatchedIsCounted ==
  ASSUME TypeInv, IsoInv, NEW c \in Clients, NEW n \in Watches(c)
  PROVE  active_watchers[ShardOf(<<0, n>>)] > 0
  <1> DEFINE s == ShardOf(<<0, n>>)
  <1>1. n \in Names /\ <<0, n>> \in Key
    BY TransactionsAssumption DEF Watches, Key
  <1>2. s \in DbShard
    BY <1>1, ShardOfType
  <1>3. <<c, n>> \in WatchesIn(s)
    BY <1>1 DEF WatchesIn, IsoInv, OneDatabase
  <1>4. Cardinality(WatchesIn(s)) # 0
    BY <1>3, WatchesFinite, FS_EmptySet
  <1> HIDE DEF s
  <1>5. active_watchers[s] > 0
    BY <1>2, <1>4, WatchesFinite
       DEF IsoInv, WatchesRegistered, TypeInv, TypeOK, KeyspaceTypeOK
  <1>6. QED
    BY <1>5 DEF s

(* The numbers of a key only grow.                                         *)
LEMMA CountersOrdered ==
  ASSUME KeyspaceTypeOK, KeyspaceTypeOK', Ordered, CountersGrow
  PROVE  Ordered' /\ \A k \in Key : key_counters'[k] >= key_counters[k]
  <1> SUFFICES ASSUME NEW k \in Key
               PROVE  /\ key_counters'[k] <= global_counter'[ShardOf(k)]
                      /\ key_counters'[k] >= key_counters[k]
    BY DEF Ordered, ShardOf
  <1> DEFINE s == ShardOf(k)
  <1>1. s \in DbShard
    BY ShardOfType
  <1>2. /\ key_counters[k] \in Nat /\ key_counters'[k] \in Nat
        /\ global_counter[s] \in Nat /\ global_counter'[s] \in Nat
    BY <1>1 DEF KeyspaceTypeOK
  <1>3. /\ key_counters[k] <= global_counter[s] /\ global_counter'[s] >= global_counter[s]
        /\ \/ key_counters'[k] = key_counters[k]
           \/ /\ key_counters'[k] = global_counter[s] + 1
              /\ global_counter'[s] = global_counter[s] + 1
    BY <1>1 DEF Ordered, CountersGrow
  <1> HIDE DEF s
  <1>4. key_counters'[k] <= global_counter'[s] /\ key_counters'[k] >= key_counters[k]
    BY <1>2, <1>3
  <1>5. QED
    BY <1>4 DEF s

(* A step of the engine, by a command, a transaction or a thread.          *)
LEMMA StorageStepIso ==
  ASSUME TypeInv, IsoInv, Plain,
         \/ exec_command \/ Finish \/ Reap \/ Background
         \/ \E c \in Clients : process_normal_command(c)
  PROVE  IsoInv'
  <1>1. /\ EngineStep /\ Track /\ UNCHANGED connVars /\ UNCHANGED active_watchers
        /\ TypeInv'
    BY StorageStep, StorageStepType
  <1>2. ChangesMarked /\ then'.op # "rename"
    BY <1>1 DEF EngineStep, IsoInv, Plain
  <1>3. UNCHANGED <<watched_keys, db_index, watch_db>>
    BY <1>1 DEF connVars, Track
  <1>4. Ordered' /\ \A k \in Key : key_counters'[k] >= key_counters[k]
    BY <1>1, CountersOrdered DEF EngineStep, IsoInv, TypeInv, TypeOK
  <1>5. /\ \A c \in Clients : \A n \in Names :
             watched_keys[c][n] \in Nat \cup {NotWatched}
        /\ \A k \in Key : key_counters[k] \in Nat /\ key_counters'[k] \in Nat
        /\ \A n \in Names : <<0, n>> \in Key
    BY <1>1, TransactionsAssumption DEF TypeInv, TypeOK, KeyspaceTypeOK, Key
  <1>6. \A c \in Clients : \A n \in Watches(c) : n \in Names /\ watched_keys[c][n] \in Nat
    BY <1>5 DEF Watches
  <1>7. \A c \in Clients : Watches(c)' = Watches(c)
    BY <1>3 DEF Watches
  <1>8. OneDatabase'
    BY <1>3 DEF IsoInv, OneDatabase
  <1>9. WatchesRegistered'
    <2>1. \A s \in DbShard : WatchesIn(s)' \subseteq WatchesIn(s)
      BY <1>3 DEF WatchesIn, Watches, ShardOf
    <2>2. QED
      BY <1>1, <2>1, FewerWatches DEF IsoInv
  <1>10. Baselines'
    <2> SUFFICES ASSUME NEW c \in Clients, NEW n \in Watches(c)
                 PROVE  watched_keys[c][n] <= key_counters'[<<0, n>>]
      BY <1>3, <1>7 DEF Baselines
    <2>1. watched_keys[c][n] <= key_counters[<<0, n>>]
      BY DEF IsoInv, Baselines
    <2>2. QED
      BY <1>4, <1>5, <1>6, <2>1
  <1>11. TouchedMarked'
    <2> SUFFICES ASSUME NEW c \in Clients, NEW n \in Watches(c), <<c, n>> \in touched'
                 PROVE  watched_keys[c][n] < key_counters'[<<0, n>>]
      BY <1>3, <1>7 DEF TouchedMarked
    <2>1. /\ <<0, n>> \in Key /\ watched_keys[c][n] \in Nat
          /\ key_counters[<<0, n>>] \in Nat /\ key_counters'[<<0, n>>] \in Nat
          /\ key_counters'[<<0, n>>] >= key_counters[<<0, n>>]
      BY <1>4, <1>5, <1>6
    <2>2. CASE <<c, n>> \in touched
      <3>1. watched_keys[c][n] < key_counters[<<0, n>>]
        BY <2>2 DEF IsoInv, TouchedMarked
      <3>2. QED
        BY <2>1, <3>1
    <2>3. CASE <<c, n>> \notin touched
      <3> DEFINE g == global_counter[ShardOf(<<0, n>>)]
      <3>1. Changed(<<0, n>>)
        <4>1. Pending(c, n) /\ Changed(<<watch_db[c][n], n>>)
          BY <1>1, <2>3 DEF Track
        <4>2. QED
          BY <1>6, <4>1 DEF IsoInv, OneDatabase
      <3>2. active_watchers[ShardOf(<<0, n>>)] # 0
        BY WatchedIsCounted
      <3>3. key_counters'[<<0, n>>] = g + 1
        BY <1>2, <2>1, <3>1, <3>2 DEF ChangesMarked
      <3>4. key_counters[<<0, n>>] <= g /\ g \in Nat
        BY <2>1, ShardOfType DEF IsoInv, Ordered, TypeInv, TypeOK, KeyspaceTypeOK
      <3>5. watched_keys[c][n] <= key_counters[<<0, n>>]
        BY DEF IsoInv, Baselines
      <3> HIDE DEF g
      <3>6. QED
        BY <2>1, <3>3, <3>4, <3>5
    <2>4. QED
      BY <2>2, <2>3
  <1>12. CheckedClean'
    <2>1. CASE exec_command
      <3>1. exec' = [exec EXCEPT !.left = @ - 1] /\ exec.pc = "run" /\ exec \in RunsType
        BY <2>1, TypeParts, ExecCases DEF exec_command, TypeInv
      <3>2. exec'.pc = "run"
        BY <3>1 DEF RunsType
      <3>3. QED
        BY <3>2 DEF CheckedClean
    <2>2. CASE UNCHANGED exec
      <3> SUFFICES ASSUME exec.pc = "check", NEW n \in Watches(exec.conn) \ exec.left
                   PROVE  <<exec.conn, n>> \notin touched'
        BY <1>3, <2>2 DEF CheckedClean, Watches
      <3>1. ~Pending(exec.conn, n)
        BY DEF Pending
      <3>2. <<exec.conn, n>> \notin touched
        BY DEF IsoInv, CheckedClean
      <3>3. QED
        BY <1>1, <3>1, <3>2 DEF Track
    <2>3. QED
      BY <2>1, <2>2 DEF Finish, Reap, Background, process_normal_command
  <1>13. QED
    BY <1>2, <1>4, <1>8, <1>9, <1>10, <1>11, <1>12 DEF IsoInv

(* The connection forgets its watches.                                     *)
LEMMA ForgottenWatches ==
  ASSUME TypeInv, NEW c \in Clients, ForgetWatches(c)
  PROVE  \A s : WatchesIn(s)' = WatchesIn(s) \ ({c} \X Names)
  <1>1. /\ watched_keys' = [watched_keys EXCEPT ![c] = NoWatches]
        /\ watch_db' = [watch_db EXCEPT ![c] = [n \in Names |-> 0]]
        /\ watched_keys \in [Clients -> [Names -> Nat \cup {NotWatched}]]
        /\ watch_db \in [Clients -> [Names -> Dbs]]
    BY DEF ForgetWatches, TypeInv, TypeOK
  <1>2. Watches(c)' = {}
    BY <1>1 DEF Watches, NoWatches
  <1>3. \A d \in Clients : d # c => watch_db'[d] = watch_db[d] /\ Watches(d)' = Watches(d)
    BY <1>1 DEF Watches
  <1>4. QED
    BY <1>2, <1>3 DEF WatchesIn, ShardOf

(* Forgetting watches is safe as long as the counters suffice for the rest. *)
LEMMA ForgetIso ==
  ASSUME TypeInv, IsoInv, NEW c \in Clients, ForgetWatches(c), WatchesRegistered',
         UNCHANGED <<key_counters, global_counter, then>>,
         \A d \in Clients : db_index'[d] = 0,
         exec'.pc # "check" \/ (UNCHANGED exec /\ exec.conn # c)
  PROVE  IsoInv'
  <1>1. /\ watched_keys' = [watched_keys EXCEPT ![c] = NoWatches]
        /\ watch_db' = [watch_db EXCEPT ![c] = [n \in Names |-> 0]]
        /\ touched' = touched \ ({c} \X Names)
    BY DEF ForgetWatches
  <1>2. /\ watched_keys \in [Clients -> [Names -> Nat \cup {NotWatched}]]
        /\ watch_db \in [Clients -> [Names -> Dbs]]
    BY DEF TypeInv, TypeOK
  <1>3. Watches(c)' = {}
    BY <1>1, <1>2 DEF Watches, NoWatches
  <1>4. \A d \in Clients : d # c => /\ watched_keys'[d] = watched_keys[d]
                                   /\ watch_db'[d] = watch_db[d]
                                   /\ Watches(d)' = Watches(d)
    BY <1>1, <1>2 DEF Watches
  <1>5. OneDatabase'
    BY <1>1, <1>2, <1>4 DEF IsoInv, OneDatabase
  <1>7. Ordered' /\ Baselines' /\ TouchedMarked'
    BY <1>1, <1>3, <1>4 DEF IsoInv, Ordered, Baselines, TouchedMarked, ShardOf
  <1>8. CheckedClean'
    BY <1>1, <1>3, <1>4 DEF IsoInv, CheckedClean, Watches
  <1>9. QED
    BY <1>5, <1>7, <1>8 DEF IsoInv

(* A request that touches neither watches nor keys.                        *)
LEMMA QuietIso ==
  ASSUME TypeInv, IsoInv,
         UNCHANGED <<keyspaceVars, db_index, watched_keys, history>>, CheckedClean'
  PROVE  IsoInv'
  <1>1. /\ UNCHANGED <<key_counters, global_counter, active_watchers, then>>
        /\ UNCHANGED <<db_index, watched_keys, watch_db, touched>>
    BY DEF keyspaceVars, shardVars, history
  <1>2. OneDatabase' /\ Ordered' /\ Baselines' /\ TouchedMarked'
    BY <1>1 DEF IsoInv, OneDatabase, Ordered, Baselines, TouchedMarked, Watches, ShardOf
  <1>3. WatchesRegistered'
    <2>1. \A s \in DbShard : WatchesIn(s)' \subseteq WatchesIn(s)
      BY <1>1 DEF WatchesIn, Watches, ShardOf
    <2>2. QED
      BY <1>1, <2>1, FewerWatches DEF IsoInv
  <1>4. QED
    BY <1>1, <1>2, <1>3 DEF IsoInv

LEMMA ConnStepIso ==
  ASSUME TypeInv, IsoInv, Plain, NEW c \in Clients,
         \/ handle_multi(c) \/ queue_command(c) \/ handle_discard(c)
         \/ handle_exec(c) \/ remove_connection(c)
         \/ \E db \in Dbs : handle_select(c, db)
  PROVE  IsoInv'
  <1>1. CASE handle_multi(c) \/ queue_command(c)
    <2>1. UNCHANGED <<keyspaceVars, db_index, watched_keys, exec, history>>
      BY <1>1 DEF handle_multi, queue_command
    <2>2. CheckedClean'
      BY <2>1 DEF IsoInv, CheckedClean, Watches, history
    <2>3. QED
      BY <2>1, <2>2, QuietIso
  <1>2. CASE handle_discard(c) \/ remove_connection(c)
    <2>1. /\ UNCHANGED <<keyspaceVars, exec>> /\ ForgetWatches(c) /\ exec = NoExec
      BY <1>2 DEF handle_discard, remove_connection, EndTransaction, Idle
    <2>2. \A d \in Clients : db_index'[d] = 0
      BY <1>2 DEF handle_discard, remove_connection, IsoInv, OneDatabase, TypeInv, TypeOK
    <2>3. exec'.pc # "check"
      BY <2>1 DEF NoExec
    <2>4. WatchesRegistered'
      BY <2>1, ForgottenWatches, FewerWatches DEF IsoInv, keyspaceVars
    <2>5. QED
      BY <2>1, <2>2, <2>3, <2>4, ForgetIso DEF keyspaceVars, shardVars
  <1>3. CASE handle_exec(c)
    <2>1. CheckedClean'
      BY <1>3 DEF handle_exec, CheckedClean, Watches, connVars
    <2>2. QED
      BY <1>3, <2>1, QuietIso DEF handle_exec, connVars
  <1>4. ~\E db \in Dbs : handle_select(c, db)
    BY DEF handle_select, On, Plain
  <1>5. QED
    BY <1>1, <1>2, <1>3, <1>4

(* UNWATCH takes back what the connection had registered: a shard loses as *)
(* many watchers as it loses watches, and its counter does not wrap.       *)
LEMMA UnwatchIso ==
  ASSUME TypeInv, IsoInv, NEW c \in Clients, handle_unwatch(c)
  PROVE  IsoInv'
  <1>1. /\ ForgetWatches(c) /\ exec = NoExec
        /\ UNCHANGED <<key_counters, global_counter, then, db_index, exec>>
        /\ unregister_watches({<<0, n>> : n \in Watches(c)})
    BY DEF handle_unwatch, Idle, shardVars, IsoInv, OneDatabase
  <1>2. WatchesRegistered'
    <2> SUFFICES ASSUME NEW s \in DbShard
                 PROVE  active_watchers'[s] >= Cardinality(WatchesIn(s)')
      BY DEF WatchesRegistered
    <2> DEFINE Ks == Unregistered(0, Watches(c), s)
               D == WatchesIn(s) \cap ({c} \X Names)
               f == [k \in Ks |-> <<c, k[2]>>]
    <2>1. f \in Injection(Ks, D)
      <3>1. f \in [Ks -> D]
        BY DEF Unregistered, WatchesIn, Watches, IsoInv, OneDatabase
      <3>2. \A a, b \in Ks : f[a] = f[b] => a = b
        BY DEF Unregistered
      <3>3. QED
        BY <3>1, <3>2 DEF Injection, IsInjective
    <2>2. active_watchers'[s] = WrapSub(active_watchers[s], Cardinality(Ks))
      BY <1>1 DEF unregister_watches, Unregistered
    <2>3. WatchesIn(s)' = WatchesIn(s) \ ({c} \X Names)
      BY <1>1, ForgottenWatches
    <2> HIDE DEF Ks, D, f
    <2>4. IsFiniteSet(D) /\ Cardinality(D) \in Nat
      BY WatchesFinite, FS_Subset, FS_CardinalityType DEF D
    <2>5. IsFiniteSet(Ks) /\ Cardinality(Ks) \in Nat /\ Cardinality(Ks) <= Cardinality(D)
      BY <2>1, <2>4, FS_Injection, FS_CardinalityType
    <2>6. Cardinality(WatchesIn(s)') = Cardinality(WatchesIn(s)) - Cardinality(D)
      BY <2>3, WatchesFinite, FS_Difference DEF D
    <2>7. Cardinality(WatchesIn(s)) \in Nat /\ Cardinality(D) <= Cardinality(WatchesIn(s))
      BY WatchesFinite, FS_Subset DEF D
    <2>8. active_watchers[s] \in Nat /\ active_watchers[s] >= Cardinality(WatchesIn(s))
      BY DEF IsoInv, WatchesRegistered, TypeInv, TypeOK, KeyspaceTypeOK
    <2>9. QED
      BY <2>2, <2>4, <2>5, <2>6, <2>7, <2>8 DEF WrapSub
  <1>3. exec'.pc # "check" /\ \A d \in Clients : db_index'[d] = 0
    BY <1>1 DEF NoExec, IsoInv, OneDatabase
  <1>4. QED
    BY <1>1, <1>2, <1>3, ForgetIso

(* WATCH registers the key before it is watched.                           *)
LEMMA WatchIso ==
  ASSUME TypeInv, IsoInv, NEW c \in Clients, NEW n \in Names, handle_watch(c, n)
  PROVE  IsoInv'
  <1> DEFINE k == <<0, n>>
             t == ShardOf(k)
  <1>1. /\ k \in Key /\ t \in DbShard
        /\ watched_keys \in [Clients -> [Names -> Nat \cup {NotWatched}]]
        /\ watch_db \in [Clients -> [Names -> Dbs]]
        /\ key_counters[k] \in Nat /\ active_watchers \in [DbShard -> Nat]
    BY ShardOfType, TransactionsAssumption DEF TypeInv, TypeOK, KeyspaceTypeOK, Key
  <1>2. /\ active_watchers' = [active_watchers EXCEPT ![t] = @ + 1]
        /\ watched_keys' = [watched_keys EXCEPT ![c][n] = key_counters[k]]
        /\ watch_db' = [watch_db EXCEPT ![c][n] = 0]
        /\ touched' = touched \ {<<c, n>>}
        /\ UNCHANGED <<key_counters, global_counter, then, db_index, exec>>
        /\ exec = NoExec
    BY DEF handle_watch, register_watch, Idle, shardVars, IsoInv, OneDatabase
  <1>3. /\ watched_keys'[c][n] = key_counters[k]
        /\ \A d \in Clients, m \in Names : <<d, m>> # <<c, n>> =>
             watched_keys'[d][m] = watched_keys[d][m]
        /\ \A d \in Clients, m \in Names : watch_db[d][m] = 0 => watch_db'[d][m] = 0
    BY <1>1, <1>2
  <1>4. OneDatabase' /\ Ordered' /\ CheckedClean'
    BY <1>2, <1>3 DEF IsoInv, OneDatabase, Ordered, CheckedClean, NoExec, ShardOf
  <1>5. Baselines' /\ TouchedMarked'
    <2> SUFFICES ASSUME NEW d \in Clients, NEW m \in Names, watched_keys'[d][m] # NotWatched
                 PROVE  /\ watched_keys'[d][m] <= key_counters[<<0, m>>]
                        /\ <<d, m>> \in touched' => watched_keys'[d][m] < key_counters[<<0, m>>]
      BY <1>2 DEF Baselines, TouchedMarked, Watches
    <2>1. CASE <<d, m>> = <<c, n>>
      BY <1>1, <1>2, <1>3, <2>1
    <2>2. CASE <<d, m>> # <<c, n>>
      <3>1. watched_keys'[d][m] = watched_keys[d][m] /\ m \in Watches(d)
        BY <1>3, <2>2 DEF Watches
      <3>2. QED
        BY <1>2, <3>1 DEF IsoInv, Baselines, TouchedMarked
    <2>3. QED
      BY <2>1, <2>2
  <1>6. WatchesRegistered'
    <2> SUFFICES ASSUME NEW s \in DbShard
                 PROVE  active_watchers'[s] >= Cardinality(WatchesIn(s)')
      BY DEF WatchesRegistered
    <2>1. WatchesIn(s)' \subseteq WatchesIn(s) \cup {<<c, n>>}
      BY <1>3, <1>4 DEF WatchesIn, Watches, ShardOf, IsoInv, OneDatabase
    <2>2. s # t => WatchesIn(s)' \subseteq WatchesIn(s)
      BY <1>3, <1>4 DEF WatchesIn, Watches, ShardOf, IsoInv, OneDatabase
    <2>3. /\ Cardinality(WatchesIn(s)) \in Nat /\ active_watchers[s] \in Nat
          /\ active_watchers[s] >= Cardinality(WatchesIn(s))
      BY <1>1, WatchesFinite DEF IsoInv, WatchesRegistered
    <2>4. CASE s = t
      <3>1. Cardinality(WatchesIn(s) \cup {<<c, n>>}) \in {Cardinality(WatchesIn(s)), Cardinality(WatchesIn(s)) + 1}
            /\ IsFiniteSet(WatchesIn(s) \cup {<<c, n>>})
        BY WatchesFinite, FS_AddElement
      <3>2. Cardinality(WatchesIn(s)') <= Cardinality(WatchesIn(s) \cup {<<c, n>>})
            /\ Cardinality(WatchesIn(s)') \in Nat
        BY <2>1, <3>1, FS_Subset, FS_CardinalityType
      <3>3. active_watchers'[s] = active_watchers[s] + 1
        BY <1>1, <1>2, <2>4
      <3>4. QED
        BY <2>3, <3>1, <3>2, <3>3
    <2>5. CASE s # t
      <3>1. Cardinality(WatchesIn(s)') <= Cardinality(WatchesIn(s))
            /\ Cardinality(WatchesIn(s)') \in Nat
        BY <2>2, <2>5, WatchesFinite, FS_Subset, FS_CardinalityType
      <3>2. active_watchers'[s] = active_watchers[s]
        BY <1>1, <1>2, <2>5
      <3>3. QED
        BY <2>3, <3>1, <3>2
    <2>6. QED
      BY <2>4, <2>5
  <1>7. QED
    BY <1>2, <1>4, <1>5, <1>6 DEF IsoInv

(* A key that passes its check has the number it had when it was watched,  *)
(* so it was not touched; a key that does not pass ends the transaction.   *)
LEMMA ExecStepIso ==
  ASSUME TypeInv, IsoInv, exec_start \/ exec_end \/ \E n \in Names : exec_check(n)
  PROVE  IsoInv'
  <1>1. ExecType
    BY TypeParts DEF TypeInv
  <1>2. CASE exec_end
    <2>1. CheckedClean'
      BY <1>2 DEF exec_end, CheckedClean, NoExec
    <2>2. QED
      BY <1>2, <2>1, QuietIso DEF exec_end, connVars
  <1>3. ASSUME UNCHANGED <<keyspaceVars, db_index>>, exec \in ChecksType,
               EndTransaction(exec.conn), exec'.pc # "check"
        PROVE  IsoInv'
    <2>1. exec.conn \in Clients /\ ForgetWatches(exec.conn)
      BY <1>3 DEF ChecksType, EndTransaction
    <2>2. WatchesRegistered'
      BY <1>3, <2>1, ForgottenWatches, FewerWatches DEF IsoInv, keyspaceVars
    <2>3. \A d \in Clients : db_index'[d] = 0
      BY <1>3 DEF IsoInv, OneDatabase
    <2>4. QED
      BY <1>3, <2>1, <2>2, <2>3, ForgetIso DEF keyspaceVars, shardVars
  <1>4. CASE exec_start
    <2>1. exec \in ChecksType /\ exec'.pc = "run"
      BY <1>1, <1>4, ExecCases DEF exec_start
    <2>2. QED
      BY <1>3, <1>4, <2>1 DEF exec_start
  <1>5. ASSUME NEW n \in Names, exec_check(n)
        PROVE  IsoInv'
    <2>1. exec \in ChecksType /\ exec.conn \in Clients
      BY <1>1, <1>5, ExecCases DEF exec_check, ChecksType
    <2>2. CASE Modified(exec.conn, n)
      BY <1>3, <1>5, <2>1, <2>2 DEF exec_check, NoExec
    <2>3. CASE ~Modified(exec.conn, n)
      <3>1. /\ exec' = [exec EXCEPT !.left = @ \ {n}]
            /\ UNCHANGED <<keyspaceVars, db_index, watched_keys, history>>
        BY <1>5, <2>3 DEF exec_check
      <3>2. ~(key_counters[<<0, n>>] > watched_keys[exec.conn][n])
        BY <2>1, <2>3 DEF Modified, was_modified_since, IsoInv, OneDatabase
      <3>3. n \in Watches(exec.conn) => <<exec.conn, n>> \notin touched
        <4> SUFFICES ASSUME n \in Watches(exec.conn), <<exec.conn, n>> \in touched
                     PROVE  FALSE
          OBVIOUS
        <4>1. watched_keys[exec.conn][n] < key_counters[<<0, n>>]
          BY <2>1 DEF IsoInv, TouchedMarked
        <4>2. watched_keys[exec.conn][n] \in Int /\ key_counters[<<0, n>>] \in Int
          BY <2>1, TransactionsAssumption
             DEF TypeInv, TypeOK, KeyspaceTypeOK, Key, NotWatched
        <4>3. QED
          BY <3>2, <4>1, <4>2
      <3>4. exec'.conn = exec.conn /\ exec'.left = exec.left \ {n} /\ exec.pc = "check"
        BY <2>1, <3>1 DEF ChecksType
      <3>5. CheckedClean'
        BY <3>1, <3>3, <3>4 DEF IsoInv, CheckedClean, Watches, history
      <3>6. QED
        BY <3>1, <3>5, QuietIso
    <2>4. QED
      BY <2>2, <2>3
  <1>6. QED
    BY <1>2, <1>4, <1>5

(* The inductive invariant, for the workloads in Plain.                    *)
LEMMA IsoInductive ==
  ASSUME Plain
  PROVE  /\ Init => TypeInv /\ IsoInv
         /\ TypeInv /\ IsoInv /\ [Next]_vars => IsoInv'
  <1>1. ASSUME Init PROVE TypeInv /\ IsoInv
    <2>1. TypeInv
      BY <1>1, KeyspaceInitInv, TransactionsAssumption
         DEF Init, TypeInv, TypeOK, KeyspaceInv, NoWatches, NotWatched
    <2>2. \A c \in Clients : Watches(c) = {}
      BY <1>1 DEF Init, Watches, NoWatches
    <2>3. WatchesRegistered
      <3>1. \A s : WatchesIn(s) = {}
        BY <2>2 DEF WatchesIn
      <3>2. QED
        BY <1>1, <3>1, FS_EmptySet DEF Init, KeyspaceInit, WatchesRegistered
    <2>4. Ordered
      BY <1>1, ShardOfType DEF Init, KeyspaceInit, Ordered
    <2>5. QED
      BY <1>1, <2>1, <2>2, <2>3, <2>4
         DEF Init, KeyspaceInit, IsoInv, OneDatabase, Baselines, TouchedMarked,
             CheckedClean, NoCall, NoExec
  <1>2. ASSUME TypeInv, IsoInv, [Next]_vars PROVE IsoInv'
    <2>1. CASE UNCHANGED vars
      <3>1. CheckedClean'
        BY <1>2, <2>1 DEF vars, connVars, history, IsoInv, CheckedClean, Watches
      <3>2. QED
        BY <1>2, <2>1, <3>1, QuietIso DEF vars, connVars
    <2>2. CASE Next
      BY <1>2, <2>2, ConnStepIso, UnwatchIso, WatchIso, ExecStepIso, StorageStepIso
         DEF Next, ExecStep
    <2>3. QED
      BY <1>2, <2>1, <2>2
  <1>3. QED
    BY <1>1, <1>2

(* As long as the clients use neither SELECT nor one of the commands that  *)
(* do not mark what they change, every shard counts at least the watches   *)
(* that the connections hold in it, so mark_key_modified never takes its   *)
(* fast path on a watched key.                                             *)
THEOREM WatchersCounted == ASSUME Plain PROVE Spec => []WatchesRegistered
  <1>1. Init => TypeInv /\ IsoInv
    BY IsoInductive
  <1>2. TypeInv /\ IsoInv /\ [Next]_vars => IsoInv'
    BY IsoInductive
  <1>3. IsoInv => WatchesRegistered
    BY DEF IsoInv
  <1>4. QED
    BY <1>1, <1>2, <1>3, TransactionsType, PTL DEF Spec

(* Under the same condition, for any number of clients, keys, shards and   *)
(* queued commands: EXEC runs its queue only if none of the watched keys   *)
(* got other contents between WATCH and the check in handle_exec, whether  *)
(* by a command, by a transaction, by the expiration thread or by a read   *)
(* of the snapshot thread.                                                 *)
THEOREM ExecIsIsolated == ASSUME Plain PROVE Spec => ExecIsolation
  <1>1. Init => TypeInv /\ IsoInv
    BY IsoInductive
  <1>2. TypeInv /\ IsoInv /\ [Next]_vars => IsoInv'
    BY IsoInductive
  <1>3. IsoInv => [exec_start => \A n \in Watches(exec.conn) : <<exec.conn, n>> \notin touched]_vars
    BY DEF IsoInv, CheckedClean, exec_start
  <1>4. QED
    BY <1>1, <1>2, <1>3, TransactionsType, PTL DEF Spec, ExecIsolation
=============================================================================

---------------------------- MODULE Transactions ----------------------------
(***************************************************************************)
(* Optimistic transactions over the keyspace: MULTI, EXEC, DISCARD, WATCH, *)
(* UNWATCH and SELECT (storage/commands/transactions.rs and handle_exec in *)
(* network/server.rs), composed with the storage engine, its expiration    *)
(* thread and the snapshot thread.                                         *)
(*                                                                         *)
(* All clients are served by one thread.  An EXEC is the one request that  *)
(* takes many engine calls: it checks the watched keys one after the other *)
(* and then runs the queue, and the background threads run in between.     *)
(*                                                                         *)
(* The queue is abstracted to its length: what a queued command does is    *)
(* chosen when it runs, among everything a client may ask for.             *)
(***************************************************************************)
EXTENDS Keyspace

CONSTANTS
  Clients,    \* connections
  MaxQueue,   \* bound on the commands of one transaction
  MaxMarks,   \* bound: no new command once a shard has given out this many numbers
  MaxWatches  \* bound: no WATCH of a shard that has this many registrations

ASSUME TransactionsAssumption ==
  /\ IsFiniteSet(Clients) /\ 0 \in Dbs
  /\ MaxQueue \in Nat /\ MaxMarks \in Nat /\ MaxWatches \in Nat

VARIABLES
  db_index,        \* [Clients -> the selected database]
  in_transaction,  \* [Clients -> BOOLEAN]
  queued_commands, \* [Clients -> length of the queue]
  watched_keys,    \* [Clients -> [Names -> baseline counter or NotWatched]]
  exec,            \* the EXEC in progress
  watch_db,        \* history: the database in which a name was watched
  touched          \* history: the watches <<c, n>> whose key got other contents

connVars == <<db_index, in_transaction, queued_commands, watched_keys>>
history == <<watch_db, touched>>
vars == <<keyspaceVars, connVars, exec, history>>

NotWatched == -1
NoExec == [pc |-> "idle"]
Watches(c) == {n \in Names : watched_keys[c][n] # NotWatched}
NoWatches == [n \in Names |-> NotWatched]

Init ==
  /\ KeyspaceInit
  /\ db_index = [c \in Clients |-> 0]
  /\ in_transaction = [c \in Clients |-> FALSE]
  /\ queued_commands = [c \in Clients |-> 0]
  /\ watched_keys = [c \in Clients |-> NoWatches]
  /\ exec = NoExec
  /\ watch_db = [c \in Clients |-> [n \in Names |-> 0]]
  /\ touched = {}

(* The main thread takes a new request. *)
Idle == /\ exec = NoExec
        /\ then = NoCall
        /\ \A s \in DbShard : global_counter[s] < MaxMarks

handle_multi(c) ==
  /\ Idle /\ ~in_transaction[c]
  /\ in_transaction' = [in_transaction EXCEPT ![c] = TRUE]
  /\ queued_commands' = [queued_commands EXCEPT ![c] = 0]
  /\ UNCHANGED <<keyspaceVars, db_index, watched_keys, exec, history>>

queue_command(c) ==
  /\ Idle /\ in_transaction[c] /\ queued_commands[c] < MaxQueue
  /\ queued_commands' = [queued_commands EXCEPT ![c] = @ + 1]
  /\ UNCHANGED <<keyspaceVars, db_index, in_transaction, watched_keys, exec, history>>

ForgetWatches(c) ==
  /\ watched_keys' = [watched_keys EXCEPT ![c] = NoWatches]
  /\ watch_db' = [watch_db EXCEPT ![c] = [n \in Names |-> 0]]
  /\ touched' = touched \ ({c} \X Names)

(* The end of a transaction forgets the watches of the connection; it does *)
(* not unregister them.                                                    *)
EndTransaction(c) ==
  /\ in_transaction' = [in_transaction EXCEPT ![c] = FALSE]
  /\ queued_commands' = [queued_commands EXCEPT ![c] = 0]
  /\ ForgetWatches(c)

handle_discard(c) ==
  /\ Idle /\ in_transaction[c]
  /\ EndTransaction(c)
  /\ UNCHANGED <<keyspaceVars, db_index, exec>>

(* WATCH of one key; WATCH of several is one after the other.  A second    *)
(* WATCH of a name replaces its baseline and registers once more.          *)
handle_watch(c, n) ==
  LET k == <<db_index[c], n>> IN
  /\ Idle /\ ~in_transaction[c]
  /\ active_watchers[ShardOf(k)] < MaxWatches
  /\ register_watch(k)
  /\ watched_keys' = [watched_keys EXCEPT ![c][n] = key_counters[k]]
  /\ watch_db' = [watch_db EXCEPT ![c][n] = db_index[c]]
  /\ touched' = touched \ {<<c, n>>}
  /\ UNCHANGED <<shardVars, then, reaper, now, db_index, in_transaction,
                 queued_commands, exec>>

(* UNWATCH, served at once even inside MULTI.  It unregisters every watch  *)
(* in the database that is selected now.                                   *)
handle_unwatch(c) ==
  /\ Idle
  /\ unregister_watches({<<db_index[c], n>> : n \in Watches(c)})
  /\ ForgetWatches(c)
  /\ UNCHANGED <<shardVars, then, reaper, now, db_index, in_transaction,
                 queued_commands, exec>>

handle_select(c, db) ==
  /\ Idle /\ ~in_transaction[c] /\ On("select")
  /\ db_index' = [db_index EXCEPT ![c] = db]
  /\ UNCHANGED <<keyspaceVars, in_transaction, queued_commands, watched_keys,
                 exec, history>>

(* The connection is closed and its place taken by a new one. *)
remove_connection(c) ==
  /\ Idle /\ On("close")
  /\ EndTransaction(c)
  /\ db_index' = [db_index EXCEPT ![c] = 0]
  /\ UNCHANGED <<keyspaceVars, exec>>

-----------------------------------------------------------------------------
(* EXEC *)

handle_exec(c) ==
  /\ Idle /\ in_transaction[c]
  /\ exec' = [pc |-> "check", conn |-> c, left |-> Watches(c)]
  /\ UNCHANGED <<keyspaceVars, connVars, history>>

(* One watched key is compared with its baseline, in the database that is  *)
(* selected now; the first one that was modified aborts the transaction.   *)
Modified(c, n) == was_modified_since(<<db_index[c], n>>, watched_keys[c][n])

exec_check(n) ==
  /\ exec.pc = "check" /\ n \in exec.left
  /\ Unlocked(<<db_index[exec.conn], n>>)
  /\ IF Modified(exec.conn, n)
       THEN EndTransaction(exec.conn) /\ exec' = NoExec
       ELSE /\ exec' = [exec EXCEPT !.left = @ \ {n}]
            /\ UNCHANGED <<in_transaction, queued_commands, watched_keys, history>>
  /\ UNCHANGED <<keyspaceVars, db_index>>

(* All watched keys are as they were: the queue is taken. *)
exec_start ==
  /\ exec.pc = "check" /\ exec.left = {}
  /\ exec' = [pc |-> "run", db |-> db_index[exec.conn],
              left |-> queued_commands[exec.conn]]
  /\ EndTransaction(exec.conn)
  /\ UNCHANGED <<keyspaceVars, db_index>>

(* History: which watched keys have other contents than when they were     *)
(* watched.  The watches of an EXEC in progress count until their check.   *)
Pending(c, n) ==
  n \in Watches(c) /\ (exec.pc = "check" /\ exec.conn = c => n \in exec.left)

Track ==
  /\ touched' = touched \cup {w \in Clients \X Names :
       Pending(w[1], w[2]) /\ Changed(<<watch_db[w[1]][w[2]], w[2]>>)}
  /\ UNCHANGED watch_db

(* Mutation: one command too many. *)
exec_command_extra ==
  /\ exec.pc = "run" /\ exec.left >= 0
  /\ \E n \in Names : Command(<<exec.db, n>>)
  /\ exec' = [exec EXCEPT !.left = @ - 1]
  /\ Track
  /\ UNCHANGED connVars

(* A queued command runs in the database of the transaction. *)
exec_command ==
  /\ exec.pc = "run" /\ exec.left > 0
  /\ \E n \in Names : Command(<<exec.db, n>>)
  /\ exec' = [exec EXCEPT !.left = @ - 1]
  /\ Track
  /\ UNCHANGED connVars

exec_end ==
  /\ exec.pc = "run" /\ exec.left = 0 /\ then = NoCall
  /\ exec' = NoExec
  /\ UNCHANGED <<keyspaceVars, connVars, history>>

ExecStep == exec_start \/ exec_command \/ exec_end \/ \E n \in Names : exec_check(n)

-----------------------------------------------------------------------------
(* A command outside a transaction is executed at once. *)
process_normal_command(c) ==
  /\ Idle /\ ~in_transaction[c]
  /\ \E n \in Names : Command(<<db_index[c], n>>)
  /\ Track
  /\ UNCHANGED <<connVars, exec>>

Reap == expiration_cleanup_loop /\ Track /\ UNCHANGED <<connVars, exec>>

Background ==
  /\ (\E k \in Key : SnapshotRead(k)) \/ Tick
  /\ Track
  /\ UNCHANGED <<connVars, exec>>

Finish == FinishCommand /\ Track /\ UNCHANGED <<connVars, exec>>

Next ==
  \/ \E c \in Clients :
       \/ handle_multi(c) \/ queue_command(c) \/ handle_discard(c)
       \/ handle_unwatch(c) \/ handle_exec(c) \/ remove_connection(c)
       \/ process_normal_command(c)
       \/ \E n \in Names : handle_watch(c, n)
       \/ \E db \in Dbs : handle_select(c, db)
  \/ ExecStep
  \/ Finish
  \/ Reap
  \/ Background

(* The main loop never stops in the middle of a request, and the           *)
(* expiration thread never stops holding a lock.  That thread takes the    *)
(* same lock again and again, but sleeps between its rounds, so that a     *)
(* request that waits for the lock gets it: strong fairness.               *)
Spec == /\ Init /\ [][Next]_vars
        /\ SF_vars(ExecStep)
        /\ SF_vars(Finish)
        /\ WF_vars(Reap)

-----------------------------------------------------------------------------
(* Properties *)

TypeOK ==
  /\ KeyspaceTypeOK
  /\ db_index \in [Clients -> Dbs]
  /\ in_transaction \in [Clients -> BOOLEAN]
  /\ queued_commands \in [Clients -> Nat]
  /\ watched_keys \in [Clients -> [Names -> Nat \cup {NotWatched}]]
  /\ exec \in {NoExec} \cup [pc : {"check"}, conn : Clients, left : SUBSET Names]
                       \cup [pc : {"run"}, db : Dbs, left : Nat]
  /\ watch_db \in [Clients -> [Names -> Dbs]]
  /\ touched \subseteq Clients \X Names

(* EXEC runs its queue only if no watched key got other contents between   *)
(* its WATCH and its check, by whichever client, transaction or background *)
(* thread (handle_watch, mark_key_modified, handle_exec).                  *)
ExecIsolation ==
  [][exec_start => \A n \in Watches(exec.conn) : <<exec.conn, n>> \notin touched]_vars

(* The watches of all connections that lie in a shard. *)
WatchesIn(s) == {w \in Clients \X Names :
  w[2] \in Watches(w[1]) /\ ShardOf(<<watch_db[w[1]][w[2]], w[2]>>) = s}

(* A shard counts at least the watches that connections hold in it; if it  *)
(* counted fewer, the fast path of mark_key_modified would skip a key that *)
(* somebody watches.                                                       *)
WatchesRegistered ==
  \A s \in DbShard : active_watchers[s] >= Cardinality(WatchesIn(s))

(* Every EXEC comes to an end, aborted or executed, although the main      *)
(* thread has to wait for shard locks that the expiration thread holds.    *)
ExecTerminates == exec # NoExec ~> exec = NoExec
=============================================================================

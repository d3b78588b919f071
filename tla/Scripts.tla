------------------------------ MODULE Scripts -------------------------------
(***************************************************************************)
(* Lua scripts: EVAL, EVALSHA and SCRIPT (storage/commands/lua.rs,         *)
(* storage/lua_engine.rs, storage/lua_cache.rs, network/server.rs) and the *)
(* executor that redis.call and redis.pcall go through                     *)
(* (storage/commands/executor.rs), composed with transactions, the storage *)
(* engine and its threads.                                                 *)
(*                                                                         *)
(* A script is a number of calls, each chosen as it is made: what a script *)
(* computes from earlier replies is one of these choices.  A command on    *)
(* several keys or members, and SET with GET, is one call after the other. *)
(* Commands that change nothing, or are refused inside a script, are left  *)
(* out: after an error redis.call ends the script, as a return does, and   *)
(* redis.pcall lets it go on.  What was done before the error stays done.  *)
(***************************************************************************)
EXTENDS Transactions

CONSTANTS
  ScriptIds, \* digests of scripts
  MaxCalls   \* bound on the calls of one script

ASSUME ScriptsAssumption == MaxCalls \in Nat

VARIABLES
  script,      \* the script that is running
  script_cache \* digests of the scripts that are loaded

scriptVars == <<script, script_cache>>
allVars == <<vars, scriptVars>>

NoScript == [pc |-> "none"]

ScriptsInit == Init /\ script = NoScript /\ script_cache = {}

-----------------------------------------------------------------------------
(* The executor *)

(* SET NX and SETNX are one engine call, SET XX and GETSET are two. *)
execute_string(k) ==
  \/ /\ \/ On("get") /\ get(k)
        \/ On("delete") /\ delete(k)
        \/ On("incr_by") /\ incr_by(k)
        \/ \E c \in Written :
             \/ On("set") /\ (set_string(k, c) \/ set_string_nx(k, c))
             \/ On("string") /\ (append(k, c) \/ setrange(k, c))
             \/ \E ttl \in Ttls :
                  On("set_ex") /\ (set_string_ex(k, c, ttl) \/ set_string_nx_ex(k, c, ttl))
     /\ UNCHANGED then
  \/ \E c \in Written :
       \/ On("getset") /\ handle_getset(k, c)
       \/ \E ttl \in Ttls \cup {NoTime} : On("set_xx") /\ handle_set_xx(k, c, ttl)

execute_list(k) ==
  \/ \E c \in Written : lpush(k, c) \/ rpush(k, c) \/ lset(k, c)
  \/ \E c \in Contents : lpop(k, c) \/ rpop(k, c) \/ ltrim(k, c) \/ lrem(k, c)

execute_set(k) ==
  \/ \E c \in Written : sadd(k, c)
  \/ \E c \in Contents : srem(k, c) \/ spop(k, c)

execute_hash(k) ==
  \/ \E c \in Written : hset(k, c) \/ hincrby(k, c)
  \/ \E c \in Contents : hdel(k, c)

(* The pops and the removals of ranges look up members and remove one      *)
(* after the other with zrem.                                              *)
execute_sorted_set(k) ==
  \/ \E c \in Written : zadd(k, c) \/ zincrby(k, c)
  \/ \E c \in Contents : zrem(k, c)

execute_stream(k) ==
  \/ \E c \in Written : xadd(k, c)
  \/ \E c \in Contents : xtrim(k, c) \/ xdel(k, c)

(* RENAMENX is handed to the handler of RENAME: it always renames. *)
execute_key(k) ==
  \/ \E ttl \in Ttls : On("expire") /\ expire(k, ttl)
  \/ On("persist") /\ persist(k)
  \/ \E n \in Names : (On("rename") \/ On("renamenx")) /\ rename(k, <<k[1], n>>)

flush_all ==
  /\ \A k \in Key : Unlocked(k)
  /\ data' = [k \in Key |-> Missing] /\ expiring_keys' = [k \in Key |-> NoTime]
  /\ UNCHANGED <<key_counters, global_counter>>

(* A script has no connection, and FLUSHDB takes the database from there:  *)
(* it empties database 0.                                                  *)
execute_database == flush_db(0) \/ flush_all

(* SETBIT reads the string, changes it and stores it without a deadline. *)
execute_bit(k) == \E c \in Written : handle_getset(k, c)

execute(k) ==
  \/ execute_string(k)
  \/ /\ \/ On("list") /\ execute_list(k)
        \/ On("set_type") /\ execute_set(k)
        \/ On("hash") /\ execute_hash(k)
        \/ On("zset") /\ execute_sorted_set(k)
        \/ On("stream") /\ execute_stream(k)
        \/ On("flush_db") /\ execute_database
        \/ execute_key(k)
     /\ UNCHANGED then
  \/ On("bit") /\ execute_bit(k)

-----------------------------------------------------------------------------
(* Scripts *)

(* The database is fixed when the script starts. *)
create_lua_context(db) == [pc |-> "run", db |-> db, left |-> MaxCalls]

eval(db) == script' = create_lua_context(db)

handle_eval_with_db(db) == eval(db) /\ UNCHANGED script_cache

(* EVALSHA hands the script on without the database of the client: it runs *)
(* in database 0.  An unknown digest is an error.                          *)
handle_evalsha_command ==
  /\ \E s \in ScriptIds : s \in script_cache
  /\ eval(0) /\ UNCHANGED script_cache

insert(s) == script_cache' = script_cache \cup {s}
clear == script_cache' = {}

(* SCRIPT LOAD of a script that compiles, and SCRIPT FLUSH; SCRIPT KILL    *)
(* does nothing.                                                           *)
handle_script_command ==
  /\ clear \/ \E s \in ScriptIds : insert(s)
  /\ UNCHANGED script

ScriptCommand(db) ==
  /\ script = NoScript
  /\ handle_eval_with_db(db) \/ handle_evalsha_command \/ handle_script_command

process_script_command(c) ==
  /\ Idle /\ ~in_transaction[c]
  /\ ScriptCommand(db_index[c])
  /\ UNCHANGED vars

(* The same commands out of the queue of a transaction. *)
exec_script_command ==
  /\ exec.pc = "run" /\ exec.left > 0 /\ then = NoCall
  /\ ScriptCommand(exec.db)
  /\ exec' = [exec EXCEPT !.left = @ - 1]
  /\ UNCHANGED <<keyspaceVars, connVars, history>>

execute_unified_redis_command ==
  /\ script.pc = "run" /\ script.left > 0 /\ then = NoCall
  /\ \E n \in Names : execute(<<script.db, n>>)
  /\ script' = [script EXCEPT !.left = @ - 1]
  /\ Track
  /\ UNCHANGED <<active_watchers, reaper, now, connVars, exec, script_cache>>

eval_end ==
  /\ script.pc = "run" /\ then = NoCall
  /\ script' = NoScript
  /\ UNCHANGED <<vars, script_cache>>

ScriptStep == execute_unified_redis_command \/ eval_end


(* A script runs on the main thread, which does nothing else meanwhile. *)
MainThreadFree == script = NoScript

ExecProgress == \/ MainThreadFree /\ ExecStep /\ UNCHANGED scriptVars
                \/ exec_script_command

ScriptsNext ==
  \/ MainThreadFree /\ Next /\ UNCHANGED scriptVars
  \/ (Finish \/ Reap \/ Background) /\ UNCHANGED scriptVars
  \/ \E c \in Clients : process_script_command(c)
  \/ exec_script_command
  \/ ScriptStep

(* The fairness of Transactions, and a script makes its calls and ends. *)
ScriptsSpec ==
  /\ ScriptsInit /\ [][ScriptsNext]_allVars
  /\ SF_allVars(ExecProgress)
  /\ SF_allVars(Finish /\ UNCHANGED scriptVars)
  /\ WF_allVars(Reap /\ UNCHANGED scriptVars)
  /\ SF_allVars(ScriptStep)

-----------------------------------------------------------------------------
(* Properties *)

ScriptsTypeOK ==
  /\ TypeOK
  /\ script \in {NoScript} \cup [pc : {"run"}, db : Dbs, left : 0 .. MaxCalls]
  /\ script_cache \subseteq ScriptIds


(* Every script comes to an end if it makes finitely many calls, although  *)
(* the calls wait for locks of the expiration thread.                      *)
ScriptsEnd == script # NoScript ~> script = NoScript
=============================================================================

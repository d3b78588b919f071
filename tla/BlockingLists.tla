--------------------------- MODULE BlockingLists ---------------------------
(***************************************************************************)
(* BLPOP and BRPOP: the registry of blocked clients (network/blocking.rs)  *)
(* and the main loop that serves, wakes, times out and drops connections   *)
(* (network/server.rs).                                                    *)
(*                                                                         *)
(* One turn of the loop goes through the phases wake, accept, serve,       *)
(* timeout and cleanup.  In the serve phase every connection that was not  *)
(* blocked at its beginning gets one batch: the commands it had pipelined. *)
(* A push only files a wake-up request; the element is popped on behalf of *)
(* the blocked client in the wake phase of the next turn.                  *)
(*                                                                         *)
(* A list is abstracted to its length, so that BLPOP and BRPOP differ in   *)
(* name only.  One database stands for all; registries do not interact.    *)
(***************************************************************************)
EXTENDS Integers, Sequences, FiniteSets, Functions

CONSTANTS
  Clients,    \* connection ids that may be given out
  Nobody,     \* connection id 0, under which queued commands are executed
  Names,      \* keys
  KeyArgs,    \* sequences of keys a client may block on
  Timeouts,   \* durations a client may ask for; 0 is for ever
  WakeBatch,  \* wake-up requests taken in one turn (32)
  MaxLen,     \* bound on the length of a list
  MaxQueue,   \* bound on the waiters of one key
  MaxWakes,   \* bound on the wake-up requests in flight
  MaxTime,    \* bound on the clock
  Workload    \* names of the operations the clients issue

ASSUME BlockingAssumption ==
  /\ Nobody \notin Clients
  /\ KeyArgs \subseteq Seq(Names) \ {<<>>}
  /\ Timeouts \subseteq Nat
  /\ WakeBatch \in Nat \ {0}

VARIABLES
  lists,           \* [Names -> length], 0 if there is no key, NotAList for another type
  conn,            \* [Clients -> connection]
  blocked_on_key,  \* [Names -> waiters in order of arrival]
  blocked_keys,    \* names that have waiters, for the fast check
  wake_queue,      \* wake-up requests
  loop,            \* where the main thread is
  clock

vars == <<lists, conn, blocked_on_key, blocked_keys, wake_queue, loop, clock>>
registry == <<blocked_on_key, blocked_keys>>

NotAList == -1
Never == -1

(* ConnectionState; "absent" ids have not been given out, "gone" ones are  *)
(* not given out again.                                                    *)
Plain(st) == [state |-> st, keys |-> <<>>, deadline |-> Never]
Absent == Plain("absent")
Ready == Plain("ready")
Closing == Plain("closing")
Gone == Plain("gone")
Blocked(ks, deadline) == [state |-> "blocked", keys |-> ks, deadline |-> deadline]
IsBlocked(c) == c \in Clients /\ conn[c].state = "blocked"
Open == {c \in Clients : conn[c].state \in {"ready", "blocked", "closing"}}

Wake(left) == [pc |-> "wake", left |-> left]
Serve(todo, failed) == [pc |-> "serve", todo |-> todo, failed |-> failed]
Batch(c, l) == [pc |-> "batch", cur |-> c, todo |-> l.todo, failed |-> l.failed]
At(pc) == loop.pc = pc

BlockingInit ==
  /\ lists = [k \in Names |-> 0]
  /\ conn = [c \in Clients |-> Absent]
  /\ blocked_on_key = [k \in Names |-> <<>>]
  /\ blocked_keys = {}
  /\ wake_queue = <<>>
  /\ loop = [pc |-> "accept"]
  /\ clock = 0

On(op) == op \in Workload

-----------------------------------------------------------------------------
(* The registry *)

Waiters(q) == {k \in Names : q[k] # <<>>}

(* Mutation: the set for the fast check is not maintained. *)
Keep_stale(q) == blocked_on_key' = q /\ UNCHANGED blocked_keys

(* Every method that takes waiters out drops the keys that have no more.   *)
Keep(q) == /\ blocked_on_key' = q
           /\ blocked_keys' = blocked_keys \ {k \in Names : q[k] = <<>>}

register_blocked(id, ks, deadline) ==
  LET times(k) == Cardinality({i \in DOMAIN ks : ks[i] = k})
      entry == [conn_id |-> id, deadline |-> deadline]
  IN /\ blocked_on_key' = [k \in Names |->
          blocked_on_key[k] \o [i \in 1 .. times(k) |-> entry]]
     /\ blocked_keys' = blocked_keys \cup Range(ks)

unregister_clients(C) ==
  Keep([k \in Names |->
          SelectSeq(blocked_on_key[k], LAMBDA w : w.conn_id \notin C)])

(* Mutation: the request is filed and the waiter left in the queue. *)
notify_key_ready_keeps(k) ==
  IF k \in blocked_keys
    THEN /\ wake_queue' = Append(wake_queue,
                            [conn_id |-> Head(blocked_on_key[k]).conn_id, key |-> k])
         /\ UNCHANGED registry
    ELSE UNCHANGED <<registry, wake_queue>>

(* has_blocked_clients, then pop_first_waiter: one waiter leaves the queue *)
(* and one request is filed, however many elements were pushed.            *)
notify_key_ready(k) ==
  IF k \in blocked_keys
    THEN /\ Keep([blocked_on_key EXCEPT ![k] = Tail(@)])
         /\ wake_queue' = Append(wake_queue,
                            [conn_id |-> Head(blocked_on_key[k]).conn_id, key |-> k])
    ELSE UNCHANGED <<registry, wake_queue>>

-----------------------------------------------------------------------------
(* The wake phase *)

(* Mutation: as many requests as fit in a batch are expected. *)
process_wakeups_full ==
  /\ At("cleaned")
  /\ loop' = Wake(WakeBatch)
  /\ UNCHANGED <<lists, conn, registry, wake_queue, clock>>

process_wakeups ==
  /\ At("cleaned")
  /\ loop' = Wake(IF Len(wake_queue) < WakeBatch THEN Len(wake_queue) ELSE WakeBatch)
  /\ UNCHANGED <<lists, conn, registry, wake_queue, clock>>

(* The element is popped first; it goes to the client if that is still     *)
(* blocked.  An empty list is not reported to anyone, and a key that holds *)
(* another type ends the main loop with an error.                          *)
wake_client ==
  LET r == Head(wake_queue) IN
  /\ At("wake") /\ loop.left > 0
  /\ wake_queue' = Tail(wake_queue)
  /\ IF lists[r.key] = NotAList
       THEN /\ loop' = [pc |-> "stopped"]
            /\ UNCHANGED <<lists, conn>>
       ELSE /\ loop' = Wake(loop.left - 1)
            /\ IF lists[r.key] = 0
                 THEN UNCHANGED <<lists, conn>>
                 ELSE /\ lists' = [lists EXCEPT ![r.key] = @ - 1]
                      /\ conn' = IF IsBlocked(r.conn_id)
                                   THEN [conn EXCEPT ![r.conn_id] = Ready]
                                   ELSE conn
  /\ UNCHANGED <<registry, clock>>

wake_done ==
  /\ At("wake") /\ loop.left = 0
  /\ loop' = [pc |-> "accept"]
  /\ UNCHANGED <<lists, conn, registry, wake_queue, clock>>

-----------------------------------------------------------------------------
(* The accept and serve phases *)

accept_single_connection(c) ==
  /\ At("accept") /\ conn[c] = Absent
  /\ conn' = [conn EXCEPT ![c] = Ready]
  /\ UNCHANGED <<lists, registry, wake_queue, loop, clock>>

process_connections ==
  /\ At("accept")
  /\ loop' = Serve({c \in Open : ~IsBlocked(c)}, {})
  /\ UNCHANGED <<lists, conn, registry, wake_queue, clock>>

process_connection(c) ==
  /\ At("serve") /\ c \in loop.todo
  /\ loop' = Batch(c, [loop EXCEPT !.todo = @ \ {c}])
  /\ UNCHANGED <<lists, conn, registry, wake_queue, clock>>

(* The batch may go on after a command that blocked the connection, if the *)
(* client did not wait for its answer.                                     *)
Serving(c) == At("batch") /\ loop.cur = c /\ (IsBlocked(c) => On("pipeline"))

(* QUIT, a connection closed by its peer or idle for too long: the batch   *)
(* ends with the connection closing.                                       *)
end_batch(quit) ==
  /\ At("batch") /\ (quit => Serving(loop.cur))
  /\ conn' = IF quit THEN [conn EXCEPT ![loop.cur] = Closing] ELSE conn
  /\ loop' = Serve(loop.todo, loop.failed)
  /\ UNCHANGED <<lists, registry, wake_queue, clock>>

(* A command that returns an error instead of an error reply ends the      *)
(* batch; its connection is removed after the phase.                       *)
FailBatch == loop' = Serve(loop.todo, loop.failed \cup {loop.cur})

(* The removal of failed connections forgets their registrations.  *)
connections_done ==
  /\ At("serve") /\ loop.todo = {}
  /\ conn' = [c \in Clients |-> IF c \in loop.failed THEN Gone ELSE conn[c]]
  /\ loop' = [pc |-> "timeout"]
  /\ UNCHANGED <<lists, registry, wake_queue, clock>>

-----------------------------------------------------------------------------
(* Commands *)

(* Mutation: only a list that is created is announced. *)
handle_push_first(c, k, n) ==
  /\ Serving(c)
  /\ lists[k] + n <= MaxLen /\ Len(wake_queue) < MaxWakes
  /\ IF lists[k] = NotAList
       THEN UNCHANGED <<lists, registry, wake_queue>>
       ELSE /\ lists' = [lists EXCEPT ![k] = @ + n]
            /\ IF lists[k] = 0 THEN notify_key_ready(k)
                              ELSE UNCHANGED <<registry, wake_queue>>
  /\ UNCHANGED <<conn, loop, clock>>

(* LPUSH and RPUSH of n elements. *)
handle_push(c, k, n) ==
  /\ Serving(c)
  /\ lists[k] + n <= MaxLen /\ Len(wake_queue) < MaxWakes
  /\ IF lists[k] = NotAList
       THEN UNCHANGED <<lists, registry, wake_queue>>
       ELSE /\ lists' = [lists EXCEPT ![k] = @ + n]
            /\ notify_key_ready(k)
  /\ UNCHANGED <<conn, loop, clock>>

(* LPOP and RPOP. *)
handle_pop(c, k) ==
  /\ Serving(c)
  /\ lists[k] > 0
  /\ lists' = [lists EXCEPT ![k] = @ - 1]
  /\ UNCHANGED <<conn, registry, wake_queue, loop, clock>>

(* DEL, or SET over whatever the key held. *)
handle_del(c, k) ==
  /\ Serving(c)
  /\ lists' = [lists EXCEPT ![k] = 0]
  /\ UNCHANGED <<conn, registry, wake_queue, loop, clock>>

handle_set(c, k) ==
  /\ Serving(c)
  /\ lists' = [lists EXCEPT ![k] = NotAList]
  /\ UNCHANGED <<conn, registry, wake_queue, loop, clock>>

(* RENAME puts a list under another name; nobody is notified. *)
handle_rename(c, k, new) ==
  /\ Serving(c)
  /\ lists[k] # 0 /\ k # new
  /\ lists' = [lists EXCEPT ![k] = 0, ![new] = lists[k]]
  /\ UNCHANGED <<conn, registry, wake_queue, loop, clock>>

(* The first key that has something decides: an element of a list is the   *)
(* answer, another type is an error that costs the connection.  If none    *)
(* has, id is registered for each of the keys and its connection blocked.  *)
(* Commands of a transaction run under an id that has no connection, and   *)
(* their errors are entries of its reply.                                  *)
blocking_pop(id, ks, t) ==
  LET hits == {i \in DOMAIN ks : lists[ks[i]] # 0}
      first == ks[CHOOSE i \in hits : \A j \in hits : i <= j]
      deadline == IF t = 0 THEN Never ELSE clock + t
  IN /\ deadline <= MaxTime
     /\ \A i \in DOMAIN ks : Len(blocked_on_key[ks[i]]) < MaxQueue
     /\ IF hits = {}
          THEN /\ register_blocked(id, ks, deadline)
               /\ conn' = IF id \in Clients
                            THEN [conn EXCEPT ![id] = Blocked(ks, deadline)]
                            ELSE conn
               /\ UNCHANGED <<lists, loop>>
          ELSE /\ IF lists[first] = NotAList
                    THEN /\ IF id = Nobody THEN UNCHANGED loop ELSE FailBatch
                         /\ UNCHANGED lists
                    ELSE /\ lists' = [lists EXCEPT ![first] = @ - 1]
                         /\ UNCHANGED loop
               /\ UNCHANGED <<conn, registry>>
     /\ UNCHANGED <<wake_queue, clock>>

handle_blpop(c, ks, t) == Serving(c) /\ blocking_pop(c, ks, t)
handle_brpop(c, ks, t) == Serving(c) /\ blocking_pop(c, ks, t)

exec_blpop(c, ks, t) == Serving(c) /\ blocking_pop(Nobody, ks, t)

(* CLIENT KILL: another connection is marked as closing. *)
handle_client_kill(c, d) ==
  /\ Serving(c)
  /\ d \in Open \ {c}
  /\ conn' = [conn EXCEPT ![d] = Closing]
  /\ UNCHANGED <<lists, registry, wake_queue, loop, clock>>

Command(c) ==
  \/ \E k \in Names :
       \/ On("push") /\ handle_push(c, k, 1)
       \/ On("push2") /\ handle_push(c, k, 2)
       \/ On("pop") /\ handle_pop(c, k)
       \/ On("del") /\ handle_del(c, k)
       \/ On("set") /\ handle_set(c, k)
       \/ \E new \in Names : On("rename") /\ handle_rename(c, k, new)
  \/ \E ks \in KeyArgs, t \in Timeouts :
       \/ handle_blpop(c, ks, t) \/ handle_brpop(c, ks, t)
       \/ On("exec") /\ exec_blpop(c, ks, t)
  \/ \E d \in Clients : On("kill") /\ handle_client_kill(c, d)

-----------------------------------------------------------------------------
(* The timeout and cleanup phases *)

Expired(w) == w.deadline # Never /\ w.deadline <= clock

(* Mutation: a client is timed out at the deadline of its connection, and  *)
(* its registration stays.                                                 *)
process_blocked_timeouts_keeps ==
  /\ At("timeout")
  /\ conn' = [c \in Clients |->
                IF IsBlocked(c) /\ Expired(conn[c]) THEN Ready ELSE conn[c]]
  /\ loop' = [pc |-> "cleanup"]
  /\ UNCHANGED <<lists, registry, wake_queue, clock>>

(* get_expired_clients takes every registration whose deadline has passed  *)
(* out of its queue; the clients they name, if blocked, get a null reply.  *)
process_blocked_timeouts ==
  LET due == {c \in Clients : \E k \in Names : \E i \in DOMAIN blocked_on_key[k] :
                /\ blocked_on_key[k][i].conn_id = c
                /\ Expired(blocked_on_key[k][i])}
  IN /\ At("timeout")
     /\ Keep([k \in Names |->
                SelectSeq(blocked_on_key[k], LAMBDA w : ~Expired(w))])
     /\ conn' = [c \in Clients |->
                   IF c \in due /\ IsBlocked(c) THEN Ready ELSE conn[c]]
     /\ loop' = [pc |-> "cleanup"]
     /\ UNCHANGED <<lists, wake_queue, clock>>

(* Closing connections are removed with their registrations; requests in   *)
(* the wake queue stay.                                                    *)
cleanup_connections ==
  LET closing == {c \in Clients : conn[c] = Closing}
  IN /\ At("cleanup")
     /\ conn' = [c \in Clients |-> IF c \in closing THEN Gone ELSE conn[c]]
     /\ unregister_clients(closing)
     /\ loop' = [pc |-> "cleaned"]
     /\ UNCHANGED <<lists, wake_queue, clock>>

Tick == /\ clock < MaxTime
        /\ clock' = clock + 1
        /\ UNCHANGED <<lists, conn, registry, wake_queue, loop>>

(* What the main thread does on its own. *)
Loop ==
  \/ process_wakeups \/ wake_client \/ wake_done
  \/ process_connections \/ connections_done
  \/ process_blocked_timeouts \/ cleanup_connections
  \/ end_batch(FALSE)
  \/ \E c \in Clients : process_connection(c)

BlockingNext ==
  \/ Loop
  \/ Tick
  \/ On("quit") /\ end_batch(TRUE)
  \/ \E c \in Clients : accept_single_connection(c) \/ Command(c)

(* Time passes, and the main thread goes round its loop. *)
BlockingSpec == /\ BlockingInit /\ [][BlockingNext]_vars
                /\ WF_vars(Loop) /\ WF_vars(Tick)

-----------------------------------------------------------------------------
(* Properties *)

Waiter == [conn_id : Clients \cup {Nobody}, deadline : Int]

BlockingTypeOK ==
  /\ lists \in [Names -> Nat \cup {NotAList}]
  /\ conn \in [Clients -> {Absent, Ready, Closing, Gone}
                 \cup [state : {"blocked"}, keys : KeyArgs, deadline : Int]]
  /\ blocked_on_key \in [Names -> Seq(Waiter)]
  /\ wake_queue \in Seq([conn_id : Clients \cup {Nobody}, key : Names])
  /\ loop \in [pc : {"wake"}, left : 0 .. Len(wake_queue)]
       \cup [pc : {"serve"}, todo : SUBSET Clients, failed : SUBSET Clients]
       \cup [pc : {"batch"}, cur : Clients, todo : SUBSET Clients, failed : SUBSET Clients]
       \cup [pc : {"accept", "timeout", "cleanup", "cleaned", "stopped"}]
  /\ clock \in Nat

(* The set that answers has_blocked_clients is exactly the set of keys     *)
(* that have waiters; a key missing from it would never wake anyone.       *)
FastCheckExact == blocked_keys = Waiters(blocked_on_key)

(* What wake_client pops goes to a client that is blocked on that key: no  *)
(* element is lost, and no client gets an answer it did not ask for.       *)
WakeupDelivers ==
  [][\A k \in Names : wake_client /\ lists'[k] # lists[k]
       => LET c == Head(wake_queue).conn_id
          IN /\ IsBlocked(c) /\ k \in Range(conn[c].keys)
             /\ conn'[c] = Ready]_vars

(* A client is timed out at its own deadline, never before and never if it *)
(* asked to wait for ever (process_blocked_timeouts).                      *)
TimeoutIsOwn ==
  [][\A c \in Clients : process_blocked_timeouts /\ IsBlocked(c) /\ conn'[c] = Ready
       => Expired(conn[c])]_vars

(* Requests in flight for a key. *)
Pending(k) == Cardinality({i \in DOMAIN wake_queue : wake_queue[i].key = k})

(* While clients wait for a key, every element of its list is spoken for   *)
(* by a request in flight: once the wake-ups are done nobody waits next to *)
(* a list that has elements (notify_key_ready, one waiter per push).       *)
NoWaiterLeftBehind ==
  \A k \in Names : blocked_on_key[k] # <<>> => lists[k] <= Pending(k)

(* A client that blocks with a timeout is let go: it gets an element, a    *)
(* null reply, or is dropped.                                              *)
DeadlineHonoured ==
  \A c \in Clients : (IsBlocked(c) /\ conn[c].deadline # Never) ~> ~IsBlocked(c)

Registered(c, k, d) == \E i \in DOMAIN blocked_on_key[k] :
  blocked_on_key[k][i] = [conn_id |-> c, deadline |-> d]

(* A registration with a deadline does not stay in its queue: it is taken  *)
(* out by a push, at its deadline or with its connection, and whatever the *)
(* other clients do.                                                       *)
RegistrationsExpire ==
  \A c \in Clients \cup {Nobody}, k \in Names, d \in 1 .. MaxTime :
    Registered(c, k, d) ~> ~Registered(c, k, d)
=============================================================================

---------------------------- MODULE Replication -----------------------------
(***************************************************************************)
(* Replication (replication/manager.rs, client.rs, sync.rs, commands.rs,   *)
(* backlog.rs, and the propagation in network/server.rs): a primary that   *)
(* executes writes, and a second server that is told REPLICAOF primary and *)
(* REPLICAOF NO ONE, again and again.                                      *)
(*                                                                         *)
(* Each REPLICAOF starts a client thread and asks the one before to stop   *)
(* with a flag.  A thread looks at its flag at two places only, and the    *)
(* server waits a moment, not for the thread to end: threads may overlap.  *)
(* A step is what happens between two accesses to the role, a flag or the  *)
(* connection.  Commands are numbered in the order the primary executes    *)
(* them.                                                                   *)
(***************************************************************************)
EXTENDS Integers, Sequences, FiniteSets

CONSTANTS
  Threads,      \* client threads of the second server
  Conns,        \* connections to the primary
  MaxWrites,    \* bound on writes
  MaxFailures,  \* bound on failing connections and on REPLICAOF at the primary
  MaxOrders,    \* bound on REPLICAOF at the second server
  FrameBytes,   \* bytes of a serialized command
  BacklogSize   \* max_size of the backlog in bytes

ASSUME ReplicationAssumption ==
  /\ {MaxWrites, MaxFailures, MaxOrders, BacklogSize} \subseteq Nat
  /\ FrameBytes \in Nat \ {0} /\ Threads \cup Conns \subseteq Nat \ {0}

VARIABLES
  primary,  \* the primary: its role, offset, and the number of its writes
  replicas, \* the primary's table of replicas, by connection
  backlog,  \* the primary's replication backlog
  conn,     \* the connections; first and era are the writes and the demotions
            \* of the primary when it put the connection into its table
  role,     \* role of the second server
  order,    \* its main thread: REPLICAOF in progress, the flag it keeps, and
            \* whether the thread with that flag was alone when it started
  thread,   \* its client threads
  failures, orders  \* events so far

vars == <<primary, replicas, backlog, conn, role, order, thread, failures, orders>>

-----------------------------------------------------------------------------
Closed == [open |-> FALSE, asked |-> FALSE, stream |-> <<>>, acks |-> <<>>, ack |-> 0,
           first |-> 0, era |-> 0]
Ended == [pc |-> "ended", stop |-> FALSE, conn |-> 0, buf |-> <<>>,
          tmp |-> 0, last |-> 0, late |-> 0]
MasterRole == [kind |-> "master", link |-> "none", offset |-> 0]
ReplicaRole == [kind |-> "replica", link |-> "connecting", offset |-> 0]
NoOrder == [pc |-> "idle", flag |-> 0, alone |-> TRUE]

Frame(kind, n) == [kind |-> kind, n |-> n]

ReplicationInit ==
  /\ primary = [master |-> TRUE, offset |-> 0, writes |-> 0, demotions |-> 0]
  /\ replicas = {}
  /\ backlog = [start |-> 0, buffer |-> <<>>]
  /\ conn = [c \in Conns |-> Closed]
  /\ role = MasterRole
  /\ order = NoOrder
  /\ thread = [t \in Threads |-> Ended]
  /\ failures = 0 /\ orders = 0

PrimaryVars == <<primary, replicas, backlog>>
SecondVars == <<role, order, thread, orders>>

-----------------------------------------------------------------------------
(* The primary *)

(* Mutation: nothing makes room. *)
append_byte_unbounded(b, byte) ==
  [start |-> b.start, buffer |-> Append(b.buffer, byte)]

(* Mutation: the byte that drops out is not counted. *)
append_byte_uncounted(b, byte) ==
  IF Len(b.buffer) >= BacklogSize /\ b.buffer # <<>>
    THEN [start |-> b.start, buffer |-> Append(Tail(b.buffer), byte)]
    ELSE [start |-> b.start, buffer |-> Append(b.buffer, byte)]

(* At the limit the oldest byte makes room. *)
append_byte(b, byte) ==
  IF Len(b.buffer) >= BacklogSize /\ b.buffer # <<>>
    THEN [start |-> b.start + 1, buffer |-> Append(Tail(b.buffer), byte)]
    ELSE [start |-> b.start, buffer |-> Append(b.buffer, byte)]

(* A byte is named by its place among all bytes ever appended. *)
append_command(b) ==
  LET base == b.start + Len(b.buffer)
      after[i \in 0 .. FrameBytes] ==
        IF i = 0 THEN b ELSE append_byte(after[i - 1], base + i - 1)
  IN after[FrameBytes]

(* The bytes from an offset on; there are none if it is out of range. *)
get_data_from_offset(offset) ==
  IF offset < backlog.start \/ offset >= backlog.start + Len(backlog.buffer) THEN <<>>
  ELSE SubSeq(backlog.buffer, offset - backlog.start + 1, Len(backlog.buffer))

(* Only a master propagates; the result is the replicas to send to. *)
propagate_command ==
  IF primary.master
    THEN [offset |-> primary.offset + 1, backlog |-> append_command(backlog), to |-> replicas]
    ELSE [offset |-> primary.offset, backlog |-> backlog, to |-> {}]

(* A write command of the primary's clients that is not answered with an   *)
(* error: it goes to each replica of the table whose connection exists.    *)
process_normal_command ==
  LET n == primary.writes + 1
      propagated == propagate_command
  IN /\ n <= MaxWrites
     /\ primary' = [primary EXCEPT !.writes = n, !.offset = propagated.offset]
     /\ backlog' = propagated.backlog
     /\ conn' = [c \in Conns |->
                   IF c \in propagated.to /\ conn[c].open
                     THEN [conn[c] EXCEPT !.stream = Append(@, Frame("cmd", n))]
                     ELSE conn[c]]
     /\ UNCHANGED <<replicas, failures>> /\ UNCHANGED SecondVars

(* REPLICAOF at the primary itself: the table is cleared, connections stay.*)
demote ==
  /\ primary.master /\ failures < MaxFailures /\ failures' = failures + 1
  /\ primary' = [primary EXCEPT !.master = FALSE, !.offset = 0, !.demotions = @ + 1]
  /\ replicas' = {}
  /\ UNCHANGED <<backlog, conn>> /\ UNCHANGED SecondVars

promote ==
  /\ ~primary.master
  /\ primary' = [primary EXCEPT !.master = TRUE, !.offset = 0]
  /\ UNCHANGED <<replicas, backlog, conn, failures>> /\ UNCHANGED SecondVars

add_replica(c) == replicas' = replicas \cup {c}

(* PSYNC ? -1 names neither a history nor an offset: a master answers with *)
(* FULLRESYNC, any other server with an error that ends the connection.    *)
handle_psync == IF primary.master THEN "sync" ELSE "error"

send_rdb_to_replica(c) == [conn[c] EXCEPT !.stream = Append(@, Frame("rdb", 0))]

(* The snapshot is written to the connection before the reply.  The        *)
(* request may outlive the thread that sent it.                            *)
handle_sync_command(c) ==
  /\ conn[c].asked
  /\ IF handle_psync = "sync"
       THEN /\ add_replica(c)
            /\ conn' = [conn EXCEPT ![c] =
                 IF ~@.open THEN Closed
                 ELSE [send_rdb_to_replica(c) EXCEPT
                         !.asked = FALSE, !.first = primary.writes, !.era = primary.demotions,
                         !.stream = Append(@, Frame(handle_psync, 0))]]
       ELSE /\ conn' = [conn EXCEPT ![c].asked = FALSE, ![c].open = FALSE]
            /\ UNCHANGED replicas
  /\ UNCHANGED <<primary, backlog, failures>> /\ UNCHANGED SecondVars

(* REPLCONF ACK; the reply travels in the stream of commands. *)
handle_replconf(c) ==
  /\ conn[c].open /\ conn[c].acks # <<>>
  /\ conn' = [conn EXCEPT ![c].acks = Tail(@),
                          ![c].ack = IF c \in replicas THEN Head(conn[c].acks) ELSE @,
                          ![c].stream = Append(@, Frame("ok", 0))]
  /\ UNCHANGED <<PrimaryVars, failures>> /\ UNCHANGED SecondVars

-----------------------------------------------------------------------------
(* REPLICAOF at the second server: raise the flag of the last thread, wait *)
(* for 100 ms, change the role, start a thread.                            *)

replicaof ==
  /\ order.pc = "idle" /\ orders < MaxOrders /\ orders' = orders + 1
  /\ \E target \in {"primary", "no one"} : order' = [order EXCEPT !.pc = target, !.flag = 0]
  /\ thread' = IF order.flag = 0 THEN thread
               ELSE [thread EXCEPT ![order.flag].stop = TRUE]
  /\ UNCHANGED <<PrimaryVars, conn, role, failures>>

start_background_replication(t) ==
  /\ thread[t].pc = "ended" /\ \A d \in Threads : d < t => thread[d].pc # "ended"
  /\ thread' = [thread EXCEPT ![t] = [Ended EXCEPT !.pc = "run"]]

set_master ==
  /\ \/ /\ order.pc = "primary"
        /\ \E t \in Threads :
             /\ start_background_replication(t)
             /\ order' = [pc |-> "idle", flag |-> t,
                          alone |-> \A other \in Threads : thread[other].pc = "ended"]
        /\ role' = ReplicaRole
     \/ /\ order.pc = "no one"
        /\ role' = MasterRole /\ order' = NoOrder /\ UNCHANGED thread
  /\ UNCHANGED <<PrimaryVars, conn, failures, orders>>

-----------------------------------------------------------------------------
(* A client thread *)

IsReplica == role.kind = "replica"
update_master_link_status(status) == role' = [role EXCEPT !.link = status]

ThreadOnly(t, pc) == thread' = [thread EXCEPT ![t].pc = pc]
Rest == UNCHANGED <<PrimaryVars, order, orders>>

(* The thread lets go of its connection. *)
Hangup(c) == [conn EXCEPT ![c] = [Closed EXCEPT !.asked = conn[c].asked]]
Without(t, pc) == thread' = [thread EXCEPT ![t].pc = pc, ![t].conn = 0,
                                           ![t].buf = <<>>, ![t].last = 0]

(* Mutation: a thread that is to stop starts over like after a failure. *)
run_unread(t) ==
  /\ thread[t].pc = "run"
  /\ ThreadOnly(t, "connect")
  /\ UNCHANGED <<conn, role, failures>> /\ Rest

run(t) ==
  /\ thread[t].pc = "run"
  /\ ThreadOnly(t, IF thread[t].stop THEN "ended" ELSE "connect")
  /\ UNCHANGED <<conn, role, failures>> /\ Rest

(* A step that sets the status of the link fails if the server is no       *)
(* longer a replica.                                                       *)
SetStatus(t, pc, status, next) ==
  /\ thread[t].pc = pc
  /\ IF IsReplica THEN update_master_link_status(status) /\ ThreadOnly(t, next)
                  ELSE UNCHANGED role /\ ThreadOnly(t, "failed")
  /\ UNCHANGED <<conn, failures>> /\ Rest

connect_and_replicate(t) ==
  \/ SetStatus(t, "connect", "connecting", "dial")
  \/ SetStatus(t, "greeted", "synchronizing", "psync")
  \/ SetStatus(t, "synced", "up", "loop")

Free(c) == /\ ~conn[c].open /\ ~conn[c].asked /\ c \notin replicas
           /\ \A t \in Threads : thread[t].conn # c

connect_to_master(t) ==
  /\ thread[t].pc = "dial"
  /\ \E c \in Conns :
       /\ Free(c) /\ \A d \in Conns : d < c => ~Free(d)
       /\ conn' = [conn EXCEPT ![c] = [Closed EXCEPT !.open = TRUE]]
       /\ thread' = [thread EXCEPT ![t].pc = "handshake", ![t].conn = c]
  /\ UNCHANGED <<role, failures>> /\ Rest

(* AUTH, PING and twice REPLCONF, each answered as expected. *)
perform_handshake(t) ==
  /\ thread[t].pc = "handshake" /\ conn[thread[t].conn].open
  /\ ThreadOnly(t, "greeted")
  /\ UNCHANGED <<conn, role, failures>> /\ Rest

send_psync(t) ==
  /\ thread[t].pc = "psync" /\ conn[thread[t].conn].open
  /\ conn' = [conn EXCEPT ![thread[t].conn].asked = TRUE]
  /\ ThreadOnly(t, "reply")
  /\ UNCHANGED <<role, failures>> /\ Rest

(* Mutation: a frame is lost behind a read. *)
After_skips(stream, k, torn) == SubSeq(stream, k + 2, Len(stream))

(* What is left of a stream of which k frames were taken, the last read    *)
(* ending within the next frame or not.                                    *)
After(stream, k, torn) ==
  LET rest == SubSeq(stream, k + 1, Len(stream))
  IN IF torn /\ rest # <<>> THEN [rest EXCEPT ![1] = Frame("torn", 0)] ELSE rest

(* The reply to PSYNC is the first frame that comes, the snapshot; it is   *)
(* not loaded.  What arrives in the same read is thrown away; a read that  *)
(* ends within a frame counts as a failure.                                *)
perform_initial_sync(t) ==
  LET c == thread[t].conn
      stream == conn[c].stream
  IN /\ thread[t].pc = "reply" /\ stream # <<>>
     /\ \E k \in 1 .. Len(stream), torn \in BOOLEAN :
          /\ conn' = [conn EXCEPT ![c].stream = After(stream, k, torn)]
          /\ torn => failures < MaxFailures
          /\ failures' = IF torn THEN failures + 1 ELSE failures
     /\ ThreadOnly(t, "offset")
     /\ UNCHANGED role /\ Rest

initial_offset == 0

(* The offset starts at 0, whatever FULLRESYNC says. *)
update_replica_offset(t) ==
  /\ thread[t].pc = "offset"
  /\ IF IsReplica THEN role' = [role EXCEPT !.offset = initial_offset] /\ ThreadOnly(t, "synced")
                  ELSE UNCHANGED role /\ ThreadOnly(t, "failed")
  /\ UNCHANGED <<conn, failures>> /\ Rest

stop_requested(t) == thread[t].stop

(* The head of the loop. *)
continuous_replication(t) ==
  /\ thread[t].pc = "loop"
  /\ IF stop_requested(t) THEN Without(t, "run") /\ conn' = Hangup(thread[t].conn)
                          ELSE ThreadOnly(t, "read") /\ UNCHANGED conn
  /\ UNCHANGED <<role, failures>> /\ Rest

read(t) ==
  LET c == thread[t].conn
      stream == conn[c].stream
  IN /\ thread[t].pc = "read"
     /\ \E k \in 1 .. Len(stream) :
          /\ conn' = [conn EXCEPT ![c].stream = After(stream, k, FALSE)]
          /\ thread' = [thread EXCEPT ![t].pc = "process", ![t].buf = SubSeq(stream, 1, k),
                                      ![t].late = IF thread[t].stop THEN @ + 1 ELSE @]
     /\ UNCHANGED <<role, failures>> /\ Rest

(* Nothing came for a second.  An ACK that would repeat the last one, or   *)
(* join another on its way, is left out.                                   *)
send_ack(t) ==
  LET c == thread[t].conn
  IN /\ thread[t].pc = "read" /\ conn[c].open /\ conn[c].stream = <<>>
     /\ conn' = IF conn[c].acks # <<>> \/ conn[c].ack = role.offset THEN conn
                ELSE [conn EXCEPT ![c].acks = <<role.offset>>]
     /\ ThreadOnly(t, "loop")
     /\ UNCHANGED <<role, failures>> /\ Rest

(* The next frame of what was read, or back to the head of the loop. *)
Onward(buf) == IF buf = <<>> THEN "loop" ELSE "process"

(* One frame of what was read.  A reply is no command.  A command that the *)
(* replica knows is executed in its storage, one that it does not know is  *)
(* skipped; both count, but not a command that fails in the storage.  The  *)
(* rest of a torn frame is an error or is taken for a reply.                *)
process_replication_command(t) ==
  LET f == Head(thread[t].buf)
      rest == Tail(thread[t].buf)
      Go(pc, last) == thread' = [thread EXCEPT ![t].pc = pc, ![t].buf = rest, ![t].last = last]
  IN /\ thread[t].pc = "process"
     /\ CASE f.kind = "cmd" -> Go("count", f.n) \/ Go(Onward(rest), f.n)
          [] f.kind = "torn" -> \/ Go(Onward(rest), thread[t].last)
                                \/ Go("failed", thread[t].last)
          [] OTHER -> Go(Onward(rest), thread[t].last)
     /\ UNCHANGED <<conn, role, failures>> /\ Rest

(* The offset is read and written under two locks. *)
get_repl_offset(t) ==
  /\ thread[t].pc = "count"
  /\ thread' = [thread EXCEPT ![t].pc = "store", ![t].tmp = role.offset]
  /\ UNCHANGED <<conn, role, failures>> /\ Rest

store_offset(t) ==
  /\ thread[t].pc = "store"
  /\ role' = IF IsReplica THEN [role EXCEPT !.offset = thread[t].tmp + 1] ELSE role
  /\ thread' = [thread EXCEPT ![t].pc = Onward(thread[t].buf), ![t].tmp = 0]
  /\ UNCHANGED <<conn, failures>> /\ Rest


(* There is no limit on retries. *)
retry == "run"

(* Mutation: the failure is not reported. *)
link_after_failure_kept == role.link

link_after_failure == "down"

(* The link is marked down, the thread sleeps and starts over. *)
connection_failed(t) ==
  /\ thread[t].pc = "failed"
  /\ conn' = IF thread[t].conn = 0 THEN conn ELSE Hangup(thread[t].conn)
  /\ IF IsReplica THEN update_master_link_status(link_after_failure) ELSE UNCHANGED role
  /\ Without(t, retry)
  /\ UNCHANGED failures /\ Rest

-----------------------------------------------------------------------------
(* Failures *)

(* A connection is refused, a reply is wrong or comes too late. *)
attempt_fails(t) ==
  /\ thread[t].pc \in {"dial", "handshake", "psync", "reply"}
  /\ failures < MaxFailures /\ failures' = failures + 1
  /\ ThreadOnly(t, "failed")
  /\ UNCHANGED <<conn, role>> /\ Rest

connection_breaks(c) ==
  /\ conn[c].open
  /\ failures < MaxFailures /\ failures' = failures + 1
  /\ conn' = [conn EXCEPT ![c].open = FALSE]
  /\ UNCHANGED PrimaryVars /\ UNCHANGED SecondVars

(* The thread finds the connection closed, before or after it has read     *)
(* what was on its way.                                                    *)
read_fails(t) ==
  /\ thread[t].pc \in {"handshake", "psync", "reply", "read"}
  /\ ~conn[thread[t].conn].open
  /\ ThreadOnly(t, "failed")
  /\ UNCHANGED <<conn, role, failures>> /\ Rest

-----------------------------------------------------------------------------
ThreadStep(t) ==
  \/ run(t) \/ connect_and_replicate(t) \/ connect_to_master(t)
  \/ perform_handshake(t) \/ send_psync(t) \/ perform_initial_sync(t)
  \/ update_replica_offset(t) \/ continuous_replication(t)
  \/ read(t) \/ send_ack(t) \/ process_replication_command(t)
  \/ get_repl_offset(t) \/ store_offset(t)
  \/ connection_failed(t) \/ read_fails(t)

PrimaryStep == \E c \in Conns : handle_sync_command(c) \/ handle_replconf(c)

ReplicationNext ==
  \/ process_normal_command
  \/ demote \/ promote
  \/ PrimaryStep
  \/ replicaof \/ set_master
  \/ \E t \in Threads : ThreadStep(t) \/ attempt_fails(t)
  \/ \E c \in Conns : connection_breaks(c)

(* Threads run, reads time out after a second at most, the main threads    *)
(* serve what has arrived.                                                 *)
ReplicationSpec ==
  /\ ReplicationInit /\ [][ReplicationNext]_vars
  /\ \A t \in Threads : WF_vars(ThreadStep(t))
  /\ \A c \in Conns : WF_vars(handle_sync_command(c))
  /\ WF_vars(set_master)
-----------------------------------------------------------------------------
(* Properties *)

Streaming == {"loop", "read", "process", "count", "store"}
Kinds == {"rdb", "sync", "ok", "torn", "cmd"}

ReplicationTypeOK ==
  /\ primary.offset \in 0 .. primary.writes
  /\ replicas \subseteq Conns
  /\ Len(backlog.buffer) <= BacklogSize
  /\ \A c \in Conns : \A i \in DOMAIN conn[c].stream : conn[c].stream[i].kind \in Kinds
  /\ role.kind \in {"master", "replica"}
  /\ role.link \in {"none", "connecting", "synchronizing", "up", "down"}
  /\ order.flag \in Threads \cup {0}
  /\ \A t \in Threads : thread[t].late \in {0, 1} \* reads after it was asked to stop
  /\ \A t \in Threads : thread[t].pc \in {"handshake", "greeted", "psync", "reply", "offset",
                                          "synced"} \cup Streaming => thread[t].conn \in Conns

(* The backlog is a window on everything that was propagated: the bytes    *)
(* from an offset are those appended from there on, and an offset outside  *)
(* is refused (append_command, get_data_from_offset).  The primary's       *)
(* demotions do not disturb it.                                            *)
BacklogIsWindow ==
  LET end == backlog.start + Len(backlog.buffer)
  IN \A offset \in 0 .. MaxWrites * FrameBytes :
       get_data_from_offset(offset)
         = IF backlog.start <= offset /\ offset < end
             THEN [i \in 1 .. end - offset |-> offset + i - 1] ELSE <<>>

(* The commands a thread has still to process. *)
Commands(t) ==
  SelectSeq(thread[t].buf \o conn[thread[t].conn].stream,
            LAMBDA f : f.kind = "cmd")

(* Behind the first command that a thread processes, none is missing, none *)
(* comes twice and none overtakes another, up to the last one the primary  *)
(* has executed: commands are lost only with the read that brought the     *)
(* snapshot (perform_initial_sync).                                        *)
NoGap ==
  \A t \in Threads : thread[t].pc \in Streaming =>
    LET todo == Commands(t)
        c == thread[t].conn
    IN /\ \A i \in 1 .. Len(todo) - 1 : todo[i + 1].n = todo[i].n + 1
       /\ todo # <<>> /\ thread[t].last # 0 => todo[1].n = thread[t].last + 1
       /\ c \in replicas /\ conn[c].open =>
            /\ todo # <<>> => todo[Len(todo)].n = primary.writes
            /\ todo = <<>> /\ thread[t].last # 0 => thread[t].last = primary.writes

(* A thread that waits for commands is in the primary's table, so that it  *)
(* will be sent the next one, unless the connection is gone or the primary *)
(* was made a replica since (handle_sync_command, add_replica).            *)
StreamingRegistered ==
  \A t \in Threads : thread[t].pc \in Streaming =>
    LET c == thread[t].conn
    IN conn[c].open /\ conn[c].era = primary.demotions => c \in replicas

(* A thread that has come to the stream of commands will process every     *)
(* command from its first one on, in order and once, and stays in the      *)
(* primary's table (propagate_command, continuous_replication).            *)
StreamWhole == NoGap /\ StreamingRegistered

(* The link is reported as up only while commands are being read from it,  *)
(* provided that no older thread was alive when the present one started    *)
(* (connect_and_replicate, run).                                           *)
LinkHonest ==
  order.alone /\ order.pc = "idle" /\ IsReplica /\ role.link = "up" =>
    thread[order.flag].pc \in Streaming \cup {"failed"}

(* Under the same condition the offset counts no more commands than were   *)
(* sent up to the last one processed, and the primary never believes the   *)
(* replica to be further than it is (process_replication_command,          *)
(* handle_replconf).                                                       *)
OffsetHonest ==
  order.alone /\ order.pc = "idle" /\ IsReplica /\ thread[order.flag].pc \in Streaming =>
    LET c == thread[order.flag].conn
        last == thread[order.flag].last
    IN /\ role.offset <= IF last = 0 THEN 0 ELSE last - conn[c].first
       /\ conn[c].ack <= role.offset

(* What the second server says of its link, and both servers of its        *)
(* offset, is true while one thread at a time was started.                 *)
ReportsHonest == LinkHonest /\ OffsetHonest

(* A thread that was asked to stop is still there. *)
Lingering == \E t \in Threads : thread[t].stop /\ thread[t].pc # "ended"

(* Threads that are asked to stop end, whatever they are doing: a time     *)
(* comes when none of them is left (run, continuous_replication).          *)
StoppedThreadsEnd == Lingering ~> ~Lingering

Follows ==
  order.flag # 0 /\ thread[order.flag].pc \in Streaming /\ (order.alone => role.link = "up")

=============================================================================

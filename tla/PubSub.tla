------------------------------- MODULE PubSub -------------------------------
(***************************************************************************)
(* Publish/subscribe (pubsub.rs) and the life of a connection in the main  *)
(* loop: read, execute, buffer the output, flush it, close and clean up    *)
(* (network/connection.rs, network/server.rs).                             *)
(*                                                                         *)
(* One turn of the loop goes through the phases accept, serve, write and   *)
(* cleanup.  The peers run beside it: a peer may read, be slow or close.   *)
(* A write buffer is the number of frames in it; what the confirmations    *)
(* and messages among them tell the client is recorded as a history.       *)
(* Which patterns match which channels is a constant.                      *)
(***************************************************************************)
EXTENDS Integers, Sequences, FiniteSets

CONSTANTS
  Clients,      \* connection ids that may be given out
  Channels,
  Patterns,
  Matches,      \* [Patterns -> SUBSET Channels], the result of pattern_matches
  Requests,     \* [Clients -> names of the requests the client sends]
  Peers,        \* [Clients -> what the other side may do]
  MaxBuffer,    \* bound on the frames in one buffer
  MaxMessages,  \* bound on the messages published
  MaxBatch      \* bound on the requests of one batch

ASSUME PubSubAssumption ==
  /\ Matches \in [Patterns -> SUBSET Channels] /\ Channels \cap Patterns = {}
  /\ Requests \in [Clients -> SUBSET STRING]
  /\ Peers \in [Clients -> SUBSET {"reading", "slow", "closed"}]
  /\ MaxBuffer \in Nat /\ MaxMessages \in Nat /\ MaxBatch \in Nat \ {0}

VARIABLES
  conn,           \* [Clients -> connection state]
  channels,       \* [Channels -> SUBSET Clients]
  patterns,       \* [Patterns -> SUBSET Clients]
  connections,    \* [Clients -> SubscriberInfo as one set, or NoInfo]
  write_buffer,   \* [Clients -> number of frames to be written]
  pending_writes, \* connections to flush at the end of the turn
  loop,           \* where the main thread is
  peer,           \* [Clients -> what the other side does]
  published,      \* number of messages published
  view,           \* history: [Clients -> subscriptions confirmed to the client]
  sent,           \* history: [Clients -> messages sent to the client]
  due             \* history: [Clients -> messages the client had asked for]

tables == <<channels, patterns, connections>>
history == <<view, sent, due>>
vars == <<conn, tables, write_buffer, pending_writes, loop, peer, published, history>>

Subscriptions == Channels \cup Patterns
NoInfo == {"no info"}
InMap(c) == conn[c] \in {"open", "closing"}
is_subscribed(c) == connections[c] # NoInfo
Info(c) == IF is_subscribed(c) THEN connections[c] ELSE {}

Serve(todo, failed, writes) ==
  [pc |-> "serve", todo |-> todo, failed |-> failed, writes |-> writes]
At(pc) == loop.pc = pc

PubSubInit ==
  /\ conn = [c \in Clients |-> "absent"]
  /\ channels = [ch \in Channels |-> {}]
  /\ patterns = [p \in Patterns |-> {}]
  /\ connections = [c \in Clients |-> NoInfo]
  /\ write_buffer = [c \in Clients |-> 0]
  /\ pending_writes = {}
  /\ loop = [pc |-> "accept"]
  /\ peer = [c \in Clients |-> "reading"]
  /\ published = 0
  /\ view = [c \in Clients |-> {}]
  /\ sent = [c \in Clients |-> <<>>]
  /\ due = [c \in Clients |-> <<>>]

-----------------------------------------------------------------------------
(* Output *)


(* Mutation: what was written is counted twice. *)
flush_twice(c, n) ==
  IF n = 0 THEN {[left |-> 0, result |-> "ok"]}
  ELSE CASE peer[c] = "reading" -> {[left |-> 0 - n, result |-> "ok"]}
         [] peer[c] = "slow" -> [left : 1 .. n, result : {"ok", "would block"}]
         [] peer[c] = "closed" -> [left : {0}, result : {"ok"}] \cup [left : {n}, result : {"io"}]

(* What flush makes of n frames in the buffer: everything is written, some *)
(* are left after five attempts that would block (an error) or were        *)
(* interrupted (none), or the peer has closed.  The first write to a       *)
(* closed peer may still succeed.                                          *)
flush(c, n) ==
  IF n = 0 THEN {[left |-> 0, result |-> "ok"]}
  ELSE CASE peer[c] = "reading" -> {[left |-> 0, result |-> "ok"]}
         [] peer[c] = "slow" -> [left : 1 .. n, result : {"ok", "would block"}]
         [] peer[c] = "closed" -> [left : {0}, result : {"ok"}] \cup [left : {n}, result : {"io"}]

-----------------------------------------------------------------------------
(* The subscription tables.  Channels and patterns of a connection are     *)
(* kept apart in the code and are one set here, since they are disjoint.   *)

subscribe(c, ch) ==
  /\ connections' = [connections EXCEPT ![c] = Info(c) \cup {ch}]
  /\ channels' = [channels EXCEPT ![ch] = @ \cup {c}]
  /\ UNCHANGED patterns

psubscribe(c, p) ==
  /\ connections' = [connections EXCEPT ![c] = Info(c) \cup {p}]
  /\ patterns' = [patterns EXCEPT ![p] = @ \cup {c}]
  /\ UNCHANGED channels

(* What is left of a connection's information; nothing if it is empty. *)
Remaining(c, S) == IF Info(c) \subseteq S THEN NoInfo ELSE Info(c) \ S

unsubscribe(c, S) ==
  /\ connections' = [connections EXCEPT ![c] = Remaining(c, S)]
  /\ channels' = [ch \in Channels |-> IF ch \in S THEN channels[ch] \ {c} ELSE channels[ch]]
  /\ UNCHANGED patterns

punsubscribe(c, S) ==
  /\ connections' = [connections EXCEPT ![c] = Remaining(c, S)]
  /\ patterns' = [p \in Patterns |-> IF p \in S THEN patterns[p] \ {c} ELSE patterns[p]]
  /\ UNCHANGED channels

unsubscribe_all(C) ==
  /\ channels' = [ch \in Channels |-> channels[ch] \ C]
  /\ patterns' = [p \in Patterns |-> patterns[p] \ C]
  /\ connections' = [c \in Clients |-> IF c \in C THEN NoInfo ELSE connections[c]]

(* Mutation: subscribers by pattern are told only if nobody has the        *)
(* channel itself.                                                         *)
publish_either(ch) ==
  IF channels[ch] # {} THEN channels[ch]
  ELSE UNION {patterns[p] : p \in {q \in Patterns : ch \in Matches[q]}}

(* The receivers of a message, each once however many of its subscriptions *)
(* match.                                                                  *)
publish(ch) ==
  channels[ch] \cup UNION {patterns[p] : p \in {q \in Patterns : ch \in Matches[q]}}

-----------------------------------------------------------------------------
(* A turn of the main loop *)

accept_single_connection(c) ==
  /\ At("accept") /\ conn[c] = "absent"
  /\ conn' = [conn EXCEPT ![c] = "open"]
  /\ UNCHANGED <<tables, write_buffer, pending_writes, loop, peer, published, history>>

process_connections ==
  /\ At("accept")
  /\ loop' = Serve({c \in Clients : InMap(c)}, {}, {})
  /\ UNCHANGED <<conn, tables, write_buffer, pending_writes, peer, published, history>>

Batch(c, room) ==
  [pc |-> "batch", cur |-> c, room |-> room, responses |-> 0, quit |-> FALSE,
   todo |-> loop.todo \ {c}, failed |-> loop.failed, writes |-> loop.writes]

(* First phase: flush, then read.  A hard error fails the connection, a    *)
(* flush that would block skips the read, and the end of input only marks  *)
(* the connection, closing ones being served like the others.              *)
process_connection(c) ==
  /\ At("serve") /\ c \in loop.todo
  /\ \E f \in flush(c, write_buffer[c]) :
       /\ write_buffer' = [write_buffer EXCEPT ![c] = f.left]
       /\ \/ /\ f.result = "io"
             /\ loop' = [loop EXCEPT !.todo = @ \ {c}, !.failed = @ \cup {c}]
             /\ UNCHANGED conn
          \/ /\ f.result = "would block"
             /\ loop' = Batch(c, 0)
             /\ UNCHANGED conn
          \/ /\ f.result = "ok" /\ peer[c] = "closed"
             /\ loop' = Batch(c, 0)
             /\ conn' = [conn EXCEPT ![c] = "closing"]
          \/ /\ f.result = "ok"
             /\ loop' = Batch(c, MaxBatch)
             /\ UNCHANGED conn
  /\ UNCHANGED <<tables, pending_writes, peer, published, history>>

(* Second phase: a request is executed; its reply waits for the end of the *)
(* batch.                                                                  *)
Request(c, name, replies) ==
  /\ At("batch") /\ loop.cur = c /\ loop.room > 0
  /\ name \in Requests[c]
  /\ write_buffer[c] + loop.responses < MaxBuffer
  /\ loop' = [loop EXCEPT !.room = @ - 1, !.responses = @ + replies,
                         !.quit = @ \/ name = "quit"]
  /\ UNCHANGED <<pending_writes, peer>>

handle_ping(c) == Request(c, "ping", 1) /\ UNCHANGED <<conn, tables, write_buffer, published, history>>

handle_quit(c) == Request(c, "quit", 1) /\ UNCHANGED <<conn, tables, write_buffer, published, history>>

(* CLIENT KILL of another connection. *)
close_connection(c, d) ==
  /\ Request(c, "kill", 1) /\ d # c /\ InMap(d)
  /\ conn' = [conn EXCEPT ![d] = "closing"]
  /\ UNCHANGED <<tables, write_buffer, published, history>>

(* Confirmations are written and flushed at once, before the replies to    *)
(* earlier requests of the batch; errors of this flush are dropped.        *)
Confirm(c, frames, confirmed) ==
  /\ \E f \in flush(c, write_buffer[c] + frames) :
       write_buffer' = [write_buffer EXCEPT ![c] = f.left]
  /\ view' = [view EXCEPT ![c] = confirmed]
  /\ UNCHANGED <<conn, published, sent, due>>

handle_subscribe(c, ch) ==
  /\ Request(c, "subscribe", 0)
  /\ subscribe(c, ch)
  /\ Confirm(c, 1, view[c] \cup {ch})

handle_psubscribe(c, p) ==
  /\ Request(c, "psubscribe", 0)
  /\ psubscribe(c, p)
  /\ Confirm(c, 1, view[c] \cup {p})

(* With a name, or without one: all of its kind. *)
Asked(c, Kind) == {{s} : s \in Kind} \cup {Info(c) \cap Kind}

(* One confirmation for each name, none if the connection has no           *)
(* subscription at all.                                                    *)
Confirmations(c, S) == IF is_subscribed(c) THEN Cardinality(S) ELSE 0

handle_unsubscribe(c) ==
  /\ Request(c, "unsubscribe", 0)
  /\ \E S \in Asked(c, Channels) :
       unsubscribe(c, S) /\ Confirm(c, Confirmations(c, S), view[c] \ S)

handle_punsubscribe(c) ==
  /\ Request(c, "unsubscribe", 0)
  /\ \E S \in Asked(c, Patterns) :
       punsubscribe(c, S) /\ Confirm(c, Confirmations(c, S), view[c] \ S)

(* History: what a client may rely on, from the confirmations sent to it. *)
Wants(c, ch) ==
  \E x \in view[c] : x = ch \/ (x \in Patterns /\ ch \in Matches[x])

(* The frames go into the buffers of the receivers; nobody is told to      *)
(* flush them.                                                             *)
handle_publish(c, ch) ==
  LET m == published + 1
      to == {r \in publish(ch) : InMap(r)}
  IN /\ Request(c, "publish", 1)
     /\ published < MaxMessages
     /\ \A r \in to : write_buffer[r] < MaxBuffer
     /\ published' = m
     /\ sent' = [r \in Clients |-> IF r \in to THEN Append(sent[r], m) ELSE sent[r]]
     /\ write_buffer' = [r \in Clients |-> IF r \in to THEN write_buffer[r] + 1 ELSE write_buffer[r]]
     /\ due' = [r \in Clients |-> IF Wants(r, ch) THEN Append(due[r], m) ELSE due[r]]
     /\ UNCHANGED <<conn, tables, view>>

(* Third phase: the replies are written and flushed.  Errors only leave    *)
(* output behind, for the end of the turn.                                 *)
send_responses(c) ==
  /\ At("batch") /\ loop.cur = c
  /\ \E f \in flush(c, write_buffer[c] + loop.responses) :
       /\ write_buffer' = [write_buffer EXCEPT ![c] = f.left]
       /\ loop' = Serve(loop.todo, loop.failed,
                        IF f.left > 0 THEN loop.writes \cup {c} ELSE loop.writes)
  /\ conn' = IF loop.quit THEN [conn EXCEPT ![c] = "closing"] ELSE conn
  /\ UNCHANGED <<tables, pending_writes, peer, published, history>>

(* An idle connection without subscriptions is closed. *)
idle_timeout(c) ==
  /\ At("batch") /\ loop.cur = c
  /\ loop.room = MaxBatch /\ write_buffer[c] = 0 /\ ~is_subscribed(c)
  /\ conn' = [conn EXCEPT ![c] = "closing"]
  /\ loop' = Serve(loop.todo, loop.failed \cup {c}, loop.writes)
  /\ UNCHANGED <<tables, write_buffer, pending_writes, peer, published, history>>

(* Connections leave the map, and their buffers with them. *)
Disconnect(C) ==
  /\ unsubscribe_all(C)
  /\ conn' = [c \in Clients |-> IF c \in C THEN "gone" ELSE conn[c]]
  /\ write_buffer' = [c \in Clients |-> IF c \in C THEN 0 ELSE write_buffer[c]]
  /\ view' = [c \in Clients |-> IF c \in C THEN {} ELSE view[c]]
  /\ sent' = [c \in Clients |-> IF c \in C THEN <<>> ELSE sent[c]]
  /\ due' = [c \in Clients |-> IF c \in C THEN <<>> ELSE due[c]]

remove_failed ==
  /\ At("serve") /\ loop.todo = {}
  /\ Disconnect(loop.failed)
  /\ loop' = [pc |-> "write", todo |-> pending_writes \cup loop.writes]
  /\ pending_writes' = {}
  /\ UNCHANGED <<peer, published>>

(* A flush that would block closes the connection here. *)
process_pending_writes(c) ==
  /\ At("write") /\ c \in loop.todo
  /\ loop' = [loop EXCEPT !.todo = @ \ {c}]
  /\ \E f \in flush(c, write_buffer[c]) :
       /\ write_buffer' = [write_buffer EXCEPT ![c] = f.left]
       /\ pending_writes' = IF f.result = "ok" /\ f.left > 0
                              THEN pending_writes \cup {c} ELSE pending_writes
       /\ conn' = IF f.result = "would block" /\ InMap(c)
                    THEN [conn EXCEPT ![c] = "closing"] ELSE conn
  /\ UNCHANGED <<tables, peer, published, history>>

(* Mutation: the subscriptions of a closing connection do not matter. *)
cleanup_connections_eager ==
  /\ At("write") /\ loop.todo = {}
  /\ conn' = [c \in Clients |-> IF conn[c] = "closing" THEN "gone" ELSE conn[c]]
  /\ loop' = [pc |-> "accept"]
  /\ UNCHANGED <<tables, write_buffer, pending_writes, peer, published, history>>

(* Closing connections are removed, unless they have subscriptions. *)
cleanup_connections ==
  /\ At("write") /\ loop.todo = {}
  /\ Disconnect({c \in Clients : conn[c] = "closing" /\ ~is_subscribed(c)})
  /\ loop' = [pc |-> "accept"]
  /\ UNCHANGED <<pending_writes, peer, published>>

Run ==
  \/ process_connections
  \/ remove_failed
  \/ cleanup_connections
  \/ \E c \in Clients :
       \/ accept_single_connection(c) \/ process_connection(c)
       \/ handle_ping(c) \/ handle_quit(c)
       \/ handle_unsubscribe(c) \/ handle_punsubscribe(c)
       \/ send_responses(c) \/ idle_timeout(c) \/ process_pending_writes(c)
       \/ \E d \in Clients : close_connection(c, d)
       \/ \E ch \in Channels : handle_subscribe(c, ch) \/ handle_publish(c, ch)
       \/ \E p \in Patterns : handle_psubscribe(c, p)

(* The other side.  What it does shows when the server reads or writes. *)
PeerStep(c, p) ==
  /\ InMap(c) /\ p \in Peers[c] /\ peer[c] \notin {p, "closed"}
  /\ peer' = [peer EXCEPT ![c] = p]
  /\ UNCHANGED <<conn, tables, write_buffer, pending_writes, loop, published, history>>

Next == Run \/ \E c \in Clients, p \in {"reading", "slow", "closed"} : PeerStep(c, p)

(* The main loop never stops. *)
PubSubSpec == PubSubInit /\ [][Next]_vars /\ WF_vars(Run)

-----------------------------------------------------------------------------
(* Properties *)

PubSubTypeOK ==
  /\ conn \in [Clients -> {"absent", "open", "closing", "gone"}]
  /\ channels \in [Channels -> SUBSET Clients] /\ patterns \in [Patterns -> SUBSET Clients]
  /\ connections \in [Clients -> SUBSET Subscriptions \cup {NoInfo}]
  /\ pending_writes \subseteq Clients
  /\ published \in 0 .. MaxMessages
  /\ write_buffer \in [Clients -> Nat]

(* The tables by name and by connection say the same, empty entries are    *)
(* dropped and a connection that has left the map is in none of them, so   *)
(* that nothing is published to an id that is gone (subscribe ..           *)
(* unsubscribe_all, and the three places that remove a connection).        *)
TablesAgree ==
  \A c \in Clients :
    /\ \A ch \in Channels : c \in channels[ch] <=> ch \in Info(c)
    /\ \A p \in Patterns : c \in patterns[p] <=> p \in Info(c)
    /\ connections[c] # {}
    /\ is_subscribed(c) => InMap(c)

(* A client is sent every message that was published between the           *)
(* confirmations of its subscription and of its end, in order, once, and   *)
(* no other, whichever channels and patterns overlap (handle_subscribe,    *)
(* handle_unsubscribe, handle_publish).                                    *)
DeliveredAsConfirmed == \A c \in Clients : sent[c] = due[c]


(* A write that would block does not cost an open connection its life.     *)
SlowReaderKept ==
  [][At("write") => \A c \in Clients :
       conn[c] = "open" /\ peer[c] # "closed" => conn'[c] = "open"]_vars
=============================================================================

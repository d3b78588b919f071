------------------------------ MODULE MCPubSub ------------------------------
(* Finite instances of PubSub: a channel and a pattern that matches it. *)
EXTENDS PubSub

(* One client that publishes, one that subscribes and is a bad reader.     *)
Roles == [c \in Clients |-> IF c = "pub" THEN {"publish", "kill", "subscribe"}
  ELSE {"ping", "quit", "subscribe", "psubscribe", "unsubscribe"}]
Behaviours == [c \in Clients |-> IF c = "pub" THEN {"reading"} ELSE {"reading", "slow", "closed"}]
AllMatch == [p \in Patterns |-> Channels]
=============================================================================

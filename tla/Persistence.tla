---------------------------- MODULE Persistence ----------------------------
(***************************************************************************)
(* Snapshots of the keyspace on disk (storage/rdb.rs): SAVE in the main    *)
(* thread, BGSAVE in a thread of its own, the monitor that starts a BGSAVE *)
(* after enough changes (storage/monitor.rs), SHUTDOWN, the end of the     *)
(* process at any moment, and the load at its next start.                  *)
(*                                                                         *)
(* A save reads the keys one after the other while commands go on, writes  *)
(* them to a temporary file and renames that file.  Every save uses the    *)
(* same temporary name, so files are kept by inode: two saves that overlap *)
(* write into one file, each at its own position, and one may go on        *)
(* writing after the other has renamed it.                                 *)
(*                                                                         *)
(* A file is a sequence of blocks, one per key and one for the end; each   *)
(* block reaches the file by a write of its own.  Contents are numbered by *)
(* the command that wrote them, 0 is a missing key.  One database.         *)
(***************************************************************************)
EXTENDS Integers, Sequences, FiniteSets

CONSTANTS
  Keys,        \* key names, strings
  SaveRules,   \* set of <<seconds, changes>>
  Saved,       \* sequence of the keys in the dump that the first start finds
  Ttls,        \* what a SET may ask for: durations, or NoTime
  MaxWrites,   \* bound on the commands that change a key
  MaxSaves,    \* bound on the saves that clients ask for
  MaxFaults,   \* bound on write errors and ends of the process
  MaxTime      \* bound on the clock that deadlines refer to

ASSUME PersistenceAssumption ==
  /\ IsFiniteSet(Keys) /\ {"eof", "hole"} \cap Keys = {}
  /\ SaveRules \subseteq Nat \X Nat /\ Ttls \subseteq Int
  /\ Saved \in Seq(Keys) /\ \A i, j \in 1 .. Len(Saved) : Saved[i] = Saved[j] => i = j
  /\ MaxWrites \in Nat /\ MaxSaves \in Nat /\ MaxFaults \in Nat /\ MaxTime \in Nat

VARIABLES
  data,                \* [Keys -> Value]
  now,                 \* the clock
  main,                \* what the main thread is doing
  save,                \* [Savers -> the save of that thread]
  bgsave_in_progress,  \* the flag of the RDB engine
  changes_since_save,  \* the counter of the storage monitor
  monitor,             \* the monitor thread: pc and seconds since the last save
  files,               \* [Inodes -> Seq(Block)]
  dump,                \* inode of dump.rdb, or NoFile
  tmp,                 \* inode of dump.tmp, or NoFile
  writes, saves, faults, \* counts against the bounds
  held,                \* history: [Keys -> contents since the save in dump.rdb began]
  clean                \* history: no other save overlapped the one in dump.rdb

engineVars == <<bgsave_in_progress, changes_since_save, monitor>>
diskVars == <<files, dump, tmp>>
counts == <<writes, saves, faults>>
history == <<held, clean>>
vars == <<data, now, main, save, engineVars, diskVars, counts, history>>

Savers == {"main", "bgsave"}
Inodes == 1 .. 3   \* dump.rdb, dump.tmp and one that a save still writes to
NoFile == 0
NoTime == -1
Old == MaxWrites + 1   \* contents from before the first start
Contents == 0 .. Old
Value == [content : Contents, expires_at : {NoTime} \cup 0 .. MaxTime]
Missing == [content |-> 0, expires_at |-> NoTime]
Block == [key : Keys \cup {"eof", "hole"}, value : Value]
Eof == [key |-> "eof", value |-> Missing]
Hole == [key |-> "hole", value |-> Missing]
NoSave == [pc |-> "none", inode |-> NoFile, pos |-> 0, keys |-> {}, block |-> Hole,
           seen |-> [k \in Keys |-> {}], alone |-> TRUE]
AtRest == [pc |-> "sleep", elapsed |-> 0]
Longest == CHOOSE s \in {r[1] : r \in SaveRules} : \A r \in SaveRules : r[1] <= s

FirstDump ==
  IF Saved = <<>> THEN <<>>
  ELSE [i \in 1 .. Len(Saved) |->
          [key |-> Saved[i], value |-> [content |-> Old, expires_at |-> NoTime]]] \o <<Eof>>

Init ==
  /\ data = [k \in Keys |-> Missing]
  /\ now = 0
  /\ main = "down"
  /\ save = [t \in Savers |-> NoSave]
  /\ bgsave_in_progress = FALSE
  /\ changes_since_save = 0
  /\ monitor = AtRest
  /\ files = [i \in Inodes |-> IF i = 1 THEN FirstDump ELSE <<>>]
  /\ dump = (IF Saved = <<>> THEN NoFile ELSE 1) /\ tmp = NoFile
  /\ writes = 0 /\ saves = 0 /\ faults = 0
  /\ held = [k \in Keys |-> {IF \E i \in 1 .. Len(Saved) : Saved[i] = k THEN Old ELSE 0}]
  /\ clean = TRUE

Present(k) == data[k] # Missing
is_expired(v) == v.expires_at # NoTime /\ now > v.expires_at

(* A value is stored or removed; the histories take note of it. *)
Store(k, v) ==
  /\ data' = [data EXCEPT ![k] = v]
  /\ held' = [held EXCEPT ![k] = @ \cup {v.content}]
  /\ UNCHANGED clean

Note(s, k, v) == IF s.pc = "none" THEN s ELSE [s EXCEPT !.seen[k] = @ \cup {v.content}]

-----------------------------------------------------------------------------
(* Commands.  The engine call and record_change are two steps: the monitor *)
(* and the background save run in between.                                 *)

Write(k, v) ==
  /\ main = "idle" /\ writes < MaxWrites
  /\ Store(k, v)
  /\ save' = [t \in Savers |-> Note(save[t], k, v)]
  /\ writes' = writes + 1
  /\ main' = "record"
  /\ UNCHANGED <<now, engineVars, diskVars, saves, faults>>

set_value(k, d) ==
  Write(k, [content |-> writes + 1, expires_at |-> IF d = NoTime THEN NoTime ELSE now + d])

(* DEL of a key that is not there counts as a change too. *)
delete(k) == Write(k, Missing)

record_change ==
  /\ main = "record"
  /\ changes_since_save' = changes_since_save + 1
  /\ main' = "idle"
  /\ UNCHANGED <<data, now, save, bgsave_in_progress, monitor, diskVars, counts, history>>

(* The expiration thread removes a key; nobody records that as a change. *)
expire_key(k) ==
  /\ main # "down" /\ is_expired(data[k])
  /\ Store(k, Missing)
  /\ save' = [t \in Savers |-> Note(save[t], k, Missing)]
  /\ UNCHANGED <<now, main, engineVars, diskVars, counts>>

-----------------------------------------------------------------------------
(* RdbEngine::save, the same in whichever thread it runs *)

Running(t) == save[t].pc # "none"

(* The saves when thread t begins one. *)
Begin(t) ==
  LET alone == \A u \in Savers : ~Running(u)
      new == [NoSave EXCEPT !.pc = "open", !.alone = alone,
                            !.seen = [k \in Keys |-> {data[k].content}]]
  IN [u \in Savers |-> IF u = t THEN new
                       ELSE [save[u] EXCEPT !.alone = ~Running(u)]]

FreeInode ==
  CHOOSE i \in Inodes : i # dump /\ \A u \in Savers : save[u].inode # i

(* write_snapshot opens the temporary file, truncating what is there, and  *)
(* lists the keys, expired ones that are still stored too.                 *)
write_snapshot(t) ==
  /\ save[t].pc = "open"
  /\ tmp' = IF tmp = NoFile THEN FreeInode ELSE tmp
  /\ files' = [files EXCEPT ![tmp'] = <<>>]
  /\ save' = [save EXCEPT ![t].pc = "keys", ![t].inode = tmp',
                          ![t].keys = {k \in Keys : Present(k)}]
  /\ UNCHANGED <<data, now, main, engineVars, dump, counts, history>>

(* Mutation: a key that was written stays in the list. *)
get_again(t, k) ==
  /\ save[t].pc = "keys" /\ k \in save[t].keys
  /\ save' = [save EXCEPT ![t].pc = "value", ![t].block = [key |-> k, value |-> data[k]]]
  /\ UNCHANGED <<data, now, main, engineVars, diskVars, counts, history>>

(* Reading an expired key removes it; a key that is gone is skipped. *)
get(t, k) ==
  LET s == [save[t] EXCEPT !.keys = @ \ {k}] IN
  /\ save[t].pc = "keys" /\ k \in save[t].keys
  /\ IF Present(k) /\ ~is_expired(data[k])
       THEN /\ save' = [save EXCEPT ![t] =
                         [s EXCEPT !.pc = "value", !.block = [key |-> k, value |-> data[k]]]]
            /\ UNCHANGED <<data, history>>
       ELSE /\ Store(k, Missing)
            /\ save' = [u \in Savers |-> Note(IF u = t THEN s ELSE save[u], k, Missing)]
  /\ UNCHANGED <<now, main, engineVars, diskVars, counts>>

(* A block written at a position; what lies between the end of the file    *)
(* and the position reads as zeros.                                        *)
WriteAt(f, i, b) ==
  [j \in 1 .. (IF i > Len(f) THEN i ELSE Len(f)) |->
     IF j = i THEN b ELSE IF j <= Len(f) THEN f[j] ELSE Hole]

Append_block(t, b, pc) ==
  LET n == save[t].pos + 1 IN
  /\ files' = [files EXCEPT ![save[t].inode] = WriteAt(@, n, b)]
  /\ save' = [save EXCEPT ![t].pc = pc, ![t].pos = n, ![t].block = Hole]
  /\ UNCHANGED <<data, now, main, engineVars, dump, tmp, counts, history>>

(* The time to live is read in a second call, from whatever the key is by  *)
(* then, and written as an instant; an expired key has none left.          *)
ttl(k) == IF ~Present(k) THEN NoTime
          ELSE IF is_expired(data[k]) THEN now ELSE data[k].expires_at

write_key_value(t) ==
  LET b == save[t].block IN
  /\ save[t].pc = "value"
  /\ Append_block(t, [b EXCEPT !.value.expires_at = ttl(b.key)], "keys")

(* Mutation: the file is renamed before its end is written. *)
write_eof_renamed(t) ==
  /\ save[t].pc = "keys" /\ save[t].keys = {}
  /\ dump' = tmp /\ tmp' = NoFile
  /\ held' = save[t].seen /\ clean' = save[t].alone
  /\ save' = [save EXCEPT ![t].pc = "rename"]
  /\ UNCHANGED <<data, now, main, engineVars, files, counts>>

write_eof(t) ==
  /\ save[t].pc = "keys" /\ save[t].keys = {}
  /\ Append_block(t, Eof, "rename")

(* A file without a name is gone; its contents do not matter any more. *)
Unlinked(d) == IF d = NoFile THEN files ELSE [files EXCEPT ![d] = <<>>]

(* Mutation: a dump that exists is kept. *)
rename_keeps_old(t) ==
  /\ save[t].pc = "rename"
  /\ tmp' = NoFile
  /\ dump' = IF dump = NoFile THEN tmp ELSE dump
  /\ held' = save[t].seen /\ clean' = save[t].alone
  /\ save' = [save EXCEPT ![t].pc = "ok"]
  /\ UNCHANGED <<data, now, main, engineVars, files, counts>>

(* The temporary file takes the place of the dump; if another save has     *)
(* renamed it already, this one fails.                                     *)
rename(t) ==
  /\ save[t].pc = "rename"
  /\ IF tmp # NoFile
       THEN /\ dump' = tmp /\ tmp' = NoFile
            /\ files' = Unlinked(dump)
            /\ held' = save[t].seen /\ clean' = save[t].alone
            /\ save' = [save EXCEPT ![t].pc = "ok"]
       ELSE /\ save' = [save EXCEPT ![t].pc = "err"]
            /\ UNCHANGED <<diskVars, history>>
  /\ UNCHANGED <<data, now, main, engineVars, counts>>

(* A write or the opening of the file fails: the save is given up and the  *)
(* temporary file stays as it is.                                          *)
io_error(t) ==
  /\ faults < MaxFaults /\ save[t].pc \notin {"none", "ok", "err"}
  /\ save' = [save EXCEPT ![t].pc = "err"]
  /\ faults' = faults + 1
  /\ UNCHANGED <<data, now, main, engineVars, diskVars, writes, saves, history>>

SaveStep(t) ==
  \/ write_snapshot(t) \/ write_key_value(t) \/ write_eof(t)
  \/ rename(t) \/ io_error(t) \/ \E k \in Keys : get(t, k)

-----------------------------------------------------------------------------
(* SAVE, BGSAVE and SHUTDOWN *)

handle_save ==
  /\ main = "idle" /\ saves < MaxSaves
  /\ main' = "save"
  /\ save' = Begin("main")
  /\ saves' = saves + 1
  /\ UNCHANGED <<data, now, engineVars, diskVars, writes, faults, history>>

(* SHUTDOWN saves and then lets the process end; SHUTDOWN NOSAVE is the    *)
(* end of the process alone.                                               *)
handle_shutdown ==
  /\ main = "idle" /\ saves < MaxSaves
  /\ main' = "shutdown"
  /\ save' = Begin("main")
  /\ saves' = saves + 1
  /\ UNCHANGED <<data, now, engineVars, diskVars, writes, faults, history>>

(* Only a SAVE that succeeded resets the counter. *)
save_done ==
  /\ save["main"].pc \in {"ok", "err"}
  /\ changes_since_save' = IF main = "save" /\ save["main"].pc = "ok"
                             THEN 0 ELSE changes_since_save
  /\ main' = "idle"
  /\ save' = [save EXCEPT !["main"] = NoSave]
  /\ UNCHANGED <<data, now, bgsave_in_progress, monitor, diskVars, counts, history>>

(* RdbEngine::bgsave: refused while one is in progress. *)
bgsave ==
  /\ bgsave_in_progress' = TRUE
  /\ save' = IF bgsave_in_progress THEN save ELSE Begin("bgsave")

(* BGSAVE does not reset the counter. *)
handle_bgsave ==
  /\ main = "idle" /\ saves < MaxSaves
  /\ bgsave
  /\ saves' = saves + 1
  /\ UNCHANGED <<data, now, main, changes_since_save, monitor, diskVars, writes, faults,
                 history>>

(* Mutation: the flag is cleared after success only. *)
bgsave_done_ok ==
  /\ save["bgsave"].pc \in {"ok", "err"}
  /\ bgsave_in_progress' = (save["bgsave"].pc = "err")
  /\ save' = [save EXCEPT !["bgsave"] = NoSave]
  /\ UNCHANGED <<data, now, main, changes_since_save, monitor, diskVars, counts, history>>

bgsave_done ==
  /\ save["bgsave"].pc \in {"ok", "err"}
  /\ bgsave_in_progress' = FALSE
  /\ save' = [save EXCEPT !["bgsave"] = NoSave]
  /\ UNCHANGED <<data, now, main, changes_since_save, monitor, diskVars, counts, history>>

-----------------------------------------------------------------------------
(* The monitor thread, once a second *)

Due(rule, changes) == changes >= rule[2] /\ monitor.elapsed >= rule[1]

(* Mutation: the rule asks for more changes than it says. *)
monitor_check_more ==
  /\ monitor.pc = "check"
  /\ IF \E r \in SaveRules : changes_since_save > r[2] /\ monitor.elapsed >= r[1]
       THEN /\ bgsave
            /\ monitor' = [monitor EXCEPT !.pc =
                              IF bgsave_in_progress THEN "sleep" ELSE "reset"]
       ELSE /\ monitor' = [monitor EXCEPT !.pc = "sleep"]
            /\ UNCHANGED <<bgsave_in_progress, save>>
  /\ UNCHANGED <<data, now, main, changes_since_save, diskVars, counts, history>>

monitor_sleep ==
  /\ main # "down" /\ monitor.pc = "sleep"
  /\ monitor' = [pc |-> "check",
                 elapsed |-> IF monitor.elapsed < Longest THEN monitor.elapsed + 1
                                                          ELSE Longest]
  /\ UNCHANGED <<data, now, main, save, bgsave_in_progress, changes_since_save, diskVars,
                 counts, history>>

(* The counter is read and the first rule that applies starts a save; one  *)
(* that is refused is tried again a second later.                          *)
monitor_check ==
  /\ monitor.pc = "check"
  /\ IF \E r \in SaveRules : Due(r, changes_since_save)
       THEN /\ bgsave
            /\ monitor' = [monitor EXCEPT !.pc =
                              IF bgsave_in_progress THEN "sleep" ELSE "reset"]
       ELSE /\ monitor' = [monitor EXCEPT !.pc = "sleep"]
            /\ UNCHANGED <<bgsave_in_progress, save>>
  /\ UNCHANGED <<data, now, main, changes_since_save, diskVars, counts, history>>

(* The counter is cleared after the save has begun. *)
monitor_reset ==
  /\ monitor.pc = "reset"
  /\ changes_since_save' = 0
  /\ monitor' = AtRest
  /\ UNCHANGED <<data, now, main, save, bgsave_in_progress, diskVars, counts, history>>

monitor_loop == monitor_sleep \/ monitor_check \/ monitor_reset

-----------------------------------------------------------------------------
(* The process ends at any moment: memory is lost, the files are not. *)
process_exit ==
  /\ main # "down" /\ faults < MaxFaults
  /\ main' = "down"
  /\ faults' = faults + 1
  /\ data' = [k \in Keys |-> Missing]
  /\ save' = [t \in Savers |-> NoSave]
  /\ bgsave_in_progress' = FALSE
  /\ changes_since_save' = 0
  /\ monitor' = AtRest
  /\ UNCHANGED <<now, diskVars, writes, saves, history>>

(* What the reader takes from a file: the keys before the first block that *)
(* is not one.  A deadline that has passed becomes no deadline.            *)
Loadable(f) == {i \in 1 .. Len(f) : \A j \in 1 .. i : f[j].key \in Keys}

read_key_value_with_expiry(v) ==
  IF v.expires_at > now THEN v ELSE [v EXCEPT !.expires_at = NoTime]

load_into(f) ==
  [k \in Keys |->
     LET found == {i \in Loadable(f) : f[i].key = k} IN
     IF found = {} THEN Missing
     ELSE read_key_value_with_expiry(
            f[CHOOSE i \in found : \A j \in found : j <= i].value)]

load == load_into(IF dump = NoFile THEN <<>> ELSE files[dump])

(* The server starts.  An error of the reader is reported, what was read   *)
(* before it is kept.                                                      *)
from_config ==
  /\ main = "down"
  /\ main' = "idle"
  /\ data' = load
  /\ held' = [k \in Keys |-> held[k] \cup {data'[k].content}]
  /\ UNCHANGED <<now, save, engineVars, diskVars, counts, clean>>

Tick ==
  /\ now < MaxTime
  /\ now' = now + 1
  /\ UNCHANGED <<data, main, save, engineVars, diskVars, counts, history>>

Next ==
  \/ \E k \in Keys : \/ delete(k) \/ expire_key(k)
                    \/ \E d \in Ttls : set_value(k, d)
  \/ record_change
  \/ handle_save \/ handle_shutdown \/ save_done
  \/ handle_bgsave \/ bgsave_done
  \/ \E t \in Savers : SaveStep(t)
  \/ monitor_loop
  \/ process_exit \/ from_config
  \/ Tick

(* No thread stops for ever: the saves go on, the monitor wakes every      *)
(* second, the main thread finishes its command, and a server that is down *)
(* is started again.                                                       *)
Spec ==
  /\ Init /\ [][Next]_vars
  /\ \A t \in Savers : WF_vars(SaveStep(t))
  /\ WF_vars(bgsave_done) /\ WF_vars(save_done)
  /\ WF_vars(monitor_loop)
  /\ WF_vars(record_change) /\ WF_vars(from_config)

-----------------------------------------------------------------------------
(* Properties *)

PersistenceTypeOK ==
  /\ data \in [Keys -> Value]
  /\ now \in 0 .. MaxTime
  /\ main \in {"idle", "record", "save", "shutdown", "down"}
  /\ save \in [Savers -> [pc : {"none", "open", "keys", "value", "rename", "ok", "err"},
                          inode : {NoFile} \cup Inodes, pos : 0 .. Cardinality(Keys) + 1,
                          keys : SUBSET Keys, block : Block, seen : [Keys -> SUBSET Contents],
                          alone : BOOLEAN]]
  /\ bgsave_in_progress \in BOOLEAN
  /\ changes_since_save \in Contents
  /\ monitor \in [pc : {"sleep", "check", "reset"}, elapsed : 0 .. Longest]
  /\ files \in [Inodes -> Seq(Block)]
  /\ {dump, tmp} \subseteq {NoFile} \cup Inodes
  /\ writes \in Contents /\ saves \in 0 .. MaxSaves /\ faults \in 0 .. MaxFaults
  /\ held \in [Keys -> SUBSET Contents] /\ clean \in BOOLEAN

(* At every moment dump.rdb is absent or a complete file: keys, each once, *)
(* and the end mark.  Neither a save in progress, nor one that failed, nor *)
(* the end of the process in the middle of one may damage it (save writes  *)
(* to a temporary file and renames it).  This is so as long as the save    *)
(* that made the dump overlapped no other: SAVE and SHUTDOWN do not look   *)
(* whether a background save is running, nor bgsave whether they are.      *)
DumpComplete ==
  clean /\ dump # NoFile =>
    LET f == files[dump] IN
    /\ Len(f) > 0 /\ f[Len(f)] = Eof
    /\ Loadable(f) = 1 .. Len(f) - 1
    /\ \A i, j \in Loadable(f) : f[i].key = f[j].key => i = j

(* Whenever the process may end, what the next start would load for a key  *)
(* is something the key has held since the last successful save began: no  *)
(* save brings back older contents and none is undone (save, load).  Again *)
(* for a dump whose save overlapped no other.                              *)
LoadsRecent == clean => \A k \in Keys : load[k].content \in held[k]

(* Every background save comes to an end and clears the flag, whether it   *)
(* succeeds or fails; a flag left behind would refuse all later ones       *)
(* (bgsave).                                                               *)
BgsaveEnds == bgsave_in_progress ~> ~bgsave_in_progress

(* A change that is counted leads to a save by the rules, even if a save   *)
(* is running when the monitor looks, once the clients ask for no more     *)
(* saves themselves (monitor_loop, which tries again every second).        *)
ChangesTrigger == changes_since_save > 0 ~> changes_since_save = 0
=============================================================================

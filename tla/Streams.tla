------------------------------ MODULE Streams ------------------------------
(***************************************************************************)
(* One stream: the entries under its mutex, the counters beside it that    *)
(* are read without it, and the generation of IDs (storage/stream.rs,      *)
(* xadd .. xdel of storage/engine.rs, storage/commands/streams.rs).        *)
(*                                                                         *)
(* An ID is packed into one number as in the code, milliseconds above the  *)
(* sequence number, so that comparing IDs is comparing numbers.  An entry  *)
(* is its ID; its fields are left out.  All commands run on the main       *)
(* thread, one at a time.                                                  *)
(***************************************************************************)
EXTENDS Integers, Sequences, FiniteSets

CONSTANTS
  SeqSpace,    \* sequence numbers per millisecond, 2^64 in the code
  MaxMillis,   \* bound on the clock
  MaxSeq,      \* bound: no generated sequence number beyond this one
  MaxEntries,  \* bound on the length of the stream
  ExplicitIds  \* IDs that clients pass to XADD

pack(ms, sq) == ms * SeqSpace + sq

(* Mutation: the milliseconds are not shifted down. *)
millis_unshifted(id) == id

millis(id) == id \div SeqSpace
seq(id) == id % SeqSpace

Ids == 0 .. pack(MaxMillis, SeqSpace - 1)

ASSUME StreamsAssumption ==
  /\ SeqSpace \in Nat \ {0} /\ MaxMillis \in Nat /\ MaxEntries \in Nat
  /\ MaxSeq \in 0 .. SeqSpace - 2
  /\ ExplicitIds \subseteq Ids

VARIABLES
  exists,          \* the key holds the stream
  entries,         \* the IDs of the entries
  last_id,         \* last ID given out, under the mutex
  last_id_millis,  \* the same ID, in two atomics
  last_id_seq,
  length           \* atomic length

streamVars == <<exists, entries, last_id, last_id_millis, last_id_seq, length>>

StreamInit ==
  /\ exists = FALSE
  /\ entries = <<>> /\ last_id = 0 /\ length = 0
  /\ last_id_millis = 0 /\ last_id_seq = 0

-----------------------------------------------------------------------------
(* Reading *)

(* Binary search in the sorted entries: the position of an ID, counted     *)
(* from 0, or where it would have to be inserted.                          *)
Found(id) == \E i \in DOMAIN entries : entries[i] = id
Position(id) == Cardinality({i \in DOMAIN entries : entries[i] < id})

Reverse(s) == [i \in 1 .. Len(s) |-> s[Len(s) + 1 - i]]
Take(s, count) == SubSeq(s, 1, IF count < Len(s) THEN count ELSE Len(s))

(* From one ID to another. *)
range(start, end) ==
  LET start_idx == Position(start)
      end_idx == IF Found(end) \/ Position(end) = 0 THEN Position(end)
                                                    ELSE Position(end) - 1
  IN SubSeq(entries, start_idx + 1,
            IF end_idx < Len(entries) THEN end_idx + 1 ELSE Len(entries))

(* Mutation: the entry itself is read again. *)
range_after_inclusive(id, count) ==
  Take(SubSeq(entries, Position(id) + 1, Len(entries)), count)

(* At most count entries after an ID. *)
range_after(id, count) ==
  LET start_idx == IF Found(id) THEN Position(id) + 1 ELSE Position(id)
  IN Take(SubSeq(entries, start_idx + 1, Len(entries)), count)

last_entry == IF entries = <<>> THEN 0 ELSE entries[Len(entries)]

handle_xrange(start, end, count) == Take(range(start, end), count)
handle_xrevrange(end, start, count) == Take(Reverse(range(start, end)), count)
handle_xread(after, count) == range_after(after, count)
handle_xread_new(count) == range_after(last_entry, count)
handle_xlen == length

-----------------------------------------------------------------------------
(* Writing.  A command on a missing key finds the values of StreamInit,    *)
(* which are those of a new stream.                                        *)

AddEntry(id) ==
  /\ entries' = Append(entries, id)
  /\ last_id' = id
  /\ length' = length + 1

(* The two ways an ID is generated: the first one of a new millisecond, or *)
(* the next one of the last millisecond.  The second one is taken also if  *)
(* the weak compare-and-exchange fails twice for no reason, and if the     *)
(* system clock was set back.                                              *)
generate_next_millis(now) ==
  /\ now > last_id_millis
  /\ last_id_millis' = now /\ last_id_seq' = 0
  /\ AddEntry(pack(now, 0))

generate_next_seq ==
  /\ last_id_seq < MaxSeq
  /\ last_id_seq' = (last_id_seq + 1) % SeqSpace
  /\ UNCHANGED last_id_millis
  /\ AddEntry(pack(last_id_millis, (last_id_seq + 1) % SeqSpace))

add_auto == generate_next_seq \/ \E now \in 0 .. MaxMillis : generate_next_millis(now)

(* Mutation: the atomics keep the last generated ID. *)
add_with_id_stale(id) ==
  /\ id > last_id /\ ~Found(id)
  /\ AddEntry(id)
  /\ UNCHANGED <<last_id_millis, last_id_seq>>

(* An ID from a client must be above the last one given out. *)
add_with_id(id) ==
  /\ id > last_id /\ ~Found(id)
  /\ AddEntry(id)
  /\ last_id_millis' = millis(id) /\ last_id_seq' = seq(id)

trim_by_count(max_count) ==
  /\ Len(entries) > max_count
  /\ entries' = SubSeq(entries, Len(entries) - max_count + 1, Len(entries))
  /\ length' = length - (Len(entries) - max_count)

delete(id) ==
  LET Other(e) == e # id
      kept == SelectSeq(entries, Other)
  IN /\ entries' = kept
     /\ length' = length - (Len(entries) - Len(kept))

(* Commands.  A missing key gets a new stream from the first XADD. *)
xadd == add_auto /\ exists' = TRUE
xadd_with_id(id) == add_with_id(id) /\ exists' = TRUE

handle_xadd ==
  /\ Len(entries) < MaxEntries
  /\ xadd \/ \E id \in ExplicitIds \ {0} : xadd_with_id(id)

handle_xtrim(max_len) ==
  /\ trim_by_count(max_len)
  /\ UNCHANGED <<exists, last_id, last_id_millis, last_id_seq>>

(* XDEL of one ID; XDEL of several is one after the other. *)
handle_xdel(id) ==
  /\ exists /\ delete(id)
  /\ UNCHANGED <<exists, last_id, last_id_millis, last_id_seq>>

(* The key is deleted, flushed, overwritten or expires. *)
DropKey ==
  /\ exists
  /\ exists' = FALSE
  /\ entries' = <<>> /\ last_id' = 0 /\ length' = 0
  /\ last_id_millis' = 0 /\ last_id_seq' = 0

StreamStep ==
  \/ handle_xadd
  \/ \E n \in 0 .. MaxEntries : handle_xtrim(n)
  \/ \E id \in Ids : handle_xdel(id)

-----------------------------------------------------------------------------
(* Properties *)

StreamTypeOK ==
  /\ exists \in BOOLEAN
  /\ entries \in Seq(Ids) /\ length \in Nat
  /\ last_id \in Ids
  /\ last_id_millis \in 0 .. MaxMillis /\ last_id_seq \in 0 .. SeqSpace - 1

(* Generated and explicit IDs, in any order and with a clock that may go   *)
(* back, are increasing, so that binary search is right; the mutex and the *)
(* atomics agree on the last ID and on the length (generate_next_atomic,   *)
(* add_auto, add_with_id, trim_by_count, delete).                          *)
StreamCoherent ==
  /\ \A i, j \in DOMAIN entries : i < j => entries[i] < entries[j]
  /\ \A i \in DOMAIN entries : entries[i] <= last_id
  /\ last_id = pack(last_id_millis, last_id_seq)
  /\ handle_xlen = Len(entries)

(* Index arithmetic against its meaning: XRANGE and XREVRANGE return the   *)
(* entries between two IDs, as long as the end is not below the first      *)
(* entry; XREAD returns the first ones after the given ID, and none after  *)
(* "$" (range, range_after).                                               *)
RangeExact ==
  /\ \A start, end \in Ids, count \in {1, MaxEntries} :
       LET Within(e) == start <= e /\ e <= end
           After(e) == start < e
           between == SelectSeq(entries, Within)
       IN /\ entries = <<>> \/ entries[1] <= end
               => /\ handle_xrange(start, end, count) = Take(between, count)
                  /\ handle_xrevrange(end, start, count) = Take(Reverse(between), count)
          /\ handle_xread(start, count) = Take(SelectSeq(entries, After), count)
  /\ handle_xread_new(MaxEntries) = <<>>
=============================================================================

----------------------------- MODULE OrderedSet -----------------------------
(***************************************************************************)
(* What a sorted set promises: a score for each of its members.  ZADD and  *)
(* ZINCRBY give a member a score, ZREM takes a member away, ZPOPMIN and    *)
(* ZPOPMAX take the first or the last member in the order of scores and    *)
(* members, and the whole set may go at once.  There are no lists, levels  *)
(* or indexes here.  The order is promised as long as no score of the set  *)
(* was NaN.                                                                *)
(***************************************************************************)
EXTENDS Integers

CONSTANTS Members, Numbers, NaN, Absent

VARIABLES
  score,  \* [Members -> Numbers \cup {NaN, Absent}]
  nan,    \* has a member been given NaN since the set was created?
  reply   \* the member that the last request took from an end

orderedSetVars == <<score, nan, reply>>

In(m) == score[m] # Absent

OrderedSetInit ==
  score = [m \in Members |-> Absent] /\ nan = FALSE /\ reply = <<"none">>

(* m gets the score s, Absent if it leaves the set. *)
Give(m, s) == score'[m] = s /\ score' = [score EXCEPT ![m] = s]

Add(m, s) ==
  /\ reply' = <<"none">> /\ nan' = (nan \/ s = NaN)
  /\ Give(m, s)

Take(m) == UNCHANGED nan /\ Give(m, Absent)

Remove(m) == reply' = <<"none">> /\ Take(m)

(* m comes before d. *)
Before(m, d) == \/ score[m] < score[d]
                \/ score[m] = score[d] /\ m < d

First(m) == \A d \in Members \ {m} : In(d) => Before(m, d)
Last(m) == \A d \in Members \ {m} : In(d) => Before(d, m)

PopMin == \E m \in Members :
  reply' = <<"popped", m>> /\ In(m) /\ (nan \/ First(m)) /\ Take(m)

PopMax == \E m \in Members :
  reply' = <<"popped", m>> /\ In(m) /\ (nan \/ Last(m)) /\ Take(m)

PopNothing ==
  /\ reply' = <<"none">> /\ UNCHANGED <<score, nan>>
  /\ nan \/ \A m \in Members : ~In(m)

Drop == /\ nan' = FALSE /\ UNCHANGED reply
        /\ score' = [m \in Members |-> Absent]

OrderedSetNext ==
  \/ Drop \/ PopMin \/ PopMax \/ PopNothing
  \/ \E m \in Members : \/ Remove(m)
                        \/ \E s \in Numbers \cup {NaN} : Add(m, s)

OrderedSetSpec == OrderedSetInit /\ [][OrderedSetNext]_orderedSetVars
=============================================================================

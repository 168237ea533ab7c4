---------------------------- MODULE MatchLifecycle ----------------------------
(***************************************************************************)
(* The lifecycle of one scheduled Match (match/match_schedule_service.py,  *)
(* match_rewind.py, match_review.py, race_room_service.py).                *)
(*                                                                         *)
(* Four nullable timestamps say how far the match has come.  A transition  *)
(* checks the row as it stands and stamps its own column only if it is     *)
(* still empty; a rewind clears a step's later columns together; a racetime *)
(* room drives the same row with whole-row saves.  Check and write are     *)
(* separate awaits, so other requests run in between.                      *)
(***************************************************************************)
EXTENDS Integers, FiniteSets

CONSTANTS
  Worker,       \* requests that may be in flight at the same time
  Overlaps,     \* bound: the pairs of request kinds that may be in flight together
  Outcomes,     \* bound: whether a race leaves a ranked player, a subset of BOOLEAN
  MaxRewinds    \* bound: rewinds by staff

Step == {"seated", "started", "finished", "confirmed"}
Kind == Step \cup {"rewind", "flag", "room"}

(* _STEP_FIELDS, in the order of MATCH_STEPS. *)
Order == [seated |-> 1, started |-> 2, finished |-> 3, confirmed |-> 4]

ASSUME OverlapAssumption == Overlaps \subseteq SUBSET Kind
ASSUME BoundAssumption == Outcomes \subseteq BOOLEAN /\ MaxRewinds \in Nat

VARIABLES
  racetime,  \* the tournament runs its matches in racetime rooms
  stamp,     \* which of the row's lifecycle timestamps are set
  review,    \* needs_review
  result,    \* some player's finish_rank is recorded
  room,      \* RacetimeRoom.status
  job,       \* what each request in flight holds in memory
  told,      \* announcements of each transition since it was last cleared
  rewinds    \* rewinds so far (bound)

vars == <<racetime, stamp, review, result, room, job, told, rewinds>>

Stamps == [Step -> BOOLEAN]
RoomStatus == {"none", "open", "in_progress", "finished", "cancelled"}

Idle == [kind |-> "idle"]
Busy == {w \in Worker : job[w] # Idle}

Jobs ==
  [kind : Step, at : {"check", "stamp", "resolve"}, result : BOOLEAN, review : BOOLEAN]
    \cup [kind : {"rewind"}, keep : 0..3]
    \cup [kind : {"flag"}]
    \cup [kind : {"room"}, stamp : Stamps, review : BOOLEAN, ends : BOOLEAN]

MayStart(w, kind) ==
  /\ job[w] = Idle
  /\ \A v \in Busy : {kind, job[v].kind} \in Overlaps

Go(w, j) == job' = [job EXCEPT ![w] = j]

-----------------------------------------------------------------------------
(* The transitions: _transition with the check each of them passes.        *)

(* The players, and with them the result, are read with the caller's row,  *)
(* before the permission check.                                            *)
Begin(w, step) ==
  /\ MayStart(w, step)
  /\ Go(w, [kind |-> step, at |-> "check", result |-> result, review |-> FALSE])
  /\ UNCHANGED <<racetime, stamp, review, result, room, told, rewinds>>

(* The checks of seat_match, start_match, finish_match and confirm_match   *)
(* on the lifecycle columns as refreshed.                                  *)
Allowed(j) ==
  /\ ~stamp[j.kind]
  /\ j.kind = "seated" => ~racetime
  /\ j.kind = "started" => stamp["seated"]
  /\ j.kind = "finished" => stamp["started"]
  /\ j.kind = "confirmed" => stamp["finished"] /\ j.result

Check(w) ==
  /\ job[w].kind \in Step /\ job[w].at = "check"
  /\ Go(w, IF Allowed(job[w])
           THEN [job[w] EXCEPT !.at = "stamp", !.review = review] ELSE Idle)
  /\ UNCHANGED <<racetime, stamp, review, result, room, told, rewinds>>

(* Mutant: the column is written whatever it holds. *)
WhateverIsSet(step) == step \in Step

(* stamp_if_unset: the column alone, and only if it is still empty. *)
StillUnset(step) == ~stamp[step]

Stamp(w) ==
  /\ job[w].kind \in Step /\ job[w].at = "stamp"
  /\ LET step == job[w].kind
     IN  IF StillUnset(step)
         THEN /\ stamp' = [stamp EXCEPT ![step] = TRUE]
              /\ told' = [told EXCEPT ![step] = @ + 1]
              /\ Go(w, IF step = "confirmed" /\ job[w].review
                       THEN [job[w] EXCEPT !.at = "resolve"] ELSE Idle)
         ELSE Go(w, Idle) /\ UNCHANGED <<stamp, told>>
  /\ UNCHANGED <<racetime, review, result, room, rewinds>>

(* Confirming a flagged result is its resolution. *)
Resolve(w) ==
  /\ job[w].kind = "confirmed" /\ job[w].at = "resolve"
  /\ review' = FALSE
  /\ Go(w, Idle)
  /\ UNCHANGED <<racetime, stamp, result, room, told, rewinds>>

-----------------------------------------------------------------------------
(* Results, reviews and rewinds.                                           *)

(* record_match_result: at any time, by the right people. *)
RecordMatchResult ==
  /\ ~result
  /\ result' = TRUE
  /\ UNCHANGED <<racetime, stamp, review, room, job, told, rewinds>>

(* Mutant: a confirmed result can still be flagged. *)
FlagConfirmed(w) ==
  /\ MayStart(w, "flag")
  /\ stamp["finished"]
  /\ Go(w, [kind |-> "flag"])
  /\ UNCHANGED <<racetime, stamp, review, result, room, told, rewinds>>

FlagForReview(w) ==
  /\ MayStart(w, "flag")
  /\ stamp["finished"] /\ ~stamp["confirmed"]
  /\ Go(w, [kind |-> "flag"])
  /\ UNCHANGED <<racetime, stamp, review, result, room, told, rewinds>>

Flag(w) ==
  /\ job[w].kind = "flag"
  /\ review' = TRUE
  /\ Go(w, Idle)
  /\ UNCHANGED <<racetime, stamp, result, room, told, rewinds>>

ClearReview ==
  /\ review
  /\ review' = FALSE
  /\ UNCHANGED <<racetime, stamp, result, room, job, told, rewinds>>

(* rewind_match: a step before the furthest one the row has a stamp for;   *)
(* 0 is "scheduled".  The columns of every later step go in one update.    *)
Rewind(w, keep) ==
  /\ MayStart(w, "rewind")
  /\ rewinds < MaxRewinds
  /\ \E s \in Step : stamp[s] /\ keep < Order[s]
  /\ Go(w, [kind |-> "rewind", keep |-> keep])
  /\ rewinds' = rewinds + 1
  /\ UNCHANGED <<racetime, stamp, review, result, room, told>>

(* Mutant: only the step after the kept one is cleared. *)
ClearedNext(keep) == {s \in Step : Order[s] = keep + 1}

ClearedAfter(keep) == {s \in Step : Order[s] > keep}

ClearSteps(w) ==
  /\ job[w].kind = "rewind"
  /\ LET cleared == ClearedAfter(job[w].keep)
     IN  /\ stamp' = [s \in Step |-> stamp[s] /\ s \notin cleared]
         /\ told' = [s \in Step |-> IF s \in cleared THEN 0 ELSE told[s]]
  /\ Go(w, Idle)
  /\ UNCHANGED <<racetime, review, result, room, rewinds>>

-----------------------------------------------------------------------------
(* The racetime room.  Its events are taken as they come.                  *)

OpenRoom ==
  /\ room = "none"
  /\ racetime
  /\ room' = "open"
  /\ UNCHANGED <<racetime, stamp, review, result, job, told, rewinds>>

CancelRoom ==
  /\ room \in {"open", "in_progress"}
  /\ room' = "cancelled"
  /\ UNCHANGED <<racetime, stamp, review, result, job, told, rewinds>>

(* mark_in_progress and record_finish load the match and save all of it.   *)
RoomEvent(w, ends, ranked) ==
  /\ MayStart(w, "room")
  /\ room \in {"open", "in_progress"}
  /\ Go(w, [kind |-> "room", stamp |-> stamp, review |-> review, ends |-> ends])
  /\ result' = IF ends THEN ranked ELSE result
  /\ UNCHANGED <<racetime, stamp, review, room, told, rewinds>>

(* A row that was already started is left alone by mark_in_progress. *)
Saves(j) == j.ends \/ ~j.stamp["started"]

Written(j) ==
  IF j.ends THEN [j.stamp EXCEPT !["started"] = TRUE, !["finished"] = TRUE]
  ELSE [j.stamp EXCEPT !["seated"] = TRUE, !["started"] = TRUE]

SaveRoomEvent(w) ==
  /\ job[w].kind = "room"
  /\ IF Saves(job[w])
     THEN stamp' = Written(job[w]) /\ review' = job[w].review
     ELSE UNCHANGED <<stamp, review>>
  /\ room' = IF job[w].ends THEN "finished" ELSE "in_progress"
  /\ Go(w, Idle)
  /\ UNCHANGED <<racetime, result, told, rewinds>>

-----------------------------------------------------------------------------
Init ==
  /\ racetime \in BOOLEAN
  /\ stamp = [s \in Step |-> FALSE]
  /\ review = FALSE
  /\ result = FALSE
  /\ room = "none"
  /\ job = [w \in Worker |-> Idle]
  /\ told = [s \in Step |-> 0]
  /\ rewinds = 0

Continue(w) ==
  Check(w) \/ Stamp(w) \/ Resolve(w) \/ Flag(w) \/ ClearSteps(w) \/ SaveRoomEvent(w)

Next ==
  \/ \E w \in Worker, step \in Step : Begin(w, step)
  \/ \E w \in Worker : FlagForReview(w) \/ Continue(w)
  \/ \E w \in Worker, keep \in 0..3 : Rewind(w, keep)
  \/ \E w \in Worker, ends \in BOOLEAN, ranked \in Outcomes : RoomEvent(w, ends, ranked)
  \/ RecordMatchResult \/ ClearReview \/ OpenRoom \/ CancelRoom

Spec == Init /\ [][Next]_vars

-----------------------------------------------------------------------------
(* Properties.                                                             *)

TypeOK ==
  /\ racetime \in BOOLEAN
  /\ stamp \in Stamps
  /\ review \in BOOLEAN
  /\ result \in BOOLEAN
  /\ room \in RoomStatus
  /\ job \in [Worker -> {Idle} \cup Jobs]
  /\ told \in [Step -> Nat]
  /\ rewinds \in 0..MaxRewinds

Quiet == Busy = {}

(* "A match can never end up finished without having started", nor         *)
(* confirmed without being finished, whoever taps what at the same time.   *)
LifecycleInOrder ==
  /\ stamp["finished"] => stamp["started"]
  /\ stamp["confirmed"] => stamp["finished"]

(* Two taps on the same transition announce it once: a second proctor or a *)
(* double-tapped phone finds the column already set.                       *)
AnnouncedOnce == \A s \in Step : told[s] <= 1

(* A confirmed match carries no open dispute: confirming resolves the flag *)
(* and a confirmed result cannot be flagged.                               *)
ConfirmedIsResolved == Quiet /\ stamp["confirmed"] => ~review
=============================================================================

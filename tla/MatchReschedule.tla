--------------------------- MODULE MatchReschedule ---------------------------
(***************************************************************************)
(* A match's time: players ask for it to be moved or called off, staff     *)
(* decide (match_reschedule_service), or edit the match themselves         *)
(* (match_service.update_match), and the players acknowledge it            *)
(* (match_acknowledgment).                                                 *)
(*                                                                         *)
(* Approving performs the change and records it after: the match is moved, *)
(* its acknowledgments are asked for again, the request is saved and the   *)
(* match's other open requests are superseded, one await after another.    *)
(* Every save of a request writes the WHOLE row as it was read, so what a  *)
(* request in flight holds is a job of its own.                            *)
(***************************************************************************)
EXTENDS Integers, FiniteSets

CONSTANTS
  Match,     \* the matches
  Player,    \* the players of each match
  Admin,     \* who may edit a match and decide its requests; a player may
  Time,      \* instants a match may be scheduled at
  None,      \* NULL
  Worker,    \* calls that may be in flight at the same time
  Request,   \* bound: ids of the requests that may ever be made, 1..k
  Proposals, \* bound: the times a request may propose, or None
  Conflicts  \* bound: the conflicts two calls in flight may have

ConflictKind == {"row", "twice", "stale", "move", "ack"}

ASSUME IdAssumption == IsFiniteSet(Request) /\ Request = 1..Cardinality(Request)
ASSUME BoundAssumption ==
  /\ Conflicts \subseteq ConflictKind
  /\ Proposals \subseteq Time \cup {None}
ASSUME NullAssumption == None \notin Match \cup Player \cup Admin \cup Time \cup Request

VARIABLES
  match,    \* the time of each Match row
  ack,      \* MatchAcknowledgment: when given, of which time (ghost)
  req,      \* MatchRescheduleRequest rows by id
  issued,   \* ids given out
  job,      \* what each call in flight holds in memory
  promised, \* the time of the last approval, once it is complete (ghost)
  torn      \* a restart cut a move off halfway (ghost)

vars == <<match, ack, req, issued, job, promised, torn>>

RequestRow == [match : Match, by : Player, kind : {"move", "cancel"},
               proposed : Time \cup {None}, original : Time, agreed : BOOLEAN,
               status : {"pending", "approved", "declined", "withdrawn", "superseded"}]

ASSUME RowAssumption == None \notin RequestRow

(* A player has no acknowledgment row, one that waits, or one given, whose *)
(* row tells nothing of the time: the instant the match was at when the    *)
(* call began is kept beside it, whatever the player had been shown.       *)
Answer == {"none", "asked"} \cup Time
ASSUME AnswerAssumption == {"none", "asked"} \cap Time = {}

Matches == {m \in Match : match[m] # None}
Requests == {i \in Request : req[i] # None}
Pending == {i \in Requests : req[i].status = "pending"}
PendingOn(m) == {i \in Pending : req[i].match = m}

(* get_pending_for *)
Asked(m, u) == {i \in PendingOn(m) : req[i].by = u}

-----------------------------------------------------------------------------
(* Calls in flight.                                                        *)

Deciding == {"agree", "withdraw", "decline", "approve"}
Kind == {"submit", "edit", "ack"} \cup Deciding
Idle == [kind |-> "idle"]
Busy == {w \in Worker : job[w] # Idle}

(* by: whose call it is.  id, row: the request as it was read; a submit    *)
(* holds the row it will create.  time: what the match moves to, or what   *)
(* it was at when an acknowledgment began (ghost).  todo: players whose    *)
(* acknowledgment is to be asked again.  others: open requests to          *)
(* supersede, as they were read.                                           *)
Jobs == [kind : Kind, at : {"check", "save", "move", "clear", "seed", "record", "list", "close"},
         match : Match, by : Player \cup Admin, id : Request \cup {None},
         row : RequestRow \cup {None}, time : Time \cup {None}, todo : SUBSET Player,
         others : SUBSET (Request \X RequestRow)]

Call(kind, at, m, u) ==
  [kind |-> kind, at |-> at, match |-> m, by |-> u, id |-> None, row |-> None,
   time |-> None, todo |-> {}, others |-> {}]
OnRequest(kind, at, i, u) ==
  [Call(kind, at, req[i].match, u) EXCEPT !.id = i, !.row = req[i]]

Is(w, kind, at) == job[w] # Idle /\ job[w].kind = kind /\ job[w].at = at
Go(w, j) == job' = [job EXCEPT ![w] = j]
Step(w, at) == Go(w, [job[w] EXCEPT !.at = at])
Done(w) == Go(w, Idle)

Moves(j) == j.kind \in {"approve", "edit"}

Moving(m) == \E w \in Busy : job[w].match = m /\ Moves(job[w])

(* Which calls stand in each other's way. *)
InConflict(j, k) ==
  [row |-> /\ j.kind \in Deciding /\ k.kind \in Deciding
           /\ j.id = k.id \/ (j.match = k.match /\ "approve" \in {j.kind, k.kind}),
   twice |-> j.kind = "submit" /\ k.kind = "submit" /\ j.match = k.match /\ j.by = k.by,
   stale |-> j.match = k.match /\ {j.kind, k.kind} = {"submit", "approve"},
   move |-> j.match = k.match /\ Moves(j) /\ Moves(k),
   ack |-> j.match = k.match /\ "ack" \in {j.kind, k.kind} /\ (Moves(j) \/ Moves(k))]

Start(w, j) ==
  /\ job[w] = Idle
  /\ \A v \in Busy, c \in ConflictKind : InConflict(j, job[v])[c] => c \in Conflicts
  /\ Go(w, j)

-----------------------------------------------------------------------------
(* A player asks.                                                          *)

(* An id is left for every submit in flight (bound). *)
IdToSpare == issued + Cardinality({w \in Busy : job[w].kind = "submit"}) + 1 \in Request

(* submit: the match is read, and its time kept for the record.  A match   *)
(* that is under way refuses it, which nothing here obliges anyone to make. *)
Submit(w, u, m, kind, t) ==
  /\ IdToSpare
  /\ m \in Matches
  /\ t \in IF kind = "cancel" THEN {None} ELSE Proposals
  /\ Start(w, [Call("submit", "check", m, u) EXCEPT !.row =
       [match |-> m, by |-> u, kind |-> kind, proposed |-> t, original |-> match[m],
        agreed |-> FALSE, status |-> "pending"]])
  /\ UNCHANGED <<match, ack, req, issued, promised, torn>>

(* Mutant: an open request of the player's is not looked for. *)
SubmitUnchecked(w) ==
  /\ Is(w, "submit", "check")
  /\ Step(w, "save")
  /\ UNCHANGED <<match, ack, req, issued, promised, torn>>

SubmitChecks(w) ==
  /\ Is(w, "submit", "check")
  /\ IF Asked(job[w].match, job[w].by) = {} THEN Step(w, "save") ELSE Done(w)
  /\ UNCHANGED <<match, ack, req, issued, promised, torn>>

(* The row is created; there is no match to point at once it is deleted. *)
SubmitSaves(w) ==
  /\ Is(w, "submit", "save")
  /\ IF job[w].match \in Matches
     THEN /\ issued' = issued + 1
          /\ req' = [req EXCEPT ![issued'] = job[w].row]
     ELSE UNCHANGED <<req, issued>>
  /\ Done(w)
  /\ UNCHANGED <<match, ack, promised, torn>>

-----------------------------------------------------------------------------
(* The answers that only write the request's row.                          *)

(* record_opponent_agreement *)
Agree(w, u, i) ==
  /\ i \in Pending /\ ~req[i].agreed
  /\ u # req[i].by /\ Cardinality(Player) = 2
  /\ Start(w, OnRequest("agree", "save", i, u))
  /\ UNCHANGED <<match, ack, req, issued, promised, torn>>

Withdraw(w, i) ==
  /\ i \in Pending
  /\ Start(w, OnRequest("withdraw", "save", i, req[i].by))
  /\ UNCHANGED <<match, ack, req, issued, promised, torn>>

(* _decidable, and then a note *)
Decline(w, i) ==
  /\ i \in Pending
  /\ Start(w, OnRequest("decline", "save", i, req[i].by))
  /\ UNCHANGED <<match, ack, req, issued, promised, torn>>

(* A whole-row save; it writes nothing when the row went with its match. *)
SaveRequest(i, row) == req' = IF i \in Requests THEN [req EXCEPT ![i] = row] ELSE req

SaveAnswer(w) ==
  /\ Is(w, job[w].kind, "save") /\ job[w].kind \in Deciding
  /\ SaveRequest(job[w].id,
       CASE job[w].kind = "agree" -> [job[w].row EXCEPT !.agreed = TRUE]
         [] job[w].kind = "withdraw" -> [job[w].row EXCEPT !.status = "withdrawn"]
         [] OTHER -> [job[w].row EXCEPT !.status = "declined"])
  /\ Done(w)
  /\ UNCHANGED <<match, ack, issued, promised, torn>>

-----------------------------------------------------------------------------
(* Moving the match: staff's edit, and the approval that performs it.      *)

EditMatch(w, v, m, t) ==
  /\ m \in Matches
  /\ Start(w, [Call("edit", "move", m, v) EXCEPT !.time = t])
  /\ UNCHANGED <<match, ack, req, issued, promised, torn>>

(* approve: staff may name another time, and must when none was proposed. *)
Approve(w, v, i, t) ==
  /\ i \in Pending
  /\ Start(w, [OnRequest("approve", "move", i, v) EXCEPT !.time =
       CASE req[i].kind = "cancel" -> None
         [] t # None -> t
         [] OTHER -> req[i].proposed])
  /\ UNCHANGED <<match, ack, req, issued, promised, torn>>

(* The match goes, and its requests and acknowledgments with it. *)
Remove(m) ==
  /\ match' = [match EXCEPT ![m] = None]
  /\ req' = [i \in Request |-> IF i \in Requests /\ req[i].match = m THEN None ELSE req[i]]
  /\ ack' = [ack EXCEPT ![m] = [u \in Player |-> "none"]]

(* The match is gone, the new time is outside the tournament's hours, or   *)
(* no time was named: the change fails, and nothing is recorded.           *)
MoveFails(w) ==
  /\ Is(w, job[w].kind, "move")
  /\ Done(w)
  /\ UNCHANGED <<match, ack, req, issued, promised, torn>>

CancelMatch(w) ==
  /\ Is(w, "approve", "move") /\ job[w].row.kind = "cancel"
  /\ job[w].match \in Matches
  /\ Remove(job[w].match)
  /\ Done(w)
  /\ UNCHANGED <<issued, promised, torn>>

AfterMove(j) == IF j.kind = "approve" THEN [j EXCEPT !.at = "record"] ELSE Idle

(* Mutant: an approval moves the match to the time that was proposed. *)
MoveAsProposed(w) ==
  /\ Is(w, job[w].kind, "move") /\ job[w].time # None
  /\ job[w].match \in Matches
  /\ LET m == job[w].match
         to == IF job[w].kind = "approve" /\ job[w].row.proposed # None
               THEN job[w].row.proposed ELSE job[w].time
     IN  /\ match' = [match EXCEPT ![m] = to]
         /\ Go(w, IF match[m] # to THEN [job[w] EXCEPT !.at = "clear"]
                  ELSE AfterMove(job[w]))
         /\ promised' = [promised EXCEPT ![m] = None]
  /\ UNCHANGED <<ack, req, issued, torn>>

(* update_match saves the time; only a change asks the players again. *)
MoveMatch(w) ==
  /\ Is(w, job[w].kind, "move") /\ job[w].time # None
  /\ job[w].match \in Matches
  /\ LET m == job[w].match
     IN  /\ match' = [match EXCEPT ![m] = job[w].time]
         /\ Go(w, IF match[m] # job[w].time THEN [job[w] EXCEPT !.at = "clear"]
                  ELSE AfterMove(job[w]))
         /\ promised' = [promised EXCEPT ![m] = None]
  /\ UNCHANGED <<ack, req, issued, torn>>

(* Mutant: the acknowledgments already given are kept. *)
KeepAcks(w) ==
  /\ Is(w, job[w].kind, "clear")
  /\ Go(w, AfterMove(job[w]))
  /\ UNCHANGED <<match, ack, req, issued, promised, torn>>

(* seed_acknowledgments deletes the rows and asks player by player; the    *)
(* mover has seen the time.                                                *)
ClearAcks(w) ==
  /\ Is(w, job[w].kind, "clear")
  /\ ack' = [ack EXCEPT ![job[w].match] = [u \in Player |-> "none"]]
  /\ Go(w, [job[w] EXCEPT !.at = "seed", !.todo = Player])
  /\ UNCHANGED <<match, req, issued, promised, torn>>

SeedAck(w, u) ==
  /\ Is(w, job[w].kind, "seed") /\ u \in job[w].todo
  /\ ack' = IF job[w].match \in Matches
            THEN [ack EXCEPT ![job[w].match][u] =
                   IF u = job[w].by THEN job[w].time ELSE "asked"]
            ELSE ack
  /\ Go(w, IF job[w].todo = {u} THEN AfterMove([job[w] EXCEPT !.todo = {}])
           ELSE [job[w] EXCEPT !.todo = @ \ {u}])
  /\ UNCHANGED <<match, req, issued, promised, torn>>

RecordApproval(w) ==
  /\ Is(w, "approve", "record")
  /\ SaveRequest(job[w].id, [job[w].row EXCEPT !.status = "approved"])
  /\ Step(w, "list")
  /\ UNCHANGED <<match, ack, issued, promised, torn>>

(* The approval is complete, and everyone is told of the time. *)
Told(w) ==
  /\ promised' = IF job[w].match \in Matches
                 THEN [promised EXCEPT ![job[w].match] = job[w].time] ELSE promised
  /\ Done(w)

(* Mutant: the match's other requests are left open. *)
ListNoOthers(w) ==
  /\ Is(w, "approve", "list")
  /\ Told(w)
  /\ UNCHANGED <<match, ack, req, issued, torn>>

(* _supersede_others *)
ListOthers(w) ==
  /\ Is(w, "approve", "list")
  /\ LET others == PendingOn(job[w].match) \ {job[w].id}
     IN  IF others = {} THEN Told(w)
         ELSE /\ Go(w, [job[w] EXCEPT !.at = "close", !.others = {<<i, req[i]>> : i \in others}])
              /\ UNCHANGED promised
  /\ UNCHANGED <<match, ack, req, issued, torn>>

Supersede(w, x) ==
  /\ Is(w, "approve", "close") /\ x \in job[w].others
  /\ SaveRequest(x[1], [x[2] EXCEPT !.status = "superseded"])
  /\ IF job[w].others = {x} THEN Told(w)
     ELSE Go(w, [job[w] EXCEPT !.others = @ \ {x}]) /\ UNCHANGED promised
  /\ UNCHANGED <<match, ack, issued, torn>>

-----------------------------------------------------------------------------
(* A player acknowledges their match, once.                                *)

(* acknowledge_match: the call names the match and no time.  The button of *)
(* an old message acknowledges the match as well as a new one's does, so   *)
(* the player need not have seen where the match is now.                   *)
Acknowledge(w, u, m) ==
  /\ m \in Matches /\ ack[m][u] \notin Time
  /\ Start(w, [Call("ack", "save", m, u) EXCEPT !.time = match[m]])
  /\ UNCHANGED <<match, ack, req, issued, promised, torn>>

SaveAck(w) ==
  /\ Is(w, "ack", "save")
  /\ ack' = IF job[w].match \in Matches
            THEN [ack EXCEPT ![job[w].match][job[w].by] = job[w].time] ELSE ack
  /\ Done(w)
  /\ UNCHANGED <<match, req, issued, promised, torn>>

-----------------------------------------------------------------------------
(* The match may be deleted, and the process restart.                      *)

DeleteMatch(m) ==
  /\ m \in Matches
  /\ Remove(m)
  /\ UNCHANGED <<issued, job, promised, torn>>

Restart ==
  /\ torn' = (torn \/ \E m \in Match : Moving(m))
  /\ Busy # {}
  /\ job' = [w \in Worker |-> Idle]
  /\ UNCHANGED <<match, ack, req, issued, promised>>

-----------------------------------------------------------------------------
Init ==
  /\ match \in [Match -> Time]
  /\ ack = [m \in Match |-> [u \in Player |-> "asked"]]
  /\ req = [i \in Request |-> None]
  /\ issued = 0
  /\ job = [w \in Worker |-> Idle]
  /\ promised = [m \in Match |-> None]
  /\ torn = FALSE

Continue(w) ==
  \/ SubmitChecks(w) \/ SubmitSaves(w) \/ SaveAnswer(w) \/ SaveAck(w)
  \/ MoveFails(w) \/ CancelMatch(w) \/ MoveMatch(w) \/ ClearAcks(w)
  \/ \E u \in Player : SeedAck(w, u)
  \/ RecordApproval(w) \/ ListOthers(w)
  \/ \E x \in job[w].others : Supersede(w, x)

Next ==
  \/ \E w \in Busy : Continue(w)
  \/ \E w \in Worker, u \in Player, m \in Match :
       \/ \E kind \in {"move", "cancel"}, t \in Proposals \cup {None} : Submit(w, u, m, kind, t)
       \/ Acknowledge(w, u, m)
  \/ \E w \in Worker, i \in Request :
       \/ \E u \in Player : Agree(w, u, i)
       \/ Withdraw(w, i)
       \/ Decline(w, i)
       \/ \E v \in Admin, t \in Time \cup {None} : Approve(w, v, i, t)
  \/ \E w \in Worker, v \in Admin, m \in Match, t \in Time : EditMatch(w, v, m, t)
  \/ \E m \in Match : DeleteMatch(m)
  \/ Restart

Spec == Init /\ [][Next]_vars

-----------------------------------------------------------------------------
(* Properties.                                                             *)

TypeOK ==
  /\ match \in [Match -> Time \cup {None}]
  /\ ack \in [Match -> [Player -> Answer]]
  /\ req \in [Request -> RequestRow \cup {None}]
  /\ issued \in Nat
  /\ job \in [Worker -> Jobs \cup {Idle}]
  /\ promised \in [Match -> Time \cup {None}]
  /\ torn \in BOOLEAN

(* "You already have a request waiting on this match": a player has one    *)
(* open request on a match at most, which no constraint of the table says. *)
OneOpenRequest == \A m \in Match, u \in Player : Cardinality(Asked(m, u)) <= 1

(* "Never leaves a request marked approved and a schedule that did not     *)
(* budge": until somebody moves the match again, it is at the time its     *)
(* last approval told everyone of, across restarts.                        *)
PromiseKept == \A m \in Matches : promised[m] # None => match[m] = promised[m]

(* "A queue entry pointing at a time that has already moved is worse than  *)
(* no entry": what is still open after an approval was asked of the time   *)
(* the match is at.                                                        *)
OpenRequestsCurrent ==
  \A m \in Matches : promised[m] # None =>
    \A i \in PendingOn(m) : req[i].original = match[m]

(* A move asks everyone again: an acknowledgment that stands was given     *)
(* while the match was at the time it is at now.  (Whether its player had  *)
(* seen that time is not known to the code.)                               *)
AcknowledgedSinceMoved ==
  \A m \in Matches, u \in Player :
    ~Moving(m) /\ ~torn /\ ack[m][u] \in Time => ack[m][u] = match[m]
=============================================================================

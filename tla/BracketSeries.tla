---------------------------- MODULE BracketSeries ----------------------------
(***************************************************************************)
(* One best-of-N series behind one bracket matchup (_bracket/series.py,    *)
(* scheduling.py): its games are rows, each backed by a scheduled Match    *)
(* that is booked, played, confirmed, cancelled or linked by independent   *)
(* requests.  A game is settled from two places, the racetime task and the *)
(* serial discord_queue, and the settle that decides the series cancels    *)
(* the games it no longer needs and records the matchup's result.          *)
(*                                                                         *)
(* As in BracketAdvance nothing is transactional, so a request is a job    *)
(* that works through its awaits while others run.                         *)
(***************************************************************************)
EXTENDS Integers, FiniteSets, Sequences

CONSTANTS
  Side,       \* the matchup's two entrants
  None,       \* NULL
  Worker,     \* requests that may be in flight at the same time
  Match,      \* bound: ids of the scheduled matches that may ever be booked, 1..k
  Game,       \* bound: ids of the game rows that may ever be created, 1..k
  Lengths,    \* the best_of values staff choose from
  Overlaps,   \* bound: the pairs of request kinds that may be in flight together
  Forfeits,   \* bound: whether a race may be won by forfeit, a subset of BOOLEAN
  MaxStaff,   \* bound: staff interventions (every use of Intervene)
  RoundEdits  \* bound: set_round_metadata is also called once games exist

Kind == {"race", "queue", "report", "book", "link", "unlink", "remove"}

ASSUME SideAssumption ==
  IsFiniteSet(Side) /\ Cardinality(Side) = 2 /\ None \notin Side
ASSUME LengthsAssumption == Lengths # {} /\ \A b \in Lengths : b \in Nat /\ b % 2 = 1
ASSUME IdAssumption ==
  /\ Match \subseteq Nat \ {0} /\ Game \subseteq Nat \ {0} /\ IsFiniteSet(Game)
  /\ None \notin Match \cup Game
ASSUME OverlapAssumption == Overlaps \subseteq SUBSET Kind /\ MaxStaff \in Nat
ASSUME FlagAssumption == RoundEdits \in BOOLEAN /\ Forfeits \subseteq BOOLEAN

VARIABLES
  matchup,    \* the BracketMatch row: state, winner, score per side
  stage,      \* Bracket.state while the matchup can be played
  length,     \* best_of: the matchup's override and its round's value
  game,       \* BracketMatchGame rows by id
  match,      \* Match rows by id: finished, confirmed, the rank-1 side, forfeit
  created,    \* ids handed out so far
  queue,      \* discord_queue: confirmed matches waiting to be settled
  job,        \* what each request in flight holds in memory
  announced,  \* BRACKET_GAME_COMPLETED events per game
  staff       \* staff interventions so far (bound)

vars == <<matchup, stage, length, game, match, created, queue, job, announced, staff>>

SideOrNone == Side \cup {None}
Other(s) == CHOOSE x \in Side : x # s

GameRow == [number : Nat, state : {"scheduled", "complete", "cancelled"},
            winner : SideOrNone, forfeit : BOOLEAN, match : Match \cup {None}]
MatchRow == [finished : BOOLEAN, confirmed : BOOLEAN,
             winner : SideOrNone, forfeit : BOOLEAN]

ASSUME RowAssumption == None \notin GameRow /\ None \notin MatchRow

Score == [Side -> 0..Cardinality(Game)]

-----------------------------------------------------------------------------
(* Reading the rows.                                                       *)

(* resolve_best_of: the matchup's override, else the round's value. *)
BestOf(override) == IF override # None THEN override ELSE length.round
WinsNeeded(best_of) == best_of \div 2 + 1

Rows == {g \in Game : game[g] # None}
InState(s) == {g \in Rows : game[g].state = s}
RowsOf(m) == {g \in Rows : game[g].match = m}

Standing == [s \in Side |-> Cardinality({g \in InState("complete") : game[g].winner = s})]
Reached(score, best_of) == \E s \in Side : score[s] >= WinsNeeded(best_of)
Decided == Reached(Standing, BestOf(length.override))

(* next_game_number: a cancelled game's number stays taken. *)
FreeNumbers ==
  {n \in 1..BestOf(length.override) : \A g \in Rows : game[g].number # n}
Lowest(S) == CHOOSE x \in S : \A y \in S : x <= y

(* The room of a game waits for every earlier game whose match has not     *)
(* finished (held_match_ids).                                              *)
Held(m) ==
  \E g \in RowsOf(m) :
    \/ game[g].state = "cancelled"
    \/ \E p \in InState("scheduled") :
         /\ game[p].number < game[g].number
         /\ game[p].match # None /\ ~match[game[p].match].finished

-----------------------------------------------------------------------------
(* Requests in flight.                                                     *)

Idle == [kind |-> "idle"]
Busy == {w \in Worker : job[w] # Idle}

Steps == {"load", "settle", "judge", "cancel", "record", "save", "sweep", "teardown",
          "create", "remove", "unlink"}

(* match, game: the row a request is about.  series: the BracketMatch as   *)
(* loaded.  winner, score, forfeit: the result it will record.  pending:   *)
(* game rows, as loaded, still to be marked cancelled; doomed: matches     *)
(* still to be torn down.                                                  *)
Blank == [kind |-> "race", at |-> "load", match |-> None, game |-> None, number |-> 0,
          open |-> FALSE, override |-> None,
          winner |-> None, score |-> None, forfeit |-> FALSE, then |-> "teardown",
          pending |-> {}, doomed |-> {}]

Jobs == [kind : Kind, at : Steps, match : Match \cup {None}, game : Game \cup {None},
         number : Nat, open : BOOLEAN, override : Lengths \cup {None},
         winner : SideOrNone, score : Score \cup {None}, forfeit : BOOLEAN,
         then : {"record", "teardown"},
         pending : SUBSET (Game \X GameRow), doomed : SUBSET Match]

MayStart(w, kind) ==
  /\ job[w] = Idle
  /\ \A v \in Busy : {kind, job[v].kind} \in Overlaps

At(w, step) == job[w] # Idle /\ job[w].at = step

(* Staff corrections, cancellations and unlinkings, and results recorded   *)
(* over a finished match, are counted.                                     *)
Intervene == staff < MaxStaff /\ staff' = staff + 1

Go(w, j) == job' = [job EXCEPT ![w] = j]
Done(w) == Go(w, Idle)

DeleteGames(S) == [g \in Game |-> IF g \in S THEN None ELSE game[g]]

(* Deleting a Match: a still-scheduled game is released, every other row   *)
(* that points at it keeps its result (SET_NULL).                          *)
Unlinked(rows, m) ==
  [g \in Game |-> IF rows[g] # None /\ rows[g].match = m
                  THEN [rows[g] EXCEPT !.match = None] ELSE rows[g]]

-----------------------------------------------------------------------------
(* Playing: results arrive on the Match rows.                              *)

(* record_finish stamps the race's outcome and goes on to settle, whether  *)
(* or not the match was finished before; a race nobody finished has no     *)
(* rank-1 side.                                                            *)
RecordFinish(w, m, s, forfeit) ==
  /\ MayStart(w, "race")
  /\ match[m] # None /\ ~Held(m)
  /\ forfeit => s # None
  /\ match' = [match EXCEPT ![m].finished = TRUE, ![m].winner = s, ![m].forfeit = forfeit]
  /\ Go(w, [Blank EXCEPT !.match = m])
  /\ IF match[m].finished THEN Intervene ELSE UNCHANGED staff
  /\ UNCHANGED <<matchup, stage, length, game, created, queue, announced>>

(* record_match_result, refused once the match's game is settled. *)
RecordMatchResult(m, s) ==
  /\ match[m] # None
  /\ match[m].winner # s
  /\ \A g \in RowsOf(m) : game[g].state # "complete"
  /\ match' = [match EXCEPT ![m].winner = s, ![m].forfeit = FALSE]
  /\ IF match[m].winner = None THEN UNCHANGED staff ELSE Intervene
  /\ UNCHANGED <<matchup, stage, length, game, created, queue, job, announced>>

FinishMatch(m) ==
  /\ match[m] # None
  /\ ~match[m].finished
  /\ match' = [match EXCEPT ![m].finished = TRUE]
  /\ UNCHANGED <<matchup, stage, length, game, created, queue, job, announced, staff>>

ConfirmMatch(m) ==
  /\ match[m] # None
  /\ match[m].finished /\ ~match[m].confirmed /\ match[m].winner # None
  /\ match' = [match EXCEPT ![m].confirmed = TRUE]
  /\ queue' = Append(queue, m)
  /\ UNCHANGED <<matchup, stage, length, game, created, job, announced, staff>>

(* discord_queue runs one coroutine at a time, in order. *)
TakeConfirmed(w) ==
  /\ MayStart(w, "queue")
  /\ \A v \in Busy : job[v].kind # "queue"
  /\ queue # <<>>
  /\ Go(w, [Blank EXCEPT !.kind = "queue", !.match = Head(queue)])
  /\ queue' = Tail(queue)
  /\ UNCHANGED <<matchup, stage, length, game, match, created, announced, staff>>

-----------------------------------------------------------------------------
(* settle_game_if_linked.                                                  *)

(* The game of the match, still scheduled, and the rank-1 side. *)
LoadGame(w) ==
  /\ At(w, "load")
  /\ LET m == job[w].match
         found == {g \in RowsOf(m) : game[g].state = "scheduled" /\ match[m].winner # None}
     IN  Go(w, IF found = {} THEN Idle
               ELSE [job[w] EXCEPT !.at = "settle", !.game = Lowest(found),
                                   !.open = (matchup.state = "open"),
                                   !.override = length.override,
                                   !.winner = match[m].winner, !.forfeit = match[m].forfeit])
  /\ UNCHANGED <<matchup, stage, length, game, match, created, queue, announced, staff>>

(* Mutant: the update's WHERE clause asks only for the row. *)
StillThere(g) == game[g] # None

(* settle_game: the compare-and-swap on the row's state. *)
StillScheduled(g) == game[g] # None /\ game[g].state = "scheduled"

SettleGame(w) ==
  /\ At(w, "settle")
  /\ LET g == job[w].game
     IN  IF StillScheduled(g)
         THEN /\ game' = [game EXCEPT ![g].state = "complete", ![g].winner = job[w].winner,
                                      ![g].forfeit = job[w].forfeit]
              /\ announced' = [announced EXCEPT ![g] = @ + 1]
              /\ Go(w, [job[w] EXCEPT !.at = "judge"])
         ELSE Done(w) /\ UNCHANGED <<game, announced>>
  /\ UNCHANGED <<matchup, stage, length, match, created, queue, staff>>

(* Mutant: the series is judged over once every number has been booked. *)
JudgeAllBooked(w) ==
  /\ At(w, "judge")
  /\ Go(w, IF Reached(Standing, BestOf(job[w].override)) /\ FreeNumbers = {}
           THEN [job[w] EXCEPT !.at = "record", !.then = "record", !.score = Standing]
           ELSE Idle)
  /\ UNCHANGED <<matchup, stage, length, game, match, created, queue, announced, staff>>

(* The snapshot of the series the clinch is decided on.  Opening the next  *)
(* game's room changes nothing here.                                       *)
Judge(w) ==
  /\ At(w, "judge")
  /\ LET scheduled == InState("scheduled")
         clinch == [job[w] EXCEPT
                     !.at = "cancel", !.then = "record", !.score = Standing,
                     !.forfeit = \A g \in InState("complete") : game[g].forfeit,
                     !.pending = {<<g, game[g]>> : g \in scheduled},
                     !.doomed = {game[g].match : g \in scheduled} \ {None}]
     IN  Go(w, IF Reached(Standing, BestOf(job[w].override)) THEN clinch ELSE Idle)
  /\ UNCHANGED <<matchup, stage, length, game, match, created, queue, announced, staff>>

(* _mark_games_cancelled saves the rows as they were loaded.  A row        *)
(* deleted meanwhile is not there to update; one that still names a        *)
(* deleted match violates its foreign key and ends the request.            *)
CancelGame(w) ==
  /\ At(w, "cancel")
  /\ job[w].pending # {}
  /\ LET p == CHOOSE x \in job[w].pending : \A y \in job[w].pending : x[1] <= y[1]
         refused == game[p[1]] # None /\ p[2].match # None /\ match[p[2].match] = None
     IN  /\ game' = IF game[p[1]] = None \/ refused THEN game
                    ELSE [game EXCEPT ![p[1]] = [p[2] EXCEPT !.state = "cancelled"]]
         /\ Go(w, IF refused THEN Idle ELSE [job[w] EXCEPT !.pending = @ \ {p}])
  /\ UNCHANGED <<matchup, stage, length, match, created, queue, announced, staff>>

AllCancelled(w) ==
  /\ At(w, "cancel")
  /\ job[w].pending = {}
  /\ Go(w, [job[w] EXCEPT !.at = IF @ = "cancel" /\ job[w].then = "record" /\ ~job[w].open
                                 THEN "teardown" ELSE job[w].then])
  /\ UNCHANGED <<matchup, stage, length, game, match, created, queue, announced, staff>>

(* _record_result: an OPEN matchup of an ACTIVE stage, and the winner has  *)
(* the higher score unless every game was forfeited.  A refusal ends the   *)
(* settle before anything is torn down.                                    *)
Recordable(j) ==
  /\ matchup.state = "open" /\ stage = "active"
  /\ j.forfeit \/ j.score[j.winner] > j.score[Other(j.winner)]

RecordSeries(w) ==
  /\ At(w, "record")
  /\ Go(w, IF Recordable(job[w]) THEN [job[w] EXCEPT !.at = "save"] ELSE Idle)
  /\ UNCHANGED <<matchup, stage, length, game, match, created, queue, announced, staff>>

SaveResult(w) ==
  /\ At(w, "save")
  /\ matchup' = [state |-> "complete", winner |-> job[w].winner, score |-> job[w].score]
  /\ Go(w, [job[w] EXCEPT !.at = "sweep"])
  /\ UNCHANGED <<stage, length, game, match, created, queue, announced, staff>>

(* Mutant: a recorded result leaves the games it no longer needs. *)
SweepNothing(w) ==
  /\ At(w, "sweep")
  /\ Go(w, [job[w] EXCEPT !.at = "cancel", !.then = "teardown"])
  /\ UNCHANGED <<matchup, stage, length, game, match, created, queue, announced, staff>>

(* cancel_remaining_games after a result from any path. *)
Sweep(w) ==
  /\ At(w, "sweep")
  /\ LET scheduled == InState("scheduled")
     IN  Go(w, [job[w] EXCEPT !.at = "cancel", !.then = "teardown",
                              !.pending = {<<g, game[g]>> : g \in scheduled},
                              !.doomed = @ \cup ({game[g].match : g \in scheduled} \ {None})])
  /\ UNCHANGED <<matchup, stage, length, game, match, created, queue, announced, staff>>

(* _teardown_games cancels the Match behind each game. *)
Teardown(w) ==
  /\ At(w, "teardown")
  /\ IF job[w].doomed = {} THEN Done(w) /\ UNCHANGED <<game, match>>
     ELSE LET m == Lowest(job[w].doomed)
              released == RowsOf(m) \cap InState("scheduled")
          IN  /\ match' = [match EXCEPT ![m] = None]
              /\ game' = Unlinked(DeleteGames(released), m)
              /\ Go(w, [job[w] EXCEPT !.doomed = @ \ {m}])
  /\ UNCHANGED <<matchup, stage, length, created, queue, announced, staff>>

-----------------------------------------------------------------------------
(* Staff results: a forced series result, or a correction of one.          *)

StaffResult(w, s) ==
  /\ MayStart(w, "report")
  /\ \/ matchup.state = "open" /\ stage = "active"
     \/ matchup.state = "complete" /\ matchup.winner # s
  /\ Go(w, [Blank EXCEPT !.kind = "report", !.at = "save", !.winner = s])
  /\ Intervene
  /\ UNCHANGED <<matchup, stage, length, game, match, created, queue, announced>>

-----------------------------------------------------------------------------
(* Booking and linking.                                                    *)

Bookable == matchup.state = "open" /\ ~Decided /\ FreeNumbers # {}

(* A row id is left for every creation in flight (bound). *)
RowToSpare == created.game + Cardinality({v \in Busy : At(v, "create")}) + 1 \in Game

(* schedule_bracket_match creates the Match first, the game row later. *)
Book(w) ==
  /\ MayStart(w, "book")
  /\ Bookable /\ stage # "cancelled" /\ RowToSpare
  /\ created.match + 1 \in Match
  /\ LET m == created.match + 1
     IN  /\ match' = [match EXCEPT ![m] = [finished |-> FALSE, confirmed |-> FALSE,
                                           winner |-> None, forfeit |-> FALSE]]
         /\ created' = [created EXCEPT !.match = m]
         /\ Go(w, [Blank EXCEPT !.kind = "book", !.at = "create", !.match = m,
                                !.number = Lowest(FreeNumbers)])
  /\ UNCHANGED <<matchup, stage, length, game, queue, announced, staff>>

(* link_match_to_bracket_match does not ask for the stage's state. *)
Link(w, m) ==
  /\ MayStart(w, "link")
  /\ Bookable /\ RowToSpare
  /\ match[m] # None /\ RowsOf(m) = {}
  /\ Go(w, [Blank EXCEPT !.kind = "link", !.at = "create", !.match = m,
                         !.number = Lowest(FreeNumbers)])
  /\ UNCHANGED <<matchup, stage, length, game, match, created, queue, announced, staff>>

(* create_game: unique per (matchup, number) and per match. *)
CreateGame(w) ==
  /\ At(w, "create")
  /\ Done(w)
  /\ LET m == job[w].match
         n == job[w].number
         refused == match[m] = None \/ RowsOf(m) # {} \/ \E g \in Rows : game[g].number = n
     IN  IF refused THEN UNCHANGED <<game, created>>
         ELSE /\ game' = [game EXCEPT ![created.game + 1] =
                           [number |-> n, state |-> "scheduled", winner |-> None,
                            forfeit |-> FALSE, match |-> m]]
              /\ created' = [created EXCEPT !.game = @ + 1]
  /\ UNCHANGED <<matchup, stage, length, match, queue, announced, staff>>

(* unlink_match and the release in _remove_match read the row first and    *)
(* delete it by id later. *)
Unlink(w, m) ==
  /\ MayStart(w, "unlink")
  /\ \E g \in RowsOf(m) \cap InState("scheduled") :
       Go(w, [Blank EXCEPT !.kind = "unlink", !.at = "unlink", !.match = m, !.game = g])
  /\ Intervene
  /\ UNCHANGED <<matchup, stage, length, game, match, created, queue, announced>>

UnlinkGame(w) ==
  /\ At(w, "unlink")
  /\ game' = DeleteGames({job[w].game})
  /\ Done(w)
  /\ UNCHANGED <<matchup, stage, length, match, created, queue, announced, staff>>

RemoveMatch(w, m) ==
  /\ MayStart(w, "remove")
  /\ match[m] # None
  /\ LET released == RowsOf(m) \cap InState("scheduled")
     IN  Go(w, [Blank EXCEPT !.kind = "remove", !.at = "remove", !.match = m,
                             !.game = IF released = {} THEN None ELSE Lowest(released)])
  /\ Intervene
  /\ UNCHANGED <<matchup, stage, length, game, match, created, queue, announced>>

(* Mutant: deleting a Match leaves its scheduled game behind. *)
DeleteMatchOnly(w) ==
  /\ At(w, "remove")
  /\ game' = Unlinked(game, job[w].match)
  /\ match' = [match EXCEPT ![job[w].match] = None]
  /\ Done(w)
  /\ UNCHANGED <<matchup, stage, length, created, queue, announced, staff>>

DeleteMatch(w) ==
  /\ At(w, "remove")
  /\ game' = Unlinked(DeleteGames({job[w].game}), job[w].match)
  /\ match' = [match EXCEPT ![job[w].match] = None]
  /\ Done(w)
  /\ UNCHANGED <<matchup, stage, length, created, queue, announced, staff>>

-----------------------------------------------------------------------------
(* The stage and the series' length.                                       *)

CancelStage ==
  /\ stage = "active"
  /\ stage' = "cancelled"
  /\ UNCHANGED <<matchup, length, game, match, created, queue, job, announced, staff>>

(* set_best_of: only while no game is live. *)
SetBestOf(b) ==
  /\ InState("scheduled") \cup InState("complete") = {}
  /\ length' = [length EXCEPT !.override = b]
  /\ Intervene
  /\ UNCHANGED <<matchup, stage, game, match, created, queue, job, announced>>

(* set_round_metadata: in any state of the stage. *)
SetRoundMetadata(b) ==
  /\ RoundEdits \/ Rows = {}
  /\ length' = [length EXCEPT !.round = b]
  /\ Intervene
  /\ UNCHANGED <<matchup, stage, game, match, created, queue, job, announced>>

-----------------------------------------------------------------------------
Init ==
  /\ matchup = [state |-> "open", winner |-> None, score |-> None]
  /\ stage = "active"
  /\ length \in [override : {None}, round : Lengths]
  /\ game = [g \in Game |-> None]
  /\ match = [m \in Match |-> None]
  /\ created = [match |-> 0, game |-> 0]
  /\ queue = <<>>
  /\ job = [w \in Worker |-> Idle]
  /\ announced = [g \in Game |-> 0]
  /\ staff = 0

Continue(w) ==
  \/ LoadGame(w) \/ SettleGame(w) \/ Judge(w) \/ CancelGame(w) \/ AllCancelled(w)
  \/ RecordSeries(w) \/ SaveResult(w) \/ Sweep(w) \/ Teardown(w)
  \/ CreateGame(w) \/ UnlinkGame(w) \/ DeleteMatch(w)

Next ==
  \/ \E w \in Worker : Continue(w) \/ TakeConfirmed(w) \/ Book(w)
  \/ \E w \in Worker, m \in Match, s \in SideOrNone, f \in Forfeits : RecordFinish(w, m, s, f)
  \/ \E w \in Worker, m \in Match : Link(w, m) \/ Unlink(w, m) \/ RemoveMatch(w, m)
  \/ \E w \in Worker, s \in Side : StaffResult(w, s)
  \/ \E m \in Match, s \in Side : RecordMatchResult(m, s)
  \/ \E m \in Match : FinishMatch(m) \/ ConfirmMatch(m)
  \/ CancelStage
  \/ \E b \in Lengths \cup {None} : SetBestOf(b)
  \/ \E b \in Lengths : SetRoundMetadata(b)

Spec == Init /\ [][Next]_vars

-----------------------------------------------------------------------------
(* Properties.                                                             *)

TypeOK ==
  /\ matchup \in [state : {"open", "complete"}, winner : SideOrNone, score : Score \cup {None}]
  /\ stage \in {"active", "cancelled"}
  /\ length \in [override : Lengths \cup {None}, round : Lengths]
  /\ game \in [Game -> GameRow \cup {None}]
  /\ match \in [Match -> MatchRow \cup {None}]
  /\ created \in [match : Nat, game : Nat]
  /\ queue \in Seq(Match)
  /\ job \in [Worker -> {Idle} \cup Jobs]
  /\ announced \in [Game -> Nat]
  /\ staff \in 0..MaxStaff

Quiet == Busy = {}

(* "Counting one game's win twice would let a Bo3 clinch 2-0 off a single  *)
(* game": a game is settled once, however its match is finished and        *)
(* confirmed.                                                              *)
GameSettledOnce == \A g \in Game : announced[g] <= 1

(* Once a side has the wins, the matchup is recorded: no order of settles  *)
(* leaves a decided series open with nothing left to happen.               *)
DecidedSeriesIsRecorded ==
  Quiet /\ stage = "active" /\ Decided => matchup.state = "complete"

(* "A forced 2-0 can't strand a pre-scheduled game 3": between requests, a *)
(* decided matchup has no game still waiting to be played.                 *)
NoStrandedGame ==
  Quiet /\ matchup.state = "complete" => InState("scheduled") = {}

(* An undecided series can go on: a game is booked or can be, and a booked *)
(* game has its match (the slot of a cancelled match was handed back).     *)
SeriesCanGoOn ==
  Quiet /\ stage = "active" /\ matchup.state = "open" =>
    /\ Bookable \/ InState("scheduled") # {}
    /\ \A g \in InState("scheduled") : game[g].match # None
=============================================================================

---------------------------- MODULE QualifierRuns ----------------------------
(***************************************************************************)
(* The runs of one pool of an asynchronous qualifier                       *)
(* (application/services/async_qualifier): a player draws a seed, submits  *)
(* or forfeits; reviewers claim a run and settle it; a run may be voided   *)
(* for a fresh draw; the results of a live race are captured as runs; and  *)
(* a worker expires abandoned runs and drops stale claims.                 *)
(*                                                                         *)
(* A request reads a row, awaits, and writes it back.  Every write but the *)
(* verdict (settle_review, a compare-and-set) and the scores (bulk_update) *)
(* goes through TenantScopedRepository.update, which saves the WHOLE row   *)
(* as it was read.  A request is therefore a job holding the row it read.  *)
(*                                                                         *)
(* Times are abstract.  A permalink's par is the set of runs it was        *)
(* computed from, and a run's score is the par it was computed against.    *)
(***************************************************************************)
EXTENDS Integers, FiniteSets

CONSTANTS
  Player,      \* the qualifier's runners
  Reviewer,    \* qualifier admins; one may be a runner too
  Permalink,   \* the pool's seeds
  Live,        \* the seeds kept for live races: no draw offers them
  Race,        \* the pool's live races
  None,        \* NULL
  Zero,        \* the score of a run that did not finish
  Worker,      \* requests that may be in flight at the same time
  Run,         \* bound: ids of the runs that may ever be created, 1..k
  RunsPerPool, \* AsyncQualifier.runs_per_pool
  Allowed,     \* AsyncQualifier.allowed_reattempts
  Threshold,   \* config.draw_imbalance_threshold
  Conflicts,   \* bound: the conflicts two requests in flight may have
  AnyClaim,    \* bound: a claim may be taken on any run (REST), not only a queued one
  MaxCrashes   \* bound: restarts of the process

ConflictKind == {"row", "par", "allowance", "cap"}

ASSUME IdAssumption ==
  /\ IsFiniteSet(Run) /\ Run = 1..Cardinality(Run)
  /\ Live \subseteq Permalink
ASSUME CountAssumption ==
  /\ RunsPerPool \in Nat \ {0} /\ Allowed \in Nat /\ Threshold \in Nat \ {0}
  /\ MaxCrashes \in Nat
ASSUME ConflictAssumption == Conflicts \subseteq ConflictKind /\ AnyClaim \in BOOLEAN
ASSUME NullAssumption ==
  /\ None # Zero /\ None \notin [par : SUBSET Run] /\ Zero \notin [par : SUBSET Run]
  /\ None \notin Run \cup Player \cup Reviewer \cup Permalink \cup Race

VARIABLES
  run,       \* AsyncQualifierRun rows by id
  par,       \* par_time per permalink: the runs it averages ({} is NULL)
  lapsed,    \* runs whose review claim is older than REVIEW_CLAIM_TTL
  job,       \* what each request in flight holds in memory
  tick,      \* the rows the worker's tick read and has not handled yet
  verdicts,  \* verdicts on a run that had none (ghost)
  spent,     \* reattempts each player asked for and got (ghost)
  crashes    \* restarts so far (bound)

vars == <<run, par, lapsed, job, tick, verdicts, spent, crashes>>

(* compute_score: a score is relative to the par it was computed against. *)
Against(S) == [par |-> S]
Score == [par : SUBSET Run] \cup {None, Zero}
Ended == {"finished", "forfeit"}
Settled == {"approved", "rejected"}

(* race: the live race a run was captured from, None for a run of a draw. *)
RunRow == [user : Player, permalink : Permalink, race : Race \cup {None},
           status : {"in_progress"} \cup Ended, review : {"pending"} \cup Settled,
           void : BOOLEAN, granted : BOOLEAN, score : Score,
           claim : Reviewer \cup {None}, warned : BOOLEAN]

ASSUME RowAssumption == None \notin RunRow

-----------------------------------------------------------------------------
(* Reading the rows.                                                       *)

Rows == {r \in Run : run[r] # None}
RunsOf(u) == {r \in Rows : run[r].user = u}
Valid(u) == {r \in RunsOf(u) : ~run[r].void}

Approved(p) ==
  {r \in Rows : /\ run[r].permalink = p /\ run[r].status = "finished"
                /\ run[r].review = "approved" /\ ~run[r].void}

(* count_self_spent_reattempts: void, and not granted by a reviewer. *)
SelfSpent(u) == Cardinality({r \in RunsOf(u) : run[r].void /\ ~run[r].granted})

(* _ensure_claim_free *)
ClaimFree(r, v) == run[r].claim \in {None, v} \/ r \in lapsed

NextRun == Cardinality(Rows) + 1

(* Mutant: a seed played in a live race is offered again. *)
OpenRaced(u) ==
  {p \in Permalink \ Live : \A r \in Valid(u) : run[r].race = None => run[r].permalink # p}

(* drawable: unplayed seeds, else those played only in a void run. *)
OpenSeeds(u) == {p \in Permalink \ Live : \A r \in Valid(u) : run[r].permalink # p}
Unplayed(u) == {p \in OpenSeeds(u) : \A r \in RunsOf(u) : run[r].permalink # p}
Candidates(u) == IF Unplayed(u) # {} THEN Unplayed(u) ELSE OpenSeeds(u)

Plays(p) == Cardinality({r \in Rows : run[r].permalink = p /\ ~run[r].void})

(* pick_permalink: a spread at the threshold forces the least played. *)
Draw(u) ==
  LET C == Candidates(u)
      forced == \E p, q \in C : Plays(p) - Plays(q) >= Threshold
  IN  {p \in C : forced => \A q \in C : Plays(p) <= Plays(q)}

-----------------------------------------------------------------------------
(* Requests in flight.                                                     *)

Kind == {"submit", "forfeit", "reattempt", "grant", "claim", "release", "review",
         "capture"}
Idle == [kind |-> "idle"]
Busy == {w \in Worker : job[w] # Idle}

(* run, row: the row a request is about, as it was read.  user, permalink, *)
(* race: whose it is, and of which seed and live race.  result: the        *)
(* verdict or outcome it will write.  by: the reviewer claiming it.  over: *)
(* the capture found the racer over the cap.  seen: the approved runs,     *)
(* with their scores, a recompute has read.                                *)
Jobs == [kind : Kind, at : {"save", "settle", "capture", "read", "rescore"},
         run : Run \cup {None}, row : RunRow \cup {None},
         user : Player, permalink : Permalink, race : Race \cup {None},
         result : Ended \cup Settled \cup {None}, by : Reviewer \cup {None},
         over : BOOLEAN, seen : SUBSET (Run \X Score)]

Request(kind, at, r) ==
  [kind |-> kind, at |-> at, run |-> r, row |-> run[r], user |-> run[r].user,
   permalink |-> run[r].permalink, race |-> run[r].race, result |-> None, by |-> None,
   over |-> FALSE, seen |-> {}]

At(w, step) == job[w] # Idle /\ job[w].at = step
Go(w, j) == job' = [job EXCEPT ![w] = j]
Done(w) == Go(w, Idle)

(* A row id is left for every creation in flight (bound). *)
RowToSpare ==
  NextRun + Cardinality({w \in Busy : job[w].at = "capture" /\ job[w].row = None}) \in Run

Ticked == {x[1] : x \in tick.due \cup tick.stale}

(* Which requests stand in each other's way.  Saves(j): the rows it writes *)
(* back whole.  Writes(j): every row it may write.                         *)
Rescores(j) == j.kind \in {"reattempt", "grant", "review", "capture"}
Saves(j) == IF j.kind = "review" THEN {} ELSE {j.run} \ {None}
Writes(j) == ({j.run} \ {None}) \cup (IF Rescores(j) THEN Approved(j.permalink) ELSE {})

FirstVerdicts(j, k) ==
  /\ j.kind = "review" /\ k.kind = "review" /\ j.run = k.run
  /\ run[j.run].review = "pending"

InConflict(j, k) ==
  [row |-> \/ Saves(j) \cap Writes(k) # {}
           \/ Saves(k) \cap Writes(j) # {},
   par |-> /\ Rescores(j) /\ Rescores(k) /\ j.permalink = k.permalink
           /\ ~FirstVerdicts(j, k),
   allowance |-> j.kind = "reattempt" /\ k.kind = "reattempt" /\ j.user = k.user,
   cap |-> /\ j.user = k.user /\ "capture" \in {j.kind, k.kind}
           /\ {j.kind, k.kind} \subseteq {"capture", "reattempt", "grant"}]

MayStart(w, j) ==
  /\ job[w] = Idle
  /\ \A v \in Busy, c \in ConflictKind : InConflict(j, job[v])[c] => c \in Conflicts
  /\ "row" \in Conflicts \/ Writes(j) \cap Ticked = {}

Start(w, j) == MayStart(w, j) /\ Go(w, j)

(* _require_own_active_run *)
InProgress == {r \in Rows : run[r].status = "in_progress"}

-----------------------------------------------------------------------------
(* The player.                                                             *)

(* start_run: one transaction under the player's row lock.  A window that  *)
(* is shut refuses the draw, which nothing here obliges anyone to make.    *)
StartRun(u, p) ==
  /\ RowToSpare
  /\ \A r \in Valid(u) : run[r].status # "in_progress"
  /\ Cardinality(Valid(u)) < RunsPerPool
  /\ p \in Draw(u)
  /\ "cap" \in Conflicts \/ \A w \in Busy : job[w].kind # "capture" \/ job[w].user # u
  /\ run' = [run EXCEPT ![NextRun] =
       [user |-> u, permalink |-> p, race |-> None, status |-> "in_progress",
        review |-> "pending", void |-> FALSE, granted |-> FALSE, score |-> None,
        claim |-> None, warned |-> FALSE]]
  /\ UNCHANGED <<par, lapsed, job, tick, verdicts, spent, crashes>>

(* Mutant: a run that has ended may be submitted again. *)
SubmitAgain(w, r) ==
  /\ r \in Rows
  /\ Start(w, Request("submit", "save", r))
  /\ UNCHANGED <<run, par, lapsed, tick, verdicts, spent, crashes>>

SubmitRun(w, r) ==
  /\ r \in InProgress
  /\ Start(w, Request("submit", "save", r))
  /\ UNCHANGED <<run, par, lapsed, tick, verdicts, spent, crashes>>

ForfeitRun(w, r) ==
  /\ r \in InProgress
  /\ Start(w, Request("forfeit", "save", r))
  /\ UNCHANGED <<run, par, lapsed, tick, verdicts, spent, crashes>>

Voidable(r) == r \in Rows /\ ~run[r].void /\ run[r].status \in Ended

(* Mutant: a reviewer's grant is counted, the runner's own is not. *)
ReattemptUncounted(w, r) ==
  /\ Voidable(r)
  /\ Cardinality({q \in RunsOf(run[r].user) : run[q].granted}) <= Allowed
  /\ Start(w, Request("reattempt", "save", r))
  /\ UNCHANGED <<run, par, lapsed, tick, verdicts, spent, crashes>>

ReattemptRun(w, r) ==
  /\ Voidable(r)
  /\ SelfSpent(run[r].user) < Allowed
  /\ Start(w, Request("reattempt", "save", r))
  /\ UNCHANGED <<run, par, lapsed, tick, verdicts, spent, crashes>>

-----------------------------------------------------------------------------
(* Reviewers.                                                              *)

GrantReattempt(w, r) ==
  /\ Voidable(r)
  /\ Start(w, Request("grant", "save", r))
  /\ UNCHANGED <<run, par, lapsed, tick, verdicts, spent, crashes>>

(* list_pending_review: what the queue offers. *)
Queued(r) == run[r].status = "finished" /\ run[r].review = "pending" /\ ~run[r].void

ClaimRun(w, v, r) ==
  /\ r \in Rows /\ ClaimFree(r, v)
  /\ AnyClaim \/ Queued(r)
  /\ Start(w, [Request("claim", "save", r) EXCEPT !.by = v])
  /\ UNCHANGED <<run, par, lapsed, tick, verdicts, spent, crashes>>

ReleaseClaim(w, r) ==
  /\ r \in Rows
  /\ AnyClaim \/ run[r].claim # None
  /\ Start(w, Request("release", "save", r))
  /\ UNCHANGED <<run, par, lapsed, tick, verdicts, spent, crashes>>

(* review_run: a settled run is reopened only as an override. *)
ReviewRun(w, v, r, verdict) ==
  /\ r \in Rows
  /\ run[r].user # v /\ run[r].status = "finished" /\ ClaimFree(r, v)
  /\ Start(w, [Request("review", "settle", r) EXCEPT !.result = verdict])
  /\ UNCHANGED <<run, par, lapsed, tick, verdicts, spent, crashes>>

(* Mutant: the verdict is written without comparing. *)
SettleBlindly(w) ==
  /\ At(w, "settle")
  /\ LET r == job[w].run
         verdict == job[w].result
     IN  /\ run' = [run EXCEPT ![r].review = verdict, ![r].claim = None,
                               ![r].score = IF verdict = "rejected" THEN None ELSE @]
         /\ verdicts' = [verdicts EXCEPT ![r] =
                          @ + (IF job[w].row.review = "pending" THEN 1 ELSE 0)]
         /\ lapsed' = lapsed \ {r}
         /\ Go(w, [job[w] EXCEPT !.at = "read"])
  /\ UNCHANGED <<par, tick, spent, crashes>>

(* settle_review: the compare-and-set on the review status. *)
SettleReview(w) ==
  /\ At(w, "settle")
  /\ LET r == job[w].run
         verdict == job[w].result
     IN  IF run[r].review = job[w].row.review
         THEN /\ run' = [run EXCEPT ![r].review = verdict, ![r].claim = None,
                                    ![r].score = IF verdict = "rejected" THEN None ELSE @]
              /\ verdicts' = [verdicts EXCEPT ![r] =
                               @ + (IF job[w].row.review = "pending" THEN 1 ELSE 0)]
              /\ lapsed' = lapsed \ {r}
              /\ Go(w, [job[w] EXCEPT !.at = "read"])
         ELSE Done(w) /\ UNCHANGED <<run, lapsed, verdicts>>
  /\ UNCHANGED <<par, tick, spent, crashes>>

-----------------------------------------------------------------------------
(* Writing the row back, whole.                                            *)

SaveRow(w, row) == run' = [run EXCEPT ![job[w].run] = row]

SaveSubmitted(w) ==
  /\ At(w, "save") /\ job[w].kind = "submit"
  /\ SaveRow(w, [job[w].row EXCEPT !.status = "finished", !.review = "pending"])
  /\ Done(w)
  /\ UNCHANGED <<par, lapsed, tick, verdicts, spent, crashes>>

SaveForfeited(w) ==
  /\ At(w, "save") /\ job[w].kind = "forfeit"
  /\ SaveRow(w, [job[w].row EXCEPT !.status = "forfeit", !.review = "approved",
                                   !.score = Zero])
  /\ Done(w)
  /\ UNCHANGED <<par, lapsed, tick, verdicts, spent, crashes>>

(* _void_run *)
SaveVoided(w) ==
  /\ At(w, "save") /\ job[w].kind \in {"reattempt", "grant"}
  /\ SaveRow(w, [job[w].row EXCEPT !.void = TRUE, !.granted = (job[w].kind = "grant"),
                                   !.score = None])
  /\ spent' = [spent EXCEPT ![job[w].user] =
                @ + (IF job[w].kind = "reattempt" THEN 1 ELSE 0)]
  /\ Go(w, [job[w] EXCEPT !.at = "read"])
  /\ UNCHANGED <<par, lapsed, tick, verdicts, crashes>>

SaveClaimed(w) ==
  /\ At(w, "save") /\ job[w].kind = "claim"
  /\ SaveRow(w, [job[w].row EXCEPT !.claim = job[w].by])
  /\ lapsed' = lapsed \ {job[w].run}
  /\ Done(w)
  /\ UNCHANGED <<par, tick, verdicts, spent, crashes>>

SaveReleased(w) ==
  /\ At(w, "save") /\ job[w].kind = "release"
  /\ SaveRow(w, [job[w].row EXCEPT !.claim = None])
  /\ lapsed' = lapsed \ {job[w].run}
  /\ Done(w)
  /\ UNCHANGED <<par, tick, verdicts, spent, crashes>>

-----------------------------------------------------------------------------
(* A live race's results: _capture, one racer of it.                       *)

(* The racer's run of an earlier record of this race is written over. *)
CaptureOf(u, x, p, result) ==
  LET prior == {r \in RunsOf(u) : run[r].race = x}
      others == Valid(u) \ prior
  IN  [kind |-> "capture", at |-> "capture",
       run |-> IF prior = {} THEN None ELSE CHOOSE r \in prior : TRUE,
       row |-> IF prior = {} THEN None ELSE run[CHOOSE r \in prior : TRUE],
       user |-> u, permalink |-> p, race |-> x, result |-> result, by |-> None,
       over |-> Cardinality(others) >= RunsPerPool, seen |-> {}]

(* Any seed of the pool may be raced, drawn ones and those of other races  *)
(* included; a race with runs keeps its seed (assign_permalink).           *)
Capture(w, u, x, p, result) ==
  /\ \A r \in Rows : run[r].race = x => run[r].permalink = p
  /\ RowToSpare \/ CaptureOf(u, x, p, result).row # None
  /\ Start(w, CaptureOf(u, x, p, result))
  /\ UNCHANGED <<run, par, lapsed, tick, verdicts, spent, crashes>>

(* Mutant: a racer over the cap keeps a counting run. *)
SaveUncapped(w) ==
  /\ At(w, "capture")
  /\ LET j == job[w]
         score == IF j.result = "finished" THEN None ELSE Zero
     IN  IF j.row # None
         THEN SaveRow(w, [j.row EXCEPT !.status = j.result, !.review = "approved",
                                       !.score = score])
         ELSE run' = [run EXCEPT ![NextRun] =
                [user |-> j.user, permalink |-> j.permalink, race |-> j.race,
                 status |-> j.result, review |-> "approved", void |-> FALSE,
                 granted |-> FALSE, score |-> score, claim |-> None, warned |-> FALSE]]
  /\ Go(w, [job[w] EXCEPT !.at = "read"])
  /\ UNCHANGED <<par, lapsed, tick, verdicts, spent, crashes>>

(* A racer over the cap is recorded void, which is neither a grant nor a   *)
(* reattempt of theirs.                                                    *)
SaveCaptured(w) ==
  /\ At(w, "capture")
  /\ LET j == job[w]
         score == IF j.over \/ j.result = "finished" THEN None ELSE Zero
     IN  IF j.row # None
         THEN SaveRow(w, [j.row EXCEPT !.status = j.result, !.review = "approved",
                                       !.score = score, !.void = @ \/ j.over])
         ELSE run' = [run EXCEPT ![NextRun] =
                [user |-> j.user, permalink |-> j.permalink, race |-> j.race,
                 status |-> j.result, review |-> "approved", void |-> j.over,
                 granted |-> FALSE, score |-> score, claim |-> None, warned |-> FALSE]]
  /\ Go(w, [job[w] EXCEPT !.at = "read"])
  /\ UNCHANGED <<par, lapsed, tick, verdicts, spent, crashes>>

-----------------------------------------------------------------------------
(* recompute_par_and_scores: the approved runs are read, and the par and   *)
(* the scores that changed are written later in one transaction.           *)

ReadApproved(w) ==
  /\ At(w, "read")
  /\ Go(w, [job[w] EXCEPT !.at = "rescore",
                          !.seen = {<<r, run[r].score>> : r \in Approved(job[w].permalink)}])
  /\ UNCHANGED <<run, par, lapsed, tick, verdicts, spent, crashes>>

SeenRuns(w) == {x[1] : x \in job[w].seen}
Rescored(w) == {x[1] : x \in {y \in job[w].seen : y[2] # Against(SeenRuns(w))}}

(* Mutant: only the runs that have no score yet are scored. *)
WriteNewScores(w) ==
  /\ At(w, "rescore")
  /\ par' = [par EXCEPT ![job[w].permalink] = SeenRuns(w)]
  /\ run' = [r \in Run |-> IF r \in Rescored(w) /\ run[r].score = None
                           THEN [run[r] EXCEPT !.score = Against(SeenRuns(w))] ELSE run[r]]
  /\ Done(w)
  /\ UNCHANGED <<lapsed, tick, verdicts, spent, crashes>>

WriteScores(w) ==
  /\ At(w, "rescore")
  /\ par' = [par EXCEPT ![job[w].permalink] = SeenRuns(w)]
  /\ run' = [r \in Run |-> IF r \in Rescored(w)
                           THEN [run[r] EXCEPT !.score = Against(SeenRuns(w))] ELSE run[r]]
  /\ Done(w)
  /\ UNCHANGED <<lapsed, tick, verdicts, spent, crashes>>

-----------------------------------------------------------------------------
(* The worker: one snapshot per tick, handled row by row.                  *)

Stale == {<<r, run[r]>> : r \in {q \in lapsed : run[q].claim # None}}

First(S) == CHOOSE x \in S : \A y \in S : x[1] <= y[1]

(* Which runs the clock finds past their deadline, and which within the    *)
(* warning lead, is chosen at each tick; of two runs the earlier is due    *)
(* first.                                                                  *)
TickStart(due, closing) ==
  /\ tick.due \cup tick.stale = {}
  /\ due \cap closing = {}
  /\ \A r \in due, q \in InProgress : q < r => q \in due
  /\ \A r \in closing, q \in InProgress : q < r => q \in due \cup closing
  /\ LET read == {<<r, run[r], r \in due>> : r \in due \cup {q \in closing : ~run[q].warned}}
     IN  /\ read \cup Stale # {}
         /\ \/ "row" \in Conflicts
            \/ \A w \in Busy : \A x \in read \cup Stale : x[1] \notin Writes(job[w])
         /\ tick' = [due |-> read, stale |-> Stale]
  /\ UNCHANGED <<run, par, lapsed, job, verdicts, spent, crashes>>

(* Mutant: an overdue run is expired only if it was warned. *)
TickWarned ==
  /\ tick.due # {}
  /\ LET x == First(tick.due)
     IN  /\ run' = [run EXCEPT ![x[1]] =
                     IF x[3] /\ x[2].warned
                     THEN [x[2] EXCEPT !.status = "forfeit", !.review = "approved",
                                       !.score = Zero]
                     ELSE x[2]]
         /\ tick' = [tick EXCEPT !.due = @ \ {x}]
  /\ UNCHANGED <<par, lapsed, job, verdicts, spent, crashes>>

(* expire_run, or warn_run_expiring: decided on the row as the tick read it. *)
TickRun ==
  /\ tick.due # {}
  /\ LET x == First(tick.due)
     IN  /\ run' = [run EXCEPT ![x[1]] =
                     IF x[3]
                     THEN [x[2] EXCEPT !.status = "forfeit", !.review = "approved",
                                       !.score = Zero]
                     ELSE [x[2] EXCEPT !.warned = TRUE]]
         /\ tick' = [tick EXCEPT !.due = @ \ {x}]
  /\ UNCHANGED <<par, lapsed, job, verdicts, spent, crashes>>

(* release_stale_claim *)
TickClaim ==
  /\ tick.due = {} /\ tick.stale # {}
  /\ LET x == First(tick.stale)
     IN  /\ run' = [run EXCEPT ![x[1]] = [x[2] EXCEPT !.claim = None]]
         /\ lapsed' = lapsed \ {x[1]}
         /\ tick' = [tick EXCEPT !.stale = @ \ {x}]
  /\ UNCHANGED <<par, job, verdicts, spent, crashes>>

-----------------------------------------------------------------------------
(* The clock, and the process.                                             *)

ClaimLapses(r) ==
  /\ r \in Rows \ lapsed /\ run[r].claim # None
  /\ lapsed' = lapsed \cup {r}
  /\ UNCHANGED <<run, par, job, tick, verdicts, spent, crashes>>

(* Whatever was in flight is lost; the rows are not. *)
Restart ==
  /\ crashes < MaxCrashes
  /\ Busy # {} \/ tick.due \cup tick.stale # {}
  /\ crashes' = crashes + 1
  /\ job' = [w \in Worker |-> Idle]
  /\ tick' = [due |-> {}, stale |-> {}]
  /\ UNCHANGED <<run, par, lapsed, verdicts, spent>>

-----------------------------------------------------------------------------
Init ==
  /\ run = [r \in Run |-> None]
  /\ par = [p \in Permalink |-> {}]
  /\ lapsed = {}
  /\ job = [w \in Worker |-> Idle]
  /\ tick = [due |-> {}, stale |-> {}]
  /\ verdicts = [r \in Run |-> 0]
  /\ spent = [u \in Player |-> 0]
  /\ crashes = 0

Continue(w) ==
  \/ SaveSubmitted(w) \/ SaveForfeited(w) \/ SaveVoided(w) \/ SaveClaimed(w)
  \/ SaveReleased(w) \/ SaveCaptured(w) \/ SettleReview(w) \/ ReadApproved(w)
  \/ WriteScores(w)

Next ==
  \/ \E w \in Worker : Continue(w)
  \/ \E u \in Player, p \in Permalink : StartRun(u, p)
  \/ \E w \in Worker, r \in Run : SubmitRun(w, r) \/ ForfeitRun(w, r) \/ ReattemptRun(w, r)
  \/ \E w \in Worker, v \in Reviewer, r \in Run :
       \/ GrantReattempt(w, r) \/ ClaimRun(w, v, r) \/ ReleaseClaim(w, r)
       \/ \E verdict \in Settled : ReviewRun(w, v, r, verdict)
  \/ \E w \in Worker, u \in Player, x \in Race, p \in Permalink, result \in Ended :
       Capture(w, u, x, p, result)
  \/ \E due, closing \in SUBSET InProgress : TickStart(due, closing)
  \/ TickRun \/ TickClaim
  \/ \E r \in Run : ClaimLapses(r)
  \/ Restart

(* Requests finish.  The worker keeps ticking, and a run left open is past *)
(* its deadline at some tick, as are those started before it.  Requests    *)
(* are short: a tick they hold off in an instance without row conflicts    *)
(* finds a moment between two of them.                                     *)
Fairness ==
  /\ \A w \in Worker : WF_vars(Continue(w))
  /\ \A r \in Run :
       SF_vars(r \in InProgress /\ TickStart({q \in InProgress : q <= r}, {}))
  /\ WF_vars(TickRun) /\ WF_vars(TickClaim)

Spec == Init /\ [][Next]_vars /\ Fairness

-----------------------------------------------------------------------------
(* Properties.                                                             *)

TypeOK ==
  /\ run \in [Run -> RunRow \cup {None}]
  /\ par \in [Permalink -> SUBSET Run]
  /\ lapsed \subseteq Rows
  /\ job \in [Worker -> {Idle} \cup Jobs]
  /\ tick \in [due : SUBSET (Run \X RunRow \X BOOLEAN), stale : SUBSET (Run \X RunRow)]
  /\ verdicts \in [Run -> Nat]
  /\ spent \in [Player -> Nat]
  /\ crashes \in 0..MaxCrashes

(* A draw never gives a player a seed of which a run of theirs counts,     *)
(* drawn or raced: of two counting runs on one seed, the later was         *)
(* captured from a live race, which may be held on any seed of the pool.   *)
NoSeedDrawnTwice ==
  \A u \in Player : \A r, q \in Valid(u) :
    r < q /\ run[r].permalink = run[q].permalink => run[q].race # None

(* A player never gets more reattempts of their own than the qualifier     *)
(* allows.                                                                 *)
ReattemptsWithinAllowance == \A u \in Player : spent[u] <= Allowed

(* "Both commit at once": of the reviewers who found a run unreviewed,     *)
(* only one settles it.                                                    *)
VerdictSettledOnce == \A r \in Run : verdicts[r] <= 1

Quiet == Busy = {} /\ tick.due \cup tick.stale = {}

(* "A fresh par standing beside stale scores ... the one state nothing     *)
(* downstream can detect": once every request is answered, a seed's par is *)
(* that of its approved runs, each of them is scored against it, and no    *)
(* run that left the approved set has kept a score.                        *)
ScoresFollowPar ==
  Quiet /\ crashes = 0 =>
    /\ \A p \in Permalink : par[p] = Approved(p)
    /\ \A r \in Rows :
         IF r \in Approved(run[r].permalink)
         THEN run[r].score = Against(Approved(run[r].permalink))
         ELSE run[r].score \in {None, Zero}

(* "A run that has already left IN_PROGRESS is returned untouched" and     *)
(* "forfeit is irreversible": the outcome of a self-paced run is never     *)
(* rewritten, and a void run never counts again.                           *)
EndedStaysEnded ==
  [][\A r \in Rows :
       /\ run[r].status \in Ended /\ run[r].race = None => run'[r].status = run[r].status
       /\ run[r].void => run'[r].void]_vars

(* A run nobody finishes is ended by the worker.                           *)
AbandonedRunEnds ==
  \A r \in Run : r \in InProgress ~> r \notin InProgress

(* The runs keep the ledger's promise: each row is an entry of the ledger, *)
(* and every step of the code moves the ledger as it allows or not at all. *)
Life(r) == IF r \notin Rows THEN "unused"
           ELSE IF run[r].void THEN "void"
           ELSE IF run[r].status = "in_progress" THEN "open" ELSE "ended"

Ledger == INSTANCE RunLedger
  WITH Entry <- Run, Cap <- RunsPerPool, life <- [r \in Run |-> Life(r)],
       owner <- [r \in Run |-> IF r \in Rows THEN run[r].user ELSE None]

LedgerKept == Ledger!Spec
=============================================================================

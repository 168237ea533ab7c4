------------------------- MODULE QualifierRuns_proofs -------------------------
(***************************************************************************)
(* Every state the qualifier's runs reach is well typed, whatever requests *)
(* overlap.  And when no two of them stand in each other's way, each step  *)
(* of the code is one the ledger of runs allows (RunLedger) or leaves the  *)
(* ledger alone, a run gets one verdict, no player has two counting runs   *)
(* of a seed or more reattempts than allowed, and every seed's scores are  *)
(* those of its par: for any number of players, reviewers, seeds, runs,    *)
(* requests in flight and restarts.                                        *)
(*                                                                         *)
(* A row is written back whole, as it was read.  That no step undoes       *)
(* another's therefore rests on what is held in memory, by requests and by *)
(* the worker's tick, still being the row of the table in everything a     *)
(* run's life depends on (Held, TickHeld), which rests on nobody else      *)
(* being about to write it (Apart).                                        *)
(***************************************************************************)
EXTENDS QualifierRuns, FiniteSetTheorems, WellFoundedInduction, TLAPS

(* The rows a tick read are handled in the order of their ids, of which    *)
(* there is always a first.                                                *)
LEMMA FirstIn ==
  ASSUME NEW S, S # {}, \A x \in S : x[1] \in Nat
  PROVE  First(S) \in S
<1> DEFINE T == {x[1] : x \in S}
<1>1. T \subseteq Nat /\ T # {}
  OBVIOUS
<1>2. \E n \in T : \A m \in T : ~(<<m, n>> \in OpToRel(<, Nat))
  BY <1>1, NatLessThanWellFounded, WFMin, Zenon
<1>3. \E n \in T : \A m \in T : n <= m
  <2>1. ASSUME NEW n \in T, NEW m \in T, ~(<<m, n>> \in OpToRel(<, Nat)) PROVE n <= m
    <3>1. n \in Nat /\ m \in Nat
      BY <1>1
    <3> HIDE DEF T
    <3> QED
      BY <2>1, <3>1 DEF OpToRel
  <2> HIDE DEF T
  <2> QED
    BY <1>2, <2>1
<1>4. \E x \in S : \A y \in S : x[1] <= y[1]
  BY <1>3
<1> QED
  BY <1>4 DEF First

LEMMA Ids == Run \subseteq Nat
BY IdAssumption, FS_CardinalityType

-----------------------------------------------------------------------------
(* Types.                                                                  *)

(* What a request in flight is about exists, and its steps have what they  *)
(* write.                                                                  *)
Fit(j) ==
  /\ j.run # None => j.run \in Rows
  /\ \A x \in j.seen : x[1] \in Rows
  /\ j.at = "save" => j.run # None /\ j.row # None
  /\ j.at = "settle" => j.run # None /\ j.result \in Settled
  /\ j.at = "capture" => j.result \in Ended /\ (j.run = None <=> j.row = None)

Base == TypeOK /\ \A w \in Busy : Fit(job[w])

(* A request that begins only takes its place in memory. *)
Begins(w, j) ==
  /\ Start(w, j) /\ j \in Jobs
  /\ UNCHANGED <<run, par, lapsed, tick, verdicts, spent, crashes>>

LEMMA RowTyped == ASSUME TypeOK, NEW r \in Rows PROVE r \in Run /\ run[r] \in RunRow
BY DEF TypeOK, Rows

LEMMA RequestTyped ==
  ASSUME TypeOK, NEW r \in Rows, NEW kind \in Kind, NEW at \in {"save", "settle"}
  PROVE  Request(kind, at, r) \in Jobs
BY RowTyped DEF Request, Jobs, RunRow

(* What a capture reads: the racer's earlier result, if there is one. *)
LEMMA CaptureRead ==
  ASSUME TypeOK, NEW u \in Player, NEW x \in Race, NEW p \in Permalink, NEW result \in Ended
  PROVE  LET j == CaptureOf(u, x, p, result)
         IN  /\ j \in Jobs
             /\ j.kind = "capture" /\ j.at = "capture" /\ j.user = u /\ j.result = result
             /\ j.seen = {}
             /\ \/ j.run = None /\ j.row = None
                   /\ (j.over <=> Cardinality(Valid(u)) >= RunsPerPool)
                \/ j.run \in Rows /\ j.row = run[j.run] /\ j.row.race # None /\ j.row.user = u
<1> DEFINE prior == {r \in RunsOf(u) : run[r].race = x}
           r0 == CHOOSE r \in prior : TRUE
           j == CaptureOf(u, x, p, result)
<1>1. CASE prior = {}
  <2>1. Valid(u) \ prior = Valid(u)
    BY <1>1
  <2>2. j = [kind |-> "capture", at |-> "capture", run |-> None, row |-> None,
             user |-> u, permalink |-> p, race |-> x, result |-> result, by |-> None,
             over |-> Cardinality(Valid(u)) >= RunsPerPool, seen |-> {}]
    BY <1>1, <2>1 DEF CaptureOf
  <2> DEFINE o == Cardinality(Valid(u)) >= RunsPerPool
  <2>3. o \in BOOLEAN
    OBVIOUS
  <2>4. j.over = o /\ j.run = None /\ j.row = None
    BY <2>2
  <2> HIDE DEF o
  <2>5. j \in Jobs
    BY <2>2, <2>3 DEF Jobs, Kind, o
  <2>6. /\ j.kind = "capture" /\ j.at = "capture" /\ j.user = u /\ j.result = result
        /\ j.seen = {}
    BY <2>2
  <2>7. j.over <=> Cardinality(Valid(u)) >= RunsPerPool
    BY <2>4 DEF o
  <2> QED
    BY <2>4, <2>5, <2>6, <2>7
<1>2. CASE prior # {}
  <2>1. r0 \in prior
    BY <1>2
  <2>2. r0 \in Rows /\ run[r0].race # None /\ run[r0].user = u
    BY <2>1, NullAssumption DEF RunsOf
  <2>3. r0 \in Run /\ run[r0] \in RunRow
    BY <2>2, RowTyped
  <2>4. j = [kind |-> "capture", at |-> "capture", run |-> r0, row |-> run[r0],
             user |-> u, permalink |-> p, race |-> x, result |-> result, by |-> None,
             over |-> Cardinality(Valid(u) \ prior) >= RunsPerPool, seen |-> {}]
    BY <1>2 DEF CaptureOf
  <2> HIDE DEF r0, prior
  <2> QED
    BY <2>2, <2>3, <2>4 DEF Jobs, Kind
<1> QED
  BY <1>1, <1>2

(* Every request that begins is one of these. *)
LEMMA BeginsAs ==
  ASSUME TypeOK, NEW w \in Worker
  PROVE  /\ \A r \in Run : SubmitRun(w, r) =>
              r \in InProgress /\ Begins(w, Request("submit", "save", r))
         /\ \A r \in Run : ForfeitRun(w, r) =>
              r \in InProgress /\ Begins(w, Request("forfeit", "save", r))
         /\ \A r \in Run : ReattemptRun(w, r) =>
              Voidable(r) /\ Begins(w, Request("reattempt", "save", r))
         /\ \A r \in Run : GrantReattempt(w, r) =>
              Voidable(r) /\ Begins(w, Request("grant", "save", r))
         /\ \A v \in Reviewer, r \in Run : ClaimRun(w, v, r) =>
              r \in Rows /\ (AnyClaim \/ Queued(r))
              /\ Begins(w, [Request("claim", "save", r) EXCEPT !.by = v])
         /\ \A r \in Run : ReleaseClaim(w, r) =>
              r \in Rows /\ Begins(w, Request("release", "save", r))
         /\ \A v \in Reviewer, r \in Run, verdict \in Settled : ReviewRun(w, v, r, verdict) =>
              r \in Rows /\ Begins(w, [Request("review", "settle", r) EXCEPT !.result = verdict])
         /\ \A u \in Player, x \in Race, p \in Permalink, result \in Ended :
              Capture(w, u, x, p, result) => Begins(w, CaptureOf(u, x, p, result))
<1>1. InProgress \subseteq Rows
  BY DEF InProgress
<1>2. \A r \in Run : Voidable(r) => r \in Rows
  BY DEF Voidable
<1>3. \A r \in Run : SubmitRun(w, r) =>
        r \in InProgress /\ Begins(w, Request("submit", "save", r))
  BY <1>1, RequestTyped DEF SubmitRun, Begins, Kind
<1>4. \A r \in Run : ForfeitRun(w, r) =>
        r \in InProgress /\ Begins(w, Request("forfeit", "save", r))
  BY <1>1, RequestTyped DEF ForfeitRun, Begins, Kind
<1>5. \A r \in Run : ReattemptRun(w, r) =>
        Voidable(r) /\ Begins(w, Request("reattempt", "save", r))
  BY <1>2, RequestTyped DEF ReattemptRun, Begins, Kind
<1>6. \A r \in Run : GrantReattempt(w, r) =>
        Voidable(r) /\ Begins(w, Request("grant", "save", r))
  BY <1>2, RequestTyped DEF GrantReattempt, Begins, Kind
<1>7. ASSUME NEW v \in Reviewer, NEW r \in Run, ClaimRun(w, v, r)
      PROVE  r \in Rows /\ (AnyClaim \/ Queued(r))
             /\ Begins(w, [Request("claim", "save", r) EXCEPT !.by = v])
  <2>1. r \in Rows
    BY <1>7 DEF ClaimRun
  <2>2. Request("claim", "save", r) \in Jobs
    BY <2>1, RequestTyped DEF Kind
  <2>3. [Request("claim", "save", r) EXCEPT !.by = v] \in Jobs
    BY <2>2 DEF Jobs
  <2> QED
    BY <1>7, <2>1, <2>3 DEF ClaimRun, Begins
<1>8. \A r \in Run : ReleaseClaim(w, r) =>
        r \in Rows /\ Begins(w, Request("release", "save", r))
  BY RequestTyped DEF ReleaseClaim, Begins, Kind
<1>9. ASSUME NEW v \in Reviewer, NEW r \in Run, NEW verdict \in Settled,
             ReviewRun(w, v, r, verdict)
      PROVE  r \in Rows /\ Begins(w, [Request("review", "settle", r) EXCEPT !.result = verdict])
  <2>1. r \in Rows
    BY <1>9 DEF ReviewRun
  <2>2. Request("review", "settle", r) \in Jobs
    BY <2>1, RequestTyped DEF Kind
  <2>3. [Request("review", "settle", r) EXCEPT !.result = verdict] \in Jobs
    BY <2>2 DEF Jobs
  <2> QED
    BY <1>9, <2>1, <2>3 DEF ReviewRun, Begins
<1>10. \A u \in Player, x \in Race, p \in Permalink, result \in Ended :
         Capture(w, u, x, p, result) => Begins(w, CaptureOf(u, x, p, result))
  BY CaptureRead, IdAssumption DEF Capture, Begins
<1> QED
  BY <1>3, <1>4, <1>5, <1>6, <1>7, <1>8, <1>9, <1>10

LEMMA JobTyped ==
  ASSUME TypeOK, NEW w \in Busy
  PROVE  w \in Worker /\ job[w] \in Jobs /\ [job[w] EXCEPT !.at = "read"] \in Jobs
<1>1. w \in Worker /\ job[w] \in Jobs
  BY DEF TypeOK, Busy
<1> QED
  BY <1>1 DEF Jobs

LEMMA AtBusy == ASSUME NEW w \in Worker, NEW step, At(w, step) PROVE w \in Busy /\ job[w].at = step
BY DEF At, Busy

LEMMA RowWritten ==
  ASSUME TypeOK, NEW r \in Rows, NEW row \in RunRow, run' = [run EXCEPT ![r] = row]
  PROVE  /\ run' \in [Run -> RunRow \cup {None}]
         /\ Rows' = Rows
         /\ \A q \in Run : run'[q] = IF q = r THEN row ELSE run[q]
BY RowAssumption DEF TypeOK, Rows

LEMMA RowAdded ==
  ASSUME TypeOK, NEW row \in RunRow, run' = [run EXCEPT ![NextRun] = row]
  PROVE  /\ run' \in [Run -> RunRow \cup {None}]
         /\ Rows \subseteq Rows'
         /\ \A q \in Run : run'[q] = IF q = NextRun THEN row ELSE run[q]
BY RowAssumption DEF TypeOK, Rows

(* A request that goes on stays fit, as rows are never deleted. *)
LEMMA FitKept ==
  ASSUME Base, Rows \subseteq Rows',
         \A z \in Worker : \/ job'[z] \in {job[z], Idle}
                           \/ z \in Busy /\ job'[z] = [job[z] EXCEPT !.at = "read"]
  PROVE  \A z \in Busy' : Fit(job[z])'
<1> SUFFICES ASSUME NEW z \in Busy' PROVE Fit(job[z])'
  OBVIOUS
<1>1. z \in Worker /\ job'[z] # Idle
  BY DEF Busy
<1>2. z \in Busy
  BY <1>1 DEF Busy
<1>3. Fit(job[z])
  BY <1>2 DEF Base
<1>4. CASE job'[z] = job[z]
  BY <1>3, <1>4 DEF Fit
<1>5. CASE job'[z] = [job[z] EXCEPT !.at = "read"]
  <2>1. job[z] \in Jobs
    BY <1>2, JobTyped DEF Base
  <2>2. /\ job'[z].run = job[z].run /\ job'[z].seen = job[z].seen /\ job'[z].at = "read"
    BY <1>5, <2>1 DEF Jobs
  <2> QED
    BY <1>3, <2>2 DEF Fit
<1> QED
  BY <1>1, <1>4, <1>5

LEMMA BeginsBase ==
  ASSUME Base, NEW w \in Worker, NEW j, Begins(w, j), Fit(j)
  PROVE  Base'
<1>1. /\ job[w] = Idle /\ job' = [job EXCEPT ![w] = j] /\ j \in Jobs
      /\ UNCHANGED <<run, par, lapsed, tick, verdicts, spent, crashes>>
  BY DEF Begins, Start, MayStart, Go
<1>2. Rows' = Rows
  BY <1>1 DEF Rows
<1>3. TypeOK'
  BY <1>1, <1>2 DEF Base, TypeOK
<1>4. ASSUME NEW z \in Busy' PROVE Fit(job[z])'
  <2>1. CASE z = w
    <3>1. job'[z] = j
      BY <1>1, <2>1 DEF Base, TypeOK
    <3> QED
      BY <1>2, <3>1 DEF Fit
  <2>2. CASE z # w
    <3>1. job'[z] = job[z] /\ z \in Busy
      BY <1>1, <2>2 DEF Base, TypeOK, Busy
    <3> QED
      BY <1>2, <3>1 DEF Fit, Base
  <2> QED
    BY <2>1, <2>2
<1> QED
  BY <1>3, <1>4 DEF Base

(* A row that is about to be written back is a row, of a run there is. *)
LEMMA AboutToSave ==
  ASSUME Base, NEW w \in Worker, At(w, "save")
  PROVE  job[w] \in Jobs /\ job[w].run \in Rows /\ job[w].row \in RunRow
<1>1. w \in Busy /\ job[w].at = "save"
  BY AtBusy
<1>2. job[w] \in Jobs /\ Fit(job[w])
  BY <1>1, JobTyped DEF Base
<1>3. job[w].row \in RunRow \cup {None}
  BY <1>2 DEF Jobs
<1> QED
  BY <1>1, <1>2, <1>3 DEF Fit

(* Writing a row back, and what else the step changes. *)
LEMMA SaveBase ==
  ASSUME Base, NEW w \in Worker, w \in Busy, NEW r \in Rows, NEW row \in RunRow,
         run' = [run EXCEPT ![r] = row],
         Done(w) \/ Go(w, [job[w] EXCEPT !.at = "read"]),
         UNCHANGED <<par, tick, crashes>>,
         lapsed' \subseteq lapsed, verdicts' \in [Run -> Nat], spent' \in [Player -> Nat]
  PROVE  Base'
<1>1. run' \in [Run -> RunRow \cup {None}] /\ Rows' = Rows
  BY RowWritten DEF Base
<1>2. \A z \in Worker : \/ job'[z] \in {job[z], Idle}
                        \/ z \in Busy /\ job'[z] = [job[z] EXCEPT !.at = "read"]
  BY DEF Base, TypeOK, Done, Go
<1>3. job' \in [Worker -> {Idle} \cup Jobs]
  <2>1. [job[w] EXCEPT !.at = "read"] \in Jobs /\ job \in [Worker -> {Idle} \cup Jobs]
    BY JobTyped DEF Base, TypeOK
  <2> QED
    BY <2>1 DEF Done, Go
<1>4. TypeOK'
  BY <1>1, <1>3 DEF Base, TypeOK
<1> QED
  BY <1>1, <1>2, <1>4, FitKept DEF Base

LEMMA WritesBase ==
  ASSUME Base, NEW w \in Worker,
         \/ SaveSubmitted(w) \/ SaveForfeited(w) \/ SaveVoided(w) \/ SaveClaimed(w)
         \/ SaveReleased(w)
  PROVE  Base'
<1>1. At(w, "save") /\ w \in Busy
  BY AtBusy DEF SaveSubmitted, SaveForfeited, SaveVoided, SaveClaimed, SaveReleased
<1>2. job[w] \in Jobs /\ job[w].run \in Rows /\ job[w].row \in RunRow
  BY <1>1, AboutToSave
<1>3. CASE SaveSubmitted(w)
  <2>1. [job[w].row EXCEPT !.status = "finished", !.review = "pending"] \in RunRow
    BY <1>2 DEF RunRow, Ended
  <2> QED
    BY <1>1, <1>2, <1>3, <2>1, SaveBase DEF SaveSubmitted, SaveRow, Base, TypeOK
<1>4. CASE SaveForfeited(w)
  <2>1. [job[w].row EXCEPT !.status = "forfeit", !.review = "approved", !.score = Zero] \in RunRow
    BY <1>2 DEF RunRow, Ended, Settled, Score
  <2> QED
    BY <1>1, <1>2, <1>4, <2>1, SaveBase DEF SaveForfeited, SaveRow, Base, TypeOK
<1>5. CASE SaveVoided(w)
  <2>1. [job[w].row EXCEPT !.void = TRUE, !.granted = (job[w].kind = "grant"),
                           !.score = None] \in RunRow
    BY <1>2 DEF RunRow, Score
  <2>2. spent' \in [Player -> Nat]
    <3>1. spent \in [Player -> Nat] /\ job[w].user \in Player
      BY <1>2 DEF Base, TypeOK, Jobs
    <3> QED
      BY <1>5, <3>1 DEF SaveVoided
  <2> QED
    BY <1>1, <1>2, <1>5, <2>1, <2>2, SaveBase DEF SaveVoided, SaveRow, Base, TypeOK
<1>6. CASE SaveClaimed(w)
  <2>1. [job[w].row EXCEPT !.claim = job[w].by] \in RunRow
    BY <1>2 DEF RunRow, Jobs
  <2> QED
    BY <1>1, <1>2, <1>6, <2>1, SaveBase DEF SaveClaimed, SaveRow, Base, TypeOK
<1>7. CASE SaveReleased(w)
  <2>1. [job[w].row EXCEPT !.claim = None] \in RunRow
    BY <1>2 DEF RunRow
  <2> QED
    BY <1>1, <1>2, <1>7, <2>1, SaveBase DEF SaveReleased, SaveRow, Base, TypeOK
<1> QED
  BY <1>3, <1>4, <1>5, <1>6, <1>7

(* What a race's result writes: over the racer's earlier row, or a new one. *)
Recorded(j) ==
  LET score == IF j.over \/ j.result = "finished" THEN None ELSE Zero
  IN  IF j.row # None
      THEN [j.row EXCEPT !.status = j.result, !.review = "approved",
                         !.score = score, !.void = @ \/ j.over]
      ELSE [user |-> j.user, permalink |-> j.permalink, race |-> j.race,
            status |-> j.result, review |-> "approved", void |-> j.over,
            granted |-> FALSE, score |-> score, claim |-> None, warned |-> FALSE]

LEMMA Capturing ==
  ASSUME Base, NEW w \in Worker, SaveCaptured(w)
  PROVE  /\ w \in Busy /\ job[w] \in Jobs /\ job[w].at = "capture" /\ Fit(job[w])
         /\ Recorded(job[w]) \in RunRow
         /\ IF job[w].row # None
            THEN job[w].run \in Rows /\ run' = [run EXCEPT ![job[w].run] = Recorded(job[w])]
            ELSE run' = [run EXCEPT ![NextRun] = Recorded(job[w])]
<1>1. w \in Busy /\ job[w].at = "capture"
  BY AtBusy DEF SaveCaptured
<1>2. job[w] \in Jobs /\ Fit(job[w])
  BY <1>1, JobTyped DEF Base
<1>3. job[w].result \in Ended /\ (job[w].row # None => job[w].run \in Rows)
  BY <1>1, <1>2 DEF Fit
<1>4. Recorded(job[w]) \in RunRow
  <2> DEFINE j == job[w]
             score == IF j.over \/ j.result = "finished" THEN None ELSE Zero
  <2>1. score \in Score
    BY DEF Score
  <2>2. /\ j.row \in RunRow \cup {None} /\ j.over \in BOOLEAN /\ j.user \in Player
        /\ j.permalink \in Permalink /\ j.race \in Race \cup {None} /\ j.result \in Ended
    BY <1>2, <1>3 DEF Jobs
  <2> HIDE DEF j, score
  <2>3. CASE j.row # None
    <3>1. (j.row.void \/ j.over) \in BOOLEAN
      OBVIOUS
    <3>2. [j.row EXCEPT !.status = j.result, !.review = "approved",
                        !.score = score, !.void = @ \/ j.over] \in RunRow
      BY <2>1, <2>2, <2>3, <3>1 DEF RunRow, Settled
    <3> QED
      BY <2>3, <3>2 DEF Recorded, j, score
  <2>4. CASE j.row = None
    <3>1. [user |-> j.user, permalink |-> j.permalink, race |-> j.race,
           status |-> j.result, review |-> "approved", void |-> j.over,
           granted |-> FALSE, score |-> score, claim |-> None, warned |-> FALSE] \in RunRow
      BY <2>1, <2>2 DEF RunRow, Settled
    <3> QED
      BY <2>4, <3>1 DEF Recorded, j, score
  <2> QED
    BY <2>3, <2>4 DEF j
<1> QED
  BY <1>1, <1>2, <1>3, <1>4 DEF SaveCaptured, SaveRow, Recorded

LEMMA CaptureBase == ASSUME Base, NEW w \in Worker, SaveCaptured(w) PROVE Base'
<1>1. /\ w \in Busy /\ Recorded(job[w]) \in RunRow
      /\ IF job[w].row # None
         THEN job[w].run \in Rows /\ run' = [run EXCEPT ![job[w].run] = Recorded(job[w])]
         ELSE run' = [run EXCEPT ![NextRun] = Recorded(job[w])]
  BY Capturing
<1>2. run' \in [Run -> RunRow \cup {None}] /\ Rows \subseteq Rows'
  BY <1>1, RowWritten, RowAdded DEF Base
<1>3. /\ job' = [job EXCEPT ![w] = [job[w] EXCEPT !.at = "read"]]
      /\ UNCHANGED <<par, lapsed, tick, verdicts, spent, crashes>>
  BY DEF SaveCaptured, Go
<1>4. \A z \in Worker : \/ job'[z] \in {job[z], Idle}
                        \/ z \in Busy /\ job'[z] = [job[z] EXCEPT !.at = "read"]
  BY <1>1, <1>3 DEF Base, TypeOK
<1>5. job' \in [Worker -> {Idle} \cup Jobs]
  BY <1>1, <1>3, JobTyped DEF Base, TypeOK
<1>6. TypeOK'
  BY <1>2, <1>3, <1>5 DEF Base, TypeOK
<1> QED
  BY <1>2, <1>4, <1>6, FitKept DEF Base

LEMMA DrawBase ==
  ASSUME Base, NEW u \in Player, NEW p \in Permalink, StartRun(u, p)
  PROVE  Base'
<1> DEFINE row == [user |-> u, permalink |-> p, race |-> None, status |-> "in_progress",
                   review |-> "pending", void |-> FALSE, granted |-> FALSE, score |-> None,
                   claim |-> None, warned |-> FALSE]
<1>1. row \in RunRow
  BY DEF RunRow, Score
<1>2. /\ run' = [run EXCEPT ![NextRun] = row]
      /\ UNCHANGED <<par, lapsed, job, tick, verdicts, spent, crashes>>
  BY DEF StartRun
<1> HIDE DEF row
<1>3. run' \in [Run -> RunRow \cup {None}] /\ Rows \subseteq Rows'
  BY <1>1, <1>2, RowAdded DEF Base
<1>4. TypeOK'
  BY <1>2, <1>3 DEF Base, TypeOK
<1> QED
  BY <1>2, <1>3, <1>4, FitKept DEF Base

(* The verdict and the scores change rows in place. *)
LEMMA SettleBase == ASSUME Base, NEW w \in Worker, SettleReview(w) PROVE Base'
<1>1. w \in Busy /\ job[w].at = "settle"
  BY AtBusy DEF SettleReview
<1>2. job[w] \in Jobs /\ job[w].run \in Rows /\ job[w].result \in Settled
  BY <1>1, JobTyped DEF Base, Fit
<1> DEFINE r == job[w].run
           verdict == job[w].result
           row == [run[r] EXCEPT !.review = verdict, !.claim = None,
                                 !.score = IF verdict = "rejected" THEN None ELSE @]
<1>3. run[r] \in RunRow /\ r \in Run
  BY <1>2, RowTyped DEF Base
<1>4. row \in RunRow
  BY <1>2, <1>3 DEF RunRow, Score
<1>5. CASE run[r].review = job[w].row.review
  <2>1. run' = [run EXCEPT ![r] = row]
    BY <1>3, <1>5 DEF SettleReview, Base, TypeOK
  <2>2. verdicts' \in [Run -> Nat]
    BY <1>3, <1>5 DEF SettleReview, Base, TypeOK
  <2>3. /\ Go(w, [job[w] EXCEPT !.at = "read"]) /\ UNCHANGED <<par, tick, spent, crashes>>
        /\ lapsed' \subseteq lapsed
    BY <1>5 DEF SettleReview
  <2> HIDE DEF row
  <2> QED
    BY <1>1, <1>2, <1>4, <2>1, <2>2, <2>3, SaveBase DEF Base, TypeOK
<1>6. CASE run[r].review # job[w].row.review
  <2>1. Done(w) /\ UNCHANGED <<run, lapsed, verdicts, par, tick, spent, crashes>>
    BY <1>6 DEF SettleReview
  <2>2. run[r] \in RunRow /\ run' = [run EXCEPT ![r] = run[r]]
    BY <1>3, <2>1 DEF Base, TypeOK
  <2> QED
    BY <1>1, <1>2, <2>1, <2>2, SaveBase DEF Base, TypeOK
<1> QED
  BY <1>5, <1>6

LEMMA ReadBase == ASSUME Base, NEW w \in Worker, ReadApproved(w) PROVE Base'
<1> DEFINE seen == {<<r, run[r].score>> : r \in Approved(job[w].permalink)}
           j == [job[w] EXCEPT !.at = "rescore", !.seen = seen]
<1>1. w \in Busy /\ job[w] \in Jobs /\ Fit(job[w])
  BY AtBusy, JobTyped DEF ReadApproved, Base
<1>2. Approved(job[w].permalink) \subseteq Rows
  BY DEF Approved
<1>3. seen \subseteq Rows \X Score
  BY <1>2, RowTyped DEF RunRow, Base
<1>4. Rows \subseteq Run
  BY DEF Rows
<1>5. job' = [job EXCEPT ![w] = j] /\ UNCHANGED <<run, par, lapsed, tick, verdicts, spent, crashes>>
  BY DEF ReadApproved, Go
<1> HIDE DEF seen
<1>6. j \in Jobs /\ j.seen = seen /\ j.run = job[w].run /\ j.at = "rescore"
  BY <1>1, <1>3, <1>4 DEF Jobs
<1>7. Rows' = Rows
  BY <1>5 DEF Rows
<1>8. \A x \in j.seen : x[1] \in Rows
  BY <1>3, <1>6
<1> HIDE DEF j
<1>9. TypeOK'
  BY <1>5, <1>6, <1>7 DEF Base, TypeOK
<1>10. ASSUME NEW z \in Busy' PROVE Fit(job[z])'
  <2>1. CASE z = w
    <3>1. job'[z] = j
      BY <1>5, <2>1 DEF Base, TypeOK
    <3> QED
      BY <1>1, <1>6, <1>7, <1>8, <3>1 DEF Fit
  <2>2. CASE z # w
    <3>1. job'[z] = job[z] /\ z \in Busy
      BY <1>5, <2>2 DEF Base, TypeOK, Busy
    <3> QED
      BY <1>7, <3>1 DEF Fit, Base
  <2> QED
    BY <2>1, <2>2
<1> QED
  BY <1>9, <1>10 DEF Base

(* What a recompute writes. *)
LEMMA Scores ==
  ASSUME Base, NEW w \in Worker, WriteScores(w)
  PROVE  /\ run' \in [Run -> RunRow \cup {None}]
         /\ Rows' = Rows
         /\ \A r \in Run : \/ run'[r] = run[r]
                           \/ r \in Rows /\ run'[r] = [run[r] EXCEPT !.score = Against(SeenRuns(w))]
<1>1. w \in Busy /\ job[w] \in Jobs /\ Fit(job[w])
  BY AtBusy, JobTyped DEF WriteScores, Base
<1>2. SeenRuns(w) \subseteq Run /\ Rescored(w) \subseteq Rows
  <2>1. \A x \in job[w].seen : x[1] \in Rows
    BY <1>1 DEF Fit
  <2> QED
    BY <2>1 DEF SeenRuns, Rescored, Rows
<1>3. Against(SeenRuns(w)) \in Score
  BY <1>2 DEF Against, Score
<1>4. \A r \in Rows : [run[r] EXCEPT !.score = Against(SeenRuns(w))] \in RunRow
  BY <1>3, RowTyped DEF Base, RunRow
<1>5. run' = [r \in Run |-> IF r \in Rescored(w)
                            THEN [run[r] EXCEPT !.score = Against(SeenRuns(w))] ELSE run[r]]
  BY DEF WriteScores
<1>6. run' \in [Run -> RunRow \cup {None}]
  BY <1>2, <1>4, <1>5 DEF Base, TypeOK
<1>7. \A r \in Run : \/ run'[r] = run[r]
                     \/ r \in Rows /\ run'[r] = [run[r] EXCEPT !.score = Against(SeenRuns(w))]
  BY <1>2, <1>5
<1>8. \A r \in Run : run'[r] = None <=> run[r] = None
  <2> SUFFICES ASSUME NEW r \in Run PROVE run'[r] = None <=> run[r] = None
    OBVIOUS
  <2>1. CASE r \in Rows /\ run'[r] = [run[r] EXCEPT !.score = Against(SeenRuns(w))]
    <3>1. run'[r] \in RunRow /\ run[r] # None
      BY <1>4, <2>1 DEF Rows
    <3> QED
      BY <3>1, RowAssumption
  <2>2. CASE run'[r] = run[r]
    BY <2>2
  <2> QED
    BY <1>7, <2>1, <2>2
<1> QED
  BY <1>6, <1>7, <1>8 DEF Rows

LEMMA ScoresBase == ASSUME Base, NEW w \in Worker, WriteScores(w) PROVE Base'
<1>1. run' \in [Run -> RunRow \cup {None}] /\ Rows' = Rows
  BY Scores
<1>2. w \in Busy /\ job[w] \in Jobs /\ SeenRuns(w) \subseteq Run
  <2>1. w \in Busy /\ job[w] \in Jobs
    BY AtBusy, JobTyped DEF WriteScores, Base
  <2> QED
    BY <2>1 DEF Jobs, SeenRuns
<1>3. /\ par' = [par EXCEPT ![job[w].permalink] = SeenRuns(w)]
      /\ job' = [job EXCEPT ![w] = Idle]
      /\ UNCHANGED <<lapsed, tick, verdicts, spent, crashes>>
  BY DEF WriteScores, Done, Go
<1>4. TypeOK'
  BY <1>1, <1>2, <1>3 DEF Base, TypeOK
<1>5. \A z \in Worker : job'[z] \in {job[z], Idle}
  BY <1>3 DEF Base, TypeOK
<1> QED
  BY <1>1, <1>4, <1>5, FitKept DEF Base

(* The row a tick handles next is one it read. *)
LEMMA Ticking ==
  ASSUME TypeOK
  PROVE  /\ TickRun => First(tick.due) \in tick.due /\ First(tick.due)[1] \in Run
                       /\ First(tick.due)[2] \in RunRow
         /\ TickClaim => First(tick.stale) \in tick.stale /\ First(tick.stale)[1] \in Run
                         /\ First(tick.stale)[2] \in RunRow
<1>1. tick.due \subseteq Run \X RunRow \X BOOLEAN /\ tick.stale \subseteq Run \X RunRow
  BY DEF TypeOK
<1>2. TickRun => First(tick.due) \in tick.due
  BY <1>1, Ids, FirstIn DEF TickRun
<1>3. TickClaim => First(tick.stale) \in tick.stale
  BY <1>1, Ids, FirstIn DEF TickClaim
<1> QED
  BY <1>1, <1>2, <1>3

LEMMA TickBase == ASSUME Base, TickRun \/ TickClaim PROVE Base'
<1>1. tick.due \subseteq Run \X RunRow \X BOOLEAN /\ tick.stale \subseteq Run \X RunRow
      /\ tick = [due |-> tick.due, stale |-> tick.stale]
  BY DEF Base, TypeOK
<1>2. ASSUME NEW r \in Run, NEW row \in RunRow, run' = [run EXCEPT ![r] = row]
      PROVE  run' \in [Run -> RunRow \cup {None}] /\ Rows \subseteq Rows'
  BY <1>2, RowAssumption DEF Base, TypeOK, Rows
<1>3. CASE TickRun
  <2> DEFINE x == First(tick.due)
             row == IF x[3] THEN [x[2] EXCEPT !.status = "forfeit", !.review = "approved",
                                              !.score = Zero]
                    ELSE [x[2] EXCEPT !.warned = TRUE]
  <2>1. x \in tick.due /\ x[1] \in Run /\ x[2] \in RunRow
    BY <1>3, Ticking DEF Base
  <2>2. row \in RunRow
    BY <2>1 DEF RunRow, Ended, Settled, Score
  <2>3. /\ run' = [run EXCEPT ![x[1]] = row] /\ tick' = [tick EXCEPT !.due = @ \ {x}]
        /\ UNCHANGED <<par, lapsed, job, verdicts, spent, crashes>>
    BY <1>3 DEF TickRun
  <2> HIDE DEF x, row
  <2>4. run' \in [Run -> RunRow \cup {None}] /\ Rows \subseteq Rows'
    BY <1>2, <2>1, <2>2, <2>3
  <2>5. tick' \in [due : SUBSET (Run \X RunRow \X BOOLEAN), stale : SUBSET (Run \X RunRow)]
    BY <2>3 DEF Base, TypeOK
  <2>6. TypeOK'
    BY <2>3, <2>4, <2>5 DEF Base, TypeOK
  <2> QED
    BY <2>3, <2>4, <2>6, FitKept DEF Base
<1>4. CASE TickClaim
  <2> DEFINE x == First(tick.stale)
             row == [x[2] EXCEPT !.claim = None]
  <2>1. x \in tick.stale /\ x[1] \in Run /\ x[2] \in RunRow
    BY <1>4, Ticking DEF Base
  <2>2. row \in RunRow
    BY <2>1 DEF RunRow
  <2>3. /\ run' = [run EXCEPT ![x[1]] = row] /\ tick' = [tick EXCEPT !.stale = @ \ {x}]
        /\ lapsed' = lapsed \ {x[1]}
        /\ UNCHANGED <<par, job, verdicts, spent, crashes>>
    BY <1>4 DEF TickClaim
  <2> HIDE DEF x, row
  <2>4. run' \in [Run -> RunRow \cup {None}] /\ Rows \subseteq Rows'
    BY <1>2, <2>1, <2>2, <2>3
  <2>5. tick' \in [due : SUBSET (Run \X RunRow \X BOOLEAN), stale : SUBSET (Run \X RunRow)]
    BY <2>3 DEF Base, TypeOK
  <2>6. TypeOK'
    BY <2>3, <2>4, <2>5 DEF Base, TypeOK
  <2> QED
    BY <2>3, <2>4, <2>6, FitKept DEF Base
<1> QED
  BY <1>3, <1>4

LEMMA TickStartBase ==
  ASSUME Base, NEW due \in SUBSET InProgress, NEW closing \in SUBSET InProgress,
         TickStart(due, closing)
  PROVE  Base'
<1> DEFINE late(r) == r \in due
           read == {<<r, run[r], late(r)>> : r \in due \cup {q \in closing : ~run[q].warned}}
<1>1. /\ tick' = [due |-> read, stale |-> Stale]
      /\ UNCHANGED <<run, par, lapsed, job, verdicts, spent, crashes>>
  BY DEF TickStart
<1>2. \A r \in due \cup closing : r \in Run /\ run[r] \in RunRow
  BY RowTyped DEF Base, InProgress
<1>3. read \subseteq Run \X RunRow \X BOOLEAN
  <2>1. \A r \in Run : late(r) \in BOOLEAN
    OBVIOUS
  <2> HIDE DEF late
  <2> QED
    BY <1>2, <2>1
<1>4. Stale \subseteq Run \X RunRow
  BY RowTyped DEF Base, TypeOK, Stale
<1> HIDE DEF read
<1>5. Rows' = Rows
  BY <1>1 DEF Rows
<1>6. TypeOK'
  BY <1>1, <1>3, <1>4, <1>5 DEF Base, TypeOK
<1> QED
  BY <1>1, <1>5, <1>6, FitKept DEF Base

LEMMA ClockBase == ASSUME Base, (\E r \in Run : ClaimLapses(r)) \/ Restart PROVE Base'
<1>1. Rows' = Rows
  BY DEF ClaimLapses, Restart, Rows
<1>2. CASE \E r \in Run : ClaimLapses(r)
  <2>1. TypeOK'
    BY <1>1, <1>2 DEF ClaimLapses, Base, TypeOK
  <2> QED
    BY <1>1, <1>2, <2>1, FitKept DEF ClaimLapses, Base
<1>3. CASE Restart
  <2>1. TypeOK'
    <3>1. crashes' \in 0..MaxCrashes
      BY <1>3, CountAssumption DEF Restart, Base, TypeOK
    <3> QED
      BY <1>1, <1>3, <3>1 DEF Restart, Base, TypeOK
  <2> QED
    BY <1>1, <1>3, <2>1, FitKept DEF Restart, Base
<1> QED
  BY <1>2, <1>3

(* A request that begins is about a run there is. *)
LEMMA RequestFit ==
  ASSUME TypeOK, NEW r \in Rows, NEW kind, NEW at \in {"save", "settle"}, NEW v,
         NEW verdict \in Settled
  PROVE  /\ at = "save" => Fit(Request(kind, at, r))
         /\ at = "save" => Fit([Request(kind, at, r) EXCEPT !.by = v])
         /\ Fit([Request(kind, at, r) EXCEPT !.result = verdict])
<1>1. r # None /\ run[r] # None
  BY NullAssumption DEF Rows
<1> DEFINE q == Request(kind, at, r)
<1>2. /\ q = [kind |-> kind, at |-> at, run |-> r, row |-> run[r], user |-> run[r].user,
              permalink |-> run[r].permalink, race |-> run[r].race, result |-> None,
              by |-> None, over |-> FALSE, seen |-> {}]
  BY DEF Request
<1> HIDE DEF q
<1>3. Fit([q EXCEPT !.result = verdict])
  BY <1>1, <1>2 DEF Fit
<1>4. at = "save" => Fit(q)
  BY <1>1, <1>2 DEF Fit
<1>5. at = "save" => Fit([q EXCEPT !.by = v])
  BY <1>1, <1>2 DEF Fit
<1> QED
  BY <1>3, <1>4, <1>5 DEF q

LEMMA NewBase ==
  ASSUME Base, NEW w \in Worker, NEW r \in Run
  PROVE  /\ SubmitRun(w, r) \/ ForfeitRun(w, r) \/ ReattemptRun(w, r) \/ GrantReattempt(w, r)
              \/ ReleaseClaim(w, r) => Base'
         /\ \A v \in Reviewer : ClaimRun(w, v, r) => Base'
         /\ \A v \in Reviewer, verdict \in Settled : ReviewRun(w, v, r, verdict) => Base'
<1>1. TypeOK /\ "approved" \in Settled
  BY DEF Base, Settled
<1>2. r \in InProgress \/ Voidable(r) => r \in Rows
  BY DEF InProgress, Voidable
<1>3. SubmitRun(w, r) => Base'
  BY <1>1, <1>2, BeginsAs, RequestFit, BeginsBase
<1>4. ForfeitRun(w, r) => Base'
  BY <1>1, <1>2, BeginsAs, RequestFit, BeginsBase
<1>5. ReattemptRun(w, r) => Base'
  BY <1>1, <1>2, BeginsAs, RequestFit, BeginsBase
<1>6. GrantReattempt(w, r) => Base'
  BY <1>1, <1>2, BeginsAs, RequestFit, BeginsBase
<1>7. ReleaseClaim(w, r) => Base'
  BY <1>1, <1>2, BeginsAs, RequestFit, BeginsBase
<1>8. ASSUME NEW v \in Reviewer, ClaimRun(w, v, r) PROVE Base'
  <2>1. r \in Rows /\ Begins(w, [Request("claim", "save", r) EXCEPT !.by = v])
    BY <1>1, <1>8, BeginsAs
  <2>2. Fit([Request("claim", "save", r) EXCEPT !.by = v])
    BY <1>1, <2>1, RequestFit
  <2> QED
    BY <2>1, <2>2, BeginsBase
<1>9. ASSUME NEW v \in Reviewer, NEW verdict \in Settled, ReviewRun(w, v, r, verdict)
      PROVE  Base'
  <2>1. r \in Rows /\ Begins(w, [Request("review", "settle", r) EXCEPT !.result = verdict])
    BY <1>1, <1>9, BeginsAs
  <2>2. Fit([Request("review", "settle", r) EXCEPT !.result = verdict])
    BY <1>1, <2>1, RequestFit
  <2> QED
    BY <2>1, <2>2, BeginsBase
<1> QED
  BY <1>3, <1>4, <1>5, <1>6, <1>7, <1>8, <1>9

LEMMA NewCaptureBase ==
  ASSUME Base, NEW w \in Worker, NEW u \in Player, NEW x \in Race,
         NEW p \in Permalink, NEW result \in Ended, Capture(w, u, x, p, result)
  PROVE  Base'
<1>1. Begins(w, CaptureOf(u, x, p, result))
  BY BeginsAs DEF Base
<1>2. Fit(CaptureOf(u, x, p, result))
  <2> DEFINE j == CaptureOf(u, x, p, result)
  <2>1. p \in Permalink
    BY IdAssumption
  <2>2. /\ j.at = "capture" /\ j.result = result /\ j.seen = {}
        /\ \/ j.run = None /\ j.row = None
           \/ j.run \in Rows /\ j.row = run[j.run]
    BY <2>1, CaptureRead DEF Base
  <2>3. j.run \in Rows => j.run # None /\ run[j.run] # None
    BY NullAssumption DEF Rows
  <2> HIDE DEF j
  <2>4. Fit(j)
    BY <2>2, <2>3 DEF Fit
  <2> QED
    BY <2>4 DEF j
<1> QED
  BY <1>1, <1>2, BeginsBase

LEMMA BaseInit == Init => Base
<1> SUFFICES ASSUME Init PROVE Base
  OBVIOUS
<1>1. TypeOK
  BY CountAssumption DEF Init, TypeOK, Rows
<1>2. Busy = {}
  BY DEF Init, Busy
<1> QED
  BY <1>1, <1>2 DEF Base

LEMMA BaseStep == Base /\ [Next]_vars => Base'
<1> SUFFICES ASSUME Base, [Next]_vars PROVE Base'
  OBVIOUS
<1>1. ASSUME NEW w \in Worker, Continue(w) PROVE Base'
  BY <1>1, WritesBase, CaptureBase, SettleBase, ReadBase, ScoresBase DEF Continue
<1>2. CASE \E u \in Player, p \in Permalink : StartRun(u, p)
  BY <1>2, DrawBase
<1>3. CASE \E w \in Worker, r \in Run : SubmitRun(w, r) \/ ForfeitRun(w, r) \/ ReattemptRun(w, r)
  BY <1>3, NewBase
<1>4. CASE \E w \in Worker, v \in Reviewer, r \in Run :
             \/ GrantReattempt(w, r) \/ ClaimRun(w, v, r) \/ ReleaseClaim(w, r)
             \/ \E verdict \in Settled : ReviewRun(w, v, r, verdict)
  BY <1>4, NewBase
<1>5. CASE \E w \in Worker, u \in Player, x \in Race, p \in Permalink, result \in Ended :
            Capture(w, u, x, p, result)
  BY <1>5, NewCaptureBase
<1>6. CASE \E due, closing \in SUBSET InProgress : TickStart(due, closing)
  BY <1>6, TickStartBase
<1>7. CASE TickRun \/ TickClaim
  BY <1>7, TickBase
<1>8. CASE (\E r \in Run : ClaimLapses(r)) \/ Restart
  BY <1>8, ClockBase
<1>9. CASE UNCHANGED vars
  <2>1. TypeOK' /\ Rows' = Rows
    BY <1>9 DEF vars, Base, TypeOK, Rows
  <2> QED
    BY <1>9, <2>1, FitKept DEF vars, Base
<1> QED
  BY <1>1, <1>2, <1>3, <1>4, <1>5, <1>6, <1>7, <1>8, <1>9 DEF Next

(* Every reachable state is well typed, whatever requests overlap.         *)
THEOREM TypeCorrect == Spec => []TypeOK
<1>1. Base => TypeOK
  BY DEF Base
<1> QED
  BY <1>1, BaseInit, BaseStep, PTL DEF Spec

-----------------------------------------------------------------------------
(* What is held in memory, and who stands in whose way.                    *)

(* Two rows of a run, as far as its life goes. *)
Alike(x, y) ==
  x.user = y.user /\ x.race = y.race /\ x.status = y.status /\ x.void = y.void

(* Only a run that has ended is claimed, and a race's run has. *)
Sound(x) == (x.claim # None => x.status \in Ended) /\ (x.race # None => x.status \in Ended)

(* A life goes on: it ends, and once ended it may be void.  Only a race    *)
(* may be recorded again with another outcome.                             *)
Forward(x, y) ==
  /\ y.user = x.user /\ y.race = x.race
  /\ x.status \in Ended => y.status \in Ended /\ (x.race # None \/ y.status = x.status)
  /\ x.void => y.void
  /\ y.void => x.void \/ x.status \in Ended

Holding(j) == j.at \in {"save", "capture"} /\ j.run # None
Voids(j) == j.kind \in {"capture", "reattempt", "grant"}

(* A request about to write a row back holds it as it is.                  *)
Held(j) ==
  /\ j.at = "capture" => j.kind = "capture"
  /\ Holding(j) =>
       /\ j.kind # "review"
       /\ Alike(j.row, run[j.run]) /\ Sound(j.row) /\ j.row.user = j.user
       /\ j.row.review = run[j.run].review
       /\ j.kind \in {"submit", "forfeit"} => j.row.status = "in_progress"
       /\ j.kind \in {"reattempt", "grant"} => j.row.status \in Ended
       /\ j.kind = "claim" => j.row.status \in Ended
       /\ j.kind = "capture" => j.row.race # None

(* A capture that will enter a new row still counts its racer's runs right. *)
Counted(j) ==
  j.at = "capture" /\ j.run = None => (j.over <=> Cardinality(Valid(j.user)) >= RunsPerPool)

(* Two requests in flight do not write each other's rows, nor does either  *)
(* change how many runs the other's racer has.                             *)
Apart(j, k) ==
  /\ j.run = k.run /\ j.run # None => j.kind = "review" /\ k.kind = "review"
  /\ j.user = k.user => ~(j.kind = "capture" /\ Voids(k))

RunInv ==
  /\ \A r \in Run : r \in Rows <=> r <= Cardinality(Rows)
  /\ \A r \in Rows : Sound(run[r])

JobInv == \A w \in Busy : Held(job[w]) /\ Counted(job[w])

ApartInv ==
  /\ \A w, v \in Busy : w # v => Apart(job[w], job[v])
  /\ \A w \in Busy : job[w].run \notin Ticked

(* The rows the worker's tick has read, one of each run, are as they were. *)
TickHeld(x) ==
  /\ x[1] \in Rows /\ Alike(x[2], run[x[1]]) /\ Sound(x[2])
  /\ x[2].review = run[x[1]].review

TickInv ==
  /\ \A x \in tick.due : TickHeld(x) /\ x[2].status = "in_progress"
  /\ \A x \in tick.stale : TickHeld(x) /\ x[2].status \in Ended
  /\ \A x, y \in tick.due : x[1] = y[1] => x = y

Inv == Base /\ RunInv /\ JobInv /\ ApartInv /\ TickInv

(* What a step may do to the rows there are. *)
Still == Rows' = Rows /\ \A q \in Rows : Alike(run'[q], run[q])

MovesOne(r) ==
  /\ r \in Rows /\ Rows' = Rows
  /\ Forward(run[r], run'[r])
  /\ \A q \in Rows \ {r} : Alike(run'[q], run[q])

ByTick(r) == r \in Ticked \ Ticked' /\ run'[r].void = run[r].void

ByRequest(w, r) ==
  /\ w \in Busy /\ Holding(job[w]) /\ job[w].run = r /\ job'[w] # job[w]
  /\ Voids(job[w]) \/ run'[r].void = run[r].void

Draws(u) ==
  /\ Cardinality(Valid(u)) < RunsPerPool
  /\ \A r \in Valid(u) : run[r].status # "in_progress"
  /\ \A w \in Busy : job[w].kind = "capture" => job[w].user # u
  /\ job' = job
  /\ \E row \in RunRow :
       /\ run' = [run EXCEPT ![NextRun] = row]
       /\ row.user = u /\ row.status = "in_progress" /\ ~row.void

Records(w) ==
  /\ w \in Busy /\ job[w].at = "capture" /\ job[w].run = None /\ job'[w] # job[w]
  /\ \E row \in RunRow :
       /\ run' = [run EXCEPT ![NextRun] = row]
       /\ row.user = job[w].user /\ row.status \in Ended /\ row.void = job[w].over

Advances(w) == \E r \in Rows : MovesOne(r) /\ ByRequest(w, r)
Ticks == \E r \in Rows : MovesOne(r) /\ ByTick(r)

RowsStep ==
  \/ Still \/ Ticks
  \/ \E w \in Worker : Advances(w)
  \/ \E u \in Player : Draws(u)
  \/ \E w \in Worker : Records(w)

(* A run's review is changed by its own request or by the tick, and back   *)
(* to pending only while the run is in progress.                           *)
ReviewStep ==
  \A r \in Rows :
    \/ run'[r].review = run[r].review
    \/ r \in Ticked \ Ticked' /\ run[r].status = "in_progress"
    \/ \E w \in Busy : /\ job[w].run = r /\ job'[w] # job[w]
                       /\ run[r].status = "in_progress" \/ run'[r].review \in Settled

(* A verdict is given on the review the request read. *)
Settles(w) ==
  LET r == job[w].run
  IN  /\ w \in Busy /\ job[w].at = "settle"
      /\ run[r].review = job[w].row.review /\ run'[r].review \in Settled
      /\ verdicts' = [verdicts EXCEPT ![r] =
                        @ + (IF job[w].row.review = "pending" THEN 1 ELSE 0)]

SoundNext == \A r \in Rows' : Sound(run'[r])

(* A row that is replaced by one further on in its life. *)
LEMMA Replaced ==
  ASSUME TypeOK, \A q \in Rows : Sound(run[q]), NEW r \in Rows, NEW row \in RunRow,
         run' = [run EXCEPT ![r] = row], Forward(run[r], row), Sound(row)
  PROVE  MovesOne(r) /\ SoundNext /\ run'[r] = row
<1>1. Rows' = Rows /\ \A q \in Run : run'[q] = IF q = r THEN row ELSE run[q]
  BY RowWritten
<1>2. Rows \subseteq Run
  BY DEF Rows
<1>3. \A q \in Rows \ {r} : run'[q] = run[q]
  BY <1>1, <1>2
<1>4. run'[r] = row
  BY <1>1, <1>2
<1>5. MovesOne(r)
  BY <1>1, <1>3, <1>4 DEF MovesOne, Alike
<1>6. SoundNext
  BY <1>1, <1>3, <1>4 DEF SoundNext
<1> QED
  BY <1>4, <1>5, <1>6

(* What changes no life. *)
LEMMA InPlace ==
  ASSUME TypeOK, \A q \in Rows : Sound(run[q]), NEW r \in Rows, NEW row \in RunRow,
         run' = [run EXCEPT ![r] = row], Alike(row, run[r]), Sound(row)
  PROVE  Still /\ SoundNext
<1>1. Forward(run[r], row)
  BY DEF Alike, Forward
<1>2. MovesOne(r) /\ SoundNext /\ run'[r] = row
  BY <1>1, Replaced
<1> QED
  BY <1>2 DEF MovesOne, Still

LEMMA Unmoved ==
  ASSUME RunInv, run' = run
  PROVE  Still /\ SoundNext
<1>1. Rows' = Rows
  BY DEF Rows
<1> QED
  BY <1>1 DEF Still, SoundNext, Alike, RunInv

LEMMA SaveRows ==
  ASSUME Inv, NEW w \in Worker,
         \/ SaveSubmitted(w) \/ SaveForfeited(w) \/ SaveVoided(w) \/ SaveClaimed(w)
         \/ SaveReleased(w)
  PROVE  Advances(w) /\ SoundNext
<1> DEFINE j == job[w]
           old == run[j.run]
<1>1. At(w, "save") /\ w \in Busy /\ j.at = "save"
  BY AtBusy DEF SaveSubmitted, SaveForfeited, SaveVoided, SaveClaimed, SaveReleased
<1>2. j \in Jobs /\ j.run \in Rows /\ j.row \in RunRow
  BY <1>1, AboutToSave DEF Inv
<1>3. Holding(j)
  BY <1>1, <1>2, NullAssumption DEF Holding, Rows
<1>4. Held(j)
  BY <1>1 DEF Inv, JobInv
<1>5. old \in RunRow /\ TypeOK /\ \A q \in Rows : Sound(run[q])
  BY <1>2, RowTyped DEF Inv, Base, RunInv
<1>6. Alike(j.row, old) /\ Sound(j.row)
  BY <1>3, <1>4 DEF Held
<1>7. job'[w] # j
  <2>1. job'[w] = Idle \/ job'[w] = [j EXCEPT !.at = "read"]
    BY <1>5 DEF SaveSubmitted, SaveForfeited, SaveVoided, SaveClaimed, SaveReleased, Done, Go,
                TypeOK
  <2>2. Idle # j
    BY <1>1 DEF Busy
  <2>3. [j EXCEPT !.at = "read"].at = "read"
    BY <1>2 DEF Jobs
  <2> QED
    BY <1>1, <2>1, <2>2, <2>3
<1>8. ASSUME NEW row \in RunRow, run' = [run EXCEPT ![j.run] = row], Forward(old, row), Sound(row),
             Voids(j) \/ row.void = old.void
      PROVE  Advances(w) /\ SoundNext
  <2>1. MovesOne(j.run) /\ SoundNext /\ run'[j.run] = row
    BY <1>2, <1>5, <1>8, Replaced
  <2>2. ByRequest(w, j.run)
    BY <1>1, <1>3, <1>7, <1>8, <2>1 DEF ByRequest
  <2> QED
    BY <1>2, <2>1, <2>2 DEF Advances
<1> HIDE DEF old
<1>9. CASE SaveSubmitted(w)
  <2> DEFINE row == [j.row EXCEPT !.status = "finished", !.review = "pending"]
  <2>1. row \in RunRow /\ run' = [run EXCEPT ![j.run] = row]
    BY <1>2, <1>9 DEF SaveSubmitted, SaveRow, RunRow, Ended
  <2>2. j.row.status = "in_progress"
    BY <1>3, <1>4, <1>9 DEF Held, SaveSubmitted
  <2>3. /\ row.user = j.row.user /\ row.void = j.row.void /\ row.status = "finished"
        /\ row.claim = j.row.claim /\ row.race = j.row.race
    BY <1>2 DEF RunRow
  <2> HIDE DEF row
  <2>4. Forward(old, row) /\ Sound(row) /\ row.void = old.void
    BY <1>6, <2>2, <2>3 DEF Forward, Sound, Alike, Ended
  <2> QED
    BY <1>8, <2>1, <2>4
<1>10. CASE SaveForfeited(w)
  <2> DEFINE row == [j.row EXCEPT !.status = "forfeit", !.review = "approved", !.score = Zero]
  <2>1. row \in RunRow /\ run' = [run EXCEPT ![j.run] = row]
    BY <1>2, <1>10 DEF SaveForfeited, SaveRow, RunRow, Ended, Settled, Score
  <2>2. /\ row.user = j.row.user /\ row.void = j.row.void /\ row.status = "forfeit"
        /\ row.claim = j.row.claim /\ row.race = j.row.race
    BY <1>2 DEF RunRow
  <2>3. j.row.status = "in_progress"
    BY <1>3, <1>4, <1>10 DEF Held, SaveForfeited
  <2> HIDE DEF row
  <2>4. Forward(old, row) /\ Sound(row) /\ row.void = old.void
    BY <1>6, <2>2, <2>3 DEF Forward, Sound, Alike, Ended
  <2> QED
    BY <1>8, <2>1, <2>4
<1>11. CASE SaveVoided(w)
  <2> DEFINE row == [j.row EXCEPT !.void = TRUE, !.granted = (j.kind = "grant"), !.score = None]
  <2>1. row \in RunRow /\ run' = [run EXCEPT ![j.run] = row]
    BY <1>2, <1>11 DEF SaveVoided, SaveRow, RunRow, Score
  <2>2. j.row.status \in Ended /\ Voids(j)
    BY <1>3, <1>4, <1>11 DEF Held, SaveVoided, Voids
  <2>3. /\ row.user = j.row.user /\ row.void = TRUE /\ row.status = j.row.status
        /\ row.claim = j.row.claim /\ row.race = j.row.race
    BY <1>2 DEF RunRow
  <2> HIDE DEF row
  <2>4. Forward(old, row) /\ Sound(row)
    BY <1>6, <2>2, <2>3 DEF Forward, Sound, Alike
  <2> QED
    BY <1>8, <2>1, <2>2, <2>4
<1>12. CASE SaveClaimed(w)
  <2> DEFINE row == [j.row EXCEPT !.claim = j.by]
  <2>1. row \in RunRow /\ run' = [run EXCEPT ![j.run] = row]
    BY <1>2, <1>12 DEF SaveClaimed, SaveRow, RunRow, Jobs
  <2>2. j.row.status \in Ended
    BY <1>3, <1>4, <1>12 DEF Held, SaveClaimed
  <2>3. /\ row.user = j.row.user /\ row.void = j.row.void /\ row.status = j.row.status
        /\ row.race = j.row.race
    BY <1>2 DEF RunRow
  <2> HIDE DEF row
  <2>4. Forward(old, row) /\ Sound(row) /\ row.void = old.void
    BY <1>6, <2>2, <2>3 DEF Forward, Sound, Alike
  <2> QED
    BY <1>8, <2>1, <2>4
<1>13. CASE SaveReleased(w)
  <2> DEFINE row == [j.row EXCEPT !.claim = None]
  <2>1. row \in RunRow /\ run' = [run EXCEPT ![j.run] = row]
    BY <1>2, <1>13 DEF SaveReleased, SaveRow, RunRow
  <2>2. /\ row.user = j.row.user /\ row.void = j.row.void /\ row.status = j.row.status
        /\ row.claim = None /\ row.race = j.row.race
    BY <1>2 DEF RunRow
  <2> HIDE DEF row
  <2>3. Forward(old, row) /\ Sound(row) /\ row.void = old.void
    BY <1>6, <2>2 DEF Forward, Sound, Alike
  <2> QED
    BY <1>8, <2>1, <2>3
<1> QED
  BY <1>9, <1>10, <1>11, <1>12, <1>13

LEMMA CaptureRows ==
  ASSUME Inv, NEW w \in Worker, SaveCaptured(w)
  PROVE  (Advances(w) \/ Records(w)) /\ SoundNext
<1> DEFINE j == job[w]
           row == Recorded(j)
<1>1. /\ w \in Busy /\ j \in Jobs /\ j.at = "capture" /\ Fit(j) /\ row \in RunRow
      /\ IF j.row # None
         THEN j.run \in Rows /\ run' = [run EXCEPT ![j.run] = row]
         ELSE run' = [run EXCEPT ![NextRun] = row]
  BY Capturing DEF Inv
<1>2. j.result \in Ended /\ (j.run = None <=> j.row = None) /\ Held(j)
  BY <1>1 DEF Fit, Inv, JobInv
<1>3. j.kind = "capture" /\ Voids(j)
  BY <1>1, <1>2 DEF Held, Voids
<1>4. job'[w] # j
  <2>1. job'[w] = [j EXCEPT !.at = "read"] /\ [j EXCEPT !.at = "read"].at = "read"
    BY <1>1 DEF SaveCaptured, Go, Inv, Base, TypeOK, Jobs
  <2> QED
    BY <1>1, <2>1
<1>5. TypeOK /\ \A q \in Rows : Sound(run[q])
  BY DEF Inv, Base, RunInv
<1>6. CASE j.row # None
  <2>1. Holding(j)
    BY <1>1, <1>2, <1>6 DEF Holding
  <2>2. Alike(j.row, run[j.run]) /\ Sound(j.row) /\ j.row.race # None /\ j.row \in RunRow
    BY <1>1, <1>2, <1>3, <1>6, <2>1 DEF Held, Jobs
  <2>3. /\ row.user = j.row.user /\ row.void = (j.row.void \/ j.over)
        /\ row.status = j.result /\ row.claim = j.row.claim /\ row.race = j.row.race
    BY <1>6, <2>2 DEF Recorded, RunRow
  <2>4. Forward(run[j.run], row) /\ Sound(row)
    BY <1>2, <2>2, <2>3 DEF Forward, Sound, Alike
  <2> HIDE DEF row
  <2>5. MovesOne(j.run) /\ SoundNext
    BY <1>1, <1>5, <1>6, <2>4, Replaced
  <2>6. ByRequest(w, j.run)
    BY <1>1, <1>3, <1>4, <2>1 DEF ByRequest
  <2> QED
    BY <1>1, <1>6, <2>5, <2>6 DEF Advances
<1>7. CASE j.row = None
  <2>1. /\ row.user = j.user /\ row.void = j.over /\ row.status = j.result
        /\ row.claim = None
    BY <1>7 DEF Recorded
  <2>2. Sound(row)
    BY <1>2, <2>1 DEF Sound
  <2> HIDE DEF row
  <2>3. \A q \in Run : run'[q] = IF q = NextRun THEN row ELSE run[q]
    BY <1>1, <1>5, <1>7, RowAdded
  <2>4. SoundNext
    BY <1>5, <2>2, <2>3 DEF SoundNext, Rows
  <2>5. Records(w)
    BY <1>1, <1>2, <1>4, <1>7, <2>1 DEF Records
  <2> QED
    BY <2>4, <2>5
<1> QED
  BY <1>6, <1>7

LEMMA DrawRows ==
  ASSUME Inv, "cap" \notin Conflicts, NEW u \in Player, NEW p \in Permalink, StartRun(u, p)
  PROVE  Draws(u) /\ SoundNext
<1> DEFINE row == [user |-> u, permalink |-> p, race |-> None, status |-> "in_progress",
                   review |-> "pending", void |-> FALSE, granted |-> FALSE, score |-> None,
                   claim |-> None, warned |-> FALSE]
<1>1. row \in RunRow
  BY DEF RunRow, Score
<1>2. run' = [run EXCEPT ![NextRun] = row] /\ job' = job
  BY DEF StartRun
<1>3. Sound(row) /\ row.user = u /\ row.status = "in_progress" /\ ~row.void
  BY DEF Sound
<1> HIDE DEF row
<1>4. TypeOK /\ \A q \in Rows : Sound(run[q])
  BY DEF Inv, Base, RunInv
<1>5. \A q \in Run : run'[q] = IF q = NextRun THEN row ELSE run[q]
  BY <1>1, <1>2, <1>4, RowAdded
<1>6. SoundNext
  BY <1>3, <1>4, <1>5 DEF SoundNext, Rows
<1>7. Draws(u)
  BY <1>1, <1>2, <1>3 DEF Draws, StartRun
<1> QED
  BY <1>6, <1>7

LEMMA SettleRows ==
  ASSUME Inv, NEW w \in Worker, SettleReview(w)
  PROVE  Still /\ SoundNext
<1> DEFINE r == job[w].run
           verdict == job[w].result
           row == [run[r] EXCEPT !.review = verdict, !.claim = None,
                                 !.score = IF verdict = "rejected" THEN None ELSE @]
<1>1. w \in Busy /\ job[w].at = "settle"
  BY AtBusy DEF SettleReview
<1>2. job[w] \in Jobs /\ r \in Rows /\ verdict \in Settled
  BY <1>1, JobTyped DEF Inv, Base, Fit
<1>3. run[r] \in RunRow /\ r \in Run /\ TypeOK
  BY <1>2, RowTyped DEF Inv, Base
<1>4. row \in RunRow
  BY <1>2, <1>3 DEF RunRow, Score
<1>5. /\ row.user = run[r].user /\ row.status = run[r].status /\ row.void = run[r].void
      /\ row.claim = None /\ row.race = run[r].race
  BY <1>3 DEF RunRow
<1>6. Sound(run[r]) /\ \A q \in Rows : Sound(run[q])
  BY <1>2 DEF Inv, RunInv
<1>7. CASE run[r].review = job[w].row.review
  <2>1. run' = [run EXCEPT ![r] = row]
    BY <1>3, <1>7 DEF SettleReview, TypeOK
  <2> HIDE DEF row
  <2>2. Alike(row, run[r]) /\ Sound(row)
    BY <1>5, <1>6 DEF Alike, Sound
  <2> QED
    BY <1>2, <1>3, <1>4, <1>6, <2>1, <2>2, InPlace
<1>8. CASE run[r].review # job[w].row.review
  BY <1>8, Unmoved DEF SettleReview, Inv
<1> QED
  BY <1>7, <1>8

LEMMA ScoreRows ==
  ASSUME Inv, NEW w \in Worker, WriteScores(w)
  PROVE  Still /\ SoundNext
<1>1. /\ Rows' = Rows
      /\ \A r \in Run : \/ run'[r] = run[r]
                        \/ r \in Rows /\ run'[r] = [run[r] EXCEPT !.score = Against(SeenRuns(w))]
  BY Scores DEF Inv
<1>2. ASSUME NEW r \in Rows PROVE Alike(run'[r], run[r]) /\ Sound(run'[r])
  <2>1. r \in Run /\ run[r] \in RunRow /\ Sound(run[r])
    BY RowTyped DEF Inv, Base, RunInv
  <2>2. /\ run'[r].user = run[r].user /\ run'[r].status = run[r].status
        /\ run'[r].void = run[r].void /\ run'[r].claim = run[r].claim
        /\ run'[r].race = run[r].race
    BY <1>1, <2>1 DEF RunRow
  <2> QED
    BY <2>1, <2>2 DEF Alike, Sound
<1> QED
  BY <1>1, <1>2 DEF Still, SoundNext

LEMMA TickRows ==
  ASSUME Inv, TickRun \/ TickClaim
  PROVE  (Still \/ Ticks) /\ SoundNext
<1>1. TypeOK /\ \A q \in Rows : Sound(run[q])
  BY DEF Inv, Base, RunInv
<1>2. CASE TickRun
  <2> DEFINE x == First(tick.due)
             row == IF x[3] THEN [x[2] EXCEPT !.status = "forfeit", !.review = "approved",
                                              !.score = Zero]
                    ELSE [x[2] EXCEPT !.warned = TRUE]
  <2>1. x \in tick.due /\ x[1] \in Run /\ x[2] \in RunRow
    BY <1>1, <1>2, Ticking
  <2>2. row \in RunRow
    BY <2>1 DEF RunRow, Ended, Settled, Score
  <2>3. /\ run' = [run EXCEPT ![x[1]] = row] /\ tick' = [tick EXCEPT !.due = @ \ {x}]
    BY <1>2 DEF TickRun
  <2>4. /\ row.user = x[2].user /\ row.void = x[2].void /\ row.claim = x[2].claim
        /\ row.race = x[2].race /\ (row.status = "forfeit" \/ row.status = x[2].status)
    BY <2>1 DEF RunRow
  <2> HIDE DEF row, x
  <2>5. TickHeld(x) /\ x[2].status = "in_progress"
    BY <2>1 DEF Inv, TickInv
  <2>6. Forward(run[x[1]], row) /\ Sound(row)
    BY <2>4, <2>5 DEF Forward, Sound, TickHeld, Alike, Ended
  <2>7. MovesOne(x[1]) /\ SoundNext /\ run'[x[1]] = row
    BY <1>1, <2>2, <2>3, <2>5, <2>6, Replaced DEF TickHeld
  <2>8. ByTick(x[1])
    <3>1. x[1] \in Ticked
      BY <2>1 DEF Ticked
    <3>2. tick'.due = tick.due \ {x} /\ tick'.stale = tick.stale
      BY <1>1, <2>3 DEF TypeOK
    <3>3. \A y \in tick.due \ {x} : y[1] # x[1]
      BY <2>1 DEF Inv, TickInv
    <3>4. \A y \in tick.stale : y[1] # x[1]
      <4>1. \A y \in tick.stale : Alike(y[2], run[y[1]]) /\ y[2].status \in Ended
        BY DEF Inv, TickInv, TickHeld
      <4>2. run[x[1]].status = "in_progress"
        BY <2>5 DEF TickHeld, Alike
      <4> QED
        BY <4>1, <4>2 DEF Alike, Ended
    <3>5. x[1] \notin Ticked'
      BY <3>2, <3>3, <3>4 DEF Ticked
    <3>6. run'[x[1]].void = run[x[1]].void
      BY <2>4, <2>5, <2>7 DEF TickHeld, Alike
    <3> QED
      BY <3>1, <3>5, <3>6 DEF ByTick
  <2> QED
    BY <2>5, <2>7, <2>8 DEF Ticks, TickHeld
<1>3. CASE TickClaim
  <2> DEFINE x == First(tick.stale)
             row == [x[2] EXCEPT !.claim = None]
  <2>1. x \in tick.stale /\ x[1] \in Run /\ x[2] \in RunRow
    BY <1>1, <1>3, Ticking
  <2>2. row \in RunRow
    BY <2>1 DEF RunRow
  <2>3. run' = [run EXCEPT ![x[1]] = row]
    BY <1>3 DEF TickClaim
  <2>4. /\ row.user = x[2].user /\ row.void = x[2].void /\ row.claim = None
        /\ row.race = x[2].race /\ row.status = x[2].status
    BY <2>1 DEF RunRow
  <2> HIDE DEF row, x
  <2>5. TickHeld(x)
    BY <2>1 DEF Inv, TickInv
  <2>6. Alike(row, run[x[1]]) /\ Sound(row)
    BY <2>4, <2>5 DEF Sound, TickHeld, Alike
  <2> QED
    BY <1>1, <2>2, <2>3, <2>5, <2>6, InPlace DEF TickHeld
<1> QED
  BY <1>2, <1>3

(* Every step leaves the lives of the rows alone, moves one of them on, or *)
(* enters a new row.                                                       *)
LEMMA RowsMove ==
  ASSUME Inv, [Next]_vars, "cap" \notin Conflicts
  PROVE  RowsStep /\ SoundNext
<1>1. ASSUME NEW w \in Worker, Continue(w) PROVE RowsStep /\ SoundNext
  <2>1. CASE ReadApproved(w)
    BY <2>1, Unmoved DEF ReadApproved, RowsStep, Inv
  <2> QED
    BY <1>1, <2>1, SaveRows, CaptureRows, SettleRows, ScoreRows DEF Continue, RowsStep
<1>2. CASE \E u \in Player, p \in Permalink : StartRun(u, p)
  BY <1>2, DrawRows DEF RowsStep
<1>3. CASE TickRun \/ TickClaim
  BY <1>3, TickRows DEF RowsStep
<1>4. CASE run' = run
  BY <1>4, Unmoved DEF RowsStep, Inv
<1>5. \/ \E w \in Worker : Continue(w)
      \/ \E u \in Player, p \in Permalink : StartRun(u, p)
      \/ TickRun \/ TickClaim \/ run' = run
  <2>1. TypeOK
    BY DEF Inv, Base
  <2> QED
    BY <2>1, BeginsAs DEF Next, vars, TickStart, ClaimLapses, Restart, Begins
<1> QED
  BY <1>1, <1>2, <1>3, <1>4, <1>5

-----------------------------------------------------------------------------
(* What a step may do to the requests in flight.                           *)

(* A request has nothing of its own to write any more. *)
Rescoring(w) ==
  /\ w \in Busy /\ job'[w].at \in {"read", "rescore"}
  /\ job'[w].kind = job[w].kind /\ job'[w].run = job[w].run /\ job'[w].user = job[w].user

Enters(w) ==
  /\ Start(w, job'[w]) /\ Held(job'[w]) /\ Counted(job'[w])
  /\ UNCHANGED <<run, tick>>

JobStep ==
  \A z \in Busy' : (z \in Busy /\ job'[z] = job[z]) \/ Rescoring(z) \/ Enters(z)

LEMMA Entering ==
  ASSUME TypeOK, NEW w \in Worker, NEW j, Begins(w, j), Held(j), Counted(j)
  PROVE  JobStep
<1>1. /\ Start(w, j) /\ job' = [job EXCEPT ![w] = j]
      /\ UNCHANGED <<run, tick>>
  BY DEF Begins, Start, Go
<1>2. ASSUME NEW z \in Busy', z # w PROVE z \in Busy /\ job'[z] = job[z]
  BY <1>1, <1>2 DEF TypeOK, Busy
<1>3. job'[w] = j
  BY <1>1 DEF TypeOK
<1> QED
  BY <1>1, <1>2, <1>3 DEF JobStep, Enters

(* What is read off the table is as it is there. *)
LEMMA RequestHeld ==
  ASSUME TypeOK, RunInv, NEW r \in Rows, NEW v, NEW verdict
  PROVE  /\ \A kind \in {"submit", "forfeit"} : run[r].status = "in_progress" =>
              Held(Request(kind, "save", r)) /\ Counted(Request(kind, "save", r))
         /\ \A kind \in {"reattempt", "grant"} : run[r].status \in Ended =>
              Held(Request(kind, "save", r)) /\ Counted(Request(kind, "save", r))
         /\ LET j == [Request("claim", "save", r) EXCEPT !.by = v]
            IN  run[r].status \in Ended => Held(j) /\ Counted(j)
         /\ LET j == [Request("review", "settle", r) EXCEPT !.result = verdict]
            IN  Held(j) /\ Counted(j)
         /\ LET j == Request("release", "save", r)
            IN  Held(j) /\ Counted(j)
<1>1. Sound(run[r]) /\ Alike(run[r], run[r])
  BY DEF RunInv, Alike
<1> USE DEF Request, Held, Counted, Holding
<1>2. \A kind \in {"submit", "forfeit"} : run[r].status = "in_progress" =>
        Held(Request(kind, "save", r)) /\ Counted(Request(kind, "save", r))
  BY <1>1
<1>3. \A kind \in {"reattempt", "grant"} : run[r].status \in Ended =>
        Held(Request(kind, "save", r)) /\ Counted(Request(kind, "save", r))
  BY <1>1
<1>4. LET j == [Request("claim", "save", r) EXCEPT !.by = v]
      IN  run[r].status \in Ended => Held(j) /\ Counted(j)
  BY <1>1
<1>5. LET j == [Request("review", "settle", r) EXCEPT !.result = verdict]
      IN  Held(j) /\ Counted(j)
  BY <1>1
<1>6. LET j == Request("release", "save", r)
      IN  Held(j) /\ Counted(j)
  BY <1>1
<1> QED
  BY <1>2, <1>3, <1>4, <1>5, <1>6

LEMMA CaptureHeld ==
  ASSUME TypeOK, RunInv, NEW u \in Player, NEW x \in Race, NEW p \in Permalink, NEW result \in Ended
  PROVE  LET j == CaptureOf(u, x, p, result)
         IN  Held(j) /\ Counted(j)
<1> DEFINE j == CaptureOf(u, x, p, result)
<1>1. /\ j.kind = "capture" /\ j.at = "capture" /\ j.user = u
      /\ \/ j.run = None /\ j.row = None /\ (j.over <=> Cardinality(Valid(u)) >= RunsPerPool)
         \/ j.run \in Rows /\ j.row = run[j.run] /\ j.row.race # None /\ j.row.user = u
  BY CaptureRead, IdAssumption
<1>2. j.run \in Rows => j.run # None /\ Sound(run[j.run])
  BY NullAssumption DEF RunInv, Rows
<1> HIDE DEF j
<1>3. Held(j) /\ Counted(j)
  BY <1>1, <1>2 DEF Held, Counted, Holding, Alike
<1> QED
  BY <1>1, <1>3 DEF j

LEMMA RequestsEnter ==
  ASSUME Inv, ~AnyClaim, NEW w \in Worker, NEW r \in Run
  PROVE  /\ SubmitRun(w, r) \/ ForfeitRun(w, r) \/ ReattemptRun(w, r) \/ GrantReattempt(w, r)
              \/ ReleaseClaim(w, r) => JobStep
         /\ \A v \in Reviewer : ClaimRun(w, v, r) => JobStep
         /\ \A v \in Reviewer, verdict \in Settled : ReviewRun(w, v, r, verdict) => JobStep
<1>1. TypeOK /\ RunInv
  BY DEF Inv, Base
<1>2. r \in InProgress => r \in Rows /\ run[r].status = "in_progress"
  BY DEF InProgress
<1>3. Voidable(r) => r \in Rows /\ run[r].status \in Ended
  BY DEF Voidable
<1>4. Queued(r) => run[r].status \in Ended
  BY DEF Queued, Ended
<1>5. SubmitRun(w, r) => JobStep
  BY <1>1, <1>2, BeginsAs, RequestHeld, Entering
<1>6. ForfeitRun(w, r) => JobStep
  BY <1>1, <1>2, BeginsAs, RequestHeld, Entering
<1>7. ReattemptRun(w, r) => JobStep
  BY <1>1, <1>3, BeginsAs, RequestHeld, Entering
<1>8. GrantReattempt(w, r) => JobStep
  BY <1>1, <1>3, BeginsAs, RequestHeld, Entering
<1>9. ReleaseClaim(w, r) => JobStep
  BY <1>1, BeginsAs, RequestHeld, Entering
<1>10. ASSUME NEW v \in Reviewer, ClaimRun(w, v, r) PROVE JobStep
  <2> DEFINE j == [Request("claim", "save", r) EXCEPT !.by = v]
  <2>1. r \in Rows /\ run[r].status \in Ended /\ Begins(w, j)
    BY <1>1, <1>4, <1>10, BeginsAs
  <2>2. Held(j) /\ Counted(j)
    BY <1>1, <2>1, RequestHeld
  <2> HIDE DEF j
  <2> QED
    BY <1>1, <2>1, <2>2, Entering
<1>11. ASSUME NEW v \in Reviewer, NEW verdict \in Settled, ReviewRun(w, v, r, verdict) PROVE JobStep
  <2> DEFINE j == [Request("review", "settle", r) EXCEPT !.result = verdict]
  <2>1. r \in Rows /\ Begins(w, j)
    BY <1>1, <1>11, BeginsAs
  <2>2. Held(j) /\ Counted(j)
    BY <1>1, <2>1, RequestHeld
  <2> HIDE DEF j
  <2> QED
    BY <1>1, <2>1, <2>2, Entering
<1> QED
  BY <1>5, <1>6, <1>7, <1>8, <1>9, <1>10, <1>11

LEMMA Continues ==
  ASSUME Inv, NEW w \in Worker, Continue(w)
  PROVE  JobStep
<1>1. \/ job' = [job EXCEPT ![w] = Idle]
      \/ job' = [job EXCEPT ![w] = [job[w] EXCEPT !.at = "read"]]
      \/ \E seen : job' = [job EXCEPT ![w] = [job[w] EXCEPT !.at = "rescore", !.seen = seen]]
  BY DEF Continue, SaveSubmitted, SaveForfeited, SaveVoided, SaveClaimed, SaveReleased,
         SaveCaptured, SettleReview, ReadApproved, WriteScores, Done, Go
<1>2. w \in Busy
  BY AtBusy DEF Continue, SaveSubmitted, SaveForfeited, SaveVoided, SaveClaimed, SaveReleased,
                SaveCaptured, SettleReview, ReadApproved, WriteScores
<1>3. job[w] \in Jobs /\ job \in [Worker -> {Idle} \cup Jobs]
  BY <1>2, JobTyped DEF Inv, Base, TypeOK
<1>4. \A z \in Worker \ {w} : job'[z] = job[z]
  BY <1>1, <1>3
<1>5. \A z \in Busy' \ {w} : z \in Busy /\ job'[z] = job[z]
  BY <1>4 DEF Busy
<1>6. job'[w] = Idle \/ Rescoring(w)
  <2>1. CASE job' = [job EXCEPT ![w] = Idle]
    BY <1>3, <2>1
  <2>2. CASE job' = [job EXCEPT ![w] = [job[w] EXCEPT !.at = "read"]]
    <3>1. job'[w] = [job[w] EXCEPT !.at = "read"]
      BY <1>3, <2>2
    <3> QED
      BY <1>2, <1>3, <3>1 DEF Rescoring, Jobs
  <2>3. ASSUME NEW seen, job' = [job EXCEPT ![w] = [job[w] EXCEPT !.at = "rescore", !.seen = seen]]
        PROVE  Rescoring(w)
    <3>1. job'[w] = [job[w] EXCEPT !.at = "rescore", !.seen = seen]
      BY <1>3, <2>3
    <3> QED
      BY <1>2, <1>3, <3>1 DEF Rescoring, Jobs
  <2> QED
    BY <1>1, <2>1, <2>2, <2>3
<1> QED
  BY <1>5, <1>6 DEF JobStep, Busy

LEMMA JobsMove == ASSUME Inv, ~AnyClaim, [Next]_vars PROVE JobStep
<1>1. ASSUME NEW w \in Worker, Continue(w) PROVE JobStep
  BY <1>1, Continues
<1>2. CASE \E w \in Worker, r \in Run : SubmitRun(w, r) \/ ForfeitRun(w, r) \/ ReattemptRun(w, r)
  BY <1>2, RequestsEnter
<1>3. CASE \E w \in Worker, v \in Reviewer, r \in Run :
             \/ GrantReattempt(w, r) \/ ClaimRun(w, v, r) \/ ReleaseClaim(w, r)
             \/ \E verdict \in Settled : ReviewRun(w, v, r, verdict)
  BY <1>3, RequestsEnter
<1>4. ASSUME NEW w \in Worker, NEW u \in Player, NEW x \in Race,
             NEW p \in Permalink, NEW result \in Ended, Capture(w, u, x, p, result)
      PROVE  JobStep
  <2> DEFINE j == CaptureOf(u, x, p, result)
  <2>1. TypeOK /\ RunInv
    BY DEF Inv, Base
  <2>2. Begins(w, j)
    BY <1>4, <2>1, BeginsAs
  <2>3. Held(j) /\ Counted(j)
    BY <2>1, CaptureHeld
  <2> HIDE DEF j
  <2> QED
    BY <2>1, <2>2, <2>3, Entering
<1>5. CASE Restart
  BY <1>5 DEF Restart, JobStep, Busy
<1>6. CASE UNCHANGED job
  BY <1>6 DEF JobStep, Busy
<1>7. CASE \/ \E u \in Player, p \in Permalink : StartRun(u, p)
           \/ \E due, closing \in SUBSET InProgress : TickStart(due, closing)
           \/ TickRun \/ TickClaim
           \/ \E r \in Run : ClaimLapses(r)
           \/ UNCHANGED vars
  BY <1>6, <1>7 DEF StartRun, TickStart, TickRun, TickClaim, ClaimLapses, vars
<1> QED
  BY <1>1, <1>2, <1>3, <1>4, <1>5, <1>7 DEF Next

LEMMA RowsFinite == IsFiniteSet(Rows) /\ Cardinality(Rows) \in Nat
<1>1. Rows \subseteq Run /\ IsFiniteSet(Run)
  BY IdAssumption DEF Rows
<1> QED
  BY <1>1, FS_Subset, FS_CardinalityType

(* A row that is created is new. *)
LEMMA NextNew == ASSUME RunInv PROVE NextRun \notin Rows
<1>1. Cardinality(Rows) \in Nat
  BY RowsFinite
<1>2. Rows \subseteq Run
  BY DEF Rows
<1> QED
  BY <1>1, <1>2 DEF RunInv, NextRun

LEMMA Dense ==
  ASSUME Inv, RowsStep
  PROVE  \A r \in Run : r \in Rows' <=> r <= Cardinality(Rows)'
<1>1. Cardinality(Rows) \in Nat /\ IsFiniteSet(Rows) /\ Rows \subseteq Run
  BY RowsFinite DEF Rows
<1>2. CASE Rows' = Rows
  BY <1>2 DEF Inv, RunInv
<1>3. ASSUME NEW row \in RunRow, run' = [run EXCEPT ![NextRun] = row]
      PROVE  \A r \in Run : r \in Rows' <=> r <= Cardinality(Rows)'
  <2>1. \A q \in Run : run'[q] = IF q = NextRun THEN row ELSE run[q]
    BY <1>3, RowAdded DEF Inv, Base
  <2>2. CASE NextRun \in Run
    <3>1. Rows' = Rows \cup {NextRun}
      BY <2>1, <2>2, RowAssumption DEF Rows
    <3>2. NextRun \notin Rows
      BY NextNew DEF Inv
    <3>3. Cardinality(Rows)' = Cardinality(Rows) + 1
      BY <1>1, <3>1, <3>2, FS_AddElement
    <3> QED
      BY <1>1, <3>1, <3>3, Ids DEF NextRun, Inv, RunInv
  <2>3. CASE NextRun \notin Run
    BY <2>1, <2>3, <1>2 DEF Rows
  <2> QED
    BY <2>2, <2>3
<1> QED
  BY <1>2, <1>3 DEF RowsStep, Still, Ticks, Advances, MovesOne, Draws, Records

-----------------------------------------------------------------------------
(* What a step may do to the reviews.                                      *)

LEMMA Rewritten ==
  ASSUME TypeOK, NEW r \in Rows, NEW row \in RunRow, run' = [run EXCEPT ![r] = row]
  PROVE  run'[r] = row /\ \A q \in Rows \ {r} : run'[q].review = run[q].review
BY RowWritten DEF Rows

(* A request that goes on has changed. *)
LEMMA Changed ==
  ASSUME TypeOK, NEW w \in Busy, job[w].at # "read",
         Done(w) \/ Go(w, [job[w] EXCEPT !.at = "read"])
  PROVE  job'[w] # job[w]
<1>1. job[w] \in Jobs /\ job[w] # Idle /\ w \in Worker
  BY JobTyped DEF Busy
<1>2. job'[w] = Idle \/ job'[w] = [job[w] EXCEPT !.at = "read"]
  BY <1>1 DEF Done, Go, TypeOK
<1>3. [job[w] EXCEPT !.at = "read"].at = "read"
  BY <1>1 DEF Jobs
<1> QED
  BY <1>1, <1>2, <1>3

LEMMA SaveReviews ==
  ASSUME Inv, NEW w \in Worker,
         \/ SaveSubmitted(w) \/ SaveForfeited(w) \/ SaveVoided(w) \/ SaveClaimed(w)
         \/ SaveReleased(w)
  PROVE  ReviewStep
<1> DEFINE j == job[w]
<1>1. At(w, "save") /\ w \in Busy /\ j.at = "save"
  BY AtBusy DEF SaveSubmitted, SaveForfeited, SaveVoided, SaveClaimed, SaveReleased
<1>2. j \in Jobs /\ j.run \in Rows /\ j.row \in RunRow /\ TypeOK
  BY <1>1, AboutToSave DEF Inv, Base
<1>3. Holding(j) /\ Held(j)
  BY <1>1, <1>2, NullAssumption DEF Holding, Rows, Inv, JobInv
<1>4. j.row.review = run[j.run].review /\ j.row.status = run[j.run].status
  BY <1>3 DEF Held, Alike
<1>5. j'  # j
  BY <1>1, <1>2, Changed DEF SaveSubmitted, SaveForfeited, SaveVoided, SaveClaimed, SaveReleased
<1>6. ASSUME NEW row \in RunRow, run' = [run EXCEPT ![j.run] = row],
             \/ row.review = j.row.review
             \/ run[j.run].status = "in_progress"
      PROVE  ReviewStep
  BY <1>1, <1>2, <1>4, <1>5, <1>6, Rewritten DEF ReviewStep
<1>7. CASE SaveSubmitted(w) \/ SaveForfeited(w)
  <2>1. run[j.run].status = "in_progress"
    BY <1>3, <1>4, <1>7 DEF Held, SaveSubmitted, SaveForfeited
  <2>2. \E row \in RunRow : run' = [run EXCEPT ![j.run] = row]
    BY <1>2, <1>7 DEF SaveSubmitted, SaveForfeited, SaveRow, RunRow, Ended, Settled, Score
  <2> QED
    BY <1>6, <2>1, <2>2
<1>8. CASE SaveVoided(w)
  <2> DEFINE row == [j.row EXCEPT !.void = TRUE, !.granted = (j.kind = "grant"), !.score = None]
  <2>1. row \in RunRow /\ run' = [run EXCEPT ![j.run] = row]
    BY <1>2, <1>8 DEF SaveVoided, SaveRow, RunRow, Score
  <2>2. row.review = j.row.review
    BY <1>2 DEF RunRow
  <2> HIDE DEF row
  <2> QED
    BY <1>6, <2>1, <2>2
<1>9. CASE SaveClaimed(w)
  <2> DEFINE row == [j.row EXCEPT !.claim = j.by]
  <2>1. row \in RunRow /\ run' = [run EXCEPT ![j.run] = row]
    BY <1>2, <1>9 DEF SaveClaimed, SaveRow, RunRow, Jobs
  <2>2. row.review = j.row.review
    BY <1>2 DEF RunRow
  <2> HIDE DEF row
  <2> QED
    BY <1>6, <2>1, <2>2
<1>10. CASE SaveReleased(w)
  <2> DEFINE row == [j.row EXCEPT !.claim = None]
  <2>1. row \in RunRow /\ run' = [run EXCEPT ![j.run] = row]
    BY <1>2, <1>10 DEF SaveReleased, SaveRow, RunRow
  <2>2. row.review = j.row.review
    BY <1>2 DEF RunRow
  <2> HIDE DEF row
  <2> QED
    BY <1>6, <2>1, <2>2
<1> QED
  BY <1>7, <1>8, <1>9, <1>10

LEMMA CaptureReviews ==
  ASSUME Inv, NEW w \in Worker, SaveCaptured(w)
  PROVE  ReviewStep
<1> DEFINE j == job[w]
           row == Recorded(j)
<1>1. /\ w \in Busy /\ j \in Jobs /\ j.at = "capture" /\ row \in RunRow
      /\ IF j.row # None
         THEN j.run \in Rows /\ run' = [run EXCEPT ![j.run] = row]
         ELSE run' = [run EXCEPT ![NextRun] = row]
  BY Capturing DEF Inv
<1>2. TypeOK /\ job'[w] # j
  BY <1>1, Changed DEF Inv, Base, SaveCaptured
<1>3. CASE j.row # None
  <2>1. row.review = "approved"
    BY <1>1, <1>3 DEF Recorded, Jobs, RunRow
  <2> HIDE DEF row
  <2>2. run'[j.run] = row /\ \A q \in Rows \ {j.run} : run'[q].review = run[q].review
    BY <1>1, <1>2, <1>3, Rewritten
  <2> QED
    BY <1>1, <1>2, <2>1, <2>2 DEF ReviewStep, Settled
<1>4. CASE j.row = None
  <2> HIDE DEF row
  <2>1. \A q \in Run : run'[q] = IF q = NextRun THEN row ELSE run[q]
    BY <1>1, <1>2, <1>4, RowAdded
  <2>2. NextRun \notin Rows
    BY NextNew DEF Inv
  <2> QED
    BY <2>1, <2>2 DEF ReviewStep, Rows
<1> QED
  BY <1>3, <1>4

LEMMA SettleReviews ==
  ASSUME Inv, NEW w \in Worker, SettleReview(w)
  PROVE  ReviewStep /\ (verdicts' = verdicts \/ Settles(w))
<1> DEFINE r == job[w].run
           verdict == job[w].result
           row == [run[r] EXCEPT !.review = verdict, !.claim = None,
                                 !.score = IF verdict = "rejected" THEN None ELSE @]
<1>1. w \in Busy /\ job[w].at = "settle"
  BY AtBusy DEF SettleReview
<1>2. job[w] \in Jobs /\ r \in Rows /\ verdict \in Settled
  BY <1>1, JobTyped DEF Inv, Base, Fit
<1>3. run[r] \in RunRow /\ r \in Run /\ TypeOK
  BY <1>2, RowTyped DEF Inv, Base
<1>4. row \in RunRow /\ row.review = verdict
  BY <1>2, <1>3 DEF RunRow, Score
<1>5. CASE run[r].review = job[w].row.review
  <2>1. run' = [run EXCEPT ![r] = row]
    BY <1>3, <1>5 DEF SettleReview, TypeOK
  <2> HIDE DEF row
  <2>2. run'[r] = row /\ \A q \in Rows \ {r} : run'[q].review = run[q].review
    BY <1>2, <1>3, <1>4, <2>1, Rewritten
  <2>3. job'[w] # job[w]
    BY <1>1, <1>3, <1>5, Changed DEF SettleReview
  <2>4. ReviewStep
    BY <1>1, <1>2, <1>4, <2>2, <2>3 DEF ReviewStep
  <2>5. Settles(w)
    BY <1>1, <1>2, <1>4, <1>5, <2>2 DEF Settles, SettleReview
  <2> QED
    BY <2>4, <2>5
<1>6. CASE run[r].review # job[w].row.review
  BY <1>6 DEF SettleReview, ReviewStep
<1> QED
  BY <1>5, <1>6

LEMMA TickReviews ==
  ASSUME Inv, TickRun \/ TickClaim, RowsStep
  PROVE  ReviewStep
<1>1. TypeOK
  BY DEF Inv, Base
<1>2. CASE TickRun
  <2> DEFINE x == First(tick.due)
             row == IF x[3] THEN [x[2] EXCEPT !.status = "forfeit", !.review = "approved",
                                              !.score = Zero]
                    ELSE [x[2] EXCEPT !.warned = TRUE]
  <2>1. x \in tick.due /\ x[1] \in Run /\ x[2] \in RunRow
    BY <1>1, <1>2, Ticking
  <2>2. row \in RunRow
    BY <2>1 DEF RunRow, Ended, Settled, Score
  <2>3. run' = [run EXCEPT ![x[1]] = row] /\ tick' = [tick EXCEPT !.due = @ \ {x}]
    BY <1>2 DEF TickRun
  <2> HIDE DEF row, x
  <2>4. TickHeld(x) /\ x[2].status = "in_progress"
    BY <2>1 DEF Inv, TickInv
  <2>5. x[1] \in Rows /\ run[x[1]].status = "in_progress"
    BY <2>4 DEF TickHeld, Alike
  <2>6. x[1] \in Ticked
    BY <2>1 DEF Ticked
  <2>7. tick'.due = tick.due \ {x} /\ tick'.stale = tick.stale
    BY <1>1, <2>3 DEF TypeOK
  <2>8. \A y \in tick.due \ {x} : y[1] # x[1]
    BY <2>1 DEF Inv, TickInv
  <2>9. \A y \in tick.stale : y[1] # x[1]
    <3>1. \A y \in tick.stale : Alike(y[2], run[y[1]]) /\ y[2].status \in Ended
      BY DEF Inv, TickInv, TickHeld
    <3> QED
      BY <2>5, <3>1 DEF Alike, Ended
  <2>10. x[1] \notin Ticked'
    BY <2>7, <2>8, <2>9 DEF Ticked
  <2>11. \A q \in Rows \ {x[1]} : run'[q].review = run[q].review
    BY <1>1, <2>2, <2>3, <2>5, Rewritten
  <2> QED
    BY <2>5, <2>6, <2>10, <2>11 DEF ReviewStep
<1>3. CASE TickClaim
  <2> DEFINE x == First(tick.stale)
             row == [x[2] EXCEPT !.claim = None]
  <2>1. x \in tick.stale /\ x[1] \in Run /\ x[2] \in RunRow
    BY <1>1, <1>3, Ticking
  <2>2. row \in RunRow /\ row.review = x[2].review
    BY <2>1 DEF RunRow
  <2>3. run' = [run EXCEPT ![x[1]] = row]
    BY <1>3 DEF TickClaim
  <2> HIDE DEF row, x
  <2>4. x[1] \in Rows /\ x[2].review = run[x[1]].review
    BY <2>1 DEF Inv, TickInv, TickHeld
  <2> QED
    BY <1>1, <2>2, <2>3, <2>4, Rewritten DEF ReviewStep
<1> QED
  BY <1>2, <1>3

LEMMA ScoreReviews == ASSUME Inv, NEW w \in Worker, WriteScores(w) PROVE ReviewStep
<1>1. ASSUME NEW r \in Rows PROVE run'[r].review = run[r].review
  <2>1. r \in Run /\ run[r] \in RunRow
    BY RowTyped DEF Inv, Base
  <2>2. \/ run'[r] = run[r]
        \/ run'[r] = [run[r] EXCEPT !.score = Against(SeenRuns(w))]
    BY <2>1, Scores DEF Inv
  <2> QED
    BY <2>1, <2>2 DEF RunRow
<1> QED
  BY <1>1 DEF ReviewStep

LEMMA DrawReviews ==
  ASSUME Inv, NEW u \in Player, NEW p \in Permalink, StartRun(u, p)
  PROVE  ReviewStep
<1>1. NextRun \notin Rows /\ TypeOK
  BY NextNew DEF Inv, Base
<1>2. \A r \in Rows : run'[r] = run[r]
  BY <1>1 DEF StartRun, TypeOK, Rows
<1> QED
  BY <1>2 DEF ReviewStep

LEMMA ReviewsMove ==
  ASSUME Inv, [Next]_vars, RowsStep
  PROVE  ReviewStep /\ (verdicts' = verdicts \/ \E w \in Worker : Settles(w))
<1>1. ASSUME NEW w \in Worker, Continue(w)
      PROVE  ReviewStep /\ (verdicts' = verdicts \/ Settles(w))
  <2>1. CASE ReadApproved(w)
    BY <2>1 DEF ReadApproved, ReviewStep
  <2>2. CASE SettleReview(w)
    BY <2>2, SettleReviews
  <2>3. CASE ~ReadApproved(w) /\ ~SettleReview(w)
    <3>1. verdicts' = verdicts
      BY <1>1, <2>3 DEF Continue, SaveSubmitted, SaveForfeited, SaveVoided, SaveClaimed,
         SaveReleased, SaveCaptured, WriteScores
    <3> QED
      BY <1>1, <2>3, <3>1, SaveReviews, CaptureReviews, ScoreReviews DEF Continue
  <2> QED
    BY <2>1, <2>2, <2>3
<1>2. CASE \E u \in Player, p \in Permalink : StartRun(u, p)
  BY <1>2, DrawReviews DEF StartRun
<1>3. CASE TickRun \/ TickClaim
  BY <1>3, TickReviews DEF TickRun, TickClaim
<1>4. CASE UNCHANGED <<run, verdicts>>
  BY <1>4 DEF ReviewStep
<1>5. \/ \E w \in Worker : Continue(w)
      \/ \E u \in Player, p \in Permalink : StartRun(u, p)
      \/ TickRun \/ TickClaim \/ UNCHANGED <<run, verdicts>>
  <2>1. TypeOK
    BY DEF Inv, Base
  <2> QED
    BY <2>1, BeginsAs DEF Next, vars, TickStart, ClaimLapses, Restart, Begins
<1> QED
  BY <1>1, <1>2, <1>3, <1>4, <1>5

-----------------------------------------------------------------------------
(* The invariant.                                                          *)

LEMMA HeldStep ==
  ASSUME Inv, RowsStep, ReviewStep, JobStep, NEW z \in Busy', z \in Busy,
         job'[z] = job[z], Held(job[z])
  PROVE  Held(job[z])'
<1> DEFINE j == job[z]
<1>1. CASE ~Holding(j)
  BY <1>1 DEF Held, Holding
<1>2. CASE Holding(j)
  <2>1. j.run \in Rows /\ j.kind # "review" /\ j.at \in {"save", "capture"}
    BY <1>2 DEF Inv, Base, Fit, Held, Holding
  <2>2. ASSUME NEW y \in Busy, Holding(job[y]), job[y].run = j.run PROVE y = z
    BY <2>1, <2>2, <1>2 DEF Inv, ApartInv, Apart, Holding
  <2>3. Alike(run'[j.run], run[j.run])
    <3>1. CASE Still
      BY <2>1, <3>1 DEF Still
    <3>2. ASSUME NEW r \in Rows, MovesOne(r), ByTick(r) PROVE Alike(run'[j.run], run[j.run])
      <4>1. j.run # r
        BY <3>2 DEF ByTick, Inv, ApartInv
      <4> QED
        BY <2>1, <3>2, <4>1 DEF MovesOne
    <3>3. ASSUME NEW w \in Worker, NEW r \in Rows, MovesOne(r), ByRequest(w, r)
          PROVE  Alike(run'[j.run], run[j.run])
      <4>1. j.run # r
        BY <2>2, <3>3 DEF ByRequest
      <4> QED
        BY <2>1, <3>3, <4>1 DEF MovesOne
    <3>4. ASSUME NEW row \in RunRow, run' = [run EXCEPT ![NextRun] = row]
          PROVE  Alike(run'[j.run], run[j.run])
      <4>1. NextRun \notin Rows
        BY NextNew DEF Inv
      <4>2. run'[j.run] = run[j.run]
        BY <2>1, <3>4, <4>1 DEF Inv, Base, TypeOK, Rows
      <4> QED
        BY <4>2 DEF Alike
    <3> QED
      BY <3>1, <3>2, <3>3, <3>4 DEF RowsStep, Ticks, Advances, Draws, Records
  <2>4. Alike(j.row, run'[j.run])
    BY <1>2, <2>3 DEF Held, Alike
  <2>5. run'[j.run].review = run[j.run].review
    <3>1. j.run \notin Ticked /\ z \in Busy
      BY DEF Inv, ApartInv
    <3>2. ASSUME NEW w \in Busy, job[w].run = j.run PROVE w = z
      BY <1>2, <2>1, <3>2 DEF Inv, ApartInv, Apart, Holding
    <3> QED
      BY <2>1, <3>1, <3>2 DEF ReviewStep
  <2> QED
    BY <1>2, <2>4, <2>5 DEF Held, Holding
<1> QED
  BY <1>1, <1>2

(* Only a request that voids or records a racer's run, or a draw of theirs, *)
(* changes how many runs of theirs count.                                   *)
LEMMA ValidKept ==
  ASSUME Inv, RowsStep, NEW z \in Busy, job'[z] = job[z],
         job[z].at = "capture", job[z].run = None
  PROVE  Valid(job[z].user)' = Valid(job[z].user)
<1> DEFINE u == job[z].user
<1>1. job[z].kind = "capture"
  BY DEF Inv, JobInv, Held
<1>2. \A w \in Busy : w # z /\ job[w].user = u => ~Voids(job[w])
  BY <1>1 DEF Inv, ApartInv, Apart
<1>4. ASSUME Rows' = Rows,
             \A r \in Rows : /\ run'[r].user = run[r].user
                             /\ run[r].user = u => run'[r].void = run[r].void
      PROVE  Valid(u)' = Valid(u)
  BY <1>4 DEF Valid, RunsOf
<1>5. CASE Still
  BY <1>4, <1>5 DEF Still, Alike
<1>6. CASE Ticks
  BY <1>4, <1>6 DEF Ticks, MovesOne, ByTick, Alike, Forward
<1>7. ASSUME NEW w \in Worker, NEW r \in Rows, MovesOne(r), ByRequest(w, r)
      PROVE  Valid(u)' = Valid(u)
  <2>1. w # z /\ w \in Busy /\ Holding(job[w]) /\ job[w].run = r
    BY <1>7 DEF ByRequest
  <2>2. run[r].user = job[w].user
    BY <2>1 DEF Inv, JobInv, Held, Alike
  <2>3. run[r].user = u => run'[r].void = run[r].void
    BY <1>2, <1>7, <2>1, <2>2 DEF ByRequest
  <2> QED
    BY <1>4, <1>7, <2>3 DEF MovesOne, Alike, Forward
<1>8. ASSUME NEW row \in RunRow, run' = [run EXCEPT ![NextRun] = row], row.user # u
      PROVE  Valid(u)' = Valid(u)
  <2>1. \A q \in Run : run'[q] = IF q = NextRun THEN row ELSE run[q]
    BY <1>8, RowAdded DEF Inv, Base
  <2>2. NextRun \notin Rows
    BY NextNew DEF Inv
  <2> QED
    BY <1>8, <2>1, <2>2, RowAssumption DEF Valid, RunsOf, Rows
<1>9. ASSUME NEW v \in Player, Draws(v) PROVE Valid(u)' = Valid(u)
  BY <1>1, <1>8, <1>9 DEF Draws
<1>10. ASSUME NEW w \in Worker, Records(w) PROVE Valid(u)' = Valid(u)
  <2>1. w \in Busy /\ w # z /\ job[w].at = "capture"
    BY <1>10 DEF Records
  <2>2. Voids(job[w])
    BY <2>1 DEF Inv, JobInv, Held, Voids
  <2>3. job[w].user # u
    BY <1>2, <2>1, <2>2
  <2> QED
    BY <1>8, <1>10, <2>3 DEF Records
<1> QED
  BY <1>5, <1>6, <1>7, <1>9, <1>10 DEF RowsStep, Advances

LEMMA JobsStep ==
  ASSUME Inv, RowsStep, ReviewStep, JobStep
  PROVE  JobInv'
<1> SUFFICES ASSUME NEW z \in Busy' PROVE Held(job[z])' /\ Counted(job[z])'
  BY DEF JobInv
<1>1. CASE z \in Busy /\ job'[z] = job[z]
  <2>1. Held(job[z])'
    BY <1>1, HeldStep DEF Inv, JobInv
  <2>2. Counted(job[z])'
    <3>1. CASE job[z].at = "capture" /\ job[z].run = None
      <4>1. Valid(job[z].user)' = Valid(job[z].user)
        BY <1>1, <3>1, ValidKept
      <4>2. Counted(job[z])
        BY <1>1 DEF Inv, JobInv
      <4> QED
        BY <1>1, <4>1, <4>2 DEF Counted
    <3> QED
      BY <1>1, <3>1 DEF Counted
  <2> QED
    BY <2>1, <2>2
<1>2. CASE Rescoring(z)
  BY <1>2 DEF Rescoring, Held, Holding, Counted
<1>3. CASE Enters(z)
  BY <1>3 DEF Enters, Held, Holding, Counted, Valid, RunsOf, Rows
<1> QED
  BY <1>1, <1>2, <1>3 DEF JobStep

(* What begins stands in nobody's way. *)
LEMMA NewApart ==
  ASSUME Inv, {"row", "cap"} \cap Conflicts = {}, NEW w \in Worker, NEW j \in Jobs, MayStart(w, j)
  PROVE  /\ \A v \in Busy : Apart(j, job[v]) /\ Apart(job[v], j)
         /\ j.run \notin Ticked
<1>1. \A v \in Busy : LET k == job[v]
                      IN  ~InConflict(j, k).row /\ ~InConflict(j, k).cap
  BY DEF MayStart, ConflictKind
<1>2. \A v \in Busy : LET k == job[v]
                      IN  /\ Saves(j) \cap Writes(k) = {} /\ Saves(k) \cap Writes(j) = {}
                          /\ ~(/\ j.user = k.user /\ "capture" \in {j.kind, k.kind}
                               /\ {j.kind, k.kind} \subseteq {"capture", "reattempt", "grant"})
  BY <1>1 DEF InConflict
<1>3. Writes(j) \cap Ticked = {}
  BY DEF MayStart
<1>4. j.run # None => j.run \in Writes(j)
  BY DEF Writes
<1>5. j.run \notin Ticked
  <2>1. Ticked \subseteq Run
    BY DEF Ticked, Inv, Base, TypeOK
  <2> QED
    BY <1>3, <1>4, <2>1, NullAssumption
<1>6. ASSUME NEW v \in Busy PROVE Apart(j, job[v]) /\ Apart(job[v], j)
  <2> DEFINE k == job[v]
  <2> HIDE DEF k
  <2>1. k.run # None => k.run \in Writes(k)
    BY DEF Writes
  <2>2. j.run # None /\ j.kind # "review" => j.run \in Saves(j)
    BY DEF Saves
  <2>3. k.run # None /\ k.kind # "review" => k.run \in Saves(k)
    BY DEF Saves
  <2>4. /\ Saves(j) \cap Writes(k) = {} /\ Saves(k) \cap Writes(j) = {}
        /\ ~(/\ j.user = k.user /\ "capture" \in {j.kind, k.kind}
             /\ {j.kind, k.kind} \subseteq {"capture", "reattempt", "grant"})
    BY <1>2 DEF k
  <2>5. j.run = k.run /\ j.run # None => j.kind = "review" /\ k.kind = "review"
    BY <1>4, <2>1, <2>2, <2>3, <2>4
  <2>6. Apart(j, k) /\ Apart(k, j)
    BY <2>4, <2>5 DEF Apart, Voids
  <2> QED
    BY <2>6 DEF k
<1> QED
  BY <1>5, <1>6

LEMMA TickedKept ==
  ASSUME Inv, {"row", "cap"} \cap Conflicts = {}, [Next]_vars
  PROVE  /\ \/ tick'.due \subseteq tick.due /\ tick'.stale \subseteq tick.stale
            \/ /\ UNCHANGED <<run, job>>
               /\ \A w \in Busy : job[w].run \notin Ticked' /\ Writes(job[w]) \cap Ticked' = {}
               /\ \A x \in tick'.due : /\ x[1] \in InProgress /\ x[2] = run[x[1]]
                                       /\ \A y \in tick'.due : y[1] = x[1] => y = x
               /\ \A x \in tick'.stale : /\ x[1] \in Rows /\ x[2] = run[x[1]]
                                         /\ run[x[1]].claim # None
<1>1. tick = [due |-> tick.due, stale |-> tick.stale]
  BY DEF Inv, Base, TypeOK
<1>2. ASSUME NEW due \in SUBSET InProgress, NEW closing \in SUBSET InProgress,
             TickStart(due, closing)
      PROVE  /\ UNCHANGED <<run, job>>
             /\ \A w \in Busy : job[w].run \notin Ticked' /\ Writes(job[w]) \cap Ticked' = {}
             /\ \A x \in tick'.due : /\ x[1] \in InProgress /\ x[2] = run[x[1]]
                                     /\ \A y \in tick'.due : y[1] = x[1] => y = x
             /\ \A x \in tick'.stale : /\ x[1] \in Rows /\ x[2] = run[x[1]]
                                       /\ run[x[1]].claim # None
  <2> DEFINE late(r) == r \in due
             read == {<<r, run[r], late(r)>> : r \in due \cup {q \in closing : ~run[q].warned}}
  <2>1. /\ tick' = [due |-> read, stale |-> Stale]
        /\ UNCHANGED <<run, job>>
        /\ \A w \in Busy : \A x \in read \cup Stale : x[1] \notin Writes(job[w])
    BY <1>2 DEF TickStart
  <2>2. \A x \in read : /\ x[1] \in InProgress /\ x[2] = run[x[1]]
                        /\ x = <<x[1], run[x[1]], late(x[1])>>
    OBVIOUS
  <2>3. \A x \in Stale : x[1] \in lapsed /\ x[2] = run[x[1]] /\ run[x[1]].claim # None
    BY DEF Stale
  <2> HIDE DEF read
  <2>4. \A x, y \in read : y[1] = x[1] => y = x
    BY <2>2
  <2>5. lapsed \subseteq Rows
    BY DEF Inv, Base, TypeOK
  <2>6. \A w \in Busy : job[w].run \notin Ticked' /\ Writes(job[w]) \cap Ticked' = {}
    <3>1. \A w \in Busy : job[w].run # None => job[w].run \in Writes(job[w])
      BY DEF Writes
    <3>2. Ticked' = {x[1] : x \in read \cup Stale}
      BY <2>1 DEF Ticked
    <3>3. None \notin Ticked'
      BY <2>2, <2>3, <2>5, <3>2, NullAssumption DEF Rows, InProgress
    <3>4. \A w \in Busy : Writes(job[w]) \cap Ticked' = {}
      BY <2>1, <3>2
    <3> QED
      BY <3>1, <3>3, <3>4
  <2> QED
    BY <2>1, <2>2, <2>3, <2>4, <2>5, <2>6
<1>3. CASE ~\E due, closing \in SUBSET InProgress : TickStart(due, closing)
  <2>1. UNCHANGED tick \/ TickRun \/ TickClaim \/ Restart
    BY <1>3, BeginsAs DEF Inv, Base, Next, vars, StartRun, ClaimLapses, Begins, Continue,
       SaveSubmitted, SaveForfeited, SaveVoided, SaveClaimed, SaveReleased, SaveCaptured,
       SettleReview, ReadApproved, WriteScores
  <2>2. tick'.due \subseteq tick.due /\ tick'.stale \subseteq tick.stale
    <3>1. CASE UNCHANGED tick
      BY <3>1
    <3>2. CASE TickRun
      <4>1. tick' = [tick EXCEPT !.due = @ \ {First(tick.due)}]
        BY <3>2 DEF TickRun
      <4> QED
        BY <1>1, <4>1
    <3>3. CASE TickClaim
      <4>1. tick' = [tick EXCEPT !.stale = @ \ {First(tick.stale)}]
        BY <3>3 DEF TickClaim
      <4> QED
        BY <1>1, <4>1
    <3>4. CASE Restart
      BY <3>4 DEF Restart
    <3> QED
      BY <2>1, <3>1, <3>2, <3>3, <3>4
  <2> QED
    BY <2>2
<1> QED
  BY <1>2, <1>3

LEMMA ApartStep ==
  ASSUME Inv, Base', {"row", "cap"} \cap Conflicts = {}, [Next]_vars, JobStep
  PROVE  ApartInv'
<1>1. job \in [Worker -> {Idle} \cup Jobs] /\ \A z \in Busy' : job'[z] \in Jobs /\ z \in Worker
  BY DEF Inv, Base, TypeOK, Busy
<1>2. ASSUME NEW w \in Busy', Enters(w)
      PROVE  /\ \A v \in Busy' \ {w} : v \in Busy /\ job'[v] = job[v]
             /\ \A v \in Busy : Apart(job'[w], job[v]) /\ Apart(job[v], job'[w])
             /\ job'[w].run \notin Ticked /\ Ticked' = Ticked
  <2>1. /\ MayStart(w, job'[w]) /\ job' = [job EXCEPT ![w] = job'[w]] /\ UNCHANGED tick
    BY <1>2 DEF Enters, Start, Go
  <2>2. \A v \in Busy' \ {w} : v \in Busy /\ job'[v] = job[v]
    BY <1>1, <2>1 DEF Busy
  <2>3. Ticked' = Ticked
    BY <2>1 DEF Ticked
  <2>4. /\ \A v \in Busy : Apart(job'[w], job[v]) /\ Apart(job[v], job'[w])
        /\ job'[w].run \notin Ticked
    BY <1>1, <2>1, NewApart
  <2> QED
    BY <2>2, <2>3, <2>4
<1> DEFINE Stays(z) == /\ z \in Busy /\ job'[z].kind = job[z].kind /\ job'[z].run = job[z].run
                       /\ job'[z].user = job[z].user
<1>3. \A z \in Busy' : Stays(z) \/ Enters(z)
  BY DEF JobStep, Rescoring
<1>4. ASSUME NEW w \in Busy', NEW v \in Busy', w # v PROVE Apart(job'[w], job'[v])
  <2>1. CASE Enters(w)
    BY <1>2, <1>4, <2>1
  <2>2. CASE Enters(v)
    BY <1>2, <1>4, <2>2
  <2>3. CASE Stays(w) /\ Stays(v)
    BY <1>4, <2>3 DEF Inv, ApartInv, Apart, Voids
  <2> QED
    BY <1>3, <2>1, <2>2, <2>3
<1>5. ASSUME NEW w \in Busy' PROVE job'[w].run \notin Ticked'
  <2>1. CASE Enters(w)
    BY <1>2, <2>1
  <2>2. CASE Stays(w)
    <3>1. job[w].run \notin Ticked /\ w \in Busy
      BY <2>2 DEF Inv, ApartInv
    <3>2. CASE tick'.due \subseteq tick.due /\ tick'.stale \subseteq tick.stale
      <4>1. Ticked' \subseteq Ticked
        BY <3>2 DEF Ticked
      <4> QED
        BY <2>2, <3>1, <4>1
    <3>3. CASE \A z \in Busy : job[z].run \notin Ticked'
      BY <2>2, <3>1, <3>3
    <3> QED
      BY <3>2, <3>3, TickedKept
  <2> QED
    BY <1>3, <2>1, <2>2
<1>6. /\ \A w, v \in Busy' : w # v => Apart(job'[w], job'[v])
      /\ \A w \in Busy' : job'[w].run \notin Ticked'
  BY <1>4, <1>5
<1> QED
  BY <1>6 DEF ApartInv, Apart, Voids

LEMMA TickStep ==
  ASSUME Inv, {"row", "cap"} \cap Conflicts = {}, [Next]_vars, RowsStep, ReviewStep
  PROVE  TickInv'
<1>1. CASE tick'.due \subseteq tick.due /\ tick'.stale \subseteq tick.stale
  <2>1. ASSUME NEW x, x[1] \in Ticked, x[1] \in Ticked', TickHeld(x)
        PROVE  TickHeld(x)'
    <3>1. x[1] \in Rows /\ Alike(x[2], run[x[1]]) /\ Sound(x[2])
      BY <2>1 DEF TickHeld
    <3>2. x[1] \in Rows' /\ Alike(run'[x[1]], run[x[1]])
      <4>1. CASE Still
        BY <3>1, <4>1 DEF Still
      <4>2. CASE Ticks
        BY <2>1, <3>1, <4>2 DEF Ticks, MovesOne, ByTick
      <4>3. ASSUME NEW w \in Worker, Advances(w)
            PROVE  x[1] \in Rows' /\ Alike(run'[x[1]], run[x[1]])
        BY <2>1, <3>1, <4>3 DEF Advances, MovesOne, ByRequest, Inv, ApartInv
      <4>4. ASSUME NEW row \in RunRow, run' = [run EXCEPT ![NextRun] = row]
            PROVE  x[1] \in Rows' /\ Alike(run'[x[1]], run[x[1]])
        <5>1. NextRun \notin Rows
          BY NextNew DEF Inv
        <5>2. run'[x[1]] = run[x[1]]
          BY <3>1, <4>4, <5>1 DEF Inv, Base, TypeOK, Rows
        <5> QED
          BY <3>1, <5>2 DEF Alike, Rows
      <4> QED
        BY <4>1, <4>2, <4>3, <4>4 DEF RowsStep, Draws, Records
    <3>3. run'[x[1]].review = run[x[1]].review
      BY <2>1, <3>1 DEF ReviewStep, Inv, ApartInv
    <3> QED
      BY <2>1, <3>1, <3>2, <3>3 DEF TickHeld, Alike
  <2>2. \A x \in tick'.due \cup tick'.stale : x[1] \in Ticked /\ x[1] \in Ticked'
    BY <1>1 DEF Ticked
  <2>3. \A x \in tick'.due : TickHeld(x)' /\ x[2].status = "in_progress"
    BY <1>1, <2>1, <2>2 DEF Inv, TickInv
  <2>4. \A x \in tick'.stale : TickHeld(x)' /\ x[2].status \in Ended
    BY <1>1, <2>1, <2>2 DEF Inv, TickInv
  <2>5. \A x, y \in tick'.due : x[1] = y[1] => x = y
    BY <1>1 DEF Inv, TickInv
  <2> QED
    BY <2>3, <2>4, <2>5 DEF TickInv
<1>2. CASE /\ UNCHANGED run
           /\ \A x \in tick'.due : /\ x[1] \in InProgress /\ x[2] = run[x[1]]
                                   /\ \A y \in tick'.due : y[1] = x[1] => y = x
           /\ \A x \in tick'.stale : /\ x[1] \in Rows /\ x[2] = run[x[1]]
                                     /\ run[x[1]].claim # None
  <2>1. Rows' = Rows
    BY <1>2 DEF Rows
  <2>2. \A r \in Rows : Sound(run[r]) /\ Alike(run[r], run[r])
    BY DEF Inv, RunInv, Alike
  <2>3. \A x \in tick'.due : TickHeld(x)' /\ x[2].status = "in_progress"
    BY <1>2, <2>1, <2>2 DEF TickHeld, InProgress
  <2>4. \A x \in tick'.stale : TickHeld(x)' /\ x[2].status \in Ended
    BY <1>2, <2>1, <2>2 DEF TickHeld, Sound
  <2>5. \A x, y \in tick'.due : x[1] = y[1] => x = y
    BY <1>2
  <2> QED
    BY <2>3, <2>4, <2>5 DEF TickInv
<1> QED
  BY <1>1, <1>2, TickedKept

LEMMA InvInit == Init => Inv
<1> SUFFICES ASSUME Init PROVE Inv
  OBVIOUS
<1>1. Rows = {} /\ Busy = {}
  BY DEF Init, Rows, Busy
<1>2. RunInv
  <2>1. Cardinality(Rows) = 0
    BY <1>1, FS_EmptySet
  <2>2. \A r \in Run : ~(r <= 0)
    BY IdAssumption, RowsFinite, FS_CardinalityType
  <2> QED
    BY <1>1, <2>1, <2>2 DEF RunInv
<1>3. JobInv /\ ApartInv
  BY <1>1 DEF JobInv, ApartInv
<1>4. TickInv
  BY DEF Init, TickInv
<1> QED
  BY <1>2, <1>3, <1>4, BaseInit DEF Inv

LEMMA InvStep ==
  ASSUME {"row", "cap"} \cap Conflicts = {}, AnyClaim = FALSE
  PROVE  Inv /\ [Next]_vars => Inv' /\ RowsStep /\ ReviewStep
<1> SUFFICES ASSUME Inv, [Next]_vars PROVE Inv' /\ RowsStep /\ ReviewStep
  OBVIOUS
<1>1. Base'
  BY BaseStep DEF Inv
<1>2. RowsStep /\ SoundNext
  BY RowsMove
<1>3. JobStep
  BY JobsMove
<1>4. ReviewStep
  BY <1>2, ReviewsMove
<1>5. RunInv'
  BY <1>2, Dense DEF RunInv, SoundNext, Sound
<1> QED
  BY <1>1, <1>2, <1>3, <1>4, <1>5, JobsStep, ApartStep, TickStep DEF Inv

-----------------------------------------------------------------------------
(* The ledger.                                                             *)

(* A run's entry is where its row's life is. *)
LifeOf(x) == IF x = None THEN "unused"
             ELSE IF x.void THEN "void"
             ELSE IF x.status = "in_progress" THEN "open" ELSE "ended"

LEMMA Entries ==
  /\ \A r \in Run : /\ Life(r) = LifeOf(run[r])
                    /\ r \in Rows <=> run[r] # None
  /\ \A r \in Run : /\ Life(r)' = LifeOf(run'[r])
                    /\ r \in Rows' <=> run'[r] # None
BY DEF Life, LifeOf, Rows

(* The ledger counts as the qualifier does. *)
LEMMA SameSize == ASSUME NEW S PROVE Ledger!Cardinality(S) = Cardinality(S)
BY DEF Ledger!Cardinality, Cardinality

LEMMA CountingIsValid ==
  ASSUME TypeOK, NEW u \in Player
  PROVE  /\ Ledger!Counting(u) = Valid(u)
         /\ Ledger!Open(u) = {r \in Valid(u) : run[r].status = "in_progress"}
<1>1. None # u /\ Rows \subseteq Run
  BY NullAssumption DEF Rows
<1>2. \A r \in Rows : run[r] \in RunRow
  BY RowTyped
<1> QED
  BY <1>1, <1>2 DEF Ledger!Counting, Ledger!Open, Life, Valid, RunsOf, RunRow, Ended

LEMMA LedgerMoves ==
  ASSUME Inv, Base', RowsStep
  PROVE  [Ledger!Next]_(Ledger!vars)
<1> DEFINE life == [r \in Run |-> Life(r)]
           owner == [r \in Run |-> IF r \in Rows THEN run[r].user ELSE None]
<1>1. /\ \A r \in Rows : r \in Run /\ run[r] \in RunRow
      /\ \A r \in Rows' : r \in Run /\ run'[r] \in RunRow
  BY RowTyped DEF Inv, Base, TypeOK, Rows
<1>2. ASSUME Rows' = Rows, NEW q \in Rows, Alike(run'[q], run[q])
      PROVE  Life(q)' = Life(q) /\ run'[q].user = run[q].user
  BY <1>2 DEF Life, Alike
<1>3. CASE Still
  <2>1. life' = life /\ owner' = owner
    BY <1>2, <1>3 DEF Still, Life
  <2> QED
    BY <2>1 DEF Ledger!vars
<1>4. ASSUME NEW r \in Rows, MovesOne(r)
      PROVE  [Ledger!Next]_(Ledger!vars)
  <2>1. Rows' = Rows /\ Forward(run[r], run'[r]) /\ r \in Run
    BY <1>1, <1>4 DEF MovesOne
  <2>2. \A q \in Run \ {r} : Life(q)' = Life(q)
    BY <1>2, <1>4 DEF MovesOne, Life
  <2>3. owner' = owner
    BY <1>2, <1>4, <2>1 DEF MovesOne, Forward
  <2>4. life' = [life EXCEPT ![r] = Life(r)']
    BY <2>2
  <2>5. \/ Life(r)' = Life(r)
        \/ Life(r) = "open" /\ Life(r)' = "ended"
        \/ Life(r) = "ended" /\ Life(r)' = "void"
    BY <1>1, <2>1 DEF Life, Forward, RunRow, Ended
  <2>6. CASE Life(r)' = Life(r)
    <3>1. life' = life
      BY <2>2, <2>6
    <3> QED
      BY <2>3, <3>1 DEF Ledger!vars
  <2>7. CASE Life(r) = "open" /\ Life(r)' = "ended"
    <3>1. life[r] = "open" /\ life' = [life EXCEPT ![r] = "ended"]
      BY <2>1, <2>4, <2>7
    <3> QED
      BY <2>1, <2>3, <3>1 DEF Ledger!Next, Ledger!End, Ledger!Move
  <2>8. CASE Life(r) = "ended" /\ Life(r)' = "void"
    <3>1. life[r] = "ended" /\ life' = [life EXCEPT ![r] = "void"]
      BY <2>1, <2>4, <2>8
    <3> QED
      BY <2>1, <2>3, <3>1 DEF Ledger!Next, Ledger!Void, Ledger!Move
  <2> QED
    BY <2>5, <2>6, <2>7, <2>8
<1>5. ASSUME NEW row \in RunRow, NEW e \in Run, e = NextRun, run' = [run EXCEPT ![e] = row]
      PROVE  /\ life[e] = "unused"
             /\ life' = [life EXCEPT ![e] = LifeOf(row)]
             /\ owner' = [owner EXCEPT ![e] = row.user]
  <2>1. \A q \in Run : run'[q] = IF q = e THEN row ELSE run[q]
    BY <1>5, RowAdded DEF Inv, Base
  <2>2. e \notin Rows
    BY <1>5, NextNew DEF Inv
  <2>3. \A q \in Run : Life(q)' = IF q = e THEN LifeOf(row) ELSE Life(q)
    BY <2>1, Entries
  <2>4. \A q \in Run : q \in Rows' <=> (q = e \/ q \in Rows)
    BY <2>1, Entries, RowAssumption
  <2>5. life[e] = "unused"
    BY <2>2 DEF Life
  <2>6. life' = [life EXCEPT ![e] = LifeOf(row)]
    BY <2>3
  <2>7. owner' = [owner EXCEPT ![e] = row.user]
    BY <2>1, <2>4
  <2> QED
    BY <2>5, <2>6, <2>7
<1>6. ASSUME NEW row \in RunRow, run' = [run EXCEPT ![NextRun] = row], NextRun \notin Run
      PROVE  [Ledger!Next]_(Ledger!vars)
  <2>1. run' = run
    BY <1>6 DEF Inv, Base, TypeOK
  <2>2. Rows' = Rows /\ \A r \in Run : Life(r)' = Life(r)
    BY <2>1 DEF Life, Rows
  <2> QED
    BY <2>1, <2>2 DEF Ledger!vars
<1>7. ASSUME NEW u \in Player, Draws(u)
      PROVE  [Ledger!Next]_(Ledger!vars)
  <2>1. PICK row \in RunRow : /\ run' = [run EXCEPT ![NextRun] = row]
                              /\ row.user = u /\ row.status = "in_progress" /\ ~row.void
    BY <1>7 DEF Draws
  <2>2. ASSUME NEW e \in Run, e = NextRun PROVE [Ledger!Next]_(Ledger!vars)
    <3>1. LifeOf(row) = "open"
      BY <2>1, RowAssumption DEF LifeOf
    <3>2. /\ life[e] = "unused" /\ life' = [life EXCEPT ![e] = LifeOf(row)]
          /\ owner' = [owner EXCEPT ![e] = u]
      BY <1>5, <2>1, <2>2
    <3>3. Ledger!HasRoom(u) /\ Ledger!Open(u) = {}
      BY <1>7, CountingIsValid, SameSize DEF Draws, Inv, Base, Ledger!HasRoom
    <3>4. Ledger!OpenRun(e, u)
      BY <3>1, <3>2, <3>3 DEF Ledger!OpenRun, Ledger!Enter
    <3> QED
      BY <3>4 DEF Ledger!Next
  <2> QED
    BY <1>6, <2>1, <2>2
<1>8. ASSUME NEW w \in Worker, Records(w)
      PROVE  [Ledger!Next]_(Ledger!vars)
  <2>1. PICK row \in RunRow : /\ run' = [run EXCEPT ![NextRun] = row]
                              /\ row.user = job[w].user /\ row.status \in Ended
                              /\ row.void = job[w].over
    BY <1>8 DEF Records
  <2>2. w \in Busy /\ job[w].at = "capture" /\ job[w].run = None
    BY <1>8 DEF Records
  <2>3. ASSUME NEW e \in Run, e = NextRun, NEW u \in Player, u = job[w].user
        PROVE  [Ledger!Next]_(Ledger!vars)
    <3>1. job[w].over <=> Cardinality(Valid(u)) >= RunsPerPool
      BY <2>2, <2>3 DEF Inv, JobInv, Counted
    <3>2. Cardinality(Valid(u)) \in Nat
      <4>1. Valid(u) \subseteq Rows
        BY DEF Valid, RunsOf
      <4> QED
        BY <4>1, RowsFinite, FS_Subset, FS_CardinalityType
    <3>3. Ledger!HasRoom(u) <=> Cardinality(Valid(u)) < RunsPerPool
      BY CountingIsValid, SameSize DEF Ledger!HasRoom, Inv, Base
    <3>4. Ledger!HasRoom(u) <=> ~row.void
      BY <2>1, <3>1, <3>2, <3>3, CountAssumption
    <3>5. LifeOf(row) = IF Ledger!HasRoom(u) THEN "ended" ELSE "void"
      BY <2>1, <3>4, RowAssumption DEF LifeOf, Ended
    <3>6. /\ life[e] = "unused" /\ life' = [life EXCEPT ![e] = LifeOf(row)]
          /\ owner' = [owner EXCEPT ![e] = u]
      BY <1>5, <2>1, <2>3
    <3>7. Ledger!RecordResult(e, u)
      BY <3>5, <3>6 DEF Ledger!RecordResult, Ledger!Enter
    <3> QED
      BY <3>7 DEF Ledger!Next
  <2>4. job[w].user \in Player
    BY <2>2, JobTyped DEF Inv, Base, Jobs
  <2> QED
    BY <1>6, <2>1, <2>3, <2>4
<1> QED
  BY <1>3, <1>4, <1>7, <1>8 DEF RowsStep, Ticks, Advances

(* The runs keep the ledger: for any number of players, reviewers, seeds,  *)
(* runs, requests in flight and restarts, every behaviour of the qualifier *)
(* is one of the ledger's, as long as no two requests stand in each        *)
(* other's way and only queued runs are claimed.                           *)
THEOREM LedgerImplemented ==
  ASSUME {"row", "cap"} \cap Conflicts = {}, AnyClaim = FALSE
  PROVE  Spec => Ledger!Safe
<1>1. Init => Ledger!Init
  <2>1. Init => \A r \in Run : Life(r) = "unused" /\ r \notin Rows
    BY DEF Init, Life, Rows
  <2> QED
    BY <2>1 DEF Ledger!Init
<1>2. Inv /\ [Next]_vars => Inv' /\ [Ledger!Next]_(Ledger!vars)
  BY InvStep, LedgerMoves DEF Inv
<1> QED
  BY <1>1, <1>2, InvInit, PTL DEF Spec, Ledger!Safe

-----------------------------------------------------------------------------
(* What the ledger promises follows from its steps alone, whatever the cap *)
(* and however many entries: so a program whose steps are the ledger's     *)
(* keeps to the cap.                                                       *)

LEMMA LedgerTypeInit == Ledger!Init => Ledger!TypeOK
BY DEF Ledger!Init, Ledger!TypeOK

LEMMA LedgerTypeStep == Ledger!TypeOK /\ [Ledger!Next]_(Ledger!vars) => Ledger!TypeOK'
<1> SUFFICES ASSUME Ledger!TypeOK, [Ledger!Next]_(Ledger!vars) PROVE Ledger!TypeOK'
  OBVIOUS
<1>1. ASSUME NEW e \in Run, NEW u \in Player, Ledger!OpenRun(e, u) PROVE Ledger!TypeOK'
  BY <1>1 DEF Ledger!OpenRun, Ledger!Enter, Ledger!TypeOK
<1>2. ASSUME NEW e \in Run, NEW u \in Player, Ledger!RecordResult(e, u) PROVE Ledger!TypeOK'
  BY <1>2 DEF Ledger!RecordResult, Ledger!Enter, Ledger!TypeOK
<1>3. ASSUME NEW e \in Run, Ledger!End(e) \/ Ledger!Void(e) PROVE Ledger!TypeOK'
  BY <1>3 DEF Ledger!End, Ledger!Void, Ledger!Move, Ledger!TypeOK
<1>4. CASE UNCHANGED Ledger!vars
  BY <1>4 DEF Ledger!vars, Ledger!TypeOK
<1> QED
  BY <1>1, <1>2, <1>3, <1>4 DEF Ledger!Next

LEMMA LedgerSizes ==
  ASSUME IsFiniteSet(Run), NEW u
  PROVE  /\ IsFiniteSet(Ledger!Counting(u)) /\ IsFiniteSet(Ledger!Open(u))
         /\ Cardinality(Ledger!Counting(u)) \in Nat /\ Cardinality(Ledger!Open(u)) \in Nat
<1>1. Ledger!Counting(u) \subseteq Run /\ Ledger!Open(u) \subseteq Run
  BY DEF Ledger!Counting, Ledger!Open
<1> QED
  BY <1>1, FS_Subset, FS_CardinalityType

(* An entry adds one at most to what its player holds. *)
LEMMA OneMore ==
  ASSUME NEW S, NEW T, NEW e, IsFiniteSet(S), T \subseteq S \cup {e}
  PROVE  IsFiniteSet(T) /\ Cardinality(T) <= Cardinality(S) + 1
<1>1. IsFiniteSet(S \cup {e}) /\ Cardinality(S \cup {e}) <= Cardinality(S) + 1
  <2>1. Cardinality(S) \in Nat
    BY FS_CardinalityType
  <2>2. /\ IsFiniteSet(S \cup {e})
        /\ Cardinality(S \cup {e}) = IF e \in S THEN Cardinality(S) ELSE Cardinality(S) + 1
    BY FS_AddElement, Zenon
  <2> QED
    BY <2>1, <2>2
<1>2. Cardinality(T) <= Cardinality(S \cup {e}) /\ IsFiniteSet(T)
  BY <1>1, FS_Subset
<1> QED
  BY <1>1, <1>2, FS_CardinalityType

(* What is not added to does not grow. *)
LEMMA NoMore ==
  ASSUME NEW S, NEW T, IsFiniteSet(S), T \subseteq S
  PROVE  Cardinality(T) <= Cardinality(S)
BY FS_Subset

LEMMA LedgerStep ==
  ASSUME IsFiniteSet(Run), RunsPerPool \in Nat
  PROVE  Ledger!TypeOK /\ Ledger!LedgerInv /\ [Ledger!Next]_(Ledger!vars) => Ledger!LedgerInv'
<1> SUFFICES ASSUME Ledger!TypeOK, Ledger!LedgerInv, [Ledger!Next]_(Ledger!vars), NEW v \in Player
             PROVE  Cardinality(Ledger!Counting(v)') <= RunsPerPool /\ Cardinality(Ledger!Open(v)') <= 1
  BY SameSize DEF Ledger!LedgerInv
<1>0. /\ Cardinality(Ledger!Counting(v)) <= RunsPerPool /\ Cardinality(Ledger!Open(v)) <= 1
      /\ IsFiniteSet(Ledger!Counting(v)) /\ IsFiniteSet(Ledger!Open(v))
      /\ Cardinality(Ledger!Counting(v)) \in Nat /\ Cardinality(Ledger!Open(v)) \in Nat
  BY LedgerSizes, SameSize DEF Ledger!LedgerInv
<1>a. ASSUME Ledger!Counting(v)' \subseteq Ledger!Counting(v), Ledger!Open(v)' \subseteq Ledger!Open(v)
      PROVE  Cardinality(Ledger!Counting(v)') <= RunsPerPool /\ Cardinality(Ledger!Open(v)') <= 1
  <2>1. /\ Cardinality(Ledger!Counting(v)') <= Cardinality(Ledger!Counting(v))
        /\ Cardinality(Ledger!Open(v)') <= Cardinality(Ledger!Open(v))
        /\ Cardinality(Ledger!Counting(v)') \in Nat /\ Cardinality(Ledger!Open(v)') \in Nat
    BY <1>0, <1>a, FS_Subset, FS_CardinalityType
  <2> QED
    BY <1>0, <2>1
<1>1. ASSUME NEW e \in Run, NEW u \in Player, Ledger!OpenRun(e, u)
      PROVE  Cardinality(Ledger!Counting(v)') <= RunsPerPool /\ Cardinality(Ledger!Open(v)') <= 1
  <2>1. CASE v = u
    <3>1. Ledger!Counting(v)' \subseteq Ledger!Counting(v) \cup {e} /\ Ledger!Open(v)' \subseteq {e}
      BY <1>1, <2>1 DEF Ledger!OpenRun, Ledger!Enter, Ledger!TypeOK, Ledger!Counting, Ledger!Open
    <3>2. Cardinality(Ledger!Counting(v)') <= Cardinality(Ledger!Counting(v)) + 1
      BY <1>0, <3>1, OneMore
    <3>3. Cardinality(Ledger!Counting(v)) < RunsPerPool
      BY <1>1, <2>1, SameSize DEF Ledger!OpenRun, Ledger!HasRoom
    <3>4. IsFiniteSet({e}) /\ Cardinality({e}) = 1
      BY FS_Singleton
    <3>5. Cardinality(Ledger!Open(v)') <= 1
      BY <3>1, <3>4, NoMore
    <3>6. Cardinality(Ledger!Counting(v)') \in Nat
      BY <1>0, <3>1, OneMore, FS_CardinalityType
    <3> QED
      BY <1>0, <3>2, <3>3, <3>5, <3>6
  <2>2. CASE v # u
    <3>1. Ledger!Counting(v)' \subseteq Ledger!Counting(v) /\ Ledger!Open(v)' \subseteq Ledger!Open(v)
      BY <1>1, <2>2 DEF Ledger!OpenRun, Ledger!Enter, Ledger!TypeOK, Ledger!Counting, Ledger!Open
    <3> QED
      BY <3>1, <1>a
  <2> QED
    BY <2>1, <2>2
<1>2. ASSUME NEW e \in Run, NEW u \in Player, Ledger!RecordResult(e, u)
      PROVE  Cardinality(Ledger!Counting(v)') <= RunsPerPool /\ Cardinality(Ledger!Open(v)') <= 1
  <2>1. CASE v = u /\ Ledger!HasRoom(u)
    <3>1. Ledger!Counting(v)' \subseteq Ledger!Counting(v) \cup {e} /\ Ledger!Open(v)' \subseteq Ledger!Open(v)
      BY <1>2, <2>1 DEF Ledger!RecordResult, Ledger!Enter, Ledger!TypeOK, Ledger!Counting, Ledger!Open
    <3>2. Cardinality(Ledger!Counting(v)') <= Cardinality(Ledger!Counting(v)) + 1
      BY <1>0, <3>1, OneMore
    <3>3. Cardinality(Ledger!Counting(v)) < RunsPerPool
      BY <2>1, SameSize DEF Ledger!HasRoom
    <3>4. Cardinality(Ledger!Open(v)') <= Cardinality(Ledger!Open(v))
      BY <1>0, <3>1, NoMore
    <3>5. Cardinality(Ledger!Counting(v)') \in Nat /\ Cardinality(Ledger!Open(v)') \in Nat
      BY <1>0, <3>1, OneMore, FS_Subset, FS_CardinalityType
    <3> QED
      BY <1>0, <3>2, <3>3, <3>4, <3>5
  <2>2. CASE v # u \/ ~Ledger!HasRoom(u)
    <3>1. Ledger!Counting(v)' \subseteq Ledger!Counting(v) /\ Ledger!Open(v)' \subseteq Ledger!Open(v)
      BY <1>2, <2>2 DEF Ledger!RecordResult, Ledger!Enter, Ledger!TypeOK, Ledger!Counting, Ledger!Open
    <3> QED
      BY <3>1, <1>a
  <2> QED
    BY <2>1, <2>2
<1>3. ASSUME NEW e \in Run, Ledger!End(e) \/ Ledger!Void(e)
      PROVE  Cardinality(Ledger!Counting(v)') <= RunsPerPool /\ Cardinality(Ledger!Open(v)') <= 1
  <2>1. Ledger!Counting(v)' \subseteq Ledger!Counting(v) /\ Ledger!Open(v)' \subseteq Ledger!Open(v)
    BY <1>3 DEF Ledger!End, Ledger!Void, Ledger!Move, Ledger!TypeOK, Ledger!Counting, Ledger!Open
  <2> QED
    BY <2>1, <1>a
<1>4. CASE UNCHANGED Ledger!vars
  <2>1. Ledger!Counting(v)' \subseteq Ledger!Counting(v) /\ Ledger!Open(v)' \subseteq Ledger!Open(v)
    BY <1>4 DEF Ledger!vars, Ledger!Counting, Ledger!Open
  <2> QED
    BY <2>1, <1>a
<1> QED
  BY <1>1, <1>2, <1>3, <1>4 DEF Ledger!Next

LEMMA LedgerInit ==
  ASSUME RunsPerPool \in Nat
  PROVE  Ledger!Init => Ledger!LedgerInv
<1> SUFFICES ASSUME Ledger!Init, NEW u \in Player
             PROVE  Cardinality(Ledger!Counting(u)) <= RunsPerPool /\ Cardinality(Ledger!Open(u)) <= 1
  BY SameSize DEF Ledger!LedgerInv
<1>1. Ledger!Counting(u) = {} /\ Ledger!Open(u) = {}
  BY DEF Ledger!Init, Ledger!Counting, Ledger!Open
<1> QED
  BY <1>1, FS_EmptySet

(* In every behaviour of the ledger no player holds more counting runs     *)
(* than the pool allows, nor two open ones.                                *)
THEOREM LedgerHolds == Ledger!Safe => []Ledger!LedgerInv
<1>1. IsFiniteSet(Run) /\ RunsPerPool \in Nat
  BY IdAssumption, CountAssumption
<1>2. Ledger!Init => Ledger!TypeOK /\ Ledger!LedgerInv
  BY <1>1, LedgerTypeInit, LedgerInit
<1>3. /\ Ledger!TypeOK /\ Ledger!LedgerInv
      /\ [Ledger!Next]_(Ledger!vars)
      => Ledger!TypeOK' /\ Ledger!LedgerInv'
  BY <1>1, LedgerTypeStep, LedgerStep
<1> QED
  BY <1>2, <1>3, PTL DEF Ledger!Safe

(* What the ledger promises, the rows keep: no player has more counting    *)
(* runs than the pool allows, nor two in progress, however their draws,    *)
(* their races, the reviewers and the worker's ticks interleave.           *)
THEOREM CapKept ==
  ASSUME {"row", "cap"} \cap Conflicts = {}, AnyClaim = FALSE
  PROVE  Spec => [](\A u \in Player :
           /\ Cardinality(Valid(u)) <= RunsPerPool
           /\ Cardinality({r \in Valid(u) : run[r].status = "in_progress"}) <= 1)
<1>1. ASSUME Ledger!LedgerInv, TypeOK, NEW u \in Player
      PROVE  /\ Cardinality(Valid(u)) <= RunsPerPool
             /\ Cardinality({r \in Valid(u) : run[r].status = "in_progress"}) <= 1
  BY <1>1, CountingIsValid, SameSize DEF Ledger!LedgerInv
<1>2. Ledger!LedgerInv /\ TypeOK => \A u \in Player :
        /\ Cardinality(Valid(u)) <= RunsPerPool
        /\ Cardinality({r \in Valid(u) : run[r].status = "in_progress"}) <= 1
  BY <1>1
<1> QED
  BY <1>2, LedgerHolds, LedgerImplemented, TypeCorrect, PTL

(* The outcome of a self-paced run is never rewritten and a void run never *)
(* counts again, as long as no two requests, nor a request and the tick,   *)
(* hold the same run.                                                      *)
THEOREM EndedForGood ==
  ASSUME {"row", "cap"} \cap Conflicts = {}, AnyClaim = FALSE
  PROVE  Spec => EndedStaysEnded
<1>1. ASSUME Inv, RowsStep, NEW r \in Rows
      PROVE  /\ run[r].status \in Ended /\ run[r].race = None => run'[r].status = run[r].status
             /\ run[r].void => run'[r].void
  <2>1. CASE Still
    BY <2>1 DEF Still, Alike
  <2>2. ASSUME NEW q \in Rows, MovesOne(q)
        PROVE  /\ run[r].status \in Ended /\ run[r].race = None => run'[r].status = run[r].status
               /\ run[r].void => run'[r].void
    BY <2>2 DEF MovesOne, Alike, Forward
  <2>3. ASSUME NEW row \in RunRow, run' = [run EXCEPT ![NextRun] = row] PROVE run'[r] = run[r]
    <3>1. NextRun # r /\ r \in Run
      BY <1>1, NextNew DEF Inv, Rows
    <3> QED
      BY <1>1, <2>3, <3>1 DEF Inv, Base, TypeOK
  <2> QED
    BY <1>1, <2>1, <2>2, <2>3 DEF RowsStep, Ticks, Advances, Draws, Records
<1>2. Inv /\ [Next]_vars => /\ Inv'
                           /\ [\A r \in Rows :
                                 /\ run[r].status \in Ended /\ run[r].race = None =>
                                      run'[r].status = run[r].status
                                 /\ run[r].void => run'[r].void]_vars
  BY <1>1, InvStep
<1> QED
  BY <1>2, InvInit, PTL DEF Spec, EndedStaysEnded

-----------------------------------------------------------------------------
(* Verdicts.                                                               *)

(* A run that has had its verdict is settled and has ended, and so has one *)
(* that is about to get it.                                                *)
VerdictInv ==
  /\ \A r \in Run : verdicts[r] # 0 =>
       verdicts[r] = 1 /\ r \in Rows /\ run[r].review \in Settled /\ run[r].status \in Ended
  /\ \A w \in Busy : job[w].at = "settle" => run[job[w].run].status \in Ended

LEMMA EndedKept ==
  ASSUME Inv, RowsStep, NEW r \in Rows, run[r].status \in Ended
  PROVE  r \in Rows' /\ run'[r].status \in Ended
<1>1. ASSUME NEW row \in RunRow, run' = [run EXCEPT ![NextRun] = row]
      PROVE  run'[r] = run[r] /\ r \in Rows'
  <2>1. NextRun # r /\ r \in Run
    BY NextNew DEF Inv, Rows
  <2>2. run'[r] = run[r]
    BY <1>1, <2>1 DEF Inv, Base, TypeOK
  <2> QED
    BY <2>1, <2>2 DEF Rows
<1>2. CASE Still
  BY <1>2 DEF Still, Alike
<1>3. ASSUME NEW q \in Rows, MovesOne(q) PROVE r \in Rows' /\ run'[r].status \in Ended
  BY <1>3 DEF MovesOne, Alike, Forward
<1> QED
  BY <1>1, <1>2, <1>3 DEF RowsStep, Ticks, Advances, Draws, Records

(* A verdict is about to be written only on a run that has ended. *)
LEMMA SettlersStep ==
  ASSUME Inv, VerdictInv, RowsStep, JobStep, [Next]_vars
  PROVE  \A z \in Busy' : job'[z].at = "settle" => run'[job'[z].run].status \in Ended
<1>1. ASSUME NEW z \in Busy, job'[z] = job[z], job[z].at = "settle"
      PROVE  run'[job'[z].run].status \in Ended
  <2>1. job[z].run \in Rows /\ run[job[z].run].status \in Ended
    BY <1>1 DEF Inv, Base, Fit, VerdictInv
  <2> QED
    BY <1>1, <2>1, EndedKept
<1>2. ASSUME NEW w \in Worker, NEW j, Begins(w, j),
             j.at = "settle" => j.run \in Rows /\ run[j.run].status \in Ended
      PROVE  \A z \in Busy' : job'[z].at = "settle" => run'[job'[z].run].status \in Ended
  <2>1. job' = [job EXCEPT ![w] = j] /\ run' = run
    BY <1>2 DEF Begins, Start, Go
  <2>2. \A z \in Busy' \ {w} : z \in Busy /\ job'[z] = job[z]
    BY <2>1 DEF Inv, Base, TypeOK, Busy
  <2>3. w \in Busy' => job'[w] = j
    BY <2>1 DEF Inv, Base, TypeOK
  <2> QED
    BY <1>1, <1>2, <2>1, <2>2, <2>3
<1>3. CASE \E w \in Worker, r \in Run : SubmitRun(w, r) \/ ForfeitRun(w, r) \/ ReattemptRun(w, r)
  BY <1>2, <1>3, BeginsAs DEF Inv, Base, Request
<1>4. CASE \E w \in Worker, v \in Reviewer, r \in Run :
             GrantReattempt(w, r) \/ ClaimRun(w, v, r) \/ ReleaseClaim(w, r)
  BY <1>2, <1>4, BeginsAs DEF Inv, Base, Request
<1>5. ASSUME NEW w \in Worker, NEW v \in Reviewer, NEW r \in Run, NEW verdict \in Settled,
             ReviewRun(w, v, r, verdict)
      PROVE  \A z \in Busy' : job'[z].at = "settle" => run'[job'[z].run].status \in Ended
  <2> DEFINE j == [Request("review", "settle", r) EXCEPT !.result = verdict]
  <2>1. r \in Rows /\ Begins(w, j)
    BY <1>5, BeginsAs DEF Inv, Base
  <2>2. run[r].status \in Ended
    BY <1>5 DEF ReviewRun, Ended
  <2>3. j.run = r
    BY DEF Request
  <2> HIDE DEF j
  <2> QED
    BY <1>2, <2>1, <2>2, <2>3
<1>6. ASSUME NEW w \in Worker, NEW u \in Player, NEW x \in Race,
             NEW p \in Permalink, NEW result \in Ended, Capture(w, u, x, p, result)
      PROVE  \A z \in Busy' : job'[z].at = "settle" => run'[job'[z].run].status \in Ended
  <2> DEFINE j == CaptureOf(u, x, p, result)
  <2>1. Begins(w, j)
    BY <1>6, BeginsAs DEF Inv, Base
  <2>2. j.at = "capture"
    BY DEF CaptureOf
  <2> HIDE DEF j
  <2> QED
    BY <1>2, <2>1, <2>2
<1>7. ASSUME NEW w \in Worker, Continue(w)
      PROVE  \A z \in Busy' : job'[z].at = "settle" => run'[job'[z].run].status \in Ended
  <2>1. w \in Busy
    BY <1>7, AtBusy DEF Continue, SaveSubmitted, SaveForfeited, SaveVoided, SaveClaimed,
       SaveReleased, SaveCaptured, SettleReview, ReadApproved, WriteScores
  <2>2. \E j : job' = [job EXCEPT ![w] = j]
    BY <1>7 DEF Continue, SaveSubmitted, SaveForfeited, SaveVoided, SaveClaimed, SaveReleased,
       SaveCaptured, SettleReview, ReadApproved, WriteScores, Done, Go
  <2>3. \A z \in Worker \ {w} : job'[z] = job[z]
    BY <2>2 DEF Inv, Base, TypeOK
  <2>4. \A z \in Busy' : ~Enters(z)
    BY <2>1, <2>3 DEF Enters, Start, MayStart, Busy
  <2> QED
    BY <1>1, <2>4 DEF JobStep, Rescoring
<1>8. CASE Restart
  BY <1>8 DEF Restart, Busy
<1>9. CASE UNCHANGED job
  BY <1>1, <1>9 DEF Busy
<1>10. CASE \/ \E u \in Player, p \in Permalink : StartRun(u, p)
            \/ \E due, closing \in SUBSET InProgress : TickStart(due, closing)
            \/ TickRun \/ TickClaim
            \/ \E r \in Run : ClaimLapses(r)
            \/ UNCHANGED vars
  BY <1>9, <1>10 DEF StartRun, TickStart, TickRun, TickClaim, ClaimLapses, vars
<1> QED
  BY <1>3, <1>4, <1>5, <1>6, <1>7, <1>8, <1>10 DEF Next

LEMMA VerdictStep ==
  ASSUME Inv, VerdictInv, RowsStep, JobStep, ReviewStep, [Next]_vars,
         verdicts' = verdicts \/ \E w \in Worker : Settles(w)
  PROVE  VerdictInv'
<1>1. ASSUME NEW r \in Run, verdicts'[r] # 0
      PROVE  verdicts'[r] = 1 /\ r \in Rows' /\ run'[r].review \in Settled
             /\ run'[r].status \in Ended
  <2>1. CASE verdicts'[r] = verdicts[r]
    <3>1. verdicts[r] = 1 /\ r \in Rows /\ run[r].review \in Settled /\ run[r].status \in Ended
      BY <1>1, <2>1 DEF VerdictInv
    <3>2. run'[r].review \in Settled
      BY <3>1 DEF ReviewStep, Ended
    <3> QED
      BY <2>1, <3>1, <3>2, EndedKept
  <2>2. ASSUME NEW w \in Worker, Settles(w), verdicts'[r] # verdicts[r]
        PROVE  verdicts'[r] = 1 /\ r \in Rows' /\ run'[r].review \in Settled
               /\ run'[r].status \in Ended
    <3>1. w \in Busy /\ job[w].at = "settle" /\ verdicts \in [Run -> Nat]
      BY <2>2 DEF Settles, Inv, Base, TypeOK
    <3>2. /\ job[w].run = r /\ job[w].row.review = "pending" /\ run[r].review = "pending"
          /\ verdicts'[r] = verdicts[r] + 1 /\ run'[r].review \in Settled
      BY <2>2, <3>1 DEF Settles
    <3>3. r \in Rows /\ run[r].status \in Ended
      BY <3>1, <3>2 DEF Inv, Base, Fit, VerdictInv
    <3>4. verdicts[r] = 0
      BY <3>2 DEF VerdictInv, Settled
    <3> QED
      BY <3>2, <3>3, <3>4, EndedKept
  <2> QED
    BY <2>1, <2>2
<1> QED
  BY <1>1, SettlersStep DEF VerdictInv

(* A run gets one verdict, however many reviewers open it at the same      *)
(* time: the claim does not hold them apart, the compare-and-swap on the   *)
(* review they read does.                                                  *)
THEOREM OneVerdict ==
  ASSUME {"row", "cap"} \cap Conflicts = {}, AnyClaim = FALSE
  PROVE  Spec => []VerdictSettledOnce
<1>1. Init => VerdictInv
  BY DEF Init, VerdictInv, Busy
<1>2. Inv /\ VerdictInv /\ [Next]_vars => Inv' /\ VerdictInv'
  <2> SUFFICES ASSUME Inv, VerdictInv, [Next]_vars PROVE Inv' /\ VerdictInv'
    OBVIOUS
  <2>1. Inv' /\ RowsStep /\ ReviewStep
    BY InvStep
  <2>2. JobStep /\ (verdicts' = verdicts \/ \E w \in Worker : Settles(w))
    BY <2>1, JobsMove, ReviewsMove
  <2> QED
    BY <2>1, <2>2, VerdictStep
<1>3. VerdictInv => VerdictSettledOnce
  <2> SUFFICES ASSUME VerdictInv, NEW r \in Run PROVE verdicts[r] <= 1
    BY DEF VerdictSettledOnce
  <2>1. verdicts[r] = 0 \/ verdicts[r] = 1
    BY DEF VerdictInv
  <2> QED
    BY <2>1
<1> QED
  BY <1>1, <1>2, <1>3, InvInit, PTL DEF Spec

-----------------------------------------------------------------------------
(* What a step writes.                                                     *)

(* A run that counts for its seed's par, once it is on one. *)
Passed(x) == x.status = "finished" /\ x.review = "approved" /\ ~x.void

Kept(x, y) == x.permalink = y.permalink /\ x.granted = y.granted

(* A row that replaces another without giving the run a verdict, voiding   *)
(* it or recording a race: at most it ends a run in progress.              *)
Mild(y, x) ==
  /\ Kept(x, y) /\ x.user = y.user /\ x.race = y.race /\ x.void = y.void
  /\ \/ x.status = y.status /\ x.review = y.review /\ x.score = y.score
     \/ y.status = "in_progress" /\ ~Passed(x) /\ x.score \in {y.score, Zero}

Puts(r, x) ==
  /\ r \in Rows /\ x \in RunRow /\ Rows' = Rows
  /\ run'[r] = x /\ \A q \in Rows \ {r} : run'[q] = run[q]

Adds(x) == x \in RunRow /\ run' = [run EXCEPT ![NextRun] = x]

Ends(w) == w \in Busy /\ job' = [job EXCEPT ![w] = Idle]
GoesOn(w) == w \in Busy /\ job' = [job EXCEPT ![w] = [job[w] EXCEPT !.at = "read"]]

(* What a request that begins has read. *)
Opened(j) ==
  \/ /\ j.run \in Rows /\ j.row = run[j.run]
     /\ j.user = j.row.user /\ j.permalink = j.row.permalink
     /\ \/ j.at = "save" /\ j.kind \in {"submit", "forfeit", "claim", "release"}
        \/ /\ j.at = "save" /\ j.kind \in {"reattempt", "grant"} /\ ~j.row.void
           /\ j.kind = "reattempt" => SelfSpent(j.user) < Allowed
        \/ j.at = "settle" /\ j.kind = "review" /\ j.row.status = "finished"
  \/ /\ j.kind = "capture" /\ j.at = "capture" /\ j.race # None
     /\ \/ /\ j.run \in Rows /\ j.row = run[j.run]
           /\ j.row.permalink = j.permalink /\ j.row.user = j.user
        \/ j.run = None

(* The kinds of step there are. *)
Pauses == UNCHANGED <<run, par, job, spent, crashes>>

Opens(w) == Begins(w, job'[w]) /\ Opened(job'[w])

TickPuts ==
  /\ \E x \in tick.due \cup tick.stale, row \in RunRow :
       /\ Puts(x[1], row) /\ Mild(x[2], row)
       /\ x[1] \in Ticked' => row.score = x[2].score
  /\ UNCHANGED <<par, job, spent, crashes>>

Files(w) ==
  /\ Ends(w) /\ job[w].at = "save" /\ job[w].kind \in {"submit", "forfeit", "claim", "release"}
  /\ \E row \in RunRow : Puts(job[w].run, row) /\ Mild(job[w].row, row)
  /\ UNCHANGED <<par, spent, crashes>>

VoidsRun(w) ==
  /\ GoesOn(w) /\ job[w].at = "save" /\ job[w].kind \in {"reattempt", "grant"}
  /\ Puts(job[w].run, [job[w].row EXCEPT !.void = TRUE, !.granted = (job[w].kind = "grant"),
                                         !.score = None])
  /\ spent' = [spent EXCEPT ![job[w].user] =
                 @ + (IF job[w].kind = "reattempt" THEN 1 ELSE 0)]
  /\ UNCHANGED <<par, crashes>>

Captures(w) ==
  /\ GoesOn(w) /\ job[w].at = "capture" /\ job[w].kind = "capture"
  /\ IF job[w].row # None
     THEN job[w].run # None /\ Puts(job[w].run, Recorded(job[w]))
     ELSE job[w].run = None /\ Adds(Recorded(job[w]))
  /\ UNCHANGED <<par, spent, crashes>>

Rules(w) ==
  LET r == job[w].run
      verdict == job[w].result
  IN  /\ GoesOn(w) /\ job[w].at = "settle" /\ verdict \in Settled
      /\ run[r].review = job[w].row.review
      /\ Puts(r, [run[r] EXCEPT !.review = verdict, !.claim = None,
                                !.score = IF verdict = "rejected" THEN None ELSE @])
      /\ UNCHANGED <<par, spent, crashes>>

Misses(w) ==
  /\ Ends(w) /\ job[w].at = "settle" /\ run[job[w].run].review # job[w].row.review
  /\ UNCHANGED <<run, par, spent, crashes>>

WStep(w) ==
  \/ Opens(w) \/ Files(w) \/ VoidsRun(w) \/ Captures(w) \/ Rules(w) \/ Misses(w)
  \/ ReadApproved(w) \/ WriteScores(w)

Sorted ==
  \/ Pauses \/ TickPuts \/ Restart
  \/ \E u \in Player, p \in Permalink : StartRun(u, p)
  \/ \E w \in Worker : WStep(w)

LEMMA Putting ==
  ASSUME TypeOK, NEW r \in Rows, NEW row \in RunRow, run' = [run EXCEPT ![r] = row]
  PROVE  Puts(r, row)
<1>1. Rows' = Rows /\ \A q \in Run : run'[q] = IF q = r THEN row ELSE run[q]
  BY RowWritten
<1> QED
  BY <1>1 DEF Puts, Rows

LEMMA SortedSaves ==
  ASSUME Inv, NEW w \in Worker,
         \/ SaveSubmitted(w) \/ SaveForfeited(w) \/ SaveVoided(w) \/ SaveClaimed(w)
         \/ SaveReleased(w)
  PROVE  Files(w) \/ VoidsRun(w)
<1> DEFINE j == job[w]
<1>1. At(w, "save") /\ w \in Busy /\ j.at = "save"
  BY AtBusy DEF SaveSubmitted, SaveForfeited, SaveVoided, SaveClaimed, SaveReleased
<1>2. j \in Jobs /\ j.run \in Rows /\ j.row \in RunRow /\ TypeOK
  BY <1>1, AboutToSave DEF Inv, Base
<1>3. Held(j) /\ Holding(j)
  BY <1>1, <1>2, NullAssumption DEF Inv, JobInv, Holding, Rows
<1>4. ASSUME NEW row \in RunRow, SaveRow(w, row), Mild(j.row, row), Done(w),
             j.kind \in {"submit", "forfeit", "claim", "release"},
             UNCHANGED <<par, spent, crashes>>
      PROVE  Files(w)
  <2>1. Puts(j.run, row)
    BY <1>2, <1>4, Putting DEF SaveRow
  <2>2. Ends(w)
    BY <1>1, <1>4 DEF Ends, Done, Go
  <2> QED
    BY <1>1, <1>4, <2>1, <2>2 DEF Files
<1>5. CASE SaveSubmitted(w)
  <2> DEFINE row == [j.row EXCEPT !.status = "finished", !.review = "pending"]
  <2>1. row \in RunRow
    BY <1>2 DEF RunRow, Ended
  <2>2. j.row.status = "in_progress"
    BY <1>3, <1>5 DEF Held, SaveSubmitted
  <2>3. /\ row.user = j.row.user /\ row.void = j.row.void /\ row.review = "pending"
        /\ row.permalink = j.row.permalink /\ row.granted = j.row.granted
        /\ row.race = j.row.race /\ row.score = j.row.score
    BY <1>2 DEF RunRow
  <2>4. SaveRow(w, row) /\ Done(w) /\ j.kind = "submit" /\ UNCHANGED <<par, spent, crashes>>
    BY <1>5 DEF SaveSubmitted
  <2> HIDE DEF row
  <2>5. Mild(j.row, row)
    BY <2>2, <2>3 DEF Mild, Kept, Passed
  <2> QED
    BY <1>4, <2>1, <2>4, <2>5
<1>6. CASE SaveForfeited(w)
  <2> DEFINE row == [j.row EXCEPT !.status = "forfeit", !.review = "approved", !.score = Zero]
  <2>1. row \in RunRow
    BY <1>2 DEF RunRow, Ended, Settled, Score
  <2>2. j.row.status = "in_progress"
    BY <1>3, <1>6 DEF Held, SaveForfeited
  <2>3. /\ row.user = j.row.user /\ row.void = j.row.void /\ row.status = "forfeit"
        /\ row.permalink = j.row.permalink /\ row.granted = j.row.granted
        /\ row.race = j.row.race /\ row.score = Zero
    BY <1>2 DEF RunRow
  <2>4. SaveRow(w, row) /\ Done(w) /\ j.kind = "forfeit" /\ UNCHANGED <<par, spent, crashes>>
    BY <1>6 DEF SaveForfeited
  <2> HIDE DEF row
  <2>5. Mild(j.row, row)
    BY <2>2, <2>3 DEF Mild, Kept, Passed
  <2> QED
    BY <1>4, <2>1, <2>4, <2>5
<1>7. CASE SaveVoided(w)
  <2> DEFINE row == [j.row EXCEPT !.void = TRUE, !.granted = (j.kind = "grant"), !.score = None]
  <2>1. row \in RunRow /\ run' = [run EXCEPT ![j.run] = row]
    BY <1>2, <1>7 DEF SaveVoided, SaveRow, RunRow, Score
  <2>2. Puts(j.run, row)
    BY <1>2, <2>1, Putting
  <2> HIDE DEF row
  <2>3. GoesOn(w)
    BY <1>1, <1>7 DEF GoesOn, SaveVoided, Go
  <2> QED
    BY <1>1, <1>7, <2>2, <2>3 DEF VoidsRun, SaveVoided, row
<1>8. CASE SaveClaimed(w)
  <2> DEFINE row == [j.row EXCEPT !.claim = j.by]
  <2>1. row \in RunRow
    BY <1>2 DEF RunRow, Jobs
  <2>2. /\ row.user = j.row.user /\ row.void = j.row.void /\ row.review = j.row.review
        /\ row.permalink = j.row.permalink /\ row.granted = j.row.granted
        /\ row.race = j.row.race /\ row.score = j.row.score /\ row.status = j.row.status
    BY <1>2 DEF RunRow
  <2>3. SaveRow(w, row) /\ Done(w) /\ j.kind = "claim" /\ UNCHANGED <<par, spent, crashes>>
    BY <1>8 DEF SaveClaimed
  <2> HIDE DEF row
  <2>4. Mild(j.row, row)
    BY <2>2 DEF Mild, Kept
  <2> QED
    BY <1>4, <2>1, <2>3, <2>4
<1>9. CASE SaveReleased(w)
  <2> DEFINE row == [j.row EXCEPT !.claim = None]
  <2>1. row \in RunRow
    BY <1>2 DEF RunRow
  <2>2. /\ row.user = j.row.user /\ row.void = j.row.void /\ row.review = j.row.review
        /\ row.permalink = j.row.permalink /\ row.granted = j.row.granted
        /\ row.race = j.row.race /\ row.score = j.row.score /\ row.status = j.row.status
    BY <1>2 DEF RunRow
  <2>3. SaveRow(w, row) /\ Done(w) /\ j.kind = "release" /\ UNCHANGED <<par, spent, crashes>>
    BY <1>9 DEF SaveReleased
  <2> HIDE DEF row
  <2>4. Mild(j.row, row)
    BY <2>2 DEF Mild, Kept
  <2> QED
    BY <1>4, <2>1, <2>3, <2>4
<1> QED
  BY <1>5, <1>6, <1>7, <1>8, <1>9

LEMMA SortedCapture == ASSUME Inv, NEW w \in Worker, SaveCaptured(w) PROVE Captures(w)
<1> DEFINE j == job[w]
           row == Recorded(j)
<1>1. /\ w \in Busy /\ j \in Jobs /\ j.at = "capture" /\ Fit(j) /\ row \in RunRow
      /\ IF j.row # None
         THEN j.run \in Rows /\ run' = [run EXCEPT ![j.run] = row]
         ELSE run' = [run EXCEPT ![NextRun] = row]
  BY Capturing DEF Inv
<1>2. (j.run = None <=> j.row = None) /\ j.kind = "capture" /\ TypeOK
  BY <1>1 DEF Fit, Inv, JobInv, Held, Base
<1>3. GoesOn(w) /\ UNCHANGED <<par, spent, crashes>>
  BY <1>1 DEF SaveCaptured, Go, GoesOn
<1> HIDE DEF row
<1>4. j.row # None => Puts(j.run, row)
  BY <1>1, <1>2, Putting
<1>5. j.row = None => Adds(row)
  BY <1>1 DEF Adds
<1> QED
  BY <1>1, <1>2, <1>3, <1>4, <1>5 DEF Captures, row

LEMMA SortedSettle == ASSUME Inv, NEW w \in Worker, SettleReview(w) PROVE Rules(w) \/ Misses(w)
<1> DEFINE r == job[w].run
           verdict == job[w].result
           row == [run[r] EXCEPT !.review = verdict, !.claim = None,
                                 !.score = IF verdict = "rejected" THEN None ELSE @]
<1>1. w \in Busy /\ job[w].at = "settle"
  BY AtBusy DEF SettleReview
<1>2. job[w] \in Jobs /\ r \in Rows /\ verdict \in Settled
  BY <1>1, JobTyped DEF Inv, Base, Fit
<1>3. run[r] \in RunRow /\ r \in Run /\ TypeOK
  BY <1>2, RowTyped DEF Inv, Base
<1>4. row \in RunRow
  BY <1>2, <1>3 DEF RunRow, Score
<1>5. CASE run[r].review = job[w].row.review
  <2>1. run' = [run EXCEPT ![r] = row]
    BY <1>3, <1>5 DEF SettleReview, TypeOK
  <2>2. GoesOn(w) /\ UNCHANGED <<par, spent, crashes>>
    BY <1>1, <1>5 DEF GoesOn, SettleReview, Go
  <2>3. Puts(r, row)
    BY <1>2, <1>3, <1>4, <2>1, Putting
  <2> HIDE DEF row
  <2> QED
    BY <1>1, <1>2, <1>5, <2>2, <2>3 DEF Rules, row
<1>6. CASE run[r].review # job[w].row.review
  BY <1>1, <1>6 DEF SettleReview, Misses, Ends, Done, Go
<1> QED
  BY <1>5, <1>6

LEMMA SortedTick == ASSUME Inv, TickRun \/ TickClaim PROVE TickPuts
<1>1. TypeOK
  BY DEF Inv, Base
<1>2. CASE TickRun
  <2> DEFINE x == First(tick.due)
             row == IF x[3] THEN [x[2] EXCEPT !.status = "forfeit", !.review = "approved",
                                              !.score = Zero]
                    ELSE [x[2] EXCEPT !.warned = TRUE]
  <2>1. x \in tick.due /\ x[1] \in Run /\ x[2] \in RunRow
    BY <1>1, <1>2, Ticking
  <2>2. row \in RunRow
    BY <2>1 DEF RunRow, Ended, Settled, Score
  <2>3. run' = [run EXCEPT ![x[1]] = row] /\ UNCHANGED <<par, job, spent, crashes>>
    BY <1>2 DEF TickRun
  <2>4. /\ row.user = x[2].user /\ row.void = x[2].void /\ row.race = x[2].race
        /\ row.permalink = x[2].permalink /\ row.granted = x[2].granted
        /\ \/ row.status = x[2].status /\ row.review = x[2].review /\ row.score = x[2].score
           \/ row.status = "forfeit" /\ row.score = Zero
    BY <2>1 DEF RunRow
  <2> HIDE DEF row, x
  <2>5. x[1] \in Rows /\ x[2].status = "in_progress"
    BY <2>1 DEF Inv, TickInv, TickHeld
  <2>6. Puts(x[1], row)
    BY <1>1, <2>2, <2>3, <2>5, Putting
  <2>7. Mild(x[2], row)
    BY <2>4, <2>5 DEF Mild, Kept, Passed
  <2>8. x[1] \notin Ticked'
    <3>1. tick'.due = tick.due \ {x} /\ tick'.stale = tick.stale
      BY <1>1, <1>2 DEF TickRun, TypeOK, x
    <3>2. \A y \in tick.due \ {x} : y[1] # x[1]
      BY <2>1 DEF Inv, TickInv
    <3>3. run[x[1]].status = "in_progress"
      BY <2>1 DEF Inv, TickInv, TickHeld, Alike
    <3>4. \A y \in tick.stale : run[y[1]].status \in Ended
      BY DEF Inv, TickInv, TickHeld, Alike
    <3>5. \A y \in tick.stale : y[1] # x[1]
      BY <3>3, <3>4 DEF Ended
    <3> QED
      BY <3>1, <3>2, <3>5 DEF Ticked
  <2> QED
    BY <2>1, <2>2, <2>3, <2>6, <2>7, <2>8 DEF TickPuts
<1>3. CASE TickClaim
  <2> DEFINE x == First(tick.stale)
             row == [x[2] EXCEPT !.claim = None]
  <2>1. x \in tick.stale /\ x[1] \in Run /\ x[2] \in RunRow
    BY <1>1, <1>3, Ticking
  <2>2. row \in RunRow
    BY <2>1 DEF RunRow
  <2>3. run' = [run EXCEPT ![x[1]] = row] /\ UNCHANGED <<par, job, spent, crashes>>
    BY <1>3 DEF TickClaim
  <2>4. /\ row.user = x[2].user /\ row.void = x[2].void /\ row.race = x[2].race
        /\ row.permalink = x[2].permalink /\ row.granted = x[2].granted
        /\ row.status = x[2].status /\ row.review = x[2].review /\ row.score = x[2].score
    BY <2>1 DEF RunRow
  <2> HIDE DEF row, x
  <2>5. x[1] \in Rows
    BY <2>1 DEF Inv, TickInv, TickHeld
  <2>6. Puts(x[1], row) /\ Mild(x[2], row)
    BY <1>1, <2>2, <2>3, <2>4, <2>5, Putting DEF Mild, Kept
  <2> QED
    BY <2>1, <2>2, <2>3, <2>4, <2>6 DEF TickPuts
<1> QED
  BY <1>2, <1>3

LEMMA SortedRequest ==
  ASSUME Inv, NEW w \in Worker, NEW r \in Run
  PROVE  /\ SubmitRun(w, r) \/ ForfeitRun(w, r) \/ ReattemptRun(w, r) \/ GrantReattempt(w, r)
              \/ ReleaseClaim(w, r) => Opens(w)
         /\ \A v \in Reviewer : ClaimRun(w, v, r) => Opens(w)
         /\ \A v \in Reviewer, verdict \in Settled : ReviewRun(w, v, r, verdict) => Opens(w)
<1>1. TypeOK
  BY DEF Inv, Base
<1>2. ASSUME NEW j, Begins(w, j), Opened(j) PROVE Opens(w)
  <2>1. job'[w] = j
    BY <1>1, <1>2 DEF Begins, Start, Go, TypeOK
  <2> QED
    BY <1>2, <2>1 DEF Opens
<1>3. \A kind \in Kind, at \in {"save", "settle"} :
        LET j == Request(kind, at, r)
        IN  /\ j.kind = kind /\ j.at = at /\ j.run = r /\ j.row = run[r]
            /\ j.user = run[r].user /\ j.permalink = run[r].permalink
  BY DEF Request
<1>4. r \in InProgress => r \in Rows
  BY DEF InProgress
<1>5. Voidable(r) => r \in Rows /\ ~run[r].void
  BY DEF Voidable
<1>6. SubmitRun(w, r) => Opens(w)
  BY <1>1, <1>2, <1>3, <1>4, BeginsAs DEF Opened, Kind
<1>7. ForfeitRun(w, r) => Opens(w)
  BY <1>1, <1>2, <1>3, <1>4, BeginsAs DEF Opened, Kind
<1>8. ASSUME ReattemptRun(w, r) PROVE Opens(w)
  <2>1. SelfSpent(run[r].user) < Allowed
    BY <1>8 DEF ReattemptRun
  <2> QED
    BY <1>1, <1>2, <1>3, <1>5, <1>8, <2>1, BeginsAs DEF Opened, Kind
<1>9. GrantReattempt(w, r) => Opens(w)
  BY <1>1, <1>2, <1>3, <1>5, BeginsAs DEF Opened, Kind
<1>10. ReleaseClaim(w, r) => Opens(w)
  BY <1>1, <1>2, <1>3, BeginsAs DEF Opened, Kind
<1>11. ASSUME NEW v \in Reviewer, ClaimRun(w, v, r) PROVE Opens(w)
  <2> DEFINE j == [Request("claim", "save", r) EXCEPT !.by = v]
  <2>1. r \in Rows /\ Begins(w, j)
    BY <1>1, <1>11, BeginsAs
  <2>2. /\ j.kind = "claim" /\ j.at = "save" /\ j.run = r /\ j.row = run[r]
        /\ j.user = run[r].user /\ j.permalink = run[r].permalink
    BY DEF Request
  <2> HIDE DEF j
  <2> QED
    BY <1>2, <2>1, <2>2 DEF Opened
<1>12. ASSUME NEW v \in Reviewer, NEW verdict \in Settled, ReviewRun(w, v, r, verdict)
       PROVE  Opens(w)
  <2> DEFINE j == [Request("review", "settle", r) EXCEPT !.result = verdict]
  <2>1. r \in Rows /\ Begins(w, j)
    BY <1>1, <1>12, BeginsAs
  <2>2. /\ j.kind = "review" /\ j.at = "settle" /\ j.run = r /\ j.row = run[r]
        /\ j.user = run[r].user /\ j.permalink = run[r].permalink
    BY DEF Request
  <2>3. run[r].status = "finished"
    BY <1>12 DEF ReviewRun
  <2> HIDE DEF j
  <2> QED
    BY <1>2, <2>1, <2>2, <2>3 DEF Opened
<1> QED
  BY <1>6, <1>7, <1>8, <1>9, <1>10, <1>11, <1>12

LEMMA SortedRace ==
  ASSUME Inv, NEW w \in Worker, NEW u \in Player, NEW x \in Race,
         NEW p \in Permalink, NEW result \in Ended, Capture(w, u, x, p, result)
  PROVE  Opens(w)
<1> DEFINE j == CaptureOf(u, x, p, result)
           prior == {r \in RunsOf(u) : run[r].race = x}
           r0 == CHOOSE r \in prior : TRUE
<1>1. TypeOK
  BY DEF Inv, Base
<1>2. Begins(w, j)
  BY <1>1, BeginsAs
<1>3. job'[w] = j
  BY <1>1, <1>2 DEF Begins, Start, Go, TypeOK
<1>4. /\ j.kind = "capture" /\ j.at = "capture" /\ j.permalink = p /\ j.user = u
      /\ j.race = x /\ x # None
      /\ prior = {} => j.run = None
      /\ prior # {} => j.run = r0 /\ j.row = run[r0]
  BY NullAssumption DEF CaptureOf
<1>5. prior # {} => /\ r0 \in Rows /\ run[r0].user = u /\ run[r0].permalink = p
  BY DEF RunsOf, Capture
<1> HIDE DEF r0, j
<1>6. CASE prior = {}
  BY <1>2, <1>3, <1>4, <1>6 DEF Opened, Opens
<1>7. CASE prior # {}
  BY <1>2, <1>3, <1>4, <1>5, <1>7 DEF Opened, Opens
<1> QED
  BY <1>6, <1>7

(* Every step is of one of these kinds. *)
LEMMA StepSorted == ASSUME Inv, [Next]_vars PROVE Sorted
<1>1. ASSUME NEW w \in Worker, Continue(w) PROVE Sorted
  <2>1. CASE ReadApproved(w) \/ WriteScores(w)
    BY <2>1 DEF Sorted, WStep
  <2>2. CASE ~(ReadApproved(w) \/ WriteScores(w))
    BY <1>1, <2>2, SortedSaves, SortedCapture, SortedSettle DEF Continue, Sorted, WStep
  <2> QED
    BY <2>1, <2>2
<1>2. CASE \E u \in Player, p \in Permalink : StartRun(u, p)
  BY <1>2 DEF Sorted
<1>3. CASE \E w \in Worker, r \in Run : SubmitRun(w, r) \/ ForfeitRun(w, r) \/ ReattemptRun(w, r)
  BY <1>3, SortedRequest DEF Sorted, WStep
<1>4. CASE \E w \in Worker, v \in Reviewer, r \in Run :
             \/ GrantReattempt(w, r) \/ ClaimRun(w, v, r) \/ ReleaseClaim(w, r)
             \/ \E verdict \in Settled : ReviewRun(w, v, r, verdict)
  BY <1>4, SortedRequest DEF Sorted, WStep
<1>5. CASE \E w \in Worker, u \in Player, x \in Race, p \in Permalink, result \in Ended :
            Capture(w, u, x, p, result)
  BY <1>5, SortedRace DEF Sorted, WStep
<1>6. CASE TickRun \/ TickClaim
  BY <1>6, SortedTick DEF Sorted
<1>7. CASE Restart
  BY <1>7 DEF Sorted
<1>8. CASE \/ \E due, closing \in SUBSET InProgress : TickStart(due, closing)
           \/ \E r \in Run : ClaimLapses(r)
           \/ UNCHANGED vars
  BY <1>8 DEF TickStart, ClaimLapses, vars, Pauses, Sorted
<1> QED
  BY <1>1, <1>2, <1>3, <1>4, <1>5, <1>6, <1>7, <1>8 DEF Next

-----------------------------------------------------------------------------
(* Where a run was played, and who paid for another.                       *)

Past(j) == j.at \in {"read", "rescore"}

Turns(w) == VoidsRun(w) \/ Captures(w) \/ Rules(w)

(* A request that has written, or read again, what it had to. *)
GoesPast(w) ==
  /\ w \in Busy /\ job'[w].kind = job[w].kind /\ job'[w].run = job[w].run
  /\ job'[w].user = job[w].user /\ job'[w].permalink = job[w].permalink
  /\ \/ Turns(w) /\ job'[w].at = "read"
     \/ /\ ReadApproved(w) /\ job'[w].at = "rescore"
        /\ job'[w].seen = {<<r, run[r].score>> : r \in Approved(job[w].permalink)}

LEMMA OneMoves ==
  ASSUME Inv, NEW w \in Worker, WStep(w)
  PROVE  /\ \A z \in Busy' \ {w} : z \in Busy /\ job'[z] = job[z]
         /\ w \in Busy' => Opens(w) \/ GoesPast(w)
<1>1. TypeOK /\ job \in [Worker -> {Idle} \cup Jobs]
  BY DEF Inv, Base, TypeOK
<1>2. \E j : job' = [job EXCEPT ![w] = j]
  BY DEF WStep, Opens, Begins, Start, Go, Files, VoidsRun, Captures, Rules, Misses, Ends, GoesOn,
     ReadApproved, WriteScores, Done
<1>3. \A z \in Busy' \ {w} : z \in Busy /\ job'[z] = job[z]
  BY <1>1, <1>2 DEF Busy
<1>4. CASE Turns(w)
  <2>1. w \in Busy /\ job' = [job EXCEPT ![w] = [job[w] EXCEPT !.at = "read"]]
    BY <1>4 DEF Turns, VoidsRun, Captures, Rules, GoesOn
  <2>2. job[w] \in Jobs /\ job'[w] = [job[w] EXCEPT !.at = "read"]
    BY <1>1, <2>1 DEF Busy
  <2> QED
    BY <1>3, <1>4, <2>1, <2>2 DEF GoesPast, Jobs
<1>5. CASE ReadApproved(w)
  <2> DEFINE S == {<<r, run[r].score>> : r \in Approved(job[w].permalink)}
  <2>1. w \in Busy /\ job' = [job EXCEPT ![w] = [job[w] EXCEPT !.at = "rescore", !.seen = S]]
    BY <1>5, AtBusy DEF ReadApproved, Go
  <2>2. job[w] \in Jobs /\ job'[w] = [job[w] EXCEPT !.at = "rescore", !.seen = S]
    BY <1>1, <2>1 DEF Busy
  <2> HIDE DEF S
  <2>3. /\ job'[w].kind = job[w].kind /\ job'[w].run = job[w].run
        /\ job'[w].user = job[w].user /\ job'[w].permalink = job[w].permalink
        /\ job'[w].at = "rescore" /\ job'[w].seen = S
    BY <2>2 DEF Jobs
  <2> QED
    BY <1>3, <1>5, <2>1, <2>3 DEF GoesPast, S
<1>6. CASE Files(w) \/ Misses(w) \/ WriteScores(w)
  <2>1. job' = [job EXCEPT ![w] = Idle]
    BY <1>6 DEF Files, Misses, WriteScores, Ends, Done, Go
  <2>2. w \notin Busy'
    BY <1>1, <2>1 DEF Busy
  <2> QED
    BY <1>3, <2>2
<1> QED
  BY <1>3, <1>4, <1>5, <1>6 DEF WStep, Turns

(* A new row leaves the others as they are. *)
LEMMA Adding ==
  ASSUME Inv, NEW x, Adds(x)
  PROVE  /\ Rows \subseteq Rows' /\ \A r \in Rows : run'[r] = run[r]
         /\ \A q \in Rows' \ Rows : q = NextRun /\ run'[q] = x
<1>1. \A q \in Run : run'[q] = IF q = NextRun THEN x ELSE run[q]
  BY RowAdded DEF Inv, Base, Adds
<1>2. NextRun \notin Rows
  BY NextNew DEF Inv
<1> QED
  BY <1>1, <1>2, RowAssumption DEF Rows, Adds

Drawn(u, p) ==
  [user |-> u, permalink |-> p, race |-> None, status |-> "in_progress",
   review |-> "pending", void |-> FALSE, granted |-> FALSE, score |-> None,
   claim |-> None, warned |-> FALSE]

LEMMA Drawing ==
  ASSUME NEW u \in Player, NEW p \in Permalink, StartRun(u, p)
  PROVE  /\ Adds(Drawn(u, p))
         /\ \A r \in Valid(u) : run[r].permalink # p
         /\ UNCHANGED <<par, job, spent, crashes>>
<1>1. Drawn(u, p) \in RunRow
  BY DEF Drawn, RunRow, Score
<1> QED
  BY <1>1 DEF StartRun, Drawn, Adds, Draw, Candidates, Unplayed, OpenSeeds

(* A row that was read still tells where the run was played and whether it *)
(* was granted.                                                            *)
KeptInv ==
  /\ \A w \in Busy : Holding(job[w]) => Kept(job[w].row, run[job[w].run])
  /\ \A w \in Busy : job[w].run # None => run[job[w].run].permalink = job[w].permalink
  /\ \A w \in Busy : job[w].at = "settle" => job[w].kind = "review"
  /\ \A x \in tick.due \cup tick.stale : Kept(x[2], run[x[1]])

(* A run stays its player's, on its seed; only a request about it grants   *)
(* another, and only once.                                                 *)
RowsKept ==
  \A r \in Rows :
    /\ r \in Rows'
    /\ run'[r].user = run[r].user /\ run'[r].race = run[r].race
    /\ run'[r].permalink = run[r].permalink /\ (run[r].void => run'[r].void)
    /\ run'[r].granted = run[r].granted \/ \E w \in Worker : VoidsRun(w) /\ job[w].run = r

(* The row a request writes back is the one it holds. *)
LEMMA Writing ==
  ASSUME Inv, KeptInv, NEW w \in Worker, Files(w) \/ VoidsRun(w) \/ (Captures(w) /\ job[w].row # None)
  PROVE  /\ w \in Busy /\ job[w] \in Jobs /\ Holding(job[w]) /\ Held(job[w])
         /\ job[w].run \in Rows /\ job[w].row \in RunRow /\ run[job[w].run] \in RunRow
         /\ Alike(job[w].row, run[job[w].run]) /\ job[w].row.review = run[job[w].run].review
         /\ Kept(job[w].row, run[job[w].run]) /\ job[w].row.user = job[w].user
<1>1. w \in Busy /\ job[w].at \in {"save", "capture"}
  BY DEF Files, VoidsRun, Captures, Ends, GoesOn
<1>2. job[w] \in Jobs /\ Fit(job[w]) /\ Held(job[w]) /\ TypeOK
  BY <1>1, JobTyped DEF Inv, Base, JobInv
<1>3. job[w].run \in Rows
  BY DEF Files, VoidsRun, Captures, Puts
<1>4. Holding(job[w]) /\ job[w].row # None
  BY <1>1, <1>2, <1>3, NullAssumption DEF Holding, Rows, Fit
<1>5. job[w].row \in RunRow /\ run[job[w].run] \in RunRow
  BY <1>2, <1>3, <1>4, RowTyped DEF Jobs
<1> QED
  BY <1>1, <1>2, <1>3, <1>4, <1>5 DEF Held, KeptInv

LEMMA RowsKeptStep == ASSUME Inv, KeptInv, Sorted PROVE RowsKept
<1> DEFINE Same(r, y) == /\ y.user = run[r].user /\ y.race = run[r].race
                         /\ y.permalink = run[r].permalink /\ (run[r].void => y.void)
<1>1. ASSUME \A r \in Rows : r \in Rows' /\ run'[r] = run[r] PROVE RowsKept
  BY <1>1 DEF RowsKept
<1>2. ASSUME NEW r \in Rows, NEW y \in RunRow, Puts(r, y), Same(r, y),
             y.granted = run[r].granted \/ \E w \in Worker : VoidsRun(w) /\ job[w].run = r
      PROVE  RowsKept
  BY <1>2 DEF RowsKept, Puts
<1>3. CASE UNCHANGED run
  BY <1>1, <1>3 DEF Rows
<1>4. CASE TickPuts
  <2>1. PICK x \in tick.due \cup tick.stale, row \in RunRow : Puts(x[1], row) /\ Mild(x[2], row)
    BY <1>4 DEF TickPuts
  <2>2. Alike(x[2], run[x[1]]) /\ Kept(x[2], run[x[1]])
    BY DEF Inv, TickInv, TickHeld, KeptInv
  <2> QED
    BY <1>2, <2>1, <2>2 DEF Puts, Mild, Kept, Alike
<1>5. ASSUME NEW u \in Player, NEW p \in Permalink, StartRun(u, p) PROVE RowsKept
  BY <1>1, <1>5, Drawing, Adding
<1>6. ASSUME NEW w \in Worker, WStep(w) PROVE RowsKept
  <2>1. CASE Opens(w) \/ Misses(w) \/ ReadApproved(w)
    BY <1>3, <2>1 DEF Opens, Begins, Misses, ReadApproved
  <2>2. CASE Files(w)
    <3>1. PICK row \in RunRow : Puts(job[w].run, row) /\ Mild(job[w].row, row)
      BY <2>2 DEF Files
    <3> QED
      BY <1>2, <2>2, <3>1, Writing DEF Mild, Kept, Alike
  <2>3. CASE VoidsRun(w)
    <3> DEFINE row == [job[w].row EXCEPT !.void = TRUE, !.granted = (job[w].kind = "grant"),
                                         !.score = None]
    <3>1. job[w].row \in RunRow /\ Puts(job[w].run, row)
      BY <2>3, Writing DEF VoidsRun
    <3>2. /\ row.user = job[w].row.user /\ row.race = job[w].row.race
          /\ row.permalink = job[w].row.permalink /\ row.void
      BY <3>1 DEF RunRow
    <3> HIDE DEF row
    <3>3. Same(job[w].run, row)
      BY <2>3, <3>2, Writing DEF Kept, Alike
    <3>4. row \in RunRow /\ job[w].run \in Rows
      BY <3>1 DEF Puts
    <3> QED
      BY <1>2, <2>3, <3>1, <3>3, <3>4
  <2>4. CASE Captures(w) /\ job[w].row # None
    <3> DEFINE row == Recorded(job[w])
    <3>1. job[w].row \in RunRow /\ Puts(job[w].run, row)
      BY <2>4, Writing DEF Captures
    <3>2. /\ row.user = job[w].row.user /\ row.race = job[w].row.race
          /\ row.permalink = job[w].row.permalink /\ row.granted = job[w].row.granted
          /\ (job[w].row.void => row.void)
      BY <2>4, <3>1 DEF RunRow, Recorded
    <3> HIDE DEF row
    <3>3. Same(job[w].run, row) /\ row.granted = run[job[w].run].granted
      BY <2>4, <3>2, Writing DEF Kept, Alike
    <3>4. row \in RunRow /\ job[w].run \in Rows
      BY <3>1 DEF Puts
    <3> QED
      BY <1>2, <3>1, <3>3, <3>4
  <2>5. CASE Captures(w) /\ job[w].row = None
    BY <1>1, <2>5, Adding DEF Captures
  <2>6. CASE Rules(w)
    <3> DEFINE r == job[w].run
               row == [run[r] EXCEPT !.review = job[w].result, !.claim = None,
                                     !.score = IF job[w].result = "rejected" THEN None ELSE @]
    <3>1. Puts(r, row)
      BY <2>6 DEF Rules
    <3>2. r \in Rows /\ row \in RunRow /\ run[r] \in RunRow
      BY <3>1, RowTyped DEF Puts, Inv, Base
    <3>3. Same(r, row) /\ row.granted = run[r].granted
      BY <3>2 DEF RunRow
    <3> HIDE DEF row, r
    <3> QED
      BY <1>2, <3>1, <3>2, <3>3
  <2>7. CASE WriteScores(w)
    <3>1. ASSUME NEW r \in Rows
          PROVE  Same(r, run'[r]) /\ run'[r].granted = run[r].granted /\ r \in Rows'
      <4>1. r \in Run /\ run[r] \in RunRow
        BY RowTyped DEF Inv, Base
      <4>2. /\ r \in Rows'
            /\ run'[r] = run[r] \/ run'[r] = [run[r] EXCEPT !.score = Against(SeenRuns(w))]
        BY <2>7, <4>1, Scores DEF Inv
      <4> QED
        BY <4>1, <4>2 DEF RunRow
    <3> QED
      BY <3>1 DEF RowsKept
  <2> QED
    BY <1>6, <2>1, <2>2, <2>3, <2>4, <2>5, <2>6, <2>7 DEF WStep
<1> QED
  BY <1>3, <1>4, <1>5, <1>6 DEF Sorted, Pauses, Restart

LEMMA KeptStep ==
  ASSUME {"row", "cap"} \cap Conflicts = {}, Inv, KeptInv, [Next]_vars, Sorted, RowsKept
  PROVE  KeptInv'
<1> DEFINE Fine(z) == /\ Holding(job'[z]) => Kept(job'[z].row, run'[job'[z].run])
                      /\ job'[z].run # None => run'[job'[z].run].permalink = job'[z].permalink
                      /\ job'[z].at = "settle" => job'[z].kind = "review"
<1>1. ASSUME NEW z \in Busy, job'[z] = job[z] PROVE Fine(z)
  <2>1. job[z].run # None => job[z].run \in Rows
    BY DEF Inv, Base, Fit
  <2>2. job'[z].run # None => run'[job'[z].run].permalink = job'[z].permalink
    BY <1>1, <2>1 DEF KeptInv, RowsKept
  <2>3. ASSUME Holding(job[z]) PROVE run'[job[z].run].granted = run[job[z].run].granted
    <3>1. job[z].run \in Rows /\ job[z].run # None /\ job[z].kind # "review"
      BY <2>1, <2>3 DEF Holding, Inv, JobInv, Held
    <3>2. ASSUME NEW w \in Worker, VoidsRun(w), job[w].run = job[z].run PROVE FALSE
      <4>1. w \in Busy /\ job[w].at = "save" /\ job'[w] # job[w]
        <5>1. w \in Busy /\ job[w].at = "save" /\ job'[w] = [job[w] EXCEPT !.at = "read"]
          BY <3>2 DEF VoidsRun, GoesOn, Inv, Base, TypeOK
        <5>2. job[w] \in Jobs
          BY <5>1, JobTyped DEF Inv, Base
        <5> QED
          BY <5>1, <5>2 DEF Jobs
      <4>2. w # z
        BY <1>1, <4>1
      <4> QED
        BY <3>1, <3>2, <4>1, <4>2 DEF Inv, ApartInv, Apart
    <3> QED
      BY <3>1, <3>2 DEF RowsKept
  <2>4. Holding(job'[z]) => Kept(job'[z].row, run'[job'[z].run])
    BY <1>1, <2>1, <2>3 DEF KeptInv, RowsKept, Kept, Holding
  <2> QED
    BY <1>1, <2>2, <2>4 DEF KeptInv
<1>2. ASSUME NEW w \in Worker, Opens(w) PROVE Fine(w)
  BY <1>2, NullAssumption DEF Opens, Begins, Opened, Kept, Holding
<1>3. ASSUME NEW w \in Worker, GoesPast(w) PROVE Fine(w)
  <2>1. job'[w].at \in {"read", "rescore"}
    BY <1>3 DEF GoesPast
  <2>2. job[w].run # None => job[w].run \in Rows /\ run[job[w].run].permalink = job[w].permalink
    BY <1>3 DEF Inv, Base, Fit, KeptInv, GoesPast
  <2> QED
    BY <1>3, <2>1, <2>2 DEF GoesPast, Holding, RowsKept
<1>4. \A z \in Busy' : Fine(z)
  <2>1. CASE UNCHANGED job
    BY <1>1, <2>1 DEF Busy
  <2>2. CASE Restart
    BY <2>2 DEF Restart, Busy
  <2>3. ASSUME NEW w \in Worker, WStep(w) PROVE \A z \in Busy' : Fine(z)
    BY <1>1, <1>2, <1>3, <2>3, OneMoves
  <2> QED
    BY <2>1, <2>2, <2>3, Drawing DEF Sorted, Pauses, TickPuts
<1>5. \A x \in tick'.due \cup tick'.stale : Kept(x[2], run'[x[1]])
  <2>1. CASE tick'.due \subseteq tick.due /\ tick'.stale \subseteq tick.stale
    <3>1. ASSUME NEW x \in tick'.due \cup tick'.stale PROVE Kept(x[2], run'[x[1]])
      <4>1. x[1] \in Rows /\ x[1] \in Ticked /\ Kept(x[2], run[x[1]])
        BY <2>1, <3>1 DEF Inv, TickInv, TickHeld, KeptInv, Ticked
      <4>2. ASSUME NEW w \in Worker, VoidsRun(w), job[w].run = x[1] PROVE FALSE
        BY <4>1, <4>2 DEF VoidsRun, GoesOn, Inv, ApartInv
      <4> QED
        BY <4>1, <4>2 DEF RowsKept, Kept
    <3> QED
      BY <3>1
  <2>2. CASE /\ UNCHANGED <<run, job>>
             /\ \A x \in tick'.due \cup tick'.stale : x[2] = run[x[1]]
    BY <2>2 DEF Kept
  <2> QED
    BY <2>1, <2>2, TickedKept
<1> QED
  BY <1>4, <1>5 DEF KeptInv

-----------------------------------------------------------------------------
(* No draw of a seed the player has.                                       *)

(* What a capture is about to enter is of its race. *)
SeedInv ==
  /\ \A w \in Busy : job[w].at = "capture" => job[w].race # None
  /\ NoSeedDrawnTwice

(* What a capture that enters a new row writes. *)
LEMMA Racing ==
  ASSUME Inv, NEW w \in Worker, Captures(w), job[w].row = None
  PROVE  /\ w \in Busy /\ job[w].at = "capture" /\ job[w].run = None /\ Adds(Recorded(job[w]))
         /\ Recorded(job[w]).user = job[w].user /\ Recorded(job[w]).race = job[w].race
         /\ Recorded(job[w]).permalink = job[w].permalink
         /\ Recorded(job[w]).void = job[w].over /\ ~Recorded(job[w]).granted
         /\ Recorded(job[w]).score \in {None, Zero}
<1>1. w \in Busy /\ job[w].at = "capture" /\ job[w].run = None /\ Adds(Recorded(job[w]))
  BY DEF Captures, GoesOn
<1> QED
  BY <1>1 DEF Recorded

(* Only a draw and a race's result enter a new row. *)
LEMMA SameRuns ==
  ASSUME Inv, NEW w \in Worker, WStep(w)
  PROVE  Rows' = Rows \/ (Captures(w) /\ job[w].row = None)
<1>1. CASE WriteScores(w)
  BY <1>1, Scores DEF Inv
<1>2. CASE Opens(w) \/ Misses(w) \/ ReadApproved(w)
  BY <1>2 DEF Opens, Begins, Misses, ReadApproved, Rows
<1>3. CASE Files(w) \/ VoidsRun(w) \/ Captures(w) \/ Rules(w)
  BY <1>3 DEF Files, VoidsRun, Captures, Rules, Puts
<1> QED
  BY <1>1, <1>2, <1>3 DEF WStep

(* A new row comes after every row there is. *)
LEMMA NextAfter == ASSUME Inv, NEW r \in Rows PROVE ~(NextRun < r)
<1>1. /\ Cardinality(Rows) \in Nat /\ r \in Int /\ r <= Cardinality(Rows)
  BY RowsFinite, Ids DEF Inv, RunInv, Rows
<1> QED
  BY <1>1 DEF NextRun

LEMMA SeedsStep == ASSUME Inv, SeedInv, Sorted, RowsKept PROVE NoSeedDrawnTwice'
<1>1. ASSUME Rows' = Rows PROVE NoSeedDrawnTwice'
  <2>1. \A u \in Player : Valid(u)' \subseteq Valid(u)
    BY <1>1 DEF RowsKept, Valid, RunsOf
  <2>2. \A u \in Player : \A r \in Valid(u) : r \in Rows
    BY DEF Valid, RunsOf
  <2> QED
    BY <2>1, <2>2 DEF NoSeedDrawnTwice, SeedInv, RowsKept
<1>2. ASSUME NEW x, Adds(x),
             x.race = None => \A r \in Valid(x.user) : run[r].permalink # x.permalink
      PROVE  NoSeedDrawnTwice'
  <2>1. \A r \in Rows : r \in Rows' /\ run'[r] = run[r]
    BY <1>2, Adding
  <2>2. \A q \in Rows' \ Rows : q = NextRun /\ run'[q] = x
    BY <1>2, Adding
  <2>3. ASSUME NEW u \in Player, NEW r \in Valid(u)', NEW q \in Valid(u)',
               r < q, run'[r].permalink = run'[q].permalink
        PROVE  run'[q].race # None
    <3>1. /\ r \in Rows' /\ run'[r].user = u /\ ~run'[r].void
          /\ q \in Rows' /\ run'[q].user = u /\ ~run'[q].void
      BY <2>3 DEF Valid, RunsOf
    <3>2. CASE r \in Rows /\ q \in Rows
      BY <2>1, <2>3, <3>1, <3>2 DEF NoSeedDrawnTwice, SeedInv, Valid, RunsOf
    <3>3. CASE r \in Rows /\ q \notin Rows
      <4>1. run'[q] = x /\ x.user = u /\ run'[r] = run[r] /\ r \in Valid(u)
        BY <2>1, <2>2, <3>1, <3>3 DEF Valid, RunsOf
      <4> QED
        BY <1>2, <2>3, <4>1
    <3>4. CASE r \notin Rows /\ q \in Rows
      BY <2>2, <2>3, <3>1, <3>4, NextAfter
    <3>5. CASE r \notin Rows /\ q \notin Rows
      <4>1. r = NextRun /\ q = NextRun /\ NextRun \in Int
        BY <2>2, <3>1, <3>5, RowsFinite DEF NextRun
      <4> QED
        BY <2>3, <4>1
    <3> QED
      BY <3>2, <3>3, <3>4, <3>5
  <2> QED
    BY <2>3 DEF NoSeedDrawnTwice
<1>3. ASSUME NEW u \in Player, NEW p \in Permalink, StartRun(u, p) PROVE NoSeedDrawnTwice'
  <2> DEFINE x == Drawn(u, p)
  <2>1. x.user = u /\ x.permalink = p
    BY DEF Drawn
  <2>2. Adds(x) /\ \A r \in Valid(u) : run[r].permalink # p
    BY <1>3, Drawing
  <2> HIDE DEF x
  <2> QED
    BY <1>2, <2>1, <2>2
<1>4. ASSUME NEW w \in Worker, Captures(w), job[w].row = None PROVE NoSeedDrawnTwice'
  <2> DEFINE x == Recorded(job[w])
  <2>1. w \in Busy /\ job[w].at = "capture" /\ Adds(x) /\ x.race = job[w].race
    BY <1>4, Racing
  <2> HIDE DEF x
  <2> QED
    BY <1>2, <2>1 DEF SeedInv
<1>5. \/ Rows' = Rows
      \/ \E u \in Player, p \in Permalink : StartRun(u, p)
      \/ \E w \in Worker : Captures(w) /\ job[w].row = None
  BY SameRuns DEF Sorted, Pauses, TickPuts, Restart, Puts, Rows
<1> QED
  BY <1>1, <1>3, <1>4, <1>5

LEMMA RacersStep == ASSUME Inv, SeedInv, Sorted
  PROVE  \A w \in Busy' : job'[w].at = "capture" => job'[w].race # None
<1> DEFINE Fine(z) == job'[z].at = "capture" => job'[z].race # None
<1>1. ASSUME NEW z \in Busy, job'[z] = job[z] PROVE Fine(z)
  BY <1>1 DEF SeedInv
<1>2. ASSUME NEW w \in Worker, Opens(w) PROVE Fine(w)
  BY <1>2 DEF Opens, Opened
<1>3. ASSUME NEW w \in Worker, GoesPast(w) PROVE Fine(w)
  BY <1>3 DEF GoesPast
<1>4. ASSUME NEW w \in Worker, WStep(w) PROVE \A z \in Busy' : Fine(z)
  BY <1>1, <1>2, <1>3, <1>4, OneMoves
<1>5. CASE UNCHANGED job \/ Restart
  BY <1>1, <1>5 DEF Restart, Busy
<1> QED
  BY <1>4, <1>5, Drawing DEF Sorted, Pauses, TickPuts

LEMMA SeedStep == ASSUME Inv, SeedInv, Sorted, RowsKept PROVE SeedInv'
BY SeedsStep, RacersStep DEF SeedInv

LEMMA KeptSteps ==
  ASSUME {"row", "cap"} \cap Conflicts = {}, AnyClaim = FALSE
  PROVE  /\ Init => KeptInv
         /\ Inv /\ KeptInv /\ [Next]_vars => Inv' /\ KeptInv' /\ Sorted /\ RowsKept
<1>1. Init => KeptInv
  BY DEF Init, KeptInv, Busy
<1>2. Inv /\ KeptInv /\ [Next]_vars => Inv' /\ KeptInv' /\ Sorted /\ RowsKept
  BY InvStep, StepSorted, RowsKeptStep, KeptStep
<1> QED
  BY <1>1, <1>2

(* Of two counting runs of a player on one seed the later is a race's: no  *)
(* draw offers a seed the player has, whether they drew or raced it,       *)
(* however draws, captures of any race on any seed and reattempts          *)
(* interleave.                                                             *)
THEOREM SeedsApart ==
  ASSUME {"row", "cap"} \cap Conflicts = {}, AnyClaim = FALSE
  PROVE  Spec => []NoSeedDrawnTwice
<1>1. Init => SeedInv
  BY DEF Init, SeedInv, Busy, Rows, NoSeedDrawnTwice, Valid, RunsOf
<1>2. Inv /\ KeptInv /\ SeedInv /\ [Next]_vars => Inv' /\ KeptInv' /\ SeedInv'
  BY KeptSteps, SeedStep
<1>3. SeedInv => NoSeedDrawnTwice
  BY DEF SeedInv
<1> QED
  BY <1>1, <1>2, <1>3, InvInit, KeptSteps, PTL DEF Spec

-----------------------------------------------------------------------------
(* A player's own reattempts.                                              *)

(* The reattempts a player got are among their void runs, and one that is  *)
(* about to be given is still within the allowance.                        *)
AllowInv ==
  /\ \A u \in Player : spent[u] <= SelfSpent(u) /\ spent[u] <= Allowed
  /\ \A w \in Busy : job[w].at = "save" /\ job[w].kind \in {"reattempt", "grant"} =>
       /\ ~job[w].row.void
       /\ job[w].kind = "reattempt" => spent[job[w].user] < Allowed
  /\ \A w, v \in Busy : job[w].kind = "reattempt" /\ job[v].kind = "reattempt" =>
       w = v \/ job[w].user # job[v].user

SpentOn(u) == {r \in RunsOf(u) : run[r].void /\ ~run[r].granted}

LEMMA SpentSize ==
  ASSUME NEW u
  PROVE  /\ SelfSpent(u) = Cardinality(SpentOn(u)) /\ SelfSpent(u)' = Cardinality(SpentOn(u)')
         /\ IsFiniteSet(SpentOn(u)) /\ IsFiniteSet(SpentOn(u)')
         /\ Cardinality(SpentOn(u)) \in Nat /\ Cardinality(SpentOn(u)') \in Nat
<1>1. SpentOn(u) \subseteq Run /\ SpentOn(u)' \subseteq Run
  BY DEF SpentOn, RunsOf, Rows
<1>2. IsFiniteSet(SpentOn(u)) /\ IsFiniteSet(SpentOn(u)')
  BY <1>1, IdAssumption, FS_Subset
<1>3. SelfSpent(u) = Cardinality(SpentOn(u)) /\ SelfSpent(u)' = Cardinality(SpentOn(u)')
  BY DEF SelfSpent, SpentOn
<1> QED
  BY <1>2, <1>3, FS_CardinalityType

(* A void run is no longer voided: what was spent stays spent. *)
LEMMA SpentGrows ==
  ASSUME Inv, KeptInv, AllowInv, RowsKept, NEW u \in Player
  PROVE  SpentOn(u) \subseteq SpentOn(u)'
<1> SUFFICES ASSUME NEW r \in SpentOn(u) PROVE r \in SpentOn(u)'
  OBVIOUS
<1>1. r \in Rows /\ run[r].user = u /\ run[r].void /\ ~run[r].granted
  BY DEF SpentOn, RunsOf
<1>2. ASSUME NEW w \in Worker, VoidsRun(w), job[w].run = r PROVE FALSE
  <2>1. w \in Busy /\ ~job[w].row.void
    BY <1>2 DEF VoidsRun, GoesOn, AllowInv
  <2>2. job[w].row.void = run[r].void
    BY <1>2, Writing DEF Alike
  <2> QED
    BY <1>1, <2>1, <2>2
<1> QED
  BY <1>1, <1>2 DEF RowsKept, SpentOn, RunsOf

LEMMA SpentStep ==
  ASSUME Inv, KeptInv, AllowInv, Sorted, RowsKept
  PROVE  \A u \in Player : spent'[u] <= SelfSpent(u)' /\ spent'[u] <= Allowed
<1>1. spent \in [Player -> Nat] /\ Allowed \in Nat
  BY CountAssumption DEF Inv, Base, TypeOK
<1>2. ASSUME NEW u \in Player, spent'[u] = spent[u]
      PROVE  spent'[u] <= SelfSpent(u)' /\ spent'[u] <= Allowed
  <2>1. Cardinality(SpentOn(u)) <= Cardinality(SpentOn(u)')
    BY SpentGrows, SpentSize, FS_Subset
  <2> QED
    BY <1>1, <1>2, <2>1, SpentSize DEF AllowInv
<1>3. ASSUME NEW w \in Worker, VoidsRun(w), job[w].kind = "reattempt", NEW u \in Player,
             u = job[w].user
      PROVE  spent'[u] <= SelfSpent(u)' /\ spent'[u] <= Allowed
  <2> DEFINE r == job[w].run
             row == [job[w].row EXCEPT !.void = TRUE, !.granted = (job[w].kind = "grant"),
                                       !.score = None]
  <2>1. /\ w \in Busy /\ job[w].row \in RunRow /\ r \in Rows /\ job[w].row.user = u
        /\ Alike(job[w].row, run[r])
    BY <1>3, Writing
  <2>2. ~job[w].row.void /\ spent[u] < Allowed
    BY <1>3, <2>1 DEF AllowInv, VoidsRun
  <2>3. run'[r] = row /\ r \in Rows'
    BY <1>3 DEF VoidsRun, Puts
  <2>4. row.user = u /\ row.void /\ ~row.granted
    BY <1>3, <2>1 DEF RunRow
  <2> HIDE DEF row, r
  <2>5. r \notin SpentOn(u) /\ r \in SpentOn(u)'
    BY <2>1, <2>2, <2>3, <2>4 DEF SpentOn, RunsOf, Alike
  <2>6. SpentOn(u) \cup {r} \subseteq SpentOn(u)'
    BY <2>5, SpentGrows
  <2>7. Cardinality(SpentOn(u) \cup {r}) = Cardinality(SpentOn(u)) + 1
    BY <2>5, SpentSize, FS_AddElement
  <2>8. Cardinality(SpentOn(u) \cup {r}) <= Cardinality(SpentOn(u)')
    BY <2>6, SpentSize, FS_Subset
  <2>9. spent'[u] = spent[u] + 1
    BY <1>1, <1>3 DEF VoidsRun
  <2>10. spent[u] <= Cardinality(SpentOn(u))
    BY SpentSize DEF AllowInv
  <2> QED
    BY <1>1, <2>2, <2>7, <2>8, <2>9, <2>10, SpentSize
<1>4. ASSUME NEW w \in Worker, VoidsRun(w), NEW u \in Player,
             job[w].kind # "reattempt" \/ u # job[w].user
      PROVE  spent'[u] = spent[u]
  BY <1>1, <1>4 DEF VoidsRun
<1>5. UNCHANGED spent \/ \E w \in Worker : VoidsRun(w)
  BY Drawing DEF Sorted, WStep, Pauses, TickPuts, Restart, Opens, Begins, Files, Captures, Rules,
     Misses, ReadApproved, WriteScores
<1> QED
  BY <1>2, <1>3, <1>4, <1>5

LEMMA AllowStep ==
  ASSUME {"row", "cap", "allowance"} \cap Conflicts = {}, Inv, KeptInv, AllowInv, Sorted, RowsKept,
         Base'
  PROVE  AllowInv'
<1>1. /\ job \in [Worker -> {Idle} \cup Jobs] /\ spent \in [Player -> Nat] /\ Allowed \in Nat
      /\ \A z \in Busy : job[z] \in Jobs /\ z \in Worker
  BY CountAssumption DEF Inv, Base, TypeOK, Busy
<1> DEFINE About(z) == job'[z].at = "save" /\ job'[z].kind \in {"reattempt", "grant"} =>
             /\ ~job'[z].row.void
             /\ job'[z].kind = "reattempt" => spent'[job'[z].user] < Allowed
           Own(y, z) == job'[y].kind = "reattempt" /\ job'[z].kind = "reattempt" =>
             y = z \/ job'[y].user # job'[z].user
           Stays(z) == z \in Busy /\ job'[z].kind = job[z].kind /\ job'[z].user = job[z].user
<1>2. ASSUME NEW z \in Busy, job'[z] = job[z] PROVE About(z)
  <2>1. ASSUME job[z].at = "save", job[z].kind = "reattempt"
        PROVE  spent'[job[z].user] = spent[job[z].user]
    <3>1. job[z].user \in Player
      BY <1>1 DEF Jobs
    <3>2. CASE UNCHANGED spent
      BY <3>2
    <3>3. ASSUME NEW w \in Worker, VoidsRun(w) PROVE spent'[job[z].user] = spent[job[z].user]
      <4>1. w \in Busy /\ job[w].at = "save" /\ job'[w] = [job[w] EXCEPT !.at = "read"]
        BY <1>1, <3>3 DEF VoidsRun, GoesOn
      <4>2. w # z
        BY <1>1, <1>2, <4>1 DEF Jobs
      <4>3. job[w].kind = "reattempt" => job[w].user # job[z].user
        BY <2>1, <4>1, <4>2 DEF AllowInv
      <4> QED
        BY <1>1, <3>1, <3>3, <4>3 DEF VoidsRun
    <3>4. UNCHANGED spent \/ \E w \in Worker : VoidsRun(w)
      BY Drawing DEF Sorted, WStep, Pauses, TickPuts, Restart, Opens, Begins, Files, Captures, Rules,
         Misses, ReadApproved, WriteScores
    <3> QED
      BY <3>2, <3>3, <3>4
  <2> QED
    BY <1>2, <2>1 DEF AllowInv
<1>3. ASSUME NEW w \in Worker, Opens(w)
      PROVE  About(w) /\ \A v \in Busy' : Own(w, v) /\ Own(v, w)
  <2> DEFINE j == job'[w]
  <2>1. /\ Opened(j) /\ MayStart(w, j) /\ UNCHANGED spent /\ job' = [job EXCEPT ![w] = j]
        /\ j \in Jobs
    BY <1>3 DEF Opens, Begins, Start, Go
  <2>2. About(w)
    <3>1. ASSUME j.at = "save", j.kind \in {"reattempt", "grant"}
          PROVE  ~j.row.void /\ (j.kind = "reattempt" => SelfSpent(j.user) < Allowed)
      BY <2>1, <3>1 DEF Opened
    <3>2. j.user \in Player
      BY <2>1 DEF Jobs
    <3>3. spent[j.user] <= SelfSpent(j.user) /\ SelfSpent(j.user) \in Nat /\ spent[j.user] \in Nat
      BY <1>1, <3>2, SpentSize DEF AllowInv
    <3> HIDE DEF j
    <3>4. j.at = "save" /\ j.kind \in {"reattempt", "grant"} =>
            ~j.row.void /\ (j.kind = "reattempt" => spent[j.user] < Allowed)
      BY <1>1, <3>1, <3>3
    <3> QED
      BY <2>1, <3>4 DEF j
  <2>3. ASSUME NEW v \in Busy', v # w PROVE Own(w, v) /\ Own(v, w)
    <3>1. v \in Busy /\ job'[v] = job[v]
      BY <1>1, <2>1, <2>3 DEF Busy
    <3>2. ~(j.kind = "reattempt" /\ job[v].kind = "reattempt" /\ j.user = job[v].user)
      BY <2>1, <3>1 DEF MayStart, InConflict, ConflictKind
    <3> QED
      BY <3>1, <3>2
  <2> QED
    BY <2>2, <2>3
<1>4. ASSUME NEW w \in Worker, GoesPast(w) PROVE About(w) /\ Stays(w)
  BY <1>4 DEF GoesPast
<1>5. ASSUME NEW y \in Busy', NEW z \in Busy', Stays(y), Stays(z) PROVE Own(y, z)
  BY <1>5 DEF AllowInv
<1>6. ASSUME \A z \in Busy' : z \in Busy /\ job'[z] = job[z]
      PROVE  \A z \in Busy' : About(z) /\ \A y \in Busy' : Own(y, z)
  BY <1>2, <1>5, <1>6
<1>7. ASSUME NEW w \in Worker, WStep(w)
      PROVE  \A z \in Busy' : About(z) /\ \A y \in Busy' : Own(y, z)
  <2>1. \A z \in Busy' \ {w} : z \in Busy /\ job'[z] = job[z]
    BY <1>7, OneMoves
  <2>2. w \in Busy' => Opens(w) \/ GoesPast(w)
    BY <1>7, OneMoves
  <2>3. \A z \in Busy' : About(z)
    BY <1>2, <1>3, <1>4, <2>1, <2>2
  <2>4. CASE Opens(w)
    <3>1. \A y, z \in Busy' \ {w} : Own(y, z)
      BY <1>5, <2>1
    <3>2. \A v \in Busy' : Own(w, v) /\ Own(v, w)
      BY <1>3, <2>4
    <3> QED
      BY <2>3, <3>1, <3>2
  <2>5. CASE ~Opens(w)
    <3>1. \A z \in Busy' : Stays(z)
      BY <1>4, <2>1, <2>2, <2>5
    <3> QED
      BY <1>5, <2>3, <3>1
  <2> QED
    BY <2>4, <2>5
<1>8. \A z \in Busy' : About(z) /\ \A y \in Busy' : Own(y, z)
  <2>1. CASE UNCHANGED job \/ Restart
    <3>1. \A z \in Busy' : z \in Busy /\ job'[z] = job[z]
      BY <2>1 DEF Restart, Busy
    <3> QED
      BY <1>6, <3>1
  <2> QED
    BY <1>7, <2>1, Drawing DEF Sorted, Pauses, TickPuts
<1> QED
  BY <1>8, SpentStep DEF AllowInv

(* A player never gets more reattempts of their own than the qualifier     *)
(* allows, as long as they do not ask for two at the same time: counting   *)
(* what they spent and spending it are not one transaction.                *)
THEOREM AllowanceKept ==
  ASSUME {"row", "cap", "allowance"} \cap Conflicts = {}, AnyClaim = FALSE
  PROVE  Spec => []ReattemptsWithinAllowance
<1>0. {"row", "cap"} \cap Conflicts = {}
  OBVIOUS
<1>1. Init => AllowInv
  <2> SUFFICES ASSUME Init PROVE AllowInv
    OBVIOUS
  <2>1. Busy = {} /\ \A u \in Player : spent[u] = 0
    BY DEF Init, Busy
  <2>2. \A u \in Player : SelfSpent(u) \in Nat
    BY SpentSize
  <2> QED
    BY <2>1, <2>2, CountAssumption DEF AllowInv
<1>2. Inv /\ KeptInv /\ AllowInv /\ [Next]_vars => Inv' /\ KeptInv' /\ AllowInv'
  BY <1>0, KeptSteps, AllowStep DEF Inv
<1>3. AllowInv => ReattemptsWithinAllowance
  BY DEF AllowInv, ReattemptsWithinAllowance
<1>4. Init => Inv /\ KeptInv
  BY <1>0, InvInit, KeptSteps
<1> QED
  BY <1>1, <1>2, <1>3, <1>4, PTL DEF Spec

-----------------------------------------------------------------------------
(* Scores and pars.                                                        *)

(* A review is of a run that was finished, and stays so; settling it       *)
(* leaves it settled, and only a run nobody settled is read as pending.    *)
ReviewInv ==
  \A w \in Busy :
    /\ Past(job[w]) => Rescores(job[w])
    /\ job[w].kind = "review" =>
         LET r == job[w].run
         IN  /\ r \in Rows /\ run[r].status = "finished"
             /\ Past(job[w]) => run[r].review \in Settled
             /\ job[w].at = "settle" /\ run[r].review = "pending" => job[w].row.review = "pending"

(* Of two requests that will recompute one seed's par both are reviews of  *)
(* one run, and only one can have settled it.                              *)
Sharing(j, k) ==
  Rescores(j) /\ Rescores(k) /\ j.permalink = k.permalink =>
    /\ j.kind = "review" /\ k.kind = "review" /\ j.run = k.run
    /\ ~(Past(j) /\ Past(k))
    /\ j.at = "settle" => j.row.review = "pending"

(* A recompute writes no row that another request or the tick holds.       *)
Clear(j, k) == Rescores(j) /\ k.kind # "review" => k.run \notin Approved(j.permalink)

ClearInv ==
  /\ \A w, v \in Busy : w # v => Sharing(job[w], job[v]) /\ Clear(job[w], job[v])
  /\ \A w \in Busy : Rescores(job[w]) => Ticked \cap Approved(job[w].permalink) = {}

(* What was read is what there is: a held row's score, an approved run's.  *)
ReadInv ==
  /\ \A w \in Busy : Holding(job[w]) => job[w].row.score = run[job[w].run].score
  /\ \A x \in tick.due \cup tick.stale : x[2].score = run[x[1]].score
  /\ \A w \in Busy : job[w].at = "rescore" =>
       job[w].seen = {<<r, run[r].score>> : r \in Approved(job[w].permalink)}

(* A seed nobody is about to recompute is scored against its par. *)
Scored(p) ==
  par[p] = Approved(p) /\ \A r \in Approved(p) : run[r].score = Against(Approved(p))

ScoreInv ==
  /\ \A r \in Rows : ~Passed(run[r]) => run[r].score \in {None, Zero}
  /\ crashes = 0 => \A p \in Permalink :
       (\A w \in Busy : Past(job[w]) => job[w].permalink # p) => Scored(p)

ParInv == ReviewInv /\ ClearInv /\ ReadInv /\ ScoreInv

LEMMA ApprovedIs == ASSUME NEW p
  PROVE  /\ Approved(p) = {r \in Rows : run[r].permalink = p /\ Passed(run[r])}
         /\ Approved(p)' = {r \in Rows' : run'[r].permalink = p /\ Passed(run'[r])}
BY DEF Approved, Passed

(* Where a row's next content comes from. *)
FromTick(r) ==
  \E x \in tick.due \cup tick.stale :
    /\ x[1] = r /\ Mild(x[2], run'[r]) /\ (r \in Ticked' => run'[r].score = x[2].score)

FromFile(r) == \E w \in Worker : Files(w) /\ job[w].run = r /\ Mild(job[w].row, run'[r])

FromTurn(r) == \E w \in Worker : Turns(w) /\ job[w].run = r

FromScores(r) ==
  \E w \in Worker : /\ WriteScores(w) /\ r \in Rescored(w)
                    /\ run'[r] = [run[r] EXCEPT !.score = Against(SeenRuns(w))]

LEMMA Sources ==
  ASSUME Inv, Sorted, NEW r \in Rows
  PROVE  /\ r \in Rows'
         /\ run'[r] = run[r] \/ FromTick(r) \/ FromFile(r) \/ FromTurn(r) \/ FromScores(r)
<1>1. CASE UNCHANGED run
  BY <1>1 DEF Rows
<1>2. CASE TickPuts
  BY <1>2 DEF TickPuts, Puts, FromTick
<1>3. CASE \E u \in Player, p \in Permalink : StartRun(u, p)
  BY <1>3, Drawing, Adding
<1>4. ASSUME NEW w \in Worker, WStep(w)
      PROVE  /\ r \in Rows'
             /\ run'[r] = run[r] \/ FromTick(r) \/ FromFile(r) \/ FromTurn(r) \/ FromScores(r)
  <2>1. CASE Opens(w) \/ Misses(w) \/ ReadApproved(w)
    BY <1>1, <2>1 DEF Opens, Begins, Misses, ReadApproved
  <2>2. CASE Files(w)
    BY <2>2 DEF Files, Puts, FromFile
  <2>3. CASE VoidsRun(w) \/ Rules(w) \/ (Captures(w) /\ job[w].row # None)
    BY <2>3 DEF VoidsRun, Rules, Captures, Puts, FromTurn, Turns
  <2>4. CASE Captures(w) /\ job[w].row = None
    BY <2>4, Adding DEF Captures
  <2>5. CASE WriteScores(w)
    <3>1. r \in Run /\ r \in Rows'
      BY <2>5, Scores DEF Inv, Rows
    <3>2. run'[r] = IF r \in Rescored(w) THEN [run[r] EXCEPT !.score = Against(SeenRuns(w))]
                    ELSE run[r]
      BY <2>5, <3>1 DEF WriteScores
    <3> QED
      BY <2>5, <3>1, <3>2 DEF FromScores
  <2> QED
    BY <1>4, <2>1, <2>2, <2>3, <2>4, <2>5 DEF WStep
<1> QED
  BY <1>1, <1>2, <1>3, <1>4 DEF Sorted, Pauses, Restart

(* A mild write of a row that is as it was read does not change whether    *)
(* the run counts, nor the score of one that does.                         *)
LEMMA MildScore ==
  ASSUME NEW x, NEW y, NEW z, Mild(y, x), Alike(y, z), y.review = z.review, y.score = z.score
  PROVE  /\ Passed(x) <=> Passed(z)
         /\ Passed(z) => x.score = z.score
         /\ x.score \in {z.score, Zero}
BY DEF Mild, Alike, Passed

Even(r) ==
  /\ Passed(run'[r]) <=> Passed(run[r])
  /\ Passed(run[r]) => run'[r].score = run[r].score
  /\ run'[r].score \in {run[r].score, Zero}

LEMMA EvenTick ==
  ASSUME Inv, ParInv, NEW r \in Rows, FromTick(r)
  PROVE  Even(r)
<1>1. PICK x \in tick.due \cup tick.stale : x[1] = r /\ Mild(x[2], run'[r])
  BY DEF FromTick
<1>2. Alike(x[2], run[r]) /\ x[2].review = run[r].review /\ x[2].score = run[r].score
  BY <1>1 DEF Inv, TickInv, TickHeld, ParInv, ReadInv
<1> QED
  BY <1>1, <1>2, MildScore DEF Even

LEMMA EvenFile ==
  ASSUME Inv, KeptInv, ParInv, NEW r \in Rows, FromFile(r)
  PROVE  Even(r)
<1>1. PICK w \in Worker : Files(w) /\ job[w].run = r /\ Mild(job[w].row, run'[r])
  BY DEF FromFile
<1>2. /\ Alike(job[w].row, run[r]) /\ job[w].row.review = run[r].review
      /\ job[w].row.score = run[r].score
  BY <1>1, Writing DEF ParInv, ReadInv
<1> QED
  BY <1>1, <1>2, MildScore DEF Even

LEMMA Firsts ==
  ASSUME NEW A, NEW S, S = {<<r, run[r].score>> : r \in A}
  PROVE  /\ {x[1] : x \in S} = A
         /\ \A x \in S : x[1] \in A /\ x[2] = run[x[1]].score
         /\ \A r \in A : \E x \in S : x[1] = r /\ x[2] = run[r].score
<1>1. \A x \in S : \E r \in A : x = <<r, run[r].score>>
  OBVIOUS
<1>2. \A r \in A : <<r, run[r].score>> \in S
  OBVIOUS
<1>3. \A x \in S : x[1] \in A /\ x[2] = run[x[1]].score
  BY <1>1
<1>4. \A r \in A : \E x \in S : x[1] = r /\ x[2] = run[r].score
  BY <1>2
<1> QED
  BY <1>3, <1>4

(* A recompute writes the runs it counted, and still counts them. *)
LEMMA Recount ==
  ASSUME Inv, ParInv, NEW w \in Worker, WriteScores(w)
  PROVE  /\ w \in Busy /\ job[w].at = "rescore" /\ job[w].permalink \in Permalink
         /\ SeenRuns(w) = Approved(job[w].permalink)
         /\ Rescored(w) = {r \in Approved(job[w].permalink) :
                             run[r].score # Against(Approved(job[w].permalink))}
<1> DEFINE p == job[w].permalink
<1>1. w \in Busy /\ job[w].at = "rescore"
  BY AtBusy DEF WriteScores
<1>2. job[w].seen = {<<r, run[r].score>> : r \in Approved(p)}
  BY <1>1 DEF ParInv, ReadInv
<1>3. SeenRuns(w) = Approved(p)
  BY <1>2, Firsts DEF SeenRuns
<1>5. Rescored(w) = {r \in Approved(p) : run[r].score # Against(Approved(p))}
  <2> DEFINE v == Against(SeenRuns(w))
             S == job[w].seen
  <2>1. v = Against(Approved(p))
    BY <1>3
  <2>2. Rescored(w) = {x[1] : x \in {y \in S : y[2] # v}}
    BY DEF Rescored
  <2> HIDE DEF v, S
  <2>3. {x[1] : x \in {y \in S : y[2] # v}} = {r \in Approved(p) : run[r].score # v}
    <3>1. S = {<<r, run[r].score>> : r \in Approved(p)}
      BY <1>2 DEF S
    <3>2. /\ \A x \in S : x[1] \in Approved(p) /\ x[2] = run[x[1]].score
          /\ \A r \in Approved(p) : \E x \in S : x[1] = r /\ x[2] = run[r].score
      <4>1. \A x \in S : \E r \in Approved(p) : x = <<r, run[r].score>>
        BY <3>1
      <4>2. \A r \in Approved(p) : <<r, run[r].score>> \in S
        BY <3>1
      <4>3. \A x \in S : x[1] \in Approved(p) /\ x[2] = run[x[1]].score
        BY <4>1
      <4>4. \A r \in Approved(p) : \E x \in S : x[1] = r /\ x[2] = run[r].score
        BY <4>2
      <4> QED
        BY <4>3, <4>4
    <3> QED
      BY <3>2
  <2> QED
    BY <2>1, <2>2, <2>3
<1>4. p \in Permalink
  BY <1>1, JobTyped DEF Inv, Base, Jobs
<1> QED
  BY <1>1, <1>3, <1>4, <1>5

LEMMA ScoredRow ==
  ASSUME Inv, ParInv, NEW r \in Rows, NEW w \in Worker, WriteScores(w), r \in Rescored(w),
         run'[r] = [run[r] EXCEPT !.score = Against(SeenRuns(w))]
  PROVE  /\ run[r].permalink = job[w].permalink /\ Passed(run[r]) /\ Passed(run'[r])
         /\ run'[r].score = Against(Approved(job[w].permalink))
<1>1. r \in Approved(job[w].permalink) /\ SeenRuns(w) = Approved(job[w].permalink)
  BY Recount
<1>2. run[r] \in RunRow
  BY RowTyped DEF Inv, Base
<1>3. /\ run'[r].status = run[r].status /\ run'[r].review = run[r].review
      /\ run'[r].void = run[r].void /\ run'[r].score = Against(SeenRuns(w))
  BY <1>2 DEF RunRow
<1> QED
  BY <1>1, <1>3, ApprovedIs DEF Passed

(* A run that does not count has no score of a par. *)
LEMMA TidyStep ==
  ASSUME Inv, KeptInv, ParInv, Sorted
  PROVE  \A r \in Rows' : ~Passed(run'[r]) => run'[r].score \in {None, Zero}
<1>1. ASSUME NEW r \in Rows, ~Passed(run'[r]) PROVE run'[r].score \in {None, Zero}
  <2>1. CASE run'[r] = run[r]
    BY <1>1, <2>1 DEF ParInv, ScoreInv
  <2>2. CASE FromTick(r) \/ FromFile(r)
    BY <1>1, <2>2, EvenTick, EvenFile DEF Even, ParInv, ScoreInv
  <2>3. CASE FromScores(r)
    BY <1>1, <2>3, ScoredRow DEF FromScores
  <2>4. ASSUME NEW w \in Worker, job[w].run = r, VoidsRun(w) PROVE run'[r].score = None
    <3>1. job[w].row \in RunRow
      BY <2>4, Writing
    <3> QED
      BY <2>4, <3>1 DEF VoidsRun, Puts, RunRow
  <2>5. ASSUME NEW w \in Worker, job[w].run = r, Captures(w) PROVE run'[r].score \in {None, Zero}
    <3>1. job[w].row # None
      BY <2>5, NullAssumption DEF Captures, Rows
    <3>2. job[w].row \in RunRow
      BY <2>5, <3>1, Writing
    <3> QED
      BY <2>5, <3>1, <3>2 DEF Captures, Puts, Recorded, RunRow
  <2>6. ASSUME NEW w \in Worker, job[w].run = r, Rules(w) PROVE run'[r].score \in {None, Zero}
    <3>1. run[r] \in RunRow /\ w \in Busy /\ job[w].at = "settle"
      BY <2>6, RowTyped DEF Inv, Base, Rules, GoesOn
    <3>2. /\ run'[r].status = run[r].status /\ run'[r].void = run[r].void
          /\ run'[r].review = job[w].result /\ job[w].result \in Settled
          /\ run'[r].score = IF job[w].result = "rejected" THEN None ELSE run[r].score
      BY <2>6, <3>1 DEF Rules, Puts, RunRow
    <3>3. run[r].status = "finished"
      BY <2>6, <3>1 DEF KeptInv, ParInv, ReviewInv
    <3>4. CASE job[w].result = "rejected"
      BY <3>2, <3>4
    <3>5. CASE job[w].result = "approved"
      <4>1. ~Passed(run[r])
        BY <1>1, <3>2, <3>3, <3>5 DEF Passed
      <4> QED
        BY <3>2, <3>5, <4>1 DEF ParInv, ScoreInv
    <3> QED
      BY <3>2, <3>4, <3>5 DEF Settled
  <2> QED
    BY <1>1, <2>1, <2>2, <2>3, <2>4, <2>5, <2>6, Sources DEF FromTurn, Turns
<1>2. ASSUME NEW u \in Player, NEW p \in Permalink, StartRun(u, p), NEW r \in Rows' \ Rows
      PROVE  run'[r].score \in {None, Zero}
  <2>1. Drawn(u, p).score = None
    BY DEF Drawn
  <2> QED
    BY <1>2, <2>1, Drawing, Adding
<1>3. ASSUME NEW w \in Worker, Captures(w), job[w].row = None, NEW r \in Rows' \ Rows
      PROVE  run'[r].score \in {None, Zero}
  BY <1>3, Racing, Adding
<1>4. \/ Rows' = Rows
      \/ \E u \in Player, p \in Permalink : StartRun(u, p)
      \/ \E w \in Worker : Captures(w) /\ job[w].row = None
  BY SameRuns DEF Sorted, Pauses, TickPuts, Restart, Puts, Rows
<1> QED
  BY <1>1, <1>2, <1>3, <1>4

(* What a step does to the counting runs of a seed. *)
Undisturbed(p) == Approved(p)' = Approved(p) /\ \A r \in Approved(p) : run'[r].score = run[r].score

TurnsOn(p) == \E w \in Worker : Turns(w) /\ job[w].permalink = p

ScoresOn(p) == \E w \in Worker : WriteScores(w) /\ job[w].permalink = p

LEMMA Untouched ==
  ASSUME Inv, KeptInv, ParInv, Sorted, RowsKept, NEW p, ~TurnsOn(p), ~ScoresOn(p)
  PROVE  Undisturbed(p)
<1>1. ASSUME NEW r \in Rows, run[r].permalink = p
      PROVE  /\ r \in Rows' /\ run'[r].permalink = p
             /\ Passed(run'[r]) <=> Passed(run[r])
             /\ Passed(run[r]) => run'[r].score = run[r].score
  <2>1. r \in Rows' /\ run'[r].permalink = p
    BY <1>1 DEF RowsKept
  <2>2. ~FromTurn(r)
    <3>1. ASSUME NEW w \in Worker, Turns(w), job[w].run = r PROVE FALSE
      <4>1. w \in Busy /\ job[w].run # None
        BY <3>1, NullAssumption DEF Turns, VoidsRun, Captures, Rules, GoesOn, Rows
      <4>2. job[w].permalink = p
        BY <1>1, <3>1, <4>1 DEF KeptInv
      <4> QED
        BY <3>1, <4>2 DEF TurnsOn
    <3> QED
      BY <3>1 DEF FromTurn
  <2>3. ~FromScores(r)
    BY <1>1, ScoredRow DEF FromScores, ScoresOn
  <2>4. run'[r] = run[r] \/ Even(r)
    BY <2>2, <2>3, Sources, EvenTick, EvenFile
  <2> QED
    BY <2>1, <2>4 DEF Even
<1>2. ASSUME NEW r \in Rows' \ Rows, run'[r].permalink = p PROVE ~Passed(run'[r])
  <2>1. ASSUME NEW u \in Player, NEW q \in Permalink, StartRun(u, q) PROVE ~Passed(run'[r])
    <3>1. ~Passed(Drawn(u, q))
      BY DEF Drawn, Passed
    <3> QED
      BY <1>2, <2>1, <3>1, Drawing, Adding
  <2>2. ASSUME NEW w \in Worker, Captures(w), job[w].row = None PROVE FALSE
    <3>1. job[w].permalink = p
      BY <1>2, <2>2, Racing, Adding
    <3> QED
      BY <2>2, <3>1 DEF TurnsOn, Turns
  <2>3. \/ Rows' = Rows
        \/ \E u \in Player, q \in Permalink : StartRun(u, q)
        \/ \E w \in Worker : Captures(w) /\ job[w].row = None
    BY SameRuns DEF Sorted, Pauses, TickPuts, Restart, Puts, Rows
  <2> QED
    BY <2>1, <2>2, <2>3
<1>3. \A r \in Rows : r \in Rows' /\ run'[r].permalink = run[r].permalink
  BY DEF RowsKept
<1>4. Approved(p)' = Approved(p)
  <2>1. \A r \in Rows : r \in Approved(p)' <=> r \in Approved(p)
    BY <1>1, <1>3, ApprovedIs
  <2>2. \A r \in Rows' \ Rows : r \notin Approved(p)'
    BY <1>2, ApprovedIs
  <2>3. Approved(p)' \subseteq Rows' /\ Approved(p) \subseteq Rows
    BY DEF Approved
  <2> HIDE DEF Approved
  <2> QED
    BY <2>1, <2>2, <2>3
<1>5. \A r \in Approved(p) : run'[r].score = run[r].score
  BY <1>1, ApprovedIs
<1> QED
  BY <1>4, <1>5 DEF Undisturbed

(* A recompute leaves the seed scored. *)
LEMMA Recomputed ==
  ASSUME Inv, ParInv, NEW p \in Permalink, NEW w \in Worker, WriteScores(w), job[w].permalink = p
  PROVE  Scored(p)'
<1>1. /\ w \in Busy /\ p \in Permalink /\ SeenRuns(w) = Approved(p)
      /\ Rescored(w) = {r \in Approved(p) : run[r].score # Against(Approved(p))}
  BY Recount
<1>2. Rows' = Rows
  BY Scores DEF Inv
<1>3. ASSUME NEW r \in Rows
      PROVE  /\ run'[r].permalink = run[r].permalink /\ (Passed(run'[r]) <=> Passed(run[r]))
             /\ r \in Rescored(w) => run'[r].score = Against(Approved(p))
             /\ r \notin Rescored(w) => run'[r] = run[r]
  <2>1. r \in Run /\ run[r] \in RunRow
    BY RowTyped DEF Inv, Base
  <2>2. run'[r] = IF r \in Rescored(w) THEN [run[r] EXCEPT !.score = Against(SeenRuns(w))]
                  ELSE run[r]
    BY <2>1 DEF WriteScores
  <2>3. /\ run'[r].permalink = run[r].permalink /\ run'[r].status = run[r].status
        /\ run'[r].review = run[r].review /\ run'[r].void = run[r].void
    BY <2>1, <2>2 DEF RunRow
  <2>4. r \in Rescored(w) => run'[r].score = Against(SeenRuns(w))
    BY <2>1, <2>2 DEF RunRow
  <2> QED
    BY <1>1, <2>2, <2>3, <2>4 DEF Passed
<1>4. Approved(p)' = Approved(p)
  <2>1. \A r \in Rows : r \in Approved(p)' <=> r \in Approved(p)
    BY <1>2, <1>3, ApprovedIs
  <2>2. Approved(p)' \subseteq Rows /\ Approved(p) \subseteq Rows
    BY <1>2 DEF Approved
  <2> QED
    BY <2>1, <2>2
<1>5. \A r \in Approved(p) : run'[r].score = Against(Approved(p))
  BY <1>1, <1>3, ApprovedIs
<1>6. par'[p] = Approved(p)
  BY <1>1 DEF WriteScores, Inv, Base, TypeOK
<1> QED
  BY <1>4, <1>5, <1>6 DEF Scored

(* A request is as it was, or has just begun, or has gone past its write. *)
LEMMA EachMoves ==
  ASSUME Inv, Sorted, NEW z \in Busy'
  PROVE  \/ z \in Busy /\ job'[z] = job[z]
         \/ z \in Worker /\ Opens(z)
         \/ z \in Worker /\ GoesPast(z)
<1>1. CASE UNCHANGED job \/ Restart
  BY <1>1 DEF Restart, Busy
<1>2. ASSUME NEW w \in Worker, WStep(w)
      PROVE  \/ z \in Busy /\ job'[z] = job[z]
             \/ z \in Worker /\ Opens(z)
             \/ z \in Worker /\ GoesPast(z)
  BY <1>2, OneMoves
<1> QED
  BY <1>1, <1>2, Drawing DEF Sorted, Pauses, TickPuts

(* The acting request is not one that stays as it is. *)
LEMMA Acts ==
  ASSUME Inv, NEW w \in Worker, Turns(w) \/ WriteScores(w) \/ Files(w)
  PROVE  w \in Busy /\ job'[w] # job[w]
<1>1. w \in Busy /\ job[w] \in Jobs /\ job \in [Worker -> {Idle} \cup Jobs] /\ job[w] # Idle
  BY AtBusy, JobTyped DEF Turns, VoidsRun, Captures, Rules, WriteScores, Files, Ends, GoesOn, Inv,
     Base, TypeOK, Busy
<1>2. CASE Turns(w)
  <2>1. job'[w] = [job[w] EXCEPT !.at = "read"] /\ job[w].at # "read"
    BY <1>1, <1>2 DEF Turns, VoidsRun, Captures, Rules, GoesOn
  <2> QED
    BY <1>1, <2>1 DEF Jobs
<1>3. CASE WriteScores(w) \/ Files(w)
  BY <1>1, <1>3 DEF WriteScores, Done, Go, Files, Ends
<1> QED
  BY <1>1, <1>2, <1>3

LEMMA TurnKind ==
  ASSUME Inv, KeptInv, NEW w \in Worker, Turns(w)
  PROVE  /\ w \in Busy /\ Rescores(job[w]) /\ ~Past(job[w])
         /\ job[w].kind = "review" <=> Rules(w)
<1>1. w \in Busy /\ job[w].at \in {"save", "capture", "settle"}
  BY DEF Turns, VoidsRun, Captures, Rules, GoesOn
<1>2. Rules(w) => job[w].kind = "review"
  BY <1>1 DEF Rules, KeptInv
<1> QED
  BY <1>1, <1>2 DEF Turns, VoidsRun, Captures, Rescores, Past

(* Whoever else writes a run under review is another review of it. *)
LEMMA ReviewedRun ==
  ASSUME Inv, KeptInv, Sorted, NEW z \in Busy, job[z].kind = "review", job'[z] = job[z],
         NEW r \in Rows, job[z].run = r
  PROVE  /\ run'[r].status = run[r].status
         /\ run'[r].review = run[r].review \/ run'[r].review \in Settled
<1>1. run[r] \in RunRow
  BY RowTyped DEF Inv, Base
<1>2. ~FromTick(r)
  BY DEF FromTick, Inv, ApartInv, Ticked
<1>3. ~FromFile(r)
  <2>1. ASSUME NEW w \in Worker, Files(w), job[w].run = r PROVE FALSE
    <3>1. w \in Busy /\ w # z /\ job[w].kind # "review"
      BY <2>1, Acts DEF Files
    <3> QED
      BY <2>1, <3>1, NullAssumption DEF Inv, ApartInv, Apart, Rows
  <2> QED
    BY <2>1 DEF FromFile
<1>4. ASSUME NEW w \in Worker, Turns(w), job[w].run = r
      PROVE  run'[r].status = run[r].status /\ run'[r].review \in Settled
  <2>1. w \in Busy /\ w # z
    BY <1>4, Acts
  <2>2. job[w].kind = "review"
    BY <1>4, <2>1, NullAssumption DEF Inv, ApartInv, Apart, Rows
  <2>3. Rules(w)
    BY <1>4, <2>2, TurnKind
  <2> QED
    BY <1>1, <1>4, <2>3 DEF Rules, Puts, RunRow
<1>5. FromScores(r) => run'[r].status = run[r].status /\ run'[r].review = run[r].review
  BY <1>1 DEF FromScores, RunRow
<1> QED
  BY <1>2, <1>3, <1>4, <1>5, Sources DEF FromTurn

LEMMA ReviewInvStep ==
  ASSUME Inv, KeptInv, ParInv, Sorted, RowsKept
  PROVE  ReviewInv'
<1> DEFINE Fine(z) ==
      /\ Past(job'[z]) => Rescores(job'[z])
      /\ job'[z].kind = "review" =>
           /\ job'[z].run \in Rows' /\ run'[job'[z].run].status = "finished"
           /\ Past(job'[z]) => run'[job'[z].run].review \in Settled
           /\ job'[z].at = "settle" /\ run'[job'[z].run].review = "pending" =>
                job'[z].row.review = "pending"
<1>1. ASSUME NEW z \in Busy, job'[z] = job[z] PROVE Fine(z)
  <2>1. CASE job[z].kind # "review"
    BY <1>1, <2>1 DEF ParInv, ReviewInv, Past, Rescores
  <2>2. CASE job[z].kind = "review"
    <3>1. /\ job[z].run \in Rows /\ run[job[z].run].status = "finished"
          /\ Past(job[z]) => run[job[z].run].review \in Settled
          /\ job[z].at = "settle" /\ run[job[z].run].review = "pending" =>
               job[z].row.review = "pending"
      BY <2>2 DEF ParInv, ReviewInv
    <3>2. /\ run'[job[z].run].status = run[job[z].run].status
          /\ \/ run'[job[z].run].review = run[job[z].run].review
             \/ run'[job[z].run].review \in Settled
      BY <1>1, <2>2, <3>1, ReviewedRun
    <3>3. "pending" \notin Settled
      BY DEF Settled
    <3>4. job[z].run \in Rows'
      BY <3>1 DEF RowsKept
    <3> QED
      BY <1>1, <2>2, <3>1, <3>2, <3>3, <3>4 DEF Past, Rescores
  <2> QED
    BY <2>1, <2>2
<1>2. ASSUME NEW z \in Worker, Opens(z) PROVE Fine(z)
  <2>1. Opened(job'[z]) /\ run' = run /\ Rows' = Rows
    BY <1>2 DEF Opens, Begins, Rows
  <2>2. ~Past(job'[z])
    BY <2>1 DEF Opened, Past
  <2>3. job'[z].kind = "review" =>
          /\ job'[z].run \in Rows /\ job'[z].row = run[job'[z].run]
          /\ job'[z].row.status = "finished"
    BY <2>1 DEF Opened
  <2> QED
    BY <2>1, <2>2, <2>3
<1>3. ASSUME NEW z \in Worker, GoesPast(z) PROVE Fine(z)
  <2>1. /\ z \in Busy /\ job'[z].kind = job[z].kind /\ job'[z].run = job[z].run
        /\ Past(job'[z]) /\ job'[z].at # "settle"
    BY <1>3 DEF GoesPast, Past
  <2>2. CASE Turns(z)
    <3>1. Rescores(job'[z])
      BY <2>1, <2>2, TurnKind DEF Rescores
    <3>2. ASSUME job[z].kind = "review"
          PROVE  /\ job[z].run \in Rows' /\ run'[job[z].run].status = "finished"
                 /\ run'[job[z].run].review \in Settled
      <4>1. Rules(z)
        BY <2>2, <3>2, TurnKind
      <4>2. job[z].run \in Rows /\ run[job[z].run].status = "finished"
        BY <2>1, <3>2 DEF ParInv, ReviewInv
      <4>3. run[job[z].run] \in RunRow
        BY <4>2, RowTyped DEF Inv, Base
      <4>4. /\ run'[job[z].run].status = run[job[z].run].status
            /\ run'[job[z].run].review = job[z].result /\ job[z].result \in Settled
        BY <4>1, <4>3 DEF Rules, Puts, RunRow
      <4> QED
        BY <4>2, <4>4 DEF RowsKept
    <3> QED
      BY <2>1, <3>1, <3>2
  <2>3. CASE ReadApproved(z)
    <3>1. Past(job[z]) /\ run' = run
      BY <2>3, AtBusy DEF ReadApproved, Past
    <3>2. Rescores(job[z])
      BY <2>1, <3>1 DEF ParInv, ReviewInv
    <3>3. job[z].kind = "review" =>
            /\ job[z].run \in Rows /\ run[job[z].run].status = "finished"
            /\ run[job[z].run].review \in Settled
      BY <2>1, <3>1 DEF ParInv, ReviewInv
    <3> QED
      BY <2>1, <3>1, <3>2, <3>3 DEF Rescores, RowsKept
  <2> QED
    BY <1>3, <2>2, <2>3 DEF GoesPast
<1>4. \A z \in Busy' : Fine(z)
  BY <1>1, <1>2, <1>3, EachMoves
<1> HIDE DEF Fine
<1> QED
  BY <1>4 DEF Fine, ReviewInv, Past, Rescores

(* Nobody else touches a seed's counting runs once one request has settled *)
(* what it will recompute them for.                                        *)
LEMMA Alone ==
  ASSUME Inv, KeptInv, ParInv, NEW z \in Busy, Past(job[z]), job'[z] = job[z],
         NEW p, p = job[z].permalink
  PROVE  ~TurnsOn(p) /\ ~ScoresOn(p)
<1>1. Rescores(job[z])
  BY DEF ParInv, ReviewInv
<1>2. ASSUME NEW w \in Worker, Turns(w), job[w].permalink = p PROVE FALSE
  <2>1. w \in Busy /\ w # z
    BY <1>2, Acts
  <2>2. Sharing(job[w], job[z])
    BY <2>1 DEF ParInv, ClearInv
  <2>3. /\ job[w].kind = "review" /\ job[z].kind = "review" /\ job[w].run = job[z].run
        /\ job[w].at = "settle" => job[w].row.review = "pending"
    BY <1>1, <1>2, <2>2, TurnKind DEF Sharing
  <2>4. Rules(w)
    BY <1>2, <2>3, TurnKind
  <2>5. run[job[w].run].review = "pending"
    BY <2>3, <2>4 DEF Rules
  <2>6. run[job[z].run].review \in Settled
    BY <2>3 DEF ParInv, ReviewInv
  <2> QED
    BY <2>3, <2>5, <2>6 DEF Settled
<1>3. ASSUME NEW w \in Worker, WriteScores(w), job[w].permalink = p PROVE FALSE
  <2>1. w \in Busy /\ w # z /\ job[w].at = "rescore"
    BY <1>3, Acts, Recount
  <2>2. Sharing(job[w], job[z]) /\ Past(job[w]) /\ Rescores(job[w])
    BY <2>1 DEF ParInv, ClearInv, ReviewInv, Past
  <2> QED
    BY <1>1, <1>3, <2>2 DEF Sharing
<1> QED
  BY <1>2, <1>3 DEF TurnsOn, ScoresOn

LEMMA RowHeld ==
  ASSUME Inv, KeptInv, ParInv, Sorted, NEW z \in Busy, job'[z] = job[z], Holding(job[z])
  PROVE  job[z].row.score = run'[job[z].run].score
<1> SUFFICES ASSUME NEW r, r = job[z].run PROVE job[z].row.score = run'[r].score
  OBVIOUS
<1>1. r \in Rows /\ r # None /\ job[z].kind # "review" /\ job[z].row.score = run[r].score
  BY DEF Inv, Base, Fit, JobInv, Held, Holding, ParInv, ReadInv
<1>2. ~FromTick(r)
  BY DEF FromTick, Inv, ApartInv, Ticked
<1>3. ~FromFile(r) /\ ~FromTurn(r)
  <2>1. ASSUME NEW w \in Worker, Turns(w) \/ Files(w), job[w].run = r PROVE FALSE
    <3>1. w \in Busy /\ w # z
      BY <2>1, Acts
    <3> QED
      BY <1>1, <2>1, <3>1 DEF Inv, ApartInv, Apart
  <2> QED
    BY <2>1 DEF FromFile, FromTurn
<1>4. ~FromScores(r)
  <2>1. ASSUME NEW w \in Worker, WriteScores(w), r \in Rescored(w) PROVE FALSE
    <3>1. w \in Busy /\ w # z /\ job[w].at = "rescore" /\ r \in Approved(job[w].permalink)
      BY <2>1, Acts, Recount
    <3>2. Rescores(job[w]) /\ Clear(job[w], job[z])
      BY <3>1 DEF ParInv, ReviewInv, ClearInv, Past
    <3> QED
      BY <1>1, <3>1, <3>2 DEF Clear
  <2> QED
    BY <2>1 DEF FromScores
<1> QED
  BY <1>1, <1>2, <1>3, <1>4, Sources

LEMMA TickRead ==
  ASSUME Inv, KeptInv, ParInv, Sorted, NEW x \in tick.due \cup tick.stale, x[1] \in Ticked'
  PROVE  x[2].score = run'[x[1]].score
<1> SUFFICES ASSUME NEW r, r = x[1] PROVE x[2].score = run'[r].score
  OBVIOUS
<1>1. r \in Rows /\ r \in Ticked /\ x[2].score = run[r].score
  BY DEF Inv, TickInv, TickHeld, Ticked, ParInv, ReadInv
<1>2. FromTick(r) => run'[r].score = run[r].score
  BY DEF FromTick, ParInv, ReadInv
<1>3. ~FromFile(r) /\ ~FromTurn(r)
  <2>1. ASSUME NEW w \in Worker, Turns(w) \/ Files(w), job[w].run = r PROVE FALSE
    BY <1>1, <2>1, Acts DEF Inv, ApartInv
  <2> QED
    BY <2>1 DEF FromFile, FromTurn
<1>4. ~FromScores(r)
  <2>1. ASSUME NEW w \in Worker, WriteScores(w), r \in Rescored(w) PROVE FALSE
    <3>1. w \in Busy /\ job[w].at = "rescore" /\ r \in Approved(job[w].permalink)
      BY <2>1, Recount
    <3>2. Rescores(job[w])
      BY <3>1 DEF ParInv, ReviewInv, Past
    <3> QED
      BY <1>1, <3>1, <3>2 DEF ParInv, ClearInv
  <2> QED
    BY <2>1 DEF FromScores
<1> QED
  BY <1>1, <1>2, <1>3, <1>4, Sources

LEMMA ReadInvStep ==
  ASSUME {"row", "cap"} \cap Conflicts = {}, Inv, KeptInv, ParInv, [Next]_vars, Sorted, RowsKept
  PROVE  ReadInv'
<1> DEFINE Fine(z) ==
      /\ Holding(job'[z]) => job'[z].row.score = run'[job'[z].run].score
      /\ \A p : job'[z].at = "rescore" /\ job'[z].permalink = p =>
           job'[z].seen = {<<r, run'[r].score>> : r \in Approved(p)'}
<1>1. ASSUME NEW z \in Busy, job'[z] = job[z] PROVE Fine(z)
  <2>1. ASSUME job[z].at = "rescore", NEW p, p = job[z].permalink
        PROVE  job[z].seen = {<<r, run'[r].score>> : r \in Approved(p)'}
    <3>1. Undisturbed(p)
      BY <1>1, <2>1, Alone, Untouched DEF Past
    <3>2. job[z].seen = {<<r, run[r].score>> : r \in Approved(p)}
      BY <2>1 DEF ParInv, ReadInv
    <3> QED
      BY <3>1, <3>2 DEF Undisturbed
  <2> QED
    BY <1>1, <2>1, RowHeld
<1>2. ASSUME NEW z \in Worker, Opens(z) PROVE Fine(z)
  BY <1>2, NullAssumption DEF Opens, Begins, Opened, Holding
<1>3. ASSUME NEW z \in Worker, GoesPast(z) PROVE Fine(z)
  <2>1. job'[z].at \in {"read", "rescore"} /\ ~Holding(job'[z])
    BY <1>3 DEF GoesPast, Holding
  <2>2. CASE job'[z].at = "rescore"
    <3>1. /\ run' = run /\ job'[z].permalink = job[z].permalink
          /\ job'[z].seen = {<<r, run[r].score>> : r \in Approved(job[z].permalink)}
      BY <1>3, <2>2 DEF GoesPast, ReadApproved
    <3>2. \A p : Approved(p)' = Approved(p)
      BY <3>1 DEF Approved, Rows
    <3> QED
      BY <2>1, <3>1, <3>2
  <2> QED
    BY <2>1, <2>2
<1>4. \A z \in Busy' : Fine(z)
  BY <1>1, <1>2, <1>3, EachMoves
<1>5. \A x \in tick'.due \cup tick'.stale : x[2].score = run'[x[1]].score
  <2>1. CASE tick'.due \subseteq tick.due /\ tick'.stale \subseteq tick.stale
    <3>1. \A x \in tick'.due \cup tick'.stale : x[1] \in Ticked' /\ x \in tick.due \cup tick.stale
      BY <2>1 DEF Ticked
    <3> QED
      BY <3>1, TickRead
  <2>2. CASE /\ UNCHANGED run
             /\ \A x \in tick'.due \cup tick'.stale : x[2] = run[x[1]]
    BY <2>2
  <2> QED
    BY <2>1, <2>2, TickedKept
<1>6. (\A w \in Busy : Holding(job[w]) => job[w].row.score = run[job[w].run].score)'
  BY <1>4 DEF Holding
<1>7. (\A w \in Busy : job[w].at = "rescore" =>
         job[w].seen = {<<r, run[r].score>> : r \in Approved(job[w].permalink)})'
  BY <1>4 DEF Approved
<1> QED
  BY <1>5, <1>6, <1>7 DEF ReadInv

(* A run joins its seed's counting ones by a verdict or a race's result. *)
LEMMA Joins ==
  ASSUME Inv, KeptInv, ParInv, Sorted, RowsKept, NEW r \in Rows, NEW p, r \in Approved(p)'
  PROVE  \/ r \in Approved(p)
         \/ \E w \in Busy : (Captures(w) \/ Rules(w)) /\ job[w].run = r
<1>1. run[r].permalink = p /\ Passed(run'[r])
  BY ApprovedIs DEF RowsKept
<1>2. CASE Passed(run[r])
  BY <1>1, <1>2, ApprovedIs
<1>3. CASE ~Passed(run[r])
  <2>1. ~FromTick(r) /\ ~FromFile(r) /\ run'[r] # run[r]
    BY <1>1, <1>3, EvenTick, EvenFile DEF Even
  <2>2. ~FromScores(r)
    BY <1>3, ScoredRow DEF FromScores
  <2>3. PICK w \in Worker : Turns(w) /\ job[w].run = r
    BY <2>1, <2>2, Sources DEF FromTurn
  <2>4. ~VoidsRun(w)
    <3>1. ASSUME VoidsRun(w) PROVE FALSE
      <4>1. job[w].row \in RunRow
        BY <3>1, Writing
      <4> QED
        BY <1>1, <2>3, <3>1, <4>1 DEF VoidsRun, Puts, RunRow, Passed
    <3> QED
      BY <3>1
  <2> QED
    BY <2>3, <2>4, Acts DEF Turns
<1> QED
  BY <1>2, <1>3

Same(z) == z \in Busy /\ job'[z] = job[z]

(* Of two requests in flight at most one has moved. *)
LEMMA TwoMove ==
  ASSUME Inv, Sorted, NEW y \in Busy', NEW z \in Busy', y # z
  PROVE  \/ Same(y) /\ Same(z)
         \/ y \in Worker /\ (Opens(y) \/ GoesPast(y)) /\ Same(z)
         \/ z \in Worker /\ (Opens(z) \/ GoesPast(z)) /\ Same(y)
<1>1. CASE UNCHANGED job \/ Restart
  BY <1>1 DEF Restart, Busy, Same
<1>2. ASSUME NEW w \in Worker, WStep(w)
      PROVE  \/ Same(y) /\ Same(z)
             \/ y \in Worker /\ (Opens(y) \/ GoesPast(y)) /\ Same(z)
             \/ z \in Worker /\ (Opens(z) \/ GoesPast(z)) /\ Same(y)
  BY <1>2, OneMoves DEF Same
<1> QED
  BY <1>1, <1>2, Drawing DEF Sorted, Pauses, TickPuts

(* What begins shares its seed's recompute only with a review that may     *)
(* still find the run unsettled, and holds no row a recompute will write.  *)
LEMMA OpensClear ==
  ASSUME {"row", "par"} \cap Conflicts = {}, Inv, ParInv, NEW w \in Worker, Opens(w),
         NEW v \in Busy, v # w
  PROVE  /\ Sharing(job'[w], job[v]) /\ Sharing(job[v], job'[w])
         /\ Rescores(job'[w]) /\ job[v].kind # "review" =>
              job[v].run \notin Approved(job'[w].permalink)
         /\ Rescores(job[v]) /\ job'[w].kind # "review" =>
              job'[w].run \notin Approved(job[v].permalink)
<1> SUFFICES ASSUME NEW j, j = job'[w], NEW k, k = job[v]
             PROVE  /\ Sharing(j, k) /\ Sharing(k, j)
                    /\ Rescores(j) /\ k.kind # "review" => k.run \notin Approved(j.permalink)
                    /\ Rescores(k) /\ j.kind # "review" => j.run \notin Approved(k.permalink)
  OBVIOUS
<1>1. Opened(j) /\ MayStart(w, j)
  BY DEF Opens, Begins, Start
<1>2. ~InConflict(j, k).row /\ ~InConflict(j, k).par
  BY <1>1 DEF MayStart, ConflictKind
<1>3. /\ Saves(j) \cap Writes(k) = {} /\ Saves(k) \cap Writes(j) = {}
      /\ Rescores(j) /\ Rescores(k) /\ j.permalink = k.permalink => FirstVerdicts(j, k)
  BY <1>2 DEF InConflict
<1>4. \A p : None \notin Approved(p)
  BY NullAssumption DEF Approved, Rows
<1>5. Rescores(j) /\ k.kind # "review" => k.run \notin Approved(j.permalink)
  BY <1>3, <1>4 DEF Saves, Writes
<1>6. Rescores(k) /\ j.kind # "review" => j.run \notin Approved(k.permalink)
  BY <1>3, <1>4 DEF Saves, Writes
<1>7. ASSUME Rescores(j), Rescores(k), j.permalink = k.permalink
      PROVE  Sharing(j, k) /\ Sharing(k, j)
  <2>1. /\ j.kind = "review" /\ k.kind = "review" /\ j.run = k.run
        /\ run[j.run].review = "pending"
    BY <1>3, <1>7 DEF FirstVerdicts
  <2>2. j.row = run[j.run] /\ j.at = "settle"
    BY <1>1, <2>1 DEF Opened
  <2>3. k.at = "settle" => k.row.review = "pending"
    BY <2>1 DEF ParInv, ReviewInv
  <2> QED
    BY <2>1, <2>2, <2>3 DEF Sharing, Past
<1> QED
  BY <1>5, <1>6, <1>7 DEF Sharing

(* Who goes past its verdict first leaves the other review of the run to   *)
(* find it settled.                                                        *)
LEMMA PastShares ==
  ASSUME Inv, KeptInv, ParInv, NEW w \in Worker, GoesPast(w), NEW v \in Busy, v # w
  PROVE  Sharing(job'[w], job[v]) /\ Sharing(job[v], job'[w])
<1>1. /\ w \in Busy /\ job'[w].kind = job[w].kind /\ job'[w].run = job[w].run
      /\ job'[w].permalink = job[w].permalink /\ Past(job'[w])
      /\ Turns(w) \/ ReadApproved(w)
  BY DEF GoesPast, Past
<1>2. Sharing(job[w], job[v]) /\ Sharing(job[v], job[w])
  BY <1>1 DEF ParInv, ClearInv
<1>3. ASSUME job[w].kind = "review", job[v].kind = "review", job[w].run = job[v].run,
             ~(Past(job[w]) /\ Past(job[v])), job[w].at = "settle" => job[w].row.review = "pending"
      PROVE  ~Past(job[v])
  <2>1. CASE ReadApproved(w)
    BY <1>3, <2>1, AtBusy DEF ReadApproved, Past
  <2>2. CASE Turns(w)
    <3>1. Rules(w)
      BY <1>3, <2>2, TurnKind
    <3>2. run[job[w].run].review = "pending"
      BY <1>3, <3>1 DEF Rules
    <3>3. Past(job[v]) => run[job[v].run].review \in Settled
      BY <1>3 DEF ParInv, ReviewInv
    <3> QED
      BY <1>3, <3>2, <3>3 DEF Settled
  <2> QED
    BY <1>1, <2>1, <2>2
<1> QED
  BY <1>1, <1>2, <1>3 DEF Sharing, Rescores, Past

LEMMA ClearInvStep ==
  ASSUME {"row", "cap", "par"} \cap Conflicts = {}, Inv, KeptInv, ParInv, [Next]_vars, Sorted,
         RowsKept
  PROVE  ClearInv'
<1>1. {"row", "cap"} \cap Conflicts = {} /\ {"row", "par"} \cap Conflicts = {}
  OBVIOUS
<1> DEFINE Stays(z) == /\ z \in Busy /\ job'[z].kind = job[z].kind /\ job'[z].run = job[z].run
                       /\ job'[z].permalink = job[z].permalink
<1>2. \A z \in Busy' : Stays(z) \/ (z \in Worker /\ Opens(z))
  BY EachMoves DEF GoesPast
<1>3. ASSUME NEW w \in Busy', NEW v \in Busy', w # v PROVE Sharing(job'[w], job'[v])
  <2>1. CASE Same(w) /\ Same(v)
    BY <1>3, <2>1 DEF Same, ParInv, ClearInv
  <2>2. CASE w \in Worker /\ (Opens(w) \/ GoesPast(w)) /\ Same(v)
    BY <1>1, <1>3, <2>2, OpensClear, PastShares DEF Same
  <2>3. CASE v \in Worker /\ (Opens(v) \/ GoesPast(v)) /\ Same(w)
    BY <1>1, <1>3, <2>3, OpensClear, PastShares DEF Same
  <2> QED
    BY <1>3, <2>1, <2>2, <2>3, TwoMove
<1>4. ASSUME NEW w \in Busy', NEW v \in Busy', w # v, Rescores(job'[w]), job'[v].kind # "review",
             NEW r, r = job'[v].run, NEW p, p = job'[w].permalink
      PROVE  r \notin Approved(p)'
  <2>1. CASE Stays(w) /\ Stays(v)
    <3>1. Rescores(job[w]) /\ job[v].kind # "review" /\ r = job[v].run /\ p = job[w].permalink
      BY <1>4, <2>1 DEF Rescores
    <3>2. r \notin Approved(p) /\ (r = None \/ r \in Rows)
      BY <1>4, <2>1, <3>1 DEF ParInv, ClearInv, Clear, Inv, Base, Fit
    <3>3. CASE r = None
      BY <3>3, NullAssumption DEF Approved, Rows
    <3>4. CASE r \in Rows
      <4>1. ASSUME r \in Approved(p)', NEW u \in Busy, Captures(u) \/ Rules(u), job[u].run = r
            PROVE  FALSE
        <5>1. u = v
          BY <2>1, <3>1, <3>4, <4>1, NullAssumption DEF Inv, ApartInv, Apart, Rows
        <5>2. Captures(v)
          BY <3>1, <4>1, <5>1 DEF Rules, GoesOn, KeptInv
        <5>3. Rescores(job[v]) /\ run[r].permalink = job[v].permalink
          BY <3>1, <3>4, <5>2, <2>1, NullAssumption DEF Captures, Rescores, KeptInv, Rows
        <5>4. Sharing(job[w], job[v])
          BY <1>4, <2>1 DEF ParInv, ClearInv
        <5>5. job[v].permalink # p
          BY <3>1, <5>3, <5>4 DEF Sharing
        <5>6. run[r].permalink = p
          BY <3>4, <4>1 DEF Approved, RowsKept
        <5> QED
          BY <5>3, <5>5, <5>6
      <4> QED
        BY <3>2, <3>4, <4>1, Joins
    <3> QED
      BY <3>2, <3>3, <3>4
  <2>2. CASE w \in Worker /\ Opens(w)
    <3>1. Same(v) /\ run' = run
      BY <1>4, <2>2, TwoMove DEF Same, Opens, Begins, Start, MayStart, GoesPast, Busy
    <3>2. r \notin Approved(p)
      BY <1>1, <1>4, <2>2, <3>1, OpensClear DEF Same
    <3> QED
      BY <3>1, <3>2 DEF Approved, Rows
  <2>3. CASE v \in Worker /\ Opens(v)
    <3>1. Same(w) /\ run' = run
      BY <1>4, <2>3, TwoMove DEF Same, Opens, Begins, Start, MayStart, GoesPast, Busy
    <3>2. r \notin Approved(p)
      BY <1>1, <1>4, <2>3, <3>1, OpensClear DEF Same
    <3> QED
      BY <3>1, <3>2 DEF Approved, Rows
  <2> QED
    BY <1>2, <1>4, <2>1, <2>2, <2>3
<1>5. ASSUME NEW w \in Busy', Rescores(job'[w]), NEW p, p = job'[w].permalink,
             NEW r \in Ticked', r \in Approved(p)'
      PROVE  FALSE
  <2>1. CASE tick'.due \subseteq tick.due /\ tick'.stale \subseteq tick.stale
    <3>1. r \in Ticked /\ r \in Rows
      BY <1>5, <2>1 DEF Ticked, Inv, TickInv, TickHeld
    <3>2. CASE Stays(w)
      <4>1. r \notin Approved(p)
        BY <1>5, <3>1, <3>2 DEF ParInv, ClearInv, Rescores
      <4> QED
        BY <1>5, <3>1, <4>1, Joins DEF Inv, ApartInv
    <3>3. CASE w \in Worker /\ Opens(w)
      <4>1. Writes(job'[w]) \cap Ticked = {} /\ run' = run
        BY <1>1, <3>3 DEF Opens, Begins, Start, MayStart
      <4>2. Approved(p)' = Approved(p)
        BY <4>1 DEF Approved, Rows
      <4> QED
        BY <1>5, <3>1, <4>1, <4>2 DEF Writes
    <3> QED
      BY <1>2, <3>2, <3>3
  <2>2. CASE /\ UNCHANGED <<run, job>>
             /\ \A z \in Busy : Writes(job[z]) \cap Ticked' = {}
    <3>1. w \in Busy /\ job'[w] = job[w] /\ Approved(p)' = Approved(p)
      BY <2>2 DEF Busy, Approved, Rows
    <3> QED
      BY <1>5, <2>2, <3>1 DEF Writes
  <2> QED
    BY <1>1, <2>1, <2>2, TickedKept
<1>6. (\A w, v \in Busy : w # v => Clear(job[w], job[v]))'
  BY <1>4 DEF Clear, Approved, Rescores
<1>7. (\A w \in Busy : Rescores(job[w]) => Ticked \cap Approved(job[w].permalink) = {})'
  BY <1>5 DEF Approved, Rescores, Ticked
<1>8. (\A w, v \in Busy : w # v => Sharing(job[w], job[v]))'
  BY <1>3 DEF Sharing, Rescores, Past
<1> QED
  BY <1>6, <1>7, <1>8 DEF ClearInv

(* A recompute that has begun goes on until it has written. *)
LEMMA PastStays ==
  ASSUME Inv, Sorted, ~Restart, NEW w \in Busy, Past(job[w]), ~WriteScores(w)
  PROVE  w \in Busy' /\ Past(job'[w]) /\ job'[w].permalink = job[w].permalink
<1>1. w \in Worker /\ job[w] \in Jobs /\ job \in [Worker -> {Idle} \cup Jobs]
  BY JobTyped DEF Inv, Base, TypeOK
<1>2. CASE job'[w] = job[w]
  BY <1>2 DEF Busy
<1>3. CASE WStep(w)
  <2>1. ReadApproved(w)
    BY <1>3 DEF WStep, Opens, Begins, Start, MayStart, Busy, Files, VoidsRun, Captures, Rules, Misses,
       Past
  <2>2. job'[w] = [job[w] EXCEPT !.at = "rescore",
                     !.seen = {<<r, run[r].score>> : r \in Approved(job[w].permalink)}]
    BY <1>1, <2>1 DEF ReadApproved, Go
  <2>3. job'[w].at = "rescore" /\ job'[w].permalink = job[w].permalink
        /\ job'[w].kind = job[w].kind
    BY <1>1, <2>2 DEF Jobs
  <2>4. w \in Busy'
    BY <1>1, <2>3 DEF Busy, Idle, Jobs, Kind
  <2> QED
    BY <2>3, <2>4 DEF Past
<1>4. ASSUME NEW u \in Worker, u # w, WStep(u) PROVE job'[w] = job[w]
  <2>1. \E j : job' = [job EXCEPT ![u] = j]
    BY <1>4 DEF WStep, Opens, Begins, Start, Go, Files, VoidsRun, Captures, Rules, Misses, Ends,
       GoesOn, ReadApproved, WriteScores, Done
  <2> QED
    BY <1>1, <1>4, <2>1
<1> QED
  BY <1>2, <1>3, <1>4, Drawing DEF Sorted, Pauses, TickPuts

LEMMA ScoreInvStep ==
  ASSUME Inv, KeptInv, ParInv, Sorted, RowsKept
  PROVE  ScoreInv'
<1>1. ASSUME crashes' = 0, NEW p \in Permalink,
             \A w \in Busy' : Past(job'[w]) => job'[w].permalink # p
      PROVE  Scored(p)'
  <2>1. crashes \in Nat
    BY CountAssumption DEF Inv, Base, TypeOK
  <2>2. ~Restart
    BY <1>1, <2>1 DEF Restart
  <2>3. crashes = 0
    BY <1>1, <2>2, Drawing DEF Sorted, Pauses, TickPuts, WStep, Opens, Begins, Files, VoidsRun,
       Captures, Rules, Misses, ReadApproved, WriteScores
  <2>4. CASE ScoresOn(p)
    BY <2>4, Recomputed DEF ScoresOn
  <2>5. ASSUME NEW w \in Worker, Turns(w), job[w].permalink = p PROVE FALSE
    <3>1. w \in Busy /\ job[w] \in Jobs /\ job \in [Worker -> {Idle} \cup Jobs]
      BY <2>5, Acts, JobTyped DEF Inv, Base, TypeOK
    <3>2. job'[w] = [job[w] EXCEPT !.at = "read"]
      BY <2>5, <3>1 DEF Turns, VoidsRun, Captures, Rules, GoesOn
    <3>3. job'[w].at = "read" /\ job'[w].permalink = p /\ job'[w].kind = job[w].kind
      BY <2>5, <3>1, <3>2 DEF Jobs
    <3>4. w \in Busy'
      BY <2>5, <3>1, <3>3 DEF Busy, Idle, Jobs, Kind
    <3> QED
      BY <1>1, <3>3, <3>4 DEF Past
  <2>6. CASE ~ScoresOn(p)
    <3>1. Undisturbed(p)
      BY <2>5, <2>6, Untouched DEF TurnsOn
    <3>2. \A w \in Busy : Past(job[w]) => job[w].permalink # p
      <4>1. ASSUME NEW w \in Busy, Past(job[w]), job[w].permalink = p PROVE FALSE
        <5>1. ~WriteScores(w)
          BY <2>6, <4>1, JobTyped DEF ScoresOn, Inv, Base
        <5> QED
          BY <1>1, <2>2, <4>1, <5>1, PastStays
      <4> QED
        BY <4>1
    <3>3. Scored(p)
      BY <2>3, <3>2 DEF ParInv, ScoreInv
    <3>4. par'[p] = par[p]
      <4>1. CASE UNCHANGED par
        BY <4>1
      <4>2. ASSUME NEW w \in Worker, WriteScores(w) PROVE par'[p] = par[p]
        <5>1. job[w].permalink # p /\ par \in [Permalink -> SUBSET Run]
          BY <2>6, <4>2 DEF ScoresOn, Inv, Base, TypeOK
        <5> QED
          BY <4>2, <5>1 DEF WriteScores
      <4> QED
        BY <2>2, <4>1, <4>2, Drawing DEF Sorted, Pauses, TickPuts, WStep, Opens, Begins, Files,
           VoidsRun, Captures, Rules, Misses, ReadApproved
    <3>5. par'[p] = Approved(p)' /\ \A r \in Approved(p)' : run'[r].score = Against(Approved(p)')
      BY <3>1, <3>3, <3>4 DEF Undisturbed, Scored
    <3> QED
      BY <3>5 DEF Scored
  <2> QED
    BY <2>4, <2>6
<1>2. \A r \in Rows' : ~Passed(run'[r]) => run'[r].score \in {None, Zero}
  BY TidyStep
<1>3. (crashes = 0 => \A p \in Permalink :
         (\A w \in Busy : Past(job[w]) => job[w].permalink # p) => Scored(p))'
  BY <1>1 DEF Past
<1> QED
  BY <1>2, <1>3 DEF ScoreInv, Passed

(* "A fresh par standing beside stale scores ... the one state nothing     *)
(* downstream can detect" is not reached, as long as no two requests,      *)
(* other than the first verdicts on one run, recompute the same seed, and  *)
(* none writes back a run that another may rescore: the recompute of each  *)
(* request finds every run it must count, with the score it has, and what  *)
(* it writes is still so when the request is answered.                     *)
THEOREM ScoresRight ==
  ASSUME {"row", "cap", "par"} \cap Conflicts = {}, AnyClaim = FALSE
  PROVE  Spec => []ScoresFollowPar
<1>0. {"row", "cap"} \cap Conflicts = {}
  OBVIOUS
<1>1. Init => ParInv
  <2> SUFFICES ASSUME Init PROVE ParInv
    OBVIOUS
  <2>1. Busy = {} /\ Rows = {} /\ tick.due \cup tick.stale = {} /\ Ticked = {}
    BY DEF Init, Busy, Rows, Ticked
  <2>2. \A p \in Permalink : Scored(p)
    BY <2>1 DEF Init, Scored, Approved
  <2> QED
    BY <2>1, <2>2 DEF ParInv, ReviewInv, ClearInv, ReadInv, ScoreInv
<1>2. Inv /\ KeptInv /\ ParInv /\ [Next]_vars => Inv' /\ KeptInv' /\ ParInv'
  <2> SUFFICES ASSUME Inv, KeptInv, ParInv, [Next]_vars PROVE Inv' /\ KeptInv' /\ ParInv'
    OBVIOUS
  <2>1. Sorted /\ RowsKept /\ Inv' /\ KeptInv'
    BY <1>0, KeptSteps, StepSorted, RowsKeptStep
  <2>2. ReviewInv' /\ ScoreInv'
    BY <2>1, ReviewInvStep, ScoreInvStep
  <2>3. ReadInv' /\ ClearInv'
    BY <1>0, <2>1, ReadInvStep, ClearInvStep
  <2> QED
    BY <2>1, <2>2, <2>3 DEF ParInv
<1>3. Inv /\ ParInv => ScoresFollowPar
  <2> SUFFICES ASSUME Inv, ParInv, Quiet, crashes = 0
               PROVE  /\ \A p \in Permalink : par[p] = Approved(p)
                      /\ \A r \in Rows :
                           IF r \in Approved(run[r].permalink)
                           THEN run[r].score = Against(Approved(run[r].permalink))
                           ELSE run[r].score \in {None, Zero}
    BY DEF ScoresFollowPar
  <2>1. \A p \in Permalink : Scored(p)
    BY DEF ParInv, ScoreInv, Quiet
  <2>2. ASSUME NEW r \in Rows, NEW p, p = run[r].permalink
        PROVE  IF r \in Approved(p) THEN run[r].score = Against(Approved(p))
               ELSE run[r].score \in {None, Zero}
    <3>1. p \in Permalink
      BY <2>2, RowTyped DEF Inv, Base, RunRow
    <3>2. CASE r \in Approved(p)
      BY <2>1, <3>1, <3>2 DEF Scored
    <3>3. CASE r \notin Approved(p)
      BY <2>2, <3>3, ApprovedIs DEF ParInv, ScoreInv
    <3> QED
      BY <3>2, <3>3
  <2> QED
    BY <2>1, <2>2 DEF Scored
<1>4. Init => Inv /\ KeptInv
  BY <1>0, InvInit, KeptSteps
<1> QED
  BY <1>1, <1>2, <1>3, <1>4, PTL DEF Spec

=============================================================================

------------------------- MODULE BracketSeries_proofs -------------------------
(***************************************************************************)
(* Proofs about BracketSeries, for any series length and any number of     *)
(* requests: types, foreign keys and the single settle whatever overlaps   *)
(* with whatever; that a decided series is recorded, strands no game and   *)
(* an undecided one can go on when only settles overlap.                   *)
(***************************************************************************)
EXTENDS BracketSeries, FiniteSetTheorems, WellFoundedInduction, TLAPS

(* A set of numbers has a least member, which Lowest returns. *)
LEMMA LowestExists ==
  ASSUME NEW S, S \subseteq Nat, S # {}
  PROVE  \E x \in S : \A y \in S : x <= y
<1>1. PICK x \in S : \A y \in S : ~(<<y, x>> \in OpToRel(<, Nat))
  BY NatLessThanWellFounded, WFMin
<1>2. \A y \in S : ~(y < x)
  BY <1>1 DEF OpToRel
<1> QED
  BY <1>2

LEMMA LowestIn ==
  ASSUME NEW S, S \subseteq Nat, S # {}
  PROVE  Lowest(S) \in S
  BY LowestExists DEF Lowest

(* A score counts games. *)
LEMMA StandingType ==
  ASSUME TypeOK
  PROVE  Standing \in Score
<1>1. ASSUME NEW s \in Side
      PROVE  Cardinality({g \in InState("complete") : game[g].winner = s}) \in 0..Cardinality(Game)
  <2>1. {g \in InState("complete") : game[g].winner = s} \in SUBSET Game
    BY DEF InState, Rows
  <2> QED
    BY <2>1, IdAssumption, FS_Subset, FS_CardinalityType
<1> QED
  BY <1>1 DEF Standing, Score

LEMMA BlankType == Blank \in Jobs
  BY DEF Blank, Jobs, Kind, Steps, SideOrNone

LEMMA JobType ==
  ASSUME TypeOK, NEW w \in Worker, job[w] # Idle
  PROVE  job[w] \in Jobs
  BY DEF TypeOK

LEMMA ScheduledType ==
  ASSUME TypeOK
  PROVE  /\ InState("scheduled") \subseteq Game
         /\ \A g \in InState("scheduled") : game[g] \in GameRow
         /\ {<<g, game[g]>> : g \in InState("scheduled")} \subseteq Game \X GameRow
         /\ {game[g].match : g \in InState("scheduled")} \ {None} \subseteq Match
<1>1. \A g \in InState("scheduled") : g \in Game /\ game[g] \in GameRow
  BY DEF InState, Rows, TypeOK
<1> QED
  BY <1>1 DEF GameRow

LEMMA GoType ==
  ASSUME TypeOK, NEW w \in Worker, NEW j \in Jobs \cup {Idle}, Go(w, j)
  PROVE  job' \in [Worker -> {Idle} \cup Jobs]
  BY DEF Go, TypeOK

LEMMA InterveneType ==
  ASSUME TypeOK, Intervene
  PROVE  staff' \in 0..MaxStaff
  BY OverlapAssumption DEF Intervene, TypeOK

LEMMA DeleteGamesType ==
  ASSUME TypeOK, NEW S
  PROVE  DeleteGames(S) \in [Game -> GameRow \cup {None}]
  BY DEF DeleteGames, TypeOK

LEMMA UnlinkedType ==
  ASSUME NEW rows \in [Game -> GameRow \cup {None}], NEW m
  PROVE  Unlinked(rows, m) \in [Game -> GameRow \cup {None}]
<1>1. ASSUME NEW r \in GameRow PROVE [r EXCEPT !.match = None] \in GameRow
  BY <1>1 DEF GameRow
<1> QED
  BY <1>1 DEF Unlinked

-----------------------------------------------------------------------------
(* Type correctness.                                                       *)

LEMMA SeriesTypeInit == Init => TypeOK
<1> SUFFICES ASSUME Init PROVE TypeOK
  OBVIOUS
<1>1. length \in [override : Lengths \cup {None}, round : Lengths]
  BY DEF Init
<1>2. matchup \in [state : {"open", "complete"}, winner : SideOrNone, score : Score \cup {None}]
  BY DEF Init, SideOrNone
<1>3. game \in [Game -> GameRow \cup {None}] /\ match \in [Match -> MatchRow \cup {None}]
  BY DEF Init
<1>4. queue \in Seq(Match) /\ job \in [Worker -> {Idle} \cup Jobs]
  BY DEF Init
<1>5. created \in [match : Nat, game : Nat] /\ announced \in [Game -> Nat]
  BY DEF Init
<1> QED
  BY <1>1, <1>2, <1>3, <1>4, <1>5, OverlapAssumption DEF TypeOK, Init

(* A settle begins from the match it was called with. *)
LoadsAMatch == \A w \in Worker : job[w] # Idle /\ job[w].at = "load" => job[w].match \in Match

(* A game row's foreign key: the match it names is still there. *)
ForeignKeys == \A g \in Rows : game[g].match # None => match[game[g].match] # None

TypeInv == TypeOK /\ LoadsAMatch /\ ForeignKeys

LEMMA LoadGameType ==
  ASSUME TypeInv, NEW w \in Worker, LoadGame(w)
  PROVE  TypeOK'
<1> DEFINE m == job[w].match
           found == {g \in RowsOf(m) : game[g].state = "scheduled" /\ match[m].winner # None}
           loaded == [job[w] EXCEPT !.at = "settle", !.game = Lowest(found),
                                    !.open = (matchup.state = "open"),
                                    !.override = length.override,
                                    !.winner = match[m].winner, !.forfeit = match[m].forfeit]
<1>1. job[w] \in Jobs /\ m \in Match
  BY JobType DEF LoadGame, At, TypeInv, LoadsAMatch
<1>2. CASE found = {}
  BY <1>2, GoType DEF LoadGame, TypeOK, TypeInv
<1>3. CASE found # {}
  <2>1. found \subseteq Game /\ found \subseteq Nat
    BY IdAssumption DEF RowsOf, Rows
  <2>2. Lowest(found) \in Game
    BY <1>3, <2>1, LowestIn
  <2>3. match[m] \in MatchRow
    BY <1>1, <1>3, IdAssumption DEF RowsOf, Rows, TypeInv, TypeOK, ForeignKeys, GameRow
  <2>4. loaded \in Jobs
    <3>1. match[m].winner \in SideOrNone /\ match[m].forfeit \in BOOLEAN
      BY <2>3 DEF MatchRow
    <3>2. length.override \in Lengths \cup {None}
      BY DEF TypeInv, TypeOK
    <3>3. (matchup.state = "open") \in BOOLEAN
      OBVIOUS
    <3> HIDE DEF found
    <3> QED
      BY <1>1, <2>2, <3>1, <3>2, <3>3, ZenonT(60) DEF Jobs, Steps
  <2> QED
    BY <1>3, <2>4, GoType DEF LoadGame, TypeOK, TypeInv
<1> QED
  BY <1>2, <1>3

LEMMA SettleGameType ==
  ASSUME TypeOK, NEW w \in Worker, SettleGame(w)
  PROVE  TypeOK'
<1> DEFINE g == job[w].game
<1>1. job[w] \in Jobs
  BY JobType DEF SettleGame, At
<1>2. [job[w] EXCEPT !.at = "judge"] \in Jobs
  BY <1>1 DEF Jobs, Steps
<1>3. CASE StillScheduled(g)
  <2>1. game' \in [Game -> GameRow \cup {None}]
    <3>1. game' = [game EXCEPT ![g].state = "complete", ![g].winner = job[w].winner,
                               ![g].forfeit = job[w].forfeit]
      BY <1>3 DEF SettleGame
    <3>2. g \in Game => game[g] \in GameRow
      BY <1>3 DEF StillScheduled, TypeOK
    <3>3. job[w].winner \in SideOrNone /\ job[w].forfeit \in BOOLEAN
      BY <1>1 DEF Jobs
    <3>4. g \in Game => [game[g] EXCEPT !.state = "complete", !.winner = job[w].winner,
                                        !.forfeit = job[w].forfeit] \in GameRow
      BY <3>2, <3>3 DEF GameRow
    <3> QED
      BY <3>1, <3>4 DEF TypeOK
  <2>2. announced' \in [Game -> Nat]
    BY <1>3 DEF SettleGame, TypeOK
  <2> QED
    BY <1>2, <1>3, <2>1, <2>2, GoType DEF SettleGame, TypeOK
<1>4. CASE ~StillScheduled(g)
  BY <1>4, GoType DEF SettleGame, Done, TypeOK
<1> QED
  BY <1>3, <1>4

LEMMA JudgeType ==
  ASSUME TypeOK, NEW w \in Worker, Judge(w)
  PROVE  TypeOK'
<1> DEFINE scheduled == InState("scheduled")
           clinch == [job[w] EXCEPT
                        !.at = "cancel", !.then = "record", !.score = Standing,
                        !.forfeit = \A g \in InState("complete") : game[g].forfeit,
                        !.pending = {<<g, game[g]>> : g \in scheduled},
                        !.doomed = {game[g].match : g \in scheduled} \ {None}]
<1>1. job[w] \in Jobs
  BY JobType DEF Judge, At
<1>2. clinch \in Jobs
  BY <1>1, StandingType, ScheduledType, ZenonT(60) DEF Jobs, Steps
<1> QED
  BY <1>2, GoType DEF Judge, TypeOK

(* The row CancelGame takes next is one of those it loaded. *)
LEMMA FirstPending ==
  ASSUME TypeOK, NEW w \in Worker, CancelGame(w)
  PROVE  LET p == CHOOSE x \in job[w].pending : \A y \in job[w].pending : x[1] <= y[1]
         IN  p[1] \in Game /\ p[2] \in GameRow /\ p \in job[w].pending
<1> DEFINE pending == job[w].pending
           first == {x[1] : x \in pending}
           p == CHOOSE x \in pending : \A y \in pending : x[1] <= y[1]
<1>1. job[w] \in Jobs
  BY JobType DEF CancelGame, At
<1>2. pending \subseteq Game \X GameRow /\ pending # {}
  BY <1>1 DEF Jobs, CancelGame
<1>3. first \subseteq Nat /\ first # {}
  BY <1>2, IdAssumption
<1>4. \E x \in pending : \A y \in pending : x[1] <= y[1]
  <2>1. \E l \in first : \A k \in first : l <= k
    BY <1>3, LowestExists
  <2> QED
    BY <2>1
<1>5. p \in pending
  BY <1>4
<1> QED
  BY <1>2, <1>5

LEMMA CancelGameType ==
  ASSUME TypeOK, NEW w \in Worker, CancelGame(w)
  PROVE  TypeOK'
<1> DEFINE p == CHOOSE x \in job[w].pending : \A y \in job[w].pending : x[1] <= y[1]
           refused == game[p[1]] # None /\ p[2].match # None /\ match[p[2].match] = None
<1>1. job[w] \in Jobs
  BY JobType DEF CancelGame, At
<1>2. p[1] \in Game /\ p[2] \in GameRow
  BY FirstPending
<1>3. [p[2] EXCEPT !.state = "cancelled"] \in GameRow
  BY <1>2 DEF GameRow
<1>4. [job[w] EXCEPT !.pending = @ \ {p}] \in Jobs
  BY <1>1 DEF Jobs
<1>5. /\ game' = IF game[p[1]] = None \/ refused THEN game
                 ELSE [game EXCEPT ![p[1]] = [p[2] EXCEPT !.state = "cancelled"]]
      /\ Go(w, IF refused THEN Idle ELSE [job[w] EXCEPT !.pending = @ \ {p}])
  BY DEF CancelGame
<1>6. game' \in [Game -> GameRow \cup {None}]
  BY <1>3, <1>5 DEF TypeOK
<1>7. job' \in [Worker -> {Idle} \cup Jobs]
  BY <1>4, <1>5, GoType
<1> QED
  BY <1>6, <1>7 DEF CancelGame, TypeOK

(* The other steps of a request that change no row but their job. *)
LEMMA JobOnlyType ==
  ASSUME TypeOK, NEW w \in Worker, AllCancelled(w) \/ RecordSeries(w) \/ Sweep(w)
  PROVE  TypeOK'
<1>1. job[w] \in Jobs
  BY JobType DEF AllCancelled, RecordSeries, Sweep, At
<1>2. CASE AllCancelled(w)
  <2> DEFINE next == IF job[w].at = "cancel" /\ job[w].then = "record" /\ ~job[w].open
                     THEN "teardown" ELSE job[w].then
  <2>1. next \in Steps
    BY <1>1 DEF Jobs, Steps
  <2>2. [job[w] EXCEPT !.at = next] \in Jobs
    BY <1>1, <2>1 DEF Jobs
  <2> QED
    BY <1>2, <2>2, GoType DEF AllCancelled, TypeOK
<1>3. CASE RecordSeries(w)
  <2>1. [job[w] EXCEPT !.at = "save"] \in Jobs
    BY <1>1 DEF Jobs, Steps
  <2> QED
    BY <1>3, <2>1, GoType DEF RecordSeries, TypeOK
<1>4. CASE Sweep(w)
  <2> DEFINE swept == [job[w] EXCEPT
                         !.at = "cancel", !.then = "teardown",
                         !.pending = {<<g, game[g]>> : g \in InState("scheduled")},
                         !.doomed = @ \cup ({game[g].match : g \in InState("scheduled")} \ {None})]
  <2>1. swept \in Jobs
    BY <1>1, ScheduledType DEF Jobs, Steps
  <2> QED
    BY <1>4, <2>1, GoType DEF Sweep, TypeOK
<1> QED
  BY <1>2, <1>3, <1>4

LEMMA SaveResultType ==
  ASSUME TypeOK, NEW w \in Worker, SaveResult(w)
  PROVE  TypeOK'
<1>1. job[w] \in Jobs
  BY JobType DEF SaveResult, At
<1>2. [job[w] EXCEPT !.at = "sweep"] \in Jobs
  BY <1>1 DEF Jobs, Steps
<1>3. [state |-> "complete", winner |-> job[w].winner, score |-> job[w].score]
        \in [state : {"open", "complete"}, winner : SideOrNone, score : Score \cup {None}]
  BY <1>1 DEF Jobs
<1> QED
  BY <1>2, <1>3, GoType DEF SaveResult, TypeOK

LEMMA TeardownType ==
  ASSUME TypeOK, NEW w \in Worker, Teardown(w)
  PROVE  TypeOK'
<1>1. job[w] \in Jobs
  BY JobType DEF Teardown, At
<1>2. CASE job[w].doomed = {}
  BY <1>2, GoType DEF Teardown, Done, TypeOK
<1>3. CASE job[w].doomed # {}
  <2> DEFINE m == Lowest(job[w].doomed)
             released == RowsOf(m) \cap InState("scheduled")
  <2>1. [job[w] EXCEPT !.doomed = @ \ {m}] \in Jobs
    BY <1>1 DEF Jobs
  <2>2. Unlinked(DeleteGames(released), m) \in [Game -> GameRow \cup {None}]
    BY DeleteGamesType, UnlinkedType
  <2>3. [match EXCEPT ![m] = None] \in [Match -> MatchRow \cup {None}]
    BY DEF TypeOK
  <2> QED
    BY <1>3, <2>1, <2>2, <2>3, GoType DEF Teardown, TypeOK
<1> QED
  BY <1>2, <1>3

(* Booking, linking and removal. *)
LEMMA NumberType == FreeNumbers # {} => Lowest(FreeNumbers) \in Nat
  BY LowestIn DEF FreeNumbers

LEMMA BookType ==
  ASSUME TypeOK, NEW w \in Worker, Book(w)
  PROVE  TypeOK'
<1> DEFINE m == created.match + 1
           row == [finished |-> FALSE, confirmed |-> FALSE, winner |-> None, forfeit |-> FALSE]
           j == [Blank EXCEPT !.kind = "book", !.at = "create", !.match = m,
                              !.number = Lowest(FreeNumbers)]
<1>1. m \in Match /\ FreeNumbers # {}
  BY DEF Book, Bookable
<1>2. j \in Jobs
  BY <1>1, NumberType, BlankType DEF Jobs, Kind, Steps
<1>3. [match EXCEPT ![m] = row] \in [Match -> MatchRow \cup {None}]
  BY DEF TypeOK, MatchRow, SideOrNone
<1>4. [created EXCEPT !.match = m] \in [match : Nat, game : Nat]
  BY DEF TypeOK
<1>5. /\ match' = [match EXCEPT ![m] = row]
      /\ created' = [created EXCEPT !.match = m]
      /\ Go(w, j)
  BY DEF Book
<1> HIDE DEF j, row, m
<1> QED
  BY <1>2, <1>3, <1>4, <1>5, GoType DEF Book, TypeOK

LEMMA LinkType ==
  ASSUME TypeOK, NEW w \in Worker, NEW m \in Match, Link(w, m)
  PROVE  TypeOK'
<1> DEFINE j == [Blank EXCEPT !.kind = "link", !.at = "create", !.match = m,
                              !.number = Lowest(FreeNumbers)]
<1>1. j \in Jobs
  BY NumberType, BlankType DEF Link, Bookable, Jobs, Kind, Steps
<1> QED
  BY <1>1, GoType DEF Link, TypeOK

LEMMA CreateGameType ==
  ASSUME TypeOK, NEW w \in Worker, CreateGame(w)
  PROVE  TypeOK'
<1> DEFINE m == job[w].match
           n == job[w].number
           row == [number |-> n, state |-> "scheduled", winner |-> None,
                   forfeit |-> FALSE, match |-> m]
<1>1. job[w] \in Jobs
  BY JobType DEF CreateGame, At
<1>2. row \in GameRow
  BY <1>1 DEF Jobs, GameRow, SideOrNone
<1>3. [game EXCEPT ![created.game + 1] = row] \in [Game -> GameRow \cup {None}]
  BY <1>2 DEF TypeOK
<1>4. [created EXCEPT !.game = @ + 1] \in [match : Nat, game : Nat]
  BY DEF TypeOK
<1>5. \/ UNCHANGED <<game, created>>
      \/ /\ game' = [game EXCEPT ![created.game + 1] = row]
         /\ created' = [created EXCEPT !.game = @ + 1]
  BY DEF CreateGame
<1> HIDE DEF row
<1> QED
  BY <1>3, <1>4, <1>5, GoType DEF CreateGame, Done, TypeOK

LEMMA UnlinkType ==
  ASSUME TypeOK, NEW w \in Worker, NEW m \in Match, Unlink(w, m)
  PROVE  TypeOK'
<1>1. PICK g \in RowsOf(m) \cap InState("scheduled") :
        Go(w, [Blank EXCEPT !.kind = "unlink", !.at = "unlink", !.match = m, !.game = g])
  BY DEF Unlink
<1>2. g \in Game
  BY DEF RowsOf, Rows
<1>3. [Blank EXCEPT !.kind = "unlink", !.at = "unlink", !.match = m, !.game = g] \in Jobs
  BY <1>2, BlankType DEF Jobs, Kind, Steps
<1> QED
  BY <1>1, <1>3, GoType, InterveneType DEF Unlink, TypeOK

LEMMA RemoveMatchType ==
  ASSUME TypeOK, NEW w \in Worker, NEW m \in Match, RemoveMatch(w, m)
  PROVE  TypeOK'
<1> DEFINE released == RowsOf(m) \cap InState("scheduled")
           g == IF released = {} THEN None ELSE Lowest(released)
           j == [Blank EXCEPT !.kind = "remove", !.at = "remove", !.match = m, !.game = g]
<1>1. released \subseteq Game /\ released \subseteq Nat
  BY IdAssumption DEF RowsOf, Rows
<1>2. g \in Game \cup {None}
  BY <1>1, LowestIn
<1> HIDE DEF released, g
<1>3. j \in Jobs
  BY <1>2, BlankType DEF Jobs, Kind, Steps
<1>4. Go(w, j)
  BY DEF RemoveMatch, released, g
<1> QED
  BY <1>3, <1>4, GoType, InterveneType DEF RemoveMatch, TypeOK

LEMMA DeleteMatchType ==
  ASSUME TypeOK, NEW w \in Worker, DeleteMatch(w)
  PROVE  TypeOK'
<1>1. Unlinked(DeleteGames({job[w].game}), job[w].match) \in [Game -> GameRow \cup {None}]
  BY DeleteGamesType, UnlinkedType
<1>2. [match EXCEPT ![job[w].match] = None] \in [Match -> MatchRow \cup {None}]
  BY DEF TypeOK
<1> QED
  BY <1>1, <1>2, GoType DEF DeleteMatch, Done, TypeOK

LEMMA UnlinkGameType ==
  ASSUME TypeOK, NEW w \in Worker, UnlinkGame(w)
  PROVE  TypeOK'
  BY DeleteGamesType, GoType DEF UnlinkGame, Done, TypeOK

(* Results arriving on the matches. *)
LEMMA MatchType ==
  ASSUME TypeOK, NEW m \in Match, match[m] # None,
         NEW r \in MatchRow
  PROVE  [match EXCEPT ![m] = r] \in [Match -> MatchRow \cup {None}]
  BY DEF TypeOK

LEMMA ResultType ==
  ASSUME TypeOK, NEW m \in Match, match[m] # None
  PROVE  /\ \A s \in SideOrNone, f \in BOOLEAN :
              [match[m] EXCEPT !.finished = TRUE, !.winner = s, !.forfeit = f] \in MatchRow
         /\ \A s \in Side : [match[m] EXCEPT !.winner = s, !.forfeit = FALSE] \in MatchRow
         /\ [match[m] EXCEPT !.finished = TRUE] \in MatchRow
         /\ [match[m] EXCEPT !.confirmed = TRUE] \in MatchRow
<1>1. match[m] \in MatchRow
  BY DEF TypeOK
<1> QED
  BY <1>1 DEF MatchRow, SideOrNone

LEMMA PlayType ==
  ASSUME TypeOK, NEW m \in Match
  PROVE  /\ \A w \in Worker, s \in SideOrNone, f \in Forfeits : RecordFinish(w, m, s, f) => TypeOK'
         /\ \A s \in Side : RecordMatchResult(m, s) => TypeOK'
         /\ FinishMatch(m) => TypeOK'
         /\ ConfirmMatch(m) => TypeOK'
<1>1. ASSUME NEW w \in Worker, NEW s \in SideOrNone, NEW f \in Forfeits,
             RecordFinish(w, m, s, f)
      PROVE  TypeOK'
  <2>1. f \in BOOLEAN /\ match[m] # None
    BY <1>1, FlagAssumption DEF RecordFinish
  <2>2. [match[m] EXCEPT !.finished = TRUE, !.winner = s, !.forfeit = f] \in MatchRow
    BY <2>1, ResultType
  <2>3. match' = [match EXCEPT ![m] = [match[m] EXCEPT !.finished = TRUE, !.winner = s, !.forfeit = f]]
    BY <1>1 DEF RecordFinish, TypeOK
  <2>4. match' \in [Match -> MatchRow \cup {None}]
    BY <2>1, <2>2, <2>3, MatchType
  <2>5. [Blank EXCEPT !.match = m] \in Jobs
    BY BlankType DEF Jobs
  <2>6. staff' \in 0..MaxStaff
    BY <1>1, InterveneType DEF RecordFinish, TypeOK
  <2> QED
    BY <1>1, <2>4, <2>5, <2>6, GoType DEF RecordFinish, TypeOK
<1>2. ASSUME NEW s \in Side, RecordMatchResult(m, s) PROVE TypeOK'
  <2>1. match[m] # None
    BY <1>2 DEF RecordMatchResult
  <2>2. match' = [match EXCEPT ![m] = [match[m] EXCEPT !.winner = s, !.forfeit = FALSE]]
    BY <1>2 DEF RecordMatchResult, TypeOK
  <2>3. match' \in [Match -> MatchRow \cup {None}]
    BY <2>1, <2>2, MatchType, ResultType
  <2>4. staff' \in 0..MaxStaff
    BY <1>2, InterveneType DEF RecordMatchResult, TypeOK
  <2> QED
    BY <1>2, <2>3, <2>4 DEF RecordMatchResult, TypeOK
<1>3. ASSUME FinishMatch(m) PROVE TypeOK'
  <2>1. match[m] # None /\ match' = [match EXCEPT ![m] = [match[m] EXCEPT !.finished = TRUE]]
    BY <1>3 DEF FinishMatch, TypeOK
  <2>2. match' \in [Match -> MatchRow \cup {None}]
    BY <2>1, MatchType, ResultType
  <2> QED
    BY <1>3, <2>2 DEF FinishMatch, TypeOK
<1>4. ASSUME ConfirmMatch(m) PROVE TypeOK'
  <2>1. match[m] # None /\ match' = [match EXCEPT ![m] = [match[m] EXCEPT !.confirmed = TRUE]]
    BY <1>4 DEF ConfirmMatch, TypeOK
  <2>2. match' \in [Match -> MatchRow \cup {None}]
    BY <2>1, MatchType, ResultType
  <2>3. queue' \in Seq(Match)
    BY <1>4 DEF ConfirmMatch, TypeOK
  <2> QED
    BY <1>4, <2>2, <2>3 DEF ConfirmMatch, TypeOK
<1> QED
  BY <1>1, <1>2, <1>3, <1>4

LEMMA StartType ==
  ASSUME TypeOK, NEW w \in Worker
  PROVE  /\ TakeConfirmed(w) => TypeOK'
         /\ \A s \in Side : StaffResult(w, s) => TypeOK'
<1>1. ASSUME TakeConfirmed(w) PROVE TypeOK'
  <2>1. queue # <<>> /\ queue \in Seq(Match)
    BY <1>1 DEF TakeConfirmed, TypeOK
  <2>2. Head(queue) \in Match /\ Tail(queue) \in Seq(Match)
    BY <2>1
  <2>3. [Blank EXCEPT !.kind = "queue", !.match = Head(queue)] \in Jobs
    BY <2>2, BlankType DEF Jobs, Kind
  <2> QED
    BY <1>1, <2>2, <2>3, GoType DEF TakeConfirmed, TypeOK
<1>2. ASSUME NEW s \in Side, StaffResult(w, s) PROVE TypeOK'
  <2>1. [Blank EXCEPT !.kind = "report", !.at = "save", !.winner = s] \in Jobs
    BY BlankType DEF Jobs, Kind, Steps, SideOrNone
  <2> QED
    BY <1>2, <2>1, GoType, InterveneType DEF StaffResult, TypeOK
<1> QED
  BY <1>1, <1>2

LEMMA StageType ==
  ASSUME TypeOK
  PROVE  /\ CancelStage => TypeOK'
         /\ \A b \in Lengths \cup {None} : SetBestOf(b) => TypeOK'
         /\ \A b \in Lengths : SetRoundMetadata(b) => TypeOK'
<1>1. CancelStage => TypeOK'
  BY DEF CancelStage, TypeOK
<1>2. ASSUME NEW b \in Lengths \cup {None}, SetBestOf(b) PROVE TypeOK'
  <2>1. length' \in [override : Lengths \cup {None}, round : Lengths]
    BY <1>2 DEF SetBestOf, TypeOK
  <2> QED
    BY <1>2, <2>1, InterveneType DEF SetBestOf, TypeOK
<1>3. ASSUME NEW b \in Lengths, SetRoundMetadata(b) PROVE TypeOK'
  <2>1. length' \in [override : Lengths \cup {None}, round : Lengths]
    BY <1>3 DEF SetRoundMetadata, TypeOK
  <2> QED
    BY <1>3, <2>1, InterveneType DEF SetRoundMetadata, TypeOK
<1> QED
  BY <1>1, <1>2, <1>3

LEMMA SeriesTypeStep == TypeInv /\ [Next]_vars => TypeOK'
<1> SUFFICES ASSUME TypeInv, [Next]_vars PROVE TypeOK'
  OBVIOUS
<1>0. TypeOK
  BY DEF TypeInv
<1>1. ASSUME NEW w \in Worker, Continue(w) PROVE TypeOK'
  BY <1>0, <1>1, LoadGameType, SettleGameType, JudgeType, CancelGameType, JobOnlyType,
     SaveResultType, TeardownType, CreateGameType, UnlinkGameType, DeleteMatchType
  DEF Continue
<1>2. CASE UNCHANGED vars
  BY <1>0, <1>2 DEF vars, TypeOK
<1> QED
  BY <1>0, <1>1, <1>2, StartType, BookType, PlayType, LinkType, UnlinkType,
     RemoveMatchType, StageType
  DEF Next

(* What a step makes of one request's job, the others keeping theirs. *)
LEMMA LoadStep == TypeInv /\ [Next]_vars => LoadsAMatch'
<1> SUFFICES ASSUME TypeInv, [Next]_vars PROVE LoadsAMatch'
  OBVIOUS
<1>0. TypeOK /\ LoadsAMatch
  BY DEF TypeInv
<1>1. ASSUME NEW w \in Worker, NEW j, Go(w, j),
             j # Idle /\ j.at = "load" => j.match \in Match
      PROVE  LoadsAMatch'
  BY <1>0, <1>1 DEF Go, TypeOK, LoadsAMatch
<1>2. ASSUME NEW w \in Worker, Continue(w) PROVE LoadsAMatch'
  <2>1. job[w] \in Jobs
    BY <1>0, <1>2, JobType
    DEF Continue, LoadGame, SettleGame, Judge, CancelGame, AllCancelled, RecordSeries,
        SaveResult, Sweep, Teardown, CreateGame, UnlinkGame, DeleteMatch, At
  <2>2. CASE LoadGame(w)
    <3>1. \E a, b, c, d, e : \/ Go(w, Idle)
                             \/ Go(w, [job[w] EXCEPT !.at = "settle", !.game = a, !.open = b,
                                           !.override = c, !.winner = d, !.forfeit = e])
      BY <2>2 DEF LoadGame
    <3> QED
      BY <1>1, <2>1, <3>1 DEF Jobs
  <2>3. CASE SettleGame(w)
    <3>1. Go(w, Idle) \/ Go(w, [job[w] EXCEPT !.at = "judge"])
      BY <2>3 DEF SettleGame, Done
    <3> QED
      BY <1>1, <2>1, <3>1 DEF Jobs
  <2>4. CASE Judge(w)
    <3>1. \E a, b, c, d : \/ Go(w, Idle)
                          \/ Go(w, [job[w] EXCEPT !.at = "cancel", !.then = "record", !.score = a,
                                        !.forfeit = b, !.pending = c, !.doomed = d])
      BY <2>4 DEF Judge
    <3> QED
      BY <1>1, <2>1, <3>1 DEF Jobs
  <2>5. CASE CancelGame(w)
    <3>1. job[w].at = "cancel"
      BY <2>5 DEF CancelGame, At
    <3>2. \E p : Go(w, Idle) \/ Go(w, [job[w] EXCEPT !.pending = p])
      BY <2>5 DEF CancelGame
    <3> QED
      BY <1>1, <2>1, <3>1, <3>2 DEF Jobs
  <2>6. CASE AllCancelled(w)
    <3>1. \E a \in {"record", "teardown"} : Go(w, [job[w] EXCEPT !.at = a])
      BY <2>1, <2>6 DEF AllCancelled, Jobs
    <3> QED
      BY <1>1, <2>1, <3>1 DEF Jobs
  <2>7. CASE RecordSeries(w)
    <3>1. Go(w, Idle) \/ Go(w, [job[w] EXCEPT !.at = "save"])
      BY <2>7 DEF RecordSeries
    <3> QED
      BY <1>1, <2>1, <3>1 DEF Jobs
  <2>8. CASE SaveResult(w)
    BY <1>1, <2>1, <2>8 DEF SaveResult, Jobs
  <2>9. CASE Sweep(w)
    <3>1. \E a, b : Go(w, [job[w] EXCEPT !.at = "cancel", !.then = "teardown",
                                         !.pending = a, !.doomed = b])
      BY <2>9 DEF Sweep
    <3> QED
      BY <1>1, <2>1, <3>1 DEF Jobs
  <2>10. CASE Teardown(w)
    <3>1. job[w].at = "teardown"
      BY <2>10 DEF Teardown, At
    <3>2. \E a : Go(w, Idle) \/ Go(w, [job[w] EXCEPT !.doomed = a])
      BY <2>10 DEF Teardown, Done
    <3> QED
      BY <1>1, <2>1, <3>1, <3>2 DEF Jobs
  <2>11. CASE CreateGame(w) \/ UnlinkGame(w) \/ DeleteMatch(w)
    BY <1>1, <2>11 DEF CreateGame, UnlinkGame, DeleteMatch, Done
  <2> QED
    BY <1>2, <2>2, <2>3, <2>4, <2>5, <2>6, <2>7, <2>8, <2>9, <2>10, <2>11 DEF Continue
<1>3. ASSUME NEW w \in Worker, TakeConfirmed(w) PROVE LoadsAMatch'
  <2>1. Head(queue) \in Match
    BY <1>0, <1>3 DEF TakeConfirmed, TypeOK
  <2> QED
    BY <1>1, <1>3, <2>1 DEF TakeConfirmed, Blank
<1>4. ASSUME NEW w \in Worker, Book(w) PROVE LoadsAMatch'
  BY <1>1, <1>4 DEF Book, Blank
<1>5. ASSUME NEW w \in Worker, NEW m \in Match, NEW s \in SideOrNone, NEW f \in Forfeits,
             RecordFinish(w, m, s, f)
      PROVE  LoadsAMatch'
  BY <1>1, <1>5 DEF RecordFinish, Blank
<1>6. ASSUME NEW w \in Worker, NEW m \in Match, Link(w, m) \/ Unlink(w, m) \/ RemoveMatch(w, m)
      PROVE  LoadsAMatch'
  <2>1. CASE Link(w, m)
    BY <1>1, <2>1 DEF Link, Blank
  <2>2. CASE Unlink(w, m)
    BY <1>1, <2>2 DEF Unlink, Blank
  <2>3. CASE RemoveMatch(w, m)
    BY <1>1, <2>3 DEF RemoveMatch, Blank
  <2> QED
    BY <1>6, <2>1, <2>2, <2>3
<1>7. ASSUME NEW w \in Worker, NEW s \in Side, StaffResult(w, s) PROVE LoadsAMatch'
  BY <1>1, <1>7 DEF StaffResult, Blank
<1>8. ASSUME UNCHANGED job PROVE LoadsAMatch'
  BY <1>0, <1>8 DEF LoadsAMatch
<1> QED
  BY <1>2, <1>3, <1>4, <1>5, <1>6, <1>7, <1>8
  DEF Next, RecordMatchResult, FinishMatch, ConfirmMatch, CancelStage, SetBestOf,
      SetRoundMetadata, vars

(* Every write keeps the foreign keys. *)
LEMMA ForeignKeysStep == TypeInv /\ [Next]_vars => ForeignKeys'
<1> SUFFICES ASSUME TypeInv, [Next]_vars PROVE ForeignKeys'
  OBVIOUS
<1>0. TypeOK /\ ForeignKeys
  BY DEF TypeInv
<1>1. ASSUME \A g \in Game : \/ game'[g] = None
                             \/ game[g] # None /\ game'[g].match = game[g].match
                             \/ game'[g].match = None,
             \A m \in Match : match[m] # None => match'[m] # None
      PROVE  ForeignKeys'
  <2> SUFFICES ASSUME NEW g \in Game, game'[g] # None, game'[g].match # None
               PROVE  match'[game'[g].match] # None
    BY DEF ForeignKeys, Rows
  <2>1. game[g] # None /\ game'[g].match = game[g].match
    BY <1>1
  <2>2. game[g].match \in Match /\ match[game[g].match] # None
    BY <1>0, <2>1 DEF ForeignKeys, Rows, TypeOK, GameRow
  <2> QED
    BY <1>1, <2>1, <2>2
<1>2. ASSUME NEW w \in Worker, SettleGame(w) PROVE ForeignKeys'
  <2>1. \A g \in Game : game'[g] = game[g] \/ (game[g] # None /\ game'[g].match = game[g].match)
    <3>1. SUFFICES ASSUME NEW g \in Game, StillScheduled(job[w].game), g = job[w].game
                   PROVE  game[g] # None /\ game'[g].match = game[g].match
      BY <1>0, <1>2 DEF SettleGame, TypeOK
    <3>2. game[g] # None /\ game[g] \in GameRow
      BY <1>0, <3>1 DEF StillScheduled, TypeOK
    <3>3. game'[g] = [game[g] EXCEPT !.state = "complete", !.winner = job[w].winner,
                                     !.forfeit = job[w].forfeit]
      BY <1>0, <1>2, <3>1 DEF SettleGame, TypeOK
    <3> QED
      BY <3>2, <3>3 DEF GameRow
  <2>2. match' = match
    BY <1>2 DEF SettleGame
  <2> QED
    BY <1>1, <2>1, <2>2
<1>3. ASSUME NEW w \in Worker, CancelGame(w) PROVE ForeignKeys'
  <2> DEFINE p == CHOOSE x \in job[w].pending : \A y \in job[w].pending : x[1] <= y[1]
             refused == game[p[1]] # None /\ p[2].match # None /\ match[p[2].match] = None
             cancelled == [p[2] EXCEPT !.state = "cancelled"]
  <2>1. /\ game' = IF game[p[1]] = None \/ refused THEN game
                   ELSE [game EXCEPT ![p[1]] = cancelled]
        /\ match' = match
    BY <1>3 DEF CancelGame
  <2>2. p[1] \in Game /\ p[2] \in GameRow
    BY <1>0, <1>3, FirstPending
  <2>3. cancelled.match = p[2].match
    BY <2>2 DEF GameRow
  <2> HIDE DEF p, cancelled
  <2> QED
    BY <1>0, <2>1, <2>2, <2>3 DEF ForeignKeys, Rows, TypeOK
<1>4. ASSUME NEW S, NEW m, game' = Unlinked(DeleteGames(S), m),
             match' = [match EXCEPT ![m] = None]
      PROVE  ForeignKeys'
  <2> SUFFICES ASSUME NEW g \in Game, game'[g] # None, game'[g].match # None
               PROVE  match'[game'[g].match] # None
    BY DEF ForeignKeys, Rows
  <2>1. DeleteGames(S)[g] = None \/ DeleteGames(S)[g] = game[g]
    BY DEF DeleteGames
  <2>2. game[g] # None /\ DeleteGames(S)[g] = game[g]
    BY <1>4, <2>1 DEF Unlinked
  <2>3. game[g].match # m /\ game'[g] = game[g]
    BY <1>0, <1>4, <2>2 DEF Unlinked, TypeOK, GameRow
  <2>4. game[g].match \in Match /\ match[game[g].match] # None
    BY <1>0, <2>2, <2>3 DEF ForeignKeys, Rows, TypeOK, GameRow
  <2> QED
    BY <1>0, <1>4, <2>3, <2>4 DEF TypeOK
<1>5. ASSUME NEW w \in Worker, Teardown(w) PROVE ForeignKeys'
  BY <1>0, <1>1, <1>4, <1>5 DEF Teardown, Done
<1>6. ASSUME NEW w \in Worker, DeleteMatch(w) PROVE ForeignKeys'
  BY <1>4, <1>6 DEF DeleteMatch
<1>7. ASSUME NEW w \in Worker, UnlinkGame(w) PROVE ForeignKeys'
  BY <1>1, <1>7 DEF UnlinkGame, DeleteGames
<1>8. ASSUME NEW w \in Worker, CreateGame(w) PROVE ForeignKeys'
  <2>1. CASE UNCHANGED game
    BY <1>1, <1>8, <2>1 DEF CreateGame
  <2>2. CASE game' # game
    <3>1. /\ match' = match /\ match[job[w].match] # None
          /\ game' = [game EXCEPT ![created.game + 1] =
                        [number |-> job[w].number, state |-> "scheduled", winner |-> None,
                         forfeit |-> FALSE, match |-> job[w].match]]
      BY <1>8, <2>2 DEF CreateGame
    <3>2. \A g \in Game : game'[g] = game[g] \/ game'[g].match = job[w].match
      BY <1>0, <3>1 DEF TypeOK
    <3> QED
      BY <1>0, <3>1, <3>2 DEF ForeignKeys, Rows
  <2> QED
    BY <2>1, <2>2
<1>9. ASSUME NEW m \in Match, NEW r, match' = [match EXCEPT ![m] = r], r \in MatchRow,
             game' = game
      PROVE  ForeignKeys'
  BY <1>0, <1>1, <1>9, RowAssumption DEF TypeOK
<1>10. ASSUME NEW w \in Worker, Book(w) PROVE ForeignKeys'
  <2>1. [finished |-> FALSE, confirmed |-> FALSE, winner |-> None, forfeit |-> FALSE] \in MatchRow
    BY DEF MatchRow, SideOrNone
  <2> QED
    BY <1>9, <1>10, <2>1 DEF Book
<1>11. ASSUME NEW m \in Match,
              \/ \E w \in Worker, s \in SideOrNone, f \in Forfeits : RecordFinish(w, m, s, f)
              \/ \E s \in Side : RecordMatchResult(m, s)
              \/ FinishMatch(m) \/ ConfirmMatch(m)
       PROVE  ForeignKeys'
  <2>1. match[m] # None /\ game' = game
    BY <1>11 DEF RecordFinish, RecordMatchResult, FinishMatch, ConfirmMatch
  <2>2. \E r \in MatchRow : match' = [match EXCEPT ![m] = r]
    <3>1. CASE \E w \in Worker, s \in SideOrNone, f \in Forfeits : RecordFinish(w, m, s, f)
      <4>1. PICK w \in Worker, s \in SideOrNone, f \in Forfeits : RecordFinish(w, m, s, f)
        BY <3>1
      <4>2. match' = [match EXCEPT ![m] = [match[m] EXCEPT !.finished = TRUE, !.winner = s, !.forfeit = f]]
        BY <1>0, <4>1 DEF RecordFinish, TypeOK
      <4> QED
        BY <1>0, <2>1, <4>2, ResultType, FlagAssumption
    <3>2. CASE \E s \in Side : RecordMatchResult(m, s)
      <4>1. PICK s \in Side : RecordMatchResult(m, s)
        BY <3>2
      <4>2. match' = [match EXCEPT ![m] = [match[m] EXCEPT !.winner = s, !.forfeit = FALSE]]
        BY <1>0, <4>1 DEF RecordMatchResult, TypeOK
      <4> QED
        BY <1>0, <2>1, <4>2, ResultType
    <3>3. CASE FinishMatch(m)
      <4>1. match' = [match EXCEPT ![m] = [match[m] EXCEPT !.finished = TRUE]]
        BY <1>0, <3>3 DEF FinishMatch, TypeOK
      <4> QED
        BY <1>0, <2>1, <4>1, ResultType
    <3>4. CASE ConfirmMatch(m)
      <4>1. match' = [match EXCEPT ![m] = [match[m] EXCEPT !.confirmed = TRUE]]
        BY <1>0, <3>4 DEF ConfirmMatch, TypeOK
      <4> QED
        BY <1>0, <2>1, <4>1, ResultType
    <3> QED
      BY <1>11, <3>1, <3>2, <3>3, <3>4
  <2> QED
    BY <1>9, <2>1, <2>2
<1>12. ASSUME UNCHANGED <<game, match>> PROVE ForeignKeys'
  BY <1>0, <1>12 DEF ForeignKeys, Rows
<1>13. ASSUME NEW w \in Worker, Continue(w) PROVE ForeignKeys'
  BY <1>2, <1>3, <1>5, <1>6, <1>7, <1>8, <1>12, <1>13
  DEF Continue, LoadGame, Judge, AllCancelled, RecordSeries, SaveResult, Sweep
<1> QED
  BY <1>10, <1>11, <1>12, <1>13
  DEF Next, TakeConfirmed, Link, Unlink, RemoveMatch, StaffResult, CancelStage, SetBestOf,
      SetRoundMetadata, vars

LEMMA TypeInvariant == Spec => []TypeInv
<1>1. Init => TypeInv
  BY SeriesTypeInit DEF TypeInv, Init, LoadsAMatch, ForeignKeys, Rows
<1>2. TypeInv /\ [Next]_vars => TypeInv'
  BY SeriesTypeStep, LoadStep, ForeignKeysStep DEF TypeInv
<1> QED
  BY <1>1, <1>2, PTL DEF Spec

(* Every reachable state of a series is well typed: no stale copy, deleted *)
(* row or late job puts a value of the wrong kind into a row.              *)
THEOREM SeriesTypeCorrect == Spec => []TypeOK
<1>1. TypeInv => TypeOK
  BY DEF TypeInv
<1> QED
  BY <1>1, TypeInvariant, PTL

(* No game row ever names a match that has been deleted, although deletes, *)
(* creations and saves of stale rows interleave freely.                    *)
THEOREM NoDanglingGame == Spec => []ForeignKeys
<1>1. TypeInv => ForeignKeys
  BY DEF TypeInv
<1> QED
  BY <1>1, TypeInvariant, PTL

-----------------------------------------------------------------------------
(* Settling once.                                                          *)

(* A row id is handed out once, and an announced game is never scheduled   *)
(* again: a stale save can only cancel it.                                 *)
SettledInv ==
  /\ GameSettledOnce
  /\ \A g \in Rows : g <= created.game
  /\ \A g \in Game : announced[g] = 1 => /\ g <= created.game
                                         /\ game[g] = None \/ game[g].state # "scheduled"

(* What the compare-and-swap does to the rows when it succeeds. *)
LEMMA SettledRow ==
  ASSUME TypeOK, NEW w \in Worker, SettleGame(w), StillScheduled(job[w].game)
  PROVE  /\ \A x \in Game \ {job[w].game} : game'[x] = game[x] /\ announced'[x] = announced[x]
         /\ job[w].game \in Game =>
              /\ game'[job[w].game].state = "complete"
              /\ announced'[job[w].game] = announced[job[w].game] + 1
<1> DEFINE g == job[w].game
           settled == [game[g] EXCEPT !.state = "complete", !.winner = job[w].winner,
                                      !.forfeit = job[w].forfeit]
<1>1. /\ game' = [game EXCEPT ![g].state = "complete", ![g].winner = job[w].winner,
                              ![g].forfeit = job[w].forfeit]
      /\ announced' = [announced EXCEPT ![g] = @ + 1]
  BY DEF SettleGame
<1>2. game' = [game EXCEPT ![g] = settled]
  BY <1>1 DEF TypeOK
<1>3. g \in Game => settled.state = "complete"
  BY DEF TypeOK, StillScheduled, GameRow
<1> HIDE DEF settled, g
<1>4. \A x \in Game \ {g} : game'[x] = game[x] /\ announced'[x] = announced[x]
  BY <1>1, <1>2 DEF TypeOK
<1>5. g \in Game => game'[g].state = "complete" /\ announced'[g] = announced[g] + 1
  BY <1>1, <1>2, <1>3 DEF TypeOK
<1> QED
  BY <1>4, <1>5 DEF g

LEMMA SettledStep == TypeInv /\ SettledInv /\ [Next]_vars => SettledInv'
<1> SUFFICES ASSUME TypeInv, SettledInv, [Next]_vars PROVE SettledInv'
  OBVIOUS
<1>0. TypeOK /\ Game \subseteq Nat
  BY IdAssumption DEF TypeInv
<1>1. ASSUME \A g \in Game : \/ game'[g] = None
                             \/ game[g] # None /\ game'[g].state \in {game[g].state, "cancelled"},
             \A g \in Game : announced'[g] = announced[g], created'.game = created.game
      PROVE  SettledInv'
  BY <1>0, <1>1 DEF SettledInv, GameSettledOnce, Rows
<1>2. ASSUME NEW w \in Worker, SettleGame(w) PROVE SettledInv'
  <2> DEFINE g == job[w].game
  <2>1. CASE ~StillScheduled(g)
    BY <1>1, <1>2, <2>1 DEF SettleGame
  <2>2. CASE StillScheduled(g) /\ g \notin Game
    <3>1. \A x \in Game : game'[x] = game[x] /\ announced'[x] = announced[x]
      BY <1>0, <1>2, <2>2, SettledRow
    <3>2. created' = created
      BY <1>2 DEF SettleGame
    <3> QED
      BY <1>1, <3>1, <3>2
  <2>3. CASE StillScheduled(g) /\ g \in Game
    <3>1. g \in Rows /\ game[g] # None /\ game[g].state = "scheduled"
      BY <2>3 DEF StillScheduled, Rows
    <3>2. g <= created.game
      BY <3>1 DEF SettledInv
    <3>3. announced[g] \in Nat /\ announced[g] <= 1 /\ announced[g] # 1
      BY <1>0, <2>3, <3>1 DEF SettledInv, GameSettledOnce, TypeOK
    <3>4. game'[g].state = "complete" /\ announced'[g] = 1
      BY <1>0, <1>2, <2>3, <3>3, SettledRow
    <3>5. \A x \in Game \ {g} : game'[x] = game[x] /\ announced'[x] = announced[x]
      BY <1>0, <1>2, <2>3, SettledRow
    <3>6. created' = created
      BY <1>2 DEF SettleGame
    <3>7. \A x \in Game : announced'[x] <= 1
      BY <3>4, <3>5 DEF SettledInv, GameSettledOnce
    <3>8. \A x \in Game : game'[x] # None => x <= created.game
      BY <3>2, <3>5 DEF SettledInv, Rows
    <3>9. \A x \in Game : announced'[x] = 1 => /\ x <= created.game
                                               /\ game'[x] = None \/ game'[x].state # "scheduled"
      BY <3>2, <3>4, <3>5 DEF SettledInv
    <3> QED
      BY <3>6, <3>7, <3>8, <3>9 DEF SettledInv, GameSettledOnce, Rows
  <2> QED
    BY <2>1, <2>2, <2>3
<1>3. ASSUME NEW w \in Worker, CancelGame(w) PROVE SettledInv'
  <2> DEFINE p == CHOOSE x \in job[w].pending : \A y \in job[w].pending : x[1] <= y[1]
             cancelled == [p[2] EXCEPT !.state = "cancelled"]
  <2>1. /\ game' = game \/ (game[p[1]] # None /\ game' = [game EXCEPT ![p[1]] = cancelled])
        /\ announced' = announced /\ created' = created
    BY <1>3 DEF CancelGame
  <2>2. p[1] \in Game /\ p[2] \in GameRow
    BY <1>0, <1>3, FirstPending
  <2>3. cancelled.state = "cancelled"
    BY <2>2 DEF GameRow
  <2> HIDE DEF p, cancelled
  <2>4. \A g \in Game : game'[g] = game[g] \/ (game[g] # None /\ game'[g].state = "cancelled")
    BY <1>0, <2>1, <2>2, <2>3 DEF TypeOK
  <2> QED
    BY <1>1, <2>1, <2>4
<1>4. ASSUME NEW S, NEW m, game' = Unlinked(DeleteGames(S), m),
             announced' = announced, created' = created
      PROVE  SettledInv'
  <2>1. \A g \in Game : \/ game'[g] = None
                        \/ game[g] # None /\ game'[g].state = game[g].state
    <3> SUFFICES ASSUME NEW g \in Game, DeleteGames(S)[g] # None
                 PROVE  game[g] # None /\ game'[g].state = game[g].state
      BY <1>4 DEF Unlinked
    <3>1. DeleteGames(S)[g] = game[g] /\ game[g] \in GameRow
      BY <1>0 DEF DeleteGames, TypeOK
    <3>2. game'[g] = game[g] \/ game'[g] = [game[g] EXCEPT !.match = None]
      BY <1>4, <3>1 DEF Unlinked
    <3> QED
      BY <3>1, <3>2, RowAssumption DEF GameRow
  <2> QED
    BY <1>1, <1>4, <2>1
<1>5. ASSUME NEW w \in Worker, Teardown(w) PROVE SettledInv'
  BY <1>1, <1>4, <1>5 DEF Teardown, Done
<1>6. ASSUME NEW w \in Worker, DeleteMatch(w) PROVE SettledInv'
  BY <1>4, <1>6 DEF DeleteMatch
<1>7. ASSUME NEW w \in Worker, UnlinkGame(w) PROVE SettledInv'
  BY <1>1, <1>7 DEF UnlinkGame, DeleteGames
<1>8. ASSUME NEW w \in Worker, CreateGame(w) PROVE SettledInv'
  <2>1. CASE UNCHANGED <<game, created>>
    BY <1>1, <1>8, <2>1 DEF CreateGame
  <2>2. CASE ~UNCHANGED <<game, created>>
    <3>1. /\ \E r : game' = [game EXCEPT ![created.game + 1] = r]
          /\ created' = [created EXCEPT !.game = @ + 1]
          /\ announced' = announced
      BY <1>8, <2>2 DEF CreateGame
    <3>2. created.game \in Nat /\ created'.game = created.game + 1
      BY <1>0, <3>1 DEF TypeOK
    <3>3. \A g \in Game \ {created.game + 1} : game'[g] = game[g]
      BY <1>0, <3>1 DEF TypeOK
    <3>4. created.game + 1 \in Game => announced[created.game + 1] = 0
      BY <1>0, <3>2 DEF SettledInv, GameSettledOnce, TypeOK
    <3> QED
      BY <1>0, <3>1, <3>2, <3>3, <3>4 DEF SettledInv, GameSettledOnce, Rows
  <2> QED
    BY <2>1, <2>2
<1>9. ASSUME NEW w \in Worker, Book(w) PROVE SettledInv'
  <2>1. created'.game = created.game
    BY <1>0, <1>9 DEF Book, TypeOK
  <2> QED
    BY <1>1, <1>9, <2>1 DEF Book
<1>10. ASSUME UNCHANGED <<game, announced, created>> PROVE SettledInv'
  BY <1>1, <1>10
<1>11. ASSUME NEW w \in Worker, Continue(w) PROVE SettledInv'
  BY <1>2, <1>3, <1>5, <1>6, <1>7, <1>8, <1>10, <1>11
  DEF Continue, LoadGame, Judge, AllCancelled, RecordSeries, SaveResult, Sweep
<1> QED
  BY <1>9, <1>10, <1>11
  DEF Next, TakeConfirmed, RecordFinish, Link, Unlink, RemoveMatch, StaffResult,
      RecordMatchResult, FinishMatch, ConfirmMatch, CancelStage, SetBestOf,
      SetRoundMetadata, vars

(* "Counting one game's win twice would let a Bo3 clinch 2-0 off a single  *)
(* game": a game is settled at most once, however many requests carry its  *)
(* result, whatever they overlap with and however long the series.         *)
THEOREM EveryGameSettledOnce == Spec => []GameSettledOnce
<1>1. Init => SettledInv
  BY DEF Init, SettledInv, GameSettledOnce, Rows
<1>2. TypeInv /\ SettledInv /\ [Next]_vars => SettledInv'
  BY SettledStep
<1>3. SettledInv => GameSettledOnce
  BY DEF SettledInv
<1> QED
  BY <1>1, <1>2, <1>3, TypeInvariant, PTL DEF Spec

-----------------------------------------------------------------------------
(* Recording what was decided: the invariant.                              *)

(* The settles of one series may overlap each other and nothing else, as   *)
(* the racetime task and the serial queue do.                              *)
OnlySettlesOverlap == Overlaps \subseteq SUBSET {"race", "queue"} /\ ~RoundEdits

Scheduled == InState("scheduled")
Complete == InState("complete")
WonBy(s) == {g \in Complete : game[g].winner = s}
Length == BestOf(length.override)
Wins == WinsNeeded(Length)

(* The rows a request will save as it loaded them, cancelled, and the wins *)
(* of a side no request is about to overwrite.                             *)
Marked(j) == {x[1] : x \in j.pending}
Firm(s) == {g \in WonBy(s) : \A w \in Busy : g \notin Marked(job[w])}

Settling(j) == j.at \in {"settle", "judge"} \/ (j.at = "cancel" /\ j.then = "record")
Stripping(j) == j.at \in {"sweep", "teardown"} \/ (j.at = "cancel" /\ j.then = "teardown")

(* What a request does and what it was sent for. *)
OfKind(j) ==
  /\ j.at \in {"load", "record"} \/ Settling(j) => j.kind \in {"race", "queue"}
  /\ j.at = "save" \/ Stripping(j) => j.kind \in {"race", "queue", "report"}
  /\ j.at = "create" => j.kind \in {"book", "link"}
  /\ j.at \in {"unlink", "remove"} => j.kind = j.at
  /\ j.pending # {} => j.at = "cancel"

KindInv ==
  /\ \A w \in Busy : OfKind(job[w])
  /\ \A w, v \in Busy : w # v => job[w].kind \in {"race", "queue"}

(* The rows: numbers and matches are unique, a game counts for the length  *)
(* it was played under, and a cancelled row means the series is over.      *)
RowInv ==
  /\ \A g, h \in Rows : game[g].number = game[h].number => g = h
  /\ \A g, h \in Rows : game[g].match = game[h].match /\ game[g].match # None => g = h
  /\ \A g \in Scheduled \cup Complete : game[g].number \in 1..Length
  /\ \A g \in Complete : game[g].winner \in Side
  /\ \A g \in Scheduled : game[g].match # None
  /\ InState("cancelled") # {} => Decided \/ matchup.state = "complete"

(* What a request holds is still true of the matchup and its length. *)
Works(j) ==
  /\ j.at = "create" => /\ matchup.state = "open"
                        /\ j.match # None
                        /\ j.number \in 1..Length
                        /\ Rows = {} => j.number = 1
  /\ j.at = "settle" => j.game \in Game
  /\ j.at \in {"unlink", "remove"} => j.game \notin Complete
  /\ j.at = "remove" => RowsOf(j.match) \cap Scheduled \subseteq {j.game}
  /\ Settling(j) \/ j.at = "record" => j.winner \in Side
  /\ Settling(j) /\ matchup.state = "open" => j.open
  /\ j.at \in {"settle", "judge"} /\ matchup.state = "open" =>
       Scheduled \cup Complete # {} /\ j.override = length.override
  /\ Stripping(j) => matchup.state = "complete"

WorkInv == \A w \in Busy : Works(job[w])

(* A request that cancels games covers every scheduled one, and what it    *)
(* loaded of a row is what the row still says, unless its match is gone.   *)
Covers(j) ==
  /\ \/ j.at \in {"record", "teardown"}
     \/ j.at \in {"save", "sweep"} /\ j.kind # "report"
     => Scheduled = {}
  /\ j.at = "cancel" => Scheduled \subseteq Marked(j)
  /\ \A x \in j.pending : game[x[1]] # None =>
       /\ game[x[1]].number = x[2].number
       /\ \/ game[x[1]].match = x[2].match
          \/ x[2].match # None /\ match[x[2].match] = None
       /\ x[2].match # None /\ match[x[2].match] = None =>
            Scheduled = {} /\ matchup.state = "complete"

CoverInv == \A w \in Busy : Covers(job[w])

(* A clinch in progress rests on wins nobody will take away. *)
FirmInv ==
  matchup.state = "open" /\ (\E w \in Busy : job[w].at = "cancel") =>
    \E s \in Side : Cardinality(Firm(s)) >= Wins

(* The request that will record a decided series, with a score that says   *)
(* who won it.                                                             *)
Carries(j) ==
  /\ j.winner \in Side
  /\ \/ j.at = "judge" /\ Standing[j.winner] >= Wins
     \/ /\ j.at \in {"record", "save"} \/ (j.at = "cancel" /\ j.then = "record")
        /\ j.kind # "report" /\ j.score[j.winner] > j.score[Other(j.winner)]

EndInv ==
  /\ matchup.state = "complete" /\ Scheduled # {} =>
       \E w \in Busy : job[w].at \in {"sweep", "cancel"}
  /\ stage = "active" /\ matchup.state = "open" /\ Decided => \E w \in Busy : Carries(job[w])

SeriesInv == KindInv /\ RowInv /\ WorkInv /\ CoverInv /\ FirmInv /\ EndInv

-----------------------------------------------------------------------------
(* Counting games.                                                         *)

LEMMA IdleNotJob == Idle \notin Jobs
  BY DEF Idle, Jobs, Kind

LEMMA BusyJob ==
  ASSUME TypeOK, NEW w \in Busy
  PROVE  w \in Worker /\ job[w] \in Jobs
  BY DEF TypeOK, Busy

(* A best-of-N is odd, and one more than twice a majority's losing count. *)
LEMMA LengthType ==
  ASSUME TypeOK
  PROVE  Length \in Nat /\ Wins \in Nat \ {0} /\ 2 * Wins = Length + 1
<1>1. length.override \in Lengths \cup {None} /\ length.round \in Lengths
  BY DEF TypeOK
<1>2. Length \in Lengths
  BY <1>1 DEF Length, BestOf
<1>3. Length \in Nat /\ Length % 2 = 1
  BY <1>2, LengthsAssumption
<1> HIDE DEF Length
<1> QED
  BY <1>3 DEF Wins, WinsNeeded

(* The other of the two entrants. *)
LEMMA OtherSide ==
  ASSUME NEW s \in Side
  PROVE  /\ Other(s) \in Side /\ Other(s) # s
         /\ \A x \in Side : x = s \/ x = Other(s)
<1>1. IsFiniteSet(Side \ {s}) /\ Cardinality(Side \ {s}) = 1
  BY FS_RemoveElement, SideAssumption
<1>2. PICK o : Side \ {s} = {o}
  BY <1>1, FS_Singleton
<1> QED
  BY <1>2 DEF Other

LEMMA WonByType ==
  ASSUME TypeOK, NEW s \in Side
  PROVE  /\ WonBy(s) \subseteq Game /\ IsFiniteSet(WonBy(s))
         /\ Standing[s] = Cardinality(WonBy(s)) /\ Standing[s] \in Nat
<1>1. WonBy(s) \subseteq Game
  BY DEF WonBy, Complete, InState, Rows
<1>2. IsFiniteSet(WonBy(s))
  BY <1>1, FS_Subset, IdAssumption
<1>3. Standing[s] = Cardinality(WonBy(s))
  BY DEF Standing, WonBy, Complete
<1> QED
  BY <1>1, <1>2, <1>3, FS_CardinalityType

(* Rows with a number of their own in 1..Length are no more than Length. *)
LEMMA NumbersBound ==
  ASSUME TypeOK, RowInv, NEW S \in SUBSET Complete
  PROVE  IsFiniteSet(S) /\ Cardinality(S) \in Nat /\ Cardinality(S) <= Length
<1> DEFINE f == [g \in S |-> game[g].number]
<1>1. f \in Injection(S, 1..Length)
  BY DEF RowInv, Injection, IsInjective, Complete, InState
<1>2. Length \in Nat /\ IsFiniteSet(1..Length) /\ Cardinality(1..Length) = Length
  BY LengthType, FS_Interval
<1>3. IsFiniteSet(S) /\ Cardinality(S) <= Length
  BY <1>1, <1>2, FS_Injection
<1> QED
  BY <1>3, FS_CardinalityType

(* The two sides' wins are different games. *)
LEMMA WinsShared ==
  ASSUME TypeOK, RowInv, NEW s \in Side
  PROVE  Standing[s] + Standing[Other(s)] <= Length
<1> DEFINE o == Other(s)
<1>1. o \in Side /\ o # s
  BY OtherSide
<1>2. WonBy(s) \cup WonBy(o) \in SUBSET Complete
  BY DEF WonBy
<1>3. Cardinality(WonBy(s) \cup WonBy(o)) <= Length
  BY <1>2, NumbersBound
<1>4. WonBy(s) \cap WonBy(o) = {}
  BY <1>1 DEF WonBy
<1>5. /\ IsFiniteSet(WonBy(s)) /\ IsFiniteSet(WonBy(o))
      /\ Standing[s] = Cardinality(WonBy(s)) /\ Standing[o] = Cardinality(WonBy(o))
      /\ Standing[s] \in Nat /\ Standing[o] \in Nat
  BY <1>1, WonByType
<1>6. Cardinality(WonBy(s) \cup WonBy(o))
        = Cardinality(WonBy(s)) + Cardinality(WonBy(o)) - Cardinality(WonBy(s) \cap WonBy(o))
  BY <1>5, FS_Union
<1>7. Cardinality(WonBy(s) \cap WonBy(o)) = 0
  BY <1>4, FS_EmptySet
<1> HIDE DEF o
<1>8. Standing[s] + Standing[o] <= Length
  BY <1>3, <1>5, <1>6, <1>7, LengthType
<1> QED
  BY <1>8 DEF o

(* At most one side has the wins, and it is ahead of the other. *)
LEMMA OneWinner ==
  ASSUME TypeOK, RowInv, NEW s \in Side, Standing[s] >= Wins
  PROVE  /\ Standing[s] > Standing[Other(s)]
         /\ \A t \in Side : Standing[t] >= Wins => t = s
<1>1. Standing[s] + Standing[Other(s)] <= Length
  BY WinsShared
<1>2. Other(s) \in Side /\ \A x \in Side : x = s \/ x = Other(s)
  BY OtherSide
<1>3. Standing[s] \in Nat /\ Standing[Other(s)] \in Nat
  BY <1>2, WonByType
<1> QED
  BY <1>1, <1>2, <1>3, LengthType

(* An undecided series whose games are all played has a number left. *)
LEMMA NumberLeft ==
  ASSUME TypeOK, RowInv, ~Decided, Rows = Complete
  PROVE  FreeNumbers # {}
<1>1. PICK s \in Side : TRUE
  BY SideAssumption, FS_EmptySet
<1> DEFINE o == Other(s)
           f == [g \in Complete |-> game[g].number]
<1>2. o \in Side /\ \A x \in Side : x = s \/ x = o
  BY OtherSide
<1>3. /\ IsFiniteSet(WonBy(s)) /\ IsFiniteSet(WonBy(o))
      /\ Standing[s] = Cardinality(WonBy(s)) /\ Standing[o] = Cardinality(WonBy(o))
      /\ Standing[s] \in Nat /\ Standing[o] \in Nat
  BY <1>2, WonByType
<1>4. ~(Standing[s] >= Wins) /\ ~(Standing[o] >= Wins)
  BY <1>2 DEF Decided, Reached, Wins, Length
<1>5. Complete = WonBy(s) \cup WonBy(o)
  BY <1>2 DEF WonBy, RowInv
<1>6. Cardinality(WonBy(s) \cap WonBy(o)) \in Nat
  BY <1>3, FS_Intersection, FS_CardinalityType
<1>7. /\ IsFiniteSet(Complete)
      /\ Cardinality(Complete) = Cardinality(WonBy(s)) + Cardinality(WonBy(o))
                                 - Cardinality(WonBy(s) \cap WonBy(o))
  BY <1>3, <1>5, FS_Union
<1> HIDE DEF o
<1>8. Length \in Nat /\ Cardinality(Complete) < Length
  BY <1>3, <1>4, <1>6, <1>7, LengthType
<1>9. SUFFICES ASSUME FreeNumbers = {} PROVE FALSE
  OBVIOUS
<1>10. \A n \in 1..Length : \E g \in Complete : game[g].number = n
  BY <1>9 DEF FreeNumbers, Length
<1>11. f \in Surjection(Complete, 1..Length)
  BY <1>10 DEF Surjection, RowInv
<1>12. Cardinality(1..Length) <= Cardinality(Complete)
  BY <1>7, <1>11, FS_Surjection
<1> QED
  BY <1>7, <1>8, <1>12, FS_Interval, FS_CardinalityType

-----------------------------------------------------------------------------
(* Steps that change one request and no row.                               *)

LEMMA GoJob ==
  ASSUME TypeOK, NEW w \in Worker, NEW j, Go(w, j)
  PROVE  /\ job'[w] = j
         /\ \A v \in Worker \ {w} : job'[v] = job[v]
         /\ Busy' = IF j = Idle THEN Busy \ {w} ELSE Busy \cup {w}
  BY DEF Go, TypeOK, Busy

(* The kinds of the requests in flight, when only w's job changes. *)
LEMMA KindsKept ==
  ASSUME TypeOK, KindInv, NEW w \in Worker, NEW j, Go(w, j),
         j # Idle => /\ OfKind(j)
                     /\ \/ w \in Busy /\ j.kind = job[w].kind
                        \/ Busy \subseteq {w}
                        \/ /\ j.kind \in {"race", "queue"}
                           /\ \A v \in Busy : job[v].kind \in {"race", "queue"}
  PROVE  KindInv'
<1>1. /\ job'[w] = j
      /\ \A v \in Worker \ {w} : job'[v] = job[v]
      /\ Busy' = IF j = Idle THEN Busy \ {w} ELSE Busy \cup {w}
  BY GoJob
<1>2. Busy \subseteq Worker
  BY DEF Busy
<1>3. \A k : OfKind(k) => OfKind(k)'
  BY DEF OfKind, Settling, Stripping
<1>4. \A v \in Busy' : OfKind(job'[v])
  BY <1>1, <1>2 DEF KindInv
<1>5. \A v \in Busy' : OfKind(job[v])'
  BY <1>4 DEF OfKind, Settling, Stripping
<1>6. \A v, u \in Busy' : v # u => job'[v].kind \in {"race", "queue"}
  BY <1>1, <1>2 DEF KindInv
<1> QED
  BY <1>5, <1>6 DEF KindInv

(* A request of no settle is alone. *)
LEMMA Alone ==
  ASSUME KindInv, NEW w \in Busy, job[w].kind \notin {"race", "queue"}
  PROVE  Busy = {w}
  BY DEF KindInv

(* A step that changes one request's job and no row. *)
LEMMA JobChange ==
  ASSUME TypeOK, SeriesInv, NEW w \in Worker, NEW j, Go(w, j),
         UNCHANGED <<matchup, length, stage, game>>,
         Busy \subseteq {w} \/ \A m \in Match : match'[m] = None <=> match[m] = None,
         KindInv',
         j # Idle => Works(j) /\ Covers(j)',
         j # Idle => \A x \in j.pending : x[1] \notin Complete \/ (w \in Busy /\ x \in job[w].pending),
         j # Idle /\ j.at = "cancel" /\ matchup.state = "open" =>
           \/ Decided
           \/ w \in Busy /\ job[w].at = "cancel",
         w \in Busy /\ job[w].at \in {"sweep", "cancel"} =>
           \/ Scheduled = {} \/ matchup.state = "open"
           \/ j # Idle /\ j.at \in {"sweep", "cancel"},
         w \in Busy /\ Carries(job[w]) /\ matchup.state = "open" /\ stage = "active" =>
           j # Idle /\ Carries(j)
  PROVE  SeriesInv'
<1>0. /\ KindInv /\ RowInv /\ WorkInv /\ CoverInv /\ FirmInv /\ EndInv
      /\ Busy \subseteq Worker
  BY DEF SeriesInv, Busy
<1>1. /\ job'[w] = j
      /\ \A v \in Worker \ {w} : job'[v] = job[v]
      /\ Busy' = IF j = Idle THEN Busy \ {w} ELSE Busy \cup {w}
  BY GoJob
<1>2. /\ Scheduled' = Scheduled /\ Complete' = Complete /\ Rows' = Rows
      /\ Standing' = Standing /\ Decided' = Decided /\ Length' = Length /\ Wins' = Wins
      /\ \A m : RowsOf(m)' = RowsOf(m)
      /\ \A s : WonBy(s)' = WonBy(s)
      /\ InState("cancelled")' = InState("cancelled")
  BY DEF Scheduled, Complete, InState, Rows, Standing, Decided, Reached, BestOf, WinsNeeded,
         Length, Wins, RowsOf, WonBy
<1>3. RowInv'
  BY <1>0, <1>2 DEF RowInv
<1>4. WorkInv'
  <2>1. \A k : Works(k) => Works(k)'
    BY <1>2 DEF Works, Settling, Stripping
  <2>2. \A v \in Busy' : Works(job'[v])
    BY <1>0, <1>1 DEF WorkInv
  <2>3. \A v \in Busy' : \A k : k = job'[v] => Works(k)'
    BY <2>1, <2>2
  <2>4. \A v \in Busy' : Works(job[v])'
    BY <2>3 DEF Works, Settling, Stripping
  <2> QED
    BY <2>4 DEF WorkInv
<1>5. CoverInv'
  <2>1. ASSUME NEW v \in Busy', v # w PROVE Covers(job[v])'
    <3>1. v \in Busy /\ job'[v] = job[v] /\ Covers(job[v]) /\ job[v] \in Jobs
      BY <1>0, <1>1, <2>1, BusyJob DEF CoverInv
    <3>2. \A m \in Match : match'[m] = None <=> match[m] = None
      BY <2>1, <3>1
    <3>3. \A x \in job[v].pending : x[2].match \in Match \cup {None}
      BY <3>1 DEF Jobs, GameRow
    <3> QED
      BY <1>2, <3>1, <3>2, <3>3 DEF Covers, Marked
  <2>2. w \in Busy' => Covers(job[w])'
    <3>1. w \in Busy' => Covers(j)'
      BY <1>1
    <3> QED
      BY <1>1, <3>1 DEF Covers, Marked
  <2> QED
    BY <2>1, <2>2 DEF CoverInv
<1>6. FirmInv'
  <2>1. \A s \in Side : Firm(s) \subseteq Firm(s)'
    <3> SUFFICES ASSUME NEW s \in Side, NEW g \in Firm(s), NEW v \in Busy', g \in Marked(job[v])'
                 PROVE  FALSE
      BY <1>2 DEF Firm
    <3>1. g \in Complete /\ \A u \in Busy : \A x \in job[u].pending : g # x[1]
      BY DEF Firm, WonBy, Marked
    <3>2. PICK x \in job'[v].pending : g = x[1]
      BY DEF Marked
    <3>3. CASE v # w
      BY <1>0, <1>1, <3>1, <3>2, <3>3
    <3>4. CASE v = w
      BY <1>0, <1>1, <3>1, <3>2, <3>4
    <3> QED
      BY <3>3, <3>4
  <2>2. \A s \in Side : /\ IsFiniteSet(WonBy(s)) /\ Firm(s) \subseteq WonBy(s)
                        /\ Firm(s)' \subseteq WonBy(s)
    BY <1>2, WonByType DEF Firm
  <2>3. \A s \in Side : /\ Cardinality(Firm(s)) <= Cardinality(Firm(s)')
                        /\ Cardinality(Firm(s)) \in Nat /\ Cardinality(Firm(s)') \in Nat
    <3> TAKE s \in Side
    <3>1. IsFiniteSet(Firm(s)) /\ IsFiniteSet(Firm(s)')
      BY <2>2, FS_Subset
    <3> QED
      BY <2>1, <3>1, FS_Subset, FS_CardinalityType
  <2> SUFFICES ASSUME matchup.state = "open", NEW v \in Busy', job'[v].at = "cancel"
               PROVE  \E s \in Side : Cardinality(Firm(s)') >= Wins
    BY <1>2 DEF FirmInv
  <2>4. CASE \E u \in Busy : job[u].at = "cancel"
    <3>1. PICK s \in Side : Cardinality(Firm(s)) >= Wins
      BY <1>0, <2>4 DEF FirmInv
    <3>2. Cardinality(Firm(s)') >= Wins
      BY <2>3, <3>1, LengthType
    <3> QED
      BY <3>2
  <2>5. CASE ~ \E u \in Busy : job[u].at = "cancel"
    <3>1. v = w /\ j # Idle /\ j.at = "cancel" /\ Decided
      BY <1>0, <1>1, <2>5
    <3>2. PICK s \in Side : Standing[s] >= Wins
      BY <3>1 DEF Decided, Reached, Wins, Length
    <3>3. \A u \in Busy : job[u].pending = {}
      BY <1>0, <2>5 DEF KindInv, OfKind
    <3>4. \A u \in Busy' : \A x \in job'[u].pending : x[1] \notin Complete
      BY <1>0, <1>1, <3>3
    <3>5. WonBy(s) = Firm(s)'
      BY <1>2, <3>4 DEF Firm, WonBy, Marked
    <3>6. Standing[s] = Cardinality(WonBy(s))
      BY WonByType
    <3> QED
      BY <3>2, <3>5, <3>6
  <2> QED
    BY <2>4, <2>5
<1>7. EndInv'
  <2>1. ASSUME matchup.state = "complete", Scheduled # {}
        PROVE  \E v \in Busy' : job'[v].at \in {"sweep", "cancel"}
    <3>1. PICK v \in Busy : job[v].at \in {"sweep", "cancel"}
      BY <1>0, <2>1 DEF EndInv
    <3> QED
      BY <1>0, <1>1, <2>1, <3>1
  <2>2. ASSUME stage = "active", matchup.state = "open", Decided
        PROVE  \E v \in Busy' : Carries(job[v])'
    <3>1. PICK v \in Busy : Carries(job[v])
      BY <1>0, <2>2 DEF EndInv
    <3>2. \A u \in Worker : Carries(job'[u]) => Carries(job[u])'
      BY <1>2 DEF Carries
    <3>3. \E u \in Busy' : Carries(job'[u])
      BY <1>0, <1>1, <2>2, <3>1
    <3> QED
      BY <1>0, <1>1, <3>2, <3>3
  <2> QED
    BY <1>2, <2>1, <2>2 DEF EndInv
<1> QED
  BY <1>3, <1>4, <1>5, <1>6, <1>7 DEF SeriesInv

LEMMA StartKinds ==
  ASSUME OnlySettlesOverlap, NEW w \in Worker, NEW k, MayStart(w, k)
  PROVE  /\ w \notin Busy
         /\ k \in {"race", "queue"} => \A v \in Busy : job[v].kind \in {"race", "queue"}
         /\ k \notin {"race", "queue"} => Busy = {}
<1>1. \A v \in Busy : {k, job[v].kind} \subseteq {"race", "queue"}
  BY DEF MayStart, OnlySettlesOverlap
<1> QED
  BY <1>1 DEF MayStart, Busy

(* A request that starts disturbs nothing. *)
LEMMA FreshJob ==
  ASSUME TypeOK, SeriesInv, OnlySettlesOverlap, NEW w \in Worker, NEW j, j # Idle,
         MayStart(w, j.kind), Go(w, j),
         UNCHANGED <<matchup, length, stage, game>>,
         Busy = {} \/ \A m \in Match : match'[m] = None <=> match[m] = None,
         j.pending = {},
         j.at \in {"load", "create", "remove", "unlink"} \/ (j.at = "save" /\ j.kind = "report"),
         OfKind(j), Works(j)
  PROVE  SeriesInv'
<1>1. /\ w \notin Busy
      /\ j.kind \in {"race", "queue"} => \A v \in Busy : job[v].kind \in {"race", "queue"}
      /\ j.kind \notin {"race", "queue"} => Busy = {}
  BY StartKinds
<1>2. KindInv'
  BY <1>1, KindsKept DEF SeriesInv
<1>3. Covers(j)'
  BY DEF Covers
<1> QED
  BY <1>1, <1>2, <1>3, JobChange

LEMMA SettleStarts ==
  ASSUME TypeInv, SeriesInv, OnlySettlesOverlap, NEW w \in Worker
  PROVE  /\ TakeConfirmed(w) => SeriesInv'
         /\ \A m \in Match, s \in SideOrNone, f \in Forfeits : RecordFinish(w, m, s, f) => SeriesInv'
<1>0. TypeOK
  BY DEF TypeInv
<1>1. ASSUME TakeConfirmed(w) PROVE SeriesInv'
  <2> DEFINE j == [Blank EXCEPT !.kind = "queue", !.match = Head(queue)]
  <2>1. j.kind = "queue" /\ j.at = "load" /\ j.pending = {} /\ j # Idle
    BY DEF Blank, Idle
  <2>2. MayStart(w, j.kind) /\ Go(w, j) /\ UNCHANGED <<matchup, length, stage, game, match>>
    BY <1>1, <2>1 DEF TakeConfirmed
  <2> HIDE DEF j
  <2>3. OfKind(j) /\ Works(j)
    BY <2>1 DEF OfKind, Works, Settling, Stripping
  <2> QED
    BY <1>0, <2>1, <2>2, <2>3, FreshJob
<1>2. ASSUME NEW m \in Match, NEW s \in SideOrNone, NEW f \in Forfeits, RecordFinish(w, m, s, f)
      PROVE  SeriesInv'
  <2> DEFINE j == [Blank EXCEPT !.match = m]
  <2>1. j.kind = "race" /\ j.at = "load" /\ j.pending = {} /\ j # Idle
    BY DEF Blank, Idle
  <2>2. MayStart(w, j.kind) /\ Go(w, j) /\ UNCHANGED <<matchup, length, stage, game>>
    BY <1>2, <2>1 DEF RecordFinish
  <2>3. \A n \in Match : match'[n] = None <=> match[n] = None
    <3>1. match[m] # None /\ match[m] \in MatchRow /\ f \in BOOLEAN
      BY <1>0, <1>2, FlagAssumption DEF RecordFinish, TypeOK
    <3>2. match' = [match EXCEPT ![m] = [match[m] EXCEPT !.finished = TRUE, !.winner = s, !.forfeit = f]]
      BY <1>0, <1>2 DEF RecordFinish, TypeOK
    <3>3. [match[m] EXCEPT !.finished = TRUE, !.winner = s, !.forfeit = f] \in MatchRow
      BY <3>1 DEF MatchRow
    <3> QED
      BY <1>0, <3>1, <3>2, <3>3, RowAssumption DEF TypeOK
  <2> HIDE DEF j
  <2>4. OfKind(j) /\ Works(j)
    BY <2>1 DEF OfKind, Works, Settling, Stripping
  <2> QED
    BY <1>0, <2>1, <2>2, <2>3, <2>4, FreshJob
<1> QED
  BY <1>1, <1>2

(* The number a booking takes is free, and is the first of a series of     *)
(* which no game is left.                                                  *)
LEMMA BookedNumber ==
  ASSUME TypeOK, FreeNumbers # {}
  PROVE  /\ Lowest(FreeNumbers) \in 1..Length
         /\ Rows = {} => Lowest(FreeNumbers) = 1
<1>1. FreeNumbers \subseteq Nat /\ FreeNumbers \subseteq 1..Length /\ Length \in Nat
  BY LengthType DEF FreeNumbers, Length
<1>2. Lowest(FreeNumbers) \in FreeNumbers
  BY <1>1, LowestIn
<1>3. ASSUME Rows = {} PROVE Lowest(FreeNumbers) = 1
  <2>1. FreeNumbers = 1..Length
    BY <1>3 DEF FreeNumbers, Length
  <2>2. \E x \in FreeNumbers : \A y \in FreeNumbers : x <= y
    BY <1>1, LowestExists
  <2>3. \A y \in FreeNumbers : Lowest(FreeNumbers) <= y
    BY <2>2 DEF Lowest
  <2> QED
    BY <1>1, <1>2, <2>1, <2>3
<1> QED
  BY <1>1, <1>2, <1>3

LEMMA CreateStarts ==
  ASSUME TypeInv, SeriesInv, OnlySettlesOverlap, NEW w \in Worker
  PROVE  /\ Book(w) => SeriesInv'
         /\ \A m \in Match : Link(w, m) => SeriesInv'
<1>0. TypeOK
  BY DEF TypeInv
<1>1. ASSUME NEW k \in {"book", "link"}, NEW m \in Match, Bookable,
             MayStart(w, k), Go(w, [Blank EXCEPT !.kind = k, !.at = "create", !.match = m,
                                                 !.number = Lowest(FreeNumbers)]),
             UNCHANGED <<matchup, length, stage, game>>
      PROVE  SeriesInv'
  <2> DEFINE j == [Blank EXCEPT !.kind = k, !.at = "create", !.match = m,
                                !.number = Lowest(FreeNumbers)]
  <2>1. /\ j.kind = k /\ j.at = "create" /\ j.pending = {} /\ j # Idle
        /\ j.match = m /\ j.number = Lowest(FreeNumbers)
    BY <1>1 DEF Blank, Idle
  <2>2. MayStart(w, j.kind) /\ Go(w, j)
    BY <1>1, <2>1
  <2>3. Busy = {}
    BY <1>1, StartKinds
  <2> HIDE DEF j
  <2>4. OfKind(j) /\ Works(j)
    <3>1. matchup.state = "open" /\ FreeNumbers # {} /\ m # None
      BY <1>1, IdAssumption DEF Bookable
    <3> QED
      BY <1>0, <1>1, <2>1, <3>1, BookedNumber DEF OfKind, Works, Settling, Stripping
  <2> QED
    BY <1>0, <1>1, <2>1, <2>2, <2>3, <2>4, FreshJob
<1>2. ASSUME Book(w) PROVE SeriesInv'
  <2>1. created.match + 1 \in Match /\ Bookable /\ UNCHANGED <<matchup, length, stage, game>>
    BY <1>2 DEF Book
  <2>2. Go(w, [Blank EXCEPT !.kind = "book", !.at = "create", !.match = created.match + 1,
                            !.number = Lowest(FreeNumbers)])
    BY <1>2 DEF Book
  <2>3. MayStart(w, "book")
    BY <1>2 DEF Book
  <2> QED
    BY <1>1, <2>1, <2>2, <2>3
<1>3. ASSUME NEW m \in Match, Link(w, m) PROVE SeriesInv'
  BY <1>1, <1>3 DEF Link
<1> QED
  BY <1>2, <1>3

LEMMA StaffStarts ==
  ASSUME TypeInv, SeriesInv, OnlySettlesOverlap, NEW w \in Worker
  PROVE  /\ \A m \in Match : Unlink(w, m) \/ RemoveMatch(w, m) => SeriesInv'
         /\ \A s \in Side : StaffResult(w, s) => SeriesInv'
<1>0. TypeOK /\ RowInv
  BY DEF TypeInv, SeriesInv
<1>1. ASSUME NEW m \in Match, Unlink(w, m) PROVE SeriesInv'
  <2>1. PICK g \in RowsOf(m) \cap InState("scheduled") :
          Go(w, [Blank EXCEPT !.kind = "unlink", !.at = "unlink", !.match = m, !.game = g])
    BY <1>1 DEF Unlink
  <2> DEFINE j == [Blank EXCEPT !.kind = "unlink", !.at = "unlink", !.match = m, !.game = g]
  <2>2. j.kind = "unlink" /\ j.at = "unlink" /\ j.pending = {} /\ j # Idle /\ j.game = g
    BY DEF Blank, Idle
  <2>3. MayStart(w, j.kind) /\ Go(w, j) /\ UNCHANGED <<matchup, length, stage, game, match>>
    BY <1>1, <2>1, <2>2 DEF Unlink
  <2>4. g \notin Complete
    BY DEF InState, Complete
  <2> HIDE DEF j
  <2>5. OfKind(j) /\ Works(j)
    BY <2>2, <2>4 DEF OfKind, Works, Settling, Stripping
  <2> QED
    BY <1>0, <2>2, <2>3, <2>5, FreshJob
<1>2. ASSUME NEW m \in Match, RemoveMatch(w, m) PROVE SeriesInv'
  <2> DEFINE released == RowsOf(m) \cap InState("scheduled")
             g == IF released = {} THEN None ELSE Lowest(released)
             j == [Blank EXCEPT !.kind = "remove", !.at = "remove", !.match = m, !.game = g]
  <2>1. /\ j.kind = "remove" /\ j.at = "remove" /\ j.pending = {} /\ j # Idle
        /\ j.match = m /\ j.game = g
    BY DEF Blank, Idle
  <2>2. MayStart(w, j.kind) /\ Go(w, j) /\ UNCHANGED <<matchup, length, stage, game, match>>
    BY <1>2, <2>1 DEF RemoveMatch
  <2>3. released \subseteq Nat
    BY IdAssumption DEF Rows, RowsOf
  <2>4. \A x, y \in released : x = y
    BY <1>0, IdAssumption DEF RowInv, RowsOf
  <2>5. released \subseteq {g}
    BY <2>3, <2>4, LowestIn
  <2>6. g \notin Complete
    <3>1. CASE released = {}
      BY <3>1, IdAssumption DEF Complete, InState, Rows
    <3>2. CASE released # {}
      <4>1. g \in InState("scheduled")
        BY <2>3, <3>2, LowestIn
      <4> QED
        BY <4>1 DEF Complete, InState
    <3> QED
      BY <3>1, <3>2
  <2>7. RowsOf(m) \cap Scheduled \subseteq {g}
    BY <2>5 DEF Scheduled
  <2> HIDE DEF j, g
  <2>8. OfKind(j) /\ Works(j)
    BY <2>1, <2>6, <2>7 DEF OfKind, Works, Settling, Stripping
  <2> QED
    BY <1>0, <2>1, <2>2, <2>8, FreshJob
<1>3. ASSUME NEW s \in Side, StaffResult(w, s) PROVE SeriesInv'
  <2> DEFINE j == [Blank EXCEPT !.kind = "report", !.at = "save", !.winner = s]
  <2>1. j.kind = "report" /\ j.at = "save" /\ j.pending = {} /\ j # Idle
    BY DEF Blank, Idle
  <2>2. MayStart(w, j.kind) /\ Go(w, j) /\ UNCHANGED <<matchup, length, stage, game, match>>
    BY <1>3, <2>1 DEF StaffResult
  <2> HIDE DEF j
  <2>3. OfKind(j) /\ Works(j)
    BY <2>1 DEF OfKind, Works, Settling, Stripping
  <2> QED
    BY <1>0, <2>1, <2>2, <2>3, FreshJob
<1> QED
  BY <1>1, <1>2, <1>3

(* What is known of a request at one of its steps. *)
LEMMA AtStep ==
  ASSUME TypeInv, SeriesInv, NEW w \in Worker, NEW step, At(w, step)
  PROVE  /\ TypeOK /\ RowInv /\ w \in Busy /\ job[w] \in Jobs /\ job[w].at = step
         /\ OfKind(job[w]) /\ Works(job[w]) /\ Covers(job[w])
  BY BusyJob DEF At, Busy, TypeInv, SeriesInv, KindInv, WorkInv, CoverInv

LEMMA LoadGameKeeps ==
  ASSUME TypeInv, SeriesInv, NEW w \in Worker, LoadGame(w)
  PROVE  SeriesInv'
<1> DEFINE m == job[w].match
           found == {g \in RowsOf(m) : game[g].state = "scheduled" /\ match[m].winner # None}
           j == IF found = {} THEN Idle
                ELSE [job[w] EXCEPT !.at = "settle", !.game = Lowest(found),
                                    !.open = (matchup.state = "open"),
                                    !.override = length.override,
                                    !.winner = match[m].winner, !.forfeit = match[m].forfeit]
<1>1. /\ TypeOK /\ RowInv /\ w \in Busy /\ job[w] \in Jobs /\ job[w].at = "load"
      /\ OfKind(job[w]) /\ Works(job[w]) /\ Covers(job[w])
  BY AtStep DEF LoadGame
<1>2. Go(w, j) /\ UNCHANGED <<matchup, length, stage, game, match>>
  BY DEF LoadGame
<1>3. m \in Match
  BY <1>1 DEF TypeInv, LoadsAMatch, Busy
<1>4. ASSUME found # {} PROVE Scheduled # {} /\ match[m].winner \in Side /\ Lowest(found) \in Game
  <2>1. match[m] \in MatchRow
    BY <1>3, <1>4, IdAssumption DEF RowsOf, Rows, TypeInv, TypeOK, ForeignKeys, GameRow
  <2>2. found \subseteq Nat /\ found \subseteq Game
    BY IdAssumption DEF RowsOf, Rows
  <2>3. Lowest(found) \in Game
    BY <1>4, <2>2, LowestIn
  <2> QED
    BY <1>4, <2>1, <2>3 DEF RowsOf, Scheduled, InState, MatchRow, SideOrNone
<1> HIDE DEF found, m
<1>5. j # Idle => /\ found # {}
                  /\ j.at = "settle" /\ j.kind = job[w].kind /\ j.pending = job[w].pending
                  /\ j.open = (matchup.state = "open") /\ j.override = length.override
                  /\ j.winner = match[m].winner /\ j.game = Lowest(found)
  BY <1>1 DEF Jobs
<1> HIDE DEF j
<1>6. job[w].pending = {} /\ ~Carries(job[w])
  BY <1>1 DEF OfKind, Carries
<1>7. PICK k : k = j
  OBVIOUS
<1>8. Go(w, k) /\ (k # Idle => k.at = "settle" /\ k.kind = job[w].kind /\ k.pending = {})
  BY <1>2, <1>5, <1>6, <1>7
<1>9. k # Idle => OfKind(k) /\ Works(k)
  BY <1>1, <1>4, <1>5, <1>7, <1>8 DEF OfKind, Works, Settling, Stripping
<1>10. KindInv'
  BY <1>1, <1>8, <1>9, KindsKept DEF SeriesInv
<1>11. k # Idle => Covers(k)'
  BY <1>8 DEF Covers
<1> QED
  BY <1>1, <1>2, <1>6, <1>8, <1>9, <1>10, <1>11, JobChange

(* The scheduled games, as loaded now, are covered. *)
LEMMA FreshCover ==
  ASSUME TypeInv, NEW j, UNCHANGED <<game, match, matchup>>,
         j.at = "cancel", j.pending = {<<g, game[g]>> : g \in InState("scheduled")}
  PROVE  Covers(j)' /\ \A x \in j.pending : x[1] \notin Complete
<1>1. \A x \in j.pending : /\ x[1] \in Rows /\ game[x[1]].state = "scheduled"
                           /\ x[2] = game[x[1]]
  BY DEF InState
<1>2. \A x \in j.pending : x[2].match # None => match[x[2].match] # None
  BY <1>1 DEF TypeInv, ForeignKeys
<1>3. Scheduled \subseteq Marked(j)
  <2> SUFFICES ASSUME NEW g \in Scheduled PROVE g \in Marked(j)
    OBVIOUS
  <2>1. <<g, game[g]>> \in j.pending
    BY DEF Scheduled
  <2>2. <<g, game[g]>>[1] = g
    OBVIOUS
  <2> QED
    BY <2>1, <2>2 DEF Marked
<1>4. Covers(j)
  BY <1>1, <1>2, <1>3 DEF Covers
<1>5. Covers(j)'
  BY <1>4 DEF Covers, Marked, Scheduled, InState, Rows
<1> QED
  BY <1>1, <1>5 DEF Complete, InState

LEMMA JudgeKeeps ==
  ASSUME TypeInv, SeriesInv, NEW w \in Worker, Judge(w)
  PROVE  SeriesInv'
<1> DEFINE clinch == [job[w] EXCEPT
                        !.at = "cancel", !.then = "record", !.score = Standing,
                        !.forfeit = \A g \in InState("complete") : game[g].forfeit,
                        !.pending = {<<g, game[g]>> : g \in InState("scheduled")},
                        !.doomed = {game[g].match : g \in InState("scheduled")} \ {None}]
           reached == Reached(Standing, BestOf(job[w].override))
           j == IF reached THEN clinch ELSE Idle
<1>1. /\ TypeOK /\ RowInv /\ w \in Busy /\ job[w] \in Jobs /\ job[w].at = "judge"
      /\ OfKind(job[w]) /\ Works(job[w]) /\ Covers(job[w])
  BY AtStep DEF Judge
<1>2. Go(w, j) /\ UNCHANGED <<matchup, length, stage, game, match>>
  BY DEF Judge
<1>3. /\ clinch.at = "cancel" /\ clinch.then = "record" /\ clinch.kind = job[w].kind
      /\ clinch.score = Standing
      /\ clinch.pending = {<<g, game[g]>> : g \in InState("scheduled")}
      /\ clinch.winner = job[w].winner /\ clinch.open = job[w].open
  BY <1>1 DEF Jobs
<1>4. /\ job[w].winner \in Side /\ job[w].kind \in {"race", "queue"}
      /\ matchup.state = "open" => job[w].open /\ job[w].override = length.override
  BY <1>1 DEF Works, Settling, OfKind
<1> HIDE DEF clinch
<1>5. OfKind(clinch) /\ Works(clinch)
  BY <1>3, <1>4 DEF OfKind, Works, Settling, Stripping
<1>7. reached /\ matchup.state = "open" => Decided
  BY <1>4 DEF Decided
<1>8. ASSUME Carries(job[w]), matchup.state = "open" PROVE reached /\ Carries(clinch)
  <2>1. Standing[job[w].winner] >= Wins
    BY <1>1, <1>8 DEF Carries
  <2>2. Standing[job[w].winner] > Standing[Other(job[w].winner)]
    BY <1>1, <1>4, <2>1, OneWinner
  <2> QED
    BY <1>3, <1>4, <1>8, <2>1, <2>2 DEF Carries, Reached, Wins, Length
<1> HIDE DEF reached
<1>9. clinch # Idle
  BY <1>3, <1>4 DEF Idle
<1>10. PICK k : k = j
  OBVIOUS
<1>11. /\ Go(w, k) /\ (k # Idle => k = clinch /\ reached) /\ (reached => k # Idle)
  BY <1>2, <1>9, <1>10
<1> HIDE DEF j
<1>12. k # Idle => Covers(k)' /\ \A x \in k.pending : x[1] \notin Complete
  BY <1>2, <1>3, <1>11, FreshCover
<1>13. k # Idle => OfKind(k) /\ Works(k) /\ k.kind = job[w].kind
  BY <1>3, <1>5, <1>11
<1>14. KindInv'
  BY <1>1, <1>11, <1>13, KindsKept DEF SeriesInv
<1>15. Carries(job[w]) /\ matchup.state = "open" => k # Idle /\ Carries(k)
  BY <1>8, <1>11
<1> QED
  BY <1>1, <1>2, <1>7, <1>11, <1>12, <1>13, <1>14, <1>15, JobChange

LEMMA AllCancelledKeeps ==
  ASSUME TypeInv, SeriesInv, NEW w \in Worker, AllCancelled(w)
  PROVE  SeriesInv'
<1> DEFINE next == IF job[w].at = "cancel" /\ job[w].then = "record" /\ ~job[w].open
                   THEN "teardown" ELSE job[w].then
           j == [job[w] EXCEPT !.at = next]
<1>1. /\ TypeOK /\ RowInv /\ w \in Busy /\ job[w] \in Jobs /\ job[w].at = "cancel"
      /\ OfKind(job[w]) /\ Works(job[w]) /\ Covers(job[w])
  BY AtStep DEF AllCancelled
<1>2. Go(w, j) /\ UNCHANGED <<matchup, length, stage, game, match>> /\ job[w].pending = {}
  BY <1>1 DEF AllCancelled, Jobs
<1>3. Scheduled = {} /\ Scheduled' = {}
  BY <1>1, <1>2 DEF Covers, Marked, Scheduled, InState, Rows
<1>4. /\ j.at = next /\ j.kind = job[w].kind /\ j.pending = {} /\ j.then = job[w].then
      /\ j.winner = job[w].winner /\ j.score = job[w].score /\ j # Idle
  BY <1>1, <1>2 DEF Jobs, Idle, Kind
<1>4a. PICK k : k = j
  OBVIOUS
<1>5. job[w].then \in {"record", "teardown"} /\ matchup.state \in {"open", "complete"}
  BY <1>1 DEF Jobs, TypeOK
<1>6. /\ Go(w, k) /\ k.at = next /\ k.kind = job[w].kind /\ k.pending = {} /\ k # Idle
      /\ k.winner = job[w].winner /\ k.score = job[w].score
  BY <1>2, <1>4, <1>4a
<1> HIDE DEF j
<1>7. CASE job[w].then = "record" /\ job[w].open
  <2>1. k.at = "record" /\ job[w].winner \in Side /\ job[w].kind \in {"race", "queue"}
    BY <1>1, <1>6, <1>7 DEF Works, Settling, OfKind
  <2> HIDE DEF next
  <2>2. OfKind(k) /\ Works(k)
    BY <1>6, <2>1 DEF OfKind, Works, Settling, Stripping
  <2>3. Covers(k)'
    BY <1>3, <1>6, <2>1 DEF Covers
  <2>4. KindInv'
    BY <1>1, <1>6, <2>2, KindsKept DEF SeriesInv
  <2>5. Carries(job[w]) => Carries(k)
    BY <1>1, <1>6, <2>1 DEF Carries
  <2> QED
    BY <1>1, <1>2, <1>3, <1>6, <2>1, <2>2, <2>3, <2>4, <2>5, JobChange
<1>8. CASE ~(job[w].then = "record" /\ job[w].open)
  <2>1. k.at = "teardown"
    BY <1>1, <1>5, <1>6, <1>8
  <2>2. job[w].kind \in {"race", "queue", "report"} /\ matchup.state = "complete"
    BY <1>1, <1>5, <1>8 DEF Works, Settling, Stripping, OfKind
  <2> HIDE DEF next
  <2>3. OfKind(k) /\ Works(k)
    BY <1>6, <2>1, <2>2 DEF OfKind, Works, Settling, Stripping
  <2>4. Covers(k)'
    BY <1>3, <1>6, <2>1 DEF Covers
  <2>5. KindInv'
    BY <1>1, <1>6, <2>3, KindsKept DEF SeriesInv
  <2> QED
    BY <1>1, <1>2, <1>3, <1>6, <2>1, <2>2, <2>3, <2>4, <2>5, JobChange
<1> QED
  BY <1>7, <1>8

LEMMA RecordSeriesKeeps ==
  ASSUME TypeInv, SeriesInv, NEW w \in Worker, RecordSeries(w)
  PROVE  SeriesInv'
<1> DEFINE saved == [job[w] EXCEPT !.at = "save"]
           j == IF Recordable(job[w]) THEN saved ELSE Idle
<1>1. /\ TypeOK /\ RowInv /\ w \in Busy /\ job[w] \in Jobs /\ job[w].at = "record"
      /\ OfKind(job[w]) /\ Works(job[w]) /\ Covers(job[w])
  BY AtStep DEF RecordSeries
<1>2. Go(w, j) /\ UNCHANGED <<matchup, length, stage, game, match>>
  BY DEF RecordSeries
<1>3. /\ saved.at = "save" /\ saved.kind = job[w].kind /\ saved.pending = job[w].pending
      /\ saved.winner = job[w].winner /\ saved.score = job[w].score /\ saved # Idle
  BY <1>1 DEF Jobs, Idle, Kind
<1>4. job[w].pending = {} /\ job[w].kind \in {"race", "queue"} /\ Scheduled' = {}
  BY <1>1, <1>2 DEF OfKind, Covers, Scheduled, InState, Rows
<1> HIDE DEF saved
<1>5. OfKind(saved) /\ Works(saved)
  BY <1>3, <1>4 DEF OfKind, Works, Settling, Stripping
<1>7. Carries(job[w]) => Carries(saved)
  BY <1>1, <1>3, <1>4 DEF Carries
<1>8. Carries(job[w]) /\ matchup.state = "open" /\ stage = "active" => j = saved
  BY <1>1 DEF Carries, Recordable
<1>9. PICK k : k = j
  OBVIOUS
<1>10. Go(w, k) /\ (k # Idle => k = saved) /\ (j = saved => k = saved)
  BY <1>2, <1>9
<1> HIDE DEF j
<1>11. k # Idle => /\ OfKind(k) /\ Works(k) /\ k.kind = job[w].kind
                   /\ k.at = "save" /\ k.pending = {}
  BY <1>3, <1>4, <1>5, <1>10
<1>12. k # Idle => Covers(k)'
  BY <1>4, <1>11 DEF Covers
<1>13. KindInv'
  BY <1>1, <1>10, <1>11, KindsKept DEF SeriesInv
<1>14. Carries(job[w]) /\ matchup.state = "open" /\ stage = "active" => k # Idle /\ Carries(k)
  BY <1>3, <1>7, <1>8, <1>10
<1> QED
  BY <1>1, <1>2, <1>10, <1>11, <1>12, <1>13, <1>14, JobChange

LEMMA SweepKeeps ==
  ASSUME TypeInv, SeriesInv, NEW w \in Worker, Sweep(w)
  PROVE  SeriesInv'
<1> DEFINE j == [job[w] EXCEPT
                   !.at = "cancel", !.then = "teardown",
                   !.pending = {<<g, game[g]>> : g \in InState("scheduled")},
                   !.doomed = @ \cup ({game[g].match : g \in InState("scheduled")} \ {None})]
<1>1. /\ TypeOK /\ RowInv /\ w \in Busy /\ job[w] \in Jobs /\ job[w].at = "sweep"
      /\ OfKind(job[w]) /\ Works(job[w]) /\ Covers(job[w])
  BY AtStep DEF Sweep
<1>2. Go(w, j) /\ UNCHANGED <<matchup, length, stage, game, match>>
  BY DEF Sweep
<1>3. /\ j.at = "cancel" /\ j.then = "teardown" /\ j.kind = job[w].kind /\ j # Idle
      /\ j.pending = {<<g, game[g]>> : g \in InState("scheduled")}
  BY <1>1 DEF Jobs, Idle, Kind
<1>4. matchup.state = "complete" /\ job[w].kind \in {"race", "queue", "report"}
  BY <1>1 DEF Works, Stripping, OfKind
<1>5. PICK k : k = j
  OBVIOUS
<1>6. /\ Go(w, k) /\ k.at = "cancel" /\ k.then = "teardown" /\ k.kind = job[w].kind /\ k # Idle
      /\ k.pending = {<<g, game[g]>> : g \in InState("scheduled")}
  BY <1>2, <1>3, <1>5
<1> HIDE DEF j
<1>7. OfKind(k) /\ Works(k)
  BY <1>4, <1>6 DEF OfKind, Works, Settling, Stripping
<1>8. Covers(k)' /\ \A x \in k.pending : x[1] \notin Complete
  BY <1>2, <1>6, FreshCover
<1>9. KindInv'
  BY <1>1, <1>6, <1>7, KindsKept DEF SeriesInv
<1> QED
  BY <1>1, <1>2, <1>4, <1>6, <1>7, <1>8, <1>9, JobChange

LEMMA SaveResultKeeps ==
  ASSUME TypeInv, SeriesInv, NEW w \in Worker, SaveResult(w)
  PROVE  SeriesInv'
<1> DEFINE j == [job[w] EXCEPT !.at = "sweep"]
<1>1. /\ TypeOK /\ RowInv /\ w \in Busy /\ job[w] \in Jobs /\ job[w].at = "save"
      /\ OfKind(job[w]) /\ Works(job[w]) /\ Covers(job[w])
  BY AtStep DEF SaveResult
<1>2. /\ Go(w, j) /\ UNCHANGED <<length, stage, game, match>>
      /\ matchup'.state = "complete"
  BY DEF SaveResult
<1>3. PICK k : k = j
  OBVIOUS
<1>4. /\ Go(w, k) /\ k.at = "sweep" /\ k.kind = job[w].kind /\ k # Idle /\ k.pending = job[w].pending
  BY <1>1, <1>2, <1>3 DEF Jobs, Idle, Kind
<1> HIDE DEF j
<1>5. /\ job'[w] = k
      /\ \A v \in Worker \ {w} : job'[v] = job[v]
      /\ Busy' = Busy /\ Busy \subseteq Worker
  BY <1>1, <1>4, GoJob DEF Busy
<1>6. job[w].kind \in {"race", "queue", "report"} /\ job[w].pending = {}
  BY <1>1 DEF OfKind
<1>7. /\ Scheduled' = Scheduled /\ Complete' = Complete /\ Rows' = Rows
      /\ Standing' = Standing /\ Decided' = Decided /\ Length' = Length
      /\ \A m : RowsOf(m)' = RowsOf(m)
      /\ InState("cancelled")' = InState("cancelled")
  BY <1>2 DEF Scheduled, Complete, InState, Rows, Standing, Decided, Reached, BestOf, WinsNeeded,
         Length, RowsOf
<1>8. KindInv'
  <2>1. OfKind(k)
    BY <1>4, <1>6 DEF OfKind, Settling, Stripping
  <2> QED
    BY <1>1, <1>4, <2>1, KindsKept DEF SeriesInv
<1>9. RowInv'
  BY <1>1, <1>2, <1>7 DEF RowInv
<1>10. WorkInv'
  <2>1. ASSUME NEW v \in Busy, v # w PROVE job[v].at # "create" /\ job[v].at # "unlink" /\ job[v].at # "remove"
    BY <1>1, <2>1 DEF SeriesInv, KindInv, OfKind
  <2>2. ASSUME NEW v \in Busy, v # w PROVE Works(job[v])'
    BY <1>2, <1>5, <1>7, <2>1, <2>2 DEF SeriesInv, WorkInv, Works, Settling, Stripping
  <2>3. Works(job[w])'
    BY <1>2, <1>4, <1>5, <1>7 DEF Works, Settling, Stripping
  <2> QED
    BY <1>5, <2>2, <2>3 DEF WorkInv
<1>11. CoverInv'
  <2>1. ASSUME NEW v \in Busy, v # w PROVE Covers(job[v])'
    BY <1>2, <1>5, <1>7, <2>1 DEF SeriesInv, CoverInv, Covers, Marked
  <2>2. Covers(job[w])'
    BY <1>1, <1>4, <1>5, <1>6, <1>7 DEF Covers
  <2> QED
    BY <1>5, <2>1, <2>2 DEF CoverInv
<1>12. FirmInv' /\ EndInv'
  BY <1>1, <1>2, <1>4, <1>5 DEF FirmInv, EndInv
<1> QED
  BY <1>8, <1>9, <1>10, <1>11, <1>12 DEF SeriesInv

(* Results that arrive on the matches, and the end of the stage. *)
LEMMA OutsideKeeps ==
  ASSUME TypeInv, SeriesInv, UNCHANGED <<matchup, length, game, job>>,
         stage' = "active" => stage = "active",
         \A m \in Match : match'[m] = None <=> match[m] = None
  PROVE  SeriesInv'
<1>0. TypeOK
  BY DEF TypeInv
<1>1. /\ Scheduled' = Scheduled /\ Complete' = Complete /\ Rows' = Rows /\ Busy' = Busy
      /\ Standing' = Standing /\ Decided' = Decided /\ Length' = Length /\ Wins' = Wins
      /\ \A m : RowsOf(m)' = RowsOf(m)
      /\ \A s : WonBy(s)' = WonBy(s)
      /\ InState("cancelled")' = InState("cancelled")
  BY DEF Scheduled, Complete, InState, Rows, Standing, Decided, Reached, BestOf, WinsNeeded,
         Length, Wins, RowsOf, WonBy, Busy
<1>2. KindInv'
  BY <1>1 DEF SeriesInv, KindInv, OfKind, Settling, Stripping
<1>3. RowInv'
  BY <1>1 DEF SeriesInv, RowInv
<1>4. WorkInv'
  BY <1>1 DEF SeriesInv, WorkInv, Works, Settling, Stripping
<1>5. CoverInv'
  <2> SUFFICES ASSUME NEW v \in Busy PROVE Covers(job[v])'
    BY <1>1 DEF CoverInv
  <2>1. \A x \in job[v].pending : x[2].match \in Match \cup {None}
    BY <1>0, BusyJob DEF Jobs, GameRow
  <2> QED
    BY <1>1, <2>1 DEF SeriesInv, CoverInv, Covers, Marked
<1>6. FirmInv'
  <2>1. \A s : Firm(s)' = Firm(s)
    BY <1>1 DEF Firm, Marked
  <2> QED
    BY <1>1, <2>1 DEF SeriesInv, FirmInv
<1>7. EndInv'
  BY <1>1 DEF SeriesInv, EndInv, Carries
<1> QED
  BY <1>2, <1>3, <1>4, <1>5, <1>6, <1>7 DEF SeriesInv

LEMMA MatchChange ==
  ASSUME TypeOK, NEW m \in Match, match[m] # None, NEW r \in MatchRow,
         match' = [match EXCEPT ![m] = r]
  PROVE  \A n \in Match : match'[n] = None <=> match[n] = None
  BY RowAssumption DEF TypeOK

LEMMA PlayKeeps ==
  ASSUME TypeInv, SeriesInv
  PROVE  /\ \A m \in Match, s \in Side : RecordMatchResult(m, s) => SeriesInv'
         /\ \A m \in Match : FinishMatch(m) \/ ConfirmMatch(m) => SeriesInv'
         /\ CancelStage => SeriesInv'
<1>0. TypeOK
  BY DEF TypeInv
<1>1. ASSUME NEW m \in Match, NEW s \in Side, RecordMatchResult(m, s) PROVE SeriesInv'
  <2>1. match[m] # None /\ match' = [match EXCEPT ![m] = [match[m] EXCEPT !.winner = s, !.forfeit = FALSE]]
    BY <1>0, <1>1 DEF RecordMatchResult, TypeOK
  <2>2. \A n \in Match : match'[n] = None <=> match[n] = None
    BY <1>0, <2>1, ResultType, MatchChange
  <2> QED
    BY <1>1, <2>2, OutsideKeeps DEF RecordMatchResult
<1>2. ASSUME NEW m \in Match, FinishMatch(m) PROVE SeriesInv'
  <2>1. match[m] # None /\ match' = [match EXCEPT ![m] = [match[m] EXCEPT !.finished = TRUE]]
    BY <1>0, <1>2 DEF FinishMatch, TypeOK
  <2>2. \A n \in Match : match'[n] = None <=> match[n] = None
    BY <1>0, <2>1, ResultType, MatchChange
  <2> QED
    BY <1>2, <2>2, OutsideKeeps DEF FinishMatch
<1>3. ASSUME NEW m \in Match, ConfirmMatch(m) PROVE SeriesInv'
  <2>1. match[m] # None /\ match' = [match EXCEPT ![m] = [match[m] EXCEPT !.confirmed = TRUE]]
    BY <1>0, <1>3 DEF ConfirmMatch, TypeOK
  <2>2. \A n \in Match : match'[n] = None <=> match[n] = None
    BY <1>0, <2>1, ResultType, MatchChange
  <2> QED
    BY <1>3, <2>2, OutsideKeeps DEF ConfirmMatch
<1>4. CancelStage => SeriesInv'
  BY OutsideKeeps DEF CancelStage
<1> QED
  BY <1>1, <1>2, <1>3, <1>4

(* A length is only changed under a series no game of which counts. *)
LEMMA LengthKeeps ==
  ASSUME TypeInv, TypeOK', SeriesInv, UNCHANGED <<matchup, stage, game, match, job>>,
         Scheduled \cup Complete = {}
  PROVE  SeriesInv'
<1>0. /\ TypeOK /\ KindInv /\ RowInv /\ WorkInv /\ CoverInv /\ FirmInv /\ EndInv
      /\ Busy \subseteq Worker
  BY DEF TypeInv, SeriesInv, Busy
<1>1. /\ Scheduled' = {} /\ Complete' = {} /\ Scheduled = {} /\ Complete = {}
      /\ Rows' = Rows /\ Busy' = Busy
      /\ \A m : RowsOf(m)' = RowsOf(m)
      /\ \A s : WonBy(s)' = {} /\ WonBy(s) = {}
      /\ InState("cancelled")' = InState("cancelled")
  BY DEF Scheduled, Complete, InState, Rows, RowsOf, WonBy, Busy
<1>2. \A s \in Side : Standing[s] = 0 /\ Standing'[s] = 0
  BY <1>1, FS_EmptySet DEF Standing, Complete
<1>3. ~Decided
  BY <1>0, <1>2, LengthType DEF Decided, Reached, Wins, Length
<1>4. ~Decided'
  <2>1. (Wins \in Nat \ {0})'
    <3>1. TypeOK' => (Wins \in Nat \ {0})'
      BY LengthType, PTL
    <3> QED
      BY <3>1
  <2> QED
    BY <1>2, <2>1 DEF Decided, Reached, Wins, Length
<1>5. Length' \in Nat /\ Length' >= 1
  <2>1. TypeOK' => (Length \in Nat /\ Wins \in Nat \ {0} /\ 2 * Wins = Length + 1)'
    BY LengthType, PTL
  <2> QED
    BY <2>1
<1>6. KindInv'
  BY <1>0, <1>1 DEF KindInv, OfKind, Settling, Stripping
<1>7. RowInv'
  BY <1>0, <1>1, <1>3 DEF RowInv
<1>8. InState("cancelled") # {} => matchup.state = "complete"
  BY <1>0, <1>3 DEF RowInv
<1>9. Rows # {} => InState("cancelled") # {}
  BY <1>0, <1>1 DEF Rows, InState, TypeOK, GameRow, Scheduled, Complete
<1>10. WorkInv'
  <2> SUFFICES ASSUME NEW v \in Busy PROVE Works(job[v])'
    BY <1>1 DEF WorkInv
  <2>1. Works(job[v])
    BY <1>0 DEF WorkInv
  <2>2. job[v].at = "create" => job[v].number = 1
    BY <1>8, <1>9, <2>1 DEF Works
  <2> QED
    BY <1>1, <1>5, <2>1, <2>2 DEF Works, Settling, Stripping
<1>11. CoverInv'
  BY <1>0, <1>1 DEF CoverInv, Covers, Marked
<1>12. FirmInv'
  <2>1. \A s \in Side : Firm(s) = {}
    BY <1>1 DEF Firm
  <2>2. \A s \in Side : ~(Cardinality(Firm(s)) >= Wins)
    BY <1>0, <2>1, LengthType, FS_EmptySet
  <2> QED
    BY <1>0, <1>1, <2>2 DEF FirmInv
<1>13. EndInv'
  BY <1>1, <1>4 DEF EndInv
<1> QED
  BY <1>6, <1>7, <1>10, <1>11, <1>12, <1>13 DEF SeriesInv

LEMMA EditKeeps ==
  ASSUME TypeInv, TypeOK', SeriesInv, OnlySettlesOverlap
  PROVE  /\ \A b \in Lengths \cup {None} : SetBestOf(b) => SeriesInv'
         /\ \A b \in Lengths : SetRoundMetadata(b) => SeriesInv'
<1>1. ASSUME NEW b \in Lengths \cup {None}, SetBestOf(b) PROVE SeriesInv'
  BY <1>1, LengthKeeps DEF SetBestOf, Scheduled, Complete
<1>2. ASSUME NEW b \in Lengths, SetRoundMetadata(b) PROVE SeriesInv'
  <2>1. Rows = {}
    BY <1>2 DEF SetRoundMetadata, OnlySettlesOverlap
  <2>2. Scheduled \cup Complete = {}
    BY <2>1 DEF Scheduled, Complete, InState
  <2> QED
    BY <1>2, <2>2, LengthKeeps DEF SetRoundMetadata
<1> QED
  BY <1>1, <1>2

-----------------------------------------------------------------------------
(* Steps that change the rows.                                             *)

(* Deleting rows and letting go of a match keep every other row's result. *)
Drops(S) ==
  \A g \in Game :
    IF g \in S \/ game[g] = None THEN game'[g] = None
    ELSE /\ game'[g] # None
         /\ game'[g].number = game[g].number /\ game'[g].state = game[g].state
         /\ game'[g].winner = game[g].winner
         /\ game'[g].match \in {game[g].match, None}

LEMMA DropRows ==
  ASSUME TypeOK, RowInv, UNCHANGED <<matchup, length>>, NEW S, Drops(S), S \cap Complete = {},
         \A g \in Scheduled \ S : game'[g].match # None
  PROVE  /\ Rows' = Rows \ S /\ Scheduled' = Scheduled \ S /\ Complete' = Complete
         /\ Standing' = Standing /\ Decided' = Decided
         /\ \A s : WonBy(s)' = WonBy(s)
         /\ RowInv'
<1>1. /\ Rows' = Rows \ S
      /\ \A g \in Rows \ S : /\ game'[g].number = game[g].number /\ game'[g].state = game[g].state
                             /\ game'[g].winner = game[g].winner
                             /\ game'[g].match \in {game[g].match, None}
  BY DEF Drops, Rows
<1>2. /\ \A st : InState(st)' = InState(st) \ S
      /\ Scheduled' = Scheduled \ S /\ Complete' = Complete
  BY <1>1 DEF InState, Scheduled, Complete
<1>3. \A g \in Complete : game'[g].winner = game[g].winner
  BY <1>1 DEF Complete, InState
<1>4. /\ \A s : WonBy(s)' = WonBy(s)
      /\ \A s \in Side : {g \in InState("complete")' : game'[g].winner = s}
                           = {g \in InState("complete") : game[g].winner = s}
  BY <1>2, <1>3 DEF WonBy, Complete
<1>5. Standing' = Standing
  BY <1>4 DEF Standing
<1>6. Decided' = Decided /\ Length' = Length
  BY <1>5 DEF Decided, Reached, BestOf, WinsNeeded, Length
<1>7. RowInv'
  <2>1. \A g, h \in Rows' : game'[g].number = game'[h].number => g = h
    BY <1>1 DEF RowInv
  <2>2. \A g, h \in Rows' : game'[g].match = game'[h].match /\ game'[g].match # None => g = h
    BY <1>1 DEF RowInv
  <2>3. \A g \in Scheduled' \cup Complete' : game'[g].number \in 1..Length'
    <3>1. \A g \in Scheduled' \cup Complete' : g \in Scheduled \cup Complete /\ g \in Rows \ S
      BY <1>1, <1>2 DEF Scheduled, Complete, InState
    <3> QED
      BY <1>1, <1>6, <3>1 DEF RowInv
  <2>4. \A g \in Complete' : game'[g].winner \in Side
    BY <1>2, <1>3 DEF RowInv
  <2>5. \A g \in Scheduled' : game'[g].match # None
    BY <1>2
  <2>6. InState("cancelled")' # {} => Decided' \/ matchup'.state = "complete"
    BY <1>2, <1>6 DEF RowInv
  <2> QED
    BY <2>1, <2>2, <2>3, <2>4, <2>5, <2>6 DEF RowInv
<1> QED
  BY <1>1, <1>2, <1>4, <1>5, <1>6, <1>7

LEMMA UnlinkedDrops ==
  ASSUME TypeOK, NEW S, NEW m, game' = Unlinked(DeleteGames(S), m)
  PROVE  /\ Drops(S)
         /\ \A g \in Game : game[g] # None /\ g \notin S =>
              game'[g].match = IF game[g].match = m THEN None ELSE game[g].match
<1> SUFFICES ASSUME NEW g \in Game
             PROVE  /\ IF g \in S \/ game[g] = None THEN game'[g] = None
                       ELSE /\ game'[g] # None
                            /\ game'[g].number = game[g].number /\ game'[g].state = game[g].state
                            /\ game'[g].winner = game[g].winner
                            /\ game'[g].match \in {game[g].match, None}
                    /\ game[g] # None /\ g \notin S =>
                         game'[g].match = IF game[g].match = m THEN None ELSE game[g].match
  BY DEF Drops
<1>1. CASE g \in S \/ game[g] = None
  BY <1>1 DEF Unlinked, DeleteGames
<1>2. CASE g \notin S /\ game[g] # None
  <2>1. game[g] \in GameRow /\ DeleteGames(S)[g] = game[g]
    BY <1>2 DEF DeleteGames, TypeOK
  <2>2. game'[g] = IF game[g].match = m THEN [game[g] EXCEPT !.match = None] ELSE game[g]
    BY <1>2, <2>1 DEF Unlinked
  <2>3. [game[g] EXCEPT !.match = None] \in GameRow
    BY <2>1 DEF GameRow
  <2> QED
    BY <1>2, <2>1, <2>2, <2>3, RowAssumption DEF GameRow
<1> QED
  BY <1>1, <1>2

(* A request alone that ends leaves the matchup as it found it. *)
LEMMA SoloEnds ==
  ASSUME TypeOK, SeriesInv, NEW w \in Busy, Busy = {w}, Done(w), UNCHANGED <<matchup, length, stage>>,
         job[w].at \in {"create", "unlink", "remove"},
         RowInv', Decided' = Decided,
         Scheduled' \subseteq Scheduled \/ matchup.state = "open"
  PROVE  SeriesInv'
<1>1. Busy' = {}
  BY GoJob DEF Done, Busy
<1>2. ~Carries(job[w])
  BY DEF Carries
<1>3. EndInv'
  BY <1>1, <1>2 DEF SeriesInv, EndInv
<1> QED
  BY <1>1, <1>3 DEF SeriesInv, KindInv, WorkInv, CoverInv, FirmInv

LEMMA UnlinkGameKeeps ==
  ASSUME TypeInv, SeriesInv, NEW w \in Worker, UnlinkGame(w)
  PROVE  SeriesInv'
<1>1. /\ TypeOK /\ RowInv /\ w \in Busy /\ job[w].at = "unlink"
      /\ OfKind(job[w]) /\ Works(job[w])
  BY AtStep DEF UnlinkGame
<1>2. Busy = {w} /\ job[w].game \notin Complete
  BY <1>1, Alone DEF OfKind, Works, SeriesInv
<1>3. game' = DeleteGames({job[w].game}) /\ Done(w) /\ UNCHANGED <<matchup, length, stage>>
  BY DEF UnlinkGame
<1>4. Drops({job[w].game})
  BY <1>3 DEF Drops, DeleteGames
<1>5. \A g \in Scheduled \ {job[w].game} : game'[g].match # None
  BY <1>1, <1>3 DEF DeleteGames, RowInv, Scheduled, InState, Rows
<1>6. RowInv' /\ Decided' = Decided /\ Scheduled' = Scheduled \ {job[w].game}
  BY <1>1, <1>2, <1>3, <1>4, <1>5, DropRows
<1> QED
  BY <1>1, <1>2, <1>3, <1>6, SoloEnds

LEMMA DeleteMatchKeeps ==
  ASSUME TypeInv, SeriesInv, NEW w \in Worker, DeleteMatch(w)
  PROVE  SeriesInv'
<1> DEFINE m == job[w].match
           S == {job[w].game}
<1>1. /\ TypeOK /\ RowInv /\ w \in Busy /\ job[w].at = "remove"
      /\ OfKind(job[w]) /\ Works(job[w])
  BY AtStep DEF DeleteMatch
<1>2. /\ Busy = {w} /\ S \cap Complete = {}
      /\ RowsOf(m) \cap Scheduled \subseteq S
  BY <1>1, Alone DEF OfKind, Works, SeriesInv
<1>3. game' = Unlinked(DeleteGames(S), m) /\ Done(w) /\ UNCHANGED <<matchup, length, stage>>
  BY DEF DeleteMatch
<1> HIDE DEF S, m
<1>4. /\ Drops(S)
      /\ \A g \in Game : game[g] # None /\ g \notin S =>
           game'[g].match = IF game[g].match = m THEN None ELSE game[g].match
  BY <1>1, <1>3, UnlinkedDrops
<1>5. \A g \in Scheduled \ S : game'[g].match # None
  <2> TAKE g \in Scheduled \ S
  <2>1. g \in Rows /\ g \notin RowsOf(m)
    BY <1>2 DEF Scheduled, InState
  <2>2. g \in Game /\ game[g] # None /\ game[g].match # m /\ game[g].match # None
    BY <1>1, <2>1 DEF RowsOf, Rows, RowInv
  <2> QED
    BY <1>4, <2>2
<1>6. RowInv' /\ Decided' = Decided /\ Scheduled' = Scheduled \ S
  BY <1>1, <1>2, <1>3, <1>4, <1>5, DropRows
<1> QED
  BY <1>1, <1>2, <1>3, <1>6, SoloEnds

LEMMA CreateGameKeeps ==
  ASSUME TypeInv, SettledInv, SeriesInv, NEW w \in Worker, CreateGame(w)
  PROVE  SeriesInv'
<1> DEFINE m == job[w].match
           n == job[w].number
           new == created.game + 1
           row == [number |-> n, state |-> "scheduled", winner |-> None,
                   forfeit |-> FALSE, match |-> m]
<1>1. /\ TypeOK /\ RowInv /\ w \in Busy /\ job[w].at = "create" /\ job[w] \in Jobs
      /\ OfKind(job[w]) /\ Works(job[w])
  BY AtStep DEF CreateGame
<1>2. Busy = {w}
  BY <1>1, Alone DEF OfKind, SeriesInv
<1>3. matchup.state = "open" /\ m # None /\ n \in 1..Length
  BY <1>1 DEF Works
<1>4. Done(w) /\ UNCHANGED <<matchup, length, stage>>
  BY DEF CreateGame
<1>5. CASE game' = game
  <2>1. RowInv' /\ Decided' = Decided
    BY <1>1, <1>4, <1>5
    DEF Scheduled, Complete, InState, Rows, Standing, Decided, Reached, BestOf, WinsNeeded, Length,
        RowInv
  <2> QED
    BY <1>1, <1>2, <1>3, <1>4, <2>1, SoloEnds
<1>6. CASE game' # game
  <2>1. /\ game' = [game EXCEPT ![new] = row]
        /\ RowsOf(m) = {} /\ \A g \in Rows : game[g].number # n
    BY <1>6 DEF CreateGame
  <2>2. new \in Game /\ new \notin Rows
    <3>1. new \in Game
      BY <1>1, <1>6, <2>1 DEF TypeOK
    <3>2. new \in Rows => new <= created.game
      BY DEF SettledInv
    <3>3. created.game \in Nat
      BY <1>1 DEF TypeOK
    <3> QED
      BY <3>1, <3>2, <3>3
  <2>3. game'[new] = row /\ \A g \in Game \ {new} : game'[g] = game[g]
    BY <1>1, <2>1, <2>2 DEF TypeOK
  <2>4. row # None
    <3>1. row \in GameRow
      BY <1>1 DEF Jobs, GameRow, SideOrNone
    <3> QED
      BY <3>1, RowAssumption
  <2>5. row.number = n /\ row.state = "scheduled" /\ row.match = m
    OBVIOUS
  <2> HIDE DEF row, new, m, n
  <2>6. Rows' = Rows \cup {new} /\ \A g \in Rows : game'[g] = game[g]
    BY <2>2, <2>3, <2>4 DEF Rows
  <2>7. /\ \A st : st # "scheduled" => InState(st)' = InState(st)
        /\ Scheduled' = Scheduled \cup {new} /\ Complete' = Complete
    BY <2>2, <2>3, <2>5, <2>6 DEF InState, Scheduled, Complete
  <2>8. Standing' = Standing
    <3>1. \A s \in Side : {g \in InState("complete")' : game'[g].winner = s}
                            = {g \in InState("complete") : game[g].winner = s}
      BY <2>6, <2>7 DEF InState
    <3> QED
      BY <3>1 DEF Standing
  <2>9. Decided' = Decided /\ Length' = Length
    BY <1>4, <2>8 DEF Decided, Reached, BestOf, WinsNeeded, Length
  <2>10. \A g \in Rows : game[g].match # m
    BY <2>1 DEF RowsOf
  <2>11. RowInv'
    <3>1. \A g, h \in Rows' : game'[g].number = game'[h].number => g = h
      BY <1>1, <2>1, <2>3, <2>5, <2>6 DEF RowInv
    <3>2. \A g, h \in Rows' : game'[g].match = game'[h].match /\ game'[g].match # None => g = h
      BY <1>1, <2>3, <2>5, <2>6, <2>10 DEF RowInv
    <3>3. \A g \in Scheduled' \cup Complete' : game'[g].number \in 1..Length'
      BY <1>1, <1>3, <2>3, <2>5, <2>6, <2>7, <2>9 DEF RowInv, Scheduled, Complete, InState
    <3>4. \A g \in Complete' : game'[g].winner \in Side
      BY <1>1, <2>6, <2>7 DEF RowInv, Complete, InState
    <3>5. \A g \in Scheduled' : game'[g].match # None
      BY <1>1, <1>3, <2>3, <2>5, <2>6, <2>7 DEF RowInv, Scheduled, InState
    <3>6. InState("cancelled")' # {} => Decided' \/ matchup'.state = "complete"
      BY <1>1, <1>4, <2>7, <2>9 DEF RowInv
    <3> QED
      BY <3>1, <3>2, <3>3, <3>4, <3>5, <3>6 DEF RowInv
  <2> QED
    BY <1>1, <1>2, <1>3, <1>4, <2>9, <2>11, SoloEnds
<1> QED
  BY <1>5, <1>6

LEMMA TeardownKeeps ==
  ASSUME TypeInv, SeriesInv, NEW w \in Worker, Teardown(w)
  PROVE  SeriesInv'
<1>1. /\ TypeOK /\ RowInv /\ w \in Busy /\ job[w].at = "teardown" /\ job[w] \in Jobs
      /\ OfKind(job[w]) /\ Works(job[w]) /\ Covers(job[w])
  BY AtStep DEF Teardown
<1>2. matchup.state = "complete" /\ Scheduled = {} /\ job[w].pending = {}
  BY <1>1 DEF Works, Stripping, Covers, OfKind
<1>3. CASE job[w].doomed = {}
  <2>1. Go(w, Idle) /\ UNCHANGED <<matchup, length, stage, game, match>>
    BY <1>3 DEF Teardown, Done
  <2>2. KindInv'
    BY <1>1, <2>1, KindsKept DEF SeriesInv
  <2> QED
    BY <1>1, <1>2, <2>1, <2>2, JobChange
<1>4. CASE job[w].doomed # {}
  <2> DEFINE m == Lowest(job[w].doomed)
             released == RowsOf(m) \cap InState("scheduled")
             j == [job[w] EXCEPT !.doomed = @ \ {m}]
  <2>1. m \in Match
    BY <1>1, <1>4, IdAssumption, LowestIn DEF Jobs
  <2>2. /\ match' = [match EXCEPT ![m] = None] /\ Go(w, j)
        /\ game' = Unlinked(DeleteGames(released), m)
        /\ UNCHANGED <<matchup, length, stage>>
    BY <1>4 DEF Teardown
  <2>3. released = {}
    BY <1>2 DEF Scheduled
  <2>4. PICK k : k = j
    OBVIOUS
  <2>5. /\ Go(w, k) /\ k.at = "teardown" /\ k.kind = job[w].kind /\ k.pending = {} /\ k # Idle
    BY <1>1, <1>2, <2>2, <2>4 DEF Jobs, Idle, Kind
  <2> HIDE DEF j, m, released
  <2>6. /\ Drops({})
        /\ \A g \in Game : game[g] # None =>
             game'[g].match = IF game[g].match = m THEN None ELSE game[g].match
    BY <1>1, <2>2, <2>3, UnlinkedDrops
  <2>7. Scheduled' = {} /\ Complete' = Complete /\ RowInv'
    BY <1>1, <1>2, <2>2, <2>6, DropRows
  <2>8. /\ job'[w] = k
        /\ \A v \in Worker \ {w} : job'[v] = job[v]
        /\ Busy' = Busy /\ Busy \subseteq Worker
    BY <1>1, <2>5, GoJob DEF Busy
  <2>9. OfKind(k) /\ job[w].kind \in {"race", "queue", "report"}
    BY <1>1, <2>5 DEF OfKind, Settling, Stripping
  <2>10. KindInv'
    BY <1>1, <2>5, <2>9, KindsKept DEF SeriesInv
  <2>11. WorkInv'
    <3>1. ASSUME NEW v \in Busy, v # w PROVE Works(job[v])'
      <4>1. job[v].at \notin {"create", "unlink", "remove"} /\ Works(job[v])
        BY <1>1, <3>1 DEF SeriesInv, KindInv, OfKind, WorkInv
      <4> QED
        BY <1>2, <2>2, <2>8, <3>1, <4>1 DEF Works, Settling, Stripping
    <3>2. Works(job[w])'
      BY <1>2, <2>2, <2>5, <2>8 DEF Works, Settling, Stripping
    <3> QED
      BY <2>8, <3>1, <3>2 DEF WorkInv
  <2>12. CoverInv'
    <3>1. ASSUME NEW v \in Busy, v # w PROVE Covers(job[v])'
      <4>1. Covers(job[v]) /\ job'[v] = job[v] /\ job[v] \in Jobs
        BY <1>1, <2>8, <3>1, BusyJob DEF SeriesInv, CoverInv
      <4>2. \A x \in job[v].pending : x[1] \in Game /\ x[2].match \in Match \cup {None}
        BY <4>1 DEF Jobs, GameRow
      <4>3. ASSUME NEW x \in job[v].pending, game'[x[1]] # None
            PROVE  /\ game'[x[1]].number = x[2].number
                   /\ \/ game'[x[1]].match = x[2].match
                      \/ x[2].match # None /\ match'[x[2].match] = None
        <5>1. /\ x[1] \in Game /\ game[x[1]] # None /\ game'[x[1]].number = game[x[1]].number
              /\ game'[x[1]].match = IF game[x[1]].match = m THEN None ELSE game[x[1]].match
          BY <2>6, <4>2, <4>3 DEF Drops
        <5>2. /\ game[x[1]].number = x[2].number
              /\ \/ game[x[1]].match = x[2].match
                 \/ x[2].match # None /\ match[x[2].match] = None
          BY <4>1, <5>1 DEF Covers
        <5>3. match'[m] = None /\ m # None /\ \A n \in Match : match[n] = None => match'[n] = None
          BY <1>1, <2>1, <2>2, IdAssumption DEF TypeOK
        <5> QED
          BY <4>2, <5>1, <5>2, <5>3
      <4> QED
        BY <1>2, <2>2, <2>7, <4>1, <4>3 DEF Covers, Marked
    <3>2. Covers(job[w])'
      BY <2>5, <2>7, <2>8 DEF Covers
    <3> QED
      BY <2>8, <3>1, <3>2 DEF CoverInv
  <2>13. FirmInv' /\ EndInv'
    BY <1>2, <2>2, <2>7 DEF FirmInv, EndInv
  <2> QED
    BY <2>7, <2>10, <2>11, <2>12, <2>13 DEF SeriesInv
<1> QED
  BY <1>3, <1>4

Counted == \A s \in Side : /\ IsFiniteSet(WonBy(s)) /\ Standing[s] \in Nat
                            /\ Standing[s] = Cardinality(WonBy(s))

LEMMA WinsCounted == TypeOK => Counted
  BY WonByType DEF Counted

(* A firm win stays one while no row of it is written and no request loads *)
(* more of them.                                                           *)
LEMMA FirmGrows ==
  ASSUME TypeOK, TypeOK', NEW w \in Worker, NEW k, Go(w, k), k # Idle, w \in Busy,
         k.pending \subseteq job[w].pending,
         NEW s \in Side, Firm(s) \subseteq WonBy(s)'
  PROVE  /\ Firm(s) \subseteq Firm(s)'
         /\ Cardinality(Firm(s)) <= Cardinality(Firm(s)')
         /\ Cardinality(Firm(s)) <= Standing[s]
         /\ Cardinality(Firm(s)) <= Standing'[s]
         /\ Cardinality(Firm(s)) \in Nat /\ Cardinality(Firm(s)') \in Nat
         /\ Standing[s] \in Nat /\ Standing'[s] \in Nat
<1>1. /\ job'[w] = k
      /\ \A v \in Worker \ {w} : job'[v] = job[v]
      /\ Busy' = Busy /\ Busy \subseteq Worker
  BY GoJob DEF Busy
<1>2. \A v \in Busy' : job'[v].pending \subseteq job[v].pending
  BY <1>1
<1>3. Firm(s) \subseteq Firm(s)'
  BY <1>1, <1>2 DEF Firm, Marked
<1>4. /\ IsFiniteSet(WonBy(s)) /\ Standing[s] = Cardinality(WonBy(s)) /\ Standing[s] \in Nat
      /\ Firm(s) \subseteq WonBy(s)
  BY WonByType DEF Firm
<1>5. /\ IsFiniteSet(WonBy(s)') /\ Standing'[s] = Cardinality(WonBy(s)') /\ Standing'[s] \in Nat
      /\ Firm(s)' \subseteq WonBy(s)'
  <2>1. Counted'
    BY WinsCounted, PTL
  <2> QED
    BY <2>1 DEF Counted, Firm
<1>6. IsFiniteSet(Firm(s)) /\ IsFiniteSet(Firm(s)')
  BY <1>4, <1>5, FS_Subset
<1> QED
  BY <1>3, <1>4, <1>5, <1>6, FS_Subset, FS_CardinalityType

LEMMA SettleGameKeeps ==
  ASSUME TypeInv, TypeOK', SeriesInv, NEW w \in Worker, SettleGame(w)
  PROVE  SeriesInv'
<1> DEFINE g == job[w].game
           s == job[w].winner
           settled == [game[g] EXCEPT !.state = "complete", !.winner = s, !.forfeit = job[w].forfeit]
           j == [job[w] EXCEPT !.at = "judge"]
<1>1. /\ TypeOK /\ RowInv /\ w \in Busy /\ job[w].at = "settle" /\ job[w] \in Jobs
      /\ OfKind(job[w]) /\ Works(job[w]) /\ Covers(job[w])
  BY AtStep DEF SettleGame
<1>2. /\ UNCHANGED <<matchup, length, stage, match>>
      /\ job[w].pending = {} /\ s \in Side /\ g \in Game /\ job[w].kind \in {"race", "queue"}
  BY <1>1 DEF SettleGame, OfKind, Works, Settling
<1>3. CASE ~StillScheduled(g)
  <2>1. Go(w, Idle) /\ game' = game
    BY <1>3 DEF SettleGame, Done
  <2>2. KindInv' /\ ~Carries(job[w])
    BY <1>1, <2>1, KindsKept DEF SeriesInv, Carries
  <2> QED
    BY <1>1, <1>2, <2>1, <2>2, JobChange
<1>4. CASE StillScheduled(g)
  <2>1. Go(w, j) /\ game' = [game EXCEPT ![g] = settled]
    <3>1. /\ game' = [game EXCEPT ![g].state = "complete", ![g].winner = s,
                                  ![g].forfeit = job[w].forfeit]
          /\ Go(w, j)
      BY <1>4 DEF SettleGame
    <3>2. DOMAIN game = Game
      BY <1>1 DEF TypeOK
    <3> QED
      BY <3>1, <3>2
  <2>2. /\ g \in Scheduled /\ g \in Rows /\ g \notin Complete
        /\ game[g] \in GameRow /\ game[g].state = "scheduled"
    BY <1>1, <1>2, <1>4 DEF StillScheduled, Scheduled, Complete, InState, Rows, TypeOK
  <2>3. /\ settled \in GameRow /\ settled.state = "complete" /\ settled.winner = s
        /\ settled.number = game[g].number /\ settled.match = game[g].match
    BY <1>1, <2>2 DEF GameRow, Jobs
  <2>4. game'[g] = settled /\ \A x \in Game \ {g} : game'[x] = game[x]
    BY <1>1, <1>2, <2>1 DEF TypeOK
  <2>5. PICK k : k = j
    OBVIOUS
  <2>6. /\ Go(w, k) /\ k.at = "judge" /\ k.kind = job[w].kind /\ k.pending = {} /\ k # Idle
        /\ k.winner = s /\ k.open = job[w].open /\ k.override = job[w].override
    BY <1>1, <1>2, <2>1, <2>5 DEF Jobs, Idle, Kind
  <2> HIDE DEF j, settled, g, s
  <2>7. Rows' = Rows /\ \A x \in Rows : /\ game'[x].number = game[x].number
                                        /\ game'[x].match = game[x].match
                                        /\ x # g => game'[x] = game[x]
    BY <2>2, <2>3, <2>4, RowAssumption DEF Rows
  <2>8. /\ Scheduled' = Scheduled \ {g} /\ Complete' = Complete \cup {g}
        /\ InState("cancelled")' = InState("cancelled")
    BY <2>2, <2>3, <2>4, <2>7 DEF Scheduled, Complete, InState
  <2>9. /\ \A t \in Side : WonBy(t) \subseteq WonBy(t)'
        /\ \A t \in Side : t # s => WonBy(t)' = WonBy(t)
    BY <2>2, <2>3, <2>4, <2>7, <2>8 DEF WonBy, Complete, InState
  <2>10. /\ \A t \in Side : Standing[t] <= Standing'[t] /\ Standing[t] \in Nat /\ Standing'[t] \in Nat
         /\ \A t \in Side : t # s => Standing'[t] = Standing[t]
    <3>1. Counted /\ Counted'
      BY <1>1, WinsCounted, PTL
    <3> QED
      BY <2>9, <3>1, FS_Subset DEF Counted
  <2>11. Length' = Length /\ Wins' = Wins /\ Wins \in Nat \ {0}
    BY <1>1, <1>2, LengthType DEF Length, Wins, BestOf, WinsNeeded
  <2>12. /\ Decided <=> \E t \in Side : Standing[t] >= Wins
         /\ Decided' <=> \E t \in Side : Standing'[t] >= Wins
    BY <1>2 DEF Decided, Reached, Wins, Length, BestOf, WinsNeeded
  <2>13. Decided => Decided'
    BY <2>10, <2>11, <2>12
  <2>14. /\ job'[w] = k
         /\ \A v \in Worker \ {w} : job'[v] = job[v]
         /\ Busy' = Busy /\ Busy \subseteq Worker
    BY <1>1, <2>6, GoJob DEF Busy
  <2>15. KindInv'
    <3>1. OfKind(k)
      BY <1>2, <2>6 DEF OfKind, Settling, Stripping
    <3> QED
      BY <1>1, <2>6, <3>1, KindsKept DEF SeriesInv
  <2>16. RowInv'
    <3>1. \A x \in Scheduled' \cup Complete' : x \in Rows /\ x \in Scheduled \cup Complete
      BY <2>2, <2>8 DEF Scheduled, Complete, InState
    <3>2. \A x \in Complete' : game'[x].winner \in Side
      BY <1>1, <1>2, <2>3, <2>4, <2>7, <2>8, <3>1 DEF RowInv
    <3>3. \A x \in Scheduled' : game'[x].match # None
      BY <1>1, <2>7, <2>8, <3>1 DEF RowInv
    <3>4. \A x \in Scheduled' \cup Complete' : game'[x].number \in 1..Length'
      BY <1>1, <2>7, <2>11, <3>1 DEF RowInv
    <3>5. \A x, y \in Rows' : game'[x].number = game'[y].number => x = y
      BY <1>1, <2>7 DEF RowInv
    <3>6. \A x, y \in Rows' : game'[x].match = game'[y].match /\ game'[x].match # None => x = y
      BY <1>1, <2>7 DEF RowInv
    <3>7. InState("cancelled")' # {} => Decided' \/ matchup'.state = "complete"
      BY <1>1, <1>2, <2>8, <2>13 DEF RowInv
    <3> QED
      BY <3>2, <3>3, <3>4, <3>5, <3>6, <3>7 DEF RowInv
  <2>17. WorkInv'
    <3>1. Scheduled' \cup Complete' = Scheduled \cup Complete
      BY <2>2, <2>8
    <3>2. ASSUME NEW v \in Busy, v # w PROVE Works(job[v])'
      <4>1. job[v].at \notin {"create", "unlink", "remove"} /\ Works(job[v])
        BY <1>1, <3>2 DEF SeriesInv, KindInv, OfKind, WorkInv
      <4> QED
        BY <1>2, <2>14, <3>1, <3>2, <4>1 DEF Works, Settling, Stripping
    <3>3. Works(job[w])'
      <4>1. /\ matchup.state = "open" => job[w].open /\ job[w].override = length.override
                                         /\ Scheduled \cup Complete # {}
        BY <1>1 DEF Works, Settling
      <4> QED
        BY <1>2, <2>6, <2>14, <3>1, <4>1 DEF Works, Settling, Stripping
    <3> QED
      BY <2>14, <3>2, <3>3 DEF WorkInv
  <2>18. CoverInv'
    <3>1. ASSUME NEW v \in Busy, v # w PROVE Covers(job[v])'
      <4>1. Covers(job[v]) /\ job'[v] = job[v] /\ job[v] \in Jobs
        BY <1>1, <2>14, <3>1, BusyJob DEF SeriesInv, CoverInv
      <4>2. \A x \in job[v].pending : x[1] \in Game
        BY <4>1 DEF Jobs
      <4>3. \A x \in job[v].pending : game'[x[1]] # None =>
              /\ game[x[1]] # None
              /\ game'[x[1]].number = game[x[1]].number /\ game'[x[1]].match = game[x[1]].match
        BY <2>7, <4>2 DEF Rows
      <4> QED
        BY <1>2, <2>8, <4>1, <4>3 DEF Covers, Marked
    <3>2. Covers(job[w])'
      BY <2>6, <2>14 DEF Covers
    <3> QED
      BY <2>14, <3>1, <3>2 DEF CoverInv
  <2>19. FirmInv'
    <3> SUFFICES ASSUME matchup'.state = "open", NEW v \in Busy', job'[v].at = "cancel"
                 PROVE  \E t \in Side : Cardinality(Firm(t)') >= Wins'
      BY DEF FirmInv
    <3>1. v \in Busy /\ job[v].at = "cancel"
      BY <2>6, <2>14
    <3>2. PICK t \in Side : Cardinality(Firm(t)) >= Wins
      BY <1>2, <3>1 DEF SeriesInv, FirmInv
    <3>3. Firm(t) \subseteq WonBy(t)'
      BY <2>9 DEF Firm
    <3>4. /\ Cardinality(Firm(t)) <= Cardinality(Firm(t)')
          /\ Cardinality(Firm(t)) \in Nat /\ Cardinality(Firm(t)') \in Nat
      BY <1>1, <2>6, <3>3, FirmGrows
    <3> QED
      BY <2>11, <3>2, <3>4
  <2>20. EndInv'
    <3>1. ASSUME matchup'.state = "complete", Scheduled' # {}
          PROVE  \E v \in Busy' : job'[v].at \in {"sweep", "cancel"}
      <4>1. PICK v \in Busy : job[v].at \in {"sweep", "cancel"}
        BY <1>2, <2>8, <3>1 DEF SeriesInv, EndInv
      <4> QED
        BY <1>1, <2>14, <4>1
    <3>2. ASSUME stage' = "active", matchup'.state = "open", Decided'
          PROVE  \E v \in Busy' : Carries(job[v])'
      <4>1. CASE Decided
        <5>1. PICK v \in Busy : Carries(job[v])
          BY <1>2, <3>2, <4>1 DEF SeriesInv, EndInv
        <5>2. v # w /\ job'[v] = job[v]
          BY <1>1, <2>14, <5>1 DEF Carries
        <5>3. Carries(job[v])'
          BY <2>10, <2>11, <5>1, <5>2 DEF Carries
        <5> QED
          BY <2>14, <5>3
      <4>2. CASE ~Decided
        <5>1. Standing'[s] >= Wins'
          BY <2>10, <2>11, <2>12, <3>2, <4>2
        <5>2. Carries(job[w])'
          BY <1>2, <2>6, <2>14, <5>1 DEF Carries
        <5> QED
          BY <1>1, <2>14, <5>2
      <4> QED
        BY <4>1, <4>2
    <3> QED
      BY <3>1, <3>2 DEF EndInv
  <2> QED
    BY <2>15, <2>16, <2>17, <2>18, <2>19, <2>20 DEF SeriesInv
<1> QED
  BY <1>3, <1>4

LEMMA CancelGameKeeps ==
  ASSUME TypeInv, TypeOK', SeriesInv, NEW w \in Worker, CancelGame(w)
  PROVE  SeriesInv'
<1> DEFINE p == CHOOSE x \in job[w].pending : \A y \in job[w].pending : x[1] <= y[1]
           refused == game[p[1]] # None /\ p[2].match # None /\ match[p[2].match] = None
           j == [job[w] EXCEPT !.pending = @ \ {p}]
           cancelled == [p[2] EXCEPT !.state = "cancelled"]
<1>1. /\ TypeOK /\ RowInv /\ w \in Busy /\ job[w].at = "cancel" /\ job[w] \in Jobs
      /\ OfKind(job[w]) /\ Works(job[w]) /\ Covers(job[w])
  BY AtStep DEF CancelGame
<1>2. /\ UNCHANGED <<matchup, length, stage, match>>
      /\ game' = IF game[p[1]] = None \/ refused THEN game ELSE [game EXCEPT ![p[1]] = cancelled]
      /\ Go(w, IF refused THEN Idle ELSE j)
  BY DEF CancelGame
<1>3. p[1] \in Game /\ p[2] \in GameRow /\ p \in job[w].pending
  BY <1>1, FirstPending
<1>4. cancelled \in GameRow /\ cancelled.state = "cancelled" /\ cancelled.number = p[2].number
      /\ cancelled.match = p[2].match
  BY <1>3 DEF GameRow
<1>5. PICK k : k = j
  OBVIOUS
<1>6. /\ k.at = "cancel" /\ k.then = job[w].then /\ k.kind = job[w].kind
      /\ k.winner = job[w].winner /\ k.open = job[w].open /\ k.score = job[w].score
      /\ k.pending = job[w].pending \ {p} /\ k # Idle
  BY <1>1, <1>5 DEF Jobs, Idle, Kind
<1>7. refused \/ Go(w, k)
  BY <1>2, <1>5
<1> HIDE DEF j, cancelled, p
<1>8. OfKind(k) /\ Works(k)
  BY <1>1, <1>6 DEF OfKind, Works, Settling, Stripping
<1>9. CASE refused
  <2>1. Go(w, Idle) /\ game' = game
    BY <1>2, <1>9
  <2>2. Scheduled = {} /\ matchup.state = "complete"
    BY <1>1, <1>3, <1>9 DEF Covers
  <2>3. KindInv'
    BY <1>1, <2>1, KindsKept DEF SeriesInv
  <2> QED
    BY <1>1, <1>2, <2>1, <2>2, <2>3, JobChange
<1>10. CASE ~refused /\ game[p[1]] = None
  <2>1. Go(w, k) /\ game' = game
    BY <1>2, <1>7, <1>10
  <2>2. KindInv'
    BY <1>1, <1>6, <1>8, <2>1, KindsKept DEF SeriesInv
  <2>3. p[1] \notin Scheduled
    BY <1>10 DEF Scheduled, InState, Rows
  <2>4. Covers(k)
    BY <1>1, <1>6, <2>3 DEF Covers, Marked
  <2>5. Covers(k)'
    BY <1>2, <2>1, <2>4 DEF Covers, Marked, Scheduled, InState, Rows
  <2>6. Carries(job[w]) => Carries(k)
    BY <1>1, <1>6 DEF Carries
  <2> QED
    BY <1>1, <1>2, <1>6, <1>8, <2>1, <2>2, <2>5, <2>6, JobChange
<1>11. CASE ~refused /\ game[p[1]] # None
  <2> DEFINE g == p[1]
  <2>1. Go(w, k) /\ game' = [game EXCEPT ![g] = cancelled]
    BY <1>2, <1>7, <1>11
  <2>2. g \in Rows /\ game[g] \in GameRow
    BY <1>1, <1>3, <1>11 DEF Rows, TypeOK
  <2>3. cancelled.number = game[g].number /\ cancelled.match = game[g].match
    BY <1>1, <1>3, <1>4, <1>11 DEF Covers
  <2>4. game'[g] = cancelled /\ \A x \in Game \ {g} : game'[x] = game[x]
    BY <1>1, <1>3, <2>1 DEF TypeOK
  <2>5. g \in Marked(job[w])
    BY <1>3 DEF Marked
  <2> HIDE DEF g
  <2>6. Rows' = Rows /\ \A x \in Rows : /\ game'[x].number = game[x].number
                                        /\ game'[x].match = game[x].match
                                        /\ x # g => game'[x] = game[x]
    BY <1>4, <2>2, <2>3, <2>4, RowAssumption DEF Rows
  <2>7. Scheduled' = Scheduled \ {g} /\ Complete' = Complete \ {g}
    BY <1>4, <2>2, <2>4, <2>6 DEF Scheduled, Complete, InState
  <2>8. \A t \in Side : WonBy(t)' = WonBy(t) \ {g}
    BY <2>6, <2>7 DEF WonBy, Complete, InState
  <2>9. \A t \in Side : Firm(t) \subseteq WonBy(t)'
    BY <1>1, <2>5, <2>8 DEF Firm
  <2>10. \A t \in Side : /\ Firm(t) \subseteq Firm(t)'
                         /\ Cardinality(Firm(t)) <= Cardinality(Firm(t)')
                         /\ Cardinality(Firm(t)) <= Standing[t]
                         /\ Cardinality(Firm(t)) <= Standing'[t]
                         /\ Cardinality(Firm(t)) \in Nat /\ Cardinality(Firm(t)') \in Nat
                         /\ Standing[t] \in Nat /\ Standing'[t] \in Nat
    BY <1>1, <1>6, <2>1, <2>9, FirmGrows
  <2>11. \A t \in Side : Standing'[t] <= Standing[t]
    <3>1. Counted /\ Counted'
      BY <1>1, WinsCounted, PTL
    <3> QED
      BY <2>8, <3>1, FS_Subset DEF Counted
  <2>12. Length' = Length /\ Wins' = Wins /\ Wins \in Nat \ {0}
    BY <1>1, <1>2, LengthType DEF Length, Wins, BestOf, WinsNeeded
  <2>13. /\ Decided <=> \E t \in Side : Standing[t] >= Wins
         /\ Decided' <=> \E t \in Side : Standing'[t] >= Wins
    BY <1>2 DEF Decided, Reached, Wins, Length, BestOf, WinsNeeded
  <2>14. ASSUME matchup.state = "open"
         PROVE  \E t \in Side : Cardinality(Firm(t)) >= Wins
    BY <1>1, <2>14 DEF SeriesInv, FirmInv
  <2>15. ASSUME matchup.state = "open"
         PROVE  \E t \in Side : /\ Cardinality(Firm(t)') >= Wins
                                /\ Standing[t] >= Wins /\ Standing'[t] >= Wins
    BY <2>10, <2>12, <2>14, <2>15
  <2>16. /\ job'[w] = k
         /\ \A v \in Worker \ {w} : job'[v] = job[v]
         /\ Busy' = Busy /\ Busy \subseteq Worker
    BY <1>1, <1>6, <2>1, GoJob DEF Busy
  <2>17. KindInv'
    BY <1>1, <1>6, <1>8, <2>1, KindsKept DEF SeriesInv
  <2>18. RowInv'
    <3>1. \A x \in Scheduled' \cup Complete' : x \in Rows /\ x # g /\ x \in Scheduled \cup Complete
      BY <2>7 DEF Scheduled, Complete, InState
    <3>2. \A x \in Complete' : game'[x].winner \in Side
      BY <1>1, <2>6, <2>7, <3>1 DEF RowInv
    <3>3. \A x \in Scheduled' : game'[x].match # None
      BY <1>1, <2>6, <2>7, <3>1 DEF RowInv
    <3>4. \A x \in Scheduled' \cup Complete' : game'[x].number \in 1..Length'
      BY <1>1, <2>6, <2>12, <3>1 DEF RowInv
    <3>5. \A x, y \in Rows' : game'[x].number = game'[y].number => x = y
      BY <1>1, <2>6 DEF RowInv
    <3>6. \A x, y \in Rows' : game'[x].match = game'[y].match /\ game'[x].match # None => x = y
      BY <1>1, <2>6 DEF RowInv
    <3>7. Decided' \/ matchup'.state = "complete"
      BY <1>1, <1>2, <2>13, <2>15, <2>12 DEF TypeOK
    <3> QED
      BY <3>2, <3>3, <3>4, <3>5, <3>6, <3>7 DEF RowInv
  <2>19. WorkInv'
    <3>1. matchup.state = "open" => Complete' # {}
      <4> SUFFICES ASSUME matchup.state = "open" PROVE Complete' # {}
        OBVIOUS
      <4>1. PICK t \in Side : Standing'[t] >= Wins
        BY <2>15
      <4>2. Counted'
        BY WinsCounted, PTL
      <4>3. WonBy(t)' # {}
        BY <2>10, <2>12, <4>1, <4>2, FS_EmptySet DEF Counted
      <4> QED
        BY <4>3 DEF WonBy
    <3>2. ASSUME NEW v \in Busy, v # w PROVE Works(job[v])'
      <4>1. job[v].at \notin {"create", "unlink", "remove"} /\ Works(job[v])
        BY <1>1, <3>2 DEF SeriesInv, KindInv, OfKind, WorkInv
      <4> QED
        BY <1>2, <2>16, <3>1, <3>2, <4>1 DEF Works, Settling, Stripping
    <3>3. Works(job[w])'
      BY <1>2, <1>6, <1>8, <2>16 DEF Works, Settling, Stripping
    <3> QED
      BY <2>16, <3>2, <3>3 DEF WorkInv
  <2>20. CoverInv'
    <3>1. ASSUME NEW v \in Busy
          PROVE  \A x \in job[v].pending : game'[x[1]] # None =>
                   /\ game[x[1]] # None
                   /\ game'[x[1]].number = game[x[1]].number /\ game'[x[1]].match = game[x[1]].match
      <4>1. \A x \in job[v].pending : x[1] \in Game
        BY <1>1, BusyJob DEF Jobs
      <4> QED
        BY <2>6, <4>1 DEF Rows
    <3>2. ASSUME NEW v \in Busy, v # w PROVE Covers(job[v])'
      <4>1. Covers(job[v]) /\ job'[v] = job[v]
        BY <1>1, <2>16, <3>2 DEF SeriesInv, CoverInv
      <4> QED
        BY <1>2, <2>7, <3>1, <4>1 DEF Covers, Marked
    <3>3. Covers(job[w])'
      <4>1. Scheduled' \subseteq Marked(k)
        <5> SUFFICES ASSUME NEW x \in Scheduled' PROVE x \in Marked(k)
          OBVIOUS
        <5>1. x # g /\ x \in Marked(job[w])
          BY <1>1, <2>7 DEF Covers
        <5>2. PICK y \in job[w].pending : y[1] = x
          BY <5>1 DEF Marked
        <5>3. y # p
          BY <5>1, <5>2 DEF g
        <5> QED
          BY <1>6, <5>2, <5>3 DEF Marked
      <4>2. Marked(k) = Marked(job[w])'
        BY <2>16 DEF Marked
      <4>3. \A x \in k.pending : x \in job[w].pending
        BY <1>6
      <4> QED
        BY <1>1, <1>2, <1>6, <2>7, <2>16, <3>1, <4>1, <4>2, <4>3 DEF Covers
    <3> QED
      BY <2>16, <3>2, <3>3 DEF CoverInv
  <2>21. FirmInv'
    BY <1>2, <2>12, <2>15 DEF FirmInv
  <2>22. EndInv'
    <3>1. \E v \in Busy' : job'[v].at \in {"sweep", "cancel"}
      BY <1>1, <1>6, <2>16
    <3>2. ASSUME stage' = "active", matchup'.state = "open", Decided'
          PROVE  \E v \in Busy' : Carries(job[v])'
      <4>1. Decided
        BY <2>10, <2>11, <2>12, <2>13, <3>2
      <4>2. PICK v \in Busy : Carries(job[v])
        BY <1>2, <3>2, <4>1 DEF SeriesInv, EndInv
      <4>3. CASE v = w
        <5>1. Carries(job[w])'
          BY <1>1, <1>6, <2>16, <4>2, <4>3 DEF Carries
        <5> QED
          BY <1>1, <2>16, <5>1
      <4>4. CASE v # w /\ job[v].at = "judge"
        <5>1. PICK t \in Side : Standing[t] >= Wins /\ Standing'[t] >= Wins
          BY <1>2, <2>15, <3>2
        <5>2. job[v].winner \in Side /\ Standing[job[v].winner] >= Wins
          BY <4>2, <4>4 DEF Carries
        <5>3. t = job[v].winner
          BY <1>1, <5>1, <5>2, OneWinner
        <5>4. Carries(job[v])'
          BY <2>12, <2>16, <4>4, <5>1, <5>3 DEF Carries
        <5> QED
          BY <2>16, <5>4
      <4>5. CASE v # w /\ job[v].at # "judge"
        <5>1. Carries(job[v])'
          BY <2>16, <4>2, <4>5 DEF Carries
        <5> QED
          BY <2>16, <5>1
      <4> QED
        BY <4>3, <4>4, <4>5
    <3> QED
      BY <3>1, <3>2 DEF EndInv
  <2> QED
    BY <2>17, <2>18, <2>19, <2>20, <2>21, <2>22 DEF SeriesInv
<1> QED
  BY <1>9, <1>10, <1>11

-----------------------------------------------------------------------------
(* The theorems.                                                           *)

LEMMA SeriesInvInit == Init => SeriesInv
<1> SUFFICES ASSUME Init PROVE SeriesInv
  OBVIOUS
<1>1. Busy = {} /\ Rows = {} /\ matchup.state = "open"
  BY DEF Init, Busy, Rows
<1>2. TypeOK
  BY SeriesTypeInit
<1>3. Scheduled = {} /\ Complete = {} /\ InState("cancelled") = {}
  BY <1>1 DEF Scheduled, Complete, InState
<1>4. ~Decided
  <2>1. \A s \in Side : WonBy(s) = {}
    BY <1>3 DEF WonBy
  <2>2. \A s \in Side : Standing[s] = 0
    BY <1>2, <2>1, WonByType, FS_EmptySet
  <2> QED
    BY <1>2, <2>2, LengthType DEF Decided, Reached, Wins, Length
<1> QED
  BY <1>1, <1>3, <1>4 DEF SeriesInv, KindInv, RowInv, WorkInv, CoverInv, FirmInv, EndInv

LEMMA SeriesInvStep ==
  ASSUME OnlySettlesOverlap, TypeInv, TypeInv', SettledInv, SeriesInv, [Next]_vars
  PROVE  SeriesInv'
<1>0. TypeOK'
  BY DEF TypeInv
<1>1. ASSUME NEW w \in Worker, Continue(w) PROVE SeriesInv'
  BY <1>0, <1>1, LoadGameKeeps, SettleGameKeeps, JudgeKeeps, CancelGameKeeps, AllCancelledKeeps,
     RecordSeriesKeeps, SaveResultKeeps, SweepKeeps, TeardownKeeps, CreateGameKeeps,
     UnlinkGameKeeps, DeleteMatchKeeps
  DEF Continue
<1>2. CASE UNCHANGED vars
  BY <1>2, OutsideKeeps DEF vars
<1> QED
  BY <1>0, <1>1, <1>2, SettleStarts, CreateStarts, StaffStarts, PlayKeeps, EditKeeps DEF Next

LEMMA SeriesInvariant ==
  ASSUME OnlySettlesOverlap
  PROVE  Spec => [](TypeInv /\ SeriesInv)
<1>1. Init => SettledInv
  BY DEF Init, SettledInv, GameSettledOnce, Rows
<1>2. TypeInv /\ SettledInv /\ [Next]_vars => SettledInv'
  BY SettledStep
<1>3. TypeInv /\ TypeInv' /\ SettledInv /\ SeriesInv /\ [Next]_vars => SeriesInv'
  BY SeriesInvStep
<1> QED
  BY <1>1, <1>2, <1>3, SeriesInvInit, TypeInvariant, PTL DEF Spec

(* Once a side has the wins, the matchup is recorded: however the settles  *)
(* of a series overlap, whatever is loaded stale and whatever staff do in  *)
(* between, no decided series is left open with nothing in flight, for any *)
(* length and any number of settles.                                       *)
THEOREM DecidedIsRecorded ==
  ASSUME OnlySettlesOverlap
  PROVE  Spec => []DecidedSeriesIsRecorded
<1>1. TypeInv /\ SeriesInv => DecidedSeriesIsRecorded
  BY DEF TypeInv, TypeOK, SeriesInv, EndInv, DecidedSeriesIsRecorded, Quiet
<1> QED
  BY <1>1, SeriesInvariant, PTL

(* "A forced 2-0 can't strand a pre-scheduled game 3": once nothing is in  *)
(* flight a decided matchup has no game left to play, whoever recorded it  *)
(* and whichever rows its sweep was refused.                               *)
THEOREM NothingStranded ==
  ASSUME OnlySettlesOverlap
  PROVE  Spec => []NoStrandedGame
<1>1. TypeInv /\ SeriesInv => NoStrandedGame
  BY DEF SeriesInv, EndInv, NoStrandedGame, Quiet, Scheduled
<1> QED
  BY <1>1, SeriesInvariant, PTL

(* An undecided series can go on, of any length: it has a game to play or  *)
(* a free number for the next, no number having been spent on a cancelled  *)
(* game, and a scheduled game has its match.                               *)
THEOREM UndecidedGoesOn ==
  ASSUME OnlySettlesOverlap
  PROVE  Spec => []SeriesCanGoOn
<1>1. TypeInv /\ SeriesInv => SeriesCanGoOn
  <2> SUFFICES ASSUME TypeInv, SeriesInv, Quiet, stage = "active", matchup.state = "open"
               PROVE  /\ Bookable \/ Scheduled # {}
                      /\ \A g \in Scheduled : game[g].match # None
    BY DEF SeriesCanGoOn, Scheduled
  <2>1. TypeOK /\ RowInv
    BY DEF TypeInv, SeriesInv
  <2>2. ~Decided
    BY DEF SeriesInv, EndInv, Quiet
  <2>3. InState("cancelled") = {}
    BY <2>1, <2>2 DEF RowInv
  <2>4. Rows = Scheduled \cup Complete
    BY <2>1, <2>3 DEF Rows, InState, Scheduled, Complete, TypeOK, GameRow
  <2>5. Scheduled = {} => FreeNumbers # {}
    BY <2>1, <2>2, <2>4, NumberLeft
  <2> QED
    BY <2>1, <2>2, <2>5 DEF Bookable, RowInv
<1> QED
  BY <1>1, SeriesInvariant, PTL
=============================================================================

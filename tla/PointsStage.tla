------------------------------ MODULE PointsStage ------------------------------
(***************************************************************************)
(* A bracket stage ranked by points, Swiss or round robin, from its start  *)
(* to the field the next stage draws from it (_bracket/generation,         *)
(* advancement, completion and multistage; bracket_service).               *)
(*                                                                         *)
(* Nothing here runs in a transaction.  A result is saved, then the round  *)
(* is read, then the entries, and the next round is created row by row; a  *)
(* stage is ranked by saving its entries one by one, whole, and then the   *)
(* stage.  What a call in flight has read is a job of its own.             *)
(***************************************************************************)
EXTENDS Integers, Sequences, FiniteSets, Standings, RoundRobin, StageSeeding

CONSTANTS
  Formats,    \* bound: "swiss", "round_robin"
  Fields,     \* bound: the field sizes tried
  Groups,     \* bound: the values of group_count tried
  SwissRounds,\* swiss_rounds, by field size; 0 derives it from the field
  Chain,      \* tiebreakers
  Count,      \* advancement: how many the next stage draws from each group
  Worker,     \* calls that may be in flight at the same time
  Overlaps,   \* bound: the conflicts two calls in flight may have; "round":
              \* a call looks at a round that another has begun to create
  MaxIncidents\* bound, by field size: results corrected, entries retired and
              \* restarts of the process, together

ConflictKind == {"state", "result", "retire", "draw"}

ASSUME BoundAssumption ==
  /\ Formats \subseteq {"swiss", "round_robin"} /\ Fields \subseteq Nat \ {0, 1}
  /\ Groups \subseteq Nat \ {0}
  /\ SwissRounds \in [Fields -> Nat] /\ Count \in Nat \ {0}
  /\ Overlaps \subseteq ConflictKind \cup {"round"} /\ MaxIncidents \in [Fields -> Nat]
ASSUME ChainAssumption == Chain \in Seq({"buchholz", "omw", "head_to_head"})
ASSUME NoneAssumption == None \notin Nat

VARIABLES
  stage,   \* the Bracket row: format, field, groups and state
  entry,   \* BracketEntry rows, named by their seed
  table,   \* BracketMatch rows
  field,   \* the next stage's entries: its seed for each entry, or None
  job,     \* what each call in flight holds in memory
  left,    \* the last round a retired entry could still be paired into (ghost)
  ruling,  \* the ruling staff completed the stage with (ghost)
  amended, \* a result was corrected after the next stage drew (ghost)
  changes, \* corrections and retirements so far (bound)
  faults   \* restarts so far (bound)

vars == <<stage, entry, table, field, job, left, ruling, amended, changes, faults>>

Entry == 1..stage.n
Active == {e \in Entry : entry[e].status = "active"}

Key(r) == <<r.group, r.round, r.position>>
Open == {r \in table : r.open}
Results == {r \in table : ~r.open}
LastRound(rows) == Max({r.round : r \in rows} \cup {0})
InRound(rows, n) == {r \in rows : r.round = n}

Row(group, round, position, a, b) ==
  [group |-> group, round |-> round, position |-> position, one |-> a, two |-> b,
   winner |-> IF b = None THEN a ELSE None, open |-> b # None]

(* An entry's group is read off its matches; Swiss has one. *)
Group(e) == GroupOf(stage.groups, e)
GroupEntries(g) == {e \in Entry : Group(e) = g}

(* Each group is ranked by its own results. *)
FinalRanks(results) ==
  [e \in Entry |->
    RankOf({r \in results : r.group = Group(e)}, GroupEntries(Group(e)), Chain, e)]

-----------------------------------------------------------------------------
(* The pairing engine, a library: any pairing that repeats no match and    *)
(* gives the odd entry a bye it has not had; none when there is none.      *)

Meeting(r) == {r.one, r.two} \ {None}
Met(rows) == {Meeting(r) : r \in {x \in rows : ~x.open}}

Pairings(players, met) ==
  {P \in SUBSET ({S \in SUBSET players : Cardinality(S) \in {1, 2}} \ met) :
     /\ P # {}
     /\ \A e \in players : Cardinality({S \in P : e \in S}) = 1
     /\ Cardinality({S \in P : Cardinality(S) = 1}) = Cardinality(players) % 2}

PairRow(round, S) ==
  LET a == Min(S)
  IN  Row(1, round, 0, a, IF S = {a} THEN None ELSE Max(S))

(* Mutant: the round just played is not among the meetings yet. *)
NextRoundForgetful(rows, players) ==
  {{PairRow(LastRound(rows) + 1, S) : S \in P} :
    P \in Pairings(players, Met(rows \ InRound(rows, LastRound(rows))))}

(* _swiss_players and pair_round *)
NextRound(rows, players) ==
  {{PairRow(LastRound(rows) + 1, S) : S \in P} : P \in Pairings(players, Met(rows))}

(* _swiss_target_rounds: the field is counted as it is now; ceil(log2 n) is *)
(* the number of powers of two below n.                                    *)
TargetRounds(n) ==
  IF SwissRounds[stage.n] # 0 THEN SwissRounds[stage.n]
  ELSE Max({1, Cardinality({k \in 0..n : 2^k < n})})

-----------------------------------------------------------------------------
(* Calls in flight.                                                        *)

Kind == {"start", "report", "override", "complete", "cancel", "retire", "advance"}
Idle == [kind |-> "idle"]
Busy == {w \in Worker : job[w] # Idle}

(* row: the match it will save, with its winner.  seen: the matches it has *)
(* read.  todo: rows to create, and made how many it has, or, of an        *)
(* advance, how many of order it has enrolled.  saves: entries to save, as *)
(* they were read but for the rank.  entry: the one to retire, as read.    *)
(* was: the stage's state when it began.  rule: the ruling it was given.   *)
Call(kind, at) ==
  [kind |-> kind, at |-> at, row |-> None, seen |-> {}, todo |-> {}, made |-> 0,
   saves |-> {}, entry |-> None, order |-> <<>>, was |-> stage.state, rule |-> <<>>]

Is(w, at) == job[w] # Idle /\ job[w].at = at
Go(w, j) == job' = [job EXCEPT ![w] = j]
Step(w, at) == Go(w, [job[w] EXCEPT !.at = at])
Done(w) == Go(w, Idle)

Ranks(j) == j.kind = "complete" \/ (j.kind = "override" /\ j.was = "complete")
Scores(j) == j.kind \in {"report", "override"}

(* Which calls stand in each other's way; one of each pair is enough. *)
Conflict(j, k) ==
  [state |-> \/ /\ j.kind \in {"start", "cancel"} \/ Ranks(j)
                /\ k.kind \in {"start", "cancel"} \/ Ranks(k)
             \/ j.kind = "cancel" /\ Scores(k),
   result |-> \/ Scores(j) /\ Scores(k) /\ Key(j.row) = Key(k.row)
              \/ Ranks(j) /\ Scores(k),
   retire |-> \/ j.kind = "retire" /\ (Ranks(k) \/ k.kind = "advance")
              \/ j.kind = "retire" /\ k.kind = "retire" /\ j.entry[1] = k.entry[1],
   draw |-> j.kind = "advance" /\ (k.kind = "advance" \/ Ranks(k))]

Start(w, j) ==
  /\ job[w] = Idle
  /\ \A v \in Busy, c \in ConflictKind :
       Conflict(j, job[v])[c] \/ Conflict(job[v], j)[c] => c \in Overlaps
  /\ Go(w, j)

-----------------------------------------------------------------------------
(* Starting the stage, and creating rows.                                  *)

FirstRound ==
  IF stage.format = "swiss" THEN NextRound({}, Active)
  ELSE {{Row(r.group, r.round, r.position, r.one, r.two) :
           r \in RoundRobinMatches(stage.n, stage.groups)}}

StartStage(w) ==
  /\ stage.state = "draft" /\ Active = Entry
  /\ job[w] = Idle
  /\ \E rows \in FirstRound : Start(w, [Call("start", "create") EXCEPT !.todo = rows])
  /\ UNCHANGED <<stage, entry, table, field, left, ruling, amended, changes, faults>>

(* A Swiss round is numbered as it is created. *)
Placed(w, row) == IF row.position = 0 THEN [row EXCEPT !.position = job[w].made + 1] ELSE row

Created(w, row) ==
  Go(w, IF job[w].todo # {row}
        THEN [job[w] EXCEPT !.todo = @ \ {row}, !.made = @ + 1]
        ELSE IF job[w].kind = "start" THEN [job[w] EXCEPT !.at = "activate", !.todo = {}]
             ELSE Idle)

(* Mutant: a position that is taken moves the match to the next free one. *)
CreateAnyway(w, row) ==
  /\ Is(w, "create") /\ row \in job[w].todo
  /\ \A r \in job[w].todo : row.round <= r.round
  /\ table' = table \cup
       {[Placed(w, row) EXCEPT !.position =
          CHOOSE p \in @..(@ + stage.n) :
            \A r \in InRound(table, row.round) : r.group # row.group \/ r.position # p]}
  /\ Created(w, row)
  /\ UNCHANGED <<stage, entry, field, left, ruling, amended, changes, faults>>

(* (bracket, round, position) is unique: the first call to get there wins. *)
CreateRow(w, row) ==
  /\ Is(w, "create") /\ row \in job[w].todo
  /\ \A r \in job[w].todo : row.round <= r.round
  /\ IF \E r \in table : Key(r) = Key(Placed(w, row))
     THEN Done(w) /\ UNCHANGED table
     ELSE Created(w, row) /\ table' = table \cup {Placed(w, row)}
  /\ UNCHANGED <<stage, entry, field, left, ruling, amended, changes, faults>>

Activate(w) ==
  /\ Is(w, "activate")
  /\ stage' = [stage EXCEPT !.state = "active"]
  /\ Done(w)
  /\ UNCHANGED <<entry, table, field, left, ruling, amended, changes, faults>>

-----------------------------------------------------------------------------
(* Results.                                                                *)

Result(kind, r, e) ==
  [Call(kind, "save") EXCEPT !.row = [r EXCEPT !.winner = e, !.open = FALSE]]

(* _record_result *)
Report(w, r, e) ==
  /\ stage.state = "active" /\ r \in Open /\ e \in Meeting(r)
  /\ Start(w, Result("report", r, e))
  /\ UNCHANGED <<stage, entry, table, field, left, ruling, amended, changes, faults>>

Allowed == changes + faults < MaxIncidents[stage.n]

(* override_result: in any state of the stage, but of a match with two     *)
(* entries only.                                                           *)
Override(w, r, e) ==
  /\ Allowed /\ changes' = changes + 1
  /\ r \in Results /\ r.two # None /\ e \in Meeting(r)
  /\ Start(w, Result("override", r, e))
  /\ UNCHANGED <<stage, entry, table, field, left, ruling, amended, faults>>

Drawing == \E e \in Entry : field[e] # None

(* An override of a stage that is complete ranks it again, with no ruling. *)
SaveResult(w) ==
  /\ Is(w, "save")
  /\ LET j == job[w]
     IN  /\ table' = {r \in table : Key(r) # Key(j.row)} \cup {j.row}
         /\ amended' = (amended \/ Drawing)
         /\ CASE j.was = "complete" -> Step(w, "rank")
              [] j.was = "active" /\ stage.format = "swiss" -> Step(w, "list")
              [] OTHER -> Done(w)
  /\ UNCHANGED <<stage, entry, field, left, ruling, changes, faults>>

(* A round that some call has created a part of. *)
Halfway == \E v \in Busy : job[v].at = "create" /\ job[v].made > 0

(* _advance_swiss *)
ListRound(w) ==
  /\ Is(w, "list") /\ ("round" \in Overlaps \/ ~Halfway)
  /\ IF \E r \in InRound(table, LastRound(table)) : r.open
     THEN Done(w)
     ELSE Go(w, [job[w] EXCEPT !.at = "pair", !.seen = table])
  /\ UNCHANGED <<stage, entry, table, field, left, ruling, amended, changes, faults>>

(* Mutant: retired entries are paired like the others. *)
PairEverybody(w) ==
  /\ Is(w, "pair")
  /\ LET next == IF LastRound(job[w].seen) >= TargetRounds(Cardinality(Active))
                 THEN {} ELSE NextRound(job[w].seen, Entry)
     IN  IF next = {} THEN Done(w)
         ELSE \E rows \in next : Go(w, [job[w] EXCEPT !.at = "create", !.todo = rows])
  /\ UNCHANGED <<stage, entry, table, field, left, ruling, amended, changes, faults>>

(* Mutant: the number of rounds is compared one off. *)
PairOneLess(w) ==
  /\ Is(w, "pair")
  /\ LET next == IF LastRound(job[w].seen) + 1 >= TargetRounds(Cardinality(Active))
                 THEN {} ELSE NextRound(job[w].seen, Active)
     IN  IF next = {} THEN Done(w)
         ELSE \E rows \in next : Go(w, [job[w] EXCEPT !.at = "create", !.todo = rows])
  /\ UNCHANGED <<stage, entry, table, field, left, ruling, amended, changes, faults>>

PairRound(w) ==
  /\ Is(w, "pair")
  /\ LET next == IF LastRound(job[w].seen) >= TargetRounds(Cardinality(Active))
                 THEN {} ELSE NextRound(job[w].seen, Active)
     IN  IF next = {} THEN Done(w)
         ELSE \E rows \in next : Go(w, [job[w] EXCEPT !.at = "create", !.todo = rows])
  /\ UNCHANGED <<stage, entry, table, field, left, ruling, amended, changes, faults>>

-----------------------------------------------------------------------------
(* The end of the stage.                                                   *)

(* Staff put one entry ahead of those it is tied with, or rule on nothing. *)
Ties(ranks, e) == {f \in GroupEntries(Group(e)) \ {e} : ranks[f] = ranks[e]}
Rulings ==
  UNION {{<<>>} \cup {[f \in Ties(ranks, e) |-> ranks[e] + 1] :
                       e \in {x \in Entry : Ties(ranks, x) # {}}} :
         ranks \in {FinalRanks(Results)}}

CompleteStage(w) ==
  /\ stage.state = "active" /\ Open = {} /\ job[w] = Idle
  /\ \E rule \in Rulings : Start(w, [Call("complete", "rank") EXCEPT !.rule = rule])
  /\ UNCHANGED <<stage, entry, table, field, left, ruling, amended, changes, faults>>

(* _finalize_stage *)
ReadResults(w) ==
  /\ Is(w, "rank")
  /\ Go(w, [job[w] EXCEPT !.at = "entries", !.seen = Results])
  /\ UNCHANGED <<stage, entry, table, field, left, ruling, amended, changes, faults>>

(* rank_by_ref, with the ruling on top *)
RankByRef(w) ==
  LET ranks == FinalRanks(job[w].seen)
  IN  [e \in Entry |-> IF e \in DOMAIN job[w].rule THEN job[w].rule[e] ELSE ranks[e]]

ReadEntries(w) ==
  /\ Is(w, "entries")
  /\ Go(w, [job[w] EXCEPT !.at = "write",
             !.saves = {<<e, [entry[e] EXCEPT !.rank = RankByRef(w)[e]]>> : e \in Entry}])
  /\ UNCHANGED <<stage, entry, table, field, left, ruling, amended, changes, faults>>

(* Mutant: an entry that has a rank keeps it. *)
SaveFirstRank(w) ==
  /\ Is(w, "write")
  /\ LET x == CHOOSE y \in job[w].saves : \A z \in job[w].saves : y[1] <= z[1]
     IN  /\ entry' = IF entry[x[1]].rank = None THEN [entry EXCEPT ![x[1]] = x[2]] ELSE entry
         /\ Go(w, IF job[w].saves = {x} THEN [job[w] EXCEPT !.at = "close", !.saves = {}]
                  ELSE [job[w] EXCEPT !.saves = @ \ {x}])
  /\ UNCHANGED <<stage, table, field, left, ruling, amended, changes, faults>>

SaveRank(w) ==
  /\ Is(w, "write")
  /\ LET x == CHOOSE y \in job[w].saves : \A z \in job[w].saves : y[1] <= z[1]
     IN  /\ entry' = [entry EXCEPT ![x[1]] = x[2]]
         /\ Go(w, IF job[w].saves = {x} THEN [job[w] EXCEPT !.at = "close", !.saves = {}]
                  ELSE [job[w] EXCEPT !.saves = @ \ {x}])
  /\ UNCHANGED <<stage, table, field, left, ruling, amended, changes, faults>>

CloseStage(w) ==
  /\ Is(w, "close")
  /\ stage' = [stage EXCEPT !.state = "complete"]
  /\ ruling' = IF job[w].kind = "complete" THEN job[w].rule ELSE ruling
  /\ Done(w)
  /\ UNCHANGED <<entry, table, field, left, amended, changes, faults>>

CancelStage(w) ==
  /\ stage.state \in {"draft", "active"}
  /\ Start(w, Call("cancel", "cancel"))
  /\ UNCHANGED <<stage, entry, table, field, left, ruling, amended, changes, faults>>

SaveCancelled(w) ==
  /\ Is(w, "cancel")
  /\ stage' = [stage EXCEPT !.state = "cancelled"]
  /\ Done(w)
  /\ UNCHANGED <<entry, table, field, left, ruling, amended, changes, faults>>

-----------------------------------------------------------------------------
(* Retiring an entry: a save of its whole row.  The code allows it in any  *)
(* state; a bound keeps it to a stage that has begun, because an entry that *)
(* leaves a draft leaves a smaller field.                                  *)

RetireEntry(w, e) ==
  /\ Allowed /\ changes' = changes + 1
  /\ stage.state # "draft" /\ e \in Active
  /\ Start(w, [Call("retire", "retire") EXCEPT !.entry = <<e, entry[e]>>])
  /\ UNCHANGED <<stage, entry, table, field, left, ruling, amended, faults>>

RoundsBegun == {LastRound(table)} \cup UNION {{r.round : r \in job[w].todo} : w \in Busy}

SaveRetired(w) ==
  /\ Is(w, "retire")
  /\ LET e == job[w].entry[1]
     IN  /\ entry' = [entry EXCEPT ![e] = [job[w].entry[2] EXCEPT !.status = "dropped"]]
         /\ left' = [left EXCEPT ![e] = Max(RoundsBegun)]
  /\ Done(w)
  /\ UNCHANGED <<stage, table, field, ruling, amended, changes, faults>>

-----------------------------------------------------------------------------
(* The next stage: its field, drawn by rank.                               *)

AdvanceStage(w) ==
  /\ stage.state = "complete" /\ ~Drawing
  /\ Start(w, Call("advance", "draw"))
  /\ UNCHANGED <<stage, entry, table, field, left, ruling, amended, changes, faults>>

Candidates == {e \in Active : entry[e].rank # None}

(* Mutant: the field is drawn by seed. *)
OrderBySeed(entries) ==
  LET advancers == Advancers(entries, [e \in Entry |-> e], [e \in Entry |-> Group(e)], Count)
  IN  SnakeOrder(advancers, Len(advancers) \div Count, Count)

Order(entries) ==
  LET advancers == Advancers(entries, [e \in Entry |-> entry[e].rank],
                             [e \in Entry |-> Group(e)], Count)
  IN  SnakeOrder(advancers, Len(advancers) \div Count, Count)

(* _compute_advancers and _seed_advancers *)
DrawField(w) ==
  /\ Is(w, "draw")
  /\ IF EnoughRanked(Candidates, [e \in Entry |-> Group(e)], Count)
     THEN Go(w, [job[w] EXCEPT !.at = "enroll", !.order = Order(Candidates)])
     ELSE Done(w)
  /\ UNCHANGED <<stage, entry, table, field, left, ruling, amended, changes, faults>>

(* An entrant is in a stage once. *)
EnrollNext(w) ==
  /\ Is(w, "enroll")
  /\ LET s == job[w].made + 1
         e == job[w].order[s]
     IN  IF field[e] # None THEN Done(w) /\ UNCHANGED field
         ELSE /\ field' = [field EXCEPT ![e] = s]
              /\ Go(w, IF s = Len(job[w].order) THEN Idle ELSE [job[w] EXCEPT !.made = s])
  /\ UNCHANGED <<stage, entry, table, left, ruling, amended, changes, faults>>

-----------------------------------------------------------------------------
(* Whatever was in flight is lost; the rows are not. *)
Restart ==
  /\ Allowed /\ Busy # {}
  /\ faults' = faults + 1
  /\ job' = [w \in Worker |-> Idle]
  /\ UNCHANGED <<stage, entry, table, field, left, ruling, amended, changes>>

Init ==
  /\ stage \in [format : Formats, n : Fields, groups : Groups, state : {"draft"}]
  /\ 2 * stage.groups <= stage.n /\ (stage.format = "swiss" => stage.groups = 1)
  /\ entry = [e \in Entry |-> [status |-> "active", rank |-> None]]
  /\ table = {}
  /\ field = [e \in Entry |-> None]
  /\ job = [w \in Worker |-> Idle]
  /\ left = [e \in Entry |-> None]
  /\ ruling = <<>>
  /\ amended = FALSE
  /\ changes = 0
  /\ faults = 0

Continue(w) ==
  \/ \E row \in job[w].todo : CreateRow(w, row)
  \/ Activate(w) \/ SaveResult(w) \/ ListRound(w) \/ PairRound(w)
  \/ ReadResults(w) \/ ReadEntries(w) \/ SaveRank(w) \/ CloseStage(w)
  \/ SaveCancelled(w) \/ SaveRetired(w) \/ DrawField(w) \/ EnrollNext(w)

Next ==
  \/ \E w \in Busy : Continue(w)
  \/ \E w \in Worker :
       \/ StartStage(w) \/ CancelStage(w) \/ CompleteStage(w) \/ AdvanceStage(w)
       \/ \E r \in table, e \in Entry : Report(w, r, e) \/ Override(w, r, e)
       \/ \E e \in Entry : RetireEntry(w, e)
  \/ Restart

Spec == Init /\ [][Next]_vars

-----------------------------------------------------------------------------
(* Properties.                                                             *)

(* "No-rematch" pairings and a bye at most once, in every round, whichever *)
(* call paired it and whatever was in flight when the process stopped.     *)
NoRematch ==
  \A r, q \in table : r # q => Meeting(r) # Meeting(q)

(* "One round at a time": Swiss matches are open in the last round only.   *)
OneRoundAtATime ==
  stage.format = "swiss" => \A r \in Open : r.round = LastRound(table)

(* A round is paired once, when the one before it is over: an entry plays  *)
(* one match a round, and matches are open in the last round only, and in  *)
(* no stage that is complete.                                              *)
RoundsInOrder ==
  /\ \A r, q \in table : r # q /\ r.round = q.round => Meeting(r) \cap Meeting(q) = {}
  /\ stage.state = "complete" => Open = {}
  /\ OneRoundAtATime

(* "Swiss stops pairing them": an entry is in no round that was paired     *)
(* after it was retired.                                                   *)
RetiredIsOut ==
  \A r \in table, e \in Entry : e \in Meeting(r) /\ left[e] # None => r.round <= left[e]

Quiet == Busy = {} /\ faults = 0

(* The next round does not wait for anybody: once every call is answered,  *)
(* a Swiss stage with nothing open has played its rounds, or there is no   *)
(* way to pair the entries that are left, or was none before some of those *)
(* who retired in this round did: retire_entry pairs nothing.              *)
NextRoundPaired ==
  Quiet /\ stage.format = "swiss" /\ stage.state = "active" /\ Open = {} =>
    \/ LastRound(table) >= TargetRounds(Cardinality(Active))
    \/ \E A \in SUBSET {e \in Entry : left[e] = LastRound(table)} :
         NextRound(table, Active \cup A) = {}

(* The ranks of a stage that is complete are those of its results, also    *)
(* when one is corrected afterwards, but where staff ruled otherwise.      *)
RanksFollowResults ==
  Quiet /\ stage.state = "complete" =>
    \A e \in Entry : entry[e].rank \in
      {FinalRanks(Results)[e]} \cup (IF e \in DOMAIN ruling THEN {ruling[e]} ELSE {})

(* "Drawing the top count, skipping dropped entries": nobody in the next   *)
(* stage was ranked behind an entry of its group that stayed out.          *)
BestAdvance ==
  Quiet /\ Drawing /\ ~amended =>
    \A e, f \in Entry :
      field[e] # None /\ field[f] = None /\ f \in Active /\ Group(e) = Group(f) =>
        entry[e].rank <= entry[f].rank

(* "A tie for the last advancing slot" is for staff to rule on: their      *)
(* ruling stands as long as those it separated are tied.                   *)
RulingStands ==
  LET ranks == FinalRanks(Results)
      tied == \A e \in DOMAIN ruling :
                /\ ranks[e] + 1 = ruling[e]
                /\ Cardinality(Ties(ranks, e)) = Cardinality(DOMAIN ruling)
  IN  Quiet /\ stage.state = "complete" /\ tied =>
        \A e \in DOMAIN ruling : entry[e].rank = ruling[e]
=============================================================================

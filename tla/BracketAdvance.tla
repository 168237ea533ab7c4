--------------------------- MODULE BracketAdvance ---------------------------
(***************************************************************************)
(* Result reporting and advancement in one elimination stage               *)
(* (_bracket/advancement.py, completion.py, generation.py).                *)
(*                                                                         *)
(* The persisted BracketMatch rows are the source of truth: recording a    *)
(* result completes a row and then walks the winner_to / loser_to pointers *)
(* row by row.  Nothing runs in a transaction, so a handler is modelled at *)
(* the grain of its database awaits: it loads a row, later saves the WHOLE *)
(* row it loaded, and other requests run in between.  A Worker is one      *)
(* in-flight report_result or override_result request; the remaining staff *)
(* operations are single updates and may come at any moment.               *)
(***************************************************************************)
EXTENDS BracketGraph, Sequences

CONSTANTS
  Entry,        \* the stage's entries, identified by their seeds
  Worker,       \* requests that may be in flight at the same time
  Match,        \* row ids, enough for the largest graph
  Graphs,       \* the match graphs the engines may generate (EliminationGraph)
  MaxOverrides, \* bound: staff corrections
  Retirable     \* bound: the entries that may be retired mid-stage

MatchState == {"pending", "open", "complete"}
EntryStatus == {"active", "eliminated", "dropped"}
StageState == {"draft", "active", "complete", "cancelled"}

EntryOrNone == Entry \cup {None}

(* A graph whose rows and entrants are the stage's. *)
Fits(g) == WellFormed(g) /\ g.matches \subseteq Match /\ g.field \subseteq Entry

ASSUME GraphAssumption == \A g \in Graphs : Playable(g) /\ Fits(g)

ASSUME EntryAssumption == Entry \subseteq Nat /\ IsFiniteSet(Entry) /\ None \notin Entry
ASSUME BoundAssumption == MaxOverrides \in Nat /\ Retirable \subseteq Entry

VARIABLES
  graph,       \* the graph the stage's settings generate, fixed at start
  stage,       \* Bracket.state
  row,         \* the BracketMatch rows: entries, winner, state
  status,      \* BracketEntry.status
  final_rank,  \* BracketEntry.final_rank, 0 when not written
  job,         \* what each in-flight request holds in memory
  overrides    \* corrections made so far (bound)

vars == <<graph, stage, row, status, final_rank, job, overrides>>

Row == [entry : [Slot -> EntryOrNone], winner : EntryOrNone, state : MatchState]

BlankRow == [entry |-> [s \in Slot |-> None], winner |-> None, state |-> "pending"]

-----------------------------------------------------------------------------
(* Reading the rows.                                                       *)

Matches == graph.matches

Contested(r) == r.entry[1] # None /\ r.entry[2] # None

Loser(r) == IF r.winner = r.entry[2] THEN r.entry[1] ELSE r.entry[2]

Decided(m) == row[m].state = "complete" /\ row[m].winner # None

Terminal(m) == graph.winnerTo[m] = NoPointer /\ graph.loserTo[m] = NoPointer

(* _gf1_reset: both pointers of a match lead to one match that leads       *)
(* nowhere, so the match is Grand Final 1 and its target the reset.        *)
IsGrandFinal1(m) ==
  /\ graph.winnerTo[m] # NoPointer
  /\ graph.loserTo[m] # NoPointer
  /\ graph.winnerTo[m].match = graph.loserTo[m].match
  /\ Terminal(graph.winnerTo[m].match)

(* _elimination_result: the decided terminal match, or Grand Final 1 won   *)
(* by its winners-bracket side; empty while the title is open.             *)
DecidingMatch ==
  LET t == {m \in Matches : Terminal(m) /\ Decided(m)}
  IN  IF t # {} THEN t
      ELSE {m \in Matches : /\ IsGrandFinal1(m) /\ Decided(m)
                            /\ row[m].winner = row[m].entry[1]}

(* _rank_elimination: champion, runner-up, then whoever was knocked out    *)
(* later, the better seed first among equals.                              *)
Ranks ==
  LET final == CHOOSE m \in DecidingMatch : TRUE
      champion == row[final].winner
      runnerUp == Loser(row[final])
      knockout(e) == {m \in Matches : /\ Decided(m) /\ Contested(row[m])
                                      /\ graph.loserTo[m] = NoPointer
                                      /\ Loser(row[m]) = e}
      abs(i) == IF i < 0 THEN -i ELSE i
      depth(e) == IF knockout(e) = {} THEN 0
                  ELSE abs(graph.round[CHOOSE m \in knockout(e) : TRUE])
      rest == graph.field \ {champion, runnerUp}
      ahead(e) == {x \in rest : depth(x) > depth(e) \/ (depth(x) = depth(e) /\ x < e)}
  IN  [e \in Entry |->
        IF e = champion THEN 1
        ELSE IF e = runnerUp THEN 2
        ELSE IF e \in rest THEN 3 + Cardinality(ahead(e)) ELSE 0]

(* Mutant: an undecided feeder counts whether or not anyone can reach it. *)
AnyFeederLeft(pointer) ==
  \E x \in Matches :
    row[x].state # "complete" /\ pointer \in {graph.winnerTo[x], graph.loserTo[x]}

(* Mutant: only the winner's way into a slot is asked about. *)
WinnerLeft(pointer) == \E x \in Matches : row[x].state # "complete" /\ graph.winnerTo[x] = pointer

(* _slot_can_fill: whether an entry can still arrive in a slot.  The       *)
(* visited set is one mutable set shared by the whole recursion, hence     *)
(* handed through it: fill is the recursion, each call of it answers and   *)
(* says what has been visited since.                                       *)
SlotLive(fill, x, s, seen) ==
  IF row[x].entry[s] # None THEN [ok |-> TRUE, seen |-> seen]
  ELSE fill[<<[match |-> x, slot |-> s], seen>>]

CanProduceWinner(fill, x, seen) ==
  LET one == SlotLive(fill, x, 1, seen)
  IN  IF row[x].entry[2] # None THEN [ok |-> TRUE, seen |-> seen]
      ELSE IF one.ok THEN one ELSE SlotLive(fill, x, 2, one.seen)

CanProduceLoser(fill, x, seen) ==
  LET one == SlotLive(fill, x, 1, seen)
      two == SlotLive(fill, x, 2, one.seen)
  IN  [ok |-> one.ok /\ two.ok, seen |-> two.seen]

Visit(fill, p, seen) ==
  LET undecided(to) == {x \in Matches : to[x] = p /\ row[x].state # "complete"}
      wins == undecided(graph.winnerTo)
      drops == undecided(graph.loserTo)
  IN  IF p \in seen THEN [ok |-> FALSE, seen |-> seen]
      ELSE IF wins # {} THEN CanProduceWinner(fill, CHOOSE x \in wins : TRUE, seen \cup {p})
      ELSE IF drops # {} THEN CanProduceLoser(fill, CHOOSE x \in drops : TRUE, seen \cup {p})
      ELSE [ok |-> FALSE, seen |-> seen \cup {p}]

SlotCanFill(pointer) ==
  LET fill[call \in Pointers(graph) \X SUBSET Pointers(graph)] == Visit(fill, call[1], call[2])
  IN  fill[<<pointer, {}>>].ok

-----------------------------------------------------------------------------
(* What a request carries: the match it settles, the winner and loser and  *)
(* their statuses as loaded, the stage state as loaded, the writes still   *)
(* to be made, and the row it has in hand for the first of them.           *)

Task == [do : {"record", "place", "settle", "clear", "reopen"},
         match : Match,
         slot : Slot, entry : EntryOrNone]

Idle == [busy |-> FALSE]

Jobs == [busy : {TRUE}, match : Match,
         winner : Entry, loser : Entry,
         winnerSeen : EntryStatus, loserSeen : EntryStatus,
         stageSeen : StageState, override : BOOLEAN,
         todo : Seq(Task), copy : Row \cup {None}]

Do(task, m, s, e) == [do |-> task, match |-> m, slot |-> s, entry |-> e]

Place(pointer, e) ==
  IF pointer = NoPointer THEN <<>> ELSE <<Do("place", pointer.match, pointer.slot, e)>>

Settle(pointer) ==
  IF pointer = NoPointer THEN <<>> ELSE <<Do("settle", pointer.match, 1, None)>>

(* Mutant: the loser is never placed, its match is only settled. *)
AdvanceWinnerOnly(m, w, l, fromWB) ==
  LET up == graph.winnerTo[m]
      down == graph.loserTo[m]
  IN  IF IsGrandFinal1(m)
      THEN <<Do(IF fromWB THEN "clear" ELSE "reopen", up.match, 1, None)>>
      ELSE Place(up, w) \o Settle(up) \o Settle(down)

(* The writes _advance_after_result makes once the row itself is saved.    *)
Advance(m, w, l, fromWB) ==
  LET up == graph.winnerTo[m]
      down == graph.loserTo[m]
      sameTarget == up # NoPointer /\ down # NoPointer /\ up.match = down.match
  IN  IF IsGrandFinal1(m)
      THEN <<Do(IF fromWB THEN "clear" ELSE "reopen", up.match, 1, None)>>
      ELSE Place(up, w) \o Place(down, l)
             \o Settle(up) \o (IF sameTarget THEN <<>> ELSE Settle(down))

-----------------------------------------------------------------------------
(* Starting a stage.                                                       *)

IsBye(m) == (graph.seeds[m][1] = None) # (graph.seeds[m][2] = None)

ByeWinner(m) == IF graph.seeds[m][1] # None THEN graph.seeds[m][1] ELSE graph.seeds[m][2]

(* The row a match starts from: its seeds, the winner of a bye that feeds  *)
(* it, and the state the final pass gives it.  Losers are not propagated.  *)
OpeningRow(m) ==
  LET byes(s) == {x \in Matches : IsBye(x) /\ graph.winnerTo[x] = [match |-> m, slot |-> s]}
      entry == [s \in Slot |->
                 IF graph.seeds[m][s] # None THEN graph.seeds[m][s]
                 ELSE IF byes(s) = {} THEN None
                      ELSE ByeWinner(CHOOSE x \in byes(s) : TRUE)]
  IN  [entry |-> entry,
       winner |-> IF IsBye(m) THEN ByeWinner(m) ELSE None,
       state |-> IF IsBye(m) THEN "complete"
                 ELSE IF entry[1] # None /\ entry[2] # None THEN "open" ELSE "pending"]

StartBracket ==
  /\ stage = "draft"
  /\ stage' = "active"
  /\ row' = [m \in Matches |-> OpeningRow(m)]
  /\ UNCHANGED <<graph, status, final_rank, job, overrides>>

-----------------------------------------------------------------------------
(* report_result and override_result.                                      *)

Load(w, m, e, override) ==
  LET l == IF e = row[m].entry[2] THEN row[m].entry[1] ELSE row[m].entry[2]
  IN  /\ job[w] = Idle
      /\ e # None
      /\ e \in {row[m].entry[1], row[m].entry[2]}
      /\ l # None
      /\ job' = [job EXCEPT ![w] =
                  [busy |-> TRUE, match |-> m, winner |-> e, loser |-> l,
                   winnerSeen |-> status[e], loserSeen |-> status[l],
                   stageSeen |-> stage, override |-> override,
                   todo |-> <<Do("record", m, 1, None)>>, copy |-> row[m]]]

(* Load and validate: an OPEN match of an ACTIVE stage, won by one of its  *)
(* two entries.                                                            *)
ReportResult(w, m, e) ==
  /\ stage = "active"
  /\ row[m].state = "open"
  /\ Load(w, m, e, FALSE)
  /\ UNCHANGED <<graph, stage, row, status, final_rank, overrides>>

(* Mutant: a correction is accepted under a decided downstream match. *)
OverrideUnderPlayed(w, m, e) ==
  /\ overrides < MaxOverrides
  /\ row[m].state = "complete"
  /\ Load(w, m, e, TRUE)
  /\ overrides' = overrides + 1
  /\ UNCHANGED <<graph, stage, row, status, final_rank>>

(* A correction needs the immediate downstream matches undecided.  The     *)
(* stage's own state is not asked.                                         *)
OverrideResult(w, m, e) ==
  /\ overrides < MaxOverrides
  /\ row[m].state = "complete"
  /\ \A p \in {graph.winnerTo[m], graph.loserTo[m]} :
       p # NoPointer => row[p.match].state # "complete"
  /\ Load(w, m, e, TRUE)
  /\ overrides' = overrides + 1
  /\ UNCHANGED <<graph, stage, row, status, final_rank>>

Working(w, task) ==
  /\ job[w].busy
  /\ job[w].todo # <<>>
  /\ Head(job[w].todo).do = task
  /\ job[w].copy # None

(* Save the row in hand, drop it, and go on with the rest of the writes.   *)
Save(w, newRow, then) ==
  /\ row' = [row EXCEPT ![Head(job[w].todo).match] = newRow]
  /\ job' = [job EXCEPT ![w].todo = then \o Tail(job[w].todo), ![w].copy = None]

(* Mutant: Grand Final 1's loser is judged by its pointer alone. *)
StatusesByPointer(j) ==
  LET set(e, seen, to) == IF seen = to THEN status[e] ELSE to
      lost == IF graph.loserTo[j.match] = NoPointer THEN "eliminated" ELSE "active"
  IN  [status EXCEPT ![j.winner] = set(j.winner, j.winnerSeen, "active"),
                     ![j.loser] = set(j.loser, j.loserSeen, lost)]

(* _set_entry_status writes only when the status it loaded differs.        *)
Statuses(j) ==
  LET set(e, seen, to) == IF seen = to THEN status[e] ELSE to
      lost == IF graph.loserTo[j.match] = NoPointer THEN "eliminated" ELSE "active"
      fromWB == j.winner = j.copy.entry[1]
      loserTo == IF IsGrandFinal1(j.match) /\ fromWB THEN "eliminated" ELSE lost
      keepWinner == IsGrandFinal1(j.match) /\ fromWB
  IN  [status EXCEPT
        ![j.winner] = IF keepWinner THEN @ ELSE set(j.winner, j.winnerSeen, "active"),
        ![j.loser] = set(j.loser, j.loserSeen, loserTo)]

(* The reported row is completed and its two entries' statuses follow.     *)
RecordResult(w) ==
  /\ Working(w, "record")
  /\ LET j == job[w]
     IN  /\ Save(w, [j.copy EXCEPT !.winner = j.winner, !.state = "complete"],
                 Advance(j.match, j.winner, j.loser, j.winner = j.copy.entry[1]))
         /\ status' = Statuses(j)
  /\ UNCHANGED <<graph, stage, final_rank, overrides>>

(* Every later write begins by re-fetching its row; a settle that finds    *)
(* its match complete has nothing to do.                                   *)
FetchRow(w) ==
  /\ job[w].busy
  /\ job[w].todo # <<>>
  /\ job[w].copy = None
  /\ LET t == Head(job[w].todo)
         skip == t.do = "settle" /\ row[t.match].state = "complete"
     IN  job' = IF skip THEN [job EXCEPT ![w].todo = Tail(@)]
                ELSE [job EXCEPT ![w].copy = row[t.match]]
  /\ UNCHANGED <<graph, stage, row, status, final_rank, overrides>>

PlaceEntry(w) ==
  /\ Working(w, "place")
  /\ LET t == Head(job[w].todo)
     IN  Save(w, [job[w].copy EXCEPT !.entry[t.slot] = t.entry], <<>>)
  /\ UNCHANGED <<graph, stage, status, final_rank, overrides>>

(* Grand Final 1: the winners side decides the title and empties the       *)
(* reset; the losers side fills it and opens it.                           *)
ClearReset(w) ==
  /\ Working(w, "clear")
  /\ Save(w, BlankRow, <<>>)
  /\ UNCHANGED <<graph, stage, status, final_rank, overrides>>

OpenReset(w) ==
  /\ Working(w, "reopen")
  /\ LET j == job[w]
     IN  Save(w, [j.copy EXCEPT !.entry[graph.winnerTo[j.match].slot] = j.winner,
                                !.entry[graph.loserTo[j.match].slot] = j.loser,
                                !.state = "open"], <<>>)
  /\ UNCHANGED <<graph, stage, status, final_rank, overrides>>

(* _settle_match, one action per outcome.                                  *)
SettleOpens(w) ==
  /\ Working(w, "settle")
  /\ Contested(job[w].copy)
  /\ Save(w, [job[w].copy EXCEPT !.state = "open"], <<>>)
  /\ UNCHANGED <<graph, stage, status, final_rank, overrides>>

EmptySlot(r) == IF r.entry[1] = None THEN 1 ELSE 2

Alone(r) == (r.entry[1] = None) # (r.entry[2] = None)

SettleWaits(w) ==
  /\ Working(w, "settle")
  /\ LET c == job[w].copy
     IN  /\ \/ c.entry[1] = None /\ c.entry[2] = None
            \/ /\ Alone(c)
               /\ SlotCanFill([match |-> Head(job[w].todo).match, slot |-> EmptySlot(c)])
         /\ Save(w, [c EXCEPT !.state = "pending"], <<>>)
  /\ UNCHANGED <<graph, stage, status, final_rank, overrides>>

(* A lone entrant whose opponent can never come advances unplayed, and the *)
(* match it lands in is settled before anything else.                      *)
SettleWalkover(w) ==
  /\ Working(w, "settle")
  /\ LET c == job[w].copy
         m == Head(job[w].todo).match
         present == c.entry[3 - EmptySlot(c)]
         up == graph.winnerTo[m]
     IN  /\ Alone(c)
         /\ ~SlotCanFill([match |-> m, slot |-> EmptySlot(c)])
         /\ Save(w, [c EXCEPT !.winner = present, !.state = "complete"],
                 Place(up, present) \o Settle(up))
  /\ UNCHANGED <<graph, stage, status, final_rank, overrides>>

-----------------------------------------------------------------------------
(* Completing the stage, and the other staff operations.                   *)

(* Mutant: ranks already written are kept. *)
FinalizeOnce ==
  /\ final_rank' = IF DecidingMatch = {} \/ stage = "complete" THEN final_rank ELSE Ranks
  /\ stage' = "complete"

FinalizeStage ==
  /\ final_rank' = IF DecidingMatch = {} THEN final_rank ELSE Ranks
  /\ stage' = "complete"

(* The tail of a report or an override, judged on the Bracket object that  *)
(* was loaded when the request began.                                      *)
FinishResult(w) ==
  /\ job[w].busy
  /\ job[w].todo = <<>>
  /\ job' = [job EXCEPT ![w] = Idle]
  /\ \/ /\ \/ job[w].stageSeen = "active" /\ DecidingMatch # {}
           \/ job[w].stageSeen = "complete" /\ job[w].override
        /\ FinalizeStage
     \/ /\ job[w].stageSeen = "active" /\ DecidingMatch = {}
        /\ UNCHANGED <<stage, final_rank>>
     \/ /\ job[w].stageSeen = "cancelled"
        /\ UNCHANGED <<stage, final_rank>>
  /\ UNCHANGED <<graph, row, status, overrides>>

CompleteStage ==
  /\ stage = "active"
  /\ DecidingMatch # {}
  /\ FinalizeStage
  /\ UNCHANGED <<graph, row, status, job, overrides>>

CancelStage ==
  /\ stage \in {"draft", "active"}
  /\ stage' = "cancelled"
  /\ UNCHANGED <<graph, row, status, final_rank, job, overrides>>

RetireEntry(e) ==
  /\ e \in Retirable
  /\ stage # "draft"
  /\ status[e] # "dropped"
  /\ status' = [status EXCEPT ![e] = "dropped"]
  /\ UNCHANGED <<graph, stage, row, final_rank, job, overrides>>

-----------------------------------------------------------------------------
Init ==
  /\ graph \in Graphs
  /\ stage = "draft"
  /\ row = [m \in graph.matches |-> BlankRow]
  /\ status = [e \in Entry |-> "active"]
  /\ final_rank = [e \in Entry |-> 0]
  /\ job = [w \in Worker |-> Idle]
  /\ overrides = 0

Continue(w) ==
  \/ RecordResult(w) \/ FetchRow(w) \/ PlaceEntry(w)
  \/ ClearReset(w) \/ OpenReset(w)
  \/ SettleOpens(w) \/ SettleWaits(w) \/ SettleWalkover(w)
  \/ FinishResult(w)

SomeReport == \E w \in Worker, m \in Matches, e \in Entry : ReportResult(w, m, e)

Next ==
  \/ StartBracket
  \/ SomeReport
  \/ \E w \in Worker, m \in Matches, e \in Entry : OverrideResult(w, m, e)
  \/ \E w \in Worker : Continue(w)
  \/ CompleteStage
  \/ CancelStage
  \/ \E e \in graph.field : RetireEntry(e)

Spec == Init /\ [][Next]_vars

(* A request runs to its end, and the organisers keep reporting matchups   *)
(* that are open to be played.                                             *)
Fairness ==
  /\ \A w \in Worker : WF_vars(Continue(w))
  /\ WF_vars(SomeReport)

FairSpec == Spec /\ Fairness

-----------------------------------------------------------------------------
(* Properties.                                                             *)

TypeOK ==
  /\ Fits(graph)
  /\ stage \in StageState
  /\ row \in [graph.matches -> Row]
  /\ status \in [Entry -> EntryStatus]
  /\ final_rank \in [Entry -> Nat]
  /\ job \in [Worker -> {Idle} \cup Jobs]
  /\ overrides \in 0..MaxOverrides

Quiet == \A w \in Worker : job[w] = Idle

(* Slots nobody can come to, if nobody is in them. *)
Closed(slots) ==
  \A p \in slots :
    /\ graph.seeds[p.match][p.slot] = None
    /\ \A x \in Matches :
         LET own == {[match |-> x, slot |-> s] : s \in Slot}
         IN  /\ graph.winnerTo[x] = p => own \subseteq slots
             /\ graph.loserTo[x] = p => own \cap slots # {}

(* Everything a result decides has arrived downstream and nothing else     *)
(* has: between requests a slot holds exactly the winner (or the loser) of *)
(* the decided match that feeds it, also after a correction, and is empty  *)
(* while the feeder is undecided.  Byes and walkovers have no loser, and   *)
(* a reset whose title was decided in Grand Final 1 is empty.              *)
SlotsMatchResults ==
  Quiet /\ stage # "draft" =>
    \A x \in Matches :
      LET won == IF Decided(x) THEN row[x].winner ELSE None
          lost == IF Decided(x) /\ Contested(row[x]) THEN Loser(row[x]) ELSE None
          titled == IsGrandFinal1(x) /\ won # None /\ won = row[x].entry[1]
          holds(p, e) == p # NoPointer =>
                           row[p.match].entry[p.slot] = IF titled THEN None ELSE e
      IN  holds(graph.winnerTo[x], won) /\ holds(graph.loserTo[x], lost)

(* A lone entrant is walked over only when nobody can come any more: what  *)
(* _slot_can_fill refuses has nothing behind it.  A refused slot is fed by *)
(* a match whose own slots are refused, both of them if it is fed the      *)
(* winner and one if it is fed the loser, and so on back to a bye; and     *)
(* neither side of a final ever is.  (The reset, which Grand Final 1 alone *)
(* fills, is not asked about.)                                             *)
RefusedIsDead ==
  LET reset == {graph.winnerTo[x].match : x \in {y \in Matches : IsGrandFinal1(y)}}
      refused == {p \in Pointers(graph) : /\ row[p.match].entry[p.slot] = None
                                          /\ p.match \notin reset
                                          /\ ~SlotCanFill(p)}
  IN  (\E w \in Worker : Working(w, "settle") /\ Alone(job[w].copy)) =>
        Closed(refused) /\ \A p \in refused : ~IsGrandFinal1(p.match) /\ ~Terminal(p.match)

(* An entry is eliminated exactly when it has lost a match that sends its  *)
(* loser nowhere (Grand Final 1 won by the winners side included).  A      *)
(* retired entry keeps its own status.                                     *)
EliminatedMeansBeaten ==
  Quiet =>
    \A e \in graph.field :
      status[e] # "dropped" =>
        (status[e] = "eliminated" <=>
           \E m \in Matches :
             /\ Decided(m) /\ Contested(row[m]) /\ Loser(row[m]) = e
             /\ \/ graph.loserTo[m] = NoPointer
                \/ IsGrandFinal1(m) /\ row[m].winner = row[m].entry[1])

(* The final ranks of a completed stage number its field 1..n without a    *)
(* gap, the champion being the winner of the match that now decides the    *)
(* title -- also after that match was corrected.                           *)
RanksFollowTheFinal ==
  Quiet /\ stage = "complete" /\ DecidingMatch # {} =>
    /\ {final_rank[e] : e \in graph.field} = 1..Cardinality(graph.field)
    /\ \A m \in DecidingMatch : final_rank[row[m].winner] = 1

(* A completed matchup is not quietly reopened: only a Grand Final 1       *)
(* correction touches a decided match again, and no write ever takes an    *)
(* entrant out of a decided match.                                         *)
DecidedStaysDecided ==
  [][\A m \in Matches :
       Decided(m) => /\ row'[m].state = "complete"
                     /\ row'[m].entry = row[m].entry]_vars

(* A started stage ends: if results keep coming, it is completed (or       *)
(* cancelled), with no entrant waiting for an opponent that never comes.   *)
(* In particular it is never wedged: as nobody has to correct anything,    *)
(* some matchup is open to be played whenever no request is in flight,     *)
(* whatever byes, walkovers and dead losers-bracket matches the field has. *)
StageEnds == stage = "active" ~> stage \in {"complete", "cancelled"}

(* BracketState.COMPLETE is documented as "once every match is resolved":  *)
(* a completed stage has no matchup left to play.                          *)
CompleteHasNothingOpen ==
  Quiet /\ stage = "complete" => \A m \in Matches : row[m].state # "open"

(* "Recording a result completes the match, then pushes the winner into    *)
(* winner_to": once every request has returned, the winner of each decided *)
(* match sits in the slot its match leads to.                              *)
NoWinnerIsLost ==
  Quiet /\ stage # "draft" =>
    \A m \in Matches :
      Decided(m) /\ graph.winnerTo[m] # NoPointer /\ ~IsGrandFinal1(m) =>
        row[graph.winnerTo[m].match].entry[graph.winnerTo[m].slot] = row[m].winner
=============================================================================

------------------------ MODULE BracketAdvance_proofs ------------------------
(***************************************************************************)
(* First, whatever requests overlap, and on any graph the engines may      *)
(* generate: the rows of a stage and what its requests hold in memory stay *)
(* of their type.  The walk along the pointers is what needs an argument:  *)
(* a write still to be made is about a match of the stage's own graph,     *)
(* because it was read off a pointer of that graph, and a request that has *)
(* a row in hand has the write it was read for (Bound).                    *)
(*                                                                         *)
(* Then, one request at a time: the slots hold what the results say.       *)
(* SlotInv: every slot holds what its feeder sent, or a write that brings  *)
(* it is still to be made (Delivered); those writes go to matches that are *)
(* not decided (TaskOk); only a slot nobody can come to is empty in a      *)
(* decided match (RowsInv).  It is kept as long as _slot_can_fill refuses  *)
(* only slots with nothing behind them, and that follows from it and from  *)
(* where the results start (SeedInv): the recursion answers (FillIs), what *)
(* the winners bracket leads to is live whatever was visited on the way    *)
(* (UpperLive), and a slot of the losers bracket is live or hopeless, that *)
(* is without anyone left behind it (LowerJudged).                         *)
(*                                                                         *)
(* On top of it, that an entry stands in one slot of the graph at a time   *)
(* (PlaceInv), and so goes home once (StatusInv); and that the field is    *)
(* ranked by the match that decides the title (TableInv).                  *)
(***************************************************************************)
EXTENDS BracketAdvance, FiniteSetTheorems, FunctionTheorems, NaturalsInduction, SequenceTheorems,
        WellFoundedInduction, TLAPS

(* What a graph promises, in the parts the proofs use. *)
LEMMA GraphsFit ==
  \A g \in Graphs :
    /\ Fits(g) /\ OneSource(g) /\ SeededOnce(g) /\ TwoBrackets(g) /\ NoPointer \notin Pointers(g)
    /\ \E final \in g.matches :
         {m \in g.matches : g.winnerTo[m] = NoPointer /\ g.loserTo[m] = NoPointer} = {final}
BY GraphAssumption DEF Playable, OneTitle

LiveTask == {t \in Task : t.match \in Matches}

Bound(j) ==
  /\ j.match \in Matches
  /\ j.todo \in Seq(LiveTask)
  /\ j.copy # None => j.todo # <<>>

TypeInv ==
  /\ TypeOK
  /\ \A w \in Worker : job[w].busy => Bound(job[w])

-----------------------------------------------------------------------------
(* Rows, pointers and the lists of writes.                                 *)

LEMMA JobTyped ==
  ASSUME TypeInv, NEW w \in Worker, job[w].busy
  PROVE  job[w] \in Jobs /\ Bound(job[w])
BY DEF TypeInv, TypeOK, Idle

LEMMA RowChanged ==
  ASSUME NEW r \in Row
  PROVE  /\ \A st \in MatchState : [r EXCEPT !.state = st] \in Row
         /\ \A e \in EntryOrNone, st \in MatchState :
              [r EXCEPT !.winner = e, !.state = st] \in Row
         /\ \A s, e \in EntryOrNone : [r EXCEPT !.entry[s] = e] \in Row
         /\ \A s, t : \A e, f \in EntryOrNone :
              [r EXCEPT !.entry[s] = e, !.entry[t] = f, !.state = "open"] \in Row
BY DEF Row, MatchState

LEMMA PointersTyped ==
  ASSUME TypeInv, NEW m \in Matches, NEW p \in {graph.winnerTo[m], graph.loserTo[m]},
         p # NoPointer
  PROVE  p.match \in Matches /\ p.match \in Match /\ p.slot \in Slot
BY DEF TypeInv, TypeOK, Fits, WellFormed, Pointers, Matches

LEMMA TaskTyped ==
  ASSUME TypeInv, NEW x \in Matches, NEW s \in Slot, NEW e \in EntryOrNone,
         NEW do \in {"record", "place", "settle", "clear", "reopen"}
  PROVE  <<Do(do, x, s, e)>> \in Seq(LiveTask)
<1>1. x \in Match
  BY DEF TypeInv, TypeOK, Fits, WellFormed, Matches
<1>2. Do(do, x, s, e) \in LiveTask
  BY <1>1 DEF Do, LiveTask, Task
<1> QED
  BY <1>2

LEMMA PointerTasks ==
  ASSUME TypeInv, NEW m \in Matches, NEW e \in EntryOrNone,
         NEW p \in {graph.winnerTo[m], graph.loserTo[m]}
  PROVE  Place(p, e) \in Seq(LiveTask) /\ Settle(p) \in Seq(LiveTask)
<1>1. CASE p = NoPointer
  BY <1>1 DEF Place, Settle
<1>2. CASE p # NoPointer
  <2>1. p.match \in Matches /\ p.slot \in Slot /\ 1 \in Slot /\ None \in EntryOrNone
    BY <1>2, PointersTyped DEF Slot, EntryOrNone
  <2> QED
    BY <1>2, <2>1, TaskTyped DEF Place, Settle
<1> QED
  BY <1>1, <1>2

(* What a result still has to write is about matches of the graph. *)
LEMMA AdvanceTyped ==
  ASSUME TypeInv, NEW m \in Matches, NEW e \in Entry, NEW l \in Entry, NEW fromWB
  PROVE  Advance(m, e, l, fromWB) \in Seq(LiveTask)
<1> DEFINE up == graph.winnerTo[m]
           down == graph.loserTo[m]
           rest == IF up # NoPointer /\ down # NoPointer /\ up.match = down.match
                   THEN <<>> ELSE Settle(down)
<1>1. e \in EntryOrNone /\ l \in EntryOrNone /\ None \in EntryOrNone /\ 1 \in Slot
  BY DEF EntryOrNone, Slot
<1>2. CASE IsGrandFinal1(m)
  <2>1. up.match \in Matches
    BY <1>2, PointersTyped DEF IsGrandFinal1
  <2> QED
    BY <1>1, <1>2, <2>1, TaskTyped DEF Advance
<1>3. CASE ~IsGrandFinal1(m)
  <2>1. /\ Place(up, e) \in Seq(LiveTask) /\ Place(down, l) \in Seq(LiveTask)
        /\ Settle(up) \in Seq(LiveTask) /\ rest \in Seq(LiveTask)
    BY <1>1, PointerTasks
  <2>2. Advance(m, e, l, fromWB) = Place(up, e) \o Place(down, l) \o Settle(up) \o rest
    BY <1>3 DEF Advance
  <2> HIDE DEF rest, up, down
  <2> QED
    BY <2>1, <2>2, ConcatProperties
<1> QED
  BY <1>2, <1>3

-----------------------------------------------------------------------------
(* One lemma per kind of write.                                            *)

(* A request changes; the graph never does. *)
LEMMA OneRequest ==
  ASSUME TypeInv, NEW w \in Worker, NEW j \in {Idle} \cup Jobs, j.busy => Bound(j),
         job' = [job EXCEPT ![w] = j], UNCHANGED graph
  PROVE  /\ job' \in [Worker -> {Idle} \cup Jobs]
         /\ \A z \in Worker : job'[z].busy => Bound(job[z])'
<1>1. \A z \in Worker : job'[z] = IF z = w THEN j ELSE job[z]
  BY DEF TypeInv, TypeOK
<1>2. Matches' = Matches /\ LiveTask' = LiveTask
  BY DEF Matches, LiveTask
<1> QED
  BY <1>1, <1>2 DEF TypeInv, TypeOK, Bound

LEMMA SaveTyped ==
  ASSUME TypeInv, NEW w \in Worker, NEW task, Working(w, task),
         NEW newRow \in Row, NEW then \in Seq(LiveTask), Save(w, newRow, then),
         UNCHANGED graph
  PROVE  /\ row' \in [graph.matches -> Row]
         /\ job' \in [Worker -> {Idle} \cup Jobs]
         /\ \A z \in Worker : job'[z].busy => Bound(job[z])'
<1> DEFINE todo == then \o Tail(job[w].todo)
           j == [job[w] EXCEPT !.todo = todo, !.copy = None]
<1>1. job[w] \in Jobs /\ Bound(job[w]) /\ job[w].todo # <<>>
  BY JobTyped DEF Working
<1>2. todo \in Seq(LiveTask)
  BY <1>1, ConcatProperties, HeadTailProperties DEF Bound
<1>3. Seq(LiveTask) \subseteq Seq(Task)
  BY DEF LiveTask
<1>4. job' = [job EXCEPT ![w] = j]
  BY <1>1 DEF Save, TypeInv, TypeOK, Jobs
<1>5. row' \in [graph.matches -> Row]
  BY DEF Save, TypeInv, TypeOK
<1> HIDE DEF todo
<1>6. j \in Jobs /\ Bound(j)
  BY <1>1, <1>2, <1>3 DEF Jobs, Bound
<1> HIDE DEF j
<1> QED
  BY <1>4, <1>5, <1>6, OneRequest

LEMMA LoadTyped ==
  ASSUME TypeInv, NEW w \in Worker, NEW m \in Matches, NEW e \in Entry, NEW override \in BOOLEAN,
         Load(w, m, e, override), UNCHANGED graph
  PROVE  /\ job' \in [Worker -> {Idle} \cup Jobs]
         /\ \A z \in Worker : job'[z].busy => Bound(job[z])'
<1> DEFINE l == IF e = row[m].entry[2] THEN row[m].entry[1] ELSE row[m].entry[2]
           j == [busy |-> TRUE, match |-> m, winner |-> e, loser |-> l,
                 winnerSeen |-> status[e], loserSeen |-> status[l],
                 stageSeen |-> stage, override |-> override,
                 todo |-> <<Do("record", m, 1, None)>>, copy |-> row[m]]
<1>1. row[m] \in Row /\ m \in Match
  BY DEF TypeInv, TypeOK, Matches, Fits, WellFormed
<1>2. l \in Entry /\ job' = [job EXCEPT ![w] = j]
  BY <1>1 DEF Load, Row, Slot, EntryOrNone
<1>3. <<Do("record", m, 1, None)>> \in Seq(LiveTask)
  BY TaskTyped DEF Slot, EntryOrNone
<1>4. <<Do("record", m, 1, None)>> \in Seq(Task) /\ <<Do("record", m, 1, None)>> # <<>>
  BY <1>3 DEF LiveTask
<1>5. status[e] \in EntryStatus /\ status[l] \in EntryStatus /\ stage \in StageState
  BY <1>2 DEF TypeInv, TypeOK
<1> HIDE DEF l
<1>6. j \in Jobs /\ Bound(j)
  BY <1>1, <1>2, <1>3, <1>4, <1>5 DEF Jobs, Bound
<1> HIDE DEF j
<1> QED
  BY <1>2, <1>6, OneRequest

LEMMA StatusesTyped ==
  ASSUME TypeInv, NEW j \in Jobs
  PROVE  Statuses(j) \in [Entry -> EntryStatus]
BY DEF TypeInv, TypeOK, Statuses, Jobs, EntryStatus

LEMMA RanksTyped == ASSUME TypeInv PROVE Ranks \in [Entry -> Nat]
<1>1. graph.field \subseteq Entry /\ IsFiniteSet(Entry)
  BY EntryAssumption DEF TypeInv, TypeOK, Fits, WellFormed
<1>2. \A S \in SUBSET graph.field : Cardinality(S) \in Nat
  BY <1>1, FS_Subset, FS_CardinalityType
<1>3. \A S : S \subseteq graph.field => 3 + Cardinality(S) \in Nat
  BY <1>2
<1> QED
  BY <1>3 DEF Ranks

LEMMA FinalizeTyped ==
  ASSUME TypeInv, FinalizeStage
  PROVE  stage' \in StageState /\ final_rank' \in [Entry -> Nat]
BY RanksTyped DEF FinalizeStage, StageState, TypeInv, TypeOK

LEMMA OpeningTyped == ASSUME TypeInv, NEW m \in Matches PROVE OpeningRow(m) \in Row
<1>1. \A x \in Matches, s \in Slot : graph.seeds[x][s] \in EntryOrNone
  <2>1. graph.field \subseteq Entry
    BY DEF TypeInv, TypeOK, Fits, WellFormed
  <2>2. \A x \in Matches, s \in Slot : graph.seeds[x][s] \in graph.field \cup {None}
    BY DEF TypeInv, TypeOK, Fits, WellFormed, Matches
  <2> QED
    BY <2>1, <2>2 DEF EntryOrNone
<1>2. \A x \in Matches : ByeWinner(x) \in EntryOrNone
  BY <1>1 DEF ByeWinner, Slot
<1> DEFINE byes(s) == {x \in Matches : IsBye(x) /\ graph.winnerTo[x] = [match |-> m, slot |-> s]}
           first(s) == CHOOSE x \in byes(s) : TRUE
           entry == [s \in Slot |->
                      IF graph.seeds[m][s] # None THEN graph.seeds[m][s]
                      ELSE IF byes(s) = {} THEN None ELSE ByeWinner(first(s))]
<1>3. \A s \in Slot : byes(s) # {} => first(s) \in Matches
  OBVIOUS
<1> HIDE DEF first
<1>4. entry \in [Slot -> EntryOrNone]
  BY <1>1, <1>2, <1>3 DEF EntryOrNone
<1>5. OpeningRow(m) =
        [entry |-> entry, winner |-> IF IsBye(m) THEN ByeWinner(m) ELSE None,
         state |-> IF IsBye(m) THEN "complete"
                   ELSE IF entry[1] # None /\ entry[2] # None THEN "open" ELSE "pending"]
  BY DEF OpeningRow, first
<1> HIDE DEF entry
<1> QED
  BY <1>2, <1>4, <1>5 DEF Row, EntryOrNone, MatchState

-----------------------------------------------------------------------------
(* The steps.                                                              *)

LEMMA Still == ASSUME TypeInv, UNCHANGED <<graph, job>>
               PROVE  \A z \in Worker : job'[z].busy => Bound(job[z])'
BY DEF TypeInv, Bound, LiveTask, Matches

LEMMA TypeInit == Init => TypeInv
<1> SUFFICES ASSUME Init PROVE TypeInv
  OBVIOUS
<1>1. Fits(graph)
  BY GraphsFit DEF Init
<1>2. BlankRow \in Row
  BY DEF BlankRow, Row, EntryOrNone, MatchState
<1> QED
  BY <1>1, <1>2, BoundAssumption
     DEF Init, TypeInv, TypeOK, StageState, EntryStatus, Idle

LEMMA WritesTyped ==
  ASSUME TypeInv, NEW w \in Worker, Continue(w)
  PROVE  TypeInv'
<1> DEFINE j == job[w]
           c == job[w].copy
           t == Head(job[w].todo)
           Kept == \A z \in Worker : job'[z].busy => Bound(job[z])'
<1>1. ASSUME NEW task, Working(w, task)
      PROVE  /\ j \in Jobs /\ Bound(j) /\ c \in Row
             /\ t \in LiveTask /\ t.match \in Matches /\ t.slot \in Slot /\ t.entry \in EntryOrNone
  <2>1. j \in Jobs /\ Bound(j) /\ j.todo # <<>> /\ c # None
    BY <1>1, JobTyped DEF Working
  <2>2. t \in LiveTask
    BY <2>1, HeadTailProperties DEF Bound
  <2> QED
    BY <2>1, <2>2 DEF Jobs, LiveTask, Task
<1>2. ASSUME NEW task, Working(w, task), NEW newRow \in Row, NEW then \in Seq(LiveTask),
             Save(w, newRow, then), UNCHANGED <<graph, stage, final_rank, overrides>>,
             status' \in [Entry -> EntryStatus]
      PROVE  TypeInv'
  BY <1>2, SaveTyped DEF TypeInv, TypeOK
<1>3. <<>> \in Seq(LiveTask) /\ status \in [Entry -> EntryStatus]
  BY DEF TypeInv, TypeOK
<1>4. CASE RecordResult(w)
  <2> DEFINE fromWB == j.winner = c.entry[1]
             newRow == [c EXCEPT !.winner = j.winner, !.state = "complete"]
             then == Advance(j.match, j.winner, j.loser, fromWB)
  <2>1. Working(w, "record") /\ Save(w, newRow, then) /\ status' = Statuses(j)
        /\ UNCHANGED <<graph, stage, final_rank, overrides>>
    BY <1>4 DEF RecordResult
  <2>2. j \in Jobs /\ Bound(j) /\ c \in Row
    BY <1>1, <2>1
  <2>3. j.winner \in Entry /\ j.loser \in Entry /\ j.match \in Matches
    BY <2>2 DEF Jobs, Bound
  <2>4. newRow \in Row
    BY <2>2, <2>3, RowChanged DEF EntryOrNone, MatchState
  <2>5. then \in Seq(LiveTask)
    BY <2>3, AdvanceTyped
  <2>6. status' \in [Entry -> EntryStatus]
    BY <2>1, <2>2, StatusesTyped
  <2> HIDE DEF newRow, then
  <2> QED
    BY <1>2, <2>1, <2>4, <2>5, <2>6
<1>5. CASE FetchRow(w)
  <2>1. j \in Jobs /\ Bound(j) /\ j.todo # <<>> /\ j.todo \in Seq(LiveTask)
    BY <1>5, JobTyped DEF FetchRow, Bound
  <2>2. t \in LiveTask /\ Tail(j.todo) \in Seq(LiveTask)
    BY <2>1, HeadTailProperties
  <2>3. row[t.match] \in Row
    BY <2>2 DEF LiveTask, TypeInv, TypeOK, Matches
  <2>4. PICK k \in {[j EXCEPT !.todo = Tail(j.todo)], [j EXCEPT !.copy = row[t.match]]} :
          job' = [job EXCEPT ![w] = k]
    BY <1>5, <2>1 DEF FetchRow, TypeInv, TypeOK, Jobs
  <2>5. Seq(LiveTask) \subseteq Seq(Task) /\ j.copy = None
    BY <1>5 DEF LiveTask, FetchRow
  <2>6. k \in Jobs /\ Bound(k)
    BY <2>1, <2>2, <2>3, <2>5 DEF Jobs, Bound
  <2>7. job' \in [Worker -> {Idle} \cup Jobs] /\ Kept
    BY <1>5, <2>4, <2>6, OneRequest DEF FetchRow
  <2> QED
    BY <1>5, <2>7 DEF FetchRow, TypeInv, TypeOK
<1>6. CASE PlaceEntry(w)
  <2> DEFINE newRow == [c EXCEPT !.entry[t.slot] = t.entry]
  <2>1. Working(w, "place") /\ Save(w, newRow, <<>>)
        /\ UNCHANGED <<graph, stage, status, final_rank, overrides>>
    BY <1>6 DEF PlaceEntry
  <2>2. newRow \in Row
    <3>1. c \in Row /\ t.entry \in EntryOrNone
      BY <1>1, <2>1
    <3> QED
      BY <3>1 DEF Row
  <2> HIDE DEF newRow
  <2> QED
    BY <1>2, <1>3, <2>1, <2>2
<1>7. CASE ClearReset(w)
  <2>1. BlankRow \in Row
    BY DEF BlankRow, Row, EntryOrNone, MatchState
  <2> QED
    BY <1>2, <1>3, <1>7, <2>1 DEF ClearReset
<1>8. CASE OpenReset(w)
  <2> DEFINE newRow == [c EXCEPT !.entry[graph.winnerTo[j.match].slot] = j.winner,
                                 !.entry[graph.loserTo[j.match].slot] = j.loser,
                                 !.state = "open"]
  <2>1. Working(w, "reopen") /\ Save(w, newRow, <<>>)
        /\ UNCHANGED <<graph, stage, status, final_rank, overrides>>
    BY <1>8 DEF OpenReset
  <2>2. newRow \in Row
    <3>1. c \in Row /\ j.winner \in EntryOrNone /\ j.loser \in EntryOrNone
      BY <1>1, <2>1 DEF Jobs, EntryOrNone
    <3> QED
      BY <3>1 DEF Row, MatchState
  <2> HIDE DEF newRow
  <2> QED
    BY <1>2, <1>3, <2>1, <2>2
<1>9. CASE SettleOpens(w) \/ SettleWaits(w)
  <2>1. Working(w, "settle") /\ UNCHANGED <<graph, stage, status, final_rank, overrides>>
    BY <1>9 DEF SettleOpens, SettleWaits
  <2>2. c \in Row
    BY <1>1, <2>1
  <2>3. \A st \in MatchState : [c EXCEPT !.state = st] \in Row
    BY <2>2, RowChanged
  <2>4. \E st \in MatchState : Save(w, [c EXCEPT !.state = st], <<>>)
    BY <1>9 DEF SettleOpens, SettleWaits, MatchState
  <2> QED
    BY <1>2, <1>3, <2>1, <2>3, <2>4
<1>10. CASE SettleWalkover(w)
  <2> DEFINE present == c.entry[3 - EmptySlot(c)]
             up == graph.winnerTo[t.match]
             newRow == [c EXCEPT !.winner = present, !.state = "complete"]
             then == Place(up, present) \o Settle(up)
  <2>1. Working(w, "settle") /\ Save(w, newRow, then)
        /\ UNCHANGED <<graph, stage, status, final_rank, overrides>>
    BY <1>10 DEF SettleWalkover
  <2>2. c \in Row /\ t.match \in Matches
    BY <1>1, <2>1
  <2>3. present \in EntryOrNone
    BY <2>2 DEF Row, EmptySlot, Slot
  <2>4. newRow \in Row
    BY <2>2, <2>3, RowChanged DEF MatchState
  <2>5. then \in Seq(LiveTask)
    BY <2>2, <2>3, PointerTasks, ConcatProperties
  <2> HIDE DEF newRow, then
  <2> QED
    BY <1>2, <1>3, <2>1, <2>4, <2>5
<1>11. CASE FinishResult(w)
  <2>1. job' \in [Worker -> {Idle} \cup Jobs] /\ Kept
    BY <1>11, OneRequest DEF FinishResult, Idle
  <2>2. stage' \in StageState /\ final_rank' \in [Entry -> Nat]
    BY <1>11, FinalizeTyped DEF FinishResult, TypeInv, TypeOK
  <2> QED
    BY <1>11, <2>1, <2>2 DEF FinishResult, TypeInv, TypeOK
<1> QED
  BY <1>4, <1>5, <1>6, <1>7, <1>8, <1>9, <1>10, <1>11 DEF Continue

LEMMA TypeStep == TypeInv /\ [Next]_vars => TypeInv'
<1> SUFFICES ASSUME TypeInv, [Next]_vars PROVE TypeInv'
  OBVIOUS
<1>1. CASE StartBracket
  <2>1. row' \in [graph.matches -> Row]
    BY <1>1, OpeningTyped DEF StartBracket, Matches
  <2> QED
    BY <1>1, <2>1, Still DEF StartBracket, TypeInv, TypeOK, StageState
<1>2. ASSUME NEW w \in Worker, NEW m \in Matches, NEW e \in Entry, ReportResult(w, m, e)
      PROVE  TypeInv'
  BY <1>2, LoadTyped DEF ReportResult, TypeInv, TypeOK
<1>3. ASSUME NEW w \in Worker, NEW m \in Matches, NEW e \in Entry, OverrideResult(w, m, e)
      PROVE  TypeInv'
  <2>1. overrides' \in 0..MaxOverrides
    BY <1>3, BoundAssumption DEF OverrideResult, TypeInv, TypeOK
  <2>2. job' \in [Worker -> {Idle} \cup Jobs] /\ \A z \in Worker : job'[z].busy => Bound(job[z])'
    BY <1>3, LoadTyped DEF OverrideResult
  <2> QED
    BY <1>3, <2>1, <2>2 DEF OverrideResult, TypeInv, TypeOK
<1>4. ASSUME NEW w \in Worker, Continue(w) PROVE TypeInv'
  BY <1>4, WritesTyped
<1>5. CASE CompleteStage
  BY <1>5, FinalizeTyped, Still DEF CompleteStage, TypeInv, TypeOK
<1>6. CASE CancelStage
  BY <1>6, Still DEF CancelStage, TypeInv, TypeOK, StageState
<1>7. CASE \E e \in graph.field : RetireEntry(e)
  BY <1>7, Still DEF RetireEntry, TypeInv, TypeOK, EntryStatus
<1>8. CASE UNCHANGED vars
  BY <1>8, Still DEF vars, TypeInv, TypeOK
<1> QED
  BY <1>1, <1>2, <1>3, <1>4, <1>5, <1>6, <1>7, <1>8 DEF Next, SomeReport

(* Every reachable state is well typed, on any graph whose pointers stay   *)
(* inside it, with any number of requests in flight and of corrections: in *)
(* particular a write never names a match the stage does not have.         *)
THEOREM TypeCorrect == Spec => []TypeOK
<1>1. TypeInv => TypeOK
  BY DEF TypeInv
<1> QED
  BY <1>1, TypeInit, TypeStep, PTL DEF Spec

-----------------------------------------------------------------------------
(* One request at a time.                                                  *)

OneAtATime == \A v, w \in Worker : v = w

Tasks(s) == {s[i] : i \in 1..Len(s)}

(* The places of a walk come before its settles. *)
Walk(s) ==
  /\ \A t \in Tasks(s) : t.do \in {"place", "settle"}
  /\ \A i, k \in 1..Len(s) : i < k /\ s[k].do = "place" => s[i].do = "place"

Single(s) == Len(s) = 1 /\ s[1].do \in {"record", "clear", "reopen"}

Ordered(s) == Walk(s) \/ Single(s)

LEMMA WalkConcat ==
  ASSUME NEW a \in Seq(LiveTask), NEW b \in Seq(LiveTask), Walk(a), Walk(b),
         (\A t \in Tasks(a) : t.do = "place") \/ (\A t \in Tasks(b) : t.do = "settle")
  PROVE  a \o b \in Seq(LiveTask) /\ Walk(a \o b) /\ Tasks(a \o b) = Tasks(a) \cup Tasks(b)
<1> DEFINE c == a \o b
<1>1. /\ c \in Seq(LiveTask) /\ Len(c) = Len(a) + Len(b)
      /\ \A i \in 1..Len(c) : c[i] = IF i <= Len(a) THEN a[i] ELSE b[i - Len(a)]
  BY ConcatProperties
<1>2. Len(a) \in Nat /\ Len(b) \in Nat
  OBVIOUS
<1> HIDE DEF c
<1>3. /\ \A i \in 1..Len(c) : i <= Len(a) => i \in 1..Len(a) /\ c[i] = a[i]
      /\ \A i \in 1..Len(c) : i > Len(a) => i - Len(a) \in 1..Len(b) /\ c[i] = b[i - Len(a)]
  BY <1>1, <1>2
<1>4. Tasks(c) = Tasks(a) \cup Tasks(b)
  <2>1. ASSUME NEW i \in 1..Len(c) PROVE c[i] \in Tasks(a) \cup Tasks(b)
    <3>1. CASE i <= Len(a)
      BY <1>3, <3>1 DEF Tasks
    <3>2. CASE i > Len(a)
      <4>1. i - Len(a) \in 1..Len(b) /\ c[i] = b[i - Len(a)]
        BY <1>3, <3>2
      <4> QED
        BY <4>1 DEF Tasks
    <3> QED
      BY <1>2, <3>1, <3>2
  <2>2. ASSUME NEW i \in 1..Len(a) PROVE a[i] \in Tasks(c)
    <3>1. i \in 1..Len(c) /\ c[i] = a[i]
      BY <1>1, <1>2
    <3> QED
      BY <3>1 DEF Tasks
  <2>3. ASSUME NEW i \in 1..Len(b) PROVE b[i] \in Tasks(c)
    <3>1. i + Len(a) \in 1..Len(c) /\ i + Len(a) > Len(a) /\ (i + Len(a)) - Len(a) = i
      BY <1>1, <1>2
    <3>2. c[i + Len(a)] = b[(i + Len(a)) - Len(a)]
      BY <1>3, <3>1
    <3> QED
      BY <3>1, <3>2 DEF Tasks
  <2> QED
    BY <2>1, <2>2, <2>3 DEF Tasks
<1>5. ASSUME NEW i \in 1..Len(c), NEW k \in 1..Len(c), i < k, c[k].do = "place"
      PROVE  c[i].do = "place"
  <2>1. CASE k <= Len(a)
    <3>1. k \in 1..Len(a) /\ i \in 1..Len(a) /\ c[k] = a[k] /\ c[i] = a[i]
      BY <1>2, <1>3, <1>5, <2>1
    <3> QED
      BY <1>5, <3>1 DEF Walk
  <2>2. CASE k > Len(a) /\ i <= Len(a)
    <3>1. k - Len(a) \in 1..Len(b) /\ i \in 1..Len(a) /\ c[k] = b[k - Len(a)] /\ c[i] = a[i]
      BY <1>3, <2>2
    <3>2. c[k] \in Tasks(b) /\ c[i] \in Tasks(a)
      BY <3>1 DEF Tasks
    <3> QED
      BY <1>5, <3>2
  <2>3. CASE i > Len(a)
    <3>1. k > Len(a) /\ i - Len(a) < k - Len(a)
      BY <1>1, <1>2, <1>5, <2>3
    <3>2. /\ k - Len(a) \in 1..Len(b) /\ i - Len(a) \in 1..Len(b)
          /\ c[k] = b[k - Len(a)] /\ c[i] = b[i - Len(a)]
      BY <1>3, <2>3, <3>1
    <3> QED
      BY <1>5, <3>1, <3>2 DEF Walk
  <2> QED
    BY <1>2, <2>1, <2>2, <2>3
<1> QED
  BY <1>1, <1>4, <1>5 DEF Walk, c

LEMMA HeadIs ==
  ASSUME NEW s \in Seq(LiveTask), s # <<>>, Ordered(s)
  PROVE  /\ Head(s) \in Tasks(s) /\ Head(s) \in LiveTask
         /\ Tail(s) \in Seq(LiveTask) /\ Walk(Tail(s))
         /\ Tasks(s) = {Head(s)} \cup Tasks(Tail(s))
         /\ Head(s).do = "settle" => \A t \in Tasks(Tail(s)) : t.do = "settle"
         /\ Head(s).do \notin {"place", "settle"} => Tail(s) = <<>>
<1> DEFINE u == Tail(s)
<1>1. /\ u \in Seq(LiveTask) /\ Len(u) = Len(s) - 1 /\ Len(s) \in Nat /\ Len(s) >= 1
      /\ \A i \in 1..Len(u) : u[i] = s[i + 1]
      /\ Head(s) = s[1]
  BY HeadTailProperties
<1> HIDE DEF u
<1>2. \A i \in 1..Len(u) : i + 1 \in 1..Len(s) /\ u[i] = s[i + 1]
  BY <1>1
<1>3. \A i \in 1..Len(s) : i = 1 \/ (i - 1 \in 1..Len(u) /\ s[i] = u[i - 1])
  BY <1>1
<1>4. Head(s) \in Tasks(s) /\ Tasks(s) = {Head(s)} \cup Tasks(u)
  <2>1. 1 \in 1..Len(s)
    BY <1>1
  <2>2. Head(s) \in Tasks(s) /\ Tasks(u) \subseteq Tasks(s)
    BY <1>1, <1>2, <2>1 DEF Tasks
  <2>3. Tasks(s) \subseteq {Head(s)} \cup Tasks(u)
    BY <1>1, <1>3 DEF Tasks
  <2> QED
    BY <2>2, <2>3
<1>5. CASE Walk(s)
  <2>1. \A i, k \in 1..Len(u) : i < k /\ u[k].do = "place" => u[i].do = "place"
    <3> SUFFICES ASSUME NEW i \in 1..Len(u), NEW k \in 1..Len(u), i < k, u[k].do = "place"
                 PROVE  u[i].do = "place"
      OBVIOUS
    <3>1. i + 1 \in 1..Len(s) /\ k + 1 \in 1..Len(s) /\ i + 1 < k + 1 /\ s[k + 1].do = "place"
      BY <1>2
    <3> QED
      BY <1>2, <1>5, <3>1 DEF Walk
  <2>2. Walk(u)
    BY <1>4, <1>5, <2>1 DEF Walk
  <2>3. ASSUME Head(s).do = "settle", NEW i \in 1..Len(u) PROVE u[i].do = "settle"
    <3>1. 1 \in 1..Len(s) /\ i + 1 \in 1..Len(s) /\ 1 < i + 1 /\ u[i] = s[i + 1]
      BY <1>1, <1>2
    <3>2. s[i + 1].do # "place" /\ s[i + 1] \in Tasks(s)
      BY <1>1, <1>5, <2>3, <3>1 DEF Walk, Tasks
    <3> QED
      BY <1>5, <3>1, <3>2 DEF Walk
  <2>4. Head(s).do \in {"place", "settle"}
    BY <1>4, <1>5 DEF Walk
  <2> QED
    BY <1>1, <1>4, <2>2, <2>3, <2>4, HeadTailProperties DEF u, Tasks
<1>6. CASE Single(s)
  <2>1. Len(u) = 0 /\ u = <<>>
    BY <1>1, <1>6 DEF Single
  <2>2. Walk(u) /\ Tasks(u) = {}
    BY <2>1 DEF Walk, Tasks
  <2>3. Head(s).do \notin {"place", "settle"}
    BY <1>1, <1>6 DEF Single
  <2> QED
    BY <1>1, <1>4, <2>1, <2>2, <2>3, HeadTailProperties DEF u
<1> QED
  BY <1>5, <1>6 DEF Ordered

(* What is written for one pointer. *)
LEMMA WritesOf ==
  ASSUME TypeInv, NEW m \in Matches, NEW e \in EntryOrNone,
         NEW p \in {graph.winnerTo[m], graph.loserTo[m]}
  PROVE  /\ Place(p, e) \in Seq(LiveTask) /\ Walk(Place(p, e))
         /\ Tasks(Place(p, e)) = IF p = NoPointer THEN {} ELSE {Do("place", p.match, p.slot, e)}
         /\ Settle(p) \in Seq(LiveTask) /\ Walk(Settle(p))
         /\ Tasks(Settle(p)) = IF p = NoPointer THEN {} ELSE {Do("settle", p.match, 1, None)}
<1>1. Place(p, e) \in Seq(LiveTask) /\ Settle(p) \in Seq(LiveTask)
  BY PointerTasks
<1>2. Tasks(<<>>) = {} /\ Walk(<<>>)
  BY DEF Tasks, Walk
<1>3. ASSUME NEW t, t.do \in {"place", "settle"} PROVE Tasks(<<t>>) = {t} /\ Walk(<<t>>)
  BY <1>3 DEF Tasks, Walk
<1>4. \A x, s, f : Do("place", x, s, f).do = "place" /\ Do("settle", x, s, f).do = "settle"
  BY DEF Do
<1>5. CASE p = NoPointer
  BY <1>1, <1>2, <1>5 DEF Place, Settle
<1>6. CASE p # NoPointer
  BY <1>1, <1>3, <1>4, <1>6 DEF Place, Settle
<1> QED
  BY <1>5, <1>6

(* What a result still has to write: places, then settles; or one write to *)
(* the reset of Grand Final 1.                                             *)
LEMMA AdvanceIs ==
  ASSUME TypeInv, NEW m \in Matches, NEW e \in Entry, NEW l \in Entry,
         NEW fromWB \in BOOLEAN
  PROVE  LET up == graph.winnerTo[m]
             down == graph.loserTo[m]
             s == Advance(m, e, l, fromWB)
         IN  /\ Ordered(s)
             /\ IsGrandFinal1(m) =>
                  Tasks(s) = {Do(IF fromWB THEN "clear" ELSE "reopen", up.match, 1, None)}
             /\ ~IsGrandFinal1(m) =>
                  /\ up # NoPointer => Do("place", up.match, up.slot, e) \in Tasks(s)
                  /\ down # NoPointer => Do("place", down.match, down.slot, l) \in Tasks(s)
                  /\ \A t \in Tasks(s) :
                       \/ up # NoPointer /\ t = Do("place", up.match, up.slot, e)
                       \/ down # NoPointer /\ t = Do("place", down.match, down.slot, l)
                       \/ up # NoPointer /\ t = Do("settle", up.match, 1, None)
                       \/ down # NoPointer /\ t = Do("settle", down.match, 1, None)
<1> DEFINE up == graph.winnerTo[m]
           down == graph.loserTo[m]
           s == Advance(m, e, l, fromWB)
           rest == IF up # NoPointer /\ down # NoPointer /\ up.match = down.match
                   THEN <<>> ELSE Settle(down)
<1>1. CASE IsGrandFinal1(m)
  <2> DEFINE t == Do(IF fromWB THEN "clear" ELSE "reopen", up.match, 1, None)
  <2>1. s = <<t>> /\ t.do \in {"clear", "reopen"}
    BY <1>1 DEF Advance, Do
  <2> HIDE DEF t
  <2>2. Tasks(s) = {t} /\ Ordered(s)
    BY <2>1 DEF Tasks, Ordered, Single
  <2> QED
    BY <1>1, <2>2 DEF t
<1>2. CASE ~IsGrandFinal1(m)
  <2> DEFINE a == Place(up, e)
             b == Place(down, l)
             c == Settle(up)
  <2>1. e \in EntryOrNone /\ l \in EntryOrNone
    BY DEF EntryOrNone
  <2>2. \A x, f, g : Do("place", x, f, g).do = "place" /\ Do("settle", x, f, g).do = "settle"
    BY DEF Do
  <2>3. /\ a \in Seq(LiveTask) /\ Walk(a) /\ \A t \in Tasks(a) : t.do = "place"
        /\ b \in Seq(LiveTask) /\ Walk(b) /\ \A t \in Tasks(b) : t.do = "place"
        /\ c \in Seq(LiveTask) /\ Walk(c) /\ \A t \in Tasks(c) : t.do = "settle"
    <3>1. /\ Tasks(a) = IF up = NoPointer THEN {} ELSE {Do("place", up.match, up.slot, e)}
          /\ a \in Seq(LiveTask) /\ Walk(a)
      BY <2>1, WritesOf
    <3>2. /\ Tasks(b) = IF down = NoPointer THEN {} ELSE {Do("place", down.match, down.slot, l)}
          /\ b \in Seq(LiveTask) /\ Walk(b)
      BY <2>1, WritesOf
    <3>3. /\ Tasks(c) = IF up = NoPointer THEN {} ELSE {Do("settle", up.match, 1, None)}
          /\ c \in Seq(LiveTask) /\ Walk(c)
      BY <2>1, WritesOf
    <3> HIDE DEF a, b, c
    <3> QED
      BY <2>2, <3>1, <3>2, <3>3
  <2>4. /\ Tasks(a) = IF up = NoPointer THEN {} ELSE {Do("place", up.match, up.slot, e)}
        /\ Tasks(b) = IF down = NoPointer THEN {} ELSE {Do("place", down.match, down.slot, l)}
        /\ Tasks(c) = IF up = NoPointer THEN {} ELSE {Do("settle", up.match, 1, None)}
    BY <2>1, WritesOf
  <2>5. /\ rest \in Seq(LiveTask) /\ Walk(rest) /\ \A t \in Tasks(rest) : t.do = "settle"
        /\ \A t \in Tasks(rest) : down # NoPointer /\ t = Do("settle", down.match, 1, None)
    <3>1. Tasks(<<>>) = {} /\ Walk(<<>>) /\ <<>> \in Seq(LiveTask)
      BY DEF Tasks, Walk
    <3>2. /\ Settle(down) \in Seq(LiveTask) /\ Walk(Settle(down))
          /\ Tasks(Settle(down)) = IF down = NoPointer THEN {} ELSE {Do("settle", down.match, 1, None)}
      BY <2>1, WritesOf
    <3> QED
      BY <2>2, <3>1, <3>2
  <2>6. s = ((a \o b) \o c) \o rest
    BY <1>2 DEF Advance
  <2> HIDE DEF a, b, c, rest, up, down, s
  <2>7. /\ a \o b \in Seq(LiveTask) /\ Walk(a \o b) /\ Tasks(a \o b) = Tasks(a) \cup Tasks(b)
    BY <2>3, WalkConcat
  <2>8. /\ (a \o b) \o c \in Seq(LiveTask) /\ Walk((a \o b) \o c)
        /\ Tasks((a \o b) \o c) = Tasks(a) \cup Tasks(b) \cup Tasks(c)
    BY <2>3, <2>7, WalkConcat
  <2>9. Walk(s) /\ Tasks(s) = Tasks(a) \cup Tasks(b) \cup Tasks(c) \cup Tasks(rest)
    BY <2>5, <2>6, <2>8, WalkConcat
  <2>10. /\ Ordered(s)
         /\ up # NoPointer => Do("place", up.match, up.slot, e) \in Tasks(s)
         /\ down # NoPointer => Do("place", down.match, down.slot, l) \in Tasks(s)
         /\ \A t \in Tasks(s) :
              \/ up # NoPointer /\ t = Do("place", up.match, up.slot, e)
              \/ down # NoPointer /\ t = Do("place", down.match, down.slot, l)
              \/ up # NoPointer /\ t = Do("settle", up.match, 1, None)
              \/ down # NoPointer /\ t = Do("settle", down.match, 1, None)
    BY <2>4, <2>5, <2>9 DEF Ordered
  <2> QED
    BY <1>2, <2>10 DEF up, down, s
<1> QED
  BY <1>1, <1>2

-----------------------------------------------------------------------------
(* What a result sends where.                                              *)

Feeds(x, p) == p # NoPointer /\ p \in {graph.winnerTo[x], graph.loserTo[x]}

At(p) == row[p.match].entry[p.slot]

Won(x) == IF Decided(x) THEN row[x].winner ELSE None
Lost(x) == IF Decided(x) /\ Contested(row[x]) THEN Loser(row[x]) ELSE None
Titled(x) == IsGrandFinal1(x) /\ Won(x) # None /\ Won(x) = row[x].entry[1]

Sent(x, p) ==
  IF Titled(x) THEN None ELSE IF p = graph.winnerTo[x] THEN Won(x) ELSE Lost(x)

(* A write that is still to fill a slot. *)
OnItsWay(t, p) ==
  t.match = p.match /\ (t.do \in {"clear", "reopen"} \/ (t.do = "place" /\ t.slot = p.slot))

Coming(p) ==
  \E w \in Worker : job[w].busy /\ \E t \in Tasks(job[w].todo) : OnItsWay(t, p)

(* Slots nobody can come to. *)
Dead == UNION {slots \in SUBSET Pointers(graph) : Closed(slots)}

-----------------------------------------------------------------------------
(* The inductive invariant.                                                *)

(* What is settled stays settled: no result goes to a complete match.  The *)
(* statuses a request loaded are current when it records, but for an entry *)
(* that was retired meanwhile.                                             *)
TaskOk(j, t) ==
  /\ t.do = "record" =>
       /\ t.match = j.match /\ Contested(row[j.match])
       /\ j.winner \in {row[j.match].entry[1], row[j.match].entry[2]}
       /\ j.loser = IF j.winner = row[j.match].entry[2] THEN row[j.match].entry[1]
                    ELSE row[j.match].entry[2]
       /\ status[j.winner] \in {j.winnerSeen, "dropped"}
       /\ status[j.loser] \in {j.loserSeen, "dropped"}
       /\ row[j.match].state = "complete" =>
            \A p \in Pointers(graph) : Feeds(j.match, p) => row[p.match].state # "complete"
  /\ t.do = "place" =>
       /\ t.entry # None /\ row[t.match].state # "complete"
       /\ \E x \in Matches, p \in Pointers(graph) :
            /\ p.match = t.match /\ p.slot = t.slot
            /\ ~IsGrandFinal1(x) /\ Feeds(x, p) /\ t.entry = Sent(x, p)
  /\ t.do = "settle" =>
       \E x \in Matches, p \in Pointers(graph) :
         p.match = t.match /\ ~IsGrandFinal1(x) /\ Feeds(x, p)
  /\ t.do \in {"clear", "reopen"} =>
       /\ IsGrandFinal1(j.match) /\ t.match = graph.winnerTo[j.match].match
       /\ row[t.match].state # "complete"
       /\ Decided(j.match) /\ Contested(row[j.match])
       /\ j.winner = row[j.match].winner /\ j.loser = Loser(row[j.match])
       /\ t.do = "clear" <=> Titled(j.match)

CopyOk(j) ==
  j.copy # None =>
    /\ j.copy = row[Head(j.todo).match]
    /\ Head(j.todo).do = "settle" => j.copy.state # "complete"

JobOk(j) == Ordered(j.todo) /\ CopyOk(j) /\ \A t \in Tasks(j.todo) : TaskOk(j, t)

(* A winner is in the match; a slot nobody can come to is empty, and only  *)
(* such a slot is empty in a match that is complete.                       *)
RowsInv ==
  /\ \A x \in Matches : Decided(x) => row[x].winner \in {row[x].entry[1], row[x].entry[2]}
  /\ \A p \in Dead : At(p) = None
  /\ \A p \in Pointers(graph) : row[p.match].state = "complete" /\ At(p) = None => p \in Dead

Delivered ==
  \A x \in Matches, p \in Pointers(graph) : Feeds(x, p) => At(p) = Sent(x, p) \/ Coming(p)

DraftInv == stage = "draft" => Quiet /\ \A m \in Matches : row[m] = BlankRow

SlotInv ==
  /\ TypeInv /\ graph \in Graphs /\ DraftInv /\ RowsInv /\ Delivered
  /\ \A w \in Worker : job[w].busy => JobOk(job[w])

-----------------------------------------------------------------------------
(* Consequences for a graph with one source per slot.                      *)

LEMMA PointerIs ==
  ASSUME TypeInv, graph \in Graphs
  PROVE  /\ NoPointer \notin Pointers(graph)
         /\ \A x \in Matches : \A p : Feeds(x, p) => p \in Pointers(graph)
         /\ \A p \in Pointers(graph) :
              p.match \in Matches /\ p.slot \in {1, 2} /\ p = [match |-> p.match, slot |-> p.slot]
         /\ \A x \in Matches, s \in {1, 2} : [match |-> x, slot |-> s] \in Pointers(graph)
<1>1. NoPointer \notin Pointers(graph)
  BY GraphsFit
<1>2. \A x \in Matches : {graph.winnerTo[x], graph.loserTo[x]} \subseteq Pointers(graph) \cup {NoPointer}
  BY DEF TypeInv, TypeOK, Fits, WellFormed, Matches
<1> QED
  BY <1>1, <1>2 DEF Feeds, Pointers, Matches, Slot

LEMMA OneFeeder ==
  ASSUME TypeInv, graph \in Graphs, NEW x \in Matches, NEW y \in Matches, NEW p,
         Feeds(x, p), Feeds(y, p)
  PROVE  x = y /\ (p = graph.winnerTo[x] <=> p = graph.winnerTo[y])
<1>1. OneSource(graph) /\ x \in graph.matches /\ y \in graph.matches
  BY GraphsFit DEF Matches
<1> QED
  BY <1>1 DEF OneSource, Feeds

LEMMA TwoPointers ==
  ASSUME TypeInv, graph \in Graphs, NEW x \in Matches, graph.winnerTo[x] # NoPointer
  PROVE  graph.winnerTo[x] # graph.loserTo[x]
<1>1. OneSource(graph) /\ x \in graph.matches
  BY GraphsFit DEF Matches
<1> QED
  BY <1>1 DEF OneSource

(* The reset is filled by Grand Final 1 alone. *)
LEMMA ResetIs ==
  ASSUME TypeInv, graph \in Graphs, NEW y \in Matches, IsGrandFinal1(y),
         NEW p \in Pointers(graph), p.match = graph.winnerTo[y].match
  PROVE  /\ p = graph.winnerTo[y] \/ p = graph.loserTo[y]
         /\ Feeds(y, p) /\ \A x \in Matches : Feeds(x, p) => x = y
<1> DEFINE u == graph.winnerTo[y]
           d == graph.loserTo[y]
<1>1. u # NoPointer /\ d # NoPointer /\ u.match = d.match /\ u # d
  BY TwoPointers DEF IsGrandFinal1
<1>2. u \in Pointers(graph) /\ d \in Pointers(graph)
  BY <1>1, PointerIs DEF Feeds
<1>3. u.slot # d.slot
  BY <1>1, <1>2, PointerIs
<1>4. p.slot = u.slot \/ p.slot = d.slot
  BY <1>2, <1>3, PointerIs
<1>5. p = u \/ p = d
  BY <1>1, <1>2, <1>4, PointerIs
<1>6. Feeds(y, p)
  BY <1>1, <1>5 DEF Feeds
<1> QED
  BY <1>5, <1>6, OneFeeder

LEMMA DeadIs ==
  ASSUME TypeInv, graph \in Graphs, NEW x \in Matches, NEW p \in Dead, Feeds(x, p)
  PROVE  /\ p = graph.winnerTo[x] => \A s \in {1, 2} : [match |-> x, slot |-> s] \in Dead
         /\ p = graph.loserTo[x] => \E s \in {1, 2} : [match |-> x, slot |-> s] \in Dead
<1>1. PICK slots \in SUBSET Pointers(graph) : Closed(slots) /\ p \in slots
  BY DEF Dead
<1>2. slots \subseteq Dead
  BY <1>1 DEF Dead
<1> DEFINE own == {[match |-> x, slot |-> s] : s \in Slot}
<1>3. /\ graph.winnerTo[x] = p => own \subseteq slots
      /\ graph.loserTo[x] = p => own \cap slots # {}
  BY <1>1 DEF Closed
<1>4. \A s \in {1, 2} : [match |-> x, slot |-> s] \in own
  BY DEF Slot
<1>5. \A q \in own : \E s \in {1, 2} : q = [match |-> x, slot |-> s]
  BY DEF Slot
<1> HIDE DEF own
<1> QED
  BY <1>2, <1>3, <1>4, <1>5

(* Nobody is sent to a dead slot, and nobody can be sent there who is in   *)
(* the match that feeds it.                                                *)
LEMMA NothingSent ==
  ASSUME TypeInv, graph \in Graphs, RowsInv, NEW x \in Matches, NEW p \in Dead, Feeds(x, p)
  PROVE  /\ Sent(x, p) = None
         /\ ~Contested(row[x])
         /\ p = graph.winnerTo[x] => row[x].entry[1] = None /\ row[x].entry[2] = None
<1>1. \A s \in {1, 2} : At([match |-> x, slot |-> s]) = row[x].entry[s]
  BY DEF At
<1>2. p = graph.winnerTo[x] => row[x].entry[1] = None /\ row[x].entry[2] = None
  BY <1>1, DeadIs DEF RowsInv
<1>3. p = graph.loserTo[x] => row[x].entry[1] = None \/ row[x].entry[2] = None
  BY <1>1, DeadIs DEF RowsInv
<1>4. ~Contested(row[x])
  BY <1>2, <1>3 DEF Contested, Feeds
<1>5. p = graph.winnerTo[x] => Won(x) = None
  BY <1>2 DEF RowsInv, Won, Decided
<1> QED
  BY <1>2, <1>4, <1>5 DEF Sent, Lost

(* A match that is not decided yet feeds matches that are not either,      *)
(* unless nobody can come from it.                                         *)
LEMMA TargetOpen ==
  ASSUME TypeInv, graph \in Graphs, RowsInv, Delivered, NEW x \in Matches, NEW p,
         Feeds(x, p), ~Coming(p), row[x].state # "complete",
         \/ p = graph.winnerTo[x] /\ (row[x].entry[1] # None \/ row[x].entry[2] # None)
         \/ Contested(row[x])
  PROVE  row[p.match].state # "complete" /\ At(p) = None
<1>1. p \in Pointers(graph)
  BY PointerIs
<1>2. Won(x) = None /\ Lost(x) = None
  BY DEF Won, Lost, Decided
<1>3. At(p) = None
  BY <1>1, <1>2 DEF Delivered, Sent
<1>4. p \notin Dead
  BY NothingSent DEF Contested
<1> QED
  BY <1>1, <1>3, <1>4 DEF RowsInv

(* Steps that complete no match and leave those that are complete alone. *)
Frozen ==
  /\ UNCHANGED graph
  /\ \A x \in Matches : /\ row'[x].state = "complete" <=> row[x].state = "complete"
                        /\ row[x].state = "complete" => row'[x] = row[x]

LEMMA FrozenIs ==
  ASSUME Frozen
  PROVE  /\ Matches' = Matches /\ Pointers(graph)' = Pointers(graph) /\ Dead' = Dead
         /\ \A x, p : Feeds(x, p)' <=> Feeds(x, p)
         /\ \A x : IsGrandFinal1(x)' <=> IsGrandFinal1(x)
         /\ \A x \in Matches : /\ Decided(x)' <=> Decided(x)
                               /\ Titled(x)' <=> Titled(x)
         /\ \A x \in Matches : \A p : Sent(x, p)' = Sent(x, p)
<1>1. graph' = graph
  BY DEF Frozen
<1>2. Matches' = Matches /\ Pointers(graph)' = Pointers(graph)
  BY <1>1 DEF Matches, Pointers
<1>3. Dead' = Dead
  BY <1>1, <1>2 DEF Dead, Closed
<1>4. \A x, p : Feeds(x, p)' <=> Feeds(x, p)
  BY <1>1 DEF Feeds
<1>5. \A x : IsGrandFinal1(x)' <=> IsGrandFinal1(x)
  BY <1>1 DEF IsGrandFinal1, Terminal
<1>6. ASSUME NEW x \in Matches
      PROVE  (Decided(x)' <=> Decided(x)) /\ Won(x)' = Won(x) /\ Lost(x)' = Lost(x)
             /\ (Titled(x)' <=> Titled(x))
  <2>1. CASE row[x].state = "complete"
    <3>1. row'[x] = row[x]
      BY <2>1 DEF Frozen
    <3> QED
      BY <1>5, <3>1 DEF Decided, Won, Lost, Contested, Loser, Titled
  <2>2. CASE row[x].state # "complete"
    <3>1. row'[x].state # "complete"
      BY <2>2 DEF Frozen
    <3> QED
      BY <1>5, <2>2, <3>1 DEF Decided, Won, Lost, Titled
  <2> QED
    BY <2>1, <2>2
<1>7. \A x \in Matches : \A p : Sent(x, p)' = Sent(x, p)
  BY <1>1, <1>6 DEF Sent
<1> QED
  BY <1>2, <1>3, <1>4, <1>5, <1>6, <1>7

-----------------------------------------------------------------------------
(* The steps of the one request.                                           *)

LEMMA Holding ==
  ASSUME SlotInv, NEW w \in Worker, job[w].busy
  PROVE  /\ job[w] \in Jobs /\ job[w].todo \in Seq(LiveTask) /\ job[w].match \in Matches
         /\ job[w].winner \in Entry /\ job[w].loser \in Entry
         /\ JobOk(job[w]) /\ stage # "draft"
<1>1. TypeInv /\ JobOk(job[w])
  BY DEF SlotInv
<1>2. job[w] \in Jobs /\ Bound(job[w])
  BY <1>1, JobTyped
<1>3. stage # "draft"
  BY DEF SlotInv, DraftInv, Quiet, Idle
<1> QED
  BY <1>1, <1>2, <1>3 DEF Bound, Jobs

LEMMA HeldRow ==
  ASSUME SlotInv, NEW w \in Worker, NEW task, Working(w, task)
  PROVE  /\ job[w].busy /\ job[w].todo # <<>> /\ Head(job[w].todo).do = task
         /\ Head(job[w].todo).match \in Matches
         /\ Head(job[w].todo).slot \in {1, 2}
         /\ job[w].copy = row[Head(job[w].todo).match] /\ job[w].copy \in Row
         /\ TaskOk(job[w], Head(job[w].todo))
         /\ task = "settle" => job[w].copy.state # "complete"
<1>1. /\ job[w].busy /\ job[w].todo # <<>> /\ Head(job[w].todo).do = task /\ job[w].copy # None
  BY DEF Working
<1>2. /\ job[w] \in Jobs /\ job[w].todo \in Seq(LiveTask) /\ Ordered(job[w].todo)
      /\ CopyOk(job[w]) /\ \A t \in Tasks(job[w].todo) : TaskOk(job[w], t)
  BY <1>1, Holding DEF JobOk
<1>3. Head(job[w].todo) \in Tasks(job[w].todo) /\ Head(job[w].todo) \in LiveTask
  BY <1>1, <1>2, HeadIs
<1> QED
  BY <1>1, <1>2, <1>3 DEF LiveTask, Task, CopyOk, Jobs, Slot

LEMMA Alone1 ==
  ASSUME SlotInv, OneAtATime, NEW w \in Worker
  PROVE  \A p : Coming(p) <=> job[w].busy /\ \E t \in Tasks(job[w].todo) : OnItsWay(t, p)
BY DEF OneAtATime, Coming

LEMMA ItsJob ==
  ASSUME SlotInv, OneAtATime, NEW w \in Worker, NEW j, job' = [job EXCEPT ![w] = j]
  PROVE  /\ \A v \in Worker : v = w /\ job'[v] = j
         /\ \A p : Coming(p)' <=> j.busy /\ \E t \in Tasks(j.todo) : OnItsWay(t, p)
<1>1. job'[w] = j
  BY DEF SlotInv, TypeInv, TypeOK
<1>2. \A v \in Worker : v = w
  BY DEF OneAtATime
<1> QED
  BY <1>1, <1>2 DEF Coming, Tasks, OnItsWay

(* Rows: a step that completes no match and sends nobody to a dead slot.   *)
LEMMA FrozenRows ==
  ASSUME SlotInv, Frozen, \A p \in Dead : At(p)' = None
  PROVE  RowsInv'
<1>1. RowsInv
  BY DEF SlotInv
<1>2. \A x \in Matches : Decided(x)' => row'[x] = row[x] /\ Decided(x)
  BY FrozenIs DEF Frozen, Decided
<1>3. \A p \in Pointers(graph) : p.match \in Matches
  BY DEF Pointers, Matches
<1>4. \A p \in Pointers(graph) :
        row'[p.match].state = "complete" => row'[p.match] = row[p.match]
  BY <1>3 DEF Frozen
<1> QED
  BY <1>1, <1>2, <1>4, FrozenIs DEF RowsInv, At

(* The tasks of a walk stay right. *)
LEMMA FrozenTasks ==
  ASSUME SlotInv, Frozen, NEW j, NEW k, NEW t, t.do \in {"place", "settle"}, TaskOk(j, t),
         t.match \in Matches
  PROVE  TaskOk(k, t)'
<1>1. row'[t.match].state = "complete" <=> row[t.match].state = "complete"
  BY DEF Frozen
<1>2. CASE t.do = "place"
  <2>1. PICK x \in Matches, p \in Pointers(graph) :
          /\ p.match = t.match /\ p.slot = t.slot
          /\ ~IsGrandFinal1(x) /\ Feeds(x, p) /\ t.entry = Sent(x, p)
    BY <1>2 DEF TaskOk
  <2>2. /\ x \in Matches' /\ p \in Pointers(graph)' /\ ~IsGrandFinal1(x)' /\ Feeds(x, p)'
        /\ t.entry = Sent(x, p)'
    BY <2>1, FrozenIs
  <2>3. t.entry # None /\ row'[t.match].state # "complete"
    BY <1>1, <1>2 DEF TaskOk
  <2> QED
    BY <1>2, <2>1, <2>2, <2>3 DEF TaskOk
<1>3. CASE t.do = "settle"
  <2>1. PICK x \in Matches, p \in Pointers(graph) :
          p.match = t.match /\ ~IsGrandFinal1(x) /\ Feeds(x, p)
    BY <1>3 DEF TaskOk
  <2>2. /\ x \in Matches' /\ p \in Pointers(graph)' /\ ~IsGrandFinal1(x)' /\ Feeds(x, p)'
    BY <2>1, FrozenIs
  <2> QED
    BY <1>3, <2>1, <2>2 DEF TaskOk
<1> QED
  BY <1>2, <1>3

(* A write that completes no match: what it leaves in the slots is what    *)
(* was sent there.                                                         *)
LEMMA UseHead ==
  ASSUME SlotInv, OneAtATime, NEW w \in Worker, NEW task, Working(w, task),
         NEW newRow \in Row, Save(w, newRow, <<>>), UNCHANGED <<graph, stage>>,
         row[Head(job[w].todo).match].state # "complete", newRow.state # "complete",
         TypeInv',
         \A x \in Matches, p \in Pointers(graph) :
           p.match = Head(job[w].todo).match /\ Feeds(x, p) =>
             \/ newRow.entry[p.slot] = Sent(x, p)
             \/ newRow.entry[p.slot] = At(p) /\ ~OnItsWay(Head(job[w].todo), p),
         \A p \in Dead : p.match = Head(job[w].todo).match => newRow.entry[p.slot] = None
  PROVE  SlotInv'
<1> DEFINE j == job[w]
           h == Head(j.todo)
           m == h.match
<1>0. PICK k : k = [j EXCEPT !.todo = Tail(j.todo), !.copy = None]
  OBVIOUS
<1>1. /\ j \in Jobs /\ j.busy /\ j.todo \in Seq(LiveTask) /\ j.todo # <<>> /\ m \in Matches
      /\ Ordered(j.todo) /\ stage # "draft" /\ \A t \in Tasks(j.todo) : TaskOk(j, t)
  BY Holding, HeldRow DEF JobOk
<1>2. /\ Tail(j.todo) \in Seq(LiveTask) /\ Walk(Tail(j.todo))
      /\ Tasks(j.todo) = {h} \cup Tasks(Tail(j.todo))
  BY <1>1, HeadIs
<1>3. job' = [job EXCEPT ![w] = k] /\ row' = [row EXCEPT ![m] = newRow]
  <2>1. <<>> \o Tail(j.todo) = Tail(j.todo)
    BY <1>2, ConcatEmptySeq
  <2> QED
    BY <1>0, <1>1, <2>1 DEF Save, SlotInv, TypeInv, TypeOK, Jobs
<1>4. k.todo = Tail(j.todo) /\ k.copy = None /\ k.busy
  BY <1>0, <1>1 DEF Jobs
<1>5. row'[m] = newRow /\ \A x \in Matches : x # m => row'[x] = row[x]
  BY <1>1, <1>3 DEF SlotInv, TypeInv, TypeOK, Matches
<1>6. Frozen
  BY <1>1, <1>5 DEF Frozen
<1>7. \A v \in Worker : job'[v].busy => JobOk(job[v])'
  <2>1. \A t \in Tasks(k.todo) : TaskOk(k, t)'
    <3>1. \A t \in Tasks(k.todo) : t \in Tasks(j.todo) /\ t.do \in {"place", "settle"}
      BY <1>2, <1>4 DEF Walk
    <3>2. \A t \in Tasks(j.todo) : t.match \in Matches
      BY <1>1 DEF Tasks, LiveTask
    <3> QED
      BY <1>1, <1>6, <3>1, <3>2, FrozenTasks
  <2>2. Ordered(k.todo)
    BY <1>2, <1>4 DEF Ordered
  <2>3. \A v \in Worker : job'[v] = k
    BY <1>3, ItsJob
  <2>4. JobOk(k)'
    BY <1>4, <2>1, <2>2 DEF JobOk, CopyOk
  <2> QED
    BY <2>3, <2>4 DEF JobOk, CopyOk, TaskOk
<1>8. \A p \in Pointers(graph) : p.match \in Matches
  BY DEF Pointers, Matches
<1>9. Delivered'
  <2> SUFFICES ASSUME NEW x \in Matches, NEW p \in Pointers(graph), Feeds(x, p)
               PROVE  At(p)' = Sent(x, p) \/ Coming(p)'
    BY <1>6, FrozenIs DEF Delivered
  <2>1. At(p) = Sent(x, p) \/ Coming(p)
    BY DEF SlotInv, Delivered
  <2>2. Coming(p) => OnItsWay(h, p) \/ Coming(p)'
    <3>1. Coming(p) => OnItsWay(h, p) \/ \E t \in Tasks(k.todo) : OnItsWay(t, p)
      BY <1>2, <1>4, Alone1
    <3>2. Coming(p)' <=> k.busy /\ \E t \in Tasks(k.todo) : OnItsWay(t, p)
      BY <1>3, ItsJob
    <3> QED
      BY <1>4, <3>1, <3>2
  <2>3. CASE p.match = m
    <3>1. At(p)' = newRow.entry[p.slot]
      BY <1>5, <2>3 DEF At
    <3>2. \/ newRow.entry[p.slot] = Sent(x, p)
          \/ newRow.entry[p.slot] = At(p) /\ ~OnItsWay(h, p)
      BY <2>3
    <3> QED
      BY <2>1, <2>2, <3>1, <3>2
  <2>4. CASE p.match # m
    <3>1. At(p)' = At(p) /\ ~OnItsWay(h, p)
      BY <1>5, <1>8, <2>4 DEF At, OnItsWay
    <3> QED
      BY <2>1, <2>2, <3>1
  <2> QED
    BY <2>3, <2>4
<1>10. RowsInv'
  <2>1. \A p \in Dead : p.match \in Matches
    BY <1>8 DEF Dead
  <2>2. \A p \in Dead : At(p)' = None
    BY <1>5, <2>1 DEF At, SlotInv, RowsInv
  <2> QED
    BY <1>6, <2>2, FrozenRows
<1> QED
  BY <1>1, <1>7, <1>9, <1>10 DEF SlotInv, DraftInv

LEMMA SlotOf ==
  ASSUME TypeInv, graph \in Graphs, NEW p \in Pointers(graph), NEW q \in Pointers(graph),
         p.match = q.match, p.slot = q.slot
  PROVE  p = q
BY PointerIs

(* An entry goes where it was sent. *)
LEMMA PlaceStep ==
  ASSUME SlotInv, OneAtATime, TypeInv', NEW w \in Worker, PlaceEntry(w)
  PROVE  SlotInv'
<1> DEFINE j == job[w]
           h == Head(j.todo)
           c == j.copy
           newRow == [c EXCEPT !.entry[h.slot] = h.entry]
<1>1. Working(w, "place") /\ Save(w, newRow, <<>>) /\ UNCHANGED <<graph, stage>>
  BY DEF PlaceEntry
<1>2. /\ h.match \in Matches /\ h.slot \in {1, 2} /\ c = row[h.match] /\ c \in Row
      /\ TaskOk(j, h) /\ h.do = "place"
  BY <1>1, HeldRow
<1>3. TypeInv /\ graph \in Graphs /\ RowsInv
  BY DEF SlotInv
<1>4. h.entry # None /\ row[h.match].state # "complete"
  BY <1>2 DEF TaskOk
<1>5. PICK x \in Matches, p \in Pointers(graph) :
        /\ p.match = h.match /\ p.slot = h.slot
        /\ ~IsGrandFinal1(x) /\ Feeds(x, p) /\ h.entry = Sent(x, p)
  BY <1>2 DEF TaskOk
<1>6. /\ \A s \in {1, 2} : newRow.entry[s] = IF s = h.slot THEN h.entry ELSE c.entry[s]
      /\ newRow.state = c.state
  BY <1>2 DEF Row, Slot
<1>7. newRow \in Row
  <2>1. h.entry \in EntryOrNone
    <3>1. j.todo \in Seq(LiveTask) /\ j.todo # <<>> /\ Ordered(j.todo)
      BY <1>1, Holding, HeldRow DEF JobOk
    <3>2. h \in LiveTask
      BY <3>1, HeadIs
    <3> QED
      BY <3>2 DEF LiveTask, Task
  <2> QED
    BY <1>2, <2>1 DEF Row
<1> HIDE DEF newRow
<1>8. ASSUME NEW y \in Matches, NEW q \in Pointers(graph), q.match = h.match, Feeds(y, q)
      PROVE  \/ newRow.entry[q.slot] = Sent(y, q)
             \/ newRow.entry[q.slot] = At(q) /\ ~OnItsWay(h, q)
  <2>1. q.slot \in {1, 2}
    BY <1>3, PointerIs
  <2>2. CASE q.slot = h.slot
    <3>1. q = p
      BY <1>3, <1>5, <1>8, <2>2, SlotOf
    <3>2. y = x
      BY <1>3, <1>5, <1>8, <3>1, OneFeeder
    <3> QED
      BY <1>5, <1>6, <2>1, <2>2, <3>1, <3>2
  <2>3. CASE q.slot # h.slot
    BY <1>2, <1>6, <1>8, <2>1, <2>3 DEF At, OnItsWay
  <2> QED
    BY <2>2, <2>3
<1>9. ASSUME NEW q \in Dead, q.match = h.match PROVE newRow.entry[q.slot] = None
  <2>1. q \in Pointers(graph) /\ q.slot \in {1, 2}
    BY <1>3, PointerIs DEF Dead
  <2>2. q.slot # h.slot
    BY <1>3, <1>4, <1>5, <1>9, <2>1, SlotOf, NothingSent
  <2>3. At(q) = None
    BY <1>3 DEF RowsInv
  <2> QED
    BY <1>2, <1>6, <1>9, <2>1, <2>2, <2>3 DEF At
<1> QED
  BY <1>1, <1>2, <1>4, <1>6, <1>7, <1>8, <1>9, UseHead

(* Grand Final 1: both slots of the reset are its own. *)
LEMMA ResetStep ==
  ASSUME SlotInv, OneAtATime, TypeInv', NEW w \in Worker, ClearReset(w) \/ OpenReset(w)
  PROVE  SlotInv'
<1> DEFINE j == job[w]
           h == Head(j.todo)
           c == j.copy
           x == j.match
           u == graph.winnerTo[x]
           d == graph.loserTo[x]
           opened == [c EXCEPT !.entry[u.slot] = j.winner, !.entry[d.slot] = j.loser,
                               !.state = "open"]
<1>1. PICK task \in {"clear", "reopen"} : Working(w, task)
  BY DEF ClearReset, OpenReset
<1>2. /\ h.match \in Matches /\ c = row[h.match] /\ c \in Row /\ TaskOk(j, h) /\ h.do = task
      /\ x \in Matches /\ j.winner \in Entry /\ j.loser \in Entry
  BY <1>1, Holding, HeldRow
<1>3. TypeInv /\ graph \in Graphs /\ RowsInv /\ UNCHANGED <<graph, stage>>
  BY DEF SlotInv, ClearReset, OpenReset
<1>4. /\ IsGrandFinal1(x) /\ h.match = u.match /\ row[h.match].state # "complete"
      /\ Decided(x) /\ Contested(row[x]) /\ j.winner = row[x].winner /\ j.loser = Loser(row[x])
      /\ task = "clear" <=> Titled(x)
  BY <1>2 DEF TaskOk
<1>5. ASSUME NEW q \in Pointers(graph), q.match = h.match
      PROVE  (q = u \/ q = d) /\ Feeds(x, q) /\ \A y \in Matches : Feeds(y, q) => y = x
  BY <1>2, <1>3, <1>4, <1>5, ResetIs
<1>6. \A q \in Dead : q.match # h.match
  <2>1. \A q \in Dead : q \in Pointers(graph)
    BY DEF Dead
  <2> QED
    BY <1>2, <1>3, <1>4, <1>5, <2>1, NothingSent
<1>7. CASE ClearReset(w)
  <2>1. Working(w, "clear") /\ Save(w, BlankRow, <<>>)
    BY <1>7 DEF ClearReset
  <2>2. BlankRow \in Row /\ BlankRow.state # "complete" /\ \A s \in {1, 2} : BlankRow.entry[s] = None
    BY DEF BlankRow, Row, EntryOrNone, MatchState, Slot
  <2>3. task = "clear"
    BY <1>1, <2>1 DEF Working
  <2>4. ASSUME NEW y \in Matches, NEW q \in Pointers(graph), q.match = h.match, Feeds(y, q)
        PROVE  BlankRow.entry[q.slot] = Sent(y, q)
    <3>1. y = x /\ q.slot \in {1, 2}
      BY <1>3, <1>5, <2>4, PointerIs
    <3> QED
      BY <1>4, <2>2, <2>3, <3>1 DEF Sent
  <2> QED
    BY <1>3, <1>4, <1>6, <2>1, <2>2, <2>4, UseHead
<1>8. CASE OpenReset(w)
  <2>1. Working(w, "reopen") /\ Save(w, opened, <<>>)
    BY <1>8 DEF OpenReset
  <2>2. u # NoPointer /\ d # NoPointer /\ u.match = d.match /\ u # d
    BY <1>2, <1>3, <1>4, TwoPointers DEF IsGrandFinal1
  <2>3. u \in Pointers(graph) /\ d \in Pointers(graph)
    BY <1>2, <1>3, <2>2, PointerIs DEF Feeds
  <2>4. u.slot # d.slot /\ u.slot \in {1, 2} /\ d.slot \in {1, 2}
    BY <1>3, <2>2, <2>3, SlotOf, PointerIs
  <2>5. /\ opened.entry[u.slot] = j.winner /\ opened.entry[d.slot] = j.loser
        /\ opened.state = "open"
    BY <1>2, <2>4 DEF Row, Slot
  <2>6. opened \in Row
    BY <1>2 DEF Row, EntryOrNone, MatchState
  <2>7. ~Titled(x)
    BY <1>1, <1>4, <2>1 DEF Working
  <2> HIDE DEF opened
  <2>8. ASSUME NEW y \in Matches, NEW q \in Pointers(graph), q.match = h.match, Feeds(y, q)
        PROVE  opened.entry[q.slot] = Sent(y, q)
    <3>1. y = x /\ (q = u \/ q = d)
      BY <1>5, <2>8
    <3>2. Won(x) = j.winner /\ Lost(x) = j.loser
      BY <1>4 DEF Won, Lost
    <3> QED
      BY <2>2, <2>5, <2>7, <3>1, <3>2 DEF Sent
  <2> QED
    BY <1>3, <1>4, <1>6, <2>1, <2>5, <2>6, <2>8, UseHead
<1> QED
  BY <1>7, <1>8

(* A match that opens, or goes on waiting, keeps its entrants. *)
LEMMA SettleStep ==
  ASSUME SlotInv, OneAtATime, TypeInv', NEW w \in Worker, SettleOpens(w) \/ SettleWaits(w)
  PROVE  SlotInv'
<1> DEFINE h == Head(job[w].todo)
           c == job[w].copy
<1>1. Working(w, "settle") /\ UNCHANGED <<graph, stage>>
  BY DEF SettleOpens, SettleWaits
<1>2. /\ h.match \in Matches /\ c = row[h.match] /\ c \in Row /\ h.do = "settle"
      /\ c.state # "complete"
  BY <1>1, HeldRow
<1>3. PICK st \in {"open", "pending"} : Save(w, [c EXCEPT !.state = st], <<>>)
  BY DEF SettleOpens, SettleWaits
<1>4. PICK newRow \in Row : newRow = [c EXCEPT !.state = st]
  BY <1>2, RowChanged DEF MatchState
<1>5. newRow.entry = c.entry /\ newRow.state # "complete"
  BY <1>2, <1>4 DEF Row
<1>6. \A q : q.match = h.match => newRow.entry[q.slot] = At(q) /\ ~OnItsWay(h, q)
  BY <1>2, <1>5 DEF At, OnItsWay
<1>7. \A q \in Dead : At(q) = None
  BY DEF SlotInv, RowsInv
<1> QED
  BY <1>1, <1>2, <1>3, <1>4, <1>5, <1>6, <1>7, UseHead

(* Steps that leave the rows alone. *)
LEMMA SameRows ==
  ASSUME SlotInv, UNCHANGED <<graph, row>>, \A e \in Entry : status'[e] \in {status[e], "dropped"}
  PROVE  /\ Frozen /\ RowsInv'
         /\ \A x, p : Feeds(x, p)' <=> Feeds(x, p)
         /\ \A x \in Matches : \A p : Sent(x, p)' = Sent(x, p)
         /\ \A p : At(p)' = At(p)
         /\ \A j \in Jobs : JobOk(j) => JobOk(j)'
<1>1. Frozen /\ \A p : At(p)' = At(p)
  BY DEF Frozen, At
<1>2. RowsInv
  BY DEF SlotInv
<1>3. RowsInv'
  BY <1>1, <1>2, FrozenRows DEF RowsInv
<1>4. /\ Matches' = Matches /\ Pointers(graph)' = Pointers(graph)
      /\ \A x, p : Feeds(x, p)' <=> Feeds(x, p)
      /\ \A x : IsGrandFinal1(x)' <=> IsGrandFinal1(x)
      /\ \A x : Decided(x)' <=> Decided(x)
      /\ \A x : Titled(x)' <=> Titled(x)
      /\ \A x, p : Sent(x, p)' = Sent(x, p)
  <2>1. /\ \A x, p : Feeds(x, p)' <=> Feeds(x, p)
        /\ \A x : IsGrandFinal1(x)' <=> IsGrandFinal1(x)
        /\ \A x : Decided(x)' <=> Decided(x)
        /\ Matches' = Matches /\ Pointers(graph)' = Pointers(graph)
    BY DEF Feeds, IsGrandFinal1, Terminal, Decided, Matches, Pointers
  <2>2. \A x : Won(x)' = Won(x) /\ Lost(x)' = Lost(x)
    BY <2>1 DEF Won, Lost, Contested, Loser
  <2>3. \A x : Titled(x)' <=> Titled(x)
    BY <2>1, <2>2 DEF Titled
  <2> QED
    BY <2>1, <2>2, <2>3 DEF Sent
<1>5. ASSUME NEW j \in Jobs, NEW t, TaskOk(j, t) PROVE TaskOk(j, t)'
  <2>1. j.winner \in Entry /\ j.loser \in Entry
    BY DEF Jobs
  <2>2. /\ status[j.winner] \in {j.winnerSeen, "dropped"} =>
             status'[j.winner] \in {j.winnerSeen, "dropped"}
        /\ status[j.loser] \in {j.loserSeen, "dropped"} =>
             status'[j.loser] \in {j.loserSeen, "dropped"}
    BY <2>1
  <2>3. CASE t.do \in {"record", "clear", "reopen"}
    BY <1>4, <1>5, <2>2, <2>3 DEF TaskOk
  <2>4. CASE t.do \in {"place", "settle"}
    BY <1>4, <1>5, <2>4 DEF TaskOk
  <2> QED
    BY <1>5, <2>3, <2>4 DEF TaskOk
<1>6. ASSUME NEW j \in Jobs, JobOk(j) PROVE JobOk(j)'
  <2>1. \A t \in Tasks(j.todo) : TaskOk(j, t)'
    BY <1>5, <1>6 DEF JobOk
  <2> QED
    BY <1>6, <2>1 DEF JobOk, CopyOk
<1> QED
  BY <1>1, <1>3, <1>4, <1>5, <1>6

(* A step that only concerns the request. *)
LEMMA OwnStep ==
  ASSUME SlotInv, OneAtATime, TypeInv', UNCHANGED <<graph, row, status>>, stage # "draft", stage' # "draft",
         NEW w \in Worker, NEW k, job' = [job EXCEPT ![w] = k],
         k.busy => JobOk(k)',
         \A p : Coming(p) => k.busy /\ \E t \in Tasks(k.todo) : OnItsWay(t, p)
  PROVE  SlotInv'
<1>1. /\ \A v \in Worker : job'[v] = k
      /\ \A p : Coming(p)' <=> k.busy /\ \E t \in Tasks(k.todo) : OnItsWay(t, p)
  BY ItsJob
<1>2. \A v \in Worker : job'[v].busy => JobOk(job[v])'
  BY <1>1 DEF JobOk, CopyOk, TaskOk
<1>3. Delivered'
  <2>1. Matches' = Matches /\ Pointers(graph)' = Pointers(graph)
    BY DEF Matches, Pointers
  <2> QED
    BY <1>1, <2>1, SameRows DEF SlotInv, Delivered
<1> QED
  BY <1>2, <1>3, SameRows DEF SlotInv, DraftInv

LEMMA FetchStep ==
  ASSUME SlotInv, OneAtATime, TypeInv', NEW w \in Worker, FetchRow(w)
  PROVE  SlotInv'
<1>0. PICK j : j = job[w]
  OBVIOUS
<1> DEFINE h == Head(j.todo)
<1>1. /\ j \in Jobs /\ j.busy /\ j.todo # <<>> /\ j.todo \in Seq(LiveTask) /\ JobOk(j)
      /\ stage # "draft" /\ UNCHANGED <<graph, row, stage, status>>
  BY <1>0, Holding DEF FetchRow
<1>2. /\ h \in Tasks(j.todo) /\ h \in LiveTask /\ Walk(Tail(j.todo))
      /\ Tasks(j.todo) = {h} \cup Tasks(Tail(j.todo))
  BY <1>1, HeadIs DEF JobOk
<1>3. CASE h.do = "settle" /\ row[h.match].state = "complete"
  <2>1. PICK k : k = [j EXCEPT !.todo = Tail(j.todo)]
    OBVIOUS
  <2>2. k.todo = Tail(j.todo) /\ k.busy /\ k.copy = None
    BY <1>0, <1>1, <2>1 DEF Jobs, FetchRow
  <2>3. job' = [job EXCEPT ![w] = k]
    BY <1>0, <1>1, <1>3, <2>1 DEF FetchRow, SlotInv, TypeInv, TypeOK, Jobs
  <2>4. \A t \in Tasks(k.todo) : TaskOk(k, t)
    <3>1. \A t \in Tasks(k.todo) : TaskOk(j, t) /\ t.do \in {"place", "settle"}
      BY <1>1, <1>2, <2>2 DEF JobOk, Walk
    <3> QED
      BY <3>1 DEF TaskOk
  <2>5. JobOk(k)
    BY <1>2, <2>2, <2>4 DEF JobOk, Ordered, CopyOk
  <2>6. \A p : Coming(p) => \E t \in Tasks(k.todo) : OnItsWay(t, p)
    <3>1. \A p : ~OnItsWay(h, p)
      BY <1>3 DEF OnItsWay
    <3> QED
      BY <1>0, <1>2, <2>2, <3>1, Alone1
  <2>7. JobOk(k)'
    <3>1. k \in Jobs
      BY <2>2, <2>3 DEF TypeInv, TypeOK, SlotInv, Idle
    <3> QED
      BY <1>1, <2>5, <3>1, SameRows
  <2> QED
    BY <1>1, <2>2, <2>3, <2>6, <2>7, OwnStep
<1>4. CASE ~(h.do = "settle" /\ row[h.match].state = "complete")
  <2>1. PICK k : k = [j EXCEPT !.copy = row[h.match]]
    OBVIOUS
  <2>2. /\ k.todo = j.todo /\ k.busy /\ k.copy = row[h.match] /\ k.match = j.match
        /\ k.winner = j.winner /\ k.loser = j.loser
        /\ k.winnerSeen = j.winnerSeen /\ k.loserSeen = j.loserSeen
    BY <1>1, <2>1 DEF Jobs
  <2>3. job' = [job EXCEPT ![w] = k]
    BY <1>0, <1>1, <1>4, <2>1 DEF FetchRow, SlotInv, TypeInv, TypeOK, Jobs
  <2>4. \A t \in Tasks(k.todo) : TaskOk(k, t)
    BY <1>1, <2>2 DEF JobOk, TaskOk
  <2>5. JobOk(k)
    BY <1>1, <1>4, <2>2, <2>4 DEF JobOk, CopyOk
  <2>6. \A p : Coming(p) => \E t \in Tasks(k.todo) : OnItsWay(t, p)
    BY <1>0, <2>2, Alone1
  <2>7. JobOk(k)'
    <3>1. k \in Jobs
      BY <2>2, <2>3 DEF TypeInv, TypeOK, SlotInv, Idle
    <3> QED
      BY <1>1, <2>5, <3>1, SameRows
  <2> QED
    BY <1>1, <2>2, <2>3, <2>6, <2>7, OwnStep
<1> QED
  BY <1>3, <1>4

LEMMA FinishStep ==
  ASSUME SlotInv, OneAtATime, TypeInv', NEW w \in Worker, FinishResult(w)
  PROVE  SlotInv'
<1>1. stage # "draft" /\ UNCHANGED <<graph, row, status>> /\ job' = [job EXCEPT ![w] = Idle]
  BY Holding DEF FinishResult
<1>2. stage' # "draft"
  BY <1>1 DEF FinishResult, FinalizeStage
<1>3. \A p : ~Coming(p)
  BY Alone1 DEF FinishResult, Tasks
<1>4. ~Idle.busy
  BY DEF Idle
<1>5. PICK k : k = Idle
  OBVIOUS
<1> QED
  BY <1>1, <1>2, <1>3, <1>4, <1>5, OwnStep

(* A request begins with its match as it is. *)
LEMMA LoadStep ==
  ASSUME SlotInv, OneAtATime, TypeInv', NEW w \in Worker, NEW m \in Matches, NEW e \in Entry,
         ReportResult(w, m, e) \/ OverrideResult(w, m, e)
  PROVE  SlotInv'
<1>0. PICK override \in BOOLEAN : Load(w, m, e, override)
  BY DEF ReportResult, OverrideResult
<1> DEFINE l == IF e = row[m].entry[2] THEN row[m].entry[1] ELSE row[m].entry[2]
           r == Do("record", m, 1, None)
<1>1. PICK k : k = [busy |-> TRUE, match |-> m, winner |-> e, loser |-> l,
                    winnerSeen |-> status[e], loserSeen |-> status[l],
                    stageSeen |-> stage, override |-> override,
                    todo |-> <<r>>, copy |-> row[m]]
  OBVIOUS
<1>2. /\ job[w] = Idle /\ job' = [job EXCEPT ![w] = k] /\ UNCHANGED <<graph, row, stage, status>>
      /\ l # None /\ e # None /\ e \in {row[m].entry[1], row[m].entry[2]}
  BY <1>0, <1>1 DEF Load, ReportResult, OverrideResult
<1>3. /\ k.busy /\ k.match = m /\ k.winner = e /\ k.loser = l /\ k.todo = <<r>> /\ k.copy = row[m]
  BY <1>1
<1>4. stage # "draft"
  <2>1. CASE ReportResult(w, m, e)
    BY <2>1 DEF ReportResult
  <2>2. CASE OverrideResult(w, m, e)
    BY <2>2 DEF OverrideResult, SlotInv, DraftInv, BlankRow
  <2> QED
    BY <2>1, <2>2
<1>5. row[m].state = "complete" =>
        \A p \in Pointers(graph) : Feeds(m, p) => row[p.match].state # "complete"
  BY DEF ReportResult, OverrideResult, Feeds
<1>6. r.do = "record" /\ r.match = m
  BY DEF Do
<1> HIDE DEF r
<1>7. Tasks(k.todo) = {r} /\ Head(k.todo) = r /\ Ordered(k.todo)
  BY <1>3, <1>6 DEF Tasks, Ordered, Single
<1>8. TaskOk(k, r)
  <2>1. k.winnerSeen = status[k.winner] /\ k.loserSeen = status[k.loser]
    BY <1>1
  <2> QED
    BY <1>2, <1>3, <1>5, <1>6, <2>1 DEF TaskOk, Contested
<1>9. JobOk(k)
  BY <1>3, <1>6, <1>7, <1>8 DEF JobOk, CopyOk
<1>10. JobOk(k)'
  <2>1. k \in Jobs
    BY <1>2, <1>3 DEF TypeInv, TypeOK, SlotInv, Idle
  <2> QED
    BY <1>2, <1>9, <2>1, SameRows
<1>11. \A p : ~Coming(p)
  BY <1>2, Alone1 DEF Idle
<1> QED
  BY <1>2, <1>4, <1>10, <1>11, OwnStep

(* The staff operations do not touch rows or requests. *)
LEMMA StillStep ==
  ASSUME SlotInv, TypeInv', UNCHANGED <<graph, row, job>>, stage' = "draft" => stage = "draft",
         \A e \in Entry : status'[e] \in {status[e], "dropped"}
  PROVE  SlotInv'
<1>1. Delivered'
  <2>1. Matches' = Matches /\ Pointers(graph)' = Pointers(graph) /\ \A p : Coming(p)' <=> Coming(p)
    BY DEF Matches, Pointers, Coming
  <2> QED
    BY <2>1, SameRows DEF SlotInv, Delivered
<1>2. \A v \in Worker : job'[v].busy => JobOk(job[v])'
  <2> SUFFICES ASSUME NEW v \in Worker, job[v].busy PROVE JobOk(job[v])'
    OBVIOUS
  <2>1. PICK j : j = job[v]
    OBVIOUS
  <2>2. JobOk(j)'
    BY <2>1, Holding, SameRows DEF SlotInv
  <2> QED
    BY <2>1, <2>2 DEF JobOk, CopyOk, TaskOk
<1>3. DraftInv'
  BY DEF SlotInv, DraftInv, Quiet, Matches
<1> QED
  BY <1>1, <1>2, <1>3, SameRows DEF SlotInv

(* A result is recorded: both entrants are there, no other write is to be  *)
(* made, and the matches it leads to are not complete.                     *)
LEMMA RecordIs ==
  ASSUME SlotInv, OneAtATime, NEW w \in Worker, RecordResult(w)
  PROVE  LET j == job[w]
             m == j.match
         IN  /\ j.busy /\ Head(j.todo).do = "record" /\ Tail(j.todo) = <<>> /\ \A p : ~Coming(p)
             /\ Head(j.todo).match = m /\ j.copy = row[m] /\ UNCHANGED <<graph, stage>>
             /\ m \in Matches /\ j.winner \in Entry /\ j.loser \in Entry /\ stage # "draft"
             /\ row[m] \in Row /\ Contested(row[m])
             /\ j.winner \in {row[m].entry[1], row[m].entry[2]}
             /\ j.loser = IF j.winner = row[m].entry[2] THEN row[m].entry[1] ELSE row[m].entry[2]
             /\ row'[m].entry = row[m].entry /\ row'[m].winner = j.winner
             /\ row'[m].state = "complete"
             /\ \A x \in Matches : x # m => row'[x] = row[x]
             /\ \A p \in Pointers(graph) : At(p)' = At(p)
             /\ \A p \in Pointers(graph) :
                  Feeds(m, p) => row[p.match].state # "complete" /\ row'[p.match].state # "complete"
<1>0. PICK j : j = job[w]
  OBVIOUS
<1> DEFINE h == Head(j.todo)
           m == j.match
<1>1. PICK newRow : newRow = [j.copy EXCEPT !.winner = j.winner, !.state = "complete"]
  OBVIOUS
<1>2. Working(w, "record") /\ UNCHANGED <<graph, stage>>
  BY DEF RecordResult
<1>3. row' = [row EXCEPT ![h.match] = newRow]
  BY <1>0, <1>1 DEF RecordResult, Save
<1>4. /\ j \in Jobs /\ j.busy /\ j.todo # <<>> /\ j.todo \in Seq(LiveTask) /\ Ordered(j.todo)
      /\ m \in Matches /\ j.winner \in Entry /\ j.loser \in Entry /\ stage # "draft"
      /\ h.do = "record" /\ j.copy = row[h.match] /\ j.copy \in Row /\ TaskOk(j, h)
  BY <1>0, <1>2, Holding, HeldRow DEF JobOk
<1>5. /\ h.match = m /\ Contested(row[m])
      /\ j.winner \in {row[m].entry[1], row[m].entry[2]}
      /\ j.loser = IF j.winner = row[m].entry[2] THEN row[m].entry[1] ELSE row[m].entry[2]
      /\ row[m].state = "complete" =>
           \A p \in Pointers(graph) : Feeds(m, p) => row[p.match].state # "complete"
  BY <1>4 DEF TaskOk
<1>6. TypeInv /\ graph \in Graphs /\ RowsInv /\ Delivered
  BY DEF SlotInv
<1>7. Tail(j.todo) = <<>> /\ Tasks(j.todo) = {h}
  <2>1. Tail(j.todo) = <<>> /\ Tasks(j.todo) = {h} \cup Tasks(Tail(j.todo))
    BY <1>4, HeadIs
  <2>2. Tasks(<<>>) = {}
    BY DEF Tasks
  <2> QED
    BY <2>1, <2>2
<1>8. \A p : ~Coming(p)
  BY <1>0, <1>4, <1>7, Alone1 DEF OnItsWay
<1>9. /\ newRow.entry = row[m].entry /\ newRow.winner = j.winner /\ newRow.state = "complete"
  BY <1>1, <1>4, <1>5 DEF Row
<1>10. row'[m] = newRow /\ \A x \in Matches : x # m => row'[x] = row[x]
  BY <1>3, <1>4, <1>5 DEF SlotInv, TypeInv, TypeOK, Matches
<1>11. \A p \in Pointers(graph) : p.match \in Matches /\ p.slot \in {1, 2}
  BY <1>6, PointerIs
<1>12. \A p \in Pointers(graph) : At(p)' = At(p)
  BY <1>9, <1>10, <1>11 DEF At
<1>13. \A p \in Pointers(graph) : Feeds(m, p) => row[p.match].state # "complete" /\ row'[p.match].state # "complete"
  <2> SUFFICES ASSUME NEW p \in Pointers(graph), Feeds(m, p)
               PROVE  row[p.match].state # "complete" /\ row'[p.match].state # "complete"
    OBVIOUS
  <2>1. CASE row[m].state = "complete"
    <3>1. row[p.match].state # "complete" /\ p.match # m
      BY <1>5, <2>1
    <3> QED
      BY <1>10, <1>11, <3>1
  <2>2. CASE row[m].state # "complete"
    <3>1. row[p.match].state # "complete" /\ At(p) = None
      BY <1>4, <1>5, <1>6, <1>8, <2>2, TargetOpen
    <3>2. p.match # m
      BY <1>5, <1>11, <3>1 DEF At, Contested
    <3> QED
      BY <1>10, <1>11, <3>1, <3>2
  <2> QED
    BY <2>1, <2>2
<1> QED
  BY <1>0, <1>2, <1>4, <1>5, <1>7, <1>8, <1>9, <1>10, <1>12, <1>13

(* What a recorded result says. *)
LEMMA Recorded ==
  ASSUME NEW m \in Matches, NEW e \in Entry, NEW l \in Entry, UNCHANGED graph,
         Contested(row[m]), e \in {row[m].entry[1], row[m].entry[2]},
         l = IF e = row[m].entry[2] THEN row[m].entry[1] ELSE row[m].entry[2],
         row'[m].entry = row[m].entry, row'[m].winner = e, row'[m].state = "complete"
  PROVE  /\ Decided(m)' /\ Contested(row[m])' /\ Loser(row[m])' = l
         /\ Won(m)' = e /\ Lost(m)' = l
         /\ Titled(m)' <=> IsGrandFinal1(m) /\ e = row[m].entry[1]
<1>1. None \notin Entry
  BY EntryAssumption
<1>2. Decided(m)' /\ Contested(row[m])' /\ Loser(row[m])' = l
  BY <1>1 DEF Decided, Contested, Loser
<1>3. Won(m)' = e /\ Lost(m)' = l
  BY <1>2 DEF Won, Lost
<1>4. IsGrandFinal1(m)' <=> IsGrandFinal1(m)
  BY DEF IsGrandFinal1, Terminal
<1> QED
  BY <1>1, <1>2, <1>3, <1>4 DEF Titled

(* A result is recorded: everything it sends is on its way. *)
LEMMA RecordStep ==
  ASSUME SlotInv, OneAtATime, TypeInv', NEW w \in Worker, RecordResult(w)
  PROVE  SlotInv'
<1>0. PICK j : j = job[w]
  OBVIOUS
<1> DEFINE h == Head(j.todo)
           m == j.match
<1>a. PICK u, d : u = graph.winnerTo[m] /\ d = graph.loserTo[m]
  OBVIOUS
<1>b. PICK fromWB \in BOOLEAN : fromWB = (j.winner = j.copy.entry[1])
  OBVIOUS
<1>1. PICK newRow : newRow = [j.copy EXCEPT !.winner = j.winner, !.state = "complete"]
  OBVIOUS
<1>2. PICK then : then = Advance(m, j.winner, j.loser, fromWB)
  OBVIOUS
<1>3. Working(w, "record") /\ Save(w, newRow, then) /\ UNCHANGED <<graph, stage>>
  BY <1>0, <1>1, <1>2, <1>b DEF RecordResult
<1>4. /\ j \in Jobs /\ m \in Matches /\ j.winner \in Entry /\ j.loser \in Entry
      /\ stage # "draft" /\ h.match = m /\ j.copy = row[m]
      /\ Tail(j.todo) = <<>> /\ \A p : ~Coming(p)
  BY <1>0, Holding, RecordIs
<1>5. /\ Contested(row[m])
      /\ j.winner \in {row[m].entry[1], row[m].entry[2]}
      /\ j.loser = IF j.winner = row[m].entry[2] THEN row[m].entry[1] ELSE row[m].entry[2]
  BY <1>0, RecordIs
<1>6. TypeInv /\ graph \in Graphs /\ RowsInv /\ Delivered
  BY DEF SlotInv
<1>9. /\ row'[m].entry = row[m].entry /\ row'[m].winner = j.winner /\ row'[m].state = "complete"
      /\ \A x \in Matches : x # m => row'[x] = row[x]
  BY <1>0, RecordIs
<1>10. \A p \in Pointers(graph) : At(p)' = At(p)
  BY <1>0, RecordIs
<1>19. \A p \in Pointers(graph) : Feeds(m, p) => row'[p.match].state # "complete"
  BY <1>0, RecordIs
<1>11. PICK k : k = [j EXCEPT !.todo = then, !.copy = None]
  OBVIOUS
<1>12. then \in Seq(LiveTask)
  BY <1>2, <1>4, <1>6, AdvanceTyped
<1>13. job' = [job EXCEPT ![w] = k]
  <2>1. then \o Tail(j.todo) = then
    BY <1>4, <1>12, ConcatEmptySeq
  <2> QED
    BY <1>0, <1>3, <1>11, <2>1 DEF Save, SlotInv, TypeInv, TypeOK, Jobs
<1>14. /\ k.todo = then /\ k.copy = None /\ k.busy /\ k.match = m
       /\ k.winner = j.winner /\ k.loser = j.loser
  BY <1>4, <1>11 DEF Jobs
<1>15. /\ Matches' = Matches /\ Pointers(graph)' = Pointers(graph) /\ Dead' = Dead
       /\ \A x, p : Feeds(x, p)' <=> Feeds(x, p)
       /\ \A x : IsGrandFinal1(x)' <=> IsGrandFinal1(x)
  <2>1. Matches' = Matches /\ Pointers(graph)' = Pointers(graph)
    BY <1>3 DEF Matches, Pointers
  <2> QED
    BY <1>3, <2>1 DEF Dead, Closed, Feeds, IsGrandFinal1, Terminal
<1>16. \A p \in Pointers(graph) : p.match \in Matches /\ p.slot \in {1, 2}
  BY <1>6, PointerIs
<1>18. /\ None \notin Entry /\ Decided(m)' /\ Contested(row[m])' /\ Won(m)' = j.winner
       /\ Loser(row[m])' = j.loser /\ Lost(m)' = j.loser
       /\ Titled(m)' <=> IsGrandFinal1(m) /\ fromWB
  BY <1>3, <1>4, <1>5, <1>9, <1>b, Recorded, EntryAssumption
<1>20. /\ Ordered(then)
       /\ IsGrandFinal1(m) =>
            Tasks(then) = {Do(IF fromWB THEN "clear" ELSE "reopen", u.match, 1, None)}
       /\ ~IsGrandFinal1(m) =>
            /\ u # NoPointer => Do("place", u.match, u.slot, j.winner) \in Tasks(then)
            /\ d # NoPointer => Do("place", d.match, d.slot, j.loser) \in Tasks(then)
            /\ \A t \in Tasks(then) :
                 \/ u # NoPointer /\ t = Do("place", u.match, u.slot, j.winner)
                 \/ d # NoPointer /\ t = Do("place", d.match, d.slot, j.loser)
                 \/ u # NoPointer /\ t = Do("settle", u.match, 1, None)
                 \/ d # NoPointer /\ t = Do("settle", d.match, 1, None)
  BY <1>2, <1>4, <1>6, <1>a, AdvanceIs
<1>21. /\ u # NoPointer => u \in Pointers(graph) /\ Feeds(m, u)
       /\ d # NoPointer => d \in Pointers(graph) /\ Feeds(m, d) /\ d # u
  BY <1>4, <1>6, <1>a, PointerIs, TwoPointers DEF Feeds
<1>22. ASSUME NEW t \in Tasks(then) PROVE TaskOk(k, t)'
  <2>1. CASE IsGrandFinal1(m)
    <3>1. t.do = (IF fromWB THEN "clear" ELSE "reopen") /\ t.match = u.match
      BY <1>20, <2>1 DEF Do
    <3>2. u # NoPointer
      BY <1>a, <2>1 DEF IsGrandFinal1
    <3>3. row'[t.match].state # "complete"
      BY <1>19, <1>21, <3>1, <3>2
    <3>4. t.do = "clear" <=> Titled(m)'
      BY <1>18, <2>1, <3>1
    <3>5. j.winner = row'[m].winner /\ graph'.winnerTo[m].match = u.match
      BY <1>3, <1>9, <1>a
    <3>6. t.do \in {"clear", "reopen"}
      BY <3>1
    <3> QED
      BY <1>14, <1>15, <1>18, <2>1, <3>1, <3>3, <3>4, <3>5, <3>6 DEF TaskOk
  <2>2. CASE ~IsGrandFinal1(m)
    <3>1. ASSUME NEW p \in Pointers(graph), Feeds(m, p), NEW e,
                 t = Do("place", p.match, p.slot, e), e = Sent(m, p)', e # None
          PROVE  TaskOk(k, t)'
      <4>1. t.do = "place" /\ t.match = p.match /\ t.slot = p.slot /\ t.entry = e
        BY <3>1 DEF Do
      <4>2. row'[t.match].state # "complete"
        BY <1>19, <3>1, <4>1
      <4>3. m \in Matches' /\ p \in Pointers(graph)' /\ ~IsGrandFinal1(m)' /\ Feeds(m, p)'
        BY <1>4, <1>15, <2>2, <3>1
      <4> QED
        BY <3>1, <4>1, <4>2, <4>3 DEF TaskOk
    <3>2. ASSUME NEW p \in Pointers(graph), Feeds(m, p), t = Do("settle", p.match, 1, None)
          PROVE  TaskOk(k, t)'
      <4>1. t.do = "settle" /\ t.match = p.match
        BY <3>2 DEF Do
      <4>2. m \in Matches' /\ p \in Pointers(graph)' /\ ~IsGrandFinal1(m)' /\ Feeds(m, p)'
        BY <1>4, <1>15, <2>2, <3>2
      <4> QED
        BY <4>1, <4>2 DEF TaskOk
    <3>3. ~Titled(m)'
      BY <1>18, <2>2
    <3>4. Sent(m, u)' = j.winner /\ (d # u => Sent(m, d)' = j.loser)
      BY <1>3, <1>18, <1>a, <3>3 DEF Sent
    <3> QED
      BY <1>4, <1>18, <1>20, <1>21, <2>2, <3>1, <3>2, <3>4
  <2> QED
    BY <2>1, <2>2
<1>23. \A v \in Worker : job'[v].busy => JobOk(job[v])'
  <2>1. JobOk(k)'
    BY <1>14, <1>20, <1>22 DEF JobOk, CopyOk
  <2>2. \A v \in Worker : job'[v] = k
    BY <1>13, ItsJob
  <2> QED
    BY <2>1, <2>2 DEF JobOk, CopyOk, TaskOk
<1>24. ASSUME NEW p \in Pointers(graph), Feeds(m, p) PROVE Coming(p)'
  <2>1. \E t \in Tasks(then) : OnItsWay(t, p)
    <3>1. p = u \/ p = d
      BY <1>24, <1>a DEF Feeds
    <3>2. CASE IsGrandFinal1(m)
      <4>1. u.match = d.match
        BY <1>a, <3>2 DEF IsGrandFinal1
      <4>2. PICK do \in {"clear", "reopen"} : Do(do, u.match, 1, None) \in Tasks(then)
        BY <1>20, <3>2
      <4>3. OnItsWay(Do(do, u.match, 1, None), p)
        BY <3>1, <4>1 DEF OnItsWay, Do
      <4> QED
        BY <4>2, <4>3
    <3>3. CASE ~IsGrandFinal1(m)
      <4>1. p # NoPointer
        BY <1>24 DEF Feeds
      <4> QED
        BY <1>20, <3>1, <3>3, <4>1 DEF OnItsWay, Do
    <3> QED
      BY <3>2, <3>3
  <2> QED
    BY <1>13, <1>14, <2>1, ItsJob
<1>25. Delivered'
  <2> SUFFICES ASSUME NEW x \in Matches, NEW p \in Pointers(graph), Feeds(x, p)
               PROVE  At(p)' = Sent(x, p)' \/ Coming(p)'
    BY <1>15 DEF Delivered
  <2>1. CASE x = m
    BY <1>24, <2>1
  <2>2. CASE x # m
    <3>1. Sent(x, p)' = Sent(x, p)
      <4>1. row'[x] = row[x]
        BY <1>9, <2>2
      <4> QED
        BY <1>3, <1>15, <4>1 DEF Sent, Titled, Won, Lost, Decided, Contested, Loser
    <3> QED
      BY <1>6, <1>4, <1>10, <3>1 DEF Delivered
  <2> QED
    BY <2>1, <2>2
<1>26. RowsInv'
  <2>1. ASSUME NEW x \in Matches, Decided(x)'
        PROVE  row'[x].winner \in {row'[x].entry[1], row'[x].entry[2]}
    <3>1. CASE x = m
      BY <1>5, <1>9, <3>1
    <3>2. CASE x # m
      BY <1>6, <1>9, <2>1, <3>2 DEF RowsInv, Decided
    <3> QED
      BY <3>1, <3>2
  <2>2. \A p \in Dead : p \in Pointers(graph)
    BY DEF Dead
  <2>3. \A p \in Dead : At(p)' = None
    BY <1>6, <1>10, <2>2 DEF RowsInv
  <2>4. ASSUME NEW p \in Pointers(graph), row'[p.match].state = "complete", At(p)' = None
        PROVE  p \in Dead
    <3>1. At(p) = None
      BY <1>10, <2>4
    <3>2. p.match # m
      BY <1>5, <1>16, <3>1 DEF At, Contested
    <3> QED
      BY <1>6, <1>9, <1>16, <2>4, <3>1, <3>2 DEF RowsInv
  <2> QED
    BY <1>15, <2>1, <2>3, <2>4 DEF RowsInv
<1> QED
  BY <1>3, <1>4, <1>6, <1>23, <1>25, <1>26 DEF SlotInv, DraftInv

(* A walkover is given where nobody can come to the other slot, with no    *)
(* other write but settles to be made; the match it leads to is not        *)
(* complete.                                                               *)
LEMMA WalkoverIs ==
  ASSUME SlotInv, OneAtATime, RefusedIsDead, NEW w \in Worker, SettleWalkover(w)
  PROVE  LET j == job[w]
             m == Head(j.todo).match
             empty == [match |-> m, slot |-> EmptySlot(row[m])]
             present == row[m].entry[3 - EmptySlot(row[m])]
         IN  /\ j.busy /\ j.todo # <<>> /\ j.copy = row[m] /\ \A p : ~Coming(p)
             /\ UNCHANGED <<graph, stage, status>> /\ stage # "draft"
             /\ m \in Matches /\ row[m] \in Row /\ row[m].state # "complete"
             /\ present \in Entry /\ ~Contested(row[m])
             /\ present \in {row[m].entry[1], row[m].entry[2]}
             /\ \A s \in {1, 2} : row[m].entry[s] = None => s = EmptySlot(row[m])
             /\ row[m].entry[1] # None \/ row[m].entry[2] # None
             /\ empty \in Dead /\ ~IsGrandFinal1(m) /\ ~Terminal(m)
             /\ row'[m].entry = row[m].entry /\ row'[m].winner = present
             /\ row'[m].state = "complete"
             /\ \A x \in Matches : x # m => row'[x] = row[x]
             /\ \A p \in Pointers(graph) : At(p)' = At(p)
             /\ graph.winnerTo[m] # NoPointer =>
                  /\ row[graph.winnerTo[m].match].state # "complete"
                  /\ row'[graph.winnerTo[m].match].state # "complete"
<1>0. PICK j : j = job[w]
  OBVIOUS
<1> DEFINE h == Head(j.todo)
<1>a. PICK m : m = h.match
  OBVIOUS
<1>b. PICK u : u = graph.winnerTo[m]
  OBVIOUS
<1>c. PICK present : present = j.copy.entry[3 - EmptySlot(j.copy)]
  OBVIOUS
<1>1. PICK newRow : newRow = [j.copy EXCEPT !.winner = present, !.state = "complete"]
  OBVIOUS
<1>2. row' = [row EXCEPT ![m] = newRow]
  BY <1>0, <1>1, <1>a, <1>b, <1>c DEF SettleWalkover, Save
<1>3. /\ Working(w, "settle") /\ UNCHANGED <<graph, stage, status>>
      /\ Alone(j.copy) /\ ~SlotCanFill([match |-> m, slot |-> EmptySlot(j.copy)])
  BY <1>0, <1>a DEF SettleWalkover
<1>4. /\ j \in Jobs /\ j.busy /\ j.todo # <<>> /\ j.todo \in Seq(LiveTask) /\ Ordered(j.todo)
      /\ m \in Matches /\ stage # "draft" /\ h.do = "settle"
      /\ j.copy = row[m] /\ row[m] \in Row /\ TaskOk(j, h) /\ row[m].state # "complete"
      /\ \A t \in Tasks(j.todo) : TaskOk(j, t)
  BY <1>0, <1>3, <1>a, Holding, HeldRow DEF JobOk
<1>5. TypeInv /\ graph \in Graphs /\ RowsInv /\ Delivered
  BY DEF SlotInv
<1>6. /\ Tail(j.todo) \in Seq(LiveTask) /\ Walk(Tail(j.todo))
      /\ Tasks(j.todo) = {h} \cup Tasks(Tail(j.todo))
      /\ \A t \in Tasks(Tail(j.todo)) : t.do = "settle"
  BY <1>4, HeadIs
<1>7. \A p : ~Coming(p)
  BY <1>0, <1>4, <1>6, Alone1 DEF OnItsWay
<1>8. PICK x \in Matches, q \in Pointers(graph) : q.match = m /\ ~IsGrandFinal1(x) /\ Feeds(x, q)
  BY <1>4, <1>a DEF TaskOk
<1> DEFINE empty == [match |-> m, slot |-> EmptySlot(row[m])]
<1>9. empty \in Dead /\ ~IsGrandFinal1(m) /\ ~Terminal(m)
  <2> DEFINE reset == {graph.winnerTo[y].match : y \in {z \in Matches : IsGrandFinal1(z)}}
             refused == {p \in Pointers(graph) : /\ row[p.match].entry[p.slot] = None
                                                 /\ p.match \notin reset
                                                 /\ ~SlotCanFill(p)}
  <2>1. Closed(refused) /\ \A p \in refused : ~IsGrandFinal1(p.match) /\ ~Terminal(p.match)
    BY <1>0, <1>3 DEF RefusedIsDead
  <2>2. m \notin reset
    <3> SUFFICES ASSUME NEW y \in Matches, IsGrandFinal1(y), m = graph.winnerTo[y].match
                 PROVE  FALSE
      OBVIOUS
    <3>1. x = y
      BY <1>5, <1>8, ResetIs
    <3> QED
      BY <1>8, <3>1
  <2>3. row[m].entry[EmptySlot(row[m])] = None /\ EmptySlot(row[m]) \in {1, 2}
    BY <1>3, <1>4 DEF Alone, EmptySlot
  <2>4. empty \in Pointers(graph) /\ empty.match = m /\ empty.slot = EmptySlot(row[m])
    BY <1>4, <1>5, <2>3, PointerIs
  <2>5. empty \in refused
    BY <1>3, <1>4, <2>2, <2>3, <2>4
  <2>6. refused \in SUBSET Pointers(graph)
    OBVIOUS
  <2> HIDE DEF refused
  <2> QED
    BY <2>1, <2>4, <2>5, <2>6 DEF Dead
<1>10. /\ present # None /\ present \in Entry /\ ~Contested(row[m])
       /\ present \in {row[m].entry[1], row[m].entry[2]}
       /\ \A s \in {1, 2} : row[m].entry[s] = None => s = EmptySlot(row[m])
       /\ row[m].entry[1] # None \/ row[m].entry[2] # None
  <2>1. row[m].entry[1] \in EntryOrNone /\ row[m].entry[2] \in EntryOrNone
    BY <1>4 DEF Row, Slot
  <2>2. CASE row[m].entry[1] = None /\ row[m].entry[2] # None
    <3>1. EmptySlot(row[m]) = 1 /\ 3 - 1 = 2
      BY <2>2 DEF EmptySlot
    <3> QED
      BY <1>4, <1>c, <2>1, <2>2, <3>1 DEF Contested, EntryOrNone
  <2>3. CASE row[m].entry[1] # None /\ row[m].entry[2] = None
    <3>1. EmptySlot(row[m]) = 2 /\ 3 - 2 = 1
      BY <2>3 DEF EmptySlot
    <3> QED
      BY <1>4, <1>c, <2>1, <2>3, <3>1 DEF Contested, EntryOrNone
  <2> QED
    BY <1>3, <1>4, <2>2, <2>3 DEF Alone
<1>11. /\ newRow.entry = row[m].entry /\ newRow.winner = present /\ newRow.state = "complete"
  BY <1>1, <1>4 DEF Row
<1>12. row'[m] = newRow /\ \A y \in Matches : y # m => row'[y] = row[y]
  BY <1>2, <1>4 DEF SlotInv, TypeInv, TypeOK, Matches
<1>14. \A p \in Pointers(graph) : p.match \in Matches /\ p.slot \in {1, 2}
  BY <1>5, PointerIs
<1>15. \A p \in Pointers(graph) : At(p)' = At(p)
  BY <1>11, <1>12, <1>14 DEF At
<1>17. u # NoPointer =>
         u \in Pointers(graph) /\ Feeds(m, u) 
         /\ row[u.match].state # "complete" /\ row'[u.match].state # "complete"
  <2> SUFFICES ASSUME u # NoPointer
               PROVE  u \in Pointers(graph) /\ Feeds(m, u) 
         /\ row[u.match].state # "complete" /\ row'[u.match].state # "complete"
    OBVIOUS
  <2>1. Feeds(m, u) /\ u \in Pointers(graph)
    BY <1>4, <1>5, <1>b, PointerIs DEF Feeds
  <2>2. row[u.match].state # "complete" /\ At(u) = None
    BY <1>4, <1>5, <1>7, <1>10, <1>b, <2>1, TargetOpen
  <2>3. u \notin Dead
    BY <1>4, <1>5, <1>10, <1>b, <2>1, NothingSent
  <2>4. ASSUME u.match = m PROVE FALSE
    <3>1. u = empty
      BY <1>5, <1>10, <1>14, <2>1, <2>2, <2>4, PointerIs DEF At
    <3> QED
      BY <1>9, <2>3, <3>1
  <2> QED
    BY <1>12, <1>14, <2>1, <2>2, <2>4
<1>18. present = row[m].entry[3 - EmptySlot(row[m])]
  BY <1>4, <1>c
<1> HIDE DEF empty
<1>19. empty = [match |-> m, slot |-> EmptySlot(row[m])]
  BY DEF empty
<1> QED
  BY <1>0, <1>3, <1>4, <1>7, <1>9, <1>10, <1>11, <1>12, <1>15, <1>17, <1>18, <1>19, <1>a, <1>b

(* A walkover: only its winner goes on, for nobody can come to its other   *)
(* slot, and nobody is sent where its loser would go.                      *)
LEMMA WalkoverStep ==
  ASSUME SlotInv, OneAtATime, RefusedIsDead, TypeInv', NEW w \in Worker, SettleWalkover(w)
  PROVE  SlotInv'
<1>0. PICK j : j = job[w]
  OBVIOUS
<1> DEFINE h == Head(j.todo)
<1>a. PICK m : m = h.match
  OBVIOUS
<1>b. PICK u : u = graph.winnerTo[m]
  OBVIOUS
<1>c. PICK present : present = j.copy.entry[3 - EmptySlot(j.copy)]
  OBVIOUS
<1>1. PICK newRow : newRow = [j.copy EXCEPT !.winner = present, !.state = "complete"]
  OBVIOUS
<1>2. PICK first : first = Place(u, present) \o Settle(u)
  OBVIOUS
<1>3. /\ Working(w, "settle") /\ Save(w, newRow, first) /\ UNCHANGED <<graph, stage>>
  BY <1>0, <1>1, <1>2, <1>a, <1>b, <1>c DEF SettleWalkover
<1>4. /\ j \in Jobs /\ j.busy /\ j.todo # <<>> /\ j.todo \in Seq(LiveTask) /\ Ordered(j.todo)
      /\ h.do = "settle" /\ \A t \in Tasks(j.todo) : TaskOk(j, t)
  BY <1>0, <1>3, Holding, HeldRow DEF JobOk
<1>5. TypeInv /\ graph \in Graphs /\ RowsInv /\ Delivered
  BY DEF SlotInv
<1>6. /\ Tail(j.todo) \in Seq(LiveTask) /\ Walk(Tail(j.todo))
      /\ Tasks(j.todo) = {h} \cup Tasks(Tail(j.todo))
      /\ \A t \in Tasks(Tail(j.todo)) : t.do = "settle"
  BY <1>4, HeadIs
<1> DEFINE empty == [match |-> m, slot |-> EmptySlot(row[m])]
<1>7. /\ j.copy = row[m] /\ \A p : ~Coming(p)
      /\ stage # "draft" /\ m \in Matches /\ row[m].state # "complete"
      /\ ~Contested(row[m]) /\ ~IsGrandFinal1(m) /\ empty \in Dead
      /\ \A s \in {1, 2} : row[m].entry[s] = None => s = EmptySlot(row[m])
      /\ \A x \in Matches : x # m => row'[x] = row[x]
      /\ \A p \in Pointers(graph) : At(p)' = At(p)
  BY <1>0, <1>a, WalkoverIs
<1>8. present = row[m].entry[3 - EmptySlot(row[m])]
  BY <1>7, <1>c
<1>9. /\ present \in Entry /\ present # None
      /\ present \in {row[m].entry[1], row[m].entry[2]}
      /\ row'[m].entry = row[m].entry /\ row'[m].winner = present /\ row'[m].state = "complete"
      /\ u # NoPointer => row'[u.match].state # "complete"
  BY <1>0, <1>8, <1>a, <1>b, WalkoverIs, EntryAssumption
<1>13. /\ Matches' = Matches /\ Pointers(graph)' = Pointers(graph) /\ Dead' = Dead
       /\ \A y, p : Feeds(y, p)' <=> Feeds(y, p)
       /\ \A y : IsGrandFinal1(y)' <=> IsGrandFinal1(y)
  <2>1. Matches' = Matches /\ Pointers(graph)' = Pointers(graph)
    BY <1>3 DEF Matches, Pointers
  <2> QED
    BY <1>3, <2>1 DEF Dead, Closed, Feeds, IsGrandFinal1, Terminal
<1>14. \A p \in Pointers(graph) : p.match \in Matches /\ p.slot \in {1, 2}
  BY <1>5, PointerIs
<1>16. /\ Decided(m)' /\ Won(m)' = present /\ Lost(m)' = None /\ ~Titled(m)'
  BY <1>7, <1>9, <1>13 DEF Decided, Won, Lost, Titled, Contested
<1>17. u # NoPointer => u \in Pointers(graph) /\ Feeds(m, u)
  BY <1>5, <1>7, <1>b, PointerIs DEF Feeds
<1>18. /\ first \in Seq(LiveTask) /\ Walk(first)
       /\ u # NoPointer => Do("place", u.match, u.slot, present) \in Tasks(first)
       /\ \A t \in Tasks(first) : /\ u # NoPointer
                                  /\ \/ t = Do("place", u.match, u.slot, present)
                                     \/ t = Do("settle", u.match, 1, None)
  <2> DEFINE a == Place(u, present)
             b == Settle(u)
  <2>1. /\ a \in Seq(LiveTask) /\ Walk(a) /\ b \in Seq(LiveTask) /\ Walk(b)
        /\ Tasks(a) = IF u = NoPointer THEN {} ELSE {Do("place", u.match, u.slot, present)}
        /\ Tasks(b) = IF u = NoPointer THEN {} ELSE {Do("settle", u.match, 1, None)}
    BY <1>5, <1>7, <1>9, <1>b, WritesOf DEF EntryOrNone
  <2>2. \A t \in Tasks(a) : t.do = "place"
    BY <2>1 DEF Do
  <2> HIDE DEF a, b
  <2>3. a \o b \in Seq(LiveTask) /\ Walk(a \o b) /\ Tasks(a \o b) = Tasks(a) \cup Tasks(b)
    BY <2>1, <2>2, WalkConcat
  <2>4. first = a \o b
    BY <1>2 DEF a, b
  <2> QED
    BY <2>1, <2>3, <2>4
<1>19. PICK k : k = [j EXCEPT !.todo = first \o Tail(j.todo), !.copy = None]
  OBVIOUS
<1>20. /\ k.todo = first \o Tail(j.todo) /\ k.copy = None /\ k.busy
       /\ job' = [job EXCEPT ![w] = k]
  BY <1>0, <1>3, <1>4, <1>19 DEF Save, SlotInv, TypeInv, TypeOK, Jobs
<1>21. Walk(k.todo) /\ Tasks(k.todo) = Tasks(first) \cup Tasks(Tail(j.todo))
  BY <1>6, <1>18, <1>20, WalkConcat
<1>22. ASSUME NEW t \in Tasks(k.todo) PROVE TaskOk(k, t)'
  <2>1. CASE t \in Tasks(Tail(j.todo))
    <3>1. t.do = "settle"
      BY <1>6, <2>1
    <3>2. PICK y \in Matches, p \in Pointers(graph) :
            p.match = t.match /\ ~IsGrandFinal1(y) /\ Feeds(y, p)
      BY <1>4, <1>6, <2>1, <3>1 DEF TaskOk
    <3>3. /\ y \in Matches' /\ p \in Pointers(graph)' /\ ~IsGrandFinal1(y)' /\ Feeds(y, p)'
      BY <1>13, <3>2
    <3> QED
      BY <3>1, <3>2, <3>3 DEF TaskOk
  <2>2. CASE t \in Tasks(first)
    <3>1. /\ u # NoPointer /\ m \in Matches' /\ u \in Pointers(graph)'
          /\ ~IsGrandFinal1(m)' /\ Feeds(m, u)'
      BY <1>7, <1>13, <1>17, <1>18, <2>2
    <3>2. CASE t = Do("settle", u.match, 1, None)
      <4>1. t.do = "settle" /\ t.match = u.match
        BY <3>2 DEF Do
      <4> QED
        BY <3>1, <4>1 DEF TaskOk
    <3>3. CASE t = Do("place", u.match, u.slot, present)
      <4>1. t.do = "place" /\ t.match = u.match /\ t.slot = u.slot /\ t.entry = present
        BY <3>3 DEF Do
      <4>2. present = Sent(m, u)'
        BY <1>3, <1>16, <1>b DEF Sent
      <4> QED
        BY <1>9, <3>1, <4>1, <4>2 DEF TaskOk
    <3> QED
      BY <1>18, <2>2, <3>2, <3>3
  <2> QED
    BY <1>21, <2>1, <2>2
<1>23. \A v \in Worker : job'[v].busy => JobOk(job[v])'
  <2>1. JobOk(k)'
    BY <1>20, <1>21, <1>22 DEF JobOk, CopyOk, Ordered
  <2>2. \A v \in Worker : job'[v] = k
    BY <1>20, ItsJob
  <2> QED
    BY <2>1, <2>2 DEF JobOk, CopyOk, TaskOk
<1>24. Delivered'
  <2> SUFFICES ASSUME NEW y \in Matches, NEW p \in Pointers(graph), Feeds(y, p)
               PROVE  At(p)' = Sent(y, p)' \/ Coming(p)'
    BY <1>13 DEF Delivered
  <2>1. At(p)' = Sent(y, p)
    BY <1>5, <1>7 DEF Delivered
  <2>2. CASE y # m
    <3>1. row'[y] = row[y]
      BY <1>7, <2>2
    <3>2. Sent(y, p)' = Sent(y, p)
      BY <1>3, <1>13, <3>1 DEF Sent, Titled, Won, Lost, Decided, Contested, Loser
    <3> QED
      BY <2>1, <3>2
  <2>3. CASE y = m /\ p = u
    <3>1. p # NoPointer
      BY DEF Feeds
    <3>2. OnItsWay(Do("place", u.match, u.slot, present), p)
      BY <2>3 DEF OnItsWay, Do
    <3>3. \E t \in Tasks(k.todo) : OnItsWay(t, p)
      BY <1>18, <1>21, <2>3, <3>1, <3>2
    <3> QED
      BY <1>20, <3>3, ItsJob
  <2>4. CASE y = m /\ p # u
    <3>1. Sent(m, p)' = None
      BY <1>3, <1>16, <1>b, <2>4 DEF Sent
    <3>2. Sent(m, p) = None
      BY <1>7, <1>b, <2>4 DEF Sent, Lost, Decided
    <3> QED
      BY <2>1, <2>4, <3>1, <3>2
  <2> QED
    BY <2>2, <2>3, <2>4
<1>25. RowsInv'
  <2>1. ASSUME NEW y \in Matches, Decided(y)'
        PROVE  row'[y].winner \in {row'[y].entry[1], row'[y].entry[2]}
    <3>1. CASE y = m
      BY <1>9, <3>1
    <3>2. CASE y # m
      BY <1>5, <1>7, <2>1, <3>2 DEF RowsInv, Decided
    <3> QED
      BY <3>1, <3>2
  <2>2. \A p \in Dead : p \in Pointers(graph)
    BY DEF Dead
  <2>3. \A p \in Dead : At(p)' = None
    BY <1>5, <1>7, <2>2 DEF RowsInv
  <2>4. ASSUME NEW p \in Pointers(graph), row'[p.match].state = "complete", At(p)' = None
        PROVE  p \in Dead
    <3>1. At(p) = None
      BY <1>7, <2>4
    <3>2. CASE p.match = m
      <4>1. p = empty
        BY <1>5, <1>7, <1>14, <3>1, <3>2, PointerIs DEF At
      <4> QED
        BY <1>7, <4>1
    <3>3. CASE p.match # m
      BY <1>5, <1>7, <1>14, <2>4, <3>1, <3>3 DEF RowsInv
    <3> QED
      BY <3>2, <3>3
  <2> QED
    BY <1>13, <2>1, <2>3, <2>4 DEF RowsInv
<1> QED
  BY <1>3, <1>5, <1>7, <1>23, <1>24, <1>25 DEF SlotInv, DraftInv

(* The opening rows: a bye's winner is where it is sent. *)
LEMMA SeedIs ==
  ASSUME TypeInv, graph \in Graphs, NEW x \in Matches, NEW p, Feeds(x, p)
  PROVE  /\ p.match \in Matches /\ \A s \in {1, 2} : graph.seeds[p.match][s] = None
         /\ IsGrandFinal1(x) => ~IsBye(x)
<1>1. OneSource(graph) /\ x \in graph.matches /\ p # NoPointer
  BY GraphsFit DEF Matches, Feeds
<1>2. p \in Pointers(graph) /\ p.match \in Matches
  BY PointerIs
<1>3. \A s \in Slot : graph.seeds[p.match][s] = None
  BY <1>1 DEF OneSource, Feeds
<1>4. IsGrandFinal1(x) => ~IsBye(x)
  BY <1>1 DEF OneSource, IsGrandFinal1, IsBye
<1> QED
  BY <1>2, <1>3, <1>4 DEF Slot

LEMMA OpeningIs ==
  ASSUME TypeInv, graph \in Graphs, NEW m \in Matches
  PROVE  LET r == OpeningRow(m)
         IN  /\ IsBye(m) => r.winner = ByeWinner(m) /\ r.state = "complete"
             /\ ~IsBye(m) => r.winner = None /\ r.state # "complete"
             /\ \A s \in {1, 2} :
                  /\ graph.seeds[m][s] # None => r.entry[s] = graph.seeds[m][s]
                  /\ graph.seeds[m][s] = None =>
                       \/ r.entry[s] = None
                          /\ ~\E x \in Matches : /\ IsBye(x)
                                                 /\ graph.winnerTo[x] = [match |-> m, slot |-> s]
                       \/ \E x \in Matches : /\ IsBye(x) /\ r.entry[s] = ByeWinner(x)
                                             /\ graph.winnerTo[x] = [match |-> m, slot |-> s]
<1> DEFINE byes(s) == {x \in Matches : IsBye(x) /\ graph.winnerTo[x] = [match |-> m, slot |-> s]}
           first(s) == CHOOSE x \in byes(s) : TRUE
           entry == [s \in Slot |->
                      IF graph.seeds[m][s] # None THEN graph.seeds[m][s]
                      ELSE IF byes(s) = {} THEN None ELSE ByeWinner(first(s))]
<1>1. \A s \in Slot : byes(s) # {} => first(s) \in byes(s)
  OBVIOUS
<1> HIDE DEF first
<1>2. OpeningRow(m) =
        [entry |-> entry, winner |-> IF IsBye(m) THEN ByeWinner(m) ELSE None,
         state |-> IF IsBye(m) THEN "complete"
                   ELSE IF entry[1] # None /\ entry[2] # None THEN "open" ELSE "pending"]
  BY DEF OpeningRow, first
<1>3. \A s \in {1, 2} : entry[s] = IF graph.seeds[m][s] # None THEN graph.seeds[m][s]
                                   ELSE IF byes(s) = {} THEN None ELSE ByeWinner(first(s))
  BY DEF Slot
<1> HIDE DEF entry
<1>4. \A s \in {1, 2} : byes(s) # {} => first(s) \in byes(s)
  BY <1>1 DEF Slot
<1>5. /\ IsBye(m) => OpeningRow(m).winner = ByeWinner(m) /\ OpeningRow(m).state = "complete"
      /\ ~IsBye(m) => OpeningRow(m).winner = None /\ OpeningRow(m).state # "complete"
      /\ OpeningRow(m).entry = entry
  BY <1>2
<1> QED
  BY <1>3, <1>4, <1>5

(* A stage starts with its byes complete, and nothing else decided. *)
LEMMA StartIs ==
  ASSUME SlotInv, StartBracket
  PROVE  /\ UNCHANGED <<graph, job, status>> /\ Quiet /\ stage' # "draft"
         /\ \A m \in Matches, s \in {1, 2} :
              /\ graph.seeds[m][s] # None => row'[m].entry[s] = graph.seeds[m][s]
              /\ graph.seeds[m][s] = None =>
                   \/ row'[m].entry[s] = None
                      /\ ~\E x \in Matches : /\ IsBye(x)
                                             /\ graph.winnerTo[x] = [match |-> m, slot |-> s]
                   \/ \E x \in Matches : /\ IsBye(x) /\ row'[m].entry[s] = ByeWinner(x)
                                         /\ graph.winnerTo[x] = [match |-> m, slot |-> s]
         /\ \A x \in Matches :
              /\ row'[x].state = "complete" => IsBye(x) /\ ~Contested(row[x])'
              /\ Decided(x)' => IsBye(x)
              /\ IsBye(x) => Won(x)' = ByeWinner(x) /\ Decided(x)' /\ row'[x].winner = ByeWinner(x)
              /\ ~IsBye(x) => Won(x)' = None
              /\ Lost(x)' = None
         /\ \A x \in Matches : IsBye(x) =>
              /\ ByeWinner(x) # None /\ ByeWinner(x) \in {row'[x].entry[1], row'[x].entry[2]}
              /\ \E s \in {1, 2} : graph.seeds[x][s] = ByeWinner(x)
              /\ \A y \in Matches, p \in Pointers(graph) : Feeds(y, p) => p.match # x
<1>1. /\ TypeInv /\ graph \in Graphs /\ graph' = graph /\ stage' # "draft"
      /\ UNCHANGED <<graph, job, status>>
      /\ Quiet /\ \A m \in Matches : row'[m] = OpeningRow(m)
  BY DEF SlotInv, DraftInv, StartBracket
<1>o. ASSUME NEW m \in Matches
      PROVE  /\ IsBye(m) => row'[m].winner = ByeWinner(m) /\ row'[m].state = "complete"
             /\ ~IsBye(m) => row'[m].winner = None /\ row'[m].state # "complete"
             /\ \A s \in {1, 2} :
                  /\ graph.seeds[m][s] # None => row'[m].entry[s] = graph.seeds[m][s]
                  /\ graph.seeds[m][s] = None =>
                       \/ row'[m].entry[s] = None
                          /\ ~\E x \in Matches : /\ IsBye(x)
                                                 /\ graph.winnerTo[x] = [match |-> m, slot |-> s]
                       \/ \E x \in Matches : /\ IsBye(x) /\ row'[m].entry[s] = ByeWinner(x)
                                             /\ graph.winnerTo[x] = [match |-> m, slot |-> s]
  <2>1. row'[m] = OpeningRow(m)
    BY <1>1
  <2> QED
    BY <1>1, <2>1, OpeningIs
<1>4. ASSUME NEW x \in Matches, IsBye(x)
      PROVE  /\ ByeWinner(x) # None /\ ByeWinner(x) \in {row'[x].entry[1], row'[x].entry[2]}
             /\ \A y \in Matches, p \in Pointers(graph) : Feeds(y, p) => p.match # x
             /\ \E s \in {1, 2} : graph.seeds[x][s] # None /\ ByeWinner(x) = graph.seeds[x][s]
             /\ ~(\A s \in {1, 2} : graph.seeds[x][s] # None)
  <2>1. /\ \E s \in {1, 2} : graph.seeds[x][s] # None /\ ByeWinner(x) = graph.seeds[x][s]
        /\ ~(\A s \in {1, 2} : graph.seeds[x][s] # None)
    BY <1>4 DEF IsBye, ByeWinner
  <2>2. \A y \in Matches, p \in Pointers(graph) : Feeds(y, p) => p.match # x
    BY <1>1, <2>1, SeedIs
  <2>3. \A s \in {1, 2} : graph.seeds[x][s] # None => row'[x].entry[s] = graph.seeds[x][s]
    BY <1>1, <1>o
  <2> QED
    BY <2>1, <2>2, <2>3
<1>5. ASSUME NEW x \in Matches, IsBye(x) PROVE ~Contested(row[x])'
  <2>1. PICK s \in {1, 2} : graph.seeds[x][s] = None
    BY <1>4, <1>5
  <2>2. [match |-> x, slot |-> s] \in Pointers(graph)
    BY <1>1, PointerIs
  <2>3. ~\E y \in Matches : graph.winnerTo[y] = [match |-> x, slot |-> s]
    BY <1>1, <1>4, <1>5, <2>2, PointerIs DEF Feeds
  <2>4. row'[x].entry[s] = None
    BY <1>1, <2>1, <2>3, <1>o
  <2> QED
    BY <2>4 DEF Contested
<1>6. ASSUME NEW x \in Matches
      PROVE  /\ Decided(x)' => IsBye(x)
             /\ IsBye(x) => Won(x)' = ByeWinner(x) /\ Decided(x)'
             /\ ~IsBye(x) => Won(x)' = None
             /\ Lost(x)' = None
  <2>1. CASE IsBye(x)
    <3>1. row'[x].winner = ByeWinner(x) /\ row'[x].state = "complete"
      BY <1>o, <2>1
    <3>2. ByeWinner(x) # None
      BY <1>4, <2>1
    <3>3. ~Contested(row[x])'
      BY <1>5, <2>1
    <3>4. Decided(x)'
      BY <3>1, <3>2 DEF Decided
    <3> QED
      BY <2>1, <3>1, <3>3, <3>4 DEF Won, Lost
  <2>2. CASE ~IsBye(x)
    <3>1. ~Decided(x)'
      BY <1>o, <2>2 DEF Decided
    <3> QED
      BY <2>2, <3>1 DEF Won, Lost
  <2> QED
    BY <2>1, <2>2
<1>7. \A x \in Matches : row'[x].state = "complete" => IsBye(x) /\ ~Contested(row[x])'
  BY <1>5, <1>o
<1>8. \A m \in Matches, s \in {1, 2} :
        /\ graph.seeds[m][s] # None => row'[m].entry[s] = graph.seeds[m][s]
        /\ graph.seeds[m][s] = None =>
             \/ row'[m].entry[s] = None
                /\ ~\E x \in Matches : /\ IsBye(x)
                                       /\ graph.winnerTo[x] = [match |-> m, slot |-> s]
             \/ \E x \in Matches : /\ IsBye(x) /\ row'[m].entry[s] = ByeWinner(x)
                                   /\ graph.winnerTo[x] = [match |-> m, slot |-> s]
  BY <1>o
<1>9. \A x \in Matches : IsBye(x) => row'[x].winner = ByeWinner(x)
  BY <1>o
<1> QED
  BY <1>1, <1>4, <1>6, <1>7, <1>8, <1>9

LEMMA StartStep == ASSUME SlotInv, TypeInv', StartBracket PROVE SlotInv'
<1>1. /\ TypeInv /\ graph \in Graphs /\ UNCHANGED <<graph, job>> /\ stage' # "draft" /\ Quiet
  BY StartIs DEF SlotInv
<1>2. \A v \in Worker : ~job'[v].busy
  BY <1>1 DEF Quiet, Idle
<1>o. ASSUME NEW m \in Matches
      PROVE  \A s \in {1, 2} :
               graph.seeds[m][s] = None =>
                 \/ row'[m].entry[s] = None
                    /\ ~\E x \in Matches : /\ IsBye(x)
                                           /\ graph.winnerTo[x] = [match |-> m, slot |-> s]
                 \/ \E x \in Matches : /\ IsBye(x) /\ row'[m].entry[s] = ByeWinner(x)
                                       /\ graph.winnerTo[x] = [match |-> m, slot |-> s]
  BY StartIs
<1>3. /\ Matches' = Matches /\ Pointers(graph)' = Pointers(graph) /\ Dead' = Dead
      /\ \A x, p : Feeds(x, p)' <=> Feeds(x, p)
      /\ \A x : IsGrandFinal1(x)' <=> IsGrandFinal1(x)
  <2>1. Matches' = Matches /\ Pointers(graph)' = Pointers(graph)
    BY <1>1 DEF Matches, Pointers
  <2> QED
    BY <1>1, <2>1 DEF Dead, Closed, Feeds, IsGrandFinal1, Terminal
<1>7. ASSUME NEW x \in Matches, NEW p \in Pointers(graph), Feeds(x, p)
      PROVE  At(p)' = Sent(x, p)'
  <2>1. /\ p.match \in Matches /\ p.slot \in {1, 2} /\ p = [match |-> p.match, slot |-> p.slot]
        /\ graph.seeds[p.match][p.slot] = None /\ (IsGrandFinal1(x) => ~IsBye(x))
    BY <1>1, <1>7, PointerIs, SeedIs
  <2>2. ~Titled(x)'
    BY <1>3, StartIs, <2>1 DEF Titled
  <2>3. \A y \in Matches : graph.winnerTo[y] = p => y = x /\ p = graph.winnerTo[x]
    BY <1>1, <1>7, OneFeeder DEF Feeds
  <2>4. At(p)' = row'[p.match].entry[p.slot]
    BY <1>1 DEF At
  <2>5. \/ At(p)' = None /\ ~\E y \in Matches : IsBye(y) /\ graph.winnerTo[y] = p
        \/ \E y \in Matches : IsBye(y) /\ At(p)' = ByeWinner(y) /\ graph.winnerTo[y] = p
    <3>1. PICK m \in Matches, s \in {1, 2} :
            p = [match |-> m, slot |-> s] /\ p.match = m /\ p.slot = s
      BY <2>1
    <3>2. At(p)' = row'[m].entry[s] /\ graph.seeds[m][s] = None
      BY <2>1, <2>4, <3>1
    <3>3. \/ row'[m].entry[s] = None /\ ~\E y \in Matches : IsBye(y) /\ graph.winnerTo[y] = p
          \/ \E y \in Matches : /\ IsBye(y) /\ row'[m].entry[s] = ByeWinner(y)
                                 /\ graph.winnerTo[y] = p
      BY <1>o, <3>1, <3>2
    <3> QED
      BY <3>2, <3>3
  <2>6. CASE p = graph.winnerTo[x]
    <3>1. Sent(x, p)' = Won(x)'
      BY <1>1, <2>2, <2>6 DEF Sent
    <3> QED
      BY StartIs, <2>3, <2>5, <2>6, <3>1
  <2>7. CASE p # graph.winnerTo[x]
    <3>1. Sent(x, p)' = None
      BY <1>1, StartIs, <2>2, <2>7 DEF Sent
    <3> QED
      BY <2>3, <2>5, <2>7, <3>1
  <2> QED
    BY <2>6, <2>7
<1>8. RowsInv'
  <2>1. \A x \in Matches : Decided(x)' => row'[x].winner \in {row'[x].entry[1], row'[x].entry[2]}
    BY <1>1, StartIs
  <2>2. ASSUME NEW p \in Dead PROVE At(p)' = None
    <3>1. PICK slots \in SUBSET Pointers(graph) : Closed(slots) /\ p \in slots
      BY DEF Dead
    <3>2. /\ p \in Pointers(graph) /\ p.match \in Matches /\ p.slot \in {1, 2}
          /\ p = [match |-> p.match, slot |-> p.slot]
      BY <1>1, <3>1, PointerIs
    <3>3. graph.seeds[p.match][p.slot] = None
      BY <3>1 DEF Closed
    <3>4. ASSUME NEW y \in Matches, graph.winnerTo[y] = p PROVE ~IsBye(y)
      <4> DEFINE own == {[match |-> y, slot |-> s] : s \in Slot}
      <4>1. own \subseteq slots
        BY <3>1, <3>4 DEF Closed
      <4>2. \A q \in slots : graph.seeds[q.match][q.slot] = None
        BY <3>1 DEF Closed
      <4>3. [match |-> y, slot |-> 1] \in own /\ [match |-> y, slot |-> 2] \in own
        BY DEF Slot
      <4> HIDE DEF own
      <4>4. graph.seeds[y][1] = None /\ graph.seeds[y][2] = None
        BY <4>1, <4>2, <4>3
      <4> QED
        BY <4>4 DEF IsBye
    <3>5. row'[p.match].entry[p.slot] = None
      <4>1. PICK m \in Matches, s \in {1, 2} :
              p = [match |-> m, slot |-> s] /\ p.match = m /\ p.slot = s
        BY <3>2
      <4>2. graph.seeds[m][s] = None
        BY <3>3, <4>1
      <4>3. ~\E y \in Matches : IsBye(y) /\ graph.winnerTo[y] = [match |-> m, slot |-> s]
        BY <3>4, <4>1
      <4> QED
        BY <1>o, <4>1, <4>2, <4>3
    <3> QED
      BY <3>5 DEF At
  <2>3. ASSUME NEW p \in Pointers(graph), row'[p.match].state = "complete", At(p)' = None
        PROVE  p \in Dead
    <3>1. p.match \in Matches /\ p.slot \in {1, 2}
      BY <1>1, PointerIs
    <3>2. IsBye(p.match)
      BY <1>1, <2>3, <3>1, StartIs
    <3>3. graph.seeds[p.match][p.slot] = None
      BY <1>1, <2>3, <3>1, StartIs DEF At
    <3>4. \A x \in Matches : graph.winnerTo[x] # p /\ graph.loserTo[x] # p
      BY <1>1, StartIs, <3>1, <3>2, PointerIs DEF Feeds
    <3>5. Closed({p})
      BY <3>3, <3>4 DEF Closed
    <3> QED
      BY <3>5 DEF Dead
  <2> QED
    BY <1>3, <2>1, <2>2, <2>3 DEF RowsInv
<1> QED
  BY <1>1, <1>2, <1>3, <1>7, <1>8 DEF SlotInv, DraftInv, Delivered

LEMMA SlotInit == Init => SlotInv
<1> SUFFICES ASSUME Init PROVE SlotInv
  OBVIOUS
<1>1. /\ TypeInv /\ graph \in Graphs /\ \A m \in Matches : row[m] = BlankRow
      /\ \A v \in Worker : job[v] = Idle
  BY TypeInit DEF Init, Matches
<1>2. BlankRow.state # "complete" /\ \A s \in {1, 2} : BlankRow.entry[s] = None
  BY DEF BlankRow, Slot
<1>3. \A p \in Pointers(graph) : p.match \in Matches /\ p.slot \in {1, 2}
  BY <1>1, PointerIs
<1>4. \A p \in Pointers(graph) : At(p) = None /\ row[p.match].state # "complete"
  BY <1>1, <1>2, <1>3 DEF At
<1>5. \A x \in Matches : ~Decided(x) /\ Won(x) = None /\ Lost(x) = None
  BY <1>1, <1>2 DEF Decided, Won, Lost
<1>6. \A x \in Matches, p \in Pointers(graph) : Sent(x, p) = None
  BY <1>5 DEF Sent
<1>7. \A p \in Dead : p \in Pointers(graph)
  BY DEF Dead
<1> QED
  BY <1>1, <1>4, <1>5, <1>6, <1>7 DEF SlotInv, RowsInv, Delivered, DraftInv, Quiet, Idle

LEMMA SlotStep ==
  ASSUME OneAtATime
  PROVE  SlotInv /\ RefusedIsDead /\ [Next]_vars => SlotInv'
<1> SUFFICES ASSUME SlotInv, RefusedIsDead, [Next]_vars PROVE SlotInv'
  OBVIOUS
<1>0. TypeInv'
  BY TypeStep DEF SlotInv
<1>1. CASE StartBracket
  BY <1>0, <1>1, StartStep
<1>2. CASE \E w \in Worker, m \in Matches, e \in Entry :
             ReportResult(w, m, e) \/ OverrideResult(w, m, e)
  BY <1>0, <1>2, LoadStep
<1>3. ASSUME NEW w \in Worker, Continue(w) PROVE SlotInv'
  BY <1>0, <1>3, RecordStep, FetchStep, PlaceStep, ResetStep, SettleStep, WalkoverStep, FinishStep
     DEF Continue
<1>4. CASE CompleteStage \/ CancelStage
  BY <1>0, <1>4, StillStep DEF CompleteStage, FinalizeStage, CancelStage
<1>5. CASE (\E e \in graph.field : RetireEntry(e)) \/ UNCHANGED vars
  <2>1. \A e \in Entry : status'[e] \in {status[e], "dropped"}
    BY <1>5 DEF RetireEntry, vars, SlotInv, TypeInv, TypeOK
  <2> QED
    BY <1>0, <1>5, <2>1, StillStep DEF RetireEntry, vars
<1> QED
  BY <1>1, <1>2, <1>3, <1>4, <1>5 DEF Next, SomeReport

-----------------------------------------------------------------------------
(* Induction by a least counterexample.                                    *)

LEMMA LessThan ==
  \E R : IsWellFoundedOn(R, Nat) /\ \A x, y \in Nat : x < y => <<x, y>> \in R
<1>1. PICK R : R = OpToRel(<, Nat)
  OBVIOUS
<1>2. \A x, y \in Nat : x < y => <<x, y>> \in R
  BY <1>1 DEF OpToRel
<1>3. IsWellFoundedOn(R, Nat)
  BY <1>1, NatLessThanWellFounded
<1> QED
  BY <1>2, <1>3

LEMMA LeastNat ==
  ASSUME NEW T \in SUBSET Nat, T # {}
  PROVE  \E m \in T : \A k \in T : m <= k
<1>1. PICK R : IsWellFoundedOn(R, Nat) /\ \A x, y \in Nat : x < y => <<x, y>> \in R
  BY LessThan
<1>a. IsWellFoundedOn(R, Nat) /\ T \subseteq Nat /\ T # {}
  BY <1>1
<1>b. \E x \in T : \A y \in T : ~ (<<y, x>> \in R)
  BY <1>a, WFMin, Zenon
<1>2. PICK m \in T : \A y \in T : ~ (<<y, m>> \in R)
  BY <1>b
<1>3. ASSUME NEW k \in T PROVE m <= k
  <2>1. ~(k < m)
    BY <1>1, <1>2
  <2> QED
    BY <2>1
<1> QED
  BY <1>2, <1>3

-----------------------------------------------------------------------------
(* _slot_can_fill answers: the recursion ends, as each call has visited a  *)
(* pointer more.                                                           *)

Ps == Pointers(graph)

Answers == [ok : BOOLEAN, seen : SUBSET Ps]

Unseen(seen) == Cardinality(Ps \ seen)

Answering(f, p, seen) == f[<<p, seen>>] = Visit(f, p, seen) /\ seen \subseteq f[<<p, seen>>].seen

(* f answers every call that has all but k pointers behind it. *)
Follows(f, k) ==
  \A p \in Ps, seen \in SUBSET Ps :
    Unseen(seen) <= k => f[<<p, seen>>] \in Answers /\ Answering(f, p, seen)

LEMMA FinitePointers == ASSUME TypeInv PROVE IsFiniteSet(Ps)
<1>1. IsFiniteSet(graph.matches) /\ IsFiniteSet(Slot)
  <2>1. IsFiniteSet({1}) /\ IsFiniteSet({1} \cup {2})
    BY FS_Singleton, FS_AddElement
  <2>2. {1} \cup {2} = Slot
    BY DEF Slot
  <2> QED
    BY <2>1, <2>2 DEF TypeInv, TypeOK, Fits, WellFormed
<1> DEFINE S == graph.matches \X Slot
           point == [c \in S |-> [match |-> c[1], slot |-> c[2]]]
<1>2. IsFiniteSet(S)
  BY <1>1, FS_Product
<1>3. point \in [S -> Ps]
  BY DEF Ps, Pointers
<1>4. ASSUME NEW p \in Ps PROVE \E c \in S : point[c] = p
  <2>1. p = [match |-> p.match, slot |-> p.slot] /\ p.match \in graph.matches /\ p.slot \in Slot
    BY DEF Ps, Pointers
  <2>2. <<p.match, p.slot>> \in S
    BY <2>1
  <2> QED
    BY <2>1, <2>2
<1> HIDE DEF S, point
<1>5. point \in Surjection(S, Ps)
  BY <1>3, <1>4 DEF Surjection
<1> QED
  BY <1>2, <1>5, FS_Surjection

LEMMA FewerUnseen ==
  ASSUME TypeInv, NEW seen \in SUBSET Ps, NEW p \in Ps, p \notin seen,
         NEW more \in SUBSET Ps, seen \cup {p} \subseteq more
  PROVE  Unseen(seen) \in Nat /\ Unseen(more) \in Nat /\ Unseen(more) < Unseen(seen)
<1>1. IsFiniteSet(Ps \ seen) /\ Ps \ more \in SUBSET (Ps \ seen) /\ Ps \ more # Ps \ seen
  BY FinitePointers, FS_Difference
<1>2. /\ Cardinality(Ps \ more) \in Nat /\ Cardinality(Ps \ seen) \in Nat
      /\ Cardinality(Ps \ more) <= Cardinality(Ps \ seen)
      /\ Cardinality(Ps \ more) # Cardinality(Ps \ seen)
  BY <1>1, FS_Subset, FS_CardinalityType
<1> QED
  BY <1>2 DEF Unseen

(* Whose turn it is in a visit. *)
LEMMA VisitSeen ==
  ASSUME NEW f, NEW p, NEW seen, p \in seen
  PROVE  Visit(f, p, seen) = [ok |-> FALSE, seen |-> seen]
BY DEF Visit

LEMMA VisitWinner ==
  ASSUME TypeInv, graph \in Graphs, NEW f, NEW p \in Ps, NEW seen, p \notin seen,
         NEW x \in Matches, graph.winnerTo[x] = p, row[x].state # "complete"
  PROVE  Visit(f, p, seen) = CanProduceWinner(f, x, seen \cup {p})
<1> DEFINE wins == {y \in Matches : graph.winnerTo[y] = p /\ row[y].state # "complete"}
<1>1. p # NoPointer
  BY PointerIs DEF Ps
<1>2. wins = {x}
  BY <1>1, OneFeeder DEF Feeds
<1>3. wins # {} => Visit(f, p, seen) = CanProduceWinner(f, CHOOSE y \in wins : TRUE, seen \cup {p})
  BY DEF Visit
<1> HIDE DEF wins
<1>4. (CHOOSE y \in {x} : TRUE) = x
  OBVIOUS
<1> QED
  BY <1>2, <1>3, <1>4

LEMMA VisitLoser ==
  ASSUME TypeInv, graph \in Graphs, NEW f, NEW p \in Ps, NEW seen, p \notin seen,
         NEW x \in Matches, graph.loserTo[x] = p, row[x].state # "complete"
  PROVE  Visit(f, p, seen) = CanProduceLoser(f, x, seen \cup {p})
<1> DEFINE wins == {y \in Matches : graph.winnerTo[y] = p /\ row[y].state # "complete"}
           drops == {y \in Matches : graph.loserTo[y] = p /\ row[y].state # "complete"}
<1>1. p # NoPointer
  BY PointerIs DEF Ps
<1>2. Feeds(x, p) /\ graph.winnerTo[x] # p
  BY <1>1, TwoPointers DEF Feeds
<1>3. \A y \in wins \cup drops : y = x
  BY <1>1, <1>2, OneFeeder DEF Feeds
<1>4. wins = {} /\ drops = {x}
  BY <1>2, <1>3
<1>5. wins = {} /\ drops # {} =>
        Visit(f, p, seen) = CanProduceLoser(f, CHOOSE y \in drops : TRUE, seen \cup {p})
  BY DEF Visit
<1> HIDE DEF wins, drops
<1>6. (CHOOSE y \in {x} : TRUE) = x
  OBVIOUS
<1> QED
  BY <1>4, <1>5, <1>6

LEMMA VisitNobody ==
  ASSUME TypeInv, graph \in Graphs, NEW f, NEW p \in Ps, NEW seen, p \notin seen,
         \A x \in Matches : Feeds(x, p) => row[x].state = "complete"
  PROVE  Visit(f, p, seen) = [ok |-> FALSE, seen |-> seen \cup {p}]
<1>1. p # NoPointer
  BY PointerIs DEF Ps
<1>2. \A x \in Matches : row[x].state # "complete" => graph.winnerTo[x] # p /\ graph.loserTo[x] # p
  BY <1>1 DEF Feeds
<1> DEFINE wins == {y \in Matches : graph.winnerTo[y] = p /\ row[y].state # "complete"}
           drops == {y \in Matches : graph.loserTo[y] = p /\ row[y].state # "complete"}
<1>3. wins = {} /\ drops = {}
  BY <1>2
<1>4. wins = {} /\ drops = {} => Visit(f, p, seen) = [ok |-> FALSE, seen |-> seen \cup {p}]
  BY DEF Visit
<1> QED
  BY <1>3, <1>4

(* What a visit asks has more behind it. *)
LEMMA LiveIs ==
  ASSUME TypeInv, graph \in Graphs, NEW f, NEW x \in Matches, NEW s \in {1, 2}, NEW k \in Int,
         Follows(f, k), NEW seen \in SUBSET Ps, Unseen(seen) <= k
  PROVE  SlotLive(f, x, s, seen) \in Answers /\ seen \subseteq SlotLive(f, x, s, seen).seen
<1> DEFINE p == [match |-> x, slot |-> s]
<1>1. p \in Ps
  BY PointerIs DEF Ps
<1> HIDE DEF p
<1>2. f[<<p, seen>>] \in Answers /\ seen \subseteq f[<<p, seen>>].seen
  BY <1>1 DEF Follows, Answering
<1>3. [ok |-> TRUE, seen |-> seen] \in Answers
  BY DEF Answers
<1> QED
  BY <1>2, <1>3 DEF SlotLive, p

Agree(f, g, k) ==
  \A q \in Ps, more \in SUBSET Ps : Unseen(more) <= k => g[<<q, more>>] = f[<<q, more>>]

(* Two recursions that agree on what has more behind it visit alike. *)
LEMMA VisitSame ==
  ASSUME TypeInv, graph \in Graphs, NEW k \in Int, NEW f, NEW g, Follows(f, k - 1),
         Agree(f, g, k - 1),
         NEW p \in Ps, NEW seen \in SUBSET Ps, Unseen(seen) <= k
  PROVE  Visit(g, p, seen) = Visit(f, p, seen) /\ Visit(f, p, seen) \in Answers
         /\ seen \subseteq Visit(f, p, seen).seen
<1> DEFINE next == seen \cup {p}
<1>1. CASE p \in seen
  <2>1. Visit(f, p, seen) = [ok |-> FALSE, seen |-> seen]
    BY <1>1, VisitSeen
  <2>2. Visit(g, p, seen) = [ok |-> FALSE, seen |-> seen]
    BY <1>1, VisitSeen
  <2> QED
    BY <2>1, <2>2 DEF Answers
<1>2. CASE p \notin seen
  <2>1. next \in SUBSET Ps /\ Unseen(next) <= k - 1
    <3>1. Unseen(next) \in Nat /\ Unseen(seen) \in Nat /\ Unseen(next) < Unseen(seen)
      BY <1>2, FewerUnseen
    <3> QED
      BY <3>1
  <2>2. ASSUME NEW more \in SUBSET Ps, next \subseteq more PROVE Unseen(more) <= k - 1
    <3>1. Unseen(more) \in Nat /\ Unseen(seen) \in Nat /\ Unseen(more) < Unseen(seen)
      BY <1>2, <2>2, FewerUnseen
    <3> QED
      BY <3>1
  <2> HIDE DEF next
  <2>3. ASSUME NEW x \in Matches, NEW s \in {1, 2}, NEW more \in SUBSET Ps, next \subseteq more
        PROVE  /\ SlotLive(g, x, s, more) = SlotLive(f, x, s, more)
               /\ SlotLive(f, x, s, more) \in Answers /\ next \subseteq SlotLive(f, x, s, more).seen
    <3>1. Unseen(more) <= k - 1
      BY <2>2, <2>3
    <3>2. SlotLive(f, x, s, more) \in Answers /\ more \subseteq SlotLive(f, x, s, more).seen
      <4>1. k - 1 \in Int
        OBVIOUS
      <4> QED
        BY <3>1, <4>1, LiveIs
    <3>3. [match |-> x, slot |-> s] \in Ps
      BY PointerIs DEF Ps
    <3>4. SlotLive(g, x, s, more) = SlotLive(f, x, s, more)
      BY <3>1, <3>3 DEF SlotLive, Agree
    <3> QED
      BY <2>3, <3>2, <3>4
  <2>4. ASSUME NEW x \in Matches
        PROVE  /\ CanProduceWinner(g, x, next) = CanProduceWinner(f, x, next)
               /\ CanProduceWinner(f, x, next) \in Answers
               /\ next \subseteq CanProduceWinner(f, x, next).seen
               /\ CanProduceLoser(g, x, next) = CanProduceLoser(f, x, next)
               /\ CanProduceLoser(f, x, next) \in Answers
               /\ next \subseteq CanProduceLoser(f, x, next).seen
    <3>1. PICK one : one = SlotLive(f, x, 1, next)
      OBVIOUS
    <3>2. /\ SlotLive(g, x, 1, next) = one /\ one \in Answers /\ next \subseteq one.seen
      BY <2>1, <2>3, <3>1
    <3>3. one.seen \in SUBSET Ps /\ one.ok \in BOOLEAN
      BY <3>2 DEF Answers
    <3>4. PICK two : two = SlotLive(f, x, 2, one.seen)
      OBVIOUS
    <3>5. SlotLive(g, x, 2, one.seen) = two /\ two \in Answers /\ next \subseteq two.seen
      BY <2>3, <3>2, <3>3, <3>4
    <3>6. two.seen \in SUBSET Ps /\ two.ok \in BOOLEAN
      BY <3>5 DEF Answers
    <3>7. [ok |-> TRUE, seen |-> next] \in Answers /\ [ok |-> one.ok /\ two.ok, seen |-> two.seen] \in Answers
      BY <2>1, <3>6 DEF Answers
    <3>8. /\ CanProduceLoser(f, x, next) = [ok |-> one.ok /\ two.ok, seen |-> two.seen]
          /\ CanProduceLoser(g, x, next) = [ok |-> one.ok /\ two.ok, seen |-> two.seen]
      BY <3>1, <3>2, <3>4, <3>5 DEF CanProduceLoser
    <3>9. CanProduceWinner(f, x, next) = IF row[x].entry[2] # None THEN [ok |-> TRUE, seen |-> next]
                                         ELSE IF one.ok THEN one ELSE two
      BY <3>1, <3>4 DEF CanProduceWinner
    <3>10. CanProduceWinner(g, x, next) = IF row[x].entry[2] # None THEN [ok |-> TRUE, seen |-> next]
                                          ELSE IF one.ok THEN one ELSE two
      BY <3>2, <3>5 DEF CanProduceWinner
    <3>11. CanProduceWinner(f, x, next) \in Answers /\ next \subseteq CanProduceWinner(f, x, next).seen
      <4>1. CASE row[x].entry[2] # None
        <5>1. CanProduceWinner(f, x, next) = [ok |-> TRUE, seen |-> next]
          BY <3>9, <4>1
        <5> QED
          BY <3>7, <5>1
      <4>2. CASE row[x].entry[2] = None
        BY <3>2, <3>5, <3>9, <4>2
      <4> QED
        BY <4>1, <4>2
    <3> QED
      BY <3>5, <3>7, <3>8, <3>9, <3>10, <3>11
  <2>5. CASE \E x \in Matches : Feeds(x, p) /\ row[x].state # "complete"
    <3>1. PICK x \in Matches : Feeds(x, p) /\ row[x].state # "complete"
      BY <2>5
    <3>2. CASE graph.winnerTo[x] = p
      <4>1. Visit(f, p, seen) = CanProduceWinner(f, x, next)
        BY <1>2, <3>1, <3>2, VisitWinner DEF next
      <4>2. Visit(g, p, seen) = CanProduceWinner(g, x, next)
        BY <1>2, <3>1, <3>2, VisitWinner DEF next
      <4> QED
        BY <2>4, <4>1, <4>2 DEF next
    <3>3. CASE graph.loserTo[x] = p
      <4>1. Visit(f, p, seen) = CanProduceLoser(f, x, next)
        BY <1>2, <3>1, <3>3, VisitLoser DEF next
      <4>2. Visit(g, p, seen) = CanProduceLoser(g, x, next)
        BY <1>2, <3>1, <3>3, VisitLoser DEF next
      <4> QED
        BY <2>4, <4>1, <4>2 DEF next
    <3> QED
      BY <3>1, <3>2, <3>3 DEF Feeds
  <2>6. CASE ~\E x \in Matches : Feeds(x, p) /\ row[x].state # "complete"
    <3>1. Visit(f, p, seen) = [ok |-> FALSE, seen |-> next]
      BY <1>2, <2>6, VisitNobody DEF next
    <3>2. Visit(g, p, seen) = [ok |-> FALSE, seen |-> next]
      BY <1>2, <2>6, VisitNobody DEF next
    <3> QED
      BY <2>1, <3>1, <3>2 DEF Answers, next
  <2> QED
    BY <2>5, <2>6
<1> QED
  BY <1>1, <1>2

LEMMA OneMore ==
  ASSUME TypeInv, graph \in Graphs, NEW k \in Int, NEW f, Follows(f, k - 1), NEW g,
         g = [call \in Ps \X SUBSET Ps |-> Visit(f, call[1], call[2])]
  PROVE  Follows(g, k)
<1>1. \A q \in Ps, more \in SUBSET Ps : g[<<q, more>>] = Visit(f, q, more)
  OBVIOUS
<1>2. Agree(f, g, k - 1)
  BY <1>1 DEF Follows, Answering, Agree
<1>3. ASSUME NEW q \in Ps, NEW more \in SUBSET Ps, Unseen(more) <= k
      PROVE  g[<<q, more>>] \in Answers /\ Answering(g, q, more)
  <2>1. Visit(g, q, more) = Visit(f, q, more) /\ Visit(f, q, more) \in Answers
        /\ more \subseteq Visit(f, q, more).seen
    BY <1>2, <1>3, VisitSame
  <2> QED
    BY <1>1, <2>1 DEF Answering
<1> QED
  BY <1>3 DEF Follows

(* And so does whatever solves its equation. *)
LEMMA SolutionFollows ==
  ASSUME TypeInv, graph \in Graphs, NEW f, NEW k \in Int, Follows(f, k - 1),
         f = [call \in Ps \X SUBSET Ps |-> Visit(f, call[1], call[2])]
  PROVE  Follows(f, k)
BY OneMore

LEMMA Reaches ==
  ASSUME TypeInv, graph \in Graphs, NEW n \in Nat
  PROVE  /\ \E f : Follows(f, n)
         /\ \A f : f = [call \in Ps \X SUBSET Ps |-> Visit(f, call[1], call[2])] => Follows(f, n)
<1> DEFINE Solves(f) == f = [call \in Ps \X SUBSET Ps |-> Visit(f, call[1], call[2])]
           Sound(k) == (\E f : Follows(f, k)) /\ \A f : Solves(f) => Follows(f, k)
           T == {k \in Nat : ~Sound(k)}
<1>1. Sound(-1)
  <2>1. \A seen \in SUBSET Ps : Unseen(seen) \in Nat
    BY FinitePointers, FS_Difference, FS_CardinalityType DEF Unseen
  <2>2. \A seen \in SUBSET Ps : ~(Unseen(seen) <= -1)
    BY <2>1
  <2>3. \A f : Follows(f, -1)
    BY <2>2 DEF Follows
  <2> QED
    BY <2>3
<1>2. ASSUME NEW k \in Int, Sound(k - 1) PROVE Sound(k)
  <2>1. \E f : Follows(f, k)
    <3>1. PICK f : Follows(f, k - 1)
      BY <1>2
    <3> QED
      BY <3>1, OneMore
  <2>2. ASSUME NEW f, Solves(f) PROVE Follows(f, k)
    <3>1. Follows(f, k - 1)
      BY <1>2, <2>2
    <3> QED
      BY <2>2, <3>1, SolutionFollows
  <2> QED
    BY <2>1, <2>2
<1> HIDE DEF Sound
<1>3. T = {}
  <2> SUFFICES ASSUME T # {} PROVE FALSE
    OBVIOUS
  <2>1. PICK k \in T : \A i \in T : k <= i
    <3>1. T \in SUBSET Nat
      OBVIOUS
    <3> HIDE DEF T
    <3> QED
      BY <3>1, LeastNat
  <2>2. k \in Nat /\ ~Sound(k)
    OBVIOUS
  <2>3. CASE k = 0
    <3>1. k - 1 = -1 /\ k \in Int
      BY <2>3
    <3> QED
      BY <1>1, <1>2, <2>2, <3>1
  <2>4. CASE k # 0
    <3>1. k - 1 \in Nat /\ ~(k <= k - 1) /\ k \in Int
      BY <2>2, <2>4
    <3>2. Sound(k - 1)
      BY <2>1, <3>1
    <3> QED
      BY <1>2, <2>2, <3>1, <3>2
  <2> QED
    BY <2>3, <2>4
<1> QED
  BY <1>3 DEF Sound

(* The recursion the code runs answers every call. *)
LEMMA FillIs ==
  ASSUME TypeInv, graph \in Graphs
  PROVE  \E f : /\ \A p \in Ps, seen \in SUBSET Ps :
                     f[<<p, seen>>] \in Answers /\ Answering(f, p, seen)
                /\ \A p \in Ps : SlotCanFill(p) = f[<<p, {}>>].ok
<1> DEFINE S == Ps \X SUBSET Ps
           Solves(f) == f = [call \in S |-> Visit(f, call[1], call[2])]
<1>1. \A seen \in SUBSET Ps : Unseen(seen) \in Nat /\ Unseen(seen) <= Unseen({})
  <2>1. IsFiniteSet(Ps) /\ Ps \ {} = Ps
    BY FinitePointers
  <2> QED
    BY <2>1, FS_Subset, FS_CardinalityType, FS_Difference DEF Unseen
<1>2. Unseen({}) \in Nat
  BY <1>1
<1>3. PICK f : Follows(f, Unseen({}))
  BY <1>2, Reaches
<1>4. \A p \in Ps, seen \in SUBSET Ps : f[<<p, seen>>] \in Answers /\ Answering(f, p, seen)
  BY <1>1, <1>3 DEF Follows
<1>5. \E g : Solves(g)
  <2>0. PICK g : g = [c \in S |-> f[c]]
    OBVIOUS
  <2>1. \A p \in Ps, seen \in SUBSET Ps : g[<<p, seen>>] = f[<<p, seen>>]
    BY <2>0
  <2>2. \A c \in S : g[c] = f[c] /\ c = <<c[1], c[2]>> /\ c[1] \in Ps /\ c[2] \in SUBSET Ps
    BY <2>0
  <2>3. DOMAIN g = S /\ g = [c \in S |-> g[c]]
    BY <2>0
  <2>4. ASSUME NEW p \in Ps, NEW seen \in SUBSET Ps PROVE f[<<p, seen>>] = Visit(g, p, seen)
    <3>1. PICK k \in Int : k = Unseen({}) + 1
      BY <1>2
    <3>2. Follows(f, k - 1) /\ Unseen(seen) <= k
      <4>1. k - 1 = Unseen({}) /\ Unseen(seen) <= k
        BY <1>1, <1>2, <3>1
      <4> QED
        BY <1>3, <4>1
    <3>3. Agree(f, g, k - 1)
      BY <2>1 DEF Agree
    <3>4. Visit(g, p, seen) = Visit(f, p, seen)
      BY <3>2, <3>3, VisitSame
    <3> QED
      BY <1>4, <3>4 DEF Answering
  <2>5. \A c \in S : g[c] = Visit(g, c[1], c[2])
    BY <2>2, <2>4
  <2> HIDE DEF S
  <2>6. Solves(g)
    BY <2>3, <2>5
  <2> QED
    BY <2>6
<1>6. PICK F : F = CHOOSE g : Solves(g)
  OBVIOUS
<1>7. Solves(F)
  BY <1>5, <1>6
<1>8. Follows(F, Unseen({}))
  BY <1>2, <1>7, Reaches
<1>9. \A p \in Ps, seen \in SUBSET Ps : F[<<p, seen>>] \in Answers /\ Answering(F, p, seen)
  BY <1>1, <1>8 DEF Follows
<1>10. \A p \in Ps : SlotCanFill(p) = F[<<p, {}>>].ok
  BY <1>6 DEF SlotCanFill, Ps
<1> QED
  BY <1>9, <1>10

-----------------------------------------------------------------------------
(* The slots no result leads to.                                           *)

Fed(p) == \E x \in Matches : Feeds(x, p)

(* The writes of a walk complete no match, and put nobody in a slot that   *)
(* no result leads to.                                                     *)
LEMMA SlotWrites ==
  ASSUME SlotInv, NEW w \in Worker,
         PlaceEntry(w) \/ ClearReset(w) \/ OpenReset(w) \/ SettleOpens(w) \/ SettleWaits(w)
  PROVE  Frozen /\ UNCHANGED status /\ \A p \in Pointers(graph) : ~Fed(p) => At(p)' = At(p)
<1>0. PICK j : j = job[w]
  OBVIOUS
<1>h. PICK h, m : h = Head(j.todo) /\ m = h.match
  OBVIOUS
<1>1. TypeInv /\ graph \in Graphs
  BY DEF SlotInv
<1>2. PICK task \in {"place", "clear", "reopen", "settle"} : Working(w, task)
  BY DEF PlaceEntry, ClearReset, OpenReset, SettleOpens, SettleWaits
<1>3. /\ j.busy /\ h.do = task /\ m \in Matches /\ h.slot \in {1, 2} /\ j.copy = row[m]
      /\ row[m] \in Row /\ TaskOk(j, h) /\ (task = "settle" => row[m].state # "complete")
  BY <1>0, <1>2, <1>h, HeldRow
<1>4. row[m].state # "complete" /\ UNCHANGED <<graph, status>>
  BY <1>0, <1>2, <1>3, <1>h DEF TaskOk, PlaceEntry, ClearReset, OpenReset, SettleOpens, SettleWaits
<1>5. ASSUME NEW newRow, Save(w, newRow, <<>>), newRow.state # "complete",
             \A p \in Pointers(graph) : p.match = m /\ newRow.entry[p.slot] # At(p) => Fed(p)
      PROVE  Frozen /\ \A p \in Pointers(graph) : ~Fed(p) => At(p)' = At(p)
  <2>1. row' = [row EXCEPT ![m] = newRow]
    BY <1>0, <1>5, <1>h DEF Save
  <2>2. row'[m] = newRow /\ \A x \in Matches : x # m => row'[x] = row[x]
    BY <1>1, <1>3, <2>1 DEF TypeInv, TypeOK, Matches
  <2>3. Frozen
    BY <1>4, <1>5, <2>2 DEF Frozen
  <2>4. \A p \in Pointers(graph) : p.match \in Matches
    BY <1>1, PointerIs
  <2> QED
    BY <1>5, <2>2, <2>3, <2>4 DEF At
<1>6. CASE PlaceEntry(w)
  <2>1. PICK newRow : newRow = [row[m] EXCEPT !.entry[h.slot] = h.entry]
    OBVIOUS
  <2>2. Save(w, newRow, <<>>) /\ task = "place"
    BY <1>0, <1>2, <1>3, <1>6, <1>h, <2>1 DEF PlaceEntry, Working
  <2>3. PICK x \in Matches, q \in Pointers(graph) : q.match = m /\ q.slot = h.slot /\ Feeds(x, q)
    BY <1>3, <1>h, <2>2 DEF TaskOk
  <2>4. /\ newRow.state = row[m].state
        /\ \A s \in {1, 2} : s # h.slot => newRow.entry[s] = row[m].entry[s]
    BY <1>3, <2>1 DEF Row, Slot
  <2>5. ASSUME NEW p \in Pointers(graph), p.match = m, newRow.entry[p.slot] # At(p) PROVE Fed(p)
    <3>1. p.slot = h.slot
      BY <1>1, <2>4, <2>5, PointerIs DEF At
    <3>2. p = q
      BY <1>1, <2>3, <2>5, <3>1, SlotOf
    <3> QED
      BY <2>3, <3>2 DEF Fed
  <2> QED
    BY <1>4, <1>5, <2>2, <2>4, <2>5
<1>7. CASE ClearReset(w) \/ OpenReset(w)
  <2>1. task \in {"clear", "reopen"}
    BY <1>2, <1>7 DEF ClearReset, OpenReset, Working
  <2>2. IsGrandFinal1(j.match) /\ m = graph.winnerTo[j.match].match /\ j.match \in Matches
    BY <1>0, <1>3, <1>h, <2>1, Holding DEF TaskOk
  <2>3. \A p \in Pointers(graph) : p.match = m => Fed(p)
    BY <1>1, <2>2, ResetIs DEF Fed
  <2>4. CASE ClearReset(w)
    <3>1. Save(w, BlankRow, <<>>) /\ BlankRow.state # "complete"
      BY <2>4 DEF ClearReset, BlankRow
    <3> QED
      BY <1>4, <1>5, <2>3, <3>1
  <2>5. CASE OpenReset(w)
    <3>1. PICK newRow : newRow = [row[m] EXCEPT !.entry[graph.winnerTo[j.match].slot] = j.winner,
                                                !.entry[graph.loserTo[j.match].slot] = j.loser,
                                                !.state = "open"]
      OBVIOUS
    <3>2. Save(w, newRow, <<>>)
      BY <1>0, <1>3, <2>5, <3>1 DEF OpenReset
    <3>3. newRow.state = "open"
      BY <1>3, <3>1 DEF Row
    <3> QED
      BY <1>4, <1>5, <2>3, <3>2, <3>3
  <2> QED
    BY <1>7, <2>4, <2>5
<1>8. CASE SettleOpens(w) \/ SettleWaits(w)
  <2>1. PICK st \in {"open", "pending"} : Save(w, [row[m] EXCEPT !.state = st], <<>>)
    BY <1>0, <1>3, <1>8 DEF SettleOpens, SettleWaits
  <2>2. PICK newRow : newRow = [row[m] EXCEPT !.state = st]
    OBVIOUS
  <2>3. newRow.state = st /\ newRow.entry = row[m].entry
    BY <1>3, <2>2 DEF Row
  <2> QED
    BY <1>4, <1>5, <2>1, <2>2, <2>3 DEF At
<1> QED
  BY <1>6, <1>7, <1>8

-----------------------------------------------------------------------------
(* Where the results start from.                                           *)

(* Before the stage starts, or when it never does, nothing has happened;   *)
(* from then on the seeds stand in their slots, the byes are complete, and *)
(* whatever is complete has a winner.                                      *)
Unstarted ==
  stage \in {"draft", "cancelled"} /\ Quiet /\ \A x \in Matches : row[x] = BlankRow

Started ==
  /\ \A p \in Pointers(graph) : graph.seeds[p.match][p.slot] # None => At(p) # None
  /\ \A x \in Matches : IsBye(x) => row[x].state = "complete"
  /\ \A x \in Matches : row[x].state = "complete" => row[x].winner # None

SeedInv == Unstarted \/ Started

LEMMA SeedInit == Init => SeedInv
BY DEF Init, SeedInv, Unstarted, Quiet, Matches

LEMMA SeedStart ==
  ASSUME SlotInv, StartBracket
  PROVE  SeedInv'
<1>1. TypeInv /\ graph \in Graphs /\ graph' = graph
  BY DEF SlotInv, StartBracket
<1>2. \A p \in Pointers(graph) : p.match \in Matches /\ p.slot \in {1, 2}
  BY <1>1, PointerIs
<1>3. \A m \in Matches, s \in {1, 2} :
        graph.seeds[m][s] # None => row'[m].entry[s] = graph.seeds[m][s]
  BY StartIs
<1>4. \A x \in Matches : /\ row'[x].state = "complete" => IsBye(x)
                         /\ IsBye(x) => Decided(x)'
  BY StartIs
<1>5. \A p \in Pointers(graph) : graph.seeds[p.match][p.slot] # None => At(p)' # None
  BY <1>2, <1>3 DEF At
<1>6. \A x : IsBye(x)' <=> IsBye(x)
  BY <1>1 DEF IsBye
<1>7. Matches' = Matches /\ Pointers(graph)' = Pointers(graph)
  BY <1>1 DEF Matches, Pointers
<1>8. Started'
  BY <1>1, <1>4, <1>5, <1>6, <1>7 DEF Started, Decided
<1> QED
  BY <1>8 DEF SeedInv

(* A match is completed with a winner, and its slots are left as they are. *)
LEMMA SeedDecides ==
  ASSUME SlotInv, Started, OneAtATime, RefusedIsDead, NEW w \in Worker,
         RecordResult(w) \/ SettleWalkover(w)
  PROVE  Started'
<1>1. TypeInv /\ graph \in Graphs /\ None \notin Entry
  BY EntryAssumption DEF SlotInv
<1>2. PICK m \in Matches :
        /\ row'[m].winner \in Entry /\ row'[m].state = "complete" /\ UNCHANGED graph
        /\ \A x \in Matches : x # m => row'[x] = row[x]
        /\ \A p \in Pointers(graph) : At(p)' = At(p)
  <2>1. CASE RecordResult(w)
    BY <2>1, RecordIs
  <2>2. CASE SettleWalkover(w)
    BY <2>2, WalkoverIs
  <2> QED
    BY <2>1, <2>2
<1>3. \A x : IsBye(x)' <=> IsBye(x)
  BY <1>2 DEF IsBye
<1>4. Matches' = Matches /\ Pointers(graph)' = Pointers(graph)
  BY <1>2 DEF Matches, Pointers
<1>5. \A x \in Matches : /\ row[x].state = "complete" => row'[x].state = "complete"
                         /\ row'[x].state = "complete" /\ row'[x].winner = None =>
                              row[x].state = "complete" /\ row[x].winner = None
  BY <1>1, <1>2
<1> QED
  BY <1>2, <1>3, <1>4, <1>5 DEF Started

LEMMA SeedFrozen ==
  ASSUME SlotInv, Started, Frozen, \A p \in Pointers(graph) : ~Fed(p) => At(p)' = At(p)
  PROVE  Started'
<1>1. TypeInv /\ graph \in Graphs /\ graph' = graph
  BY DEF SlotInv, Frozen
<1>2. \A x : IsBye(x)' <=> IsBye(x)
  BY <1>1 DEF IsBye
<1>3. Matches' = Matches /\ Pointers(graph)' = Pointers(graph)
  BY <1>1 DEF Matches, Pointers
<1>4. ASSUME NEW p \in Pointers(graph), graph.seeds[p.match][p.slot] # None PROVE At(p)' # None
  <2>1. p.slot \in {1, 2}
    BY <1>1, PointerIs
  <2>2. ~Fed(p)
    BY <1>1, <1>4, <2>1, SeedIs DEF Fed
  <2> QED
    BY <1>4, <2>2 DEF Started
<1>5. \A x \in Matches : /\ row[x].state = "complete" => row'[x].state = "complete"
                         /\ row'[x].state = "complete" => row'[x].winner # None
  BY DEF Started, Frozen
<1> QED
  BY <1>1, <1>2, <1>3, <1>4, <1>5 DEF Started

LEMMA SeedStep ==
  ASSUME OneAtATime
  PROVE  SlotInv /\ SeedInv /\ RefusedIsDead /\ [Next]_vars => SeedInv'
<1> SUFFICES ASSUME SlotInv, SeedInv, RefusedIsDead, [Next]_vars PROVE SeedInv'
  OBVIOUS
<1>1. CASE StartBracket
  BY <1>1, SeedStart
<1>2. CASE ~StartBracket /\ Unstarted
  <2>1. \A w \in Worker : ~job[w].busy
    BY <1>2 DEF Unstarted, Quiet, Idle
  <2>2. \A w \in Worker : ~Continue(w)
    BY <2>1 DEF Continue, RecordResult, FetchRow, PlaceEntry, ClearReset, OpenReset, SettleOpens,
                SettleWaits, SettleWalkover, FinishResult, Working
  <2>3. \A m \in Matches : row[m].state # "complete"
    BY <1>2 DEF Unstarted, BlankRow
  <2>4. UNCHANGED <<graph, row, job>> /\ stage' \in {"draft", "cancelled"}
    BY <1>2, <2>2, <2>3 DEF Next, SomeReport, ReportResult, OverrideResult, CompleteStage, CancelStage,
                            RetireEntry, vars, Unstarted
  <2>5. Unstarted'
    BY <1>2, <2>4 DEF Unstarted, Quiet, Matches
  <2> QED
    BY <2>5 DEF SeedInv
<1>3. CASE ~StartBracket /\ Started
  <2>1. ASSUME NEW w \in Worker, Continue(w), ~FetchRow(w), ~FinishResult(w) PROVE Started'
    BY <1>3, <2>1, SeedDecides, SlotWrites, SeedFrozen DEF Continue
  <2>2. ASSUME UNCHANGED <<graph, row>> PROVE Started'
    <3>1. Frozen /\ \A p : At(p)' = At(p)
      BY <2>2 DEF Frozen, At
    <3> QED
      BY <1>3, <3>1, SeedFrozen
  <2>3. CASE ~\E w \in Worker : Continue(w) /\ ~FetchRow(w) /\ ~FinishResult(w)
    <3>1. UNCHANGED <<graph, row>>
      BY <1>3, <2>3 DEF Next, SomeReport, ReportResult, OverrideResult, CompleteStage, CancelStage,
                        RetireEntry, vars, FetchRow, FinishResult
    <3> QED
      BY <2>2, <3>1 DEF SeedInv
  <2> QED
    BY <2>1, <2>3 DEF SeedInv
<1> QED
  BY <1>1, <1>2, <1>3 DEF SeedInv

-----------------------------------------------------------------------------
(* What _slot_can_fill answers while a request settles.                    *)

Settled == SlotInv /\ Started /\ \A p : ~Coming(p)

LEMMA SettlesAlone ==
  ASSUME SlotInv, SeedInv, OneAtATime, NEW w \in Worker, Working(w, "settle")
  PROVE  Settled
<1>0. PICK j : j = job[w]
  OBVIOUS
<1>1. /\ j.busy /\ j.todo # <<>> /\ j.todo \in Seq(LiveTask) /\ Ordered(j.todo)
      /\ Head(j.todo).do = "settle"
  BY <1>0, Holding, HeldRow DEF JobOk
<1>2. Started
  BY <1>0, <1>1 DEF SeedInv, Unstarted, Quiet, Idle
<1>3. /\ Tasks(j.todo) = {Head(j.todo)} \cup Tasks(Tail(j.todo))
      /\ \A t \in Tasks(Tail(j.todo)) : t.do = "settle"
  BY <1>1, HeadIs
<1>4. \A p : ~Coming(p)
  BY <1>0, <1>1, <1>3, Alone1 DEF OnItsWay
<1> QED
  BY <1>2, <1>4 DEF Settled

LEMMA SettledIs ==
  ASSUME Settled
  PROVE  /\ SlotInv /\ TypeInv /\ graph \in Graphs /\ RowsInv /\ Started
         /\ Upper(graph) \subseteq Matches /\ Lower(graph) \subseteq Matches
         /\ \A x \in Matches : graph.round[x] \in Int
         /\ \A x \in Upper(graph) : graph.round[x] \in Nat
         /\ \A x, s : [match |-> x, slot |-> s].match = x /\ [match |-> x, slot |-> s].slot = s
         /\ \A x \in Matches, s \in {1, 2} : [match |-> x, slot |-> s] \in Ps
<1>1. SlotInv /\ TypeInv /\ graph \in Graphs /\ RowsInv /\ Started
  BY DEF Settled, SlotInv
<1>2. \A x \in Matches : graph.round[x] \in Int
  BY <1>1 DEF TypeInv, TypeOK, Fits, WellFormed, Matches
<1>3. Upper(graph) \subseteq Matches /\ Lower(graph) \subseteq Matches
  BY DEF Upper, Lower, Matches
<1>4. \A x \in Upper(graph) : graph.round[x] > 0
  BY DEF Upper
<1> QED
  BY <1>1, <1>2, <1>3, <1>4, PointerIs DEF Ps

(* Whoever a complete match sends on has come, except to the reset. *)
LEMMA Arrived ==
  ASSUME Settled, NEW x \in Matches, NEW p, Feeds(x, p), row[x].state = "complete",
         ~IsGrandFinal1(x)
  PROVE  /\ p = graph.winnerTo[x] => At(p) # None
         /\ p = graph.loserTo[x] /\ Contested(row[x]) => At(p) # None
<1>1. SlotInv /\ TypeInv /\ graph \in Graphs /\ Started /\ Delivered /\ \A q : ~Coming(q)
  BY SettledIs DEF Settled, SlotInv
<1>2. At(p) = Sent(x, p)
  BY <1>1, PointerIs DEF Delivered
<1>3. Decided(x) /\ row[x].winner # None /\ ~Titled(x)
  BY <1>1 DEF Started, Decided, Titled
<1>4. p = graph.winnerTo[x] => Sent(x, p) = row[x].winner
  BY <1>3 DEF Sent, Won
<1>5. p = graph.loserTo[x] => p # graph.winnerTo[x]
  BY <1>1, TwoPointers DEF Feeds
<1>6. p = graph.loserTo[x] /\ Contested(row[x]) => Sent(x, p) = Loser(row[x])
  BY <1>3, <1>5 DEF Sent, Lost
<1> QED
  BY <1>2, <1>3, <1>4, <1>6 DEF Loser, Contested

(* A match of the winners bracket that no two can play is a bye. *)
LEMMA UpperDead ==
  ASSUME Settled, NEW x \in Upper(graph), NEW s \in {1, 2}, [match |-> x, slot |-> s] \in Dead
  PROVE  IsBye(x)
<1> DEFINE slot(y, t) == [match |-> y, slot |-> t]
           seeded(y) == graph.seeds[y][1] # None \/ graph.seeds[y][2] # None
<1>1. TypeInv /\ graph \in Graphs /\ graph.matches = Matches /\ Upper(graph) \subseteq Matches
  BY SettledIs DEF Matches
<1>2. \A p \in Dead : graph.seeds[p.match][p.slot] = None
  BY DEF Dead, Closed
<1>3. ASSUME NEW y \in Upper(graph), ~seeded(y), NEW t \in {1, 2}, slot(y, t) \in Dead
      PROVE  \E z \in Upper(graph) : /\ graph.round[z] < graph.round[y]
                                     /\ slot(z, 1) \in Dead /\ slot(z, 2) \in Dead
  <2>1. TwoBrackets(graph) /\ t \in Slot
    BY <1>1, GraphsFit DEF Slot
  <2>2. PICK z \in Matches : graph.winnerTo[z] = slot(y, t)
    BY <1>1, <1>3, <2>1 DEF TwoBrackets
  <2>3. Feeds(z, slot(y, t))
    <3>1. slot(y, t) \in Pointers(graph) /\ NoPointer \notin Pointers(graph)
      BY <1>1, PointerIs
    <3> HIDE DEF slot
    <3> QED
      BY <2>2, <3>1 DEF Feeds
  <2>4. slot(z, 1) \in Dead /\ slot(z, 2) \in Dead
    BY <1>1, <1>3, <2>2, <2>3, DeadIs
  <2>5. graph.winnerTo[z] # NoPointer /\ graph.winnerTo[z].match = y
    BY <2>2, <2>3 DEF Feeds
  <2>6. z \in Upper(graph) /\ graph.round[z] < graph.round[y]
    BY <1>1, <1>3, <2>1, <2>5 DEF TwoBrackets
  <2> QED
    BY <2>4, <2>6
<1> DEFINE T == {graph.round[y] : y \in {z \in Upper(graph) : slot(z, 1) \in Dead /\ slot(z, 2) \in Dead}}
<1>4. T = {}
  <2> SUFFICES ASSUME T # {} PROVE FALSE
    OBVIOUS
  <2>1. T \in SUBSET Nat
    BY SettledIs
  <2>2. PICK n \in T : \A k \in T : n <= k
    <3> HIDE DEF T
    <3> QED
      BY <2>1, LeastNat
  <2>3. PICK y \in Upper(graph) : graph.round[y] = n /\ slot(y, 1) \in Dead /\ slot(y, 2) \in Dead
    OBVIOUS
  <2>4. ~seeded(y)
    BY <1>2, <2>3
  <2>5. PICK z \in Upper(graph) : /\ graph.round[z] < graph.round[y]
                                  /\ slot(z, 1) \in Dead /\ slot(z, 2) \in Dead
    BY <1>3, <2>3, <2>4
  <2>6. graph.round[z] \in T
    BY <2>5
  <2>7. n \in Nat /\ graph.round[z] \in Nat
    BY <2>1, <2>6
  <2>8. n <= graph.round[z]
    BY <2>2, <2>6
  <2> HIDE DEF T, slot
  <2> QED
    BY <2>3, <2>5, <2>7, <2>8
<1>5. graph.seeds[x][s] = None
  BY <1>2
<1>6. seeded(x)
  BY <1>3, <1>4
<1> QED
  BY <1>5, <1>6 DEF IsBye

(* A winners-bracket match that is not complete has an entrant in each     *)
(* slot, or one that an earlier such match will send there.                *)
LEMMA UpperOpen ==
  ASSUME Settled, NEW x \in Upper(graph), row[x].state # "complete", NEW s \in {1, 2},
         row[x].entry[s] = None
  PROVE  \E y \in Upper(graph) : /\ graph.winnerTo[y] = [match |-> x, slot |-> s]
                                 /\ row[y].state # "complete" /\ graph.round[y] < graph.round[x]
<1>1. TypeInv /\ graph \in Graphs /\ graph.matches = Matches /\ Upper(graph) \subseteq Matches /\ Started
  BY SettledIs DEF Matches
<1>2. TwoBrackets(graph) /\ s \in Slot /\ x \in Matches
  BY <1>1, GraphsFit DEF Slot
<1> DEFINE p == [match |-> x, slot |-> s]
<1>3. p \in Pointers(graph) /\ p \in Ps /\ p # NoPointer /\ p.match = x /\ p.slot = s /\ At(p) = None
  BY <1>1, <1>2, PointerIs DEF At, Ps
<1>4. graph.seeds[x][s] = None /\ ~IsBye(x)
  BY <1>1, <1>2, <1>3 DEF Started
<1>5. ~(graph.seeds[x][1] # None \/ graph.seeds[x][2] # None)
  BY <1>4 DEF IsBye
<1>6. PICK y \in Matches : graph.winnerTo[y] = p
  BY <1>1, <1>2, <1>5 DEF TwoBrackets
<1>7. Feeds(y, p) /\ graph.winnerTo[y] # NoPointer /\ graph.winnerTo[y].match = x
  BY <1>3, <1>6 DEF Feeds
<1>8. y \in Upper(graph) /\ graph.round[y] < graph.round[x]
  BY <1>1, <1>2, <1>7 DEF TwoBrackets
<1>9. ~IsGrandFinal1(y)
  BY <1>1, <1>7 DEF IsGrandFinal1, Upper
<1>10. row[y].state # "complete"
  BY <1>3, <1>6, <1>7, <1>9, Arrived
<1> QED
  BY <1>6, <1>8, <1>10

(* f answers every call. *)
Fills(f) ==
  \A p \in Ps, seen \in SUBSET Ps : f[<<p, seen>>] \in Answers /\ Answering(f, p, seen)

(* No slot on the way from this one up the winners bracket was visited:    *)
(* what was visited there leads on past it.                                *)
Unvisited(x, s, seen) ==
  \E S \in SUBSET Ps :
    /\ [match |-> x, slot |-> s] \notin S
    /\ \A q \in seen : q.match \in Upper(graph) => q \in S
    /\ \A q \in S : graph.round[q.match] < graph.round[x] => graph.winnerTo[q.match] \in S

(* The slot is live, and only slots on the way to it are visited.          *)
Lives(f, x, s, seen) ==
  /\ SlotLive(f, x, s, seen).ok
  /\ \E V \in SUBSET Ps :
       /\ SlotLive(f, x, s, seen).seen \subseteq seen \cup V
       /\ SlotLive(f, x, s, seen).seen \in SUBSET Ps
       /\ \A q \in V : \/ q = [match |-> x, slot |-> s]
                       \/ graph.round[q.match] < graph.round[x] /\ graph.winnerTo[q.match] \in V

AllLive(f, x) ==
  \A s \in {1, 2}, seen \in SUBSET Ps : Unvisited(x, s, seen) => Lives(f, x, s, seen)

LEMMA UpperRound ==
  ASSUME Settled, NEW f, Fills(f), NEW x \in Upper(graph), row[x].state # "complete",
         \A y \in Upper(graph) :
           row[y].state # "complete" /\ graph.round[y] < graph.round[x] => AllLive(f, y)
  PROVE  AllLive(f, x)
<1> SUFFICES ASSUME NEW s \in {1, 2}, NEW seen \in SUBSET Ps, Unvisited(x, s, seen)
             PROVE  Lives(f, x, s, seen)
  BY DEF AllLive
<1>1. TypeInv /\ graph \in Graphs /\ Upper(graph) \subseteq Matches /\ x \in Matches
  BY SettledIs
<1>2. PICK p : p = [match |-> x, slot |-> s]
  OBVIOUS
<1>3. p \in Ps /\ p.match = x /\ p.slot = s
  BY <1>2, SettledIs
<1>4. PICK S \in SUBSET Ps :
        /\ p \notin S
        /\ \A q \in seen : q.match \in Upper(graph) => q \in S
        /\ \A q \in S : graph.round[q.match] < graph.round[x] => graph.winnerTo[q.match] \in S
  BY <1>2 DEF Unvisited
<1> DEFINE Past(V) ==
             \A q \in V : q # p => /\ graph.round[q.match] < graph.round[x]
                                  /\ graph.winnerTo[q.match] \in V
           a == SlotLive(f, x, s, seen)
<1>5. ASSUME NEW V \in SUBSET Ps, a.ok, a.seen \subseteq seen \cup V, Past(V)
      PROVE  Lives(f, x, s, seen)
  <2>1. a.seen \in SUBSET Ps
    BY <1>5
  <2> QED
    BY <1>2, <1>5, <2>1 DEF Lives
<1>6. CASE row[x].entry[s] # None
  <2>1. a = [ok |-> TRUE, seen |-> seen]
    BY <1>6 DEF SlotLive
  <2>2. {} \in SUBSET Ps /\ Past({}) /\ a.ok /\ a.seen \subseteq seen \cup {}
    BY <2>1
  <2> HIDE DEF a, Past
  <2> QED
    BY <1>5, <2>2
<1>7. CASE row[x].entry[s] = None
  <2>1. PICK y \in Upper(graph) : /\ graph.winnerTo[y] = p
                                  /\ row[y].state # "complete" /\ graph.round[y] < graph.round[x]
    BY <1>2, <1>7, UpperOpen
  <2>2. p \notin seen
    BY <1>3, <1>4
  <2>3. PICK next : next = seen \cup {p}
    OBVIOUS
  <2>4. SlotLive(f, x, s, seen) = CanProduceWinner(f, y, next)
    <3>1. Visit(f, p, seen) = CanProduceWinner(f, y, next)
      BY <1>1, <1>3, <2>1, <2>2, <2>3, VisitWinner
    <3> QED
      BY <1>2, <1>3, <1>7, <3>1 DEF SlotLive, Fills, Answering
  <2>5. CASE row[y].entry[2] # None
    <3>1. SlotLive(f, x, s, seen) = [ok |-> TRUE, seen |-> next]
      BY <2>4, <2>5 DEF CanProduceWinner
    <3>2. {p} \in SUBSET Ps /\ Past({p}) /\ a.ok /\ a.seen \subseteq seen \cup {p}
      BY <1>3, <2>3, <3>1
    <3> HIDE DEF a, Past
    <3> QED
      BY <1>5, <3>2
  <2>6. CASE row[y].entry[2] = None
    <3>1. PICK one : one = SlotLive(f, y, 1, next)
      OBVIOUS
    <3>2. next \in SUBSET Ps
      BY <1>3, <2>3
    <3>3. PICK r, n \in Int : r = graph.round[y] /\ n = graph.round[x] /\ r < n
      BY <1>1, <2>1, SettledIs
    <3>4. \A q \in Ps : q.match \in Matches /\ graph.round[q.match] \in Int
      BY <1>1, PointerIs, SettledIs DEF Ps
    <3>5. PICK p1 : p1 = [match |-> y, slot |-> 1]
      OBVIOUS
    <3>6. p1.match = y /\ p1 # p
      BY <1>3, <3>3, <3>5
    <3>7. Unvisited(y, 1, next)
      <4>1. S \cup {p} \in SUBSET Ps
        BY <1>3
      <4>2. p1 \notin S \cup {p}
        BY <1>4, <2>1, <3>3, <3>6
      <4>3. \A q \in next : q.match \in Upper(graph) => q \in S \cup {p}
        BY <1>4, <2>3
      <4>4. ASSUME NEW q \in S \cup {p}, graph.round[q.match] < graph.round[y]
            PROVE  graph.winnerTo[q.match] \in S \cup {p}
        <5>1. q \in S
          BY <1>3, <3>3, <4>4
        <5>2. graph.round[q.match] < graph.round[x]
          BY <3>3, <3>4, <4>4, <5>1
        <5> QED
          BY <1>4, <5>1, <5>2
      <4> QED
        BY <3>5, <4>1, <4>2, <4>3, <4>4 DEF Unvisited
    <3>8. Lives(f, y, 1, next)
      <4>1. AllLive(f, y) /\ 1 \in {1, 2}
        BY <2>1
      <4> QED
        BY <3>2, <3>7, <4>1 DEF AllLive
    <3>9. PICK V \in SUBSET Ps :
            /\ one.seen \subseteq next \cup V
            /\ \A q \in V : \/ q = p1
                            \/ graph.round[q.match] < graph.round[y] /\ graph.winnerTo[q.match] \in V
      BY <3>1, <3>5, <3>8 DEF Lives
    <3>10. one.ok /\ SlotLive(f, x, s, seen) = one
      <4>1. one.ok
        BY <3>1, <3>8 DEF Lives
      <4> QED
        BY <2>4, <2>6, <3>1, <4>1 DEF CanProduceWinner
    <3>11. V \cup {p} \in SUBSET Ps /\ one.seen \subseteq seen \cup (V \cup {p})
      BY <1>3, <2>3, <3>9
    <3>12. ASSUME NEW q \in V \cup {p}, q # p
           PROVE  graph.round[q.match] < graph.round[x] /\ graph.winnerTo[q.match] \in V \cup {p}
      <4>1. CASE q = p1
        BY <2>1, <3>6, <4>1
      <4>2. CASE q # p1
        <5>1. graph.round[q.match] < graph.round[y] /\ graph.winnerTo[q.match] \in V
          BY <3>9, <3>12, <4>2
        <5> QED
          BY <3>3, <3>4, <3>12, <5>1
      <4> QED
        BY <4>1, <4>2
    <3>13. V \cup {p} \in SUBSET Ps /\ Past(V \cup {p}) /\ a.ok /\ a.seen \subseteq seen \cup (V \cup {p})
      BY <3>10, <3>11, <3>12
    <3> HIDE DEF a, Past
    <3> QED
      BY <1>5, <3>13
  <2> QED
    BY <2>5, <2>6
<1> QED
  BY <1>6, <1>7

LEMMA UpperLive ==
  ASSUME Settled, NEW f, Fills(f), NEW x \in Upper(graph), row[x].state # "complete"
  PROVE  AllLive(f, x)
<1> DEFINE B == {y \in Upper(graph) : row[y].state # "complete" /\ ~AllLive(f, y)}
           T == {graph.round[y] : y \in B}
<1>1. T = {}
  <2> SUFFICES ASSUME T # {} PROVE FALSE
    OBVIOUS
  <2>1. T \in SUBSET Nat
    BY SettledIs
  <2>2. PICK n \in T : \A k \in T : n <= k
    <3> HIDE DEF T
    <3> QED
      BY <2>1, LeastNat
  <2>3. PICK y \in B : graph.round[y] = n
    OBVIOUS
  <2>4. ASSUME NEW z \in Upper(graph), row[z].state # "complete", graph.round[z] < graph.round[y]
        PROVE  AllLive(f, z)
    <3>1. graph.round[z] \in Nat /\ graph.round[y] \in Nat
      BY <2>4, SettledIs
    <3>2. ~(graph.round[y] <= graph.round[z])
      BY <2>4, <3>1
    <3>3. graph.round[z] \notin T
      BY <2>2, <2>3, <3>2
    <3> QED
      BY <2>4, <3>3
  <2>5. y \in Upper(graph) /\ row[y].state # "complete" /\ ~AllLive(f, y)
    OBVIOUS
  <2> HIDE DEF B, T
  <2> QED
    BY <2>4, <2>5, UpperRound
<1> QED
  BY <1>1

(* So a winners-bracket match not yet complete will have a winner and a    *)
(* loser, and its slots are not refused.                                   *)
LEMMA UpperProduces ==
  ASSUME Settled, NEW f, Fills(f), NEW x \in Upper(graph), row[x].state # "complete",
         NEW seen \in SUBSET Ps, \A q \in seen : q.match \notin Upper(graph)
  PROVE  /\ CanProduceWinner(f, x, seen).ok /\ CanProduceLoser(f, x, seen).ok
         /\ \A s \in {1, 2} : SlotLive(f, x, s, seen).ok
<1>1. ASSUME NEW s \in {1, 2} PROVE Lives(f, x, s, seen)
  <2>1. Unvisited(x, s, seen)
    <3>1. {} \in SUBSET Ps
      OBVIOUS
    <3> QED
      BY <3>1 DEF Unvisited
  <2> QED
    BY <2>1, UpperLive DEF AllLive
<1>2. PICK one : one = SlotLive(f, x, 1, seen)
  OBVIOUS
<1>3. PICK p1, p2 : p1 = [match |-> x, slot |-> 1] /\ p2 = [match |-> x, slot |-> 2]
  OBVIOUS
<1>4. p1 # p2 /\ p1.match = x /\ p2.match = x
  BY <1>3
<1>5. PICK V \in SUBSET Ps :
        /\ one.ok /\ one.seen \subseteq seen \cup V /\ one.seen \in SUBSET Ps
        /\ \A q \in V : \/ q = p1
                        \/ graph.round[q.match] < graph.round[x] /\ graph.winnerTo[q.match] \in V
  BY <1>1, <1>2, <1>3 DEF Lives
<1>6. Unvisited(x, 2, one.seen)
  <2>1. graph.round[x] \in Int
    BY SettledIs
  <2>2. p2 \notin V
    BY <1>4, <1>5, <2>1
  <2>3. \A q \in one.seen : q.match \in Upper(graph) => q \in V
    BY <1>5
  <2>4. \A q \in V : graph.round[q.match] < graph.round[x] => graph.winnerTo[q.match] \in V
    BY <1>4, <1>5, <2>1
  <2> QED
    BY <1>3, <2>2, <2>3, <2>4 DEF Unvisited
<1>7. SlotLive(f, x, 2, one.seen).ok
  <2>1. AllLive(f, x) /\ 2 \in {1, 2}
    BY UpperLive
  <2> QED
    BY <1>5, <1>6, <2>1 DEF AllLive, Lives
<1>8. CanProduceLoser(f, x, seen).ok
  BY <1>2, <1>5, <1>7 DEF CanProduceLoser
<1>9. CanProduceWinner(f, x, seen).ok
  BY <1>2, <1>5 DEF CanProduceWinner
<1> QED
  BY <1>1, <1>8, <1>9 DEF Lives

(* Slots nobody can come to as things are: whatever would send somebody    *)
(* there and is not decided yet is itself without entrants, for good.      *)
Stuck(slots) ==
  \A p \in slots :
    /\ At(p) = None
    /\ \A x \in Matches : row[x].state # "complete" =>
         /\ graph.winnerTo[x] = p => \A s \in {1, 2} : [match |-> x, slot |-> s] \in slots
         /\ graph.loserTo[x] = p => \E s \in {1, 2} : [match |-> x, slot |-> s] \in slots

Hopeless == UNION {slots \in SUBSET Ps : Stuck(slots)}

LEMMA HopelessIs ==
  ASSUME NEW p \in Hopeless
  PROVE  /\ p \in Ps /\ At(p) = None
         /\ \A x \in Matches : row[x].state # "complete" =>
              /\ graph.winnerTo[x] = p => \A s \in {1, 2} : [match |-> x, slot |-> s] \in Hopeless
              /\ graph.loserTo[x] = p => \E s \in {1, 2} : [match |-> x, slot |-> s] \in Hopeless
<1>1. PICK slots \in SUBSET Ps : Stuck(slots) /\ p \in slots
  BY DEF Hopeless
<1>2. slots \subseteq Hopeless
  BY <1>1 DEF Hopeless
<1> QED
  BY <1>1, <1>2 DEF Stuck

LEMMA HopelessIf ==
  ASSUME NEW p \in Ps, At(p) = None,
         \A x \in Matches : row[x].state # "complete" =>
           /\ graph.winnerTo[x] = p => \A s \in {1, 2} : [match |-> x, slot |-> s] \in Hopeless
           /\ graph.loserTo[x] = p => \E s \in {1, 2} : [match |-> x, slot |-> s] \in Hopeless
  PROVE  p \in Hopeless
<1> DEFINE slots == Hopeless \cup {p}
<1>1. slots \in SUBSET Ps
  BY DEF Hopeless
<1>2. ASSUME NEW q \in slots
      PROVE  /\ At(q) = None
             /\ \A x \in Matches : row[x].state # "complete" =>
                  /\ graph.winnerTo[x] = q => \A s \in {1, 2} : [match |-> x, slot |-> s] \in Hopeless
                  /\ graph.loserTo[x] = q => \E s \in {1, 2} : [match |-> x, slot |-> s] \in Hopeless
  <2>1. CASE q = p
    BY <2>1
  <2>2. CASE q \in Hopeless
    BY <2>2, HopelessIs
  <2> QED
    BY <2>1, <2>2
<1>3. Stuck(slots)
  BY <1>2 DEF Stuck
<1> QED
  BY <1>1, <1>3 DEF Hopeless

(* Such as the empty slots of the byes and the walkovers. *)
LEMMA DeadHopeless ==
  ASSUME TypeInv, graph \in Graphs, RowsInv
  PROVE  Dead \subseteq Hopeless
<1>1. Dead \in SUBSET Ps
  BY DEF Dead, Ps
<1>2. ASSUME NEW p \in Dead, NEW x \in Matches
      PROVE  /\ graph.winnerTo[x] = p => \A s \in {1, 2} : [match |-> x, slot |-> s] \in Dead
             /\ graph.loserTo[x] = p => \E s \in {1, 2} : [match |-> x, slot |-> s] \in Dead
  <2>1. p # NoPointer
    BY <1>1, PointerIs DEF Ps
  <2> QED
    BY <2>1, DeadIs DEF Feeds
<1>3. Stuck(Dead)
  BY <1>2 DEF Stuck, RowsInv
<1> QED
  BY <1>1, <1>3 DEF Hopeless

(* They are refused, whatever was visited before. *)
LEMMA HopelessFails ==
  ASSUME TypeInv, graph \in Graphs, NEW f, Fills(f)
  PROVE  \A p \in Hopeless, seen \in SUBSET Ps : ~f[<<p, seen>>].ok
<1> DEFINE Fails(seen) == \A p \in Hopeless : ~f[<<p, seen>>].ok
           B == {seen \in SUBSET Ps : ~Fails(seen)}
           T == {Unseen(seen) : seen \in B}
<1>1. ASSUME NEW seen \in SUBSET Ps,
             \A more \in SUBSET Ps : Unseen(more) < Unseen(seen) => Fails(more),
             NEW p \in Hopeless
      PROVE  ~f[<<p, seen>>].ok
  <2>1. p \in Ps /\ f[<<p, seen>>] = Visit(f, p, seen)
    BY HopelessIs DEF Fills, Answering
  <2>2. CASE p \in seen
    BY <2>1, <2>2, VisitSeen
  <2>3. CASE p \notin seen
    <3>1. PICK next : next = seen \cup {p}
      OBVIOUS
    <3>2. next \in SUBSET Ps
      BY <2>1, <3>1
    <3>3. \A more \in SUBSET Ps : next \subseteq more => Fails(more)
      BY <1>1, <2>1, <2>3, <3>1, FewerUnseen
    <3>4. ASSUME NEW x \in Matches, NEW s \in {1, 2}, [match |-> x, slot |-> s] \in Hopeless,
                 NEW more \in SUBSET Ps, next \subseteq more
          PROVE  /\ ~SlotLive(f, x, s, more).ok /\ next \subseteq SlotLive(f, x, s, more).seen
                 /\ SlotLive(f, x, s, more).seen \in SUBSET Ps /\ row[x].entry[s] = None
      <4>1. PICK q : q = [match |-> x, slot |-> s]
        OBVIOUS
      <4>2. q \in Hopeless /\ q \in Ps /\ At(q) = None /\ q.match = x /\ q.slot = s
        BY <3>4, <4>1, HopelessIs
      <4>3. SlotLive(f, x, s, more) = f[<<q, more>>] /\ row[x].entry[s] = None
        BY <4>1, <4>2 DEF SlotLive, At
      <4>4. ~f[<<q, more>>].ok
        BY <3>3, <3>4, <4>2
      <4>5. f[<<q, more>>] \in Answers /\ more \subseteq f[<<q, more>>].seen
        BY <4>2 DEF Fills, Answering
      <4> QED
        BY <3>4, <4>3, <4>4, <4>5 DEF Answers
    <3>5. ASSUME NEW x \in Matches, graph.winnerTo[x] = p, row[x].state # "complete"
          PROVE  ~Visit(f, p, seen).ok
      <4>1. Visit(f, p, seen) = CanProduceWinner(f, x, next)
        BY <2>1, <2>3, <3>1, <3>5, VisitWinner
      <4>2. [match |-> x, slot |-> 1] \in Hopeless /\ [match |-> x, slot |-> 2] \in Hopeless
        BY <3>5, HopelessIs
      <4>3. PICK one : one = SlotLive(f, x, 1, next)
        OBVIOUS
      <4>4. ~one.ok /\ next \subseteq one.seen /\ one.seen \in SUBSET Ps
        BY <3>2, <3>4, <4>2, <4>3
      <4>5. ~SlotLive(f, x, 2, one.seen).ok /\ row[x].entry[2] = None
        BY <3>4, <4>2, <4>4
      <4>6. CanProduceWinner(f, x, next) = SlotLive(f, x, 2, one.seen)
        BY <4>3, <4>4, <4>5 DEF CanProduceWinner
      <4> QED
        BY <4>1, <4>5, <4>6
    <3>6. ASSUME NEW x \in Matches, graph.loserTo[x] = p, row[x].state # "complete"
          PROVE  ~Visit(f, p, seen).ok
      <4>1. Visit(f, p, seen) = CanProduceLoser(f, x, next)
        BY <2>1, <2>3, <3>1, <3>6, VisitLoser
      <4>2. [match |-> x, slot |-> 1] \in Hopeless \/ [match |-> x, slot |-> 2] \in Hopeless
        BY <3>6, HopelessIs
      <4>3. PICK one : one = SlotLive(f, x, 1, next)
        OBVIOUS
      <4>4. CanProduceLoser(f, x, next).ok <=> one.ok /\ SlotLive(f, x, 2, one.seen).ok
        BY <4>3 DEF CanProduceLoser
      <4>5. [match |-> x, slot |-> 1] \in Hopeless => ~one.ok
        BY <3>2, <3>4, <4>3
      <4>6. one.seen \in SUBSET Ps /\ next \subseteq one.seen
        <5>1. one = [ok |-> TRUE, seen |-> next] \/ one = f[<<[match |-> x, slot |-> 1], next>>]
          BY <4>3 DEF SlotLive
        <5>2. [match |-> x, slot |-> 1] \in Ps
          BY PointerIs DEF Ps
        <5>3. /\ f[<<[match |-> x, slot |-> 1], next>>] \in Answers
              /\ next \subseteq f[<<[match |-> x, slot |-> 1], next>>].seen
          BY <3>2, <5>2 DEF Fills, Answering
        <5> QED
          BY <3>2, <5>1, <5>3 DEF Answers
      <4>7. [match |-> x, slot |-> 2] \in Hopeless => ~SlotLive(f, x, 2, one.seen).ok
        BY <3>4, <4>6
      <4> QED
        BY <4>1, <4>2, <4>4, <4>5, <4>7
    <3>7. CASE \A x \in Matches : Feeds(x, p) => row[x].state = "complete"
      <4>1. Visit(f, p, seen) = [ok |-> FALSE, seen |-> seen \cup {p}]
        BY <2>1, <2>3, <3>7, VisitNobody
      <4> QED
        BY <2>1, <4>1
    <3> QED
      BY <2>1, <3>5, <3>6, <3>7 DEF Feeds
  <2> QED
    BY <2>2, <2>3
<1>2. T = {}
  <2> SUFFICES ASSUME T # {} PROVE FALSE
    OBVIOUS
  <2>1. \A seen \in SUBSET Ps : Unseen(seen) \in Nat
    BY FinitePointers, FS_Difference, FS_CardinalityType DEF Unseen
  <2>2. T \in SUBSET Nat
    BY <2>1
  <2>3. PICK n \in T : \A k \in T : n <= k
    <3> HIDE DEF T
    <3> QED
      BY <2>2, LeastNat
  <2>4. PICK seen \in B : Unseen(seen) = n
    OBVIOUS
  <2>5. ASSUME NEW more \in SUBSET Ps, Unseen(more) < Unseen(seen) PROVE Fails(more)
    <3>1. Unseen(more) \in Nat /\ Unseen(seen) \in Nat
      BY <2>1
    <3>2. ~(Unseen(seen) <= Unseen(more))
      BY <2>5, <3>1
    <3>3. Unseen(more) \notin T
      BY <2>3, <2>4, <3>2
    <3> HIDE DEF Fails
    <3> QED
      BY <3>3
  <2>6. seen \in SUBSET Ps /\ ~Fails(seen)
    OBVIOUS
  <2> HIDE DEF B, T
  <2>7. Fails(seen)
    BY <1>1, <2>5, <2>6
  <2> QED
    BY <2>6, <2>7
<1> QED
  BY <1>2

-----------------------------------------------------------------------------
(* The losers bracket: a slot there is live or it is hopeless.             *)

Low == {q \in Hopeless : q.match \in Lower(graph)}

(* Nothing was visited that leads to round n of the losers bracket, apart  *)
(* from what is hopeless.                                                  *)
Clear(seen, n) ==
  \A q \in seen : /\ q.match \notin Upper(graph)
                  /\ q.match \in Lower(graph) => q \in Hopeless \/ graph.round[q.match] < n

Judges(f, p) ==
  \A seen \in SUBSET Ps :
    Clear(seen, graph.round[p.match]) =>
      f[<<p, seen>>].ok \/ (p \in Hopeless /\ f[<<p, seen>>].seen \subseteq seen \cup Low)

LEMMA ClearLow ==
  ASSUME Settled, NEW n, NEW seen, Clear(seen, n), NEW more, more \subseteq seen \cup Low
  PROVE  Clear(more, n)
<1>1. \A q \in Low : q.match \notin Upper(graph)
  <2> SUFFICES ASSUME NEW q \in Low, q.match \in Upper(graph) PROVE FALSE
    OBVIOUS
  <2>1. q.match \in Matches /\ graph.round[q.match] < 0 /\ graph.round[q.match] > 0
    BY SettledIs DEF Low, Lower, Upper
  <2> QED
    BY <2>1, SettledIs
<1> QED
  BY <1>1 DEF Clear, Low

LEMMA LowerProduces ==
  ASSUME Settled, NEW f, Fills(f), NEW x \in Lower(graph),
         \A s \in {1, 2} : row[x].entry[s] = None => Judges(f, [match |-> x, slot |-> s]),
         NEW seen \in SUBSET Ps, Clear(seen, graph.round[x])
  PROVE  \/ CanProduceWinner(f, x, seen).ok
         \/ /\ \A s \in {1, 2} : [match |-> x, slot |-> s] \in Hopeless
            /\ CanProduceWinner(f, x, seen).seen \subseteq seen \cup Low
<1>1. PICK p1, p2 : p1 = [match |-> x, slot |-> 1] /\ p2 = [match |-> x, slot |-> 2]
  OBVIOUS
<1>2. p1 \in Ps /\ p2 \in Ps /\ p1.match = x /\ p2.match = x
  BY <1>1, SettledIs
<1>3. PICK one : one = SlotLive(f, x, 1, seen)
  OBVIOUS
<1>4. CASE row[x].entry[2] # None
  BY <1>4 DEF CanProduceWinner
<1>5. CASE row[x].entry[2] = None /\ one.ok
  BY <1>3, <1>5 DEF CanProduceWinner
<1>6. CASE row[x].entry[2] = None /\ ~one.ok
  <2>1. CanProduceWinner(f, x, seen) = SlotLive(f, x, 2, one.seen)
    BY <1>3, <1>6 DEF CanProduceWinner
  <2>2. SlotLive(f, x, 2, one.seen) = f[<<p2, one.seen>>]
    BY <1>1, <1>6 DEF SlotLive
  <2>3. row[x].entry[1] = None /\ one = f[<<p1, seen>>]
    BY <1>1, <1>3, <1>6 DEF SlotLive
  <2>4. Judges(f, p1) /\ Judges(f, p2)
    BY <1>1, <1>6, <2>3
  <2>5. p1 \in Hopeless /\ one.seen \subseteq seen \cup Low
    BY <1>2, <1>6, <2>3, <2>4 DEF Judges
  <2>6. one.seen \in SUBSET Ps
    BY <1>2, <2>3 DEF Fills, Answers
  <2>7. Clear(one.seen, graph.round[x])
    BY <2>5, ClearLow
  <2>8. \/ f[<<p2, one.seen>>].ok
        \/ p2 \in Hopeless /\ f[<<p2, one.seen>>].seen \subseteq one.seen \cup Low
    BY <1>2, <2>4, <2>6, <2>7 DEF Judges
  <2> QED
    BY <1>1, <2>1, <2>2, <2>5, <2>8
<1> QED
  BY <1>4, <1>5, <1>6

LEMMA LowerRound ==
  ASSUME Settled, NEW f, Fills(f), NEW p \in Ps, p.match \in Lower(graph), At(p) = None,
         \A q \in Ps :
           q.match \in Lower(graph) /\ At(q) = None /\ graph.round[p.match] < graph.round[q.match]
             => Judges(f, q)
  PROVE  Judges(f, p)
<1> SUFFICES ASSUME NEW seen \in SUBSET Ps, Clear(seen, graph.round[p.match])
             PROVE  f[<<p, seen>>].ok \/ (p \in Hopeless /\ f[<<p, seen>>].seen \subseteq seen \cup Low)
  BY DEF Judges
<1>1. /\ TypeInv /\ graph \in Graphs /\ graph.matches = Matches /\ p.match \in Matches
      /\ p # NoPointer /\ p \in Pointers(graph)
  <2>1. TypeInv /\ graph \in Graphs /\ graph.matches = Matches
    BY SettledIs DEF Matches
  <2> QED
    BY <2>1, PointerIs DEF Ps
<1>2. TwoBrackets(graph)
  BY <1>1, GraphsFit
<1>3. f[<<p, seen>>] = Visit(f, p, seen) /\ f[<<p, seen>>] \in Answers
  BY DEF Fills, Answering
<1>4. PICK n \in Int : n = graph.round[p.match] /\ n < 0
  BY <1>1, SettledIs DEF Lower
<1>5. p.match \notin Upper(graph)
  BY <1>1, <1>4 DEF Upper
<1>6. CASE p \in seen
  <2>1. Visit(f, p, seen) = [ok |-> FALSE, seen |-> seen]
    BY <1>6, VisitSeen
  <2>2. p \in Hopeless
    BY <1>4, <1>6 DEF Clear
  <2> QED
    BY <1>3, <2>1, <2>2
<1>7. CASE p \notin seen
  <2>1. PICK next : next = seen \cup {p}
    OBVIOUS
  <2>2. next \in SUBSET Ps /\ \A q \in next : q.match \notin Upper(graph)
    BY <1>5, <2>1 DEF Clear
  <2>3. ASSUME p \in Hopeless PROVE p \in Low
    BY <2>3 DEF Low
  <2>4. ASSUME NEW x \in Matches, graph.winnerTo[x] = p, row[x].state # "complete"
        PROVE  f[<<p, seen>>].ok \/ (p \in Hopeless /\ f[<<p, seen>>].seen \subseteq seen \cup Low)
    <3>1. Visit(f, p, seen) = CanProduceWinner(f, x, next)
      BY <1>1, <1>7, <2>1, <2>4, VisitWinner
    <3>2. x \in Lower(graph) /\ graph.round[p.match] < graph.round[x]
      BY <1>1, <1>2, <2>4 DEF TwoBrackets
    <3>3. PICK r \in Int : r = graph.round[x] /\ n < r
      BY <1>4, <3>2, SettledIs
    <3>4. Clear(next, graph.round[x])
      <4>1. ASSUME NEW q \in next, q.match \in Lower(graph), q \notin Hopeless
            PROVE  graph.round[q.match] < graph.round[x]
        <5>1. graph.round[q.match] \in Int
          BY <4>1, SettledIs
        <5>2. q = p \/ graph.round[q.match] < n
          BY <1>4, <2>1, <4>1 DEF Clear
        <5> QED
          BY <1>4, <3>3, <5>1, <5>2
      <4> QED
        BY <2>2, <4>1 DEF Clear
    <3>5. ASSUME NEW s \in {1, 2}, row[x].entry[s] = None
          PROVE  Judges(f, [match |-> x, slot |-> s])
      <4>1. PICK q : q = [match |-> x, slot |-> s]
        OBVIOUS
      <4>2. q \in Ps /\ q.match = x /\ q.slot = s
        BY <4>1, SettledIs
      <4>3. At(q) = None
        BY <3>5, <4>2 DEF At
      <4> QED
        BY <3>2, <4>1, <4>2, <4>3
    <3>6. \/ CanProduceWinner(f, x, next).ok
          \/ /\ \A s \in {1, 2} : [match |-> x, slot |-> s] \in Hopeless
             /\ CanProduceWinner(f, x, next).seen \subseteq next \cup Low
      BY <2>2, <3>2, <3>4, <3>5, LowerProduces
    <3>7. ASSUME \A s \in {1, 2} : [match |-> x, slot |-> s] \in Hopeless
          PROVE  p \in Hopeless
      <4>1. \A y \in Matches : /\ graph.winnerTo[y] = p => y = x
                               /\ graph.loserTo[y] # p
        <5>1. Feeds(x, p)
          BY <1>1, <2>4 DEF Feeds
        <5>2. ASSUME NEW y \in Matches, Feeds(y, p)
              PROVE  y = x /\ graph.winnerTo[y] = p
          BY <1>1, <2>4, <5>1, <5>2, OneFeeder
        <5>3. \A y \in Matches : graph.winnerTo[y] = p \/ graph.loserTo[y] = p => Feeds(y, p)
          BY <1>1 DEF Feeds
        <5>4. graph.loserTo[x] # p
          BY <1>1, <2>4, TwoPointers
        <5> QED
          BY <5>2, <5>3, <5>4
      <4> QED
        BY <3>7, <4>1, HopelessIf
    <3> QED
      BY <1>3, <2>1, <2>3, <3>1, <3>6, <3>7
  <2>5. ASSUME NEW x \in Matches, graph.loserTo[x] = p, row[x].state # "complete"
        PROVE  f[<<p, seen>>].ok
    <3>1. Visit(f, p, seen) = CanProduceLoser(f, x, next)
      BY <1>1, <1>7, <2>1, <2>5, VisitLoser
    <3>2. x \in Upper(graph)
      BY <1>1, <1>2, <2>5 DEF TwoBrackets
    <3>3. CanProduceLoser(f, x, next).ok
      BY <2>2, <2>5, <3>2, UpperProduces
    <3> QED
      BY <1>3, <3>1, <3>3
  <2>6. CASE \A x \in Matches : Feeds(x, p) => row[x].state = "complete"
    <3>1. Visit(f, p, seen) = [ok |-> FALSE, seen |-> seen \cup {p}]
      BY <1>1, <1>7, <2>6, VisitNobody
    <3>2. p \in Hopeless
      <4>1. \A y \in Matches : row[y].state # "complete" => graph.winnerTo[y] # p /\ graph.loserTo[y] # p
        BY <1>1, <2>6 DEF Feeds
      <4> QED
        BY <4>1, HopelessIf
    <3> QED
      BY <1>3, <2>3, <3>1, <3>2
  <2> QED
    BY <2>4, <2>5, <2>6 DEF Feeds
<1> QED
  BY <1>6, <1>7

LEMMA LowerJudged ==
  ASSUME Settled, NEW f, Fills(f), NEW p \in Ps, p.match \in Lower(graph), At(p) = None
  PROVE  Judges(f, p)
<1> DEFINE Open(q) == q.match \in Lower(graph) /\ At(q) = None
           B == {q \in Ps : Open(q) /\ ~Judges(f, q)}
           T == {-graph.round[q.match] : q \in B}
<1>1. \A q \in B : graph.round[q.match] \in Int /\ -graph.round[q.match] \in Nat
  <2> TAKE q \in B
  <2>1. q.match \in Matches /\ graph.round[q.match] < 0
    BY SettledIs DEF Lower
  <2>2. graph.round[q.match] \in Int
    BY <2>1, SettledIs
  <2> HIDE DEF B
  <2> QED
    BY <2>1, <2>2
<1>2. T = {}
  <2> SUFFICES ASSUME T # {} PROVE FALSE
    OBVIOUS
  <2>1. T \in SUBSET Nat
    BY <1>1
  <2>2. PICK n \in T : \A k \in T : n <= k
    <3> HIDE DEF T
    <3> QED
      BY <2>1, LeastNat
  <2>3. PICK q \in B : -graph.round[q.match] = n
    OBVIOUS
  <2>4. q \in Ps /\ q.match \in Lower(graph) /\ At(q) = None /\ ~Judges(f, q)
    OBVIOUS
  <2>5. ASSUME NEW r \in Ps, r.match \in Lower(graph), At(r) = None,
               graph.round[q.match] < graph.round[r.match]
        PROVE  Judges(f, r)
    <3> SUFFICES ASSUME ~Judges(f, r) PROVE FALSE
      OBVIOUS
    <3>1. r \in B
      BY <2>5
    <3>2. -graph.round[r.match] \in T
      BY <3>1
    <3>3. n <= -graph.round[r.match] /\ graph.round[r.match] \in Int /\ graph.round[q.match] \in Int
      BY <1>1, <2>2, <3>1, <3>2
    <3> HIDE DEF B, T
    <3> QED
      BY <2>3, <2>5, <3>3
  <2> HIDE DEF B, T
  <2>6. \A r \in Ps :
          r.match \in Lower(graph) /\ At(r) = None /\ graph.round[q.match] < graph.round[r.match]
            => Judges(f, r)
    BY <2>5
  <2>7. Judges(f, q)
    BY <2>4, <2>6, LowerRound
  <2> QED
    BY <2>4, <2>7
<1>3. p \notin B
  BY <1>2
<1> QED
  BY <1>3

-----------------------------------------------------------------------------
(* What is refused.                                                        *)

LEMMA UpperNotRefused ==
  ASSUME Settled, NEW f, Fills(f), NEW p \in Ps, p.match \in Upper(graph),
         row[p.match].state # "complete", At(p) = None
  PROVE  f[<<p, {}>>].ok
<1>1. PICK x, s : x = p.match /\ s = p.slot
  OBVIOUS
<1>2. TypeInv /\ graph \in Graphs
  BY SettledIs
<1>3. s \in {1, 2} /\ p = [match |-> x, slot |-> s]
  BY <1>1, <1>2, PointerIs DEF Ps
<1>4. SlotLive(f, x, s, {}).ok
  BY <1>1, <1>3, UpperProduces
<1>5. SlotLive(f, x, s, {}) = f[<<p, {}>>]
  BY <1>1, <1>3 DEF SlotLive, At
<1> QED
  BY <1>4, <1>5

(* A winners-bracket match was played by two, unless it is a bye.          *)
LEMMA UpperPlayed ==
  ASSUME Settled, NEW x \in Upper(graph), row[x].state = "complete", ~IsBye(x)
  PROVE  Contested(row[x])
<1>1. TypeInv /\ graph \in Graphs /\ RowsInv /\ x \in Matches
  BY SettledIs
<1>2. ASSUME NEW s \in {1, 2} PROVE row[x].entry[s] # None
  <2>1. PICK p : p = [match |-> x, slot |-> s]
    OBVIOUS
  <2>2. p \in Pointers(graph) /\ p.match = x /\ p.slot = s
    BY <1>1, <2>1, PointerIs
  <2>3. ASSUME row[x].entry[s] = None PROVE FALSE
    <3>1. p \in Dead
      BY <1>1, <2>2, <2>3 DEF RowsInv, At
    <3> QED
      BY <2>1, <3>1, UpperDead
  <2> QED
    BY <2>3
<1> QED
  BY <1>2 DEF Contested

(* Each final, apart from the reset, leads nowhere or to the reset, and    *)
(* the winner of a winners-bracket match comes to its first slot.          *)
LEMMA FinalIs ==
  ASSUME Settled, NEW m \in Matches, m \notin Upper(graph), m \notin Lower(graph),
         \A y \in Matches : IsGrandFinal1(y) => m # graph.winnerTo[y].match
  PROVE  /\ graph.loserTo[m] # NoPointer => IsGrandFinal1(m)
         /\ \E x \in Upper(graph) :
              /\ graph.winnerTo[x] = [match |-> m, slot |-> 1]
              /\ \/ graph.loserTo[x] = [match |-> m, slot |-> 2]
                 \/ /\ ~IsBye(x)
                    /\ \E y \in Lower(graph) : /\ graph.winnerTo[y] = [match |-> m, slot |-> 2]
                                               /\ graph.loserTo[x] = [match |-> y, slot |-> 2]
<1> DEFINE g == graph
           slot(x, s) == [match |-> x, slot |-> s]
           leads(x, y) == g.winnerTo[x] # NoPointer /\ g.winnerTo[x].match = y
           drops(x, y) == g.loserTo[x] # NoPointer /\ g.loserTo[x].match = y
           reset(x) == /\ g.winnerTo[x] = NoPointer /\ g.loserTo[x] = NoPointer
                       /\ \E y \in g.matches : leads(y, x) /\ drops(y, x)
           seeded(x) == g.seeds[x][1] # None \/ g.seeds[x][2] # None
<1>1. TwoBrackets(graph) /\ graph.matches = Matches
  BY SettledIs, GraphsFit DEF Matches
<1>2. ASSUME NEW y \in Matches, NEW z \in Matches, leads(y, z), drops(y, z), reset(z)
      PROVE  IsGrandFinal1(y)
  BY <1>2 DEF IsGrandFinal1, Terminal
<1>3. ~reset(m)
  BY <1>1, <1>2
<1>4. PICK x \in Upper(graph) :
        /\ graph.winnerTo[x] = slot(m, 1)
        /\ graph.loserTo[m] # NoPointer => \E y \in Matches : reset(y) /\ leads(m, y) /\ drops(m, y)
        /\ \/ graph.loserTo[x] = slot(m, 2)
           \/ /\ ~seeded(x)
              /\ \E y \in Lower(graph) : graph.winnerTo[y] = slot(m, 2) /\ graph.loserTo[x] = slot(y, 2)
  <2>1. \A h \in g.matches \ (Upper(g) \cup Lower(g)) :
          \/ reset(h)
          \/ \E x \in Upper(g) :
               /\ g.winnerTo[x] = slot(h, 1)
               /\ g.loserTo[h] # NoPointer => \E y \in g.matches : reset(y) /\ leads(h, y) /\ drops(h, y)
               /\ \/ g.loserTo[x] = slot(h, 2)
                  \/ /\ ~seeded(x)
                     /\ \E y \in Lower(g) : g.winnerTo[y] = slot(h, 2) /\ g.loserTo[x] = slot(y, 2)
    BY <1>1, Zenon DEF TwoBrackets
  <2>2. m \in g.matches \ (Upper(g) \cup Lower(g))
    BY <1>1
  <2> HIDE DEF slot, leads, drops, reset, seeded
  <2> QED
    BY <1>1, <1>3, <2>1, <2>2
<1>5. graph.loserTo[m] # NoPointer => IsGrandFinal1(m)
  BY <1>2, <1>4
<1>6. ~seeded(x) => ~IsBye(x)
  BY DEF IsBye
<1> QED
  BY <1>4, <1>5, <1>6

(* The winner of a winners-bracket match is not refused, nor is its loser. *)
LEMMA UpperFeeds ==
  ASSUME Settled, NEW f, Fills(f), NEW x \in Upper(graph), ~IsGrandFinal1(x),
         NEW p \in Ps, At(p) = None, Feeds(x, p),
         p = graph.winnerTo[x] \/ ~IsBye(x),
         NEW seen \in SUBSET Ps, p \notin seen, p.match \notin Upper(graph),
         \A q \in seen : q.match \notin Upper(graph)
  PROVE  row[x].state # "complete" /\ f[<<p, seen>>].ok
<1>1. TypeInv /\ graph \in Graphs /\ x \in Matches
  BY SettledIs
<1>2. row[x].state # "complete"
  <2> SUFFICES ASSUME row[x].state = "complete" PROVE FALSE
    OBVIOUS
  <2>1. p = graph.winnerTo[x] => At(p) # None
    BY <1>1, Arrived
  <2>2. ~IsBye(x) => Contested(row[x])
    BY UpperPlayed
  <2>3. p = graph.loserTo[x] /\ Contested(row[x]) => At(p) # None
    BY <1>1, Arrived
  <2> QED
    BY <2>1, <2>2, <2>3 DEF Feeds
<1>3. PICK next : next = seen \cup {p}
  OBVIOUS
<1>4. next \in SUBSET Ps /\ \A q \in next : q.match \notin Upper(graph)
  BY <1>3
<1>5. CanProduceWinner(f, x, next).ok /\ CanProduceLoser(f, x, next).ok
  BY <1>2, <1>4, UpperProduces
<1>6. f[<<p, seen>>] = Visit(f, p, seen)
  BY DEF Fills, Answering
<1>7. graph.winnerTo[x] = p => Visit(f, p, seen) = CanProduceWinner(f, x, next)
  BY <1>1, <1>2, <1>3, VisitWinner
<1>8. graph.loserTo[x] = p => Visit(f, p, seen) = CanProduceLoser(f, x, next)
  BY <1>1, <1>2, <1>3, VisitLoser
<1> QED
  BY <1>2, <1>5, <1>6, <1>7, <1>8 DEF Feeds

(* The slots of a match whose winner leads to a refused slot are refused.  *)
LEMMA RefusedWinner ==
  ASSUME Settled, NEW f, Fills(f), NEW p \in Ps, At(p) = None, ~f[<<p, {}>>].ok,
         NEW x \in Matches, graph.winnerTo[x] = p, ~IsGrandFinal1(x),
         \A y \in Matches : IsGrandFinal1(y) => x # graph.winnerTo[y].match
  PROVE  \A s \in {1, 2} : row[x].entry[s] = None /\ ~f[<<[match |-> x, slot |-> s], {}>>].ok
<1>1. /\ TypeInv /\ graph \in Graphs /\ graph.matches = Matches /\ TwoBrackets(graph)
      /\ p # NoPointer /\ p.match \in Matches
  <2>1. TypeInv /\ graph \in Graphs /\ graph.matches = Matches
    BY SettledIs DEF Matches
  <2> QED
    BY <2>1, GraphsFit, PointerIs DEF Ps
<1>2. row[x].state # "complete"
  <2>1. Feeds(x, p)
    BY <1>1 DEF Feeds
  <2> QED
    BY <2>1, Arrived
<1>3. PICK p1, p2, n : /\ p1 = [match |-> x, slot |-> 1] /\ p2 = [match |-> x, slot |-> 2]
                       /\ n = graph.round[x]
  OBVIOUS
<1>4. /\ p1 \in Ps /\ p2 \in Ps /\ {p} \in SUBSET Ps /\ {} \in SUBSET Ps /\ n \in Int
      /\ p1.match = x /\ p1.slot = 1 /\ p2.match = x /\ p2.slot = 2
  BY <1>3, SettledIs
<1>5. /\ p.match \in Upper(graph) => x \in Upper(graph) /\ graph.round[x] < graph.round[p.match]
      /\ p.match \in Lower(graph) => x \in Lower(graph) /\ graph.round[p.match] < graph.round[x]
  BY <1>1 DEF TwoBrackets
<1>6. f[<<p, {}>>] = CanProduceWinner(f, x, {p})
  <2>1. f[<<p, {}>>] = Visit(f, p, {})
    BY <1>4 DEF Fills, Answering
  <2>2. {} \cup {p} = {p}
    OBVIOUS
  <2> QED
    BY <1>1, <1>2, <2>1, <2>2, VisitWinner
<1>7. row[x].entry[2] = None /\ ~SlotLive(f, x, 1, {p}).ok
  BY <1>6 DEF CanProduceWinner
<1>8. row[x].entry[1] = None /\ ~f[<<p1, {p}>>].ok
  BY <1>3, <1>7 DEF SlotLive
<1>9. CASE x \in Upper(graph)
  <2>1. Unvisited(x, 1, {p})
    <3>1. CASE p.match \in Upper(graph)
      <4>1. graph.round[p.match] \in Int /\ n < graph.round[p.match]
        BY <1>1, <1>3, <1>5, <3>1, SettledIs
      <4>2. p1 # p /\ \A q \in {p} : ~(graph.round[q.match] < graph.round[x])
        BY <1>3, <1>4, <4>1
      <4> QED
        BY <1>3, <1>4, <4>2 DEF Unvisited
    <3>2. CASE p.match \notin Upper(graph)
      BY <1>4, <3>2 DEF Unvisited
    <3> QED
      BY <3>1, <3>2
  <2>2. AllLive(f, x) /\ 1 \in {1, 2}
    BY <1>2, <1>9, UpperLive
  <2>3. Lives(f, x, 1, {p})
    BY <1>4, <2>1, <2>2 DEF AllLive
  <2> QED
    BY <1>7, <2>3 DEF Lives
<1>10. CASE x \in Lower(graph)
  <2>1. x \notin Upper(graph)
    BY <1>3, <1>4, <1>10 DEF Lower, Upper
  <2>2. Clear({p}, graph.round[x])
    BY <1>5, <2>1 DEF Clear
  <2>3. At(p1) = None /\ At(p2) = None
    BY <1>4, <1>7, <1>8 DEF At
  <2>4. Judges(f, p1) /\ Judges(f, p2)
    BY <1>4, <1>10, <2>3, LowerJudged
  <2>5. \A s \in {1, 2} : Judges(f, [match |-> x, slot |-> s])
    BY <1>3, <2>4
  <2>6. \A s \in {1, 2} : [match |-> x, slot |-> s] \in Hopeless
    BY <1>4, <1>6, <1>10, <2>2, <2>5, LowerProduces
  <2> QED
    BY <1>1, <1>4, <1>7, <1>8, <2>6, HopelessFails
<1>11. CASE x \notin Upper(graph) /\ x \notin Lower(graph)
  <2>1. PICK z \in Upper(graph) : graph.winnerTo[z] = p1
    BY <1>3, <1>11, FinalIs
  <2>2. ~IsGrandFinal1(z) /\ Feeds(z, p1) /\ z \in Matches
    <3>1. z \in Matches /\ p1 # NoPointer
      BY <1>1, <1>4, SettledIs, PointerIs DEF Ps
    <3> QED
      BY <1>4, <2>1, <3>1 DEF Feeds
  <2>3. p1 # p /\ p.match \notin Upper(graph) /\ At(p1) = None
    <3>1. p1 = p => x = z
      <4>1. Feeds(x, p)
        BY <1>1 DEF Feeds
      <4> QED
        BY <1>1, <2>2, <4>1, OneFeeder
    <3> QED
      BY <1>4, <1>5, <1>8, <1>11, <2>1, <3>1 DEF At
  <2>4. f[<<p1, {p}>>].ok
    BY <1>4, <1>11, <2>1, <2>2, <2>3, UpperFeeds
  <2> QED
    BY <1>8, <2>4
<1> QED
  BY <1>9, <1>10, <1>11

(* One slot of a match whose loser leads to a refused slot is refused.     *)
LEMMA RefusedLoser ==
  ASSUME Settled, NEW f, Fills(f), NEW p \in Ps, At(p) = None, ~f[<<p, {}>>].ok,
         NEW x \in Matches, graph.loserTo[x] = p, ~IsGrandFinal1(x),
         \A y \in Matches : IsGrandFinal1(y) => x # graph.winnerTo[y].match
  PROVE  \E s \in {1, 2} : row[x].entry[s] = None /\ ~f[<<[match |-> x, slot |-> s], {}>>].ok
<1>1. /\ TypeInv /\ graph \in Graphs /\ graph.matches = Matches /\ TwoBrackets(graph) /\ RowsInv
      /\ p # NoPointer /\ p.match \in Matches
  <2>1. TypeInv /\ graph \in Graphs /\ graph.matches = Matches /\ RowsInv
    BY SettledIs DEF Matches
  <2> QED
    BY <2>1, GraphsFit, PointerIs DEF Ps
<1>2. Feeds(x, p)
  BY <1>1 DEF Feeds
<1>3. CASE row[x].state = "complete"
  <2>1. ~Contested(row[x])
    BY <1>2, <1>3, Arrived
  <2>2. PICK s \in {1, 2} : row[x].entry[s] = None
    BY <2>1 DEF Contested
  <2>3. PICK q : q = [match |-> x, slot |-> s]
    OBVIOUS
  <2>4. q \in Pointers(graph) /\ q.match = x /\ q.slot = s
    BY <1>1, <2>3, PointerIs
  <2>5. q \in Dead
    BY <1>1, <1>3, <2>2, <2>4 DEF RowsInv, At
  <2>6. q \in Hopeless /\ {} \in SUBSET Ps
    BY <1>1, <2>5, DeadHopeless
  <2>7. ~f[<<q, {}>>].ok
    BY <1>1, <2>6, HopelessFails
  <2> QED
    BY <2>2, <2>3, <2>7
<1>4. CASE row[x].state # "complete"
  <2>1. x \in Upper(graph)
    <3>1. x \notin Lower(graph)
      BY <1>1 DEF TwoBrackets
    <3>2. x \notin Upper(graph) => IsGrandFinal1(x)
      BY <1>1, <3>1, FinalIs
    <3> QED
      BY <3>2
  <2>2. p.match \notin Upper(graph)
    BY <1>1 DEF Upper
  <2>3. CanProduceLoser(f, x, {p}).ok /\ {} \in SUBSET Ps
    BY <1>4, <2>1, <2>2, UpperProduces
  <2>4. f[<<p, {}>>] = Visit(f, p, {})
    BY <2>3 DEF Fills, Answering
  <2>5. {} \cup {p} = {p}
    OBVIOUS
  <2>6. f[<<p, {}>>] = CanProduceLoser(f, x, {p})
    BY <1>1, <1>4, <2>4, <2>5, VisitLoser
  <2> QED
    BY <2>3, <2>6
<1> QED
  BY <1>3, <1>4

(* Neither side of a final is refused.                                     *)
LEMMA FinalNotRefused ==
  ASSUME Settled, NEW f, Fills(f), NEW p \in Ps, At(p) = None,
         IsGrandFinal1(p.match) \/ Terminal(p.match),
         \A y \in Matches : IsGrandFinal1(y) => p.match # graph.winnerTo[y].match
  PROVE  f[<<p, {}>>].ok
<1>0. PICK m : m = p.match
  OBVIOUS
<1>1. /\ TypeInv /\ graph \in Graphs /\ graph.matches = Matches /\ TwoBrackets(graph) /\ RowsInv
      /\ OneSource(graph) /\ p # NoPointer /\ m \in Matches /\ p \in Pointers(graph)
      /\ p.slot \in {1, 2} /\ p = [match |-> m, slot |-> p.slot] /\ {} \in SUBSET Ps
  <2>1. TypeInv /\ graph \in Graphs /\ graph.matches = Matches /\ RowsInv
    BY SettledIs DEF Matches
  <2> QED
    BY <1>0, <2>1, GraphsFit, PointerIs DEF Ps
<1>2. CASE m \in Upper(graph)
  <2>1. ~IsBye(m)
    <3>1. graph.seeds[m][1] = None <=> graph.seeds[m][2] = None
      BY <1>0, <1>1 DEF OneSource, IsGrandFinal1, Terminal
    <3> QED
      BY <3>1 DEF IsBye
  <2>2. ASSUME row[m].state = "complete" PROVE FALSE
    <3>1. Contested(row[m])
      BY <1>2, <2>1, <2>2, UpperPlayed
    <3> QED
      BY <1>0, <1>1, <3>1 DEF Contested, At
  <2> QED
    BY <1>0, <1>2, <2>2, UpperNotRefused
<1>3. m \notin Lower(graph)
  BY <1>0, <1>1 DEF TwoBrackets, IsGrandFinal1, Terminal
<1>4. CASE m \notin Upper(graph)
  <2>1. PICK x \in Upper(graph) :
          /\ graph.winnerTo[x] = [match |-> m, slot |-> 1]
          /\ \/ graph.loserTo[x] = [match |-> m, slot |-> 2]
             \/ /\ ~IsBye(x)
                /\ \E y \in Lower(graph) : /\ graph.winnerTo[y] = [match |-> m, slot |-> 2]
                                           /\ graph.loserTo[x] = [match |-> y, slot |-> 2]
    BY <1>0, <1>1, <1>3, <1>4, FinalIs
  <2>2. x \in Matches /\ graph.winnerTo[x] # NoPointer /\ graph.winnerTo[x].match = m
    <3>1. [match |-> m, slot |-> 1] \in Pointers(graph) /\ NoPointer \notin Pointers(graph)
      BY <1>1, PointerIs
    <3> QED
      BY <2>1, <3>1, SettledIs
  <2>3. ~IsGrandFinal1(x)
    BY <1>0, <2>2
  <2>4. p.match \notin Upper(graph) /\ p \notin {}
    BY <1>0, <1>4
  <2>5. CASE graph.winnerTo[x] = p
    <3>1. Feeds(x, p)
      BY <1>1, <2>5 DEF Feeds
    <3> QED
      BY <1>1, <2>3, <2>4, <2>5, <3>1, UpperFeeds
  <2>6. CASE graph.loserTo[x] = p
    <3>1. Feeds(x, p)
      BY <1>1, <2>6 DEF Feeds
    <3>2. ~IsBye(x)
      <4>1. graph.loserTo[x] # NoPointer /\ graph.winnerTo[x].match = graph.loserTo[x].match
        BY <1>0, <1>1, <2>2, <2>6
      <4>2. graph.seeds[x][1] = None <=> graph.seeds[x][2] = None
        BY <1>1, <2>2, <4>1 DEF OneSource
      <4> QED
        BY <4>2 DEF IsBye
    <3> QED
      BY <1>1, <2>3, <2>4, <3>1, <3>2, UpperFeeds
  <2>7. ASSUME ~IsBye(x), NEW y \in Lower(graph), graph.winnerTo[y] = p,
               graph.loserTo[x] = [match |-> y, slot |-> 2]
        PROVE  f[<<p, {}>>].ok
    <3>1. PICK q : q = [match |-> y, slot |-> 2]
      OBVIOUS
    <3>2. y \in Matches /\ q \in Ps /\ q # NoPointer /\ q.match = y /\ q.slot = 2
      <4>1. y \in Matches /\ q.match = y /\ q.slot = 2
        BY <3>1, SettledIs
      <4>2. q \in Ps
        BY <3>1, <4>1, SettledIs
      <4>3. NoPointer \notin Ps
        BY <1>1, PointerIs DEF Ps
      <4> QED
        BY <4>1, <4>2, <4>3
    <3>3. Feeds(y, p) /\ Feeds(x, q) /\ {p} \in SUBSET Ps /\ {} \cup {p} = {p}
      BY <1>1, <2>7, <3>1, <3>2 DEF Feeds
    <3>4. ~IsGrandFinal1(y)
      BY <1>1 DEF TwoBrackets, IsGrandFinal1
    <3>5. row[y].state # "complete"
      BY <2>7, <3>2, <3>3, <3>4, Arrived
    <3>6. f[<<p, {}>>] = CanProduceWinner(f, y, {p})
      <4>1. f[<<p, {}>>] = Visit(f, p, {})
        BY <1>1 DEF Fills, Answering
      <4> QED
        BY <1>1, <2>7, <3>2, <3>3, <3>5, <4>1, VisitWinner
    <3>7. CASE row[y].entry[2] # None
      BY <3>6, <3>7 DEF CanProduceWinner
    <3>8. CASE row[y].entry[2] = None
      <4>1. At(q) = None
        BY <3>2, <3>8 DEF At
      <4>2. Clear({p}, graph.round[y])
        BY <1>0, <1>3, <1>4 DEF Clear
      <4>3. \A s \in {1, 2} : row[y].entry[s] = None => Judges(f, [match |-> y, slot |-> s])
        <5> TAKE s \in {1, 2}
        <5> HAVE row[y].entry[s] = None
        <5>1. PICK r : r = [match |-> y, slot |-> s]
          OBVIOUS
        <5>2. r \in Ps /\ r.match = y /\ At(r) = None
          BY <3>2, <5>1, SettledIs DEF At
        <5> QED
          BY <5>1, <5>2, LowerJudged
      <4>4. ASSUME q \in Hopeless PROVE FALSE
        <5>1. row[x].state # "complete"
          <6>1. row[x].state = "complete" => Contested(row[x])
            BY <2>7, UpperPlayed
          <6> QED
            BY <2>2, <2>3, <2>7, <3>1, <3>3, <4>1, <6>1, Arrived
        <5>2. PICK s \in {1, 2} : [match |-> x, slot |-> s] \in Hopeless
          BY <2>2, <2>7, <3>1, <4>4, <5>1, HopelessIs
        <5>3. PICK r : r = [match |-> x, slot |-> s]
          OBVIOUS
        <5>4. r \in Ps /\ r.match = x /\ At(r) = None /\ ~f[<<r, {}>>].ok
          BY <1>1, <5>2, <5>3, HopelessIs, HopelessFails
        <5> QED
          BY <5>1, <5>4, UpperNotRefused
      <4>5. CanProduceWinner(f, y, {p}).ok
        BY <3>1, <3>3, <4>2, <4>3, <4>4, LowerProduces
      <4> QED
        BY <3>6, <4>5
    <3> QED
      BY <3>7, <3>8
  <2> QED
    BY <1>1, <2>1, <2>5, <2>6, <2>7
<1> QED
  BY <1>2, <1>4

LEMMA RefusedDead == ASSUME OneAtATime, SlotInv, SeedInv PROVE RefusedIsDead
<1> DEFINE reset == {graph.winnerTo[x].match : x \in {y \in Matches : IsGrandFinal1(y)}}
           refused == {p \in Pointers(graph) : /\ row[p.match].entry[p.slot] = None
                                               /\ p.match \notin reset
                                               /\ ~SlotCanFill(p)}
<1> SUFFICES ASSUME NEW w \in Worker, Working(w, "settle")
             PROVE  Closed(refused) /\ \A p \in refused : ~IsGrandFinal1(p.match) /\ ~Terminal(p.match)
  BY DEF RefusedIsDead
<1>1. Settled
  BY SettlesAlone
<1>2. TypeInv /\ graph \in Graphs /\ Started
  BY <1>1, SettledIs
<1>3. PICK f : Fills(f) /\ \A p \in Ps : SlotCanFill(p) = f[<<p, {}>>].ok
  BY <1>2, FillIs DEF Fills
<1>4. \A p \in refused : /\ p \in Ps /\ At(p) = None /\ ~f[<<p, {}>>].ok /\ p \in Pointers(graph)
                         /\ \A y \in Matches : IsGrandFinal1(y) => p.match # graph.winnerTo[y].match
  BY <1>3 DEF At, Ps
<1>5. ASSUME NEW q \in Ps, At(q) = None, ~f[<<q, {}>>].ok,
             \A y \in Matches : IsGrandFinal1(y) => q.match # graph.winnerTo[y].match
      PROVE  q \in refused
  <2>1. q \in Pointers(graph) /\ ~SlotCanFill(q) /\ row[q.match].entry[q.slot] = None
    BY <1>3, <1>5 DEF At, Ps
  <2>2. q.match \notin reset
    BY <1>5
  <2> HIDE DEF reset
  <2> QED
    BY <2>1, <2>2
<1> HIDE DEF reset, refused
<1>6. ASSUME NEW p \in refused PROVE graph.seeds[p.match][p.slot] = None
  BY <1>2, <1>4 DEF Started
<1>7. ASSUME NEW p \in refused, NEW x \in Matches, Feeds(x, p)
      PROVE  /\ ~IsGrandFinal1(x)
             /\ \A y \in Matches : IsGrandFinal1(y) => x # graph.winnerTo[y].match
  BY <1>4, <1>7 DEF Feeds, IsGrandFinal1, Terminal
<1>8. ASSUME NEW x \in Matches, NEW s \in {1, 2}, row[x].entry[s] = None,
             ~f[<<[match |-> x, slot |-> s], {}>>].ok,
             \A y \in Matches : IsGrandFinal1(y) => x # graph.winnerTo[y].match
      PROVE  [match |-> x, slot |-> s] \in refused
  <2>1. PICK q : q = [match |-> x, slot |-> s]
    OBVIOUS
  <2>2. q \in Ps /\ At(q) = None /\ q.match = x
    BY <1>1, <1>8, <2>1, SettledIs DEF At
  <2> QED
    BY <1>5, <1>8, <2>1, <2>2
<1>9. ASSUME NEW p \in refused, NEW x \in Matches
      PROVE  LET own == {[match |-> x, slot |-> s] : s \in Slot}
             IN  /\ graph.winnerTo[x] = p => own \subseteq refused
                 /\ graph.loserTo[x] = p => own \cap refused # {}
  <2>0. p # NoPointer /\ p \in Ps /\ At(p) = None /\ ~f[<<p, {}>>].ok
    BY <1>2, <1>4, PointerIs
  <2>1. ASSUME graph.winnerTo[x] = p, NEW s \in Slot PROVE [match |-> x, slot |-> s] \in refused
    <3>1. Feeds(x, p) /\ s \in {1, 2}
      BY <2>0, <2>1 DEF Feeds, Slot
    <3>2. row[x].entry[s] = None /\ ~f[<<[match |-> x, slot |-> s], {}>>].ok
      BY <1>1, <1>3, <1>7, <2>0, <2>1, <3>1, RefusedWinner
    <3> QED
      BY <1>7, <1>8, <3>1, <3>2
  <2>2. ASSUME graph.loserTo[x] = p PROVE \E s \in Slot : [match |-> x, slot |-> s] \in refused
    <3>1. Feeds(x, p)
      BY <2>0, <2>2 DEF Feeds
    <3>2. PICK s \in {1, 2} : row[x].entry[s] = None /\ ~f[<<[match |-> x, slot |-> s], {}>>].ok
      BY <1>1, <1>3, <1>7, <2>0, <2>2, <3>1, RefusedLoser
    <3>3. [match |-> x, slot |-> s] \in refused /\ s \in Slot
      BY <1>7, <1>8, <3>1, <3>2 DEF Slot
    <3> QED
      BY <3>3
  <2> QED
    BY <2>1, <2>2
<1>10. Closed(refused)
  BY <1>6, <1>9 DEF Closed
<1>11. \A p \in refused : ~IsGrandFinal1(p.match) /\ ~Terminal(p.match)
  <2> SUFFICES ASSUME NEW p \in refused, IsGrandFinal1(p.match) \/ Terminal(p.match) PROVE FALSE
    OBVIOUS
  <2>1. f[<<p, {}>>].ok
    BY <1>1, <1>3, <1>4, FinalNotRefused
  <2> QED
    BY <1>4, <2>1
<1> QED
  BY <1>10, <1>11

(* A lone entrant is walked over only when nobody can come any more: what  *)
(* _slot_can_fill refuses has nothing behind it, in any field and any      *)
(* graph of the two brackets, while one request runs at a time.            *)
THEOREM RefusedNeverCome == ASSUME OneAtATime PROVE Spec => []RefusedIsDead
<1> DEFINE I == SlotInv /\ SeedInv
<1>1. Init => I
  BY SlotInit, SeedInit
<1>2. I /\ [Next]_vars => I'
  <2> SUFFICES ASSUME I, [Next]_vars PROVE I'
    OBVIOUS
  <2>1. RefusedIsDead
    BY RefusedDead
  <2>2. SlotInv'
    BY <2>1, SlotStep
  <2>3. SeedInv'
    BY <2>1, SeedStep
  <2> QED
    BY <2>2, <2>3
<1>3. I => RefusedIsDead
  BY RefusedDead
<1> QED
  BY <1>1, <1>2, <1>3, PTL DEF Spec

-----------------------------------------------------------------------------
(* What the slots hold.                                                    *)

LEMMA SlotsFollow == SlotInv => SlotsMatchResults
<1> SUFFICES ASSUME SlotInv, Quiet, NEW x \in Matches,
                    NEW p \in {graph.winnerTo[x], graph.loserTo[x]}, p # NoPointer
             PROVE  At(p) = IF Titled(x) THEN None
                            ELSE IF p = graph.winnerTo[x] THEN Won(x) ELSE Lost(x)
  <2>1. SlotInv => \A x \in Matches :
                       graph.winnerTo[x] # NoPointer => graph.winnerTo[x] # graph.loserTo[x]
    BY TwoPointers DEF SlotInv
  <2> QED
    BY <2>1 DEF SlotsMatchResults, SlotInv, At, Titled, Won, Lost
<1>1. Feeds(x, p) /\ p \in Pointers(graph)
  BY PointerIs DEF SlotInv, Feeds
<1>2. ~Coming(p)
  BY DEF Quiet, Coming, Idle
<1> QED
  BY <1>1, <1>2 DEF SlotInv, Delivered, Sent

(* One request at a time: whatever is reported and corrected, in whatever  *)
(* order, on any graph the engines may generate, the slots a stage's       *)
(* matches feed hold exactly what those matches decided.                   *)
THEOREM SlotsFollowResults ==
  ASSUME OneAtATime
  PROVE  Spec => []SlotsMatchResults
<1>0. Spec => []RefusedIsDead
  BY RefusedNeverCome
<1>1. SlotInv /\ RefusedIsDead /\ [Next]_vars => SlotInv'
  BY SlotStep
<1> QED
  BY <1>0, <1>1, SlotInit, SlotsFollow, PTL DEF Spec

LEMMA DecidedStep ==
  ASSUME SlotInv, [Next]_vars, NEW m \in Matches, Decided(m)
  PROVE  row'[m].state = "complete" /\ row'[m].entry = row[m].entry
<1>0. row[m].state = "complete" /\ row \in [Matches -> Row]
  BY DEF Decided, SlotInv, TypeInv, TypeOK, Matches
<1>1. ASSUME NEW w \in Worker, NEW task \in {"place", "settle", "clear", "reopen"},
             Working(w, task), NEW newRow, NEW first, Save(w, newRow, first)
      PROVE  row'[m] = row[m]
  <2>1. row[Head(job[w].todo).match].state # "complete"
    BY <1>1, HeldRow DEF TaskOk
  <2> QED
    BY <1>0, <1>1, <2>1 DEF Save
<1>2. ASSUME NEW w \in Worker, Continue(w)
      PROVE  row'[m].state = "complete" /\ row'[m].entry = row[m].entry
  <2>1. CASE RecordResult(w)
    <3> DEFINE h == Head(job[w].todo)
               newRow == [job[w].copy EXCEPT !.winner = job[w].winner, !.state = "complete"]
    <3>1. Working(w, "record") /\ row' = [row EXCEPT ![h.match] = newRow]
      BY <2>1 DEF RecordResult, Save
    <3>2. h.match \in Matches /\ job[w].copy = row[h.match] /\ job[w].copy \in Row
      BY <3>1, HeldRow
    <3>3. newRow.state = "complete" /\ newRow.entry = row[h.match].entry
      BY <3>2 DEF Row
    <3> HIDE DEF newRow
    <3> QED
      BY <1>0, <3>1, <3>2, <3>3
  <2>2. CASE PlaceEntry(w)
    BY <1>0, <1>1, <2>2 DEF PlaceEntry
  <2>3. CASE ClearReset(w) \/ OpenReset(w)
    BY <1>0, <1>1, <2>3 DEF ClearReset, OpenReset
  <2>4. CASE SettleOpens(w) \/ SettleWaits(w) \/ SettleWalkover(w)
    BY <1>0, <1>1, <2>4 DEF SettleOpens, SettleWaits, SettleWalkover
  <2>5. CASE FetchRow(w) \/ FinishResult(w)
    BY <1>0, <2>5 DEF FetchRow, FinishResult
  <2> QED
    BY <1>2, <2>1, <2>2, <2>3, <2>4, <2>5 DEF Continue
<1>3. CASE StartBracket
  BY <1>0, <1>3 DEF StartBracket, SlotInv, DraftInv, BlankRow
<1>4. CASE row' = row
  BY <1>0, <1>4
<1> QED
  BY <1>2, <1>3, <1>4
     DEF Next, SomeReport, ReportResult, OverrideResult, CompleteStage, CancelStage, RetireEntry, vars

(* Under the same condition a decided match stays decided, and keeps       *)
(* both its entrants: no write of a later report, correction or walkover   *)
(* reaches it, but a correction of its own winner.                         *)
THEOREM DecidedForGood ==
  ASSUME OneAtATime
  PROVE  Spec => DecidedStaysDecided
<1>0. Spec => []RefusedIsDead
  BY RefusedNeverCome
<1>1. SlotInv /\ RefusedIsDead /\ [Next]_vars => SlotInv'
  BY SlotStep
<1>2. SlotInv /\ [Next]_vars =>
        [\A m \in Matches :
           Decided(m) => /\ row'[m].state = "complete"
                         /\ row'[m].entry = row[m].entry]_vars
  BY DecidedStep
<1> QED
  BY <1>0, <1>1, <1>2, SlotInit, PTL DEF Spec, DecidedStaysDecided

-----------------------------------------------------------------------------
(* Where an entry is.                                                      *)

(* Who belongs in a slot by the results so far. *)
Due(p) == IF Fed(p) THEN Sent(CHOOSE x \in Matches : Feeds(x, p), p) ELSE At(p)

GoesOn(e, x) == \E p \in Pointers(graph) : Feeds(x, p) /\ Sent(x, p) = e

(* A slot an entry has come to and not left again. *)
Stands(e, p) == Due(p) = e /\ ~GoesOn(e, p.match)

PlaceInv ==
  /\ \A e \in Entry : \A p, q \in Pointers(graph) : Stands(e, p) /\ Stands(e, q) => p = q
  /\ \A x \in Matches : row[x].state = "complete" /\ Contested(row[x]) =>
                          row[x].entry[1] # row[x].entry[2]

(* The losses after which an entry goes home. *)
BeatenIn(e, m) ==
  /\ Decided(m) /\ Contested(row[m]) /\ Loser(row[m]) = e
  /\ graph.loserTo[m] = NoPointer \/ Titled(m)

Beaten(e) == \E m \in Matches : BeatenIn(e, m)

StatusInv ==
  \A e \in Entry : status[e] # "dropped" => (status[e] = "eliminated" <=> Beaten(e))

StageInv == SlotInv /\ PlaceInv /\ StatusInv

LEMMA DueIs ==
  ASSUME TypeInv, graph \in Graphs
  PROVE  /\ \A x \in Matches : \A p : Feeds(x, p) => Due(p) = Sent(x, p)
         /\ \A p : ~Fed(p) => Due(p) = At(p)
<1>1. ASSUME NEW x \in Matches, NEW p, Feeds(x, p) PROVE Due(p) = Sent(x, p)
  <2>1. PICK y \in Matches : y = (CHOOSE z \in Matches : Feeds(z, p)) /\ Feeds(y, p)
    BY <1>1
  <2>2. y = x
    BY <1>1, <2>1, OneFeeder
  <2> QED
    BY <1>1, <2>1, <2>2 DEF Due, Fed
<1> QED
  BY <1>1 DEF Due

(* With no write to be made, that is who is there. *)
LEMMA DueIsThere ==
  ASSUME SlotInv, \A p : ~Coming(p), NEW p \in Pointers(graph)
  PROVE  Due(p) = At(p)
BY DueIs DEF SlotInv, Delivered, Fed

(* A step that decides nothing moves nobody. *)
LEMMA PlaceKept ==
  ASSUME SlotInv, PlaceInv, Frozen, \A p \in Pointers(graph) : ~Fed(p) => At(p)' = At(p)
  PROVE  PlaceInv' /\ \A e : \A m \in Matches : BeatenIn(e, m)' <=> BeatenIn(e, m)
<1>1. /\ Matches' = Matches /\ Pointers(graph)' = Pointers(graph)
      /\ \A x, p : Feeds(x, p)' <=> Feeds(x, p)
      /\ \A x \in Matches : \A p : Sent(x, p)' = Sent(x, p)
  BY FrozenIs
<1>2. TypeInv /\ graph \in Graphs
  BY DEF SlotInv
<1>3. ASSUME NEW p \in Pointers(graph) PROVE Due(p)' = Due(p)
  <2>1. CASE Fed(p)
    <3>1. Fed(p)' /\ (CHOOSE x \in Matches : Feeds(x, p)) \in Matches
      BY <1>1, <2>1 DEF Fed
    <3>2. (CHOOSE x \in Matches : Feeds(x, p))' = (CHOOSE x \in Matches : Feeds(x, p))
      BY <1>1
    <3>3. PICK y : y = CHOOSE x \in Matches : Feeds(x, p)
      OBVIOUS
    <3>4. Due(p) = Sent(y, p) /\ Due(p)' = Sent(y, p)'
      BY <2>1, <3>1, <3>2, <3>3 DEF Due
    <3> QED
      BY <1>1, <3>1, <3>3, <3>4
  <2>2. CASE ~Fed(p)
    <3>1. ~Fed(p)'
      BY <1>1, <2>2 DEF Fed
    <3> QED
      BY <2>2, <3>1 DEF Due
  <2> QED
    BY <2>1, <2>2
<1>4. \A p \in Pointers(graph) : p.match \in Matches
  BY <1>2, PointerIs
<1>5. \A e : \A x \in Matches : GoesOn(e, x)' <=> GoesOn(e, x)
  BY <1>1 DEF GoesOn
<1>6. \A e : \A p \in Pointers(graph) : Stands(e, p)' <=> Stands(e, p)
  BY <1>3, <1>4, <1>5 DEF Stands
<1>7. \A x \in Matches : row'[x].state = "complete" => row'[x] = row[x] /\ row[x].state = "complete"
  BY DEF Frozen
<1>8. PlaceInv'
  BY <1>1, <1>6, <1>7 DEF PlaceInv, Contested
<1>9. ASSUME NEW e, NEW m \in Matches PROVE BeatenIn(e, m)' <=> BeatenIn(e, m)
  <2>1. (Decided(m)' <=> Decided(m)) /\ (Titled(m)' <=> Titled(m)) /\ graph' = graph
    BY FrozenIs DEF Frozen
  <2>2. Decided(m) => row'[m] = row[m]
    BY DEF Frozen, Decided
  <2> QED
    BY <2>1, <2>2 DEF BeatenIn, Contested, Loser
<1> QED
  BY <1>8, <1>9

(* No other match keeps an entry that is in this one. *)
LEMMA Elsewhere ==
  ASSUME SlotInv, PlaceInv, \A p : ~Coming(p),
         NEW m \in Matches, NEW s \in {1, 2}, NEW e \in Entry, row[m].entry[s] = e,
         \A p \in Pointers(graph) : Feeds(m, p) /\ Sent(m, p) = e => row[p.match].state # "complete",
         NEW q \in Pointers(graph), At(q) = e, q # [match |-> m, slot |-> s],
         ~(Feeds(m, q) /\ Sent(m, q) = e)
  PROVE  GoesOn(e, q.match)
<1> SUFFICES ASSUME ~GoesOn(e, q.match) PROVE FALSE
  OBVIOUS
<1>1. TypeInv /\ graph \in Graphs /\ None \notin Entry
  BY EntryAssumption DEF SlotInv
<1>2. Stands(e, q)
  BY DueIsThere DEF Stands
<1>3. CASE GoesOn(e, m)
  <2>1. PICK r \in Pointers(graph) : Feeds(m, r) /\ Sent(m, r) = e
    BY <1>3 DEF GoesOn
  <2>2. r.match \in Matches /\ row[r.match].state # "complete"
    BY <1>1, <2>1, PointerIs
  <2>3. \A p : Sent(r.match, p) = None
    BY <2>2 DEF Sent, Won, Lost, Decided
  <2>4. Stands(e, r)
    BY <1>1, <2>1, <2>3, DueIs DEF Stands, GoesOn
  <2> QED
    BY <1>2, <2>1, <2>4 DEF PlaceInv
<1>4. CASE ~GoesOn(e, m)
  <2> DEFINE own == [match |-> m, slot |-> s]
  <2>1. own \in Pointers(graph) /\ At(own) = e /\ own.match = m
    BY <1>1, PointerIs DEF At
  <2> HIDE DEF own
  <2>2. Stands(e, own)
    BY <1>4, <2>1, DueIsThere DEF Stands
  <2> QED
    BY <1>2, <2>1, <2>2 DEF PlaceInv, own
<1> QED
  BY <1>3, <1>4

LEMMA TwoEntrants ==
  ASSUME SlotInv, PlaceInv, \A p : ~Coming(p), NEW m \in Matches, Contested(row[m])
  PROVE  row[m].entry[1] # row[m].entry[2] /\ row[m].entry[1] \in Entry /\ row[m].entry[2] \in Entry
<1>1. TypeInv /\ graph \in Graphs /\ None \notin Entry
  BY EntryAssumption DEF SlotInv
<1>2. row[m].entry[1] \in Entry /\ row[m].entry[2] \in Entry
  BY <1>1 DEF TypeInv, TypeOK, Row, Slot, EntryOrNone, Contested, Matches
<1>3. CASE row[m].state # "complete"
  <2> DEFINE p == [match |-> m, slot |-> 1]
             q == [match |-> m, slot |-> 2]
  <2>1. /\ p \in Pointers(graph) /\ q \in Pointers(graph) /\ p # q /\ p.match = m /\ q.match = m
        /\ At(p) = row[m].entry[1] /\ At(q) = row[m].entry[2]
    BY <1>1, PointerIs DEF At
  <2> HIDE DEF p, q
  <2>2. \A r : Sent(m, r) = None
    BY <1>3 DEF Sent, Won, Lost, Decided
  <2>3. Stands(row[m].entry[1], p) /\ Stands(row[m].entry[2], q)
    BY <1>1, <1>2, <2>1, <2>2, DueIsThere DEF Stands, GoesOn
  <2> QED
    BY <1>2, <2>1, <2>3 DEF PlaceInv
<1>4. CASE row[m].state = "complete"
  BY <1>2, <1>4 DEF PlaceInv
<1> QED
  BY <1>3, <1>4

(* A match is decided, or its result corrected: its entrants move, to      *)
(* matches that are not decided, and nobody else does.                     *)
LEMMA Decides ==
  ASSUME SlotInv, PlaceInv, \A p : ~Coming(p), UNCHANGED graph, NEW m \in Matches,
         row'[m].entry = row[m].entry, row[m].entry[1] # row[m].entry[2],
         \A x \in Matches : x # m => row'[x] = row[x],
         \A p \in Pointers(graph) : At(p)' = At(p),
         \A p \in Pointers(graph) : Feeds(m, p) =>
           /\ Sent(m, p) \in {None, row[m].entry[1], row[m].entry[2]}
           /\ Sent(m, p)' \in {None, row[m].entry[1], row[m].entry[2]}
           /\ Sent(m, p) # None => row[p.match].state # "complete",
         \A p, q \in Pointers(graph) :
           Feeds(m, p) /\ Feeds(m, q) /\ Sent(m, p)' # None /\ Sent(m, p)' = Sent(m, q)' => p = q
  PROVE  PlaceInv'
<1>1. TypeInv /\ graph \in Graphs /\ None \notin Entry
  BY EntryAssumption DEF SlotInv
<1>2. /\ Matches' = Matches /\ Pointers(graph)' = Pointers(graph)
      /\ \A x, p : Feeds(x, p)' <=> Feeds(x, p)
      /\ \A p : Fed(p)' <=> Fed(p)
  <2>1. Matches' = Matches /\ Pointers(graph)' = Pointers(graph)
    BY DEF Matches, Pointers
  <2> QED
    BY <2>1 DEF Feeds, Fed
<1>3. ASSUME NEW x \in Matches, x # m, NEW p PROVE Sent(x, p)' = Sent(x, p)
  <2>1. row'[x] = row[x]
    BY <1>3
  <2> QED
    BY <2>1 DEF Sent, Titled, Won, Lost, Decided, Contested, Loser, IsGrandFinal1, Terminal
<1>4. ASSUME NEW x \in Matches, NEW p, Feeds(x, p)
      PROVE  Due(p) = Sent(x, p) /\ Due(p)' = Sent(x, p)'
  <2>1. PICK y \in Matches : y = (CHOOSE z \in Matches : Feeds(z, p)) /\ Feeds(y, p)
    BY <1>4
  <2>2. (CHOOSE z \in Matches : Feeds(z, p))' = (CHOOSE z \in Matches : Feeds(z, p))
    BY <1>2
  <2>3. y = x
    BY <1>1, <1>4, <2>1, OneFeeder
  <2>4. Fed(p) /\ Fed(p)'
    BY <1>2, <1>4 DEF Fed
  <2>5. Due(p)' = Sent(y, p)'
    BY <2>1, <2>2, <2>4 DEF Due
  <2> QED
    BY <1>1, <1>4, <2>3, <2>5, DueIs
<1>5. ASSUME NEW p \in Pointers(graph), ~Feeds(m, p) PROVE Due(p)' = Due(p)
  <2>1. CASE Fed(p)
    <3>1. PICK x \in Matches : Feeds(x, p)
      BY <2>1 DEF Fed
    <3>2. x # m
      BY <1>5, <3>1
    <3> QED
      BY <1>3, <1>4, <3>1, <3>2
  <2>2. CASE ~Fed(p)
    BY <1>2, <2>2 DEF Due
  <2> QED
    BY <2>1, <2>2
<1>6. \A p \in Pointers(graph) :
        /\ p.match \in Matches /\ p.slot \in {1, 2} /\ p = [match |-> p.match, slot |-> p.slot]
  BY <1>1, PointerIs
<1>7. ASSUME NEW e \in Entry, e \notin {row[m].entry[1], row[m].entry[2]},
             NEW p \in Pointers(graph), Stands(e, p)'
      PROVE  Stands(e, p)
  <2>1. Due(p)' = e /\ ~GoesOn(e, p.match)'
    BY <1>7 DEF Stands
  <2>2. ~Feeds(m, p)
    <3>1. Feeds(m, p) => Due(p)' \in {None, row[m].entry[1], row[m].entry[2]}
      BY <1>4
    <3> QED
      BY <1>1, <1>7, <2>1, <3>1
  <2>3. Due(p) = e
    BY <1>5, <2>1, <2>2
  <2>4. ASSUME NEW r \in Pointers(graph), Feeds(p.match, r), Sent(p.match, r) = e
        PROVE  FALSE
    <3>1. p.match # m
      BY <1>1, <1>7, <2>4
    <3>2. Sent(p.match, r)' = Sent(p.match, r)
      <4>1. PICK x \in Matches : x = p.match
        BY <1>6
      <4>2. Sent(x, r)' = Sent(x, r)
        BY <1>3, <3>1, <4>1
      <4> QED
        BY <4>1, <4>2
    <3> QED
      BY <1>2, <2>1, <2>4, <3>2 DEF GoesOn
  <2> QED
    BY <2>3, <2>4 DEF Stands, GoesOn
<1>8. ASSUME NEW e \in Entry, NEW s \in {1, 2}, row[m].entry[s] = e,
             NEW p \in Pointers(graph), Stands(e, p)'
      PROVE  \/ Feeds(m, p) /\ Sent(m, p)' = e
             \/ p = [match |-> m, slot |-> s] /\ ~GoesOn(e, m)'
  <2>1. Due(p)' = e /\ ~GoesOn(e, p.match)'
    BY <1>8 DEF Stands
  <2>2. CASE Feeds(m, p)
    BY <1>4, <2>1, <2>2
  <2>3. CASE ~Feeds(m, p) /\ p # [match |-> m, slot |-> s]
    <3>1. At(p) = e
      BY <1>5, <2>1, <2>3, DueIsThere
    <3>2. GoesOn(e, p.match)
      <4>1. \A q \in Pointers(graph) : Feeds(m, q) /\ Sent(m, q) = e => row[q.match].state # "complete"
        BY <1>1
      <4> QED
        BY <1>8, <2>3, <3>1, <4>1, Elsewhere
    <3>3. p.match # m
      BY <1>6, <1>8, <2>3, <3>1 DEF At
    <3>4. PICK r \in Pointers(graph) : Feeds(p.match, r) /\ Sent(p.match, r) = e
      BY <3>2 DEF GoesOn
    <3>5. Sent(p.match, r)' = e
      <4>1. PICK x \in Matches : x = p.match
        BY <1>6
      <4>2. Sent(x, r)' = Sent(x, r)
        BY <1>3, <3>3, <4>1
      <4> QED
        BY <3>4, <4>1, <4>2
    <3> QED
      BY <1>2, <2>1, <3>4, <3>5 DEF GoesOn
  <2>4. CASE p = [match |-> m, slot |-> s]
    BY <2>1, <2>4
  <2> QED
    BY <2>2, <2>3, <2>4
<1>9. ASSUME NEW e \in Entry, NEW p \in Pointers(graph), NEW q \in Pointers(graph),
             Stands(e, p)', Stands(e, q)'
      PROVE  p = q
  <2>1. CASE e \notin {row[m].entry[1], row[m].entry[2]}
    BY <1>7, <1>9, <2>1 DEF PlaceInv
  <2>2. CASE e \in {row[m].entry[1], row[m].entry[2]}
    <3>1. PICK s \in {1, 2} : row[m].entry[s] = e
      BY <2>2
    <3>2. ~GoesOn(e, m)' => ~(Feeds(m, p) /\ Sent(m, p)' = e) /\ ~(Feeds(m, q) /\ Sent(m, q)' = e)
      BY <1>2 DEF GoesOn
    <3>3. Feeds(m, p) /\ Sent(m, p)' = e /\ Feeds(m, q) /\ Sent(m, q)' = e => p = q
      BY <1>1
    <3> QED
      BY <1>8, <1>9, <3>1, <3>2, <3>3
  <2> QED
    BY <2>1, <2>2
<1>10. ASSUME NEW x \in Matches, row'[x].state = "complete", Contested(row[x])'
       PROVE  row'[x].entry[1] # row'[x].entry[2]
  BY <1>10 DEF PlaceInv, Contested
<1> QED
  BY <1>2, <1>9, <1>10 DEF PlaceInv

LEMMA StatusesAre ==
  ASSUME TypeInv, NEW j \in Jobs, j.winner # j.loser
  PROVE  LET keep == IsGrandFinal1(j.match) /\ j.winner = j.copy.entry[1]
             to == IF keep \/ graph.loserTo[j.match] = NoPointer THEN "eliminated" ELSE "active"
         IN  /\ \A e \in Entry : e \notin {j.winner, j.loser} => Statuses(j)[e] = status[e]
             /\ Statuses(j)[j.winner] = IF keep \/ j.winnerSeen = "active" THEN status[j.winner]
                                        ELSE "active"
             /\ Statuses(j)[j.loser] = IF j.loserSeen = to THEN status[j.loser] ELSE to
<1>1. j.winner \in Entry /\ j.loser \in Entry /\ status \in [Entry -> EntryStatus]
  BY DEF Jobs, TypeInv, TypeOK
<1> QED
  BY <1>1 DEF Statuses

(* Who is in a match that is about to be decided was not sent home by      *)
(* another one.                                                            *)
LEMMA BeatenNowhere ==
  ASSUME SlotInv, PlaceInv, \A p : ~Coming(p),
         NEW m \in Matches, NEW e \in Entry, e \in {row[m].entry[1], row[m].entry[2]},
         \A p \in Pointers(graph) : Feeds(m, p) /\ Sent(m, p) = e => row[p.match].state # "complete",
         NEW y \in Matches, y # m
  PROVE  ~BeatenIn(e, y)
<1> SUFFICES ASSUME BeatenIn(e, y) PROVE FALSE
  OBVIOUS
<1>1. TypeInv /\ graph \in Graphs /\ None \notin Entry /\ RowsInv
  BY EntryAssumption DEF SlotInv
<1>2. /\ Decided(y) /\ Contested(row[y]) /\ Loser(row[y]) = e
      /\ graph.loserTo[y] = NoPointer \/ Titled(y)
  BY DEF BeatenIn
<1>3. row[y].entry[1] # row[y].entry[2] /\ row[y].winner \in {row[y].entry[1], row[y].entry[2]}
  BY <1>1, <1>2, TwoEntrants DEF RowsInv
<1>4. row[y].winner # e
  BY <1>2, <1>3 DEF Loser
<1>5. PICK s \in {1, 2} : row[m].entry[s] = e
  OBVIOUS
<1>6. PICK t \in {1, 2} : row[y].entry[t] = e
  BY <1>2 DEF Loser
<1> DEFINE q == [match |-> y, slot |-> t]
<1>7. q \in Pointers(graph) /\ At(q) = e /\ q.match = y /\ q # [match |-> m, slot |-> s]
  BY <1>1, <1>6, PointerIs DEF At
<1> HIDE DEF q
<1>8. ~(Feeds(m, q) /\ Sent(m, q) = e)
  BY <1>2, <1>7 DEF Decided
<1>9. GoesOn(e, y)
  BY <1>5, <1>7, <1>8, Elsewhere
<1>10. PICK r \in Pointers(graph) : Feeds(y, r) /\ Sent(y, r) = e
  BY <1>9 DEF GoesOn
<1>11. ~Titled(y) /\ graph.loserTo[y] = NoPointer
  BY <1>1, <1>2, <1>10 DEF Sent
<1>12. Sent(y, r) = Won(y)
  BY <1>1, <1>10, <1>11 DEF Sent, Feeds
<1> QED
  BY <1>2, <1>4, <1>10, <1>12 DEF Won

LEMMA SentAre ==
  ASSUME SlotInv, NEW m \in Matches, NEW p
  PROVE  Sent(m, p) \in {None, row[m].entry[1], row[m].entry[2]}
<1>1. Won(m) \in {None, row[m].entry[1], row[m].entry[2]}
  BY DEF Won, SlotInv, RowsInv
<1>2. Lost(m) \in {None, row[m].entry[1], row[m].entry[2]}
  BY DEF Lost, Loser
<1> QED
  BY <1>1, <1>2 DEF Sent

LEMMA RecordMoves ==
  ASSUME StageInv, OneAtATime, NEW w \in Worker, RecordResult(w)
  PROVE  PlaceInv' /\ StatusInv'
<1>0. PICK j : j = job[w]
  OBVIOUS
<1>m. PICK m : m = j.match
  OBVIOUS
<1> DEFINE a == j.winner
           l == j.loser
<1>1. SlotInv /\ PlaceInv /\ StatusInv /\ TypeInv /\ graph \in Graphs /\ None \notin Entry
  BY EntryAssumption DEF StageInv, SlotInv
<1>2. /\ j \in Jobs /\ m \in Matches /\ a \in Entry /\ l \in Entry /\ j.copy = row[m]
      /\ UNCHANGED graph /\ \A p : ~Coming(p)
  BY <1>0, <1>1, <1>m, Holding, RecordIs
<1>3. /\ Contested(row[m]) /\ a \in {row[m].entry[1], row[m].entry[2]}
      /\ l = IF a = row[m].entry[2] THEN row[m].entry[1] ELSE row[m].entry[2]
      /\ row'[m].entry = row[m].entry /\ row'[m].winner = a /\ row'[m].state = "complete"
      /\ \A x \in Matches : x # m => row'[x] = row[x]
  BY <1>0, <1>1, <1>m, RecordIs
<1>4. /\ \A p \in Pointers(graph) : At(p)' = At(p)
      /\ \A p \in Pointers(graph) : Feeds(m, p) => row[p.match].state # "complete"
  BY <1>0, <1>1, <1>m, RecordIs
<1>5. row[m].entry[1] # row[m].entry[2] /\ a # l /\ {a, l} = {row[m].entry[1], row[m].entry[2]}
  BY <1>1, <1>2, <1>3, TwoEntrants
<1>6. /\ Decided(m)' /\ Contested(row[m])' /\ Loser(row[m])' = l /\ Won(m)' = a /\ Lost(m)' = l
      /\ Titled(m)' <=> IsGrandFinal1(m) /\ a = row[m].entry[1]
  BY <1>2, <1>3, Recorded
<1>7. \A p : Sent(m, p)' = IF Titled(m)' THEN None ELSE IF p = graph.winnerTo[m] THEN a ELSE l
  BY <1>2, <1>6 DEF Sent
<1>8. PlaceInv'
  <2>1. \A p, q : Feeds(m, p) /\ Feeds(m, q) /\ Sent(m, p)' # None /\ Sent(m, p)' = Sent(m, q)' => p = q
    BY <1>5, <1>7 DEF Feeds
  <2>2. \A p : Sent(m, p) \in {None, row[m].entry[1], row[m].entry[2]}
    BY <1>1, <1>2, SentAre
  <2>3. \A p : Sent(m, p)' \in {None, row[m].entry[1], row[m].entry[2]}
    BY <1>5, <1>7
  <2> QED
    BY <1>1, <1>2, <1>3, <1>4, <1>5, <2>1, <2>2, <2>3, Decides
<1>9. ASSUME NEW e, NEW y \in Matches, y # m PROVE BeatenIn(e, y)' <=> BeatenIn(e, y)
  <2>1. row'[y] = row[y]
    BY <1>3, <1>9
  <2> QED
    BY <1>2, <2>1 DEF BeatenIn, Decided, Contested, Loser, Titled, Won, IsGrandFinal1, Terminal
<1>10. \A e \in {a, l} : \A y \in Matches : y # m => ~BeatenIn(e, y)
  BY <1>1, <1>2, <1>4, <1>5, BeatenNowhere
<1>11. \A e : BeatenIn(e, m)' <=> e = l /\ (graph.loserTo[m] = NoPointer \/ Titled(m)')
  BY <1>2, <1>6 DEF BeatenIn
<1>12. Matches' = Matches
  BY <1>2 DEF Matches
<1>13. status' = Statuses(j) /\ status[a] \in {j.winnerSeen, "dropped"} /\ status[l] \in {j.loserSeen, "dropped"}
  <2>1. status' = Statuses(j) /\ Working(w, "record")
    BY <1>0 DEF RecordResult
  <2>2. TaskOk(j, Head(j.todo)) /\ Head(j.todo).do = "record"
    BY <1>0, <1>1, <2>1, HeldRow
  <2> QED
    BY <2>1, <2>2 DEF TaskOk
<1> DEFINE keep == IsGrandFinal1(m) /\ a = row[m].entry[1]
           to == IF keep \/ graph.loserTo[m] = NoPointer THEN "eliminated" ELSE "active"
<1>14. /\ \A e \in Entry : e \notin {a, l} => status'[e] = status[e]
       /\ status'[a] = IF keep \/ j.winnerSeen = "active" THEN status[a] ELSE "active"
       /\ status'[l] = IF j.loserSeen = to THEN status[l] ELSE to
  BY <1>1, <1>2, <1>5, <1>13, <1>m, StatusesAre
<1>15. ASSUME NEW e \in Entry, status'[e] # "dropped"
       PROVE  status'[e] = "eliminated" <=> Beaten(e)'
  <2>1. CASE e \notin {a, l}
    <3>1. ~BeatenIn(e, m)' /\ ~BeatenIn(e, m)
      <4>1. Loser(row[m]) \in {a, l}
        BY <1>5 DEF Loser
      <4> QED
        BY <1>11, <2>1, <4>1 DEF BeatenIn
    <3>2. Beaten(e)' <=> Beaten(e)
      BY <1>9, <1>12, <3>1 DEF Beaten
    <3> QED
      BY <1>1, <1>14, <1>15, <2>1, <3>2 DEF StatusInv
  <2>2. CASE e = l
    <3>1. Beaten(l)' <=> BeatenIn(l, m)'
      BY <1>2, <1>9, <1>10, <1>12 DEF Beaten
    <3>2. status'[l] = to
      BY <1>13, <1>14, <1>15, <2>2
    <3>3. Beaten(l)' <=> (graph.loserTo[m] = NoPointer \/ Titled(m)')
      BY <1>11, <3>1
    <3> QED
      BY <1>6, <2>2, <3>2, <3>3
  <2>3. CASE e = a
    <3>1. ~Beaten(a)'
      BY <1>5, <1>9, <1>10, <1>11, <1>12 DEF Beaten
    <3>2. status'[a] # "eliminated"
      <4>1. CASE keep
        <5>1. ~BeatenIn(a, m)
          <6>1. graph.loserTo[m] # NoPointer
            BY <4>1 DEF IsGrandFinal1
          <6>2. Titled(m) /\ Decided(m) => Loser(row[m]) = row[m].entry[2]
            BY <1>5 DEF Titled, Won, Loser
          <6> QED
            BY <1>5, <4>1, <6>1, <6>2 DEF BeatenIn
        <5>2. ~Beaten(a)
          BY <1>10, <5>1 DEF Beaten
        <5> QED
          BY <1>1, <1>2, <1>14, <1>15, <2>3, <4>1, <5>2 DEF StatusInv
      <4>2. CASE ~keep
        BY <1>13, <1>14, <1>15, <2>3, <4>2
      <4> QED
        BY <4>1, <4>2
    <3> QED
      BY <2>3, <3>1, <3>2
  <2> QED
    BY <2>1, <2>2, <2>3
<1> QED
  BY <1>8, <1>15 DEF StatusInv

(* A walkover takes its entrant on, and sends nobody home. *)
LEMMA WalkoverMoves ==
  ASSUME StageInv, OneAtATime, RefusedIsDead, NEW w \in Worker, SettleWalkover(w)
  PROVE  PlaceInv' /\ StatusInv'
<1>m. PICK m : m = Head(job[w].todo).match
  OBVIOUS
<1>e. PICK present : present = row[m].entry[3 - EmptySlot(row[m])]
  OBVIOUS
<1>1. SlotInv /\ PlaceInv /\ StatusInv /\ TypeInv /\ graph \in Graphs /\ None \notin Entry
  BY EntryAssumption DEF StageInv, SlotInv
<1>2. /\ \A p : ~Coming(p)
      /\ UNCHANGED <<graph, stage, status>> /\ m \in Matches /\ row[m].state # "complete"
      /\ ~Contested(row[m]) /\ ~IsGrandFinal1(m)
      /\ row'[m].entry = row[m].entry /\ row'[m].state = "complete"
      /\ \A x \in Matches : x # m => row'[x] = row[x]
      /\ \A p \in Pointers(graph) : At(p)' = At(p)
  BY <1>1, <1>m, WalkoverIs
<1>3. /\ present \in Entry /\ present \in {row[m].entry[1], row[m].entry[2]}
      /\ row'[m].winner = present
  BY <1>1, <1>m, <1>e, WalkoverIs
<1>4. row[m].entry[1] # row[m].entry[2]
  BY <1>1, <1>2, <1>3 DEF Contested
<1>5. \A p : Sent(m, p) = None
  BY <1>2 DEF Sent, Won, Lost, Decided
<1>6. Won(m)' = present /\ Lost(m)' = None /\ ~Titled(m)' /\ ~Contested(row[m])'
  BY <1>1, <1>2, <1>3 DEF Won, Lost, Titled, Decided, Contested, IsGrandFinal1, Terminal
<1>7. \A p : Sent(m, p)' = IF p = graph.winnerTo[m] THEN present ELSE None
  BY <1>2, <1>6 DEF Sent
<1>8. PlaceInv'
  <2>1. \A p, q : Feeds(m, p) /\ Feeds(m, q) /\ Sent(m, p)' # None /\ Sent(m, p)' = Sent(m, q)' => p = q
    BY <1>7
  <2>2. \A p : Sent(m, p)' \in {None, row[m].entry[1], row[m].entry[2]}
    BY <1>3, <1>7
  <2> QED
    BY <1>1, <1>2, <1>4, <1>5, <2>1, <2>2, Decides
<1>9. ASSUME NEW e, NEW y \in Matches PROVE BeatenIn(e, y)' <=> BeatenIn(e, y)
  <2>1. CASE y = m
    BY <1>2, <1>6, <2>1 DEF BeatenIn
  <2>2. CASE y # m
    <3>1. row'[y] = row[y]
      BY <1>2, <2>2
    <3> QED
      BY <1>2, <3>1 DEF BeatenIn, Decided, Contested, Loser, Titled, Won, IsGrandFinal1, Terminal
  <2> QED
    BY <2>1, <2>2
<1>10. Matches' = Matches
  BY <1>2 DEF Matches
<1> QED
  BY <1>1, <1>2, <1>8, <1>9, <1>10 DEF StatusInv, Beaten

(* The writes of a walk, row by row. *)
LEMMA SlotMoves ==
  ASSUME StageInv, NEW w \in Worker,
         PlaceEntry(w) \/ ClearReset(w) \/ OpenReset(w) \/ SettleOpens(w) \/ SettleWaits(w)
  PROVE  PlaceInv' /\ StatusInv'
<1>1. SlotInv /\ PlaceInv /\ StatusInv
  BY DEF StageInv
<1>2. Frozen /\ UNCHANGED status /\ \A p \in Pointers(graph) : ~Fed(p) => At(p)' = At(p)
  BY <1>1, SlotWrites
<1>3. PlaceInv' /\ \A e : \A y \in Matches : BeatenIn(e, y)' <=> BeatenIn(e, y)
  BY <1>1, <1>2, PlaceKept
<1>4. Matches' = Matches
  BY <1>2, FrozenIs
<1> QED
  BY <1>1, <1>2, <1>3, <1>4 DEF StatusInv, Beaten

(* The staff operations, and what only concerns the request. *)
LEMMA StillMoves ==
  ASSUME StageInv, UNCHANGED <<graph, row>>,
         \A e \in Entry : status'[e] \in {status[e], "dropped"}
  PROVE  PlaceInv' /\ StatusInv'
<1>1. SlotInv /\ PlaceInv /\ StatusInv
  BY DEF StageInv
<1>2. Frozen /\ \A p : At(p)' = At(p)
  BY <1>1, SameRows
<1>3. PlaceInv' /\ \A e : \A y \in Matches : BeatenIn(e, y)' <=> BeatenIn(e, y)
  BY <1>1, <1>2, PlaceKept
<1>4. Matches' = Matches
  BY <1>2, FrozenIs
<1> QED
  BY <1>1, <1>3, <1>4 DEF StatusInv, Beaten

(* At the start nobody was beaten, and a seed stands in its own slot or,   *)
(* past its bye, in the next.                                              *)
LEMMA StartMoves ==
  ASSUME StageInv, SlotInv', StartBracket
  PROVE  PlaceInv' /\ StatusInv'
<1>1. /\ SlotInv /\ StatusInv /\ TypeInv /\ graph \in Graphs /\ None \notin Entry
      /\ \A m \in Matches : row[m] = BlankRow
  BY EntryAssumption DEF StageInv, SlotInv, DraftInv, StartBracket
<1>2. UNCHANGED <<graph, job, status>> /\ Quiet /\ Matches' = Matches
  BY <1>1, StartIs DEF Matches
<1>3. /\ Pointers(graph)' = Pointers(graph) /\ \A p : ~Coming(p)'
      /\ \A x, p : Feeds(x, p)' <=> Feeds(x, p)
  BY <1>2 DEF Pointers, Coming, Quiet, Idle, Feeds
<1>4. ASSUME NEW x \in Matches, NEW p \in Pointers(graph), Feeds(x, p) PROVE At(p)' = Sent(x, p)'
  BY <1>2, <1>3, <1>4 DEF SlotInv, Delivered
<1>5. ASSUME NEW p \in Pointers(graph) PROVE Due(p)' = At(p)'
  <2>1. CASE Fed(p)
    <3>1. PICK y \in Matches : y = (CHOOSE x \in Matches : Feeds(x, p)) /\ Feeds(y, p)
      BY <2>1 DEF Fed
    <3>2. (CHOOSE x \in Matches : Feeds(x, p))' = (CHOOSE x \in Matches : Feeds(x, p)) /\ Fed(p)'
      BY <1>2, <1>3, <2>1 DEF Fed
    <3>3. Due(p)' = Sent(y, p)'
      BY <3>1, <3>2 DEF Due
    <3> QED
      BY <1>4, <3>1, <3>3
  <2>2. CASE ~Fed(p)
    <3>1. ~Fed(p)'
      BY <1>2, <1>3, <2>2 DEF Fed
    <3> QED
      BY <3>1 DEF Due
  <2> QED
    BY <2>1, <2>2
<1>o. ASSUME NEW m \in Matches, NEW s \in {1, 2}, graph.seeds[m][s] = None
      PROVE  \/ row'[m].entry[s] = None
             \/ \E x \in Matches : /\ IsBye(x) /\ row'[m].entry[s] = ByeWinner(x)
                                   /\ graph.winnerTo[x] = [match |-> m, slot |-> s]
  BY <1>1, <1>o, StartIs
<1>6. ASSUME NEW e \in Entry, NEW p \in Pointers(graph), At(p)' = e
      PROVE  \E x \in Matches, s \in {1, 2} :
               /\ graph.seeds[x][s] = e
               /\ \/ p = [match |-> x, slot |-> s]
                  \/ IsBye(x) /\ ByeWinner(x) = e /\ graph.winnerTo[x] = p
  <2>1. PICK m \in Matches, s \in {1, 2} :
          p = [match |-> m, slot |-> s] /\ p.match = m /\ p.slot = s
    BY <1>1, PointerIs
  <2>2. row'[m].entry[s] = e /\ e # None
    BY <1>1, <1>6, <2>1 DEF At
  <2>3. CASE graph.seeds[m][s] # None
    <3>1. graph.seeds[m][s] = e
      BY <1>1, <2>2, <2>3, StartIs
    <3> QED
      BY <2>1, <3>1
  <2>4. CASE graph.seeds[m][s] = None
    <3>1. PICK x \in Matches : IsBye(x) /\ e = ByeWinner(x) /\ graph.winnerTo[x] = p
      BY <1>1, <1>o, <2>1, <2>2, <2>4
    <3>2. \E t \in {1, 2} : graph.seeds[x][t] = e
      BY <1>1, <3>1, StartIs
    <3> QED
      BY <3>1, <3>2
  <2> QED
    BY <2>3, <2>4
<1>7. SeededOnce(graph) /\ graph.matches = Matches
  BY <1>1, GraphsFit DEF Matches
<1>8. ASSUME NEW x \in Matches, NEW e \in Entry, IsBye(x), ByeWinner(x) = e,
             NEW p \in Pointers(graph), graph.winnerTo[x] = p
      PROVE  GoesOn(e, x)'
  <2>1. Feeds(x, p)
    BY <1>1, <1>8, PointerIs DEF Feeds
  <2>2. Won(x)' = e /\ (IsGrandFinal1(x) => ~IsBye(x))
    BY <1>1, <1>8, <2>1, StartIs, SeedIs
  <2>3. ~Titled(x)'
    BY <1>2, <1>8, <2>2 DEF Titled, IsGrandFinal1, Terminal
  <2>4. Sent(x, p)' = e
    BY <1>2, <1>8, <2>2, <2>3 DEF Sent
  <2> QED
    BY <1>2, <1>3, <2>1, <2>4 DEF GoesOn
<1>9. ASSUME NEW e \in Entry, NEW p \in Pointers(graph), NEW q \in Pointers(graph),
             Stands(e, p)', Stands(e, q)'
      PROVE  p = q
  <2>1. /\ At(p)' = e /\ ~GoesOn(e, p.match)' /\ At(q)' = e /\ ~GoesOn(e, q.match)'
    BY <1>5, <1>9 DEF Stands
  <2>2. PICK x \in Matches, s \in {1, 2} :
          /\ graph.seeds[x][s] = e
          /\ \/ p = [match |-> x, slot |-> s]
             \/ IsBye(x) /\ ByeWinner(x) = e /\ graph.winnerTo[x] = p
    BY <1>6, <2>1
  <2>3. PICK y \in Matches, t \in {1, 2} :
          /\ graph.seeds[y][t] = e
          /\ \/ q = [match |-> y, slot |-> t]
             \/ IsBye(y) /\ ByeWinner(y) = e /\ graph.winnerTo[y] = q
    BY <1>6, <2>1
  <2>4. x = y /\ s = t
    BY <1>1, <1>7, <2>2, <2>3 DEF SeededOnce, Slot
  <2>5. CASE p.match = x /\ IsBye(x) /\ ByeWinner(x) = e /\ graph.winnerTo[x] = q
    <3>1. GoesOn(e, x)'
      BY <1>8, <2>5
    <3> QED
      BY <2>1, <2>5, <3>1
  <2>6. CASE q.match = x /\ IsBye(x) /\ ByeWinner(x) = e /\ graph.winnerTo[x] = p
    <3>1. GoesOn(e, x)'
      BY <1>8, <2>6
    <3> QED
      BY <2>1, <2>6, <3>1
  <2> QED
    BY <2>2, <2>3, <2>4, <2>5, <2>6
<1>10. \A x \in Matches : row'[x].state = "complete" => ~Contested(row[x])'
  BY <1>1, StartIs
<1>11. PlaceInv'
  BY <1>2, <1>3, <1>9, <1>10 DEF PlaceInv
<1>12. \A e : \A m \in Matches : ~BeatenIn(e, m) /\ ~BeatenIn(e, m)'
  BY <1>1, <1>10 DEF BeatenIn, Decided, BlankRow
<1> QED
  BY <1>1, <1>2, <1>11, <1>12 DEF StatusInv, Beaten

LEMMA StageInit == Init => StageInv
<1> SUFFICES ASSUME Init PROVE StageInv
  OBVIOUS
<1>1. /\ SlotInv /\ TypeInv /\ graph \in Graphs /\ None \notin Entry
      /\ \A m \in Matches : row[m] = BlankRow
      /\ \A e \in Entry : status[e] = "active"
  BY SlotInit, EntryAssumption DEF SlotInv, Init, Matches
<1>2. \A x \in Matches : row[x].state # "complete"
  BY <1>1 DEF BlankRow
<1>3. \A x \in Matches : \A p : Sent(x, p) = None
  BY <1>2 DEF Sent, Won, Lost, Decided
<1>4. \A p \in Pointers(graph) : At(p) = None
  BY <1>1, PointerIs DEF At, BlankRow, Slot
<1>5. \A p \in Pointers(graph) : Due(p) = None
  BY <1>1, <1>3, <1>4, DueIs DEF Fed
<1>6. PlaceInv
  BY <1>1, <1>2, <1>5 DEF PlaceInv, Stands
<1>7. \A e : ~Beaten(e)
  BY <1>2 DEF Beaten, BeatenIn, Decided
<1> QED
  BY <1>1, <1>6, <1>7 DEF StageInv, StatusInv

LEMMA StageStep ==
  ASSUME OneAtATime
  PROVE  StageInv /\ RefusedIsDead /\ [Next]_vars => StageInv'
<1> SUFFICES ASSUME StageInv, RefusedIsDead, [Next]_vars PROVE StageInv'
  OBVIOUS
<1>0. SlotInv'
  BY SlotStep DEF StageInv
<1>1. ASSUME UNCHANGED <<graph, row, status>> PROVE PlaceInv' /\ StatusInv'
  BY <1>1, StillMoves
<1>2. CASE StartBracket
  BY <1>0, <1>2, StartMoves DEF StageInv
<1>3. CASE \E w \in Worker, m \in Matches, e \in Entry :
             ReportResult(w, m, e) \/ OverrideResult(w, m, e)
  BY <1>0, <1>1, <1>3 DEF ReportResult, OverrideResult, StageInv
<1>4. ASSUME NEW w \in Worker, Continue(w) PROVE PlaceInv' /\ StatusInv'
  BY <1>1, <1>4, RecordMoves, WalkoverMoves, SlotMoves DEF Continue, FetchRow, FinishResult
<1>5. CASE CompleteStage \/ CancelStage
  BY <1>0, <1>1, <1>5 DEF CompleteStage, CancelStage, StageInv
<1>6. CASE (\E e \in graph.field : RetireEntry(e)) \/ UNCHANGED vars
  <2>1. \A e \in Entry : status'[e] \in {status[e], "dropped"}
    BY <1>6 DEF RetireEntry, vars, StageInv, SlotInv, TypeInv, TypeOK
  <2> QED
    BY <1>0, <1>6, <2>1, StillMoves DEF RetireEntry, vars, StageInv
<1> QED
  BY <1>0, <1>2, <1>3, <1>4, <1>5, <1>6 DEF Next, SomeReport, StageInv

LEMMA EliminatedFollows == StageInv => EliminatedMeansBeaten
<1> SUFFICES ASSUME StageInv, NEW e \in graph.field, status[e] # "dropped"
             PROVE  status[e] = "eliminated" <=>
                      \E m \in Matches :
                        /\ Decided(m) /\ Contested(row[m]) /\ Loser(row[m]) = e
                        /\ \/ graph.loserTo[m] = NoPointer
                           \/ IsGrandFinal1(m) /\ row[m].winner = row[m].entry[1]
  BY DEF EliminatedMeansBeaten
<1>1. e \in Entry /\ StatusInv
  BY DEF StageInv, SlotInv, TypeInv, TypeOK, Fits, WellFormed
<1>2. \A m \in Matches : Decided(m) => (Titled(m) <=> IsGrandFinal1(m) /\ row[m].winner = row[m].entry[1])
  BY DEF Decided, Titled, Won
<1> QED
  BY <1>1, <1>2 DEF StatusInv, Beaten, BeatenIn

(* And an entry is marked eliminated exactly when it lost a match that     *)
(* sends its loser nowhere, whatever was corrected since.  That it lost    *)
(* only one such match, so that a correction may reinstate it by that      *)
(* match alone, is what takes the argument: an entry stands in one slot of *)
(* the graph at a time (PlaceInv).                                         *)
THEOREM EliminatedIsBeaten ==
  ASSUME OneAtATime
  PROVE  Spec => []EliminatedMeansBeaten
<1>0. Spec => []RefusedIsDead
  BY RefusedNeverCome
<1>1. StageInv /\ RefusedIsDead /\ [Next]_vars => StageInv'
  BY StageStep
<1> QED
  BY <1>0, <1>1, StageInit, EliminatedFollows, PTL DEF Spec

-----------------------------------------------------------------------------
(* The final ranks.                                                        *)

(* Sorting a finite set by who is ahead of whom numbers it without a gap.  *)
LEMMA Places ==
  ASSUME NEW S, IsFiniteSet(S), NEW f \in [S -> SUBSET S],
         \A x \in S : x \notin f[x],
         \A x, y \in S : x # y => x \in f[y] \/ y \in f[x],
         \A x, y \in S : x \in f[y] => f[x] \subseteq f[y]
  PROVE  {Cardinality(f[x]) : x \in S} = 0..(Cardinality(S) - 1)
<1> DEFINE n == Cardinality(S)
           T == 0..(n - 1)
           g == [x \in S |-> Cardinality(f[x])]
<1>1. n \in Nat
  BY FS_CardinalityType
<1>2. ASSUME NEW x \in S
      PROVE  IsFiniteSet(f[x]) /\ Cardinality(f[x]) \in T
  <2>1. f[x] \in SUBSET S
    OBVIOUS
  <2>2. IsFiniteSet(f[x]) /\ Cardinality(f[x]) <= n /\ (Cardinality(f[x]) = n => f[x] = S)
    BY <2>1, FS_Subset
  <2>3. Cardinality(f[x]) \in Nat
    BY <2>2, FS_CardinalityType
  <2> QED
    BY <1>1, <2>2, <2>3
<1>3. ASSUME NEW x \in S, NEW y \in S, x \in f[y]
      PROVE  Cardinality(f[x]) # Cardinality(f[y])
  <2>1. f[x] \in SUBSET f[y] /\ f[x] # f[y]
    BY <1>3
  <2> QED
    BY <1>2, <2>1, FS_Subset
<1>4. g \in Injection(S, T)
  <2>1. g \in [S -> T]
    BY <1>2
  <2>2. \A x, y \in S : g[x] = g[y] => x = y
    BY <1>3
  <2> HIDE DEF g
  <2> QED
    BY <2>1, <2>2, Fun_IsInj
<1>5. IsFiniteSet(T) /\ Cardinality(T) = n
  BY <1>1, FS_Interval
<1>6. g \in Surjection(S, T)
  BY <1>4, <1>5, FS_Injection
<1>7. \A i \in T : \E x \in S : g[x] = i
  <2> HIDE DEF g, T
  <2>1. \A h \in Surjection(S, T) : \A i \in T : \E x \in S : h[x] = i
    BY Fun_SurjectionProperties
  <2> QED
    BY <1>6, <2>1
<1> QED
  BY <1>2, <1>7

(* Only an entry of the stage's field is ever in a slot. *)
FieldInv == \A p \in Pointers(graph) : At(p) \in graph.field \cup {None}

(* The title is only decided between two. *)
Final(m) == Terminal(m) \/ IsGrandFinal1(m)

TitleInv == \A m \in Matches : Final(m) /\ Decided(m) => Contested(row[m])

(* A completed stage was ranked after the last result that could matter,   *)
(* and one that is cancelled stays so while a request it found is running. *)
RankInv ==
  /\ Quiet /\ stage = "complete" /\ DecidingMatch # {} => final_rank = Ranks
  /\ \A w \in Worker : job[w].busy /\ job[w].stageSeen = "cancelled" => stage = "cancelled"

TableInv == StageInv /\ FieldInv /\ TitleInv /\ RankInv

LEMMA EntrantInField ==
  ASSUME StageInv, FieldInv, NEW x \in Matches
  PROVE  /\ \A s \in {1, 2} : row[x].entry[s] \in graph.field \cup {None}
         /\ Won(x) \in graph.field \cup {None} /\ Lost(x) \in graph.field \cup {None}
         /\ \A p : Sent(x, p) \in graph.field \cup {None}
<1>1. SlotInv /\ TypeInv /\ graph \in Graphs /\ RowsInv
  BY DEF StageInv, SlotInv
<1>2. ASSUME NEW s \in {1, 2} PROVE row[x].entry[s] \in graph.field \cup {None}
  <2>1. PICK p : p = [match |-> x, slot |-> s]
    OBVIOUS
  <2>2. p \in Pointers(graph) /\ p.match = x /\ p.slot = s
    BY <1>1, <2>1, PointerIs
  <2> QED
    BY <2>2 DEF FieldInv, At
<1>3. Won(x) \in graph.field \cup {None}
  BY <1>1, <1>2 DEF Won, RowsInv
<1>4. Lost(x) \in graph.field \cup {None}
  BY <1>2 DEF Lost, Loser
<1> QED
  BY <1>2, <1>3, <1>4 DEF Sent

(* What is in a match's own slots after a write to its row. *)
LEMMA WriteInField ==
  ASSUME SlotInv, FieldInv, UNCHANGED graph, NEW m \in Matches, NEW newRow,
         row' = [row EXCEPT ![m] = newRow],
         \A s \in {1, 2} : newRow.entry[s] \in graph.field \cup {None}
  PROVE  FieldInv'
<1>1. TypeInv /\ graph \in Graphs
  BY DEF SlotInv
<1>2. \A p \in Pointers(graph) : p.match \in Matches /\ p.slot \in {1, 2}
  BY <1>1, PointerIs
<1>3. row'[m] = newRow /\ \A x \in Matches : x # m => row'[x] = row[x]
  BY <1>1 DEF TypeInv, TypeOK, Matches
<1>4. \A p \in Pointers(graph) : At(p)' \in graph.field \cup {None}
  BY <1>2, <1>3 DEF FieldInv, At
<1> QED
  BY <1>4 DEF FieldInv, Pointers

(* A step that completes no match, nor touches one that is. *)
LEMMA FrozenTitles ==
  ASSUME TitleInv, Frozen
  PROVE  TitleInv'
<1>1. /\ Matches' = Matches /\ graph' = graph
      /\ \A x \in Matches : Decided(x)' => Decided(x) /\ row'[x] = row[x]
  BY FrozenIs DEF Frozen, Decided
<1> QED
  BY <1>1 DEF TitleInv, Final, Terminal, IsGrandFinal1, Contested

LEMMA SlotTitles ==
  ASSUME StageInv, FieldInv, TitleInv, NEW w \in Worker,
         PlaceEntry(w) \/ ClearReset(w) \/ OpenReset(w) \/ SettleOpens(w) \/ SettleWaits(w)
  PROVE  FieldInv' /\ TitleInv'
<1>0. PICK j : j = job[w]
  OBVIOUS
<1>h. PICK h, m : h = Head(j.todo) /\ m = h.match
  OBVIOUS
<1>1. SlotInv /\ TypeInv /\ graph \in Graphs
  BY DEF StageInv, SlotInv
<1>2. PICK task \in {"place", "clear", "reopen", "settle"} : Working(w, task)
  BY DEF PlaceEntry, ClearReset, OpenReset, SettleOpens, SettleWaits
<1>3. /\ j.busy /\ h.do = task /\ m \in Matches /\ h.slot \in {1, 2} /\ j.copy = row[m]
      /\ row[m] \in Row /\ TaskOk(j, h) /\ (task = "settle" => row[m].state # "complete")
  BY <1>0, <1>1, <1>2, <1>h, HeldRow
<1>4. row[m].state # "complete" /\ UNCHANGED graph
  BY <1>0, <1>2, <1>3, <1>h DEF TaskOk, PlaceEntry, ClearReset, OpenReset, SettleOpens, SettleWaits
<1>5. ASSUME NEW newRow, Save(w, newRow, <<>>), newRow.state # "complete",
             \A s \in {1, 2} : newRow.entry[s] \in graph.field \cup {None}
      PROVE  FieldInv' /\ TitleInv'
  <2>1. row' = [row EXCEPT ![m] = newRow]
    BY <1>0, <1>5, <1>h DEF Save
  <2>2. row'[m] = newRow /\ \A x \in Matches : x # m => row'[x] = row[x]
    BY <1>1, <1>3, <2>1 DEF TypeInv, TypeOK, Matches
  <2>3. Frozen
    BY <1>4, <1>5, <2>2 DEF Frozen
  <2> QED
    BY <1>1, <1>3, <1>4, <1>5, <2>1, <2>3, WriteInField, FrozenTitles
<1>6. \A s \in {1, 2} : row[m].entry[s] \in graph.field \cup {None}
  BY <1>3, EntrantInField
<1>7. CASE PlaceEntry(w)
  <2>1. PICK newRow : newRow = [row[m] EXCEPT !.entry[h.slot] = h.entry]
    OBVIOUS
  <2>2. Save(w, newRow, <<>>) /\ task = "place"
    BY <1>0, <1>2, <1>3, <1>7, <1>h, <2>1 DEF PlaceEntry, Working
  <2>3. h.entry \in graph.field \cup {None}
    BY <1>3, <2>2, EntrantInField DEF TaskOk
  <2>4. /\ newRow.state = row[m].state
        /\ \A s \in {1, 2} : newRow.entry[s] = IF s = h.slot THEN h.entry ELSE row[m].entry[s]
    BY <1>3, <2>1 DEF Row, Slot
  <2> QED
    BY <1>4, <1>5, <1>6, <2>2, <2>3, <2>4
<1>8. CASE ClearReset(w)
  <2>1. Save(w, BlankRow, <<>>) /\ BlankRow.state # "complete"
    BY <1>8 DEF ClearReset, BlankRow
  <2>2. \A s \in {1, 2} : BlankRow.entry[s] = None
    BY DEF BlankRow, Slot
  <2> QED
    BY <1>5, <2>1, <2>2
<1>9. CASE OpenReset(w)
  <2>1. PICK a, b : a = graph.winnerTo[j.match].slot /\ b = graph.loserTo[j.match].slot
    OBVIOUS
  <2>2. PICK newRow : newRow = [row[m] EXCEPT !.entry[a] = j.winner, !.entry[b] = j.loser,
                                              !.state = "open"]
    OBVIOUS
  <2>3. Save(w, newRow, <<>>) /\ task = "reopen"
    BY <1>0, <1>2, <1>3, <1>9, <1>h, <2>1, <2>2 DEF OpenReset, Working
  <2>4. /\ j.match \in Matches /\ j.winner = row[j.match].winner
        /\ j.loser = Loser(row[j.match]) /\ Decided(j.match) /\ Contested(row[j.match])
    BY <1>0, <1>1, <1>3, <2>3, Holding DEF TaskOk
  <2>5. j.winner = Won(j.match) /\ j.loser = Lost(j.match)
    BY <2>4 DEF Won, Lost
  <2>6. j.winner \in graph.field \cup {None} /\ j.loser \in graph.field \cup {None}
    BY <2>4, <2>5, EntrantInField
  <2>7. /\ newRow.state = "open"
        /\ \A s \in {1, 2} : newRow.entry[s] \in {j.winner, j.loser, row[m].entry[s]}
    BY <1>3, <2>2 DEF Row, Slot
  <2> QED
    BY <1>5, <1>6, <2>3, <2>6, <2>7
<1>10. CASE SettleOpens(w) \/ SettleWaits(w)
  <2>1. PICK st \in {"open", "pending"} : Save(w, [row[m] EXCEPT !.state = st], <<>>)
    BY <1>0, <1>3, <1>10 DEF SettleOpens, SettleWaits
  <2>2. PICK newRow : newRow = [row[m] EXCEPT !.state = st]
    OBVIOUS
  <2>3. newRow.state = st /\ newRow.entry = row[m].entry
    BY <1>3, <2>2 DEF Row
  <2> QED
    BY <1>5, <1>6, <2>1, <2>2, <2>3
<1> QED
  BY <1>7, <1>8, <1>9, <1>10

LEMMA SameTitle ==
  ASSUME UNCHANGED <<graph, row>>
  PROVE  DecidingMatch' = DecidingMatch /\ Ranks' = Ranks
<1>1. DecidingMatch' = DecidingMatch
  BY DEF DecidingMatch, Matches, Terminal, IsGrandFinal1, Decided
<1> QED
  BY <1>1 DEF Ranks, Matches, Decided, Contested, Loser

LEMMA RecordTitles ==
  ASSUME StageInv, FieldInv, TitleInv, OneAtATime, RefusedIsDead, NEW w \in Worker,
         RecordResult(w) \/ SettleWalkover(w)
  PROVE  FieldInv' /\ TitleInv'
<1>1. SlotInv /\ TypeInv /\ graph \in Graphs
  BY DEF StageInv, SlotInv
<1>2. PICK m \in Matches :
        /\ row'[m].entry = row[m].entry /\ UNCHANGED graph
        /\ \A x \in Matches : x # m => row'[x] = row[x]
        /\ \A p \in Pointers(graph) : At(p)' = At(p)
        /\ Contested(row[m]) \/ ~Final(m)
  <2>1. CASE RecordResult(w)
    BY <1>1, <2>1, RecordIs
  <2>2. CASE SettleWalkover(w)
    BY <1>1, <2>2, WalkoverIs DEF Final
  <2> QED
    BY <2>1, <2>2
<1>3. FieldInv'
  BY <1>2 DEF FieldInv, Pointers
<1>4. TitleInv'
  <2> SUFFICES ASSUME NEW x \in Matches, Final(x), Decided(x)' PROVE Contested(row[x])'
    BY <1>2 DEF TitleInv, Matches, Final, Terminal, IsGrandFinal1
  <2>1. CASE x = m
    BY <1>2, <2>1 DEF Contested
  <2>2. CASE x # m
    BY <1>2, <2>2 DEF TitleInv, Decided, Contested
  <2> QED
    BY <2>1, <2>2
<1> QED
  BY <1>3, <1>4

LEMMA StartTitles ==
  ASSUME SlotInv, StartBracket
  PROVE  FieldInv' /\ TitleInv'
<1>1. TypeInv /\ graph \in Graphs /\ graph' = graph
  BY DEF SlotInv, StartBracket
<1>2. \A x \in Matches, s \in {1, 2} : graph.seeds[x][s] \in graph.field \cup {None}
  BY <1>1 DEF TypeInv, TypeOK, Fits, WellFormed, Matches, Slot
<1>3. \A x \in Matches : ByeWinner(x) \in graph.field \cup {None}
  BY <1>2 DEF ByeWinner
<1>4. ASSUME NEW x \in Matches, NEW s \in {1, 2}
      PROVE  row'[x].entry[s] \in graph.field \cup {None}
  <2>1. /\ graph.seeds[x][s] # None => row'[x].entry[s] = graph.seeds[x][s]
        /\ graph.seeds[x][s] = None =>
             row'[x].entry[s] = None \/ \E y \in Matches : row'[x].entry[s] = ByeWinner(y)
    <3>1. \A m \in Matches, t \in {1, 2} :
            /\ graph.seeds[m][t] # None => row'[m].entry[t] = graph.seeds[m][t]
            /\ graph.seeds[m][t] = None =>
                 \/ row'[m].entry[t] = None
                    /\ ~\E y \in Matches : /\ IsBye(y)
                                           /\ graph.winnerTo[y] = [match |-> m, slot |-> t]
                 \/ \E y \in Matches : /\ IsBye(y) /\ row'[m].entry[t] = ByeWinner(y)
                                       /\ graph.winnerTo[y] = [match |-> m, slot |-> t]
      BY StartIs
    <3> QED
      BY <3>1
  <2> QED
    BY <1>2, <1>3, <2>1
<1>5. \A p \in Pointers(graph) : p.match \in Matches /\ p.slot \in {1, 2}
  BY <1>1, PointerIs
<1>6. FieldInv'
  BY <1>1, <1>4, <1>5 DEF FieldInv, At, Pointers
<1>7. ASSUME NEW x \in Matches, Final(x) PROVE ~IsBye(x)
  <2>1. OneSource(graph) /\ x \in graph.matches
    BY <1>1, GraphsFit DEF Matches
  <2>2. graph.seeds[x][1] = None <=> graph.seeds[x][2] = None
    BY <1>7, <2>1 DEF OneSource, Final, Terminal, IsGrandFinal1
  <2> QED
    BY <2>2 DEF IsBye
<1>8. \A x \in Matches : Final(x)' <=> Final(x)
  BY <1>1 DEF Final, Terminal, IsGrandFinal1
<1>9. \A x \in Matches : Decided(x)' => IsBye(x)
  BY StartIs
<1>10. Matches' = Matches
  BY <1>1 DEF Matches
<1>11. TitleInv'
  BY <1>7, <1>8, <1>9, <1>10 DEF TitleInv
<1> QED
  BY <1>6, <1>11

(* A request that ends has ranked the stage again if its result can still  *)
(* matter: judged on the stage it found, whatever the stage is by then.    *)
LEMMA RankStep ==
  ASSUME TypeInv, RankInv, OneAtATime, [Next]_vars
  PROVE  RankInv'
<1>1. /\ Quiet /\ stage = "complete" /\ DecidingMatch # {} => final_rank = Ranks
      /\ \A w \in Worker : job[w].busy /\ job[w].stageSeen = "cancelled" => stage = "cancelled"
  BY DEF RankInv
<1>2. ASSUME NEW w \in Worker, NEW task, Working(w, task), NEW newRow, NEW then,
             Save(w, newRow, then), UNCHANGED stage
      PROVE  RankInv'
  <2>1. job[w] \in Jobs /\ job[w].busy
    BY <1>2, JobTyped DEF Working
  <2>2. job'[w].busy
    BY <1>2, <2>1 DEF Save, TypeInv, TypeOK, Jobs
  <2>3. \A v \in Worker : v # w => job'[v] = job[v]
    BY <1>2 DEF Save, TypeInv, TypeOK
  <2>4. job'[w].stageSeen = job[w].stageSeen
    BY <1>2, <2>1 DEF Save, TypeInv, TypeOK, Jobs
  <2>5. ~Quiet'
    BY <2>2 DEF Quiet, Idle
  <2> QED
    BY <1>1, <1>2, <2>1, <2>3, <2>4, <2>5 DEF RankInv
<1>3. ASSUME NEW w \in Worker, FetchRow(w) PROVE RankInv'
  <2>1. job[w] \in Jobs /\ job[w].busy
    BY <1>3, JobTyped DEF FetchRow
  <2>2. PICK k \in {[job[w] EXCEPT !.todo = Tail(job[w].todo)],
                    [job[w] EXCEPT !.copy = row[Head(job[w].todo).match]]} :
          job' = [job EXCEPT ![w] = k]
    BY <1>3, <2>1 DEF FetchRow, TypeInv, TypeOK, Jobs
  <2>3. k.busy /\ k.stageSeen = job[w].stageSeen
    BY <2>1, <2>2 DEF Jobs
  <2>4. \A v \in Worker : job'[v] = IF v = w THEN k ELSE job[v]
    BY <2>2 DEF TypeInv, TypeOK
  <2>5. ~Quiet'
    BY <2>3, <2>4 DEF Quiet, Idle
  <2> QED
    BY <1>1, <1>3, <2>1, <2>3, <2>4, <2>5 DEF RankInv, FetchRow
<1>4. ASSUME NEW w \in Worker, FinishResult(w) PROVE RankInv'
  <2>1. /\ \A v \in Worker : job'[v] = IF v = w THEN Idle ELSE job[v]
        /\ UNCHANGED <<graph, row>>
    BY <1>4 DEF FinishResult, TypeInv, TypeOK
  <2>2. DecidingMatch' = DecidingMatch /\ Ranks' = Ranks
    BY <2>1, SameTitle
  <2>3. stage' = "complete" /\ DecidingMatch # {} => final_rank' = Ranks
    BY <1>1, <1>4 DEF FinishResult, FinalizeStage
  <2>4. \A v \in Worker : ~job'[v].busy
    BY <2>1 DEF OneAtATime, Idle
  <2> QED
    BY <2>2, <2>3, <2>4 DEF RankInv
<1>5. ASSUME NEW w \in Worker, NEW m \in Matches, NEW e \in Entry,
             ReportResult(w, m, e) \/ OverrideResult(w, m, e)
      PROVE  RankInv'
  <2>1. PICK override \in BOOLEAN : Load(w, m, e, override) /\ UNCHANGED stage
    BY <1>5 DEF ReportResult, OverrideResult
  <2>2. job'[w].busy /\ job'[w].stageSeen = stage
    BY <2>1 DEF Load, TypeInv, TypeOK
  <2>3. \A v \in Worker : v # w => job'[v] = job[v]
    BY <2>1 DEF Load, TypeInv, TypeOK
  <2>4. ~Quiet'
    BY <2>2 DEF Quiet, Idle
  <2> QED
    BY <1>1, <2>1, <2>2, <2>3, <2>4 DEF RankInv
<1>6. CASE StartBracket
  <2>1. \A w \in Worker : job[w].busy => job[w].stageSeen # "cancelled"
    BY <1>1, <1>6 DEF StartBracket
  <2> QED
    BY <1>6, <2>1 DEF StartBracket, RankInv
<1>7. CASE CompleteStage
  <2>1. \A w \in Worker : job[w].busy => job[w].stageSeen # "cancelled"
    BY <1>1, <1>7 DEF CompleteStage
  <2>2. DecidingMatch' = DecidingMatch /\ Ranks' = Ranks
    BY <1>7, SameTitle DEF CompleteStage
  <2> QED
    BY <1>7, <2>1, <2>2 DEF CompleteStage, FinalizeStage, RankInv
<1>8. CASE CancelStage
  BY <1>8 DEF CancelStage, RankInv
<1>9. CASE (\E e \in graph.field : RetireEntry(e)) \/ UNCHANGED vars
  <2>1. DecidingMatch' = DecidingMatch /\ Ranks' = Ranks
    BY <1>9, SameTitle DEF RetireEntry, vars
  <2> QED
    BY <1>1, <1>9, <2>1 DEF RetireEntry, vars, RankInv, Quiet
<1>10. ASSUME NEW w \in Worker, Continue(w) PROVE RankInv'
  <2>1. CASE FetchRow(w) \/ FinishResult(w)
    BY <1>3, <1>4, <2>1
  <2>2. CASE ~(FetchRow(w) \/ FinishResult(w))
    <3>1. PICK task : Working(w, task) /\ (\E newRow, then : Save(w, newRow, then)) /\ UNCHANGED stage
      BY <1>10, <2>2 DEF Continue, RecordResult, PlaceEntry, ClearReset, OpenReset, SettleOpens,
                         SettleWaits, SettleWalkover
    <3> QED
      BY <1>2, <3>1
  <2> QED
    BY <2>1, <2>2
<1> QED
  BY <1>5, <1>6, <1>7, <1>8, <1>9, <1>10 DEF Next, SomeReport

(* The title is decided in one match. *)
LEMMA OneFinal ==
  ASSUME TypeInv, graph \in Graphs, NEW x \in DecidingMatch, NEW y \in DecidingMatch
  PROVE  x = y /\ x \in Matches /\ Final(x) /\ Decided(x)
<1>1. PICK t \in Matches : \A m \in Matches : Terminal(m) => m = t
  <2>1. PICK t \in graph.matches :
          {m \in graph.matches : graph.winnerTo[m] = NoPointer /\ graph.loserTo[m] = NoPointer} = {t}
    BY GraphsFit
  <2> QED
    BY <2>1 DEF Matches, Terminal
<1>2. \A z \in DecidingMatch : z \in Matches /\ Decided(z) /\ Final(z)
  BY DEF DecidingMatch, Final
<1>3. (Terminal(x) /\ Terminal(y)) \/ (IsGrandFinal1(x) /\ IsGrandFinal1(y))
  BY DEF DecidingMatch
<1>4. CASE Terminal(x) /\ Terminal(y)
  BY <1>1, <1>2, <1>4
<1>5. CASE IsGrandFinal1(x) /\ IsGrandFinal1(y)
  <2>1. PICK u, v : u = graph.winnerTo[x] /\ v = graph.winnerTo[y]
    OBVIOUS
  <2>2. u # NoPointer /\ v # NoPointer /\ Terminal(u.match) /\ Terminal(v.match)
    BY <1>5, <2>1 DEF IsGrandFinal1
  <2>3. Feeds(x, u) /\ Feeds(y, v) /\ u \in Pointers(graph) /\ v \in Pointers(graph)
    BY <1>2, <2>1, <2>2, PointerIs DEF Feeds
  <2>4. u.match = v.match
    BY <1>1, <2>2, <2>3, PointerIs
  <2> QED
    BY <1>2, <1>5, <2>1, <2>3, <2>4, ResetIs
<1> QED
  BY <1>2, <1>3, <1>4, <1>5

LEMMA RanksAre ==
  ASSUME StageInv, FieldInv, TitleInv, Quiet, NEW m \in DecidingMatch
  PROVE  /\ {Ranks[e] : e \in graph.field} = 1..Cardinality(graph.field)
         /\ Ranks[row[m].winner] = 1
<1>1. /\ SlotInv /\ PlaceInv /\ RowsInv /\ TypeInv /\ graph \in Graphs
      /\ IsFiniteSet(Entry) /\ Entry \subseteq Nat /\ None \notin Entry
  BY EntryAssumption DEF StageInv, SlotInv
<1>2. /\ m \in Matches /\ Final(m) /\ Decided(m) /\ Contested(row[m])
      /\ m = CHOOSE x \in DecidingMatch : TRUE
  <2>1. PICK x \in DecidingMatch : x = CHOOSE y \in DecidingMatch : TRUE
    OBVIOUS
  <2> QED
    BY <1>1, <2>1, OneFinal DEF TitleInv
<1>3. PICK champion, runnerUp : champion = row[m].winner /\ runnerUp = Loser(row[m])
  OBVIOUS
<1>4. champion \in graph.field /\ runnerUp \in graph.field /\ champion # runnerUp
  <2>1. \A p : ~Coming(p)
    BY DEF Quiet, Coming, Idle
  <2>2. row[m].entry[1] # row[m].entry[2]
    BY <1>1, <1>2, <2>1, TwoEntrants
  <2>3. champion \in {row[m].entry[1], row[m].entry[2]}
    BY <1>1, <1>2, <1>3 DEF RowsInv
  <2>4. row[m].entry[1] \in graph.field /\ row[m].entry[2] \in graph.field
    BY <1>2, EntrantInField DEF Contested
  <2> QED
    BY <1>3, <2>2, <2>3, <2>4 DEF Loser
<1>5. graph.field \subseteq Entry /\ graph.field \subseteq Nat /\ IsFiniteSet(graph.field)
  <2>1. graph.field \in SUBSET Entry
    BY <1>1 DEF TypeInv, TypeOK, Fits, WellFormed
  <2> QED
    BY <1>1, <2>1, FS_Subset
<1> DEFINE knockout(e) == {x \in Matches : /\ Decided(x) /\ Contested(row[x])
                                           /\ graph.loserTo[x] = NoPointer
                                           /\ Loser(row[x]) = e}
           abs(i) == IF i < 0 THEN -i ELSE i
           depth(e) == IF knockout(e) = {} THEN 0
                       ELSE abs(graph.round[CHOOSE x \in knockout(e) : TRUE])
           rest == graph.field \ {champion, runnerUp}
           ahead(e) == {x \in rest : depth(x) > depth(e) \/ (depth(x) = depth(e) /\ x < e)}
<1>6. Ranks = [e \in Entry |-> IF e = champion THEN 1
                               ELSE IF e = runnerUp THEN 2
                               ELSE IF e \in rest THEN 3 + Cardinality(ahead(e)) ELSE 0]
  BY <1>2, <1>3 DEF Ranks
<1>7. \A e : depth(e) \in Int
  <2>1. \A e : knockout(e) # {} => (CHOOSE x \in knockout(e) : TRUE) \in graph.matches
    BY DEF Matches
  <2>2. \A x \in graph.matches : graph.round[x] \in Int
    BY <1>1 DEF TypeInv, TypeOK, Fits, WellFormed
  <2> HIDE DEF knockout
  <2>3. \A e : knockout(e) # {} => graph.round[CHOOSE x \in knockout(e) : TRUE] \in Int
    BY <2>1, <2>2
  <2>4. \A i \in Int : abs(i) \in Int
    OBVIOUS
  <2> HIDE DEF abs
  <2> QED
    BY <2>3, <2>4
<1>8. rest \subseteq Nat /\ IsFiniteSet(rest) /\ Cardinality(rest) = Cardinality(graph.field) - 2
      /\ Cardinality(graph.field) \in Nat
  <2>1. /\ IsFiniteSet(graph.field \ {champion})
        /\ Cardinality(graph.field \ {champion}) = Cardinality(graph.field) - 1
    BY <1>4, <1>5, FS_RemoveElement
  <2>2. rest = (graph.field \ {champion}) \ {runnerUp}
    OBVIOUS
  <2>3. /\ IsFiniteSet(rest)
        /\ Cardinality(rest) = Cardinality(graph.field \ {champion}) - 1
    BY <1>4, <2>1, <2>2, FS_RemoveElement
  <2>4. Cardinality(graph.field) \in Nat
    BY <1>5, FS_CardinalityType
  <2> QED
    BY <1>5, <2>1, <2>3, <2>4
<1> HIDE DEF depth
<1> DEFINE f == [e \in rest |-> ahead(e)]
<1>9. {Cardinality(f[e]) : e \in rest} = 0..(Cardinality(rest) - 1)
  <2> DEFINE S == rest
  <2>1. \A x \in S : x \in Int /\ depth(x) \in Int
    BY <1>7, <1>8
  <2>2. f \in [S -> SUBSET S]
    OBVIOUS
  <2>3. \A x, y \in S : x \in f[y] <=> depth(x) > depth(y) \/ (depth(x) = depth(y) /\ x < y)
    OBVIOUS
  <2>4. IsFiniteSet(S)
    BY <1>8
  <2> HIDE DEF f, S
  <2>5. \A x \in S : x \notin f[x]
    BY <2>1, <2>3
  <2>6. \A x, y \in S : x # y => x \in f[y] \/ y \in f[x]
    BY <2>1, <2>3
  <2>7. \A x, y \in S : x \in f[y] => f[x] \subseteq f[y]
    <3> SUFFICES ASSUME NEW x \in S, NEW y \in S, x \in f[y], NEW z \in f[x] PROVE z \in f[y]
      OBVIOUS
    <3>1. z \in S
      BY <2>2
    <3> QED
      BY <2>1, <2>3, <3>1
  <2>8. {Cardinality(f[e]) : e \in S} = 0..(Cardinality(S) - 1)
    BY <2>2, <2>4, <2>5, <2>6, <2>7, Places
  <2> QED
    BY <2>8 DEF S
<1>10. \A e \in rest : Ranks[e] = 3 + Cardinality(f[e])
  BY <1>5, <1>6
<1>11. Ranks[champion] = 1 /\ Ranks[runnerUp] = 2
  BY <1>4, <1>5, <1>6
<1>12. /\ \A e \in graph.field : e = champion \/ e = runnerUp \/ e \in rest
       /\ \A e \in rest : e \in graph.field
  OBVIOUS
<1> HIDE DEF f, rest
<1>13. PICK n \in Int : n = Cardinality(graph.field) /\ Cardinality(rest) = n - 2
  BY <1>8
<1>14. {Cardinality(f[e]) : e \in rest} = 0..(n - 3)
  BY <1>9, <1>13
<1>15. n >= 2
  <2>1. Cardinality(rest) \in Nat
    BY <1>8, FS_CardinalityType
  <2> QED
    BY <1>13, <2>1
<1>16. ASSUME NEW e \in graph.field PROVE Ranks[e] \in 1..n
  <2>1. e \in rest => Cardinality(f[e]) \in 0..(n - 3)
    BY <1>14
  <2> QED
    BY <1>10, <1>11, <1>12, <1>15, <2>1
<1>17. ASSUME NEW i \in 1..n PROVE \E e \in graph.field : Ranks[e] = i
  <2>1. CASE i \in {1, 2}
    BY <1>4, <1>11, <2>1
  <2>2. CASE i > 2
    <3>1. i - 3 \in 0..(n - 3)
      BY <2>2
    <3>2. PICK e \in rest : Cardinality(f[e]) = i - 3
      BY <1>14, <3>1
    <3> QED
      BY <1>10, <1>12, <3>2
  <2> QED
    BY <2>1, <2>2
<1> QED
  BY <1>3, <1>11, <1>13, <1>16, <1>17

LEMMA TableInit == Init => TableInv
<1> SUFFICES ASSUME Init PROVE TableInv
  OBVIOUS
<1>1. StageInv /\ SlotInv /\ TypeInv /\ graph \in Graphs
  BY StageInit DEF StageInv, SlotInv
<1>2. \A x \in Matches : row[x] = BlankRow
  BY DEF Init, Matches
<1>3. \A p \in Pointers(graph) : At(p) = None
  BY <1>1, <1>2, PointerIs DEF At, BlankRow, Slot
<1>4. TitleInv
  BY <1>2 DEF TitleInv, Decided, BlankRow
<1>5. RankInv
  BY DEF RankInv, Init, Idle
<1> QED
  BY <1>1, <1>3, <1>4, <1>5 DEF TableInv, FieldInv

LEMMA TableStep ==
  ASSUME OneAtATime
  PROVE  TableInv /\ RefusedIsDead /\ [Next]_vars => TableInv'
<1> SUFFICES ASSUME TableInv, RefusedIsDead, [Next]_vars PROVE TableInv'
  OBVIOUS
<1>0. StageInv' /\ StageInv /\ FieldInv /\ TitleInv /\ RankInv /\ SlotInv /\ TypeInv
  BY StageStep DEF TableInv, StageInv, SlotInv
<1>1. RankInv'
  BY <1>0, RankStep
<1>2. ASSUME UNCHANGED <<graph, row>> PROVE FieldInv' /\ TitleInv'
  BY <1>0, <1>2 DEF FieldInv, TitleInv, Pointers, At, Matches, Final, Terminal, IsGrandFinal1,
                    Decided, Contested
<1>3. CASE StartBracket
  BY <1>0, <1>1, <1>3, StartTitles DEF TableInv
<1>4. ASSUME NEW w \in Worker, Continue(w) PROVE FieldInv' /\ TitleInv'
  BY <1>0, <1>2, <1>4, RecordTitles, SlotTitles DEF Continue, FetchRow, FinishResult
<1>5. CASE ~StartBracket /\ ~\E w \in Worker : Continue(w)
  <2>1. UNCHANGED <<graph, row>>
    BY <1>5 DEF Next, SomeReport, ReportResult, OverrideResult, CompleteStage, CancelStage,
                RetireEntry, vars
  <2> QED
    BY <1>0, <1>1, <1>2, <2>1 DEF TableInv
<1> QED
  BY <1>0, <1>1, <1>3, <1>4, <1>5 DEF TableInv

LEMMA RanksFollow == TableInv => RanksFollowTheFinal
<1> SUFFICES ASSUME TableInv, Quiet, stage = "complete", DecidingMatch # {}
             PROVE  /\ {final_rank[e] : e \in graph.field} = 1..Cardinality(graph.field)
                    /\ \A m \in DecidingMatch : final_rank[row[m].winner] = 1
  BY DEF RanksFollowTheFinal
<1>1. final_rank = Ranks
  BY DEF TableInv, RankInv
<1> QED
  BY <1>1, RanksAre DEF TableInv

(* One request at a time: the final ranks of a completed stage number its  *)
(* field 1..n without a gap and put the winner of the match that now       *)
(* decides the title first, on any graph the engines may generate and      *)
(* after any corrections.  The stage may have been completed while a       *)
(* result was being saved: the request ranks the field again when it ends  *)
(* (RankInv), and it is between two entries of the field that the title is *)
(* decided (FieldInv, TitleInv).                                           *)
THEOREM RanksAreRight ==
  ASSUME OneAtATime
  PROVE  Spec => []RanksFollowTheFinal
<1>0. Spec => []RefusedIsDead
  BY RefusedNeverCome
<1>1. TableInv /\ RefusedIsDead /\ [Next]_vars => TableInv'
  BY TableStep
<1> QED
  BY <1>0, <1>1, TableInit, RanksFollow, PTL DEF Spec
=============================================================================

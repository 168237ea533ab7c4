------------------------- MODULE PointsStage_proofs --------------------------
(***************************************************************************)
(* Proofs about PointsStage, for any number of entries, groups, rounds and *)
(* requests: nobody meets twice, rounds come in order, a retired entry is  *)
(* out of the rounds to come, the ranks are those of the results, the best *)
(* of each group go on to the next stage, and the next round is paired     *)
(* without anybody's asking.  That the schedule of a round robin is one,   *)
(* and that seating advancers only permutes them, is proved of the engines *)
(* (MCEliminationGraph_proofs).                                            *)
(***************************************************************************)
EXTENDS PointsStage, FiniteSetTheorems, WellFoundedInduction, TLAPS

(* Matches that differ in their results only. *)
Same(r, q) == Key(r) = Key(q) /\ r.one = q.one /\ r.two = q.two

(* What the tables and the calls in flight hold. *)
States == {"draft", "active", "complete", "cancelled"}
Steps == {"create", "activate", "save", "list", "pair", "rank", "entries", "write", "close",
          "cancel", "retire", "draw", "enroll"}
Rows == [group : Nat, round : Nat \ {0}, position : Nat, one : Entry,
         two : Entry \cup {None}, winner : Entry \cup {None}, open : BOOLEAN]

IsEntry(x) == x \in [status : {"active", "dropped"}, rank : {x.rank}]
IsJob(j) ==
  j \in [kind : Kind, at : Steps, row : Rows \cup {None}, seen : SUBSET Rows,
         todo : SUBSET Rows, made : Nat, saves : {j.saves}, entry : {j.entry},
         order : {j.order}, was : States, rule : {j.rule}]

(* What a call does and what it was sent for. *)
OfKind(j) ==
  /\ j.todo # {} => j.at = "create"
  /\ j.kind = "start" <=> j.at = "activate" \/ (j.at = "create" /\ ~Scores(j))
  /\ j.at \in {"save", "list", "pair"} => Scores(j) /\ j.made = 0
  /\ j.at \in {"list", "pair"} \/ (j.at = "create" /\ Scores(j)) =>
       j.was = "active" /\ stage.format = "swiss"
  /\ j.at \in {"rank", "entries", "write", "close"} <=> Ranks(j) /\ j.at # "save"
  /\ j.kind = "report" => j.was = "active"
  /\ j.kind = "cancel" <=> j.at = "cancel"
  /\ j.kind = "retire" <=> j.at = "retire"
  /\ j.kind = "advance" <=> j.at \in {"draw", "enroll"}

(* What a call is about to write has the form of what it replaces. *)
Fit(j, rows) ==
  /\ j.at = "save" => j.row \in Rows /\ ~j.row.open /\ \E r \in rows : Same(r, j.row)
  /\ j.at = "retire" => j.entry[1] \in Entry /\ IsEntry(j.entry[2])
  /\ j.at = "write" => j.saves # {} /\ \A x \in j.saves : x[1] \in Entry /\ IsEntry(x[2])

(* No round is numbered above b. *)
Bound(b) ==
  /\ \A r \in table : r.round <= b
  /\ \A w \in Busy : \A r \in job[w].todo \cup job[w].seen : r.round <= b

Scheduled == RoundRobinMatches(stage.n, stage.groups)

(* What the engine's schedules are: it is proved of them below, and kept   *)
(* with the forms until then.                                              *)
Sound == \A n \in Nat : \A groups \in 1..n : IsRoundRobin(n, groups)

(* The forms: rows with a key of their own, calls that fit what they do.   *)
Base ==
  /\ Sound
  /\ stage \in [format : Formats, n : Fields, groups : Groups, state : States]
  /\ 2 * stage.groups <= stage.n
  /\ DOMAIN entry = Entry /\ \A e \in Entry : IsEntry(entry[e])
  /\ table \subseteq Rows /\ \A r \in table : r.position # 0
  /\ \A r, q \in table : Key(r) = Key(q) => r = q
  /\ DOMAIN job = Worker
  /\ \A w \in Busy : IsJob(job[w]) /\ OfKind(job[w]) /\ Fit(job[w], table)
  /\ \E b \in Nat : Bound(b)
  /\ left \in [Entry -> Nat \cup {None}]

(* A round robin's matches are those of its schedule. *)
AsScheduled ==
  stage.format = "round_robin" =>
    \A r \in table \cup UNION {job[w].todo : w \in Busy} : \E q \in Scheduled : Same(r, q)

(* The rounds of a Swiss stage. *)
Taken(n) == \E r \in table : r.round = n
Fresh(n) == LastRound(table) = n - 1 /\ Open = {} /\ ~Halfway
Unmet(r, q) == Meeting(r) # Meeting(q) /\ (r.round = q.round => Meeting(r) \cap Meeting(q) = {})

(* Whoever pairs the next round has seen every match of those before it,   *)
(* or comes too late: position 1 of that round is taken.                   *)
Pairs(j) ==
  LET n == LastRound(j.seen) + 1
  IN  /\ j.seen # {} /\ \A q \in j.seen : ~q.open
      /\ Taken(n) \/ (Fresh(n) /\ \A r \in table : \E q \in j.seen : Same(r, q))

(* Whoever creates round n repeats no meeting; before the first row it may  *)
(* come too late, and after it nobody else has opened a round.             *)
Creates(j, n) ==
  /\ \A r \in j.todo : r.group = 1 /\ r.position = 0 /\ r.round = n
  /\ \A r, q \in j.todo : r # q => Unmet(r, q)
  /\ IF j.made = 0 THEN Taken(n) \/ (Fresh(n) /\ \A r \in j.todo, q \in table : Unmet(r, q))
     ELSE LastRound(table) = n /\ \A r \in j.todo, q \in table : Unmet(r, q)

CallOk(j) ==
  /\ j.at = "list" => table # {}
  /\ j.at = "pair" => Pairs(j)
  /\ j.at = "create" => \E n \in Nat \ {0} : Creates(j, n)

(* The rounds in the table: each has a position 1, nobody meets twice, and *)
(* only the last has open matches.                                         *)
RoundsInv ==
  /\ \A r \in table : r.group = 1 /\ \E q \in table : q.round = r.round /\ q.position = 1
  /\ table # {} => Taken(1)
  /\ \A r, q \in table : r # q => Unmet(r, q)
  /\ \A r \in Open : r.round = LastRound(table)

(* The calls that pair and create them: one at most is halfway.            *)
CallsInv ==
  /\ \A w \in Busy : CallOk(job[w])
  /\ \A w, v \in Busy :
       job[w].at = "create" /\ job[v].at = "create" /\ job[w].made > 0 /\ job[v].made > 0 => w = v

SwissInv == stage.format = "swiss" => RoundsInv /\ CallsInv

(* A stage is ranked when nothing is open and nobody records or creates anything. *)
CompleteInv ==
  /\ \A w \in Busy : Ranks(job[w]) =>
       /\ Open = {}
       /\ \A v \in Busy : v # w => job[v].kind \in {"retire", "advance"}
  /\ stage.state = "complete" =>
       /\ Open = {}
       /\ \A w \in Busy : job[w].kind \in {"retire", "advance"} \/ Ranks(job[w])

(* Nobody retires while the stage is ranked, and nobody comes back. *)
OutCalls == \A w, v \in Busy : Ranks(job[w]) => job[v].kind # "retire"

OutStatus ==
  /\ \A w \in Busy : job[w].at = "write" =>
       \A x \in job[w].saves : x[2].status = entry[x[1]].status
  /\ \A e \in Entry : left[e] # None => entry[e].status = "dropped"

(* Nobody plays a round created after the one they left in. *)
InBy(r) == \A e \in Entry : e \in Meeting(r) /\ left[e] # None => r.round <= left[e]

OutRounds ==
  /\ \A r \in table : InBy(r)
  /\ \A w \in Busy : \A r \in job[w].todo : InBy(r)

OutInv == OutCalls /\ OutStatus /\ OutRounds

(* Two retirements are of two entries, and none carries an old rank. *)
RetireInv ==
  /\ \A w, v \in Busy :
       job[w].kind = "retire" /\ job[v].kind = "retire" => w = v \/ job[w].entry[1] # job[v].entry[1]
  /\ \A w \in Busy :
       job[w].kind = "retire" => job[w].entry[2].rank = entry[job[w].entry[1]].rank

HasRank(w, e) == entry[e].rank = RankByRef(w)[e]

(* What a ranking has read is what is there, and what it has not saved yet *)
(* is what it is going to save.                                            *)
RankInv ==
  /\ \A w \in Busy : job[w].kind = "override" => job[w].rule = <<>>
  /\ \A w \in Busy : job[w].at \in {"entries", "write", "close"} => job[w].seen = Results
  /\ \A w \in Busy : job[w].at = "write" =>
       /\ \A x \in job[w].saves : x[2].rank = RankByRef(w)[x[1]]
       /\ \A e \in Entry : HasRank(w, e) \/ \E x \in job[w].saves : x[1] = e
  /\ \A w \in Busy : job[w].at = "close" => \A e \in Entry : HasRank(w, e)

(* The rank an entry of a complete stage has: by its results, or by ruling. *)
RightRank(e) ==
  entry[e].rank \in
    {FinalRanks(Results)[e]} \cup (IF e \in DOMAIN ruling THEN {ruling[e]} ELSE {})

RankedInv ==
  /\ faults \in Nat
  /\ faults = 0 /\ stage.state = "complete" /\ (\A w \in Busy : ~Ranks(job[w])) =>
       \A e \in Entry : RightRank(e)

RanksInv == RetireInv /\ RankInv /\ RankedInv

(* A step that has nothing to do with the pairing of rounds. *)
Aside ==
  /\ UNCHANGED table
  /\ \A v \in Busy' : job'[v].at \in {"list", "pair", "create"} => v \in Busy /\ job'[v] = job[v]

(* A call begins, or those in flight go on. *)
Begun(w, j) ==
  /\ Start(w, j) /\ IsJob(j) /\ OfKind(j)
  /\ UNCHANGED <<stage, entry, table, field, left, ruling, amended, faults>>
  /\ j.was = stage.state
  /\ j.kind = "start" => stage.state = "draft" /\ j.at = "create"
  /\ j.kind = "report" => stage.state = "active"
  /\ j.kind = "complete" => stage.state = "active" /\ Open = {} /\ j.rule \in Rulings
  /\ j.kind # "complete" => j.rule = <<>>
  /\ j.kind = "cancel" => stage.state \in {"draft", "active"}
  /\ j.kind = "override" => j.at = "save" /\ \E r \in Results : r.two # None
  /\ j.kind = "advance" => stage.state = "complete" /\ ~Drawing /\ j.at = "draw" /\ j.made = 0
  /\ j.kind = "retire" => j.entry[2] = entry[j.entry[1]]
  /\ j.at \notin {"entries", "write", "close"}

GoesOn ==
  \A v \in Busy' :
    /\ v \in Busy
    /\ job'[v].kind = job[v].kind /\ job'[v].was = job[v].was /\ job'[v].rule = job[v].rule

(* A step in which nobody goes on ranking. *)
RankAside ==
  \A v \in Busy' : job'[v].at \in {"entries", "write", "close"} => v \in Busy /\ job'[v] = job[v]

(* A set of numbers has a least member, and a bounded one a greatest.      *)
LEMMA LeastExists ==
  ASSUME NEW S, S \subseteq Nat, S # {}
  PROVE  \E x \in S : \A y \in S : x <= y
<1>1. PICK x \in S : \A y \in S : ~(<<y, x>> \in OpToRel(<, Nat))
  BY NatLessThanWellFounded, WFMin
<1>2. \A y \in S : ~(y < x)
  BY <1>1 DEF OpToRel
<1> QED
  BY <1>2

LEMMA GreatestIs ==
  ASSUME NEW S, S \subseteq Nat, S # {}, NEW b \in Nat, \A x \in S : x <= b
  PROVE  Max(S) \in S /\ Max(S) \in Nat /\ \A x \in S : x <= Max(S)
<1> DEFINE T == {b - x : x \in S}
<1>1. T \subseteq Nat /\ T # {}
  <2>1. ASSUME NEW x \in S PROVE b - x \in Nat
    OBVIOUS
  <2> QED
    BY <2>1
<1>2. PICK t \in T : \A u \in T : t <= u
  BY <1>1, LeastExists
<1>3. PICK m \in S : t = b - m
  BY <1>2
<1>4. \A x \in S : m >= x
  BY <1>2, <1>3
<1>5. \E x \in S : \A y \in S : x >= y
  BY <1>4
<1>6. Max(S) \in S /\ \A y \in S : Max(S) >= y
  BY <1>5 DEF Max
<1> QED
  BY <1>6

-----------------------------------------------------------------------------
(* Rounds, meetings and pairings.                                          *)

LEMMA LastIs ==
  ASSUME NEW rows, NEW b \in Nat, \A r \in rows : r.round \in Nat /\ r.round <= b
  PROVE  /\ LastRound(rows) \in Nat /\ LastRound(rows) <= b
         /\ \A r \in rows : r.round <= LastRound(rows)
         /\ rows # {} => \E r \in rows : r.round = LastRound(rows)
<1> DEFINE S == {r.round : r \in rows} \cup {0}
<1>1. S \subseteq Nat /\ S # {} /\ \A x \in S : x <= b
  OBVIOUS
<1>2. Max(S) \in S /\ Max(S) \in Nat /\ \A x \in S : x <= Max(S)
  <2> HIDE DEF S
  <2> QED
    BY <1>1, GreatestIs
<1>3. LastRound(rows) = Max(S)
  BY DEF LastRound
<1>4. \A r \in rows : r.round \in S
  OBVIOUS
<1>5. ASSUME rows # {} PROVE \E r \in rows : r.round = Max(S)
  <2>1. PICK q \in rows : TRUE
    BY <1>5
  <2>2. CASE Max(S) = 0
    <3>1. q.round \in S /\ q.round \in Nat
      BY <2>1
    <3> HIDE DEF S
    <3>2. q.round = Max(S)
      BY <1>2, <2>2, <3>1
    <3> QED
      BY <2>1, <3>2
  <2>3. CASE Max(S) # 0
    BY <1>2, <2>3
  <2> QED
    BY <2>2, <2>3
<1> QED
  BY <1>1, <1>2, <1>3, <1>4, <1>5

LEMMA LastOfSame ==
  ASSUME NEW rows, NEW others, {r.round : r \in rows} = {r.round : r \in others}
  PROVE  LastRound(rows) = LastRound(others)
BY DEF LastRound

LEMMA SameIs ==
  ASSUME NEW r, NEW q, Same(r, q)
  PROVE  /\ r.group = q.group /\ r.round = q.round /\ r.position = q.position
         /\ r.one = q.one /\ r.two = q.two /\ Key(r) = Key(q) /\ Meeting(r) = Meeting(q)
BY DEF Same, Key, Meeting

LEMMA MeetingIs ==
  ASSUME stage.n \in Nat, NEW r \in Rows
  PROVE  Meeting(r) # {} /\ Meeting(r) \subseteq Entry
BY NoneAssumption DEF Rows, Meeting, Entry

(* One or two of a set of numbers. *)
LEMMA FewIs ==
  ASSUME NEW players, players \subseteq Nat, IsFiniteSet(players),
         NEW S \in SUBSET players, Cardinality(S) \in {1, 2}
  PROVE  \E a, b \in S : S = {a, b} /\ a <= b
<1>1. IsFiniteSet(S)
  BY FS_Subset
<1>2. CASE Cardinality(S) = 1
  <2>1. PICK x : S = {x}
    BY <1>1, <1>2, FS_Singleton
  <2>2. x \in S /\ S = {x, x} /\ x <= x
    BY <2>1
  <2> QED
    BY <2>2
<1>3. CASE Cardinality(S) = 2
  <2>1. PICK x \in S : TRUE
    <3>1. S # {}
      BY <1>3, FS_EmptySet
    <3> QED
      BY <3>1
  <2>2. IsFiniteSet(S \ {x}) /\ Cardinality(S \ {x}) = 1
    BY <1>1, <1>3, <2>1, FS_RemoveElement
  <2>3. PICK y : S \ {x} = {y}
    BY <2>2, FS_Singleton
  <2>4. x \in S /\ y \in S /\ S = {x, y} /\ S = {y, x}
    BY <2>1, <2>3
  <2>5. x \in Nat /\ y \in Nat
    BY <2>4
  <2>6. x <= y \/ y <= x
    BY <2>5
  <2> QED
    BY <2>4, <2>6
<1> QED
  BY <1>2, <1>3

LEMMA RowIn ==
  ASSUME NEW g \in Nat, NEW n \in Nat \ {0}, NEW p \in Nat, NEW a \in Entry,
         NEW b \in Entry \cup {None}, NEW e \in Entry \cup {None}, NEW o \in BOOLEAN
  PROVE  [group |-> g, round |-> n, position |-> p, one |-> a, two |-> b,
          winner |-> e, open |-> o] \in Rows
BY DEF Rows

LEMMA PairRowIs ==
  ASSUME stage.n \in Nat, NEW n \in Nat \ {0}, NEW a \in Entry, NEW b \in Entry, a <= b
  PROVE  LET r == PairRow(n, {a, b})
         IN  /\ r \in Rows /\ r.group = 1 /\ r.position = 0 /\ r.round = n
             /\ Meeting(r) = {a, b}
<1> DEFINE S == {a, b}
<1>1. a \in Nat /\ b \in Nat /\ a # None /\ b # None
  BY NoneAssumption DEF Entry
<1>2. Min(S) = a
  <2>1. \E x \in S : \A y \in S : x =< y
    BY <1>1
  <2>2. Min(S) \in S /\ \A y \in S : Min(S) =< y
    BY <2>1 DEF Min
  <2> QED
    BY <1>1, <2>2
<1>3. Max(S) = b
  <2>1. \E x \in S : \A y \in S : x >= y
    BY <1>1
  <2>2. Max(S) \in S /\ \A y \in S : Max(S) >= y
    BY <2>1 DEF Max
  <2> QED
    BY <1>1, <2>2
<1>4. PairRow(n, S) = Row(1, n, 0, a, IF a = b THEN None ELSE b)
  <2>1. S = {a} <=> a = b
    OBVIOUS
  <2> HIDE DEF S
  <2> QED
    BY <1>2, <1>3, <2>1 DEF PairRow
<1>5. CASE a = b
  <2>1. PairRow(n, S) = [group |-> 1, round |-> n, position |-> 0, one |-> a, two |-> None,
                         winner |-> a, open |-> FALSE]
    BY <1>4, <1>5 DEF Row
  <2>2. PairRow(n, S) \in Rows
    BY <2>1, RowIn
  <2>3. Meeting(PairRow(n, S)) = S
    BY <1>1, <1>5, <2>1 DEF Meeting
  <2> QED
    BY <2>1, <2>2, <2>3
<1>6. CASE a # b
  <2>1. PairRow(n, S) = [group |-> 1, round |-> n, position |-> 0, one |-> a, two |-> b,
                         winner |-> None, open |-> TRUE]
    BY <1>1, <1>4, <1>6 DEF Row
  <2>2. PairRow(n, S) \in Rows
    BY <2>1, RowIn
  <2>3. Meeting(PairRow(n, S)) = S
    BY <1>1, <1>6, <2>1 DEF Meeting
  <2> QED
    BY <2>1, <2>2, <2>3
<1> QED
  BY <1>5, <1>6

(* The next round: everybody meets somebody new, at most once. *)
LEMMA NextRoundIs ==
  ASSUME stage.n \in Nat, NEW seen, NEW players, players \subseteq Entry,
         NEW n \in Nat, LastRound(seen) = n,
         NEW rows \in NextRound(seen, players)
  PROVE  /\ rows # {} /\ rows \subseteq Rows
         /\ \A r \in rows : /\ r.group = 1 /\ r.position = 0 /\ r.round = n + 1
                            /\ Meeting(r) \subseteq players
                            /\ Meeting(r) \notin Met(seen)
         /\ \A r, q \in rows : r # q => Meeting(r) \cap Meeting(q) = {}
<1>1. players \subseteq Nat /\ IsFiniteSet(players)
  <2>1. IsFiniteSet(1..stage.n)
    BY FS_Interval
  <2>2. players \in SUBSET (1..stage.n) /\ players \subseteq Nat
    BY DEF Entry
  <2> QED
    BY <2>1, <2>2, FS_Subset
<1>2. PICK P \in Pairings(players, Met(seen)) : rows = {PairRow(n + 1, S) : S \in P}
  BY DEF NextRound
<1>3. /\ P # {} /\ P \subseteq {S \in SUBSET players : Cardinality(S) \in {1, 2}} \ Met(seen)
      /\ \A e \in players : Cardinality({S \in P : e \in S}) = 1
  BY <1>2 DEF Pairings
<1>4. IsFiniteSet(P)
  <2>1. IsFiniteSet(SUBSET players)
    BY <1>1, FS_SUBSET
  <2>2. P \in SUBSET SUBSET players
    BY <1>3
  <2> QED
    BY <2>1, <2>2, FS_Subset
<1>5. ASSUME NEW S \in P
      PROVE  LET r == PairRow(n + 1, S)
             IN  /\ r \in Rows /\ r.group = 1 /\ r.position = 0 /\ r.round = n + 1
                 /\ Meeting(r) = S
  <2>0. S \in SUBSET players /\ Cardinality(S) \in {1, 2}
    BY <1>3
  <2>1. PICK a, b \in S : S = {a, b} /\ a <= b
    BY <1>1, <2>0, FewIs
  <2>2. a \in Entry /\ b \in Entry
    BY <1>3
  <2> QED
    BY <2>1, <2>2, PairRowIs
<1>6. ASSUME NEW S \in P, NEW T \in P, NEW e \in S \cap T PROVE S = T
  <2>1. e \in players
    BY <1>3
  <2>2. IsFiniteSet({U \in P : e \in U})
    BY <1>4, FS_Subset
  <2>3. PICK U : {V \in P : e \in V} = {U}
    BY <1>3, <2>1, <2>2, FS_Singleton
  <2> QED
    BY <2>3
<1>7. \A r \in rows : \E S \in P : r = PairRow(n + 1, S)
  BY <1>2
<1>8. rows # {} /\ rows \subseteq Rows
  BY <1>2, <1>3, <1>5
<1>9. ASSUME NEW r \in rows
      PROVE  /\ r.group = 1 /\ r.position = 0 /\ r.round = n + 1
             /\ Meeting(r) \subseteq players /\ Meeting(r) \notin Met(seen)
  BY <1>3, <1>5, <1>7
<1>10. ASSUME NEW r \in rows, NEW q \in rows, r # q
       PROVE  Meeting(r) \cap Meeting(q) = {}
  <2>1. PICK S \in P : r = PairRow(n + 1, S)
    BY <1>7
  <2>2. PICK T \in P : q = PairRow(n + 1, T)
    BY <1>7
  <2>3. S # T
    BY <1>10, <2>1, <2>2
  <2>4. Meeting(r) = S /\ Meeting(q) = T
    BY <1>5, <2>1, <2>2
  <2> QED
    BY <1>6, <2>3, <2>4
<1> QED
  BY <1>8, <1>9, <1>10

-----------------------------------------------------------------------------
(* Forms: what the tables and the calls in flight hold.                    *)

LEMMA FieldSize == ASSUME Base PROVE stage.n \in Nat
BY BoundAssumption DEF Base

LEMMA IdleNotJob == ASSUME NEW j, IsJob(j) PROVE j # Idle
<1>1. j.kind \in Kind
  BY DEF IsJob
<1>2. Idle.kind \notin Kind
  BY DEF Idle, Kind
<1> QED
  BY <1>1, <1>2

LEMMA GoIs ==
  ASSUME Base, NEW w \in Worker, NEW j, Go(w, j)
  PROVE  /\ DOMAIN job' = Worker /\ job'[w] = j
         /\ \A v \in Worker : v # w => job'[v] = job[v]
         /\ \A v \in Worker : v # w => (v \in Busy' <=> v \in Busy)
         /\ w \in Busy' <=> j # Idle
         /\ Busy \subseteq Worker /\ Busy' \subseteq Worker
BY DEF Go, Busy, Base

LEMMA JobIs ==
  ASSUME Base, NEW w \in Worker, NEW at, Is(w, at)
  PROVE  /\ w \in Busy /\ job[w].at = at
         /\ IsJob(job[w]) /\ OfKind(job[w]) /\ Fit(job[w], table)
         /\ \E n \in Nat : /\ \A r \in table : r.round <= n
                         /\ \A r \in job[w].todo \cup job[w].seen : r.round <= n
<1>1. w \in Busy
  BY DEF Is, Busy
<1>2. PICK n \in Nat : Bound(n)
  BY DEF Base
<1>3. /\ \A r \in table : r.round <= n
      /\ \A r \in job[w].todo \cup job[w].seen : r.round <= n
  BY <1>1, <1>2 DEF Bound
<1> QED
  BY <1>1, <1>3 DEF Is, Base

(* The stage's format, field and groups never change. *)
Frame ==
  /\ stage' \in [format : Formats, n : Fields, groups : Groups, state : States]
  /\ stage'.format = stage.format /\ stage'.n = stage.n /\ stage'.groups = stage.groups

LEMMA FrameIs ==
  ASSUME Frame
  PROVE  Entry' = Entry /\ Rows' = Rows /\ Scheduled' = Scheduled
BY DEF Frame, Entry, Rows, Scheduled

LEMMA FrameSame ==
  ASSUME Base, stage' = stage
  PROVE  Frame
BY DEF Base, Frame

LEMMA FrameState ==
  ASSUME Base, NEW s \in States, stage' = [stage EXCEPT !.state = s]
  PROVE  Frame
BY DEF Base, Frame

LEMMA BaseGo ==
  ASSUME Base, Frame, NEW w \in Worker, NEW j, Go(w, j),
         DOMAIN entry' = Entry, \A e \in Entry : IsEntry(entry'[e]),
         table' \subseteq Rows, \A r \in table' : r.position # 0,
         \A r, q \in table' : Key(r) = Key(q) => r = q,
         \A r \in table : \E q \in table' : Same(q, r),
         left' \in [Entry -> Nat \cup {None}],
         j # Idle => IsJob(j) /\ OfKind(j) /\ Fit(j, table'),
         NEW b \in Nat, \A r \in table' : r.round <= b,
         j # Idle => \A r \in j.todo \cup j.seen : r.round <= b
  PROVE  Base'
<1>1. Entry' = Entry /\ Rows' = Rows
  BY FrameIs
<1>2. /\ DOMAIN job' = Worker /\ job'[w] = j
      /\ \A v \in Worker : v # w => job'[v] = job[v]
      /\ \A v \in Worker : v # w => (v \in Busy' <=> v \in Busy)
      /\ w \in Busy' <=> j # Idle
      /\ Busy \subseteq Worker /\ Busy' \subseteq Worker
  BY GoIs
<1>3. ASSUME NEW v \in Busy'
      PROVE  IsJob(job[v])' /\ OfKind(job[v])' /\ Fit(job[v], table)'
  <2>1. IsJob(job'[v]) /\ OfKind(job'[v]) /\ Fit(job'[v], table')
    <3>1. CASE v = w
      BY <1>2, <3>1
    <3>2. CASE v # w
      <4>1. v \in Busy /\ job'[v] = job[v]
        BY <1>2, <3>2
      <4>2. IsJob(job[v]) /\ OfKind(job[v]) /\ Fit(job[v], table)
        BY <4>1 DEF Base
      <4>3. ASSUME NEW r \in table, Same(r, job[v].row)
            PROVE  \E q \in table' : Same(q, job[v].row)
        BY <4>3 DEF Same
      <4>4. Fit(job[v], table')
        BY <4>2, <4>3 DEF Fit
      <4> QED
        BY <4>1, <4>2, <4>4
    <3> QED
      BY <3>1, <3>2
  <2>2. IsJob(job[v])'
    BY <1>1, <2>1 DEF IsJob, Frame
  <2>3. OfKind(job[v])'
    BY <2>1 DEF OfKind, Scores, Ranks, Frame
  <2>4. Fit(job[v], table)'
    BY <1>1, <2>1 DEF Fit
  <2> QED
    BY <2>2, <2>3, <2>4
<1>4. \E c \in Nat : Bound(c)'
  <2>1. PICK c \in Nat : Bound(c)
    BY DEF Base
  <2>2. PICK d \in Nat : b <= d /\ c <= d
    OBVIOUS
  <2>3. ASSUME NEW v \in Busy', NEW r \in job'[v].todo \cup job'[v].seen PROVE r.round <= d
    <3>1. CASE v = w
      <4>1. r.round <= b /\ r \in Rows
        BY <1>2, <3>1, <2>3 DEF IsJob
      <4> QED
        BY <2>2, <4>1 DEF Rows
    <3>2. CASE v # w
      <4>1. v \in Busy /\ job'[v] = job[v]
        BY <1>2, <3>2
      <4>2. r.round <= c /\ r \in Rows
        BY <2>1, <2>3, <4>1 DEF Bound, Base, IsJob
      <4> QED
        BY <2>2, <4>2 DEF Rows
    <3> QED
      BY <3>1, <3>2
  <2>4. ASSUME NEW r \in table' PROVE r.round <= d
    BY <2>2 DEF Rows
  <2> QED
    BY <2>3, <2>4 DEF Bound
<1>5. 2 * stage'.groups <= stage'.n
  BY DEF Base, Frame
<1> QED
  BY <1>1, <1>2, <1>3, <1>4, <1>5 DEF Base, Frame

(* A step of one call that changes no row, no entry. *)
LEMMA BaseSame ==
  ASSUME Base, Frame, NEW w \in Worker, NEW j, Go(w, j), UNCHANGED <<entry, table, left>>,
         j # Idle => IsJob(j) /\ OfKind(j) /\ Fit(j, table),
         NEW n \in Nat, j # Idle => \A r \in j.todo \cup j.seen : r.round <= n
  PROVE  Base'
<1>1. PICK c \in Nat : Bound(c)
  BY DEF Base
<1>2. PICK b \in Nat : c <= b /\ n <= b
  OBVIOUS
<1>3. \A r \in table' : r.round <= b
  BY <1>1, <1>2 DEF Bound, Base, Rows
<1>4. j # Idle => \A r \in j.todo \cup j.seen : r.round <= b
  BY <1>2 DEF IsJob, Rows
<1>5. \A r \in table : \E q \in table' : Same(q, r)
  BY DEF Same
<1>6. /\ DOMAIN entry' = Entry /\ \A e \in Entry : IsEntry(entry'[e])
      /\ table' \subseteq Rows /\ \A r \in table' : r.position # 0
      /\ \A r, q \in table' : Key(r) = Key(q) => r = q
      /\ left' \in [Entry -> Nat \cup {None}]
  BY DEF Base
<1>7. j # Idle => IsJob(j) /\ OfKind(j) /\ Fit(j, table')
  OBVIOUS
<1> QED
  BY <1>3, <1>4, <1>5, <1>6, <1>7, BaseGo

(* A call that ends. *)
LEMMA BaseDone ==
  ASSUME Base, Frame, NEW w \in Worker, Done(w), UNCHANGED <<entry, table, left>>
  PROVE  Base'
BY BaseSame DEF Done

LEMMA CallIs ==
  ASSUME Base, NEW kind \in Kind, NEW at \in Steps
  PROVE  IsJob(Call(kind, at)) /\ Call(kind, at).was = stage.state
BY DEF IsJob, Call, Base

LEMMA StartIs ==
  ASSUME NEW w, NEW j, Start(w, j)
  PROVE  job[w] = Idle /\ Go(w, j)
BY DEF Start

LEMMA ScheduleIs ==
  ASSUME Base, stage.format = "round_robin"
  PROVE  /\ stage.n \in Nat /\ IsRoundRobin(stage.n, stage.groups)
         /\ \A q \in Scheduled :
              /\ q.group \in Nat /\ q.round \in Nat \ {0} /\ q.round <= stage.n
              /\ q.position \in Nat \ {0} /\ q.one \in Entry /\ q.two \in Entry
<1>1. stage.n \in Nat /\ stage.n \in Fields /\ stage.groups \in Groups /\ 2 * stage.groups <= stage.n
  BY FieldSize DEF Base
<1>2. stage.groups \in 1..stage.n
  <2>1. Groups \subseteq Nat \ {0} /\ Fields \subseteq Nat
    BY BoundAssumption
  <2>2. stage.groups \in Nat \ {0} /\ stage.n \in Nat
    BY <1>1, <2>1
  <2> QED
    BY <1>1, <2>2
<1>3. IsRoundRobin(stage.n, stage.groups)
  BY <1>1, <1>2 DEF Base, Sound
<1>4. Scheduled \subseteq [group : Nat, round : 1..stage.n, position : 1..stage.n,
                           one : 1..stage.n, two : 1..stage.n]
  BY <1>3 DEF IsRoundRobin, Scheduled
<1> QED
  BY <1>1, <1>3, <1>4 DEF Entry

(* The matches of the first round. *)
LEMMA FirstRoundIs ==
  ASSUME Base, NEW rows \in FirstRound, Active = Entry
  PROVE  /\ rows \subseteq Rows
         /\ \E n \in Nat : \A r \in rows : r.round <= n
         /\ stage.format = "round_robin" =>
              \A r \in rows : r.position # 0 /\ \E q \in Scheduled : Same(r, q)
<1>1. stage.n \in Nat /\ stage.n \in Fields /\ stage.groups \in Groups /\ 2 * stage.groups <= stage.n
  BY FieldSize DEF Base
<1>2. CASE stage.format = "swiss"
  <2>1. LastRound({}) = 0
    <3>1. \A r \in {} : r.round \in Nat /\ r.round <= 0
      OBVIOUS
    <3> QED
      BY <3>1, LastIs
  <2>2. rows \in NextRound({}, Entry)
    BY <1>2 DEF FirstRound
  <2>3. rows \subseteq Rows /\ \A r \in rows : r.round = 0 + 1
    BY <1>1, <2>1, <2>2, NextRoundIs
  <2> QED
    BY <1>2, <2>3
<1>3. CASE stage.format # "swiss"
  <2>1. stage.format = "round_robin"
    BY <1>3, BoundAssumption DEF Base
  <2>2. rows = {Row(r.group, r.round, r.position, r.one, r.two) : r \in Scheduled}
    BY <1>3 DEF FirstRound, Scheduled
  <2>4. ASSUME NEW q \in Scheduled
        PROVE  LET r == Row(q.group, q.round, q.position, q.one, q.two)
               IN  r \in Rows /\ r.round <= stage.n /\ r.position # 0 /\ Same(r, q)
    <3>1. /\ q.group \in Nat /\ q.round \in Nat \ {0} /\ q.round <= stage.n
          /\ q.position \in Nat \ {0} /\ q.one \in Entry /\ q.two \in Entry
      BY <2>1, ScheduleIs
    <3>2. q.round \in Nat \ {0} /\ q.position \in Nat /\ q.position # 0 /\ q.round <= stage.n
      BY <1>1, <3>1
    <3>3. q.two # None
      BY <1>1, <3>1, NoneAssumption DEF Entry
    <3>4. Row(q.group, q.round, q.position, q.one, q.two) =
            [group |-> q.group, round |-> q.round, position |-> q.position, one |-> q.one,
             two |-> q.two, winner |-> None, open |-> TRUE]
      BY <3>3 DEF Row
    <3>5. Row(q.group, q.round, q.position, q.one, q.two) \in Rows
      <4>1. None \in Entry \cup {None} /\ TRUE \in BOOLEAN /\ q.two \in Entry \cup {None}
        BY <3>1
      <4> QED
        BY <3>1, <3>2, <3>4, <4>1 DEF Rows
    <3>6. Same(Row(q.group, q.round, q.position, q.one, q.two), q)
      BY <3>4 DEF Same, Key
    <3> QED
      BY <3>2, <3>4, <3>5, <3>6
  <2>5. \A r \in rows : \E q \in Scheduled : r = Row(q.group, q.round, q.position, q.one, q.two)
    BY <2>2
  <2>6. \A r \in rows : r \in Rows /\ r.round <= stage.n /\ r.position # 0 /\ \E q \in Scheduled : Same(r, q)
    BY <2>4, <2>5
  <2> QED
    BY <1>1, <2>6
<1> QED
  BY <1>2, <1>3

-----------------------------------------------------------------------------
(* Every action keeps the forms.                                           *)

LEMMA BaseStartStage ==
  ASSUME Base, NEW w \in Worker, StartStage(w)
  PROVE  Base' /\ Frame
<1>1. PICK rows \in FirstRound : Start(w, [Call("start", "create") EXCEPT !.todo = rows])
  BY DEF StartStage
<1> DEFINE j == [Call("start", "create") EXCEPT !.todo = rows]
<1>2. Go(w, j) /\ UNCHANGED <<entry, table, left>> /\ Frame
  BY <1>1, StartIs, FrameSame DEF StartStage
<1>3. /\ rows \subseteq Rows
      /\ \E n \in Nat : \A r \in rows : r.round <= n
  BY FirstRoundIs DEF StartStage
<1>4. PICK n \in Nat : \A r \in rows : r.round <= n
  BY <1>3
<1>5. IsJob(Call("start", "create"))
  BY CallIs DEF Kind, Steps
<1>6. IsJob(j)
  BY <1>3, <1>5 DEF IsJob, Call
<1>7. j.todo = rows /\ j.at = "create" /\ j.kind = "start" /\ j.was = stage.state /\ j.seen = {}
  BY DEF Call
<1>8. OfKind(j)
  BY <1>3, <1>7 DEF OfKind, Scores, Ranks
<1>9. Fit(j, table)
  BY <1>7 DEF Fit
<1>10. \A r \in j.todo \cup j.seen : r.round <= n
  BY <1>4, <1>7
<1> HIDE DEF j
<1> QED
  BY <1>2, <1>6, <1>8, <1>9, <1>10, BaseSame

LEMMA JobCreates ==
  ASSUME NEW k, IsJob(k), NEW rows \in SUBSET Rows, NEW m \in Nat
  PROVE  IsJob([k EXCEPT !.todo = rows, !.made = m])
BY DEF IsJob

LEMMA BaseCreateRow ==
  ASSUME Base, NEW w \in Worker, NEW row, CreateRow(w, row)
  PROVE  Base' /\ Frame
<1>1. Is(w, "create") /\ row \in job[w].todo /\ UNCHANGED <<stage, entry, left>>
  BY DEF CreateRow
<1>2. Frame
  BY <1>1, FrameSame
<1>3. PICK n \in Nat : /\ \A r \in table : r.round <= n
                       /\ \A r \in job[w].todo \cup job[w].seen : r.round <= n
  BY <1>1, JobIs
<1>4. w \in Busy /\ job[w].at = "create" /\ IsJob(job[w]) /\ OfKind(job[w])
  BY <1>1, JobIs
<1>5. CASE \E r \in table : Key(r) = Key(Placed(w, row))
  <2>1. Done(w) /\ UNCHANGED table
    BY <1>5 DEF CreateRow
  <2> QED
    BY <1>1, <1>2, <2>1, BaseDone
<1>6. CASE ~\E r \in table : Key(r) = Key(Placed(w, row))
  <2> DEFINE p == Placed(w, row)
             j == IF job[w].todo # {row}
                  THEN [job[w] EXCEPT !.todo = @ \ {row}, !.made = @ + 1]
                  ELSE IF job[w].kind = "start" THEN [job[w] EXCEPT !.at = "activate", !.todo = {}]
                       ELSE Idle
  <2>1. Go(w, j) /\ table' = table \cup {p}
    BY <1>6 DEF CreateRow, Created
  <2>2. row \in Rows /\ job[w].made \in Nat
    BY <1>1, <1>4 DEF IsJob
  <2>3. p \in Rows /\ p.position # 0 /\ p.round = row.round
    BY <2>2 DEF Placed, Rows
  <2>4. j # Idle => IsJob(j)
    <3>1. IsJob([job[w] EXCEPT !.todo = @ \ {row}, !.made = @ + 1])
      <4> DEFINE k == job[w]
      <4>1. IsJob(k) /\ k.todo \ {row} \in SUBSET Rows /\ k.made + 1 \in Nat
        BY <1>4 DEF IsJob
      <4> HIDE DEF k
      <4>2. IsJob([k EXCEPT !.todo = k.todo \ {row}, !.made = k.made + 1])
        BY <4>1, JobCreates
      <4> QED
        BY <4>2 DEF k
    <3>2. IsJob([job[w] EXCEPT !.at = "activate", !.todo = {}])
      BY <1>4 DEF IsJob, Steps
    <3> QED
      BY <3>1, <3>2
  <2>5. j # Idle => OfKind(j)
    BY <1>1, <1>4 DEF OfKind, Scores, Ranks, IsJob
  <2>6. j # Idle => Fit(j, table')
    BY <1>4 DEF Fit, IsJob
  <2>7. j # Idle => \A r \in j.todo \cup j.seen : r.round <= n
    BY <1>3, <1>4 DEF IsJob
  <2>8. \A r \in table' : r.round <= n
    BY <1>1, <1>3, <2>1, <2>3
  <2> HIDE DEF j
  <2>9. table' \subseteq Rows /\ \A r \in table' : r.position # 0
    BY <2>1, <2>3 DEF Base
  <2>10. \A r, q \in table' : Key(r) = Key(q) => r = q
    BY <1>6, <2>1 DEF Base
  <2>11. \A r \in table : \E q \in table' : Same(q, r)
    BY <2>1 DEF Same
  <2>12. DOMAIN entry' = Entry /\ (\A e \in Entry : IsEntry(entry'[e])) /\ left' \in [Entry -> Nat \cup {None}]
    BY <1>1 DEF Base
  <2> QED
    BY <1>2, <2>1, <2>4, <2>5, <2>6, <2>7, <2>8, <2>9, <2>10, <2>11, <2>12, BaseGo
<1> QED
  BY <1>5, <1>6

LEMMA BaseActivate ==
  ASSUME Base, NEW w \in Worker, Activate(w)
  PROVE  Base' /\ Frame
<1>1. Frame
  BY FrameState DEF Activate, States
<1> QED
  BY <1>1, BaseDone DEF Activate

LEMMA BaseResult ==
  ASSUME Base, NEW w \in Worker, NEW kind \in {"report", "override"},
         NEW r \in table, NEW e \in Meeting(r), kind = "report" => stage.state = "active",
         Start(w, Result(kind, r, e)), UNCHANGED <<stage, entry, table, left>>
  PROVE  Base' /\ Frame
<1> DEFINE j == Result(kind, r, e)
           q == [r EXCEPT !.winner = e, !.open = FALSE]
<1>1. Go(w, j) /\ Frame
  BY StartIs, FrameSame
<1>2. r \in Rows /\ e \in Entry
  BY MeetingIs, FieldSize DEF Base
<1>3. q \in Rows /\ ~q.open /\ Same(r, q)
  BY <1>2 DEF Rows, Same, Key
<1>4. IsJob(Call(kind, "save"))
  BY CallIs DEF Kind, Steps
<1>5. /\ j.at = "save" /\ j.kind = kind /\ j.row = q /\ j.todo = {} /\ j.seen = {}
      /\ j.was = stage.state /\ j.made = 0
  BY DEF Result, Call
<1>6. IsJob(j)
  <2> HIDE DEF q
  <2>1. j = [Call(kind, "save") EXCEPT !.row = q]
    BY DEF Result, q
  <2> HIDE DEF j
  <2> QED
    BY <1>3, <1>4, <2>1 DEF IsJob
<1>7. OfKind(j)
  BY <1>5 DEF OfKind, Scores, Ranks
<1>8. Fit(j, table)
  BY <1>3, <1>5 DEF Fit
<1>9. \A x \in j.todo \cup j.seen : x.round <= 0
  BY <1>5
<1> HIDE DEF j
<1> QED
  BY <1>1, <1>6, <1>7, <1>8, <1>9, BaseSame

LEMMA BaseReport ==
  ASSUME Base, NEW w \in Worker, NEW r \in table, NEW e, Report(w, r, e)
  PROVE  Base' /\ Frame
BY BaseResult DEF Report

LEMMA BaseOverride ==
  ASSUME Base, NEW w \in Worker, NEW r \in table, NEW e, Override(w, r, e)
  PROVE  Base' /\ Frame
BY BaseResult DEF Override

(* What saving a result does to the table. *)
LEMMA SaveResultIs ==
  ASSUME Base, NEW w \in Worker, SaveResult(w)
  PROVE  LET row == job[w].row
         IN  /\ row \in Rows /\ ~row.open /\ row \in table' /\ table' \subseteq Rows
             /\ \A r \in table' : r = row \/ (r \in table /\ Key(r) # Key(row))
             /\ \E r \in table : Same(r, row)
             /\ \A r \in table : \E q \in table' : Same(q, r)
             /\ \A q \in table' : \E r \in table : Same(q, r)
             /\ \A r \in table' : r.open => r \in table
<1>1. Is(w, "save") /\ table' = {r \in table : Key(r) # Key(job[w].row)} \cup {job[w].row}
  BY DEF SaveResult
<1>2. job[w].row \in Rows /\ ~job[w].row.open /\ \E r \in table : Same(r, job[w].row)
  BY <1>1, JobIs DEF Fit
<1>3. PICK p \in table : Same(p, job[w].row)
  BY <1>2
<1>4. \A r \in table : Key(r) = Key(job[w].row) => r = p
  BY <1>3 DEF Base, Same
<1>5. \A r, q : Same(r, q) => Same(q, r)
  BY DEF Same
<1>6. \A r : Same(r, r)
  BY DEF Same
<1>7. \A r \in table : \E q \in table' : Same(q, r)
  BY <1>1, <1>3, <1>4, <1>5, <1>6
<1>8. \A q \in table' : \E r \in table : Same(q, r)
  BY <1>1, <1>3, <1>5, <1>6
<1>9. table' \subseteq Rows
  BY <1>1, <1>2 DEF Base
<1> QED
  BY <1>1, <1>2, <1>7, <1>8, <1>9

LEMMA BaseSaveResult ==
  ASSUME Base, NEW w \in Worker, SaveResult(w)
  PROVE  Base' /\ Frame
<1> DEFINE k == job[w]
           j == CASE k.was = "complete" -> [k EXCEPT !.at = "rank"]
                  [] k.was = "active" /\ stage.format = "swiss" -> [k EXCEPT !.at = "list"]
                  [] OTHER -> Idle
<1>1. Is(w, "save") /\ UNCHANGED <<stage, entry, left>>
  BY DEF SaveResult
<1>2. Go(w, j)
  BY DEF SaveResult, Step, Done
<1>3. Frame
  BY <1>1, FrameSame
<1>4. w \in Busy /\ k.at = "save" /\ IsJob(k) /\ OfKind(k) /\ Fit(k, table)
  BY <1>1, JobIs
<1>5. PICK n \in Nat : /\ \A r \in table : r.round <= n
                       /\ \A r \in k.todo \cup k.seen : r.round <= n
  BY <1>1, JobIs
<1>6. /\ k.row \in Rows /\ table' \subseteq Rows
      /\ \A r \in table' : r = k.row \/ (r \in table /\ Key(r) # Key(k.row))
      /\ \A r \in table : \E q \in table' : Same(q, r)
      /\ \A q \in table' : \E r \in table : Same(q, r)
  BY SaveResultIs
<1>7. \A r \in table' : r.position # 0 /\ r.round <= n
  <2>1. ASSUME NEW q \in table' PROVE q.position # 0 /\ q.round <= n
    <3>1. PICK r \in table : Same(q, r)
      BY <1>6
    <3>2. q.position = r.position /\ q.round = r.round
      BY <3>1, SameIs
    <3> QED
      BY <1>5, <3>2 DEF Base
  <2> QED
    BY <2>1
<1>8. \A r, q \in table' : Key(r) = Key(q) => r = q
  BY <1>6 DEF Base
<1>9. j # Idle => IsJob(j)
  BY <1>4 DEF IsJob, Steps
<1>10. j # Idle => OfKind(j)
  BY <1>4 DEF OfKind, Scores, Ranks, IsJob
<1>11. j # Idle => Fit(j, table')
  BY <1>4 DEF Fit, IsJob
<1>12. j # Idle => \A r \in j.todo \cup j.seen : r.round <= n
  BY <1>4, <1>5 DEF IsJob
<1>13. DOMAIN entry' = Entry /\ (\A e \in Entry : IsEntry(entry'[e])) /\ left' \in [Entry -> Nat \cup {None}]
  BY <1>1 DEF Base
<1> HIDE DEF j
<1> QED
  BY <1>2, <1>3, <1>6, <1>7, <1>8, <1>9, <1>10, <1>11, <1>12, <1>13, BaseGo

LEMMA BaseListRound ==
  ASSUME Base, NEW w \in Worker, ListRound(w)
  PROVE  Base' /\ Frame
<1> DEFINE k == job[w]
           j == [k EXCEPT !.at = "pair", !.seen = table]
<1>1. Is(w, "list") /\ UNCHANGED <<stage, entry, table, left>> /\ (Done(w) \/ Go(w, j))
  BY DEF ListRound
<1>2. Frame
  BY <1>1, FrameSame
<1>3. k.at = "list" /\ IsJob(k) /\ OfKind(k)
  BY <1>1, JobIs
<1>4. PICK n \in Nat : /\ \A r \in table : r.round <= n
                       /\ \A r \in k.todo \cup k.seen : r.round <= n
  BY <1>1, JobIs
<1>5. IsJob(j)
  BY <1>3 DEF IsJob, Steps, Base
<1>6. OfKind(j)
  BY <1>3 DEF OfKind, Scores, Ranks, IsJob
<1>7. Fit(j, table)
  BY <1>3 DEF Fit, IsJob
<1>8. \A r \in j.todo \cup j.seen : r.round <= n
  BY <1>3, <1>4 DEF IsJob
<1> HIDE DEF j
<1> QED
  BY <1>1, <1>2, <1>5, <1>6, <1>7, <1>8, BaseSame, BaseDone

(* What pairing a round starts from and comes to. *)
LEMMA PairRoundIs ==
  ASSUME Base, NEW w \in Worker, PairRound(w)
  PROVE  /\ Is(w, "pair") /\ UNCHANGED <<stage, entry, table, left>>
         /\ \/ Done(w)
            \/ \E rows \in NextRound(job[w].seen, Active) :
                 Go(w, [job[w] EXCEPT !.at = "create", !.todo = rows])
BY DEF PairRound

LEMMA SeenIs ==
  ASSUME Base, NEW w \in Busy
  PROVE  /\ LastRound(job[w].seen) \in Nat
         /\ job[w].seen \subseteq Rows
         /\ \A r \in job[w].seen : r.round <= LastRound(job[w].seen)
         /\ job[w].seen # {} => \E r \in job[w].seen : r.round = LastRound(job[w].seen)
<1>1. PICK b \in Nat : Bound(b)
  BY DEF Base
<1>2. job[w].seen \subseteq Rows
  BY DEF Base, IsJob
<1>3. \A r \in job[w].seen : r.round \in Nat /\ r.round <= b
  BY <1>1, <1>2 DEF Bound, Rows
<1> QED
  BY <1>2, <1>3, LastIs

LEMMA BasePairRound ==
  ASSUME Base, NEW w \in Worker, PairRound(w)
  PROVE  Base' /\ Frame
<1>1. /\ Is(w, "pair") /\ UNCHANGED <<stage, entry, table, left>>
      /\ \/ Done(w)
         \/ \E rows \in NextRound(job[w].seen, Active) :
              Go(w, [job[w] EXCEPT !.at = "create", !.todo = rows])
  BY PairRoundIs
<1>2. Frame
  BY <1>1, FrameSame
<1>3. w \in Busy /\ job[w].at = "pair" /\ IsJob(job[w]) /\ OfKind(job[w])
  BY <1>1, JobIs
<1>4. PICK b \in Nat : /\ \A r \in table : r.round <= b
                       /\ \A r \in job[w].todo \cup job[w].seen : r.round <= b
  BY <1>1, JobIs
<1>5. ASSUME NEW rows \in NextRound(job[w].seen, Active),
             Go(w, [job[w] EXCEPT !.at = "create", !.todo = rows])
      PROVE  Base'
  <2> DEFINE j == [job[w] EXCEPT !.at = "create", !.todo = rows]
             n == LastRound(job[w].seen)
  <2>1. n \in Nat /\ stage.n \in Nat /\ Active \subseteq Entry
    BY <1>3, SeenIs, FieldSize DEF Active
  <2>2. rows \subseteq Rows /\ \A r \in rows : r.round = n + 1
    BY <2>1, NextRoundIs
  <2>3. PICK c \in Nat : b <= c /\ n + 1 <= c
    BY <2>1
  <2>4. IsJob(j)
    BY <1>3, <2>2 DEF IsJob, Steps
  <2>5. j.at = "create" /\ j.todo = rows /\ j.kind = job[w].kind /\ j.was = job[w].was /\ j.seen = job[w].seen
    BY <1>3 DEF IsJob
  <2>6. OfKind(j)
    BY <1>3, <2>5 DEF OfKind, Scores, Ranks
  <2>7. Fit(j, table)
    BY <2>5 DEF Fit
  <2>8. \A r \in j.todo \cup j.seen : r.round <= c
    <3>1. \A r \in j.seen : r.round <= b /\ r.round \in Nat
      BY <1>3, <1>4, <2>5 DEF IsJob, Rows
    <3>2. \A r \in j.seen : r.round <= c
      BY <2>3, <3>1
    <3> QED
      BY <2>2, <2>3, <2>5, <3>2
  <2> HIDE DEF j
  <2>9. Go(w, j)
    BY <1>5 DEF j
  <2> QED
    BY <1>1, <1>2, <2>4, <2>6, <2>7, <2>8, <2>9, BaseSame
<1> QED
  BY <1>1, <1>2, <1>5, BaseDone

(* A call that begins with nothing but itself. *)
LEMMA BaseBegin ==
  ASSUME Base, NEW w \in Worker, NEW j, Go(w, j), UNCHANGED <<stage, entry, table, left>>,
         IsJob(j), OfKind(j), j.todo = {}, j.seen = {}, j.at \notin {"save", "retire", "write"}
  PROVE  Base' /\ Frame
<1>1. \A r \in j.todo \cup j.seen : r.round <= 0
  OBVIOUS
<1>2. Fit(j, table)
  BY DEF Fit
<1> QED
  BY <1>1, <1>2, FrameSame, BaseSame

LEMMA BaseCompleteStage ==
  ASSUME Base, NEW w \in Worker, CompleteStage(w)
  PROVE  Base' /\ Frame
<1>1. PICK rule \in Rulings : Start(w, [Call("complete", "rank") EXCEPT !.rule = rule])
  BY DEF CompleteStage
<1> DEFINE j == [Call("complete", "rank") EXCEPT !.rule = rule]
<1>2. Go(w, j) /\ UNCHANGED <<stage, entry, table, left>>
  BY <1>1, StartIs DEF CompleteStage
<1>3. IsJob(Call("complete", "rank"))
  BY CallIs DEF Kind, Steps
<1>4. IsJob(j)
  BY <1>3 DEF IsJob
<1>5. j.todo = {} /\ j.seen = {} /\ j.at = "rank" /\ j.kind = "complete"
  BY DEF Call
<1>6. OfKind(j)
  BY <1>5 DEF OfKind, Scores, Ranks
<1> HIDE DEF j
<1> QED
  BY <1>2, <1>4, <1>5, <1>6, BaseBegin

LEMMA BaseCancelStage ==
  ASSUME Base, NEW w \in Worker, CancelStage(w)
  PROVE  Base' /\ Frame
<1> DEFINE j == Call("cancel", "cancel")
<1>1. Go(w, j) /\ UNCHANGED <<stage, entry, table, left>>
  BY StartIs DEF CancelStage
<1>2. IsJob(j)
  BY CallIs DEF Kind, Steps
<1>3. j.todo = {} /\ j.seen = {} /\ j.at = "cancel" /\ j.kind = "cancel"
  BY DEF Call
<1>4. OfKind(j)
  BY <1>3 DEF OfKind, Scores, Ranks
<1> HIDE DEF j
<1> QED
  BY <1>1, <1>2, <1>3, <1>4, BaseBegin

LEMMA BaseAdvanceStage ==
  ASSUME Base, NEW w \in Worker, AdvanceStage(w)
  PROVE  Base' /\ Frame
<1> DEFINE j == Call("advance", "draw")
<1>1. Go(w, j) /\ UNCHANGED <<stage, entry, table, left>>
  BY StartIs DEF AdvanceStage
<1>2. IsJob(j)
  BY CallIs DEF Kind, Steps
<1>3. j.todo = {} /\ j.seen = {} /\ j.at = "draw" /\ j.kind = "advance"
  BY DEF Call
<1>4. OfKind(j)
  BY <1>3 DEF OfKind, Scores, Ranks
<1> HIDE DEF j
<1> QED
  BY <1>1, <1>2, <1>3, <1>4, BaseBegin

(* A call that goes on, with the same rows to create. *)
LEMMA BaseOn ==
  ASSUME Base, Frame, NEW w \in Busy, NEW j, Go(w, j), UNCHANGED <<entry, table, left>>,
         IsJob(j), OfKind(j), Fit(j, table), j.todo = job[w].todo,
         j.seen = job[w].seen \/ j.seen \subseteq table
  PROVE  Base'
<1>1. PICK n \in Nat : Bound(n)
  BY DEF Base
<1>2. \A r \in j.todo \cup j.seen : r.round <= n
  BY <1>1 DEF Bound
<1>3. w \in Worker
  BY DEF Busy
<1> QED
  BY <1>2, <1>3, BaseSame

LEMMA BaseReadResults ==
  ASSUME Base, NEW w \in Worker, ReadResults(w)
  PROVE  Base' /\ Frame
<1> DEFINE k == job[w]
           j == [k EXCEPT !.at = "entries", !.seen = Results]
<1>1. Is(w, "rank") /\ UNCHANGED <<stage, entry, table, left>> /\ Go(w, j)
  BY DEF ReadResults
<1>2. w \in Busy /\ k.at = "rank" /\ IsJob(k) /\ OfKind(k)
  BY <1>1, JobIs
<1>3. Results \subseteq table /\ Results \subseteq Rows
  BY DEF Results, Base
<1>4. IsJob(j) /\ j.todo = k.todo /\ j.seen = Results /\ j.at = "entries"
  BY <1>2, <1>3 DEF IsJob, Steps
<1>5. OfKind(j) /\ Fit(j, table)
  BY <1>2 DEF OfKind, Scores, Ranks, IsJob, Fit
<1> HIDE DEF j
<1> QED
  BY <1>1, <1>2, <1>3, <1>4, <1>5, FrameSame, BaseOn

LEMMA BaseReadEntries ==
  ASSUME Base, NEW w \in Worker, ReadEntries(w)
  PROVE  Base' /\ Frame
<1> DEFINE k == job[w]
           s == {<<e, [entry[e] EXCEPT !.rank = RankByRef(w)[e]]>> : e \in Entry}
           j == [k EXCEPT !.at = "write", !.saves = s]
<1>1. Is(w, "entries") /\ UNCHANGED <<stage, entry, table, left>> /\ Go(w, j)
  BY DEF ReadEntries
<1>2. w \in Busy /\ k.at = "entries" /\ IsJob(k) /\ OfKind(k)
  BY <1>1, JobIs
<1>3. s # {} /\ \A x \in s : x[1] \in Entry /\ IsEntry(x[2])
  <2>1. stage.n \in Nat \ {0}
    BY BoundAssumption DEF Base
  <2>2. 1 \in Entry
    BY <2>1 DEF Entry
  <2>3. ASSUME NEW e \in Entry PROVE IsEntry([entry[e] EXCEPT !.rank = RankByRef(w)[e]])
    BY DEF Base, IsEntry
  <2>4. s # {}
    BY <2>2
  <2>5. ASSUME NEW x \in s PROVE x[1] \in Entry /\ IsEntry(x[2])
    <3>1. PICK e \in Entry : x = <<e, [entry[e] EXCEPT !.rank = RankByRef(w)[e]]>>
      OBVIOUS
    <3> QED
      BY <2>3, <3>1
  <2> QED
    BY <2>4, <2>5
<1> HIDE DEF s
<1>4. IsJob(j) /\ j.todo = k.todo /\ j.seen = k.seen /\ j.at = "write" /\ j.saves = s
  BY <1>2 DEF IsJob, Steps
<1>5. OfKind(j)
  BY <1>2 DEF OfKind, Scores, Ranks, IsJob
<1>6. Fit(j, table)
  BY <1>3, <1>4 DEF Fit
<1> HIDE DEF j
<1> QED
  BY <1>1, <1>2, <1>4, <1>5, <1>6, FrameSame, BaseOn

(* The entries are saved one at a time. *)
LEMMA SaveRankIs ==
  ASSUME Base, NEW w \in Worker, SaveRank(w)
  PROVE  \E x \in job[w].saves :
           /\ x[1] \in Entry /\ IsEntry(x[2])
           /\ entry' = [entry EXCEPT ![x[1]] = x[2]]
           /\ Go(w, IF job[w].saves = {x} THEN [job[w] EXCEPT !.at = "close", !.saves = {}]
                    ELSE [job[w] EXCEPT !.saves = @ \ {x}])
<1> DEFINE s == job[w].saves
           x == CHOOSE y \in s : \A z \in s : y[1] <= z[1]
<1>1. s # {} /\ \A y \in s : y[1] \in Entry /\ IsEntry(y[2])
  BY JobIs DEF SaveRank, Fit
<1>2. {y[1] : y \in s} \subseteq Nat /\ {y[1] : y \in s} # {}
  BY <1>1 DEF Entry
<1>3. \E y \in s : \A z \in s : y[1] <= z[1]
  <2>1. PICK m \in {y[1] : y \in s} : \A i \in {y[1] : y \in s} : m <= i
    BY <1>2, LeastExists
  <2>2. PICK y \in s : m = y[1]
    BY <2>1
  <2> QED
    BY <2>1, <2>2
<1>4. x \in s
  BY <1>3
<1> QED
  BY <1>1, <1>4 DEF SaveRank

LEMMA BaseSaveRank ==
  ASSUME Base, NEW w \in Worker, SaveRank(w)
  PROVE  Base' /\ Frame
<1> DEFINE k == job[w]
<1>1. PICK x \in k.saves :
           /\ x[1] \in Entry /\ IsEntry(x[2])
           /\ entry' = [entry EXCEPT ![x[1]] = x[2]]
           /\ Go(w, IF job[w].saves = {x} THEN [job[w] EXCEPT !.at = "close", !.saves = {}]
                    ELSE [job[w] EXCEPT !.saves = @ \ {x}])
  BY SaveRankIs
<1> DEFINE j == IF job[w].saves = {x} THEN [job[w] EXCEPT !.at = "close", !.saves = {}]
                ELSE [job[w] EXCEPT !.saves = @ \ {x}]
<1>2. Is(w, "write") /\ UNCHANGED <<stage, table, left>>
  BY DEF SaveRank
<1>3. w \in Busy /\ k.at = "write" /\ IsJob(k) /\ OfKind(k) /\ Fit(k, table)
  BY <1>2, JobIs
<1>4. PICK n \in Nat : /\ \A r \in table : r.round <= n
                       /\ \A r \in k.todo \cup k.seen : r.round <= n
  BY <1>2, JobIs
<1>5. IsJob(j)
  BY <1>3 DEF IsJob, Steps
<1>6. OfKind(j)
  BY <1>3 DEF OfKind, Scores, Ranks, IsJob
<1>7. Fit(j, table')
  BY <1>2, <1>3 DEF Fit, IsJob
<1>8. \A r \in j.todo \cup j.seen : r.round <= n
  BY <1>3, <1>4 DEF IsJob
<1>9. DOMAIN entry' = Entry /\ \A e \in Entry : IsEntry(entry'[e])
  BY <1>1 DEF Base
<1>10. /\ table' \subseteq Rows /\ (\A r \in table' : r.position # 0)
       /\ (\A r, q \in table' : Key(r) = Key(q) => r = q)
       /\ left' \in [Entry -> Nat \cup {None}] /\ \A r \in table' : r.round <= n
  BY <1>2, <1>4 DEF Base
<1>11. \A r \in table : \E q \in table' : Same(q, r)
  BY <1>2 DEF Same
<1>12. Go(w, j)
  BY <1>1
<1>13. Frame
  BY <1>2, FrameSame
<1> HIDE DEF j
<1> QED
  BY <1>5, <1>6, <1>7, <1>8, <1>9, <1>10, <1>11, <1>12, <1>13, BaseGo

LEMMA BaseCloseStage ==
  ASSUME Base, NEW w \in Worker, CloseStage(w)
  PROVE  Base' /\ Frame
<1>1. Frame
  BY FrameState DEF CloseStage, States
<1> QED
  BY <1>1, BaseDone DEF CloseStage

LEMMA BaseSaveCancelled ==
  ASSUME Base, NEW w \in Worker, SaveCancelled(w)
  PROVE  Base' /\ Frame
<1>1. Frame
  BY FrameState DEF SaveCancelled, States
<1> QED
  BY <1>1, BaseDone DEF SaveCancelled

LEMMA BaseRetireEntry ==
  ASSUME Base, NEW w \in Worker, NEW e, RetireEntry(w, e)
  PROVE  Base' /\ Frame
<1> DEFINE j == [Call("retire", "retire") EXCEPT !.entry = <<e, entry[e]>>]
<1>1. Go(w, j) /\ UNCHANGED <<stage, entry, table, left>> /\ e \in Entry
  BY StartIs DEF RetireEntry, Active
<1>2. IsJob(Call("retire", "retire"))
  BY CallIs DEF Kind, Steps
<1>3. IsJob(j)
  BY <1>2 DEF IsJob
<1>4. j.todo = {} /\ j.seen = {} /\ j.at = "retire" /\ j.kind = "retire" /\ j.entry = <<e, entry[e]>>
  BY DEF Call
<1>5. OfKind(j)
  BY <1>4 DEF OfKind, Scores, Ranks
<1>6. Fit(j, table)
  BY <1>1, <1>4 DEF Fit, Base
<1>7. \A r \in j.todo \cup j.seen : r.round <= 0
  BY <1>4
<1> HIDE DEF j
<1> QED
  BY <1>1, <1>3, <1>5, <1>6, <1>7, FrameSame, BaseSame

LEMMA RoundsBegunIs ==
  ASSUME Base
  PROVE  /\ Max(RoundsBegun) \in Nat
         /\ \A r \in table \cup UNION {job[w].todo : w \in Busy} : r.round <= Max(RoundsBegun)
<1>1. PICK b \in Nat : Bound(b)
  BY DEF Base
<1>2. \A r \in table : r.round \in Nat /\ r.round <= b
  BY <1>1 DEF Bound, Base, Rows
<1>3. /\ LastRound(table) \in Nat /\ LastRound(table) <= b
      /\ \A r \in table : r.round <= LastRound(table)
  BY <1>2, LastIs
<1>4. \A w \in Busy : \A r \in job[w].todo : r.round \in Nat /\ r.round <= b
  BY <1>1 DEF Bound, Base, IsJob, Rows
<1>5. RoundsBegun \subseteq Nat /\ RoundsBegun # {} /\ \A x \in RoundsBegun : x <= b
  BY <1>3, <1>4 DEF RoundsBegun
<1>6. Max(RoundsBegun) \in Nat /\ \A x \in RoundsBegun : x <= Max(RoundsBegun)
  BY <1>5, GreatestIs
<1>7. LastRound(table) \in RoundsBegun
  BY DEF RoundsBegun
<1>8. \A w \in Busy : \A r \in job[w].todo : r.round \in RoundsBegun
  BY DEF RoundsBegun
<1>9. \A r \in table : r.round <= Max(RoundsBegun)
  BY <1>2, <1>3, <1>6, <1>7
<1> QED
  BY <1>6, <1>8, <1>9

LEMMA BaseSaveRetired ==
  ASSUME Base, NEW w \in Worker, SaveRetired(w)
  PROVE  Base' /\ Frame
<1> DEFINE e == job[w].entry[1]
<1>1. /\ Is(w, "retire") /\ UNCHANGED <<stage, table>> /\ Go(w, Idle)
      /\ entry' = [entry EXCEPT ![e] = [job[w].entry[2] EXCEPT !.status = "dropped"]]
      /\ left' = [left EXCEPT ![e] = Max(RoundsBegun)]
  BY DEF SaveRetired, Done
<1>2. e \in Entry /\ IsEntry(job[w].entry[2])
  BY <1>1, JobIs DEF Fit
<1>3. PICK n \in Nat : \A r \in table : r.round <= n
  BY <1>1, JobIs
<1>4. Max(RoundsBegun) \in Nat
  BY RoundsBegunIs
<1>5. IsEntry([job[w].entry[2] EXCEPT !.status = "dropped"])
  BY <1>2 DEF IsEntry
<1>6. DOMAIN entry' = Entry /\ \A f \in Entry : IsEntry(entry'[f])
  BY <1>1, <1>2, <1>5 DEF Base
<1>7. left' \in [Entry -> Nat \cup {None}]
  BY <1>1, <1>4 DEF Base
<1>8. /\ table' \subseteq Rows /\ (\A r \in table' : r.position # 0)
      /\ (\A r, q \in table' : Key(r) = Key(q) => r = q)
      /\ \A r \in table' : r.round <= n
  BY <1>1, <1>3 DEF Base
<1>9. \A r \in table : \E q \in table' : Same(q, r)
  BY <1>1 DEF Same
<1>10. Frame
  BY <1>1, FrameSame
<1> QED
  BY <1>1, <1>6, <1>7, <1>8, <1>9, <1>10, BaseGo

LEMMA BaseDrawField ==
  ASSUME Base, NEW w \in Worker, DrawField(w)
  PROVE  Base' /\ Frame
<1> DEFINE k == job[w]
           j == [k EXCEPT !.at = "enroll", !.order = Order(Candidates)]
<1>1. Is(w, "draw") /\ UNCHANGED <<stage, entry, table, left>> /\ (Done(w) \/ Go(w, j))
  BY DEF DrawField
<1>2. w \in Busy /\ k.at = "draw" /\ IsJob(k) /\ OfKind(k)
  BY <1>1, JobIs
<1>3. IsJob(j) /\ j.todo = k.todo /\ j.seen = k.seen
  BY <1>2 DEF IsJob, Steps
<1>4. OfKind(j) /\ Fit(j, table)
  BY <1>2 DEF OfKind, Scores, Ranks, IsJob, Fit
<1> HIDE DEF j
<1> QED
  BY <1>1, <1>2, <1>3, <1>4, FrameSame, BaseOn, BaseDone

LEMMA BaseEnrollNext ==
  ASSUME Base, NEW w \in Worker, EnrollNext(w)
  PROVE  Base' /\ Frame
<1> DEFINE k == job[w]
           j == [k EXCEPT !.made = k.made + 1]
<1>1. Is(w, "enroll") /\ UNCHANGED <<stage, entry, table, left>> /\ (Done(w) \/ Go(w, j))
  BY DEF EnrollNext, Done
<1>2. w \in Busy /\ k.at = "enroll" /\ IsJob(k) /\ OfKind(k)
  BY <1>1, JobIs
<1>3. IsJob(j) /\ j.todo = k.todo /\ j.seen = k.seen
  BY <1>2 DEF IsJob
<1>4. OfKind(j) /\ Fit(j, table)
  BY <1>2 DEF OfKind, Scores, Ranks, IsJob, Fit
<1> HIDE DEF j
<1> QED
  BY <1>1, <1>2, <1>3, <1>4, FrameSame, BaseOn, BaseDone

LEMMA BaseQuiet ==
  ASSUME Base, UNCHANGED <<stage, entry, table, left>>,
         job' = job \/ job' = [w \in Worker |-> Idle]
  PROVE  Base' /\ Frame
<1>1. Frame
  BY FrameSame
<1>2. CASE job' = job
  <2>1. Busy' = Busy /\ Entry' = Entry /\ Rows' = Rows
    BY <1>1, <1>2, FrameIs DEF Busy
  <2>2. ASSUME NEW v \in Busy'
        PROVE  IsJob(job[v])' /\ OfKind(job[v])' /\ Fit(job[v], table)'
    <3>1. IsJob(job[v]) /\ OfKind(job[v]) /\ Fit(job[v], table)
      BY <2>1 DEF Base
    <3>2. IsJob(job[v])'
      BY <1>2, <2>1, <3>1 DEF IsJob
    <3>3. OfKind(job[v])'
      BY <1>2, <3>1 DEF OfKind, Scores, Ranks
    <3>4. Fit(job[v], table)'
      BY <1>2, <2>1, <3>1 DEF Fit
    <3> QED
      BY <3>2, <3>3, <3>4
  <2>3. \E b \in Nat : Bound(b)'
    BY <1>2, <2>1 DEF Base, Bound
  <2> QED
    BY <1>1, <1>2, <2>1, <2>2, <2>3 DEF Base, Frame
<1>3. CASE job' = [w \in Worker |-> Idle]
  <2>1. Busy' = {} /\ DOMAIN job' = Worker
    BY <1>3 DEF Busy
  <2>2. Entry' = Entry /\ Rows' = Rows
    BY <1>1, FrameIs
  <2>3. \E b \in Nat : Bound(b)'
    BY <2>1 DEF Base, Bound
  <2> QED
    BY <1>1, <2>1, <2>2, <2>3 DEF Base, Frame
<1> QED
  BY <1>1, <1>2, <1>3

LEMMA BaseInit == Sound /\ Init => Base
<1> SUFFICES ASSUME Sound, Init PROVE Base
  OBVIOUS
<1>1. Busy = {} /\ table = {} /\ DOMAIN job = Worker
  BY DEF Init, Busy
<1>2. \E b \in Nat : Bound(b)
  BY <1>1 DEF Bound
<1>3. /\ DOMAIN entry = Entry /\ \A e \in Entry : IsEntry(entry[e])
      /\ left \in [Entry -> Nat \cup {None}]
  BY DEF Init, IsEntry
<1>4. stage \in [format : Formats, n : Fields, groups : Groups, state : States]
  BY DEF Init, States
<1>5. 2 * stage.groups <= stage.n
  BY DEF Init
<1> QED
  BY <1>1, <1>2, <1>3, <1>4, <1>5 DEF Base

-----------------------------------------------------------------------------
LEMMA NextIs ==
  ASSUME Base, [Next]_vars
  PROVE  \/ UNCHANGED vars \/ Restart
         \/ \E w \in Worker :
              \/ StartStage(w) \/ ListRound(w) \/ PairRound(w) \/ SaveResult(w)
              \/ \E row : CreateRow(w, row)
              \/ CancelStage(w) \/ CompleteStage(w) \/ AdvanceStage(w)
              \/ \E r \in table, e \in Entry : Report(w, r, e) \/ Override(w, r, e)
              \/ \E e \in Entry : RetireEntry(w, e)
              \/ Activate(w) \/ ReadResults(w) \/ ReadEntries(w) \/ SaveRank(w) \/ CloseStage(w)
              \/ SaveCancelled(w) \/ SaveRetired(w) \/ DrawField(w) \/ EnrollNext(w)
<1>1. Busy \subseteq Worker
  BY DEF Busy
<1>2. CASE UNCHANGED vars
  BY <1>2
<1>3. CASE Next
  <2>1. ASSUME NEW w \in Busy, Continue(w)
        PROVE  \/ \E row : CreateRow(w, row)
               \/ ListRound(w) \/ PairRound(w) \/ SaveResult(w)
               \/ Activate(w) \/ ReadResults(w) \/ ReadEntries(w) \/ SaveRank(w) \/ CloseStage(w)
               \/ SaveCancelled(w) \/ SaveRetired(w) \/ DrawField(w) \/ EnrollNext(w)
    BY <2>1 DEF Continue
  <2>2. CASE \E w \in Busy : Continue(w)
    <3>1. PICK w \in Busy : Continue(w)
      BY <2>2
    <3>2. w \in Worker
      BY <1>1
    <3> QED
      BY <2>1, <3>1, <3>2
  <2>3. CASE ~\E w \in Busy : Continue(w)
    BY <1>3, <2>3 DEF Next
  <2> QED
    BY <2>2, <2>3
<1> QED
  BY <1>2, <1>3

LEMMA BaseNext ==
  ASSUME Base, [Next]_vars
  PROVE  Base' /\ Frame
<1>1. CASE UNCHANGED vars
  BY <1>1, BaseQuiet DEF vars
<1>2. CASE Restart
  BY <1>2, BaseQuiet DEF Restart
<1>3. ASSUME NEW w \in Worker,
             \/ StartStage(w) \/ ListRound(w) \/ PairRound(w) \/ SaveResult(w)
             \/ \E row : CreateRow(w, row)
      PROVE  Base' /\ Frame
  BY <1>3, BaseStartStage, BaseListRound, BasePairRound, BaseSaveResult, BaseCreateRow
<1>4. ASSUME NEW w \in Worker,
             \/ CancelStage(w) \/ CompleteStage(w) \/ AdvanceStage(w)
             \/ \E r \in table, e \in Entry : Report(w, r, e) \/ Override(w, r, e)
             \/ \E e \in Entry : RetireEntry(w, e)
      PROVE  Base' /\ Frame
  BY <1>4, BaseCancelStage, BaseCompleteStage, BaseAdvanceStage, BaseReport, BaseOverride,
     BaseRetireEntry
<1>5. ASSUME NEW w \in Worker,
             \/ Activate(w) \/ ReadResults(w) \/ ReadEntries(w) \/ SaveRank(w) \/ CloseStage(w)
             \/ SaveCancelled(w) \/ SaveRetired(w) \/ DrawField(w) \/ EnrollNext(w)
      PROVE  Base' /\ Frame
  BY <1>5, BaseActivate, BaseReadResults, BaseReadEntries, BaseSaveRank, BaseCloseStage,
     BaseSaveCancelled, BaseSaveRetired, BaseDrawField, BaseEnrollNext
<1> QED
  BY <1>1, <1>2, <1>3, <1>4, <1>5, NextIs

LEMMA AsideGo ==
  ASSUME Base, NEW w \in Worker, NEW j, Go(w, j), UNCHANGED table,
         j = Idle \/ j.at \notin {"list", "pair", "create"}
  PROVE  Aside
<1>1. ASSUME NEW v \in Busy', job'[v].at \in {"list", "pair", "create"}
      PROVE  v \in Busy /\ job'[v] = job[v]
  <2>1. CASE v = w
    BY <1>1, <2>1, GoIs
  <2>2. CASE v # w
    BY <2>2, GoIs
  <2> QED
    BY <2>1, <2>2
<1> QED
  BY <1>1 DEF Aside

LEMMA AsideStart ==
  ASSUME Base, NEW w \in Worker,
         \/ CancelStage(w) \/ CompleteStage(w) \/ AdvanceStage(w)
         \/ \E r \in table, e \in Entry : Report(w, r, e) \/ Override(w, r, e)
         \/ \E e \in Entry : RetireEntry(w, e)
  PROVE  Aside
<1>1. ASSUME NEW j, Start(w, j), UNCHANGED table, j.at \notin {"list", "pair", "create"}
      PROVE  Aside
  BY <1>1, StartIs, AsideGo
<1>2. CASE CancelStage(w)
  BY <1>1, <1>2 DEF CancelStage, Call
<1>3. CASE CompleteStage(w)
  <2>1. PICK rule : Start(w, [Call("complete", "rank") EXCEPT !.rule = rule])
    BY <1>3 DEF CompleteStage
  <2>2. [Call("complete", "rank") EXCEPT !.rule = rule].at = "rank"
    BY DEF Call
  <2>3. UNCHANGED table
    BY <1>3 DEF CompleteStage
  <2> QED
    BY <1>1, <2>1, <2>2, <2>3
<1>4. CASE AdvanceStage(w)
  BY <1>1, <1>4 DEF AdvanceStage, Call
<1>5. ASSUME NEW r \in table, NEW e \in Entry, Report(w, r, e) \/ Override(w, r, e) PROVE Aside
  BY <1>1, <1>5 DEF Report, Override, Result, Call
<1>6. ASSUME NEW e \in Entry, RetireEntry(w, e) PROVE Aside
  BY <1>1, <1>6 DEF RetireEntry, Call
<1> QED
  BY <1>2, <1>3, <1>4, <1>5, <1>6

LEMMA AsideStep ==
  ASSUME Base, NEW w \in Worker,
         \/ Activate(w) \/ ReadResults(w) \/ ReadEntries(w) \/ SaveRank(w) \/ CloseStage(w)
         \/ SaveCancelled(w) \/ SaveRetired(w) \/ DrawField(w) \/ EnrollNext(w)
  PROVE  Aside
<1>1. ASSUME NEW at, Is(w, at) PROVE IsJob(job[w]) /\ job[w].at = at
  BY <1>1, JobIs
<1>2. CASE Activate(w) \/ CloseStage(w) \/ SaveCancelled(w) \/ SaveRetired(w)
  BY <1>2, AsideGo DEF Activate, CloseStage, SaveCancelled, SaveRetired, Done
<1>3. CASE ReadResults(w)
  <2>1. [job[w] EXCEPT !.at = "entries", !.seen = Results].at = "entries"
    BY <1>1, <1>3 DEF ReadResults, IsJob
  <2> QED
    BY <1>3, <2>1, AsideGo DEF ReadResults
<1>4. CASE ReadEntries(w)
  <2>1. ASSUME NEW s PROVE [job[w] EXCEPT !.at = "write", !.saves = s].at = "write"
    BY <1>1, <1>4 DEF ReadEntries, IsJob
  <2> QED
    BY <1>4, <2>1, AsideGo DEF ReadEntries
<1>5. CASE SaveRank(w)
  <2>1. PICK x \in job[w].saves :
           Go(w, IF job[w].saves = {x} THEN [job[w] EXCEPT !.at = "close", !.saves = {}]
                 ELSE [job[w] EXCEPT !.saves = @ \ {x}])
    BY <1>5, SaveRankIs
  <2>2. IsJob(job[w]) /\ job[w].at = "write" /\ UNCHANGED table
    BY <1>1, <1>5 DEF SaveRank
  <2>3. /\ [job[w] EXCEPT !.at = "close", !.saves = {}].at = "close"
        /\ [job[w] EXCEPT !.saves = @ \ {x}].at = "write"
    BY <2>2 DEF IsJob
  <2> QED
    BY <2>1, <2>2, <2>3, AsideGo
<1>6. CASE DrawField(w)
  <2>1. ASSUME NEW o PROVE [job[w] EXCEPT !.at = "enroll", !.order = o].at = "enroll"
    BY <1>1, <1>6 DEF DrawField, IsJob
  <2>2. UNCHANGED table /\ (Go(w, Idle) \/ Go(w, [job[w] EXCEPT !.at = "enroll", !.order = Order(Candidates)]))
    BY <1>6 DEF DrawField, Done
  <2> QED
    BY <2>1, <2>2, AsideGo
<1>7. CASE EnrollNext(w)
  <2>1. ASSUME NEW m PROVE [job[w] EXCEPT !.made = m].at = "enroll"
    BY <1>1, <1>7 DEF EnrollNext, IsJob
  <2>2. UNCHANGED table /\ (Go(w, Idle) \/ Go(w, [job[w] EXCEPT !.made = job[w].made + 1]))
    BY <1>7 DEF EnrollNext, Done
  <2> QED
    BY <2>1, <2>2, AsideGo
<1> QED
  BY <1>2, <1>3, <1>4, <1>5, <1>6, <1>7

(* What is left to look at where rounds and matches are concerned. *)
LEMMA NextRows ==
  ASSUME Base, [Next]_vars
  PROVE  \/ Aside
         \/ \E w \in Worker : \/ StartStage(w) \/ ListRound(w) \/ PairRound(w) \/ SaveResult(w)
                              \/ \E row : CreateRow(w, row)
<1>1. CASE UNCHANGED vars
  BY <1>1 DEF vars, Aside, Busy
<1>2. CASE Restart
  BY <1>2 DEF Restart, Aside, Busy
<1> QED
  BY <1>1, <1>2, NextIs, AsideStart, AsideStep

-----------------------------------------------------------------------------
(* The matches of a round robin are those of its schedule.                 *)

LEMMA ScheduledStep ==
  ASSUME Base, AsScheduled, [Next]_vars, stage.format = "round_robin"
  PROVE  \A r \in table' \cup UNION {job'[v].todo : v \in Busy'} : \E q \in Scheduled : Same(r, q)
<1> DEFINE Good(r) == \E q \in Scheduled : Same(r, q)
<1>1. /\ \A r \in table : Good(r)
      /\ \A v \in Busy : \A r \in job[v].todo : Good(r)
  BY DEF AsScheduled
<1>2. \A r, q : Same(r, q) /\ Good(q) => Good(r)
  BY DEF Same
<1> HIDE DEF Good
<1>3. Base' /\ Frame
  BY BaseNext
<1>4. \A v \in Busy' : job'[v].todo # {} => job'[v].at = "create"
  BY <1>3 DEF Base, OfKind
<1>5. SUFFICES /\ \A r \in table' : Good(r)
               /\ \A v \in Busy' : \A r \in job'[v].todo : Good(r)
  BY DEF Good
<1>6. CASE Aside
  <2>1. ASSUME NEW v \in Busy', NEW r \in job'[v].todo PROVE Good(r)
    <3>1. job'[v].at = "create"
      BY <1>4, <2>1
    <3>2. v \in Busy /\ job'[v] = job[v]
      BY <1>6, <3>1 DEF Aside
    <3> QED
      BY <1>1, <2>1, <3>2
  <2> QED
    BY <1>1, <1>6, <2>1 DEF Aside
<1>7. ASSUME NEW w \in Worker, NEW j, Go(w, j), \A r \in table' : Good(r),
             j # Idle => \A r \in j.todo : Good(r)
      PROVE  /\ \A r \in table' : Good(r)
             /\ \A v \in Busy' : \A r \in job'[v].todo : Good(r)
  <2>1. ASSUME NEW v \in Busy' PROVE \A r \in job'[v].todo : Good(r)
    <3>1. CASE v = w
      BY <1>7, <3>1, GoIs
    <3>2. CASE v # w
      <4>1. v \in Busy /\ job'[v] = job[v]
        BY <1>7, <3>2, GoIs
      <4> QED
        BY <1>1, <4>1
    <3> QED
      BY <3>1, <3>2
  <2> QED
    BY <1>7, <2>1
<1>8. ASSUME NEW w \in Worker, StartStage(w)
      PROVE  /\ \A r \in table' : Good(r)
             /\ \A v \in Busy' : \A r \in job'[v].todo : Good(r)
  <2>1. PICK rows \in FirstRound : Start(w, [Call("start", "create") EXCEPT !.todo = rows])
    BY <1>8 DEF StartStage
  <2>2. Active = Entry /\ UNCHANGED table
    BY <1>8 DEF StartStage
  <2>3. \A r \in rows : Good(r)
    BY <2>2, FirstRoundIs DEF Good
  <2>4. [Call("start", "create") EXCEPT !.todo = rows].todo = rows
    BY DEF Call
  <2> QED
    BY <1>1, <1>7, <2>1, <2>2, <2>3, <2>4, StartIs
<1>9. ASSUME NEW w \in Worker, ListRound(w) \/ PairRound(w)
      PROVE  FALSE
  <2>1. Is(w, "list") \/ Is(w, "pair")
    BY <1>9 DEF ListRound, PairRound
  <2>2. OfKind(job[w]) /\ job[w].at \in {"list", "pair"}
    BY <2>1, JobIs
  <2> QED
    BY <2>2 DEF OfKind
<1>10. ASSUME NEW w \in Worker, SaveResult(w)
       PROVE  /\ \A r \in table' : Good(r)
              /\ \A v \in Busy' : \A r \in job'[v].todo : Good(r)
  <2>1. \A r \in table' : Good(r)
    BY <1>1, <1>2, <1>10, SaveResultIs
  <2>2. Is(w, "save")
    BY <1>10 DEF SaveResult
  <2>3. w \in Busy /\ IsJob(job[w])
    BY <2>2, JobIs
  <2>4. \A at : [job[w] EXCEPT !.at = at].todo = job[w].todo
    BY <2>3 DEF IsJob
  <2>5. Go(w, Idle) \/ \E at : Go(w, [job[w] EXCEPT !.at = at])
    BY <1>10 DEF SaveResult, Step, Done
  <2> QED
    BY <1>1, <1>7, <2>1, <2>3, <2>4, <2>5
<1>11. ASSUME NEW w \in Worker, NEW row, CreateRow(w, row)
       PROVE  /\ \A r \in table' : Good(r)
              /\ \A v \in Busy' : \A r \in job'[v].todo : Good(r)
  <2>1. Is(w, "create") /\ row \in job[w].todo
    BY <1>11 DEF CreateRow
  <2>2. w \in Busy /\ IsJob(job[w])
    BY <2>1, JobIs
  <2>3. Good(row)
    BY <1>1, <2>1, <2>2
  <2>4. Placed(w, row) = row
    <3>1. PICK q \in Scheduled : Same(row, q)
      BY <2>3 DEF Good
    <3>2. q.position # 0
      BY ScheduleIs
    <3>3. row.position # 0
      BY <3>1, <3>2, SameIs
    <3> QED
      BY <3>3 DEF Placed
  <2>5. /\ UNCHANGED table \/ table' = table \cup {row}
        /\ \/ Go(w, Idle)
           \/ Go(w, [job[w] EXCEPT !.todo = @ \ {row}, !.made = @ + 1])
           \/ Go(w, [job[w] EXCEPT !.at = "activate", !.todo = {}])
    BY <1>11, <2>4 DEF CreateRow, Created, Done
  <2>6. /\ [job[w] EXCEPT !.todo = @ \ {row}, !.made = @ + 1].todo = job[w].todo \ {row}
        /\ [job[w] EXCEPT !.at = "activate", !.todo = {}].todo = {}
    BY <2>2 DEF IsJob
  <2>7. \A r \in table' : Good(r)
    BY <1>1, <2>3, <2>5
  <2>8. CASE Go(w, Idle)
    BY <1>7, <2>7, <2>8
  <2>9. CASE Go(w, [job[w] EXCEPT !.todo = @ \ {row}, !.made = @ + 1])
    <3>1. \A r \in job[w].todo \ {row} : Good(r)
      BY <1>1, <2>2
    <3> QED
      BY <1>7, <2>6, <2>7, <2>9, <3>1
  <2>10. CASE Go(w, [job[w] EXCEPT !.at = "activate", !.todo = {}])
    BY <1>7, <2>6, <2>7, <2>10
  <2> QED
    BY <2>5, <2>8, <2>9, <2>10
<1> QED
  BY <1>6, <1>8, <1>9, <1>10, <1>11, NextRows

LEMMA ScheduledNext ==
  ASSUME Base, AsScheduled, [Next]_vars
  PROVE  AsScheduled'
<1>1. Frame /\ Scheduled' = Scheduled
  BY BaseNext, FrameIs
<1>2. ASSUME stage.format = "round_robin"
      PROVE  \A r \in table' \cup UNION {job'[v].todo : v \in Busy'} : \E q \in Scheduled' : Same(r, q)
  BY <1>1, <1>2, ScheduledStep
<1> QED
  BY <1>1, <1>2 DEF AsScheduled, Frame, Same, Key

LEMMA ScheduledInit == Init => AsScheduled
BY DEF Init, AsScheduled, Busy

-----------------------------------------------------------------------------
(* The rounds of a Swiss stage.                                            *)

LEMMA TableLast ==
  ASSUME Base
  PROVE  /\ LastRound(table) \in Nat
         /\ \A r \in table : r.round \in Nat \ {0} /\ r.round <= LastRound(table)
         /\ table # {} => \E r \in table : r.round = LastRound(table)
<1>1. PICK b \in Nat : Bound(b)
  BY DEF Base
<1>2. \A r \in table : r.round \in Nat \ {0} /\ r.round <= b
  BY <1>1 DEF Bound, Base, Rows
<1> QED
  BY <1>2, LastIs

LEMMA EmptyLast == LastRound({}) = 0
<1>1. \A r \in {} : r.round \in Nat /\ r.round <= 0
  OBVIOUS
<1> QED
  BY <1>1, LastIs

LEMMA LastOfTheSame ==
  ASSUME \A r \in table : \E q \in table' : Same(q, r), \A q \in table' : \E r \in table : Same(q, r)
  PROVE  LastRound(table') = LastRound(table)
<1>1. \A r, q : Same(r, q) => r.round = q.round
  BY SameIs
<1>2. {r.round : r \in table'} = {r.round : r \in table}
  BY <1>1
<1> QED
  BY <1>2, LastOfSame

LEMMA UnmetIs ==
  ASSUME NEW r, NEW q, NEW a, NEW b, Unmet(r, q),
         Meeting(a) = Meeting(r), a.round = r.round, Meeting(b) = Meeting(q), b.round = q.round
  PROVE  Unmet(a, b)
BY DEF Unmet

LEMMA UnmetBoth ==
  ASSUME NEW r, NEW q, Unmet(r, q)
  PROVE  Unmet(q, r)
BY DEF Unmet

(* A call that this step does not touch, and that another may overtake. *)
LEMMA CallKept ==
  ASSUME Base, NEW v \in Busy, job'[v] = job[v], CallOk(job[v]),
         table # {} => table' # {},
         \A n : Taken(n) => Taken(n)',
         \A n \in Nat : Fresh(n) =>
           Taken(n)' \/ (Fresh(n)' /\ \A r \in table' : \E q \in table : Same(r, q)),
         job[v].at = "create" /\ job[v].made # 0 =>
           LastRound(table') = LastRound(table) /\ \A r \in table' : \E q \in table : Same(r, q)
  PROVE  CallOk(job[v])'
<1>1. \A r, q, p : Same(r, q) /\ Same(q, p) => Same(r, p)
  BY DEF Same
<1>2. ASSUME job[v].at = "pair" PROVE Pairs(job[v])'
  <2> DEFINE n == LastRound(job[v].seen) + 1
  <2>1. /\ job[v].seen # {} /\ \A q \in job[v].seen : ~q.open
        /\ Taken(n) \/ (Fresh(n) /\ \A r \in table : \E q \in job[v].seen : Same(r, q))
    BY <1>2 DEF CallOk, Pairs
  <2>2. PICK m \in Nat : m = n
    BY SeenIs
  <2>3. Taken(m)' \/ (Fresh(m)' /\ \A r \in table' : \E q \in job[v].seen : Same(r, q))
    BY <1>1, <2>1, <2>2
  <2>4. LastRound(job'[v].seen) + 1 = m
    BY <2>2
  <2> HIDE DEF n
  <2> QED
    BY <2>1, <2>3, <2>4 DEF Pairs
<1>3. ASSUME job[v].at = "create" PROVE \E n \in Nat \ {0} : Creates(job[v], n)'
  <2>1. PICK n \in Nat \ {0} : Creates(job[v], n)
    BY <1>3 DEF CallOk
  <2>2. ASSUME NEW r \in job[v].todo, \A q \in table : Unmet(r, q),
               \A x \in table' : \E q \in table : Same(x, q), NEW x \in table'
        PROVE  Unmet(r, x)
    <3>1. PICK q \in table : Same(x, q)
      BY <2>2
    <3> QED
      BY <2>2, <3>1, SameIs, UnmetIs
  <2>3. CASE job[v].made = 0
    <3>1. Taken(n)' \/ (Fresh(n)' /\ \A r \in job[v].todo, q \in table' : Unmet(r, q))
      BY <2>1, <2>2, <2>3 DEF Creates
    <3> QED
      BY <2>1, <2>3, <3>1 DEF Creates, Unmet, Meeting
  <2>4. CASE job[v].made # 0
    <3>1. LastRound(table') = n /\ \A r \in job[v].todo, q \in table' : Unmet(r, q)
      BY <1>3, <2>1, <2>2, <2>4 DEF Creates
    <3> QED
      BY <2>1, <2>4, <3>1 DEF Creates, Unmet, Meeting
  <2> QED
    BY <2>3, <2>4
<1> QED
  BY <1>2, <1>3 DEF CallOk

(* With the same matches, a round that was fresh still is. *)
LEMMA FreshKept ==
  ASSUME UNCHANGED table, Halfway' => Halfway
  PROVE  /\ \A n : Taken(n) => Taken(n)'
         /\ \A n : Fresh(n) => Fresh(n)' /\ \A r \in table' : \E q \in table : Same(r, q)
         /\ LastRound(table') = LastRound(table) /\ Open' = Open
         /\ RoundsInv => RoundsInv'
<1>1. LastRound(table') = LastRound(table) /\ Open' = Open
  BY DEF Open, LastRound
<1>2. \A n : Taken(n) => Taken(n)'
  BY DEF Taken
<1>3. \A n : Fresh(n) => Fresh(n)'
  BY <1>1 DEF Fresh
<1>4. RoundsInv => RoundsInv'
  BY <1>1, <1>2 DEF RoundsInv, Unmet, Meeting
<1> QED
  BY <1>1, <1>2, <1>3, <1>4 DEF Same

LEMMA SwissAside ==
  ASSUME Base, RoundsInv, CallsInv, Aside
  PROVE  RoundsInv' /\ CallsInv'
<1>1. UNCHANGED table
  BY DEF Aside
<1>2. \A v \in Busy' : job'[v].at \in {"list", "pair", "create"} => v \in Busy /\ job'[v] = job[v]
  BY DEF Aside
<1>3. Halfway' => Halfway
  BY <1>2 DEF Halfway
<1>4. ASSUME NEW v \in Busy' PROVE CallOk(job[v])'
  <2>1. CASE job'[v].at \in {"list", "pair", "create"}
    <3>1. v \in Busy /\ job'[v] = job[v] /\ CallOk(job[v])
      BY <1>2, <2>1 DEF CallsInv
    <3>2. \A r \in table' : \E q \in table : Same(r, q)
      BY <1>1 DEF Same
    <3> QED
      BY <1>1, <1>3, <3>1, <3>2, FreshKept, CallKept
  <2>2. CASE job'[v].at \notin {"list", "pair", "create"}
    BY <2>2 DEF CallOk
  <2> QED
    BY <2>1, <2>2
<1>5. \A w, v \in Busy' :
        job'[w].at = "create" /\ job'[v].at = "create" /\ job'[w].made > 0 /\ job'[v].made > 0 => w = v
  BY <1>2 DEF CallsInv
<1> QED
  BY <1>1, <1>3, <1>4, <1>5, FreshKept DEF CallsInv

(* A step of one call that creates nothing. *)
LEMMA SwissGo ==
  ASSUME Base, RoundsInv, CallsInv, UNCHANGED table,
         NEW w \in Worker, NEW j, Go(w, j), j = Idle \/ ~(j.at = "create" /\ j.made > 0),
         w \in Busy' => CallOk(job[w])'
  PROVE  RoundsInv' /\ CallsInv'
<1>1. /\ job'[w] = j /\ (w \in Busy' <=> j # Idle) /\ Busy' \subseteq Worker
      /\ \A v \in Worker : v # w => job'[v] = job[v] /\ (v \in Busy' <=> v \in Busy)
  BY GoIs
<1>2. Halfway' => Halfway
  BY <1>1 DEF Halfway
<1>3. ASSUME NEW v \in Busy' PROVE CallOk(job[v])'
  <2>1. CASE v = w
    BY <2>1
  <2>2. CASE v # w
    <3>1. v \in Busy /\ job'[v] = job[v] /\ CallOk(job[v])
      BY <1>1, <2>2 DEF CallsInv
    <3>2. \A r \in table' : \E q \in table : Same(r, q)
      BY DEF Same
    <3> QED
      BY <1>2, <3>1, <3>2, FreshKept, CallKept
  <2> QED
    BY <2>1, <2>2
<1>4. \A u, v \in Busy' :
        job'[u].at = "create" /\ job'[v].at = "create" /\ job'[u].made > 0 /\ job'[v].made > 0 => u = v
  BY <1>1 DEF CallsInv
<1> QED
  BY <1>2, <1>3, <1>4, FreshKept DEF CallsInv

LEMMA SwissListRound ==
  ASSUME Base, RoundsInv, CallsInv, "round" \notin Overlaps, NEW w \in Worker, ListRound(w)
  PROVE  RoundsInv' /\ CallsInv'
<1> DEFINE j == [job[w] EXCEPT !.at = "pair", !.seen = table]
<1>1. Is(w, "list") /\ ~Halfway /\ UNCHANGED table
  BY DEF ListRound
<1>2. w \in Busy /\ job[w].at = "list" /\ IsJob(job[w]) /\ CallOk(job[w])
  BY <1>1, JobIs DEF CallsInv
<1>3. CASE Done(w)
  BY <1>1, <1>3, GoIs, SwissGo DEF Done
<1>4. CASE ~Done(w)
  <2>1. Go(w, j) /\ \A r \in InRound(table, LastRound(table)) : ~r.open
    BY <1>4 DEF ListRound
  <2>2. j.at = "pair" /\ j.seen = table
    BY <1>2 DEF IsJob
  <2>3. Open = {}
    BY <2>1 DEF RoundsInv, InRound, Open
  <2>4. table # {}
    BY <1>2 DEF CallOk
  <2>5. LastRound(table) \in Nat
    BY TableLast
  <2>6. job'[w] = j
    BY <2>1, GoIs
  <2>7. ~Halfway'
    <3>1. \A v \in Busy' : v \in Worker
      BY <2>1, GoIs
    <3>2. ASSUME NEW v \in Busy', v # w PROVE v \in Busy /\ job'[v] = job[v]
      BY <2>1, <3>1, <3>2, GoIs
    <3> QED
      BY <1>1, <2>2, <2>6, <3>2 DEF Halfway
  <2> HIDE DEF j
  <2>8. Fresh(LastRound(table) + 1)'
    <3>1. LastRound(table') = LastRound(table) /\ Open' = {}
      BY <1>1, <2>3 DEF LastRound, Open
    <3>2. \A n : LastRound(table) = n /\ n \in Nat => Fresh(n + 1)'
      BY <2>7, <3>1 DEF Fresh
    <3> QED
      BY <1>1, <2>5, <3>2 DEF LastRound
  <2>9. Pairs(job[w])'
    <3>1. table' # {} /\ \A q \in table' : ~q.open
      BY <1>1, <2>3, <2>4 DEF Open
    <3>2. job'[w].seen = table'
      BY <1>1, <2>2, <2>6
    <3>3. \A r \in table' : \E q \in table' : Same(r, q)
      BY DEF Same
    <3> QED
      BY <2>8, <3>1, <3>2, <3>3 DEF Pairs
  <2>10. CallOk(job[w])'
    BY <2>2, <2>6, <2>9 DEF CallOk
  <2> QED
    BY <1>1, <2>1, <2>2, <2>10, SwissGo
<1> QED
  BY <1>3, <1>4

LEMMA SwissPairRound ==
  ASSUME Base, RoundsInv, CallsInv, NEW w \in Worker, PairRound(w)
  PROVE  RoundsInv' /\ CallsInv'
<1>1. /\ Is(w, "pair") /\ UNCHANGED table
      /\ \/ Done(w)
         \/ \E rows \in NextRound(job[w].seen, Active) :
              Go(w, [job[w] EXCEPT !.at = "create", !.todo = rows])
  BY PairRoundIs
<1>2. w \in Busy /\ IsJob(job[w]) /\ OfKind(job[w]) /\ job[w].at = "pair" /\ Pairs(job[w])
  BY <1>1, JobIs DEF CallsInv, CallOk
<1>3. CASE Done(w)
  BY <1>1, <1>3, GoIs, SwissGo DEF Done
<1>4. ASSUME NEW rows \in NextRound(job[w].seen, Active),
             Go(w, [job[w] EXCEPT !.at = "create", !.todo = rows])
      PROVE  RoundsInv' /\ CallsInv'
  <2> DEFINE j == [job[w] EXCEPT !.at = "create", !.todo = rows]
  <2>1. PICK n : n = LastRound(job[w].seen)
    OBVIOUS
  <2>2. n \in Nat /\ stage.n \in Nat /\ Active \subseteq Entry
    BY <1>2, <2>1, SeenIs, FieldSize DEF Active
  <2>3. /\ rows \subseteq Rows
        /\ \A r \in rows : /\ r.group = 1 /\ r.position = 0 /\ r.round = n + 1
                           /\ Meeting(r) \notin Met(job[w].seen)
        /\ \A r, q \in rows : r # q => Meeting(r) \cap Meeting(q) = {}
    BY <2>1, <2>2, NextRoundIs
  <2>4. \A r, q \in rows : r # q => Unmet(r, q)
    <3>1. \A r \in rows : Meeting(r) # {}
      BY <2>2, <2>3, MeetingIs
    <3> QED
      BY <2>3, <3>1 DEF Unmet
  <2>5. ASSUME ~Taken(n + 1)
        PROVE  Fresh(n + 1) /\ \A r \in rows, q \in table : Unmet(r, q)
    <3>1. Fresh(n + 1) /\ \A r \in table : \E q \in job[w].seen : Same(r, q)
      BY <1>2, <2>1, <2>5 DEF Pairs
    <3>2. ASSUME NEW r \in rows, NEW q \in table PROVE Unmet(r, q)
      <4>1. PICK s \in job[w].seen : Same(q, s)
        BY <3>1
      <4>2. ~s.open
        BY <1>2, <4>1 DEF Pairs
      <4>3. Meeting(q) \in Met(job[w].seen)
        BY <4>1, <4>2, SameIs DEF Met
      <4>4. r.round # q.round
        <5>1. q.round \in Nat /\ q.round <= LastRound(table) /\ LastRound(table) = (n + 1) - 1
          BY <3>1, TableLast DEF Fresh
        <5>2. r.round = n + 1
          BY <2>3
        <5> QED
          BY <2>2, <5>1, <5>2
      <4> QED
        BY <2>3, <4>3, <4>4 DEF Unmet
    <3> QED
      BY <3>1, <3>2
  <2>6. j.at = "create" /\ j.todo = rows /\ j.made = 0
    BY <1>2 DEF IsJob, OfKind
  <2>7. job'[w] = j
    BY <1>4, GoIs
  <2> HIDE DEF j
  <2>8. Halfway' => Halfway
    <3>1. \A v \in Busy' : v \in Worker
      BY <1>4, GoIs
    <3>2. ASSUME NEW v \in Busy', v # w PROVE v \in Busy /\ job'[v] = job[v]
      BY <1>4, <3>1, <3>2, GoIs
    <3> QED
      BY <2>6, <2>7, <3>2 DEF Halfway
  <2>9. PICK m \in Nat \ {0} : m = n + 1
    BY <2>2
  <2>10. Taken(m)' \/ (Fresh(m)' /\ \A r \in rows, q \in table' : Unmet(r, q))
    BY <1>1, <2>5, <2>8, <2>9, FreshKept
  <2>11. Creates(job[w], m)'
    BY <2>3, <2>4, <2>6, <2>7, <2>9, <2>10 DEF Creates, Unmet, Meeting
  <2>12. CallOk(job[w])'
    BY <2>6, <2>7, <2>11 DEF CallOk
  <2>13. Go(w, j)
    BY <1>4 DEF j
  <2>14. ~(j.made > 0)
    BY <2>6
  <2> QED
    BY <1>1, <2>12, <2>13, <2>14, SwissGo
<1> QED
  BY <1>1, <1>3, <1>4

LEMMA SwissStartStage ==
  ASSUME Base, RoundsInv, CallsInv, stage.format = "swiss", NEW w \in Worker, StartStage(w)
  PROVE  RoundsInv' /\ CallsInv'
<1>1. PICK rows \in NextRound({}, Active) : Start(w, [Call("start", "create") EXCEPT !.todo = rows])
  BY DEF StartStage, FirstRound
<1> DEFINE j == [Call("start", "create") EXCEPT !.todo = rows]
<1>2. Go(w, j) /\ UNCHANGED table
  BY <1>1, StartIs DEF StartStage
<1>3. LastRound({}) = 0
  <2>1. \A r \in {} : r.round \in Nat /\ r.round <= 0
    OBVIOUS
  <2> QED
    BY <2>1, LastIs
<1>4. /\ rows \subseteq Rows
      /\ \A r \in rows : r.group = 1 /\ r.position = 0 /\ r.round = 1
      /\ \A r, q \in rows : r # q => Meeting(r) \cap Meeting(q) = {}
  BY <1>3, FieldSize, NextRoundIs DEF Active
<1>5. \A r, q \in rows : r # q => Unmet(r, q)
  <2>1. \A r \in rows : Meeting(r) # {}
    BY <1>4, FieldSize, MeetingIs
  <2> QED
    BY <1>4, <2>1 DEF Unmet
<1>6. j.at = "create" /\ j.todo = rows /\ j.made = 0
  BY DEF Call
<1>7. job'[w] = j
  BY <1>2, GoIs
<1> HIDE DEF j
<1>8. Halfway' => Halfway
  <2>1. \A v \in Busy' : v \in Worker
    BY <1>2, GoIs
  <2>2. ASSUME NEW v \in Busy', v # w PROVE v \in Busy /\ job'[v] = job[v]
    BY <1>2, <2>1, <2>2, GoIs
  <2> QED
    BY <1>6, <1>7, <2>2 DEF Halfway
<1>9. ASSUME ~Taken(1) PROVE Fresh(1) /\ table = {}
  <2>1. table = {}
    BY <1>9 DEF RoundsInv
  <2>2. LastRound(table) = 0 /\ Open = {}
    BY <1>3, <2>1 DEF Open
  <2>3. ~Halfway
    <3>1. SUFFICES ASSUME NEW v \in Busy, job[v].at = "create", job[v].made > 0 PROVE FALSE
      BY DEF Halfway
    <3>2. PICK n \in Nat \ {0} : Creates(job[v], n)
      BY <3>1 DEF CallsInv, CallOk
    <3>3. LastRound(table) = n
      BY <3>1, <3>2 DEF Creates
    <3> QED
      BY <2>2, <3>3
  <2> QED
    BY <2>1, <2>2, <2>3 DEF Fresh
<1>10. Taken(1)' \/ (Fresh(1)' /\ \A r \in rows, q \in table' : Unmet(r, q))
  BY <1>2, <1>8, <1>9, FreshKept
<1>11. Creates(job[w], 1)'
  BY <1>4, <1>5, <1>6, <1>7, <1>10 DEF Creates, Unmet, Meeting
<1>12. CallOk(job[w])'
  BY <1>6, <1>7, <1>11 DEF CallOk
<1> QED
  BY <1>2, <1>6, <1>12, SwissGo

LEMMA SwissSaveResult ==
  ASSUME Base, RoundsInv, CallsInv, Base', NEW w \in Worker, SaveResult(w)
  PROVE  RoundsInv' /\ CallsInv'
<1> DEFINE k == job[w]
           j == CASE k.was = "complete" -> [k EXCEPT !.at = "rank"]
                  [] k.was = "active" /\ stage.format = "swiss" -> [k EXCEPT !.at = "list"]
                  [] OTHER -> Idle
<1>1. Is(w, "save") /\ Go(w, j)
  BY DEF SaveResult, Step, Done
<1>2. w \in Busy /\ IsJob(k)
  BY <1>1, JobIs
<1>3. /\ \A r \in table : \E q \in table' : Same(q, r)
      /\ \A q \in table' : \E r \in table : Same(q, r)
      /\ \A r \in table' : r.open => r \in table
      /\ table' # {}
  BY SaveResultIs
<1>4. LastRound(table') = LastRound(table)
  BY <1>3, LastOfTheSame
<1>5. Open' \subseteq Open
  BY <1>3 DEF Open
<1>6. \A n : Taken(n) => Taken(n)'
  BY <1>3, SameIs DEF Taken
<1>7. j = Idle \/ j.at \in {"rank", "list"}
  BY <1>2 DEF IsJob
<1>8. /\ job'[w] = j /\ (w \in Busy' <=> j # Idle) /\ Busy' \subseteq Worker
      /\ \A v \in Worker : v # w => job'[v] = job[v] /\ (v \in Busy' <=> v \in Busy)
  BY <1>1, GoIs
<1> HIDE DEF j
<1>9. Halfway' => Halfway
  BY <1>7, <1>8 DEF Halfway
<1>10. \A n : Fresh(n) => Fresh(n)' /\ \A r \in table' : \E q \in table : Same(r, q)
  BY <1>3, <1>4, <1>5, <1>9 DEF Fresh
<1>11. ASSUME NEW v \in Busy' PROVE CallOk(job[v])'
  <2>1. CASE v = w
    BY <1>3, <1>7, <1>8, <2>1 DEF CallOk
  <2>2. CASE v # w
    <3>1. v \in Busy /\ job'[v] = job[v] /\ CallOk(job[v])
      BY <1>8, <2>2 DEF CallsInv
    <3> QED
      BY <1>3, <1>4, <1>6, <1>10, <3>1, CallKept
  <2> QED
    BY <2>1, <2>2
<1>12. \A u, v \in Busy' :
        job'[u].at = "create" /\ job'[v].at = "create" /\ job'[u].made > 0 /\ job'[v].made > 0 => u = v
  BY <1>7, <1>8 DEF CallsInv
<1>13. \A r \in table' : r.group = 1 /\ \E q \in table' : q.round = r.round /\ q.position = 1
  <2>1. ASSUME NEW r \in table' PROVE r.group = 1 /\ \E q \in table' : q.round = r.round /\ q.position = 1
    <3>1. PICK a \in table : Same(r, a)
      BY <1>3
    <3>2. PICK b \in table : b.round = a.round /\ b.position = 1
      BY DEF RoundsInv
    <3>3. PICK c \in table' : Same(c, b)
      BY <1>3
    <3> QED
      BY <3>1, <3>2, <3>3, SameIs DEF RoundsInv
  <2> QED
    BY <2>1
<1>14. \A r, q \in table' : r # q => Unmet(r, q)
  <2>1. ASSUME NEW r \in table', NEW q \in table', r # q PROVE Unmet(r, q)
    <3>1. PICK a \in table : Same(r, a)
      BY <1>3
    <3>2. PICK b \in table : Same(q, b)
      BY <1>3
    <3>3. Key(r) # Key(q)
      <4>1. \A x, y \in table' : Key(x) = Key(y) => x = y
        BY DEF Base, Key
      <4> QED
        BY <2>1, <4>1
    <3>4. a # b
      BY <3>1, <3>2, <3>3, SameIs
    <3>5. Unmet(a, b)
      BY <3>4 DEF RoundsInv
    <3> QED
      BY <3>1, <3>2, <3>5, SameIs, UnmetIs
  <2> QED
    BY <2>1
<1>15. RoundsInv'
  <2>1. Taken(1)'
    BY <1>3, <1>6 DEF RoundsInv
  <2>2. \A r \in Open' : r.round = LastRound(table')
    BY <1>4, <1>5 DEF RoundsInv
  <2> QED
    BY <1>13, <1>14, <2>1, <2>2 DEF RoundsInv, Unmet, Meeting
<1> QED
  BY <1>11, <1>12, <1>15 DEF CallsInv

(* Who creates a row of a round. *)
LEMMA CreatorIs ==
  ASSUME Base, RoundsInv, CallsInv, NEW w \in Worker, NEW row, CreateRow(w, row),
         ~\E r \in table : Key(r) = Key(Placed(w, row))
  PROVE  \E n \in Nat \ {0} :
           LET p == Placed(w, row)
           IN  /\ w \in Busy /\ IsJob(job[w]) /\ job[w].at = "create" /\ row \in job[w].todo
               /\ table' = table \cup {p}
               /\ p.group = 1 /\ p.round = n /\ Meeting(p) = Meeting(row) /\ row.round = n
               /\ p.position = job[w].made + 1
               /\ \A r \in job[w].todo : r.group = 1 /\ r.position = 0 /\ r.round = n
               /\ \A r, q \in job[w].todo : r # q => Unmet(r, q)
               /\ \A r \in job[w].todo, q \in table : Unmet(r, q)
               /\ IF job[w].made = 0 THEN Fresh(n) ELSE LastRound(table) = n /\ Halfway
<1>1. Is(w, "create") /\ row \in job[w].todo /\ table' = table \cup {Placed(w, row)}
  BY DEF CreateRow
<1>2. w \in Busy /\ IsJob(job[w]) /\ job[w].at = "create" /\ CallOk(job[w])
  BY <1>1, JobIs DEF CallsInv
<1>3. PICK n \in Nat \ {0} : Creates(job[w], n)
  BY <1>2 DEF CallOk
<1>4. /\ \A r \in job[w].todo : r.group = 1 /\ r.position = 0 /\ r.round = n
      /\ \A r, q \in job[w].todo : r # q => Unmet(r, q)
  BY <1>3 DEF Creates
<1> DEFINE p == Placed(w, row)
<1>5. /\ p.group = 1 /\ p.round = n /\ Meeting(p) = Meeting(row)
      /\ p.position = job[w].made + 1
  <2>1. row \in Rows
    BY <1>1, <1>2 DEF IsJob
  <2>2. p = [row EXCEPT !.position = job[w].made + 1]
    BY <1>1, <1>4 DEF Placed
  <2> QED
    BY <1>1, <1>4, <2>1, <2>2 DEF Meeting, Rows
<1>6. CASE job[w].made = 0
  <2>1. ~Taken(n)
    <3>1. SUFFICES ASSUME NEW r \in table, r.round = n PROVE FALSE
      BY DEF Taken
    <3>2. PICK q \in table : q.round = n /\ q.position = 1 /\ q.group = 1
      BY <3>1 DEF RoundsInv
    <3>3. Key(q) = Key(p)
      BY <1>5, <1>6, <3>2 DEF Key
    <3> QED
      BY <3>3
  <2>2. Fresh(n) /\ \A r \in job[w].todo, q \in table : Unmet(r, q)
    BY <1>3, <1>6, <2>1 DEF Creates
  <2> QED
    BY <1>1, <1>2, <1>4, <1>5, <1>6, <2>2
<1>7. CASE job[w].made # 0
  <2>1. LastRound(table) = n /\ \A r \in job[w].todo, q \in table : Unmet(r, q)
    BY <1>3, <1>7 DEF Creates
  <2>2. Halfway
    BY <1>2, <1>7 DEF Halfway, IsJob
  <2> QED
    BY <1>1, <1>2, <1>4, <1>5, <1>7, <2>1, <2>2
<1> QED
  BY <1>6, <1>7

LEMMA SwissCreateRow ==
  ASSUME Base, RoundsInv, CallsInv, NEW w \in Worker, NEW row, CreateRow(w, row)
  PROVE  RoundsInv' /\ CallsInv'
<1> DEFINE p == Placed(w, row)
<1>1. CASE \E r \in table : Key(r) = Key(p)
  <2>1. Done(w) /\ UNCHANGED table
    BY <1>1 DEF CreateRow
  <2> QED
    BY <2>1, GoIs, SwissGo DEF Done
<1>2. CASE ~\E r \in table : Key(r) = Key(p)
  <2>1. PICK n \in Nat \ {0} :
               /\ w \in Busy /\ IsJob(job[w]) /\ job[w].at = "create" /\ row \in job[w].todo
               /\ table' = table \cup {p}
               /\ p.group = 1 /\ p.round = n /\ Meeting(p) = Meeting(row) /\ row.round = n
               /\ p.position = job[w].made + 1
               /\ \A r \in job[w].todo : r.group = 1 /\ r.position = 0 /\ r.round = n
               /\ \A r, q \in job[w].todo : r # q => Unmet(r, q)
               /\ \A r \in job[w].todo, q \in table : Unmet(r, q)
               /\ IF job[w].made = 0 THEN Fresh(n) ELSE LastRound(table) = n /\ Halfway
    BY <1>2, CreatorIs
  <2> HIDE DEF p
  <2> DEFINE j == IF job[w].todo # {row}
                  THEN [job[w] EXCEPT !.todo = @ \ {row}, !.made = @ + 1]
                  ELSE IF job[w].kind = "start" THEN [job[w] EXCEPT !.at = "activate", !.todo = {}]
                       ELSE Idle
  <2>2. Go(w, j)
    BY <1>2 DEF CreateRow, Created, p
  <2>3. \/ j = Idle \/ j.at = "activate"
        \/ j.at = "create" /\ j.todo = job[w].todo \ {row} /\ j.made = job[w].made + 1
    BY <2>1 DEF IsJob
  <2> HIDE DEF j
  <2>4. /\ job'[w] = j /\ (w \in Busy' <=> j # Idle) /\ Busy' \subseteq Worker
        /\ \A v \in Worker : v # w => job'[v] = job[v] /\ (v \in Busy' <=> v \in Busy)
    BY <2>2, GoIs
  <2>5. LastRound(table) \in Nat /\ LastRound(table) <= n
    BY <2>1, TableLast DEF Fresh
  <2>6. LastRound(table') = n
    <3>1. \A r \in table' : r.round \in Nat /\ r.round <= n
      BY <2>1, <2>5, TableLast
    <3>2. LastRound(table') \in Nat /\ LastRound(table') <= n /\ \A r \in table' : r.round <= LastRound(table')
      BY <3>1, LastIs
    <3>3. n <= LastRound(table')
      BY <2>1, <3>2
    <3> QED
      BY <3>2, <3>3
  <2>7. (\A m : Taken(m) => Taken(m)') /\ Taken(n)'
    BY <2>1 DEF Taken
  <2>8. \A m \in Nat : Fresh(m) => m = n
    BY <2>1, <2>5 DEF Fresh
  <2>9. \A q \in table : Unmet(p, q) /\ Unmet(q, p)
    BY <2>1, UnmetIs, UnmetBoth
  <2>10. \A v \in Busy : v # w => ~(job[v].at = "create" /\ job[v].made > 0)
    <3>1. SUFFICES ASSUME NEW v \in Busy, v # w, job[v].at = "create", job[v].made > 0 PROVE FALSE
      OBVIOUS
    <3>2. Halfway
      BY <3>1 DEF Halfway
    <3>3. job[w].made # 0
      BY <2>1, <3>2 DEF Fresh
    <3>4. job[w].made > 0
      BY <2>1, <3>3 DEF IsJob
    <3> QED
      BY <2>1, <3>1, <3>4 DEF CallsInv
  <2>11. \A q \in table : Taken(q.round)
    BY DEF Taken
  <2>12. RoundsInv'
    <3>1. ASSUME NEW r \in table' PROVE r.group = 1 /\ \E q \in table' : q.round = r.round /\ q.position = 1
      <4>1. CASE r \in table
        BY <2>1, <4>1 DEF RoundsInv
      <4>2. CASE r = p /\ job[w].made = 0
        BY <2>1, <4>2
      <4>3. CASE r = p /\ job[w].made # 0
        <5>1. LastRound(table) = n /\ table # {}
          BY <2>1, <4>3, EmptyLast
        <5>2. PICK q \in table : q.round = n
          BY <5>1, TableLast
        <5> QED
          BY <2>1, <4>3, <5>2 DEF RoundsInv
      <4> QED
        BY <2>1, <4>1, <4>2, <4>3
    <3>2. Taken(1)'
      <4>1. CASE table # {}
        BY <2>7, <4>1 DEF RoundsInv
      <4>2. CASE table = {}
        <5>1. LastRound(table) = 0
          BY <4>2, EmptyLast
        <5>2. n = 1
          BY <2>1, <5>1 DEF Fresh
        <5> QED
          BY <2>7, <5>2
      <4> QED
        BY <4>1, <4>2
    <3>3. \A r, q \in table' : r # q => Unmet(r, q)
      BY <2>1, <2>9 DEF RoundsInv
    <3>4. \A r \in Open' : r.round = LastRound(table')
      <4>1. \A r \in Open' : r = p \/ r \in Open
        BY <2>1 DEF Open
      <4>2. \A r \in Open : r.round = n
        BY <2>1 DEF RoundsInv, Fresh
      <4> QED
        BY <2>1, <2>6, <4>1, <4>2
    <3> QED
      BY <3>1, <3>2, <3>3, <3>4 DEF RoundsInv, Unmet, Meeting
  <2>13. ASSUME NEW v \in Busy' PROVE CallOk(job[v])'
    <3>1. CASE v = w
      <4>1. CASE job'[v].at # "create"
        BY <2>3, <2>4, <3>1, <4>1 DEF CallOk
      <4>2. CASE job'[v].at = "create"
        <5>1. j.at = "create" /\ j.todo = job[w].todo \ {row} /\ j.made = job[w].made + 1 /\ j.made # 0
          BY <2>1, <2>3, <2>4, <3>1, <4>2 DEF IsJob
        <5>2. \A r \in j.todo, q \in table' : Unmet(r, q)
          <6>1. ASSUME NEW r \in j.todo PROVE Unmet(r, p)
            <7>1. Unmet(r, row)
              BY <2>1, <5>1
            <7> QED
              BY <2>1, <7>1, UnmetIs
          <6> QED
            BY <2>1, <5>1, <6>1
        <5>3. /\ \A r \in j.todo : r.group = 1 /\ r.position = 0 /\ r.round = n
              /\ \A r, q \in j.todo : r # q => Unmet(r, q)
          BY <2>1, <5>1
        <5>4. Creates(job[v], n)'
          BY <2>4, <2>6, <3>1, <5>1, <5>2, <5>3 DEF Creates, Unmet, Meeting
        <5> QED
          BY <2>4, <3>1, <5>1, <5>4 DEF CallOk
      <4> QED
        BY <4>1, <4>2
    <3>2. CASE v # w
      <4>1. v \in Busy /\ job'[v] = job[v] /\ CallOk(job[v]) /\ IsJob(job[v])
        BY <2>4, <3>2 DEF CallsInv, Base
      <4>2. ~(job[v].at = "create" /\ job[v].made # 0)
        BY <2>10, <3>2, <4>1 DEF IsJob
      <4>3. \A m \in Nat : Fresh(m) => Taken(m)'
        BY <2>7, <2>8
      <4>4. table' # {}
        BY <2>1
      <4> QED
        BY <2>7, <4>1, <4>2, <4>3, <4>4, CallKept
    <3> QED
      BY <3>1, <3>2
  <2>14. ASSUME NEW u \in Busy', NEW v \in Busy',
                job'[u].at = "create", job'[v].at = "create", job'[u].made > 0, job'[v].made > 0
         PROVE  u = v
    <3>1. u # w => u \in Busy /\ job'[u] = job[u]
      BY <2>4
    <3>2. v # w => v \in Busy /\ job'[v] = job[v]
      BY <2>4
    <3> QED
      BY <2>10, <2>14, <3>1, <3>2
  <2> QED
    BY <2>12, <2>13, <2>14 DEF CallsInv
<1> QED
  BY <1>1, <1>2

LEMMA SwissNext ==
  ASSUME Base, SwissInv, "round" \notin Overlaps, [Next]_vars
  PROVE  SwissInv'
<1>1. Base' /\ stage'.format = stage.format
  BY BaseNext DEF Frame
<1>2. SUFFICES ASSUME stage.format = "swiss" PROVE RoundsInv' /\ CallsInv'
  BY <1>1 DEF SwissInv
<1>3. RoundsInv /\ CallsInv
  BY <1>2 DEF SwissInv
<1> QED
  BY <1>1, <1>2, <1>3, NextRows, SwissAside, SwissStartStage, SwissListRound, SwissPairRound,
     SwissSaveResult, SwissCreateRow

LEMMA SwissInit == Init => SwissInv
BY DEF Init, SwissInv, RoundsInv, CallsInv, Busy, Open

-----------------------------------------------------------------------------
(* The pairings of a stage: the inductive invariant is that of its rounds  *)
(* and of the calls that pair and create them, on the forms.               *)
PairingInv == Base /\ AsScheduled /\ SwissInv

LEMMA PairingInductive ==
  ASSUME "round" \notin Overlaps
  PROVE  /\ Sound /\ Init => PairingInv
         /\ PairingInv /\ [Next]_vars => PairingInv'
<1>1. Sound /\ Init => PairingInv
  BY BaseInit, ScheduledInit, SwissInit DEF PairingInv
<1>2. ASSUME PairingInv, [Next]_vars PROVE PairingInv'
  BY <1>2, BaseNext, ScheduledNext, SwissNext DEF PairingInv
<1> QED
  BY <1>1, <1>2

LEMMA ScheduledApart ==
  ASSUME Base, AsScheduled, stage.format = "round_robin",
         NEW r \in table, NEW q \in table, r # q
  PROVE  Meeting(r) # Meeting(q) /\ (r.round = q.round => Meeting(r) \cap Meeting(q) = {})
<1>1. PICK a \in Scheduled : Same(r, a)
  BY DEF AsScheduled
<1>2. PICK b \in Scheduled : Same(q, b)
  BY DEF AsScheduled
<1>3. a # b
  <2>1. Key(r) # Key(q)
    BY DEF Base
  <2> QED
    BY <1>1, <1>2, <2>1, SameIs
<1>4. /\ {a.one, a.two} # {b.one, b.two}
      /\ a.round = b.round => {a.one, a.two} \cap {b.one, b.two} = {}
  BY <1>1, <1>2, <1>3, ScheduleIs DEF IsRoundRobin, Scheduled
<1>5. \A x \in Scheduled : Meeting(x) = {x.one, x.two}
  <2>1. \A x \in Scheduled : x.one # None /\ x.two # None
    BY ScheduleIs, NoneAssumption DEF Entry
  <2> QED
    BY <2>1 DEF Meeting
<1> QED
  BY <1>1, <1>2, <1>4, <1>5, SameIs

-----------------------------------------------------------------------------
(* Calls that begin, and calls that go on.                                 *)

LEMMA StartedIs ==
  ASSUME Base, Base', NEW w \in Worker, NEW j, Go(w, j), NEW kind \in Kind, j.kind = kind,
         UNCHANGED stage
  PROVE  IsJob(j) /\ OfKind(j)
<1>1. kind # "idle"
  BY DEF Kind
<1>2. j # Idle
  BY <1>1 DEF Idle
<1>3. w \in Busy' /\ job'[w] = j
  BY <1>2, GoIs
<1>4. IsJob(job[w])' /\ OfKind(job[w])'
  BY <1>3 DEF Base
<1>5. Entry' = Entry /\ Rows' = Rows
  BY DEF Entry, Rows
<1>6. IsJob(j)
  BY <1>3, <1>4, <1>5 DEF IsJob
<1>7. OfKind(j)
  BY <1>3, <1>4 DEF OfKind, Scores, Ranks
<1> QED
  BY <1>6, <1>7

LEMMA BegunIs ==
  ASSUME Base, Base', NEW w \in Worker,
         \/ StartStage(w) \/ CancelStage(w) \/ CompleteStage(w) \/ AdvanceStage(w)
         \/ \E r \in table, e \in Entry : Report(w, r, e) \/ Override(w, r, e)
         \/ \E e \in Entry : RetireEntry(w, e)
  PROVE  \E j : Begun(w, j)
<1>1. ASSUME NEW j, NEW kind \in Kind, Start(w, j), j.kind = kind, UNCHANGED stage
      PROVE  IsJob(j) /\ OfKind(j)
  BY <1>1, StartIs, StartedIs
<1>2. CASE StartStage(w)
  <2>1. PICK rows : Start(w, [Call("start", "create") EXCEPT !.todo = rows])
    BY <1>2 DEF StartStage
  <2> DEFINE j == [Call("start", "create") EXCEPT !.todo = rows]
  <2>2. j.kind = "start" /\ j.at = "create" /\ j.was = stage.state /\ j.rule = <<>>
    BY DEF Call
  <2> HIDE DEF j
  <2>3. IsJob(j) /\ OfKind(j)
    BY <1>1, <1>2, <2>1, <2>2 DEF j, StartStage, Kind
  <2> QED
    BY <1>2, <2>1, <2>2, <2>3 DEF Begun, StartStage, j
<1>3. CASE CancelStage(w)
  <2> DEFINE j == Call("cancel", "cancel")
  <2>2. j.kind = "cancel" /\ j.at = "cancel" /\ j.was = stage.state /\ j.rule = <<>>
    BY DEF Call
  <2> HIDE DEF j
  <2>3. IsJob(j) /\ OfKind(j)
    BY <1>1, <1>3, <2>2 DEF j, CancelStage, Kind
  <2> QED
    BY <1>3, <2>2, <2>3 DEF Begun, CancelStage, j
<1>4. CASE CompleteStage(w)
  <2>1. PICK rule \in Rulings : Start(w, [Call("complete", "rank") EXCEPT !.rule = rule])
    BY <1>4 DEF CompleteStage
  <2> DEFINE j == [Call("complete", "rank") EXCEPT !.rule = rule]
  <2>2. j.kind = "complete" /\ j.at = "rank" /\ j.was = stage.state /\ j.rule = rule
    BY DEF Call
  <2> HIDE DEF j
  <2>3. IsJob(j) /\ OfKind(j)
    BY <1>1, <1>4, <2>1, <2>2 DEF j, CompleteStage, Kind
  <2> QED
    BY <1>4, <2>1, <2>2, <2>3 DEF Begun, CompleteStage, j
<1>5. CASE AdvanceStage(w)
  <2> DEFINE j == Call("advance", "draw")
  <2>2. j.kind = "advance" /\ j.at = "draw" /\ j.was = stage.state /\ j.rule = <<>> /\ j.made = 0
    BY DEF Call
  <2> HIDE DEF j
  <2>3. IsJob(j) /\ OfKind(j)
    BY <1>1, <1>5, <2>2 DEF j, AdvanceStage, Kind
  <2> QED
    BY <1>5, <2>2, <2>3 DEF Begun, AdvanceStage, j
<1>6. ASSUME NEW r \in table, NEW e \in Entry, Report(w, r, e) PROVE \E j : Begun(w, j)
  <2> DEFINE j == Result("report", r, e)
  <2>2. j.kind = "report" /\ j.at = "save" /\ j.was = stage.state /\ j.rule = <<>>
    BY DEF Call, Result
  <2> HIDE DEF j
  <2>3. IsJob(j) /\ OfKind(j)
    BY <1>1, <1>6, <2>2 DEF j, Report, Kind
  <2> QED
    BY <1>6, <2>2, <2>3 DEF Begun, Report, j
<1>7. ASSUME NEW r \in table, NEW e \in Entry, Override(w, r, e) PROVE \E j : Begun(w, j)
  <2> DEFINE j == Result("override", r, e)
  <2>2. j.kind = "override" /\ j.at = "save" /\ j.was = stage.state /\ j.rule = <<>>
    BY DEF Call, Result
  <2> HIDE DEF j
  <2>3. IsJob(j) /\ OfKind(j)
    BY <1>1, <1>7, <2>2 DEF j, Override, Kind
  <2> QED
    BY <1>7, <2>2, <2>3 DEF Begun, Override, j
<1>8. ASSUME NEW e \in Entry, RetireEntry(w, e) PROVE \E j : Begun(w, j)
  <2> DEFINE j == [Call("retire", "retire") EXCEPT !.entry = <<e, entry[e]>>]
  <2>2. j.kind = "retire" /\ j.at = "retire" /\ j.was = stage.state /\ j.entry = <<e, entry[e]>>
      /\ j.rule = <<>>
    BY DEF Call
  <2> HIDE DEF j
  <2>3. IsJob(j) /\ OfKind(j)
    BY <1>1, <1>8, <2>2 DEF j, RetireEntry, Kind
  <2>4. Start(w, j)
    BY <1>8 DEF RetireEntry, j
  <2>5. j.entry[2] = entry[j.entry[1]]
    BY <2>2
  <2> QED
    BY <1>8, <2>2, <2>3, <2>4, <2>5 DEF Begun, RetireEntry
<1> QED
  BY <1>2, <1>3, <1>4, <1>5, <1>6, <1>7, <1>8

LEMMA GoesOnGo ==
  ASSUME Base, NEW w \in Busy, NEW j, Go(w, j),
         j = Idle \/ (j.kind = job[w].kind /\ j.was = job[w].was /\ j.rule = job[w].rule)
  PROVE  GoesOn
<1>1. w \in Worker
  BY DEF Busy
<1>2. ASSUME NEW v \in Busy'
      PROVE  /\ v \in Busy /\ job'[v].kind = job[v].kind
             /\ job'[v].was = job[v].was /\ job'[v].rule = job[v].rule
  <2>1. CASE v = w
    BY <1>1, <2>1, GoIs
  <2>2. CASE v # w
    BY <1>1, <2>2, GoIs
  <2> QED
    BY <2>1, <2>2
<1> QED
  BY <1>2 DEF GoesOn

LEMMA GoesOnIs ==
  ASSUME Base, NEW w \in Worker,
         \/ ListRound(w) \/ PairRound(w) \/ SaveResult(w) \/ \E row : CreateRow(w, row)
         \/ Activate(w) \/ ReadResults(w) \/ ReadEntries(w) \/ SaveRank(w) \/ CloseStage(w)
         \/ SaveCancelled(w) \/ SaveRetired(w) \/ DrawField(w) \/ EnrollNext(w)
  PROVE  GoesOn
<1>1. ASSUME NEW at, Is(w, at) PROVE w \in Busy /\ IsJob(job[w]) /\ job[w].at = at
  BY <1>1, JobIs
<1> DEFINE k == job[w]
           Like(j) == j = Idle \/ (j.kind = k.kind /\ j.was = k.was /\ j.rule = k.rule)
<1>2. ASSUME NEW at, Is(w, at), NEW j, Go(w, j), Like(j) PROVE GoesOn
  BY <1>1, <1>2, GoesOnGo
<1>3. CASE Activate(w) \/ CloseStage(w) \/ SaveCancelled(w) \/ SaveRetired(w)
  <2>1. Go(w, Idle) /\ \E at : Is(w, at)
    BY <1>3 DEF Activate, CloseStage, SaveCancelled, SaveRetired, Done
  <2> QED
    BY <1>2, <2>1
<1>4. CASE ListRound(w)
  <2>1. Is(w, "list") /\ (Go(w, Idle) \/ Go(w, [k EXCEPT !.at = "pair", !.seen = table]))
    BY <1>4 DEF ListRound, Done
  <2>2. Like([k EXCEPT !.at = "pair", !.seen = table])
    BY <1>1, <2>1 DEF IsJob
  <2> HIDE DEF Like
  <2>3. Like(Idle)
    BY DEF Like
  <2> QED
    BY <1>2, <2>1, <2>2, <2>3
<1>5. CASE PairRound(w)
  <2>1. Is(w, "pair") /\ (Go(w, Idle) \/ \E rows : Go(w, [k EXCEPT !.at = "create", !.todo = rows]))
    BY <1>5, PairRoundIs DEF Done
  <2>2. \A rows : Like([k EXCEPT !.at = "create", !.todo = rows])
    BY <1>1, <2>1 DEF IsJob
  <2> HIDE DEF Like
  <2>3. Like(Idle)
    BY DEF Like
  <2> QED
    BY <1>2, <2>1, <2>2, <2>3
<1>6. CASE SaveResult(w)
  <2>1. Is(w, "save") /\ (Go(w, Idle) \/ \E at : Go(w, [k EXCEPT !.at = at]))
    BY <1>6 DEF SaveResult, Step, Done
  <2>2. \A at : Like([k EXCEPT !.at = at])
    BY <1>1, <2>1 DEF IsJob
  <2> HIDE DEF Like
  <2>3. Like(Idle)
    BY DEF Like
  <2> QED
    BY <1>2, <2>1, <2>2, <2>3
<1>7. ASSUME NEW row, CreateRow(w, row) PROVE GoesOn
  <2>1. /\ Is(w, "create")
        /\ \/ Go(w, Idle)
           \/ Go(w, [k EXCEPT !.todo = @ \ {row}, !.made = @ + 1])
           \/ Go(w, [k EXCEPT !.at = "activate", !.todo = {}])
    BY <1>7 DEF CreateRow, Created, Done
  <2>2. /\ Like([k EXCEPT !.todo = @ \ {row}, !.made = @ + 1])
        /\ Like([k EXCEPT !.at = "activate", !.todo = {}])
    BY <1>1, <2>1 DEF IsJob
  <2> HIDE DEF Like
  <2>3. Like(Idle)
    BY DEF Like
  <2> QED
    BY <1>2, <2>1, <2>2, <2>3
<1>8. CASE ReadResults(w)
  <2>1. Is(w, "rank") /\ Go(w, [k EXCEPT !.at = "entries", !.seen = Results])
    BY <1>8 DEF ReadResults
  <2>2. Like([k EXCEPT !.at = "entries", !.seen = Results])
    BY <1>1, <2>1 DEF IsJob
  <2> HIDE DEF Like
  <2> QED
    BY <1>2, <2>1, <2>2
<1>9. CASE ReadEntries(w)
  <2>1. Is(w, "entries") /\ \E s : Go(w, [k EXCEPT !.at = "write", !.saves = s])
    BY <1>9 DEF ReadEntries
  <2>2. \A s : Like([k EXCEPT !.at = "write", !.saves = s])
    BY <1>1, <2>1 DEF IsJob
  <2> HIDE DEF Like
  <2> QED
    BY <1>2, <2>1, <2>2
<1>10. CASE SaveRank(w)
  <2>1. /\ Is(w, "write")
        /\ \E x : \/ Go(w, [k EXCEPT !.at = "close", !.saves = {}])
                  \/ Go(w, [k EXCEPT !.saves = @ \ {x}])
    BY <1>10, SaveRankIs DEF SaveRank
  <2>2. /\ Like([k EXCEPT !.at = "close", !.saves = {}])
        /\ \A x : Like([k EXCEPT !.saves = @ \ {x}])
    BY <1>1, <2>1 DEF IsJob
  <2> HIDE DEF Like
  <2> QED
    BY <1>2, <2>1, <2>2
<1>11. CASE DrawField(w)
  <2>1. Is(w, "draw") /\ (Go(w, Idle) \/ \E o : Go(w, [k EXCEPT !.at = "enroll", !.order = o]))
    BY <1>11 DEF DrawField, Done
  <2>2. \A o : Like([k EXCEPT !.at = "enroll", !.order = o])
    BY <1>1, <2>1 DEF IsJob
  <2> HIDE DEF Like
  <2>3. Like(Idle)
    BY DEF Like
  <2> QED
    BY <1>2, <2>1, <2>2, <2>3
<1>12. CASE EnrollNext(w)
  <2>1. Is(w, "enroll") /\ (Go(w, Idle) \/ \E m : Go(w, [k EXCEPT !.made = m]))
    BY <1>12 DEF EnrollNext, Done
  <2>2. \A m : Like([k EXCEPT !.made = m])
    BY <1>1, <2>1 DEF IsJob
  <2> HIDE DEF Like
  <2>3. Like(Idle)
    BY DEF Like
  <2> QED
    BY <1>2, <2>1, <2>2, <2>3
<1> QED
  BY <1>3, <1>4, <1>5, <1>6, <1>7, <1>8, <1>9, <1>10, <1>11, <1>12

LEMMA NextCalls ==
  ASSUME Base, Base', [Next]_vars
  PROVE  GoesOn \/ \E w \in Worker : \E j : Begun(w, j)
<1>1. CASE UNCHANGED vars
  BY <1>1 DEF vars, GoesOn, Busy
<1>2. CASE Restart
  BY <1>2 DEF Restart, GoesOn, Busy
<1> QED
  BY <1>1, <1>2, NextIs, BegunIs, GoesOnIs

-----------------------------------------------------------------------------
(* A stage is ranked when nothing is open and nobody records a result.     *)

Apart == {"state", "result", "retire"} \cap Overlaps = {}

(* Calls that may be in flight together. *)
LEMMA TogetherIs ==
  ASSUME NEW c \in ConflictKind, c \notin Overlaps, NEW w, NEW j, Start(w, j), NEW v \in Busy
  PROVE  ~Conflict(j, job[v])[c] /\ ~Conflict(job[v], j)[c]
BY DEF Start

LEMMA RankersAlone ==
  ASSUME {"state", "result"} \cap Overlaps = {}, NEW w, NEW j, Start(w, j), NEW v \in Busy,
         j.kind \in Kind, job[v].kind \in Kind
  PROVE  /\ Ranks(j) => job[v].kind \in {"retire", "advance"}
         /\ Ranks(job[v]) => j.kind \in {"retire", "advance"}
<1> DEFINE k == job[v]
<1>1. ~Conflict(j, k)["state"] /\ ~Conflict(k, j)["state"]
  <2>1. "state" \in ConflictKind /\ "state" \notin Overlaps
    BY DEF ConflictKind
  <2> QED
    BY <2>1, TogetherIs
<1>2. ~Conflict(j, k)["result"] /\ ~Conflict(k, j)["result"]
  <2>1. "result" \in ConflictKind /\ "result" \notin Overlaps
    BY DEF ConflictKind
  <2> QED
    BY <2>1, TogetherIs
<1> HIDE DEF k
<1>3. /\ ~((j.kind \in {"start", "cancel"} \/ Ranks(j)) /\ (k.kind \in {"start", "cancel"} \/ Ranks(k)))
      /\ ~(Ranks(j) /\ Scores(k)) /\ ~(Ranks(k) /\ Scores(j))
  BY <1>1, <1>2 DEF Conflict
<1>4. \A x : x.kind \in Kind =>
        x.kind \in {"retire", "advance"} \/ x.kind \in {"start", "cancel"} \/ Ranks(x) \/ Scores(x)
  BY DEF Kind, Ranks, Scores
<1> QED
  BY <1>3, <1>4 DEF k

LEMMA RetirersAlone ==
  ASSUME "retire" \notin Overlaps, NEW w, NEW j, Start(w, j), NEW v \in Busy
  PROVE  /\ Ranks(j) => job[v].kind # "retire"
         /\ Ranks(job[v]) => j.kind # "retire"
         /\ j.kind = "retire" /\ job[v].kind = "retire" => j.entry[1] # job[v].entry[1]
<1>1. ~Conflict(j, job[v])["retire"] /\ ~Conflict(job[v], j)["retire"]
  <2>1. "retire" \in ConflictKind
    BY DEF ConflictKind
  <2> QED
    BY <2>1, TogetherIs
<1> QED
  BY <1>1 DEF Conflict

(* Who creates rows, and who closes the stage. *)
LEMMA AtIs ==
  ASSUME Base, NEW v \in Busy
  PROVE  /\ job[v].kind \in Kind
         /\ job[v].at = "create" => ~Ranks(job[v]) /\ job[v].kind \notin {"retire", "advance"}
         /\ job[v].at = "save" => job[v].kind \notin {"retire", "advance"}
         /\ job[v].at \in {"entries", "write", "close"} => Ranks(job[v])
         /\ job[v].at = "retire" <=> job[v].kind = "retire"
<1>1. IsJob(job[v]) /\ OfKind(job[v])
  BY DEF Base
<1> QED
  BY <1>1 DEF IsJob, OfKind, Scores, Ranks

LEMMA NextOpens ==
  ASSUME Base, [Next]_vars
  PROVE  Open' \subseteq Open \/ \E w \in Busy : job[w].at = "create"
<1>1. CASE Aside
  BY <1>1 DEF Aside, Open
<1>2. ASSUME NEW w \in Worker, StartStage(w) \/ ListRound(w) \/ PairRound(w) PROVE Open' \subseteq Open
  BY <1>2 DEF StartStage, ListRound, PairRound, Open
<1>3. ASSUME NEW w \in Worker, SaveResult(w) PROVE Open' \subseteq Open
  BY <1>3, SaveResultIs DEF Open
<1>4. ASSUME NEW w \in Worker, NEW row, CreateRow(w, row) PROVE \E v \in Busy : job[v].at = "create"
  BY <1>4, JobIs DEF CreateRow
<1> QED
  BY <1>1, <1>2, <1>3, <1>4, NextRows

LEMMA NextState ==
  ASSUME Base, [Next]_vars
  PROVE  \/ stage'.state = stage.state
         \/ /\ stage'.state \in {"active", "cancelled"}
            /\ \E w \in Busy : job[w].kind \in {"start", "cancel"}
         \/ \E w \in Busy : job[w].at = "close" /\ CloseStage(w) /\ w \notin Busy'
<1>1. CASE UNCHANGED vars \/ Restart
  BY <1>1 DEF vars, Restart
<1>2. ASSUME NEW w \in Worker, Activate(w) \/ SaveCancelled(w)
      PROVE  /\ stage'.state \in {"active", "cancelled"}
             /\ \E v \in Busy : job[v].kind \in {"start", "cancel"}
  <2>1. Is(w, "activate") \/ Is(w, "cancel")
    BY <1>2 DEF Activate, SaveCancelled
  <2>2. w \in Busy /\ job[w].kind \in {"start", "cancel"}
    BY <2>1, JobIs DEF OfKind
  <2> QED
    BY <1>2, <2>2 DEF Activate, SaveCancelled, Base
<1>3. ASSUME NEW w \in Worker, CloseStage(w)
      PROVE \E v \in Busy : job[v].at = "close" /\ CloseStage(v) /\ v \notin Busy'
  <2>1. Is(w, "close") /\ Go(w, Idle)
    BY <1>3 DEF CloseStage, Done
  <2>2. w \in Busy /\ job[w].at = "close" /\ w \notin Busy'
    BY <2>1, JobIs, GoIs
  <2> QED
    BY <1>3, <2>2
<1>4. ASSUME NEW w \in Worker,
             \/ StartStage(w) \/ ListRound(w) \/ PairRound(w) \/ SaveResult(w)
             \/ \E row : CreateRow(w, row)
      PROVE  stage' = stage
  BY <1>4 DEF StartStage, ListRound, PairRound, SaveResult, CreateRow
<1>5. ASSUME NEW w \in Worker,
             \/ CancelStage(w) \/ CompleteStage(w) \/ AdvanceStage(w)
             \/ \E r \in table, e \in Entry : Report(w, r, e) \/ Override(w, r, e)
             \/ \E e \in Entry : RetireEntry(w, e)
      PROVE  stage' = stage
  BY <1>5 DEF CancelStage, CompleteStage, AdvanceStage, Report, Override, RetireEntry
<1>6. ASSUME NEW w \in Worker,
             \/ ReadResults(w) \/ ReadEntries(w) \/ SaveRank(w)
             \/ SaveRetired(w) \/ DrawField(w) \/ EnrollNext(w)
      PROVE  stage' = stage
  BY <1>6 DEF ReadResults, ReadEntries, SaveRank, SaveRetired, DrawField, EnrollNext
<1> QED
  BY <1>1, <1>2, <1>3, <1>4, <1>5, <1>6, NextIs

LEMMA CompleteNext ==
  ASSUME Base, CompleteInv, {"state", "result"} \cap Overlaps = {}, [Next]_vars
  PROVE  CompleteInv'
<1>1. Base' /\ Frame
  BY BaseNext
<1>2. \A v \in Busy : Ranks(job[v]) =>
        Open = {} /\ \A u \in Busy : u # v => job[u].kind \in {"retire", "advance"}
  BY DEF CompleteInv
<1>3. stage.state = "complete" =>
        Open = {} /\ \A v \in Busy : job[v].kind \in {"retire", "advance"} \/ Ranks(job[v])
  BY DEF CompleteInv
<1>4. CASE \E w \in Worker : \E j : Begun(w, j)
  <2>0. PICK w \in Worker : \E j : Begun(w, j)
    BY <1>4
  <2>1. PICK j : Begun(w, j)
    BY <2>0
  <2>2. Start(w, j) /\ IsJob(j) /\ stage' = stage /\ table' = table /\ j.was = stage.state
    BY <2>1 DEF Begun
  <2>3. job[w] = Idle /\ j # Idle /\ Go(w, j)
    BY <2>2, StartIs, IdleNotJob
  <2>4. /\ job'[w] = j /\ Busy' \subseteq Worker
        /\ \A v \in Worker : v # w => job'[v] = job[v] /\ (v \in Busy' <=> v \in Busy)
    BY <2>3, GoIs
  <2>5. \A v \in Busy' : v # w => v \in Busy /\ job'[v] = job[v]
    BY <2>4
  <2>6. \A v \in Busy : job[v].kind \in Kind
    BY AtIs
  <2>7. j.kind \in Kind
    BY <2>2 DEF IsJob
  <2>8. \A v \in Busy : /\ Ranks(j) => job[v].kind \in {"retire", "advance"}
                        /\ Ranks(job[v]) => j.kind \in {"retire", "advance"}
    BY <2>2, <2>6, <2>7, RankersAlone
  <2>9. Ranks(j) => Open = {}
    BY <1>3, <2>1 DEF Begun, Ranks
  <2>10. stage.state = "complete" => j.kind \in {"retire", "advance"} \/ Ranks(j)
    BY <2>1, <2>7 DEF Begun, Ranks, Kind
  <2>11. Open' = Open
    BY <2>2 DEF Open
  <2>12. ASSUME NEW v \in Busy', Ranks(job'[v])
         PROVE  Open' = {} /\ \A u \in Busy' : u # v => job'[u].kind \in {"retire", "advance"}
    BY <1>2, <2>4, <2>5, <2>8, <2>9, <2>11, <2>12
  <2>13. ASSUME stage.state = "complete"
         PROVE  Open' = {} /\ \A u \in Busy' : job'[u].kind \in {"retire", "advance"} \/ Ranks(job'[u])
    BY <1>3, <2>4, <2>5, <2>10, <2>11, <2>13
  <2> QED
    BY <2>2, <2>12, <2>13 DEF CompleteInv, Ranks
<1>5. CASE GoesOn
  <2>1. \A v \in Busy' : v \in Busy /\ job'[v].kind = job[v].kind /\ (Ranks(job'[v]) <=> Ranks(job[v]))
    BY <1>5 DEF GoesOn, Ranks
  <2>2. ASSUME NEW v \in Busy, Ranks(job[v]) PROVE Open' = {}
    BY <1>2, <2>2, AtIs, NextOpens
  <2>3. ASSUME stage.state = "complete" PROVE Open' = {}
    BY <1>3, <2>3, AtIs, NextOpens
  <2>4. ASSUME NEW v \in Busy', Ranks(job'[v])
        PROVE  Open' = {} /\ \A u \in Busy' : u # v => job'[u].kind \in {"retire", "advance"}
    BY <1>2, <2>1, <2>2, <2>4
  <2>5. ASSUME stage'.state = "complete"
        PROVE  Open' = {} /\ \A u \in Busy' : job'[u].kind \in {"retire", "advance"} \/ Ranks(job'[u])
    <3>1. CASE stage.state = "complete"
      BY <1>3, <2>1, <2>3, <3>1
    <3>2. CASE stage.state # "complete"
      <4>1. PICK w \in Busy : job[w].at = "close" /\ w \notin Busy'
        BY <2>5, <3>2, NextState
      <4>2. Ranks(job[w])
        BY <4>1, AtIs
      <4> QED
        BY <1>2, <2>1, <2>2, <4>1, <4>2
    <3> QED
      BY <3>1, <3>2
  <2> QED
    BY <2>4, <2>5 DEF CompleteInv, Ranks
<1> QED
  BY <1>1, <1>4, <1>5, NextCalls

LEMMA CompleteInit == Init => CompleteInv
BY DEF Init, CompleteInv, Busy, Open

-----------------------------------------------------------------------------
(* Entries that retire.                                                    *)

LEMMA NextEntry ==
  ASSUME Base, [Next]_vars
  PROVE  \/ UNCHANGED <<entry, left>>
         \/ \E w \in Worker : SaveRank(w) /\ UNCHANGED left
         \/ \E w \in Worker : SaveRetired(w)
<1>1. CASE UNCHANGED vars \/ Restart
  BY <1>1 DEF vars, Restart
<1>2. ASSUME NEW w \in Worker,
             \/ StartStage(w) \/ ListRound(w) \/ PairRound(w) \/ SaveResult(w)
             \/ \E row : CreateRow(w, row)
      PROVE  UNCHANGED <<entry, left>>
  BY <1>2 DEF StartStage, ListRound, PairRound, SaveResult, CreateRow
<1>3. ASSUME NEW w \in Worker,
             \/ CancelStage(w) \/ CompleteStage(w) \/ AdvanceStage(w)
             \/ \E r \in table, e \in Entry : Report(w, r, e) \/ Override(w, r, e)
             \/ \E e \in Entry : RetireEntry(w, e)
      PROVE  UNCHANGED <<entry, left>>
  BY <1>3 DEF CancelStage, CompleteStage, AdvanceStage, Report, Override, RetireEntry
<1>4. ASSUME NEW w \in Worker,
             \/ Activate(w) \/ ReadResults(w) \/ ReadEntries(w) \/ CloseStage(w)
             \/ SaveCancelled(w) \/ DrawField(w) \/ EnrollNext(w)
      PROVE  UNCHANGED <<entry, left>>
  BY <1>4 DEF Activate, ReadResults, ReadEntries, CloseStage, SaveCancelled, DrawField, EnrollNext
<1>5. ASSUME NEW w \in Worker, SaveRank(w) PROVE UNCHANGED left
  BY <1>5 DEF SaveRank
<1> QED
  BY <1>1, <1>2, <1>3, <1>4, <1>5, NextIs

LEMMA RankAsideGo ==
  ASSUME Base, NEW w \in Worker, NEW j, Go(w, j),
         j = Idle \/ j.at \notin {"entries", "write", "close"}
  PROVE  RankAside
<1>1. ASSUME NEW v \in Busy', job'[v].at \in {"entries", "write", "close"}
      PROVE  v \in Busy /\ job'[v] = job[v]
  <2>1. CASE v = w
    BY <1>1, <2>1, GoIs
  <2>2. CASE v # w
    BY <2>2, GoIs
  <2> QED
    BY <2>1, <2>2
<1> QED
  BY <1>1 DEF RankAside

LEMMA NextRanking ==
  ASSUME Base, Base', [Next]_vars
  PROVE  \/ RankAside
         \/ \E w \in Worker : ReadResults(w) \/ ReadEntries(w) \/ SaveRank(w)
<1>1. CASE UNCHANGED vars
  BY <1>1 DEF vars, RankAside, Busy
<1>2. CASE Restart
  BY <1>2 DEF Restart, RankAside, Busy
<1>3. ASSUME NEW w \in Worker,
             \/ StartStage(w) \/ CancelStage(w) \/ CompleteStage(w) \/ AdvanceStage(w)
             \/ \E r \in table, e \in Entry : Report(w, r, e) \/ Override(w, r, e)
             \/ \E e \in Entry : RetireEntry(w, e)
      PROVE  RankAside
  BY <1>3, BegunIs, StartIs, RankAsideGo DEF Begun
<1>4. ASSUME NEW w \in Worker,
             Activate(w) \/ CloseStage(w) \/ SaveCancelled(w) \/ SaveRetired(w)
      PROVE  RankAside
  BY <1>4, RankAsideGo DEF Activate, CloseStage, SaveCancelled, SaveRetired, Done
<1>5. ASSUME NEW w \in Worker,
             \/ ListRound(w) \/ PairRound(w) \/ SaveResult(w) \/ \E row : CreateRow(w, row)
             \/ DrawField(w) \/ EnrollNext(w)
      PROVE  RankAside
  <2>1. ASSUME NEW at, Is(w, at) PROVE IsJob(job[w]) /\ job[w].at = at
    BY <2>1, JobIs
  <2>2. CASE ListRound(w)
    <3>1. [job[w] EXCEPT !.at = "pair", !.seen = table].at = "pair"
      BY <2>1, <2>2 DEF ListRound, IsJob
    <3> QED
      BY <2>2, <3>1, RankAsideGo DEF ListRound, Done
  <2>3. CASE PairRound(w)
    <3>1. \A rows : [job[w] EXCEPT !.at = "create", !.todo = rows].at = "create"
      BY <2>1, <2>3 DEF PairRound, IsJob
    <3> QED
      BY <2>3, <3>1, PairRoundIs, RankAsideGo DEF Done
  <2>4. CASE SaveResult(w)
    <3>1. \A at : [job[w] EXCEPT !.at = at].at = at
      BY <2>1, <2>4 DEF SaveResult, IsJob
    <3>2. Go(w, Idle) \/ Go(w, [job[w] EXCEPT !.at = "rank"]) \/ Go(w, [job[w] EXCEPT !.at = "list"])
      BY <2>4 DEF SaveResult, Step, Done
    <3> QED
      BY <3>1, <3>2, RankAsideGo
  <2>5. ASSUME NEW row, CreateRow(w, row) PROVE RankAside
    <3>1. /\ [job[w] EXCEPT !.todo = @ \ {row}, !.made = @ + 1].at = "create"
          /\ [job[w] EXCEPT !.at = "activate", !.todo = {}].at = "activate"
      BY <2>1, <2>5 DEF CreateRow, IsJob
    <3>2. \/ Go(w, Idle)
          \/ Go(w, [job[w] EXCEPT !.todo = @ \ {row}, !.made = @ + 1])
          \/ Go(w, [job[w] EXCEPT !.at = "activate", !.todo = {}])
      BY <2>5 DEF CreateRow, Created, Done
    <3> QED
      BY <3>1, <3>2, RankAsideGo
  <2>6. CASE DrawField(w)
    <3>1. \A o : [job[w] EXCEPT !.at = "enroll", !.order = o].at = "enroll"
      BY <2>1, <2>6 DEF DrawField, IsJob
    <3>2. Go(w, Idle) \/ \E o : Go(w, [job[w] EXCEPT !.at = "enroll", !.order = o])
      BY <2>6 DEF DrawField, Done
    <3> QED
      BY <3>1, <3>2, RankAsideGo
  <2>7. CASE EnrollNext(w)
    <3>1. \A m : [job[w] EXCEPT !.made = m].at = "enroll"
      BY <2>1, <2>7 DEF EnrollNext, IsJob
    <3>2. Go(w, Idle) \/ \E m : Go(w, [job[w] EXCEPT !.made = m])
      BY <2>7 DEF EnrollNext, Done
    <3> QED
      BY <3>1, <3>2, RankAsideGo
  <2> QED
    BY <1>5, <2>2, <2>3, <2>4, <2>5, <2>6, <2>7
<1> QED
  BY <1>1, <1>2, <1>3, <1>4, <1>5, NextIs

LEMMA OutCallsNext ==
  ASSUME Base, Base', OutCalls, "retire" \notin Overlaps, [Next]_vars
  PROVE  OutCalls'
<1>1. CASE \E w \in Worker : \E j : Begun(w, j)
  <2>0. PICK w \in Worker : \E j : Begun(w, j)
    BY <1>1
  <2>1. PICK j : Begun(w, j)
    BY <2>0
  <2>2. Start(w, j)
    BY <2>1 DEF Begun
  <2>3. /\ job'[w] = j /\ Busy' \subseteq Worker
        /\ \A v \in Worker : v # w => job'[v] = job[v] /\ (v \in Busy' <=> v \in Busy)
    BY <2>2, StartIs, GoIs
  <2>4. \A v \in Busy' : v # w => v \in Busy /\ job'[v] = job[v]
    BY <2>3
  <2>5. \A v \in Busy : /\ Ranks(j) => job[v].kind # "retire"
                        /\ Ranks(job[v]) => j.kind # "retire"
    BY <2>2, RetirersAlone
  <2>6. Ranks(j) => j.kind # "retire"
    BY DEF Ranks
  <2>7. \A u, v \in Busy' : Ranks(job'[u]) => job'[v].kind # "retire"
    BY <2>3, <2>4, <2>5, <2>6 DEF OutCalls
  <2> QED
    BY <2>7 DEF OutCalls, Ranks
<1>2. CASE GoesOn
  <2>1. \A v \in Busy' : v \in Busy /\ job'[v].kind = job[v].kind /\ (Ranks(job'[v]) <=> Ranks(job[v]))
    BY <1>2 DEF GoesOn, Ranks
  <2>2. \A u, v \in Busy' : Ranks(job'[u]) => job'[v].kind # "retire"
    BY <2>1 DEF OutCalls
  <2> QED
    BY <2>2 DEF OutCalls, Ranks
<1> QED
  BY <1>1, <1>2, NextCalls

(* Whoever ranks has the stage to itself, but for who draws from it. *)
LEMMA RetirerIs ==
  ASSUME Base, OutCalls, NEW u \in Worker, SaveRetired(u)
  PROVE  /\ u \in Busy /\ job[u].at = "retire" /\ job[u].entry[1] \in Entry /\ IsEntry(job[u].entry[2])
         /\ \A v \in Busy : ~Ranks(job[v]) /\ job[v].at \notin {"entries", "write", "close"}
<1>1. Is(u, "retire")
  BY DEF SaveRetired
<1>2. u \in Busy /\ job[u].at = "retire" /\ job[u].entry[1] \in Entry /\ IsEntry(job[u].entry[2])
  BY <1>1, JobIs DEF Fit
<1>3. job[u].kind = "retire"
  BY <1>2, AtIs
<1> QED
  BY <1>2, <1>3, AtIs DEF OutCalls

LEMMA OutStatusNext ==
  ASSUME Base, Base', Frame, OutCalls, OutStatus, [Next]_vars
  PROVE  OutStatus'
<1>1. Entry' = Entry
  BY FrameIs
<1> DEFINE Right(v) == \A x \in job'[v].saves : x[2].status = entry'[x[1]].status
<1>2. \A e \in Entry : left'[e] # None => entry'[e].status = "dropped"
  <2>1. CASE UNCHANGED <<entry, left>>
    BY <2>1 DEF OutStatus
  <2>2. ASSUME NEW w \in Worker, SaveRank(w), UNCHANGED left
        PROVE  \A e \in Entry : left'[e] # None => entry'[e].status = "dropped"
    <3>1. PICK x \in job[w].saves : x[1] \in Entry /\ entry' = [entry EXCEPT ![x[1]] = x[2]]
      BY <2>2, SaveRankIs
    <3>2. w \in Busy /\ job[w].at = "write"
      BY <2>2, JobIs DEF SaveRank
    <3>3. x[2].status = entry[x[1]].status
      BY <3>1, <3>2 DEF OutStatus
    <3> QED
      BY <2>2, <3>1, <3>3 DEF OutStatus, Base
  <2>3. ASSUME NEW w \in Worker, SaveRetired(w)
        PROVE  \A e \in Entry : left'[e] # None => entry'[e].status = "dropped"
    <3> DEFINE f == job[w].entry[1]
    <3>1. f \in Entry /\ IsEntry(job[w].entry[2])
      BY <2>3, RetirerIs
    <3>2. /\ entry' = [entry EXCEPT ![f] = [job[w].entry[2] EXCEPT !.status = "dropped"]]
          /\ left' = [left EXCEPT ![f] = Max(RoundsBegun)]
      BY <2>3 DEF SaveRetired
    <3>3. entry'[f].status = "dropped"
      BY <3>1, <3>2 DEF IsEntry, Base
    <3>4. \A e \in Entry : e # f => entry'[e] = entry[e] /\ left'[e] = left[e]
      BY <3>2 DEF Base
    <3> QED
      BY <3>3, <3>4 DEF OutStatus
  <2> QED
    BY <2>1, <2>2, <2>3, NextEntry
<1>3. ASSUME NEW v \in Busy', job'[v].at = "write" PROVE Right(v)
  <2>1. CASE RankAside
    <3>1. v \in Busy /\ job'[v] = job[v]
      BY <1>3, <2>1 DEF RankAside
    <3>2. CASE UNCHANGED entry
      BY <1>3, <3>1, <3>2 DEF OutStatus
    <3>3. ASSUME NEW w \in Worker, SaveRank(w) PROVE Right(v)
      <4>1. PICK x \in job[w].saves : x[1] \in Entry /\ entry' = [entry EXCEPT ![x[1]] = x[2]]
        BY <3>3, SaveRankIs
      <4>2. w \in Busy /\ job[w].at = "write"
        BY <3>3, JobIs DEF SaveRank
      <4>3. x[2].status = entry[x[1]].status
        BY <4>1, <4>2 DEF OutStatus
      <4>4. \A e \in Entry : entry'[e].status = entry[e].status
        BY <4>1, <4>3 DEF Base
      <4>5. \A y \in job[v].saves : y[1] \in Entry
        BY <1>3, <3>1 DEF Base, Fit
      <4> QED
        BY <1>3, <3>1, <4>4, <4>5 DEF OutStatus
    <3>4. ASSUME NEW w \in Worker, SaveRetired(w) PROVE FALSE
      BY <1>3, <3>1, <3>4, RetirerIs
    <3> QED
      BY <3>2, <3>3, <3>4, NextEntry
  <2>2. ASSUME NEW w \in Worker, ReadResults(w) PROVE Right(v)
    <3>1. Is(w, "rank") /\ Go(w, [job[w] EXCEPT !.at = "entries", !.seen = Results]) /\ UNCHANGED entry
      BY <2>2 DEF ReadResults
    <3>2. [job[w] EXCEPT !.at = "entries", !.seen = Results].at = "entries"
      BY <3>1, JobIs DEF IsJob
    <3>3. v # w /\ v \in Busy /\ job'[v] = job[v]
      BY <1>3, <3>1, <3>2, GoIs
    <3> QED
      BY <1>3, <3>1, <3>3 DEF OutStatus
  <2>3. ASSUME NEW w \in Worker, ReadEntries(w) PROVE Right(v)
    <3> DEFINE s == {<<e, [entry[e] EXCEPT !.rank = RankByRef(w)[e]]>> : e \in Entry}
    <3>1. Is(w, "entries") /\ Go(w, [job[w] EXCEPT !.at = "write", !.saves = s]) /\ UNCHANGED entry
      BY <2>3 DEF ReadEntries
    <3>2. CASE v # w
      <4>1. v \in Busy /\ job'[v] = job[v]
        BY <3>1, <3>2, GoIs
      <4> QED
        BY <1>3, <3>1, <4>1 DEF OutStatus
    <3>3. CASE v = w
      <4>1. \A x \in s : x[2].status = entry[x[1]].status
        <5>1. ASSUME NEW e \in Entry PROVE [entry[e] EXCEPT !.rank = RankByRef(w)[e]].status = entry[e].status
          BY DEF Base, IsEntry
        <5>2. ASSUME NEW x \in s PROVE x[2].status = entry[x[1]].status
          <6>1. PICK e \in Entry : x = <<e, [entry[e] EXCEPT !.rank = RankByRef(w)[e]]>>
            OBVIOUS
          <6> QED
            BY <5>1, <6>1
        <5> QED
          BY <5>2
      <4> HIDE DEF s
      <4>2. [job[w] EXCEPT !.at = "write", !.saves = s].saves = s
        BY <3>1, JobIs DEF IsJob
      <4> QED
        BY <3>1, <3>3, <4>1, <4>2, GoIs
    <3> QED
      BY <3>2, <3>3
  <2>4. ASSUME NEW w \in Worker, SaveRank(w), ~RankAside PROVE Right(v)
    <3>1. PICK x \in job[w].saves :
            /\ x[1] \in Entry /\ entry' = [entry EXCEPT ![x[1]] = x[2]]
            /\ Go(w, IF job[w].saves = {x} THEN [job[w] EXCEPT !.at = "close", !.saves = {}]
                     ELSE [job[w] EXCEPT !.saves = @ \ {x}])
      BY <2>4, SaveRankIs
    <3>2. w \in Busy /\ job[w].at = "write" /\ IsJob(job[w])
      BY <2>4, JobIs DEF SaveRank
    <3>3. x[2].status = entry[x[1]].status
      BY <3>1, <3>2 DEF OutStatus
    <3>4. \A e \in Entry : entry'[e].status = entry[e].status
      BY <3>1, <3>3 DEF Base
    <3>5. v \in Busy /\ job[v].at = "write" /\ job'[v].saves \subseteq job[v].saves
      <4>1. CASE v = w
        <5>1. /\ [job[w] EXCEPT !.at = "close", !.saves = {}].at = "close"
              /\ [job[w] EXCEPT !.saves = @ \ {x}].saves = job[w].saves \ {x}
          BY <3>2 DEF IsJob
        <5>2. job'[w].saves = job[w].saves \ {x}
          BY <1>3, <3>1, <4>1, <5>1, GoIs
        <5> QED
          BY <3>2, <4>1, <5>2
      <4>2. CASE v # w
        BY <1>3, <3>1, <4>2, GoIs
      <4> QED
        BY <4>1, <4>2
    <3>6. \A y \in job[v].saves : y[1] \in Entry
      BY <3>5 DEF Base, Fit
    <3> QED
      BY <3>4, <3>5, <3>6 DEF OutStatus
  <2> QED
    BY <2>1, <2>2, <2>3, <2>4, NextRanking
<1> QED
  BY <1>1, <1>2, <1>3 DEF OutStatus

(* A step of one call that leaves the entries' last rounds alone. *)
LEMMA OutGo ==
  ASSUME Base, OutRounds, Frame, UNCHANGED left, NEW w \in Worker, NEW j, Go(w, j),
         \A r \in table' : InBy(r), j # Idle => \A r \in j.todo : InBy(r)
  PROVE  OutRounds'
<1>1. \A v \in Busy' : \A r \in job'[v].todo : InBy(r)
  <2>1. ASSUME NEW v \in Busy' PROVE \A r \in job'[v].todo : InBy(r)
    <3>1. CASE v = w
      BY <3>1, GoIs
    <3>2. CASE v # w
      <4>1. v \in Busy /\ job'[v] = job[v]
        BY <3>2, GoIs
      <4> QED
        BY <4>1 DEF OutRounds
    <3> QED
      BY <3>1, <3>2
  <2> QED
    BY <2>1
<1>2. \A r : InBy(r) => InBy(r)'
  BY FrameIs DEF InBy, Meeting
<1> QED
  BY <1>1, <1>2 DEF OutRounds

LEMMA InByIs ==
  ASSUME NEW r, NEW q, InBy(q), Meeting(r) = Meeting(q), r.round = q.round
  PROVE  InBy(r)
BY DEF InBy

LEMMA OutRoundsNext ==
  ASSUME Base, Base', Frame, OutCalls, OutStatus, OutRounds, [Next]_vars
  PROVE  OutRounds'
<1>1. Entry' = Entry
  BY FrameIs
<1>2. \A e \in Active : left[e] = None
  BY DEF OutStatus, Active
<1>3. CASE \E u \in Worker : SaveRetired(u)
  <2>1. PICK u \in Worker : SaveRetired(u)
    BY <1>3
  <2> DEFINE f == job[u].entry[1]
  <2>2. f \in Entry
    BY <2>1, RetirerIs
  <2>3. left' = [left EXCEPT ![f] = Max(RoundsBegun)] /\ UNCHANGED table /\ Go(u, Idle)
    BY <2>1 DEF SaveRetired, Done
  <2>4. \A v \in Busy' : v \in Busy /\ job'[v] = job[v]
    BY <2>3, GoIs
  <2>5. \A r \in table \cup UNION {job[v].todo : v \in Busy} : r.round <= Max(RoundsBegun)
    BY RoundsBegunIs
  <2>6. ASSUME NEW r, r.round <= Max(RoundsBegun), InBy(r) PROVE InBy(r)'
    <3>1. ASSUME NEW e \in Entry, e \in Meeting(r), left'[e] # None PROVE r.round <= left'[e]
      <4>1. CASE e = f
        BY <2>2, <2>3, <2>6, <4>1 DEF Base
      <4>2. CASE e # f
        BY <2>3, <2>6, <3>1, <4>2 DEF Base, InBy
      <4> QED
        BY <4>1, <4>2
    <3> QED
      BY <1>1, <3>1 DEF InBy, Meeting
  <2>7. \A r \in table : InBy(r)'
    BY <2>5, <2>6 DEF OutRounds
  <2>8. \A v \in Busy' : \A r \in job'[v].todo : InBy(r)'
    <3>1. ASSUME NEW v \in Busy', NEW r \in job'[v].todo PROVE InBy(r)'
      <4>1. v \in Busy /\ r \in job[v].todo
        BY <2>4, <3>1
      <4> QED
        BY <2>5, <2>6, <4>1 DEF OutRounds
    <3> QED
      BY <3>1
  <2> QED
    BY <2>3, <2>7, <2>8 DEF OutRounds
<1>4. CASE ~\E u \in Worker : SaveRetired(u)
  <2>1. UNCHANGED left
    BY <1>4, NextEntry
  <2>2. \A r : InBy(r) => InBy(r)'
    BY <1>1, <2>1 DEF InBy, Meeting
  <2>3. CASE Aside
    <3>1. \A v \in Busy' : job'[v].todo # {} => job'[v].at = "create"
      BY DEF Base, OfKind
    <3>2. \A v \in Busy' : \A r \in job'[v].todo : InBy(r)
      BY <2>3, <3>1 DEF Aside, OutRounds
    <3>3. \A r \in table' : InBy(r)
      BY <2>3 DEF Aside, OutRounds
    <3> QED
      BY <2>2, <3>2, <3>3 DEF OutRounds
  <2>4. ASSUME NEW w \in Worker, StartStage(w) PROVE OutRounds'
    <3>1. PICK rows \in FirstRound : Start(w, [Call("start", "create") EXCEPT !.todo = rows])
      BY <2>4 DEF StartStage
    <3>2. Active = Entry /\ UNCHANGED table
      BY <2>4 DEF StartStage
    <3>3. \A r \in rows : InBy(r)
      BY <1>2, <3>2 DEF InBy
    <3>4. [Call("start", "create") EXCEPT !.todo = rows].todo = rows
      BY DEF Call
    <3>5. \A r \in table' : InBy(r)
      BY <3>2 DEF OutRounds
    <3> QED
      BY <2>1, <3>1, <3>3, <3>4, <3>5, StartIs, OutGo
  <2>5. ASSUME NEW w \in Worker, ListRound(w) PROVE OutRounds'
    <3>1. Is(w, "list") /\ UNCHANGED table /\ (Go(w, Idle) \/ Go(w, [job[w] EXCEPT !.at = "pair", !.seen = table]))
      BY <2>5 DEF ListRound, Done
    <3>2. w \in Busy /\ IsJob(job[w])
      BY <3>1, JobIs
    <3>3. \A r \in [job[w] EXCEPT !.at = "pair", !.seen = table].todo : InBy(r)
      BY <3>2 DEF IsJob, OutRounds
    <3>4. \A r \in table' : InBy(r)
      BY <3>1 DEF OutRounds
    <3> QED
      BY <2>1, <3>1, <3>3, <3>4, OutGo
  <2>6. ASSUME NEW w \in Worker, PairRound(w) PROVE OutRounds'
    <3>1. /\ Is(w, "pair") /\ UNCHANGED table
          /\ \/ Done(w)
             \/ \E rows \in NextRound(job[w].seen, Active) :
                  Go(w, [job[w] EXCEPT !.at = "create", !.todo = rows])
      BY <2>6, PairRoundIs
    <3>2. w \in Busy /\ IsJob(job[w])
      BY <3>1, JobIs
    <3>3. \A r \in table' : InBy(r)
      BY <3>1 DEF OutRounds
    <3>4. ASSUME NEW rows \in NextRound(job[w].seen, Active),
                 Go(w, [job[w] EXCEPT !.at = "create", !.todo = rows])
          PROVE  OutRounds'
      <4>1. PICK n \in Nat : n = LastRound(job[w].seen)
        BY <3>2, SeenIs
      <4>2. \A r \in rows : Meeting(r) \subseteq Active
        <5>1. stage.n \in Nat /\ Active \subseteq Entry
          BY FieldSize DEF Active
        <5> QED
          BY <4>1, <5>1, NextRoundIs
      <4>3. \A r \in rows : InBy(r)
        BY <1>2, <4>2 DEF InBy
      <4>4. [job[w] EXCEPT !.at = "create", !.todo = rows].todo = rows
        BY <3>2 DEF IsJob
      <4> QED
        BY <2>1, <3>3, <3>4, <4>3, <4>4, OutGo
    <3> QED
      BY <2>1, <3>1, <3>3, <3>4, OutGo DEF Done
  <2>7. ASSUME NEW w \in Worker, SaveResult(w) PROVE OutRounds'
    <3>1. Is(w, "save") /\ (Go(w, Idle) \/ \E at : Go(w, [job[w] EXCEPT !.at = at]))
      BY <2>7 DEF SaveResult, Step, Done
    <3>2. w \in Busy /\ IsJob(job[w])
      BY <3>1, JobIs
    <3>3. \A r \in table' : InBy(r)
      <4>1. ASSUME NEW r \in table' PROVE InBy(r)
        <5>1. PICK q \in table : Same(r, q)
          BY <2>7, SaveResultIs
        <5>2. Meeting(r) = Meeting(q) /\ r.round = q.round
          BY <5>1, SameIs
        <5> QED
          BY <5>1, <5>2, InByIs DEF OutRounds
      <4> QED
        BY <4>1
    <3>4. \A at : \A r \in [job[w] EXCEPT !.at = at].todo : InBy(r)
      BY <3>2 DEF IsJob, OutRounds
    <3> QED
      BY <2>1, <3>1, <3>3, <3>4, OutGo
  <2>8. ASSUME NEW w \in Worker, NEW row, CreateRow(w, row) PROVE OutRounds'
    <3>1. /\ Is(w, "create") /\ row \in job[w].todo
          /\ UNCHANGED table \/ table' = table \cup {Placed(w, row)}
          /\ \/ Go(w, Idle)
             \/ Go(w, [job[w] EXCEPT !.todo = @ \ {row}, !.made = @ + 1])
             \/ Go(w, [job[w] EXCEPT !.at = "activate", !.todo = {}])
      BY <2>8 DEF CreateRow, Created, Done
    <3>2. w \in Busy /\ IsJob(job[w])
      BY <3>1, JobIs
    <3>3. InBy(Placed(w, row))
      <4>1. row \in Rows /\ InBy(row)
        BY <3>1, <3>2 DEF IsJob, OutRounds
      <4>2. Meeting(Placed(w, row)) = Meeting(row) /\ Placed(w, row).round = row.round
        BY <4>1 DEF Placed, Meeting, Rows
      <4> QED
        BY <4>1, <4>2, InByIs
    <3>4. \A r \in table' : InBy(r)
      BY <3>1, <3>3 DEF OutRounds
    <3>5. /\ \A r \in [job[w] EXCEPT !.todo = @ \ {row}, !.made = @ + 1].todo : InBy(r)
          /\ \A r \in [job[w] EXCEPT !.at = "activate", !.todo = {}].todo : InBy(r)
      BY <3>2 DEF IsJob, OutRounds
    <3> QED
      BY <2>1, <3>1, <3>4, <3>5, OutGo
  <2> QED
    BY <2>3, <2>4, <2>5, <2>6, <2>7, <2>8, NextRows
<1> QED
  BY <1>3, <1>4

LEMMA OutNext ==
  ASSUME Base, OutInv, "retire" \notin Overlaps, [Next]_vars
  PROVE  OutInv'
<1>1. Base' /\ Frame
  BY BaseNext
<1>2. OutCalls /\ OutStatus /\ OutRounds
  BY DEF OutInv
<1> QED
  BY <1>1, <1>2, OutCallsNext, OutStatusNext, OutRoundsNext DEF OutInv

LEMMA OutInit == Init => OutInv
BY DEF Init, OutInv, OutCalls, OutStatus, OutRounds, Busy

-----------------------------------------------------------------------------
(* Ranking.                                                                *)

(* Whose call a step goes on with: a retirement ends at once, a ranking    *)
(* only when the stage is closed.                                          *)
LEMMA NextGo ==
  ASSUME Base, Base', [Next]_vars
  PROVE  \/ UNCHANGED vars \/ Restart
         \/ \E w \in Worker : SaveRetired(w) \/ CloseStage(w)
         \/ \E w \in Worker : \E j : Go(w, j) /\ job[w] = Idle
         \/ \E w \in Busy : \E j : /\ Go(w, j) /\ job[w].at # "retire"
                                   /\ Ranks(job[w]) => j # Idle
<1> DEFINE Goal == \/ \E w \in Worker : \E j : Go(w, j) /\ job[w] = Idle
                   \/ \E w \in Busy : \E j : /\ Go(w, j) /\ job[w].at # "retire"
                                             /\ Ranks(job[w]) => j # Idle
<1>1. ASSUME NEW w \in Worker,
             \/ StartStage(w) \/ CancelStage(w) \/ CompleteStage(w) \/ AdvanceStage(w)
             \/ \E r \in table, e \in Entry : Report(w, r, e) \/ Override(w, r, e)
             \/ \E e \in Entry : RetireEntry(w, e)
      PROVE  Goal
  BY <1>1, BegunIs, StartIs DEF Begun
<1>2. ASSUME NEW w \in Worker, NEW at, Is(w, at), at # "retire", NEW j, Go(w, j),
             Ranks(job[w]) => j # Idle
      PROVE  Goal
  BY <1>2, JobIs
<1>3. ASSUME NEW w \in Worker, NEW at, Is(w, at),
             at \in {"activate", "list", "pair", "create", "cancel", "draw", "enroll"}
      PROVE  ~Ranks(job[w])
  BY <1>3, JobIs DEF OfKind, Ranks, Scores
<1>4. ASSUME NEW j, j.kind \in Kind PROVE j # Idle
  BY <1>4 DEF Idle, Kind
<1>5. ASSUME NEW w \in Worker, NEW at, Is(w, at) PROVE IsJob(job[w]) /\ job[w].kind \in Kind
  BY <1>5, JobIs DEF IsJob
<1> HIDE DEF Goal
<1>6. ASSUME NEW w \in Worker,
             \/ Activate(w) \/ ListRound(w) \/ PairRound(w) \/ (\E row : CreateRow(w, row))
             \/ SaveCancelled(w) \/ DrawField(w) \/ EnrollNext(w)
      PROVE  Goal
  <2>1. \E at, j : /\ Is(w, at) /\ Go(w, j)
                   /\ at \in {"activate", "list", "pair", "create", "cancel", "draw", "enroll"}
    BY <1>6 DEF Activate, ListRound, PairRound, CreateRow, Created, SaveCancelled, DrawField,
       EnrollNext, Done
  <2> QED
    BY <1>2, <1>3, <2>1
<1>7. ASSUME NEW w \in Worker, SaveResult(w) PROVE Goal
  <2>1. Is(w, "save")
    BY <1>7 DEF SaveResult
  <2>2. \A at : [job[w] EXCEPT !.at = at] # Idle
    <3>1. \A at : [job[w] EXCEPT !.at = at].kind \in Kind
      BY <1>5, <2>1 DEF IsJob
    <3> QED
      BY <1>4, <3>1
  <2>3. CASE Ranks(job[w])
    <3>1. job[w].was = "complete"
      BY <2>1, <2>3, JobIs DEF Ranks, OfKind, Scores
    <3>2. Go(w, [job[w] EXCEPT !.at = "rank"])
      BY <1>7, <3>1 DEF SaveResult, Step
    <3> QED
      BY <1>2, <2>1, <2>2, <3>2
  <2>4. CASE ~Ranks(job[w])
    <3>1. \E j : Go(w, j)
      BY <1>7 DEF SaveResult, Step, Done
    <3> QED
      BY <1>2, <2>1, <2>4, <3>1
  <2> QED
    BY <2>3, <2>4
<1>8. ASSUME NEW w \in Worker, ReadResults(w) \/ ReadEntries(w) PROVE Goal
  <2>1. \E at, j : /\ Is(w, at) /\ Go(w, j) /\ at \in {"rank", "entries"}
                   /\ j.kind = job[w].kind
    <3>1. CASE ReadResults(w)
      <4>1. Is(w, "rank") /\ Go(w, [job[w] EXCEPT !.at = "entries", !.seen = Results])
        BY <3>1 DEF ReadResults
      <4>2. [job[w] EXCEPT !.at = "entries", !.seen = Results].kind = job[w].kind
        BY <1>5, <4>1 DEF IsJob
      <4> QED
        BY <4>1, <4>2
    <3>2. CASE ReadEntries(w)
      <4>1. Is(w, "entries") /\ \E s : Go(w, [job[w] EXCEPT !.at = "write", !.saves = s])
        BY <3>2 DEF ReadEntries
      <4>2. \A s : [job[w] EXCEPT !.at = "write", !.saves = s].kind = job[w].kind
        BY <1>5, <4>1 DEF IsJob
      <4> QED
        BY <4>1, <4>2
    <3> QED
      BY <1>8, <3>1, <3>2
  <2> QED
    BY <1>2, <1>4, <1>5, <2>1
<1>9. ASSUME NEW w \in Worker, SaveRank(w) PROVE Goal
  <2>1. /\ Is(w, "write")
        /\ \E x : \/ Go(w, [job[w] EXCEPT !.at = "close", !.saves = {}])
                  \/ Go(w, [job[w] EXCEPT !.saves = @ \ {x}])
    BY <1>9, SaveRankIs DEF SaveRank
  <2>2. /\ [job[w] EXCEPT !.at = "close", !.saves = {}].kind \in Kind
        /\ \A x : [job[w] EXCEPT !.saves = @ \ {x}].kind \in Kind
    BY <1>5, <2>1 DEF IsJob
  <2> QED
    BY <1>2, <1>4, <2>1, <2>2
<1> QED
  BY <1>1, <1>6, <1>7, <1>8, <1>9, NextIs DEF Goal

LEMMA RetirerStays ==
  ASSUME Base, Base', [Next]_vars, NEW v \in Busy, job[v].at = "retire", v \in Busy'
  PROVE  job'[v] = job[v]
<1>1. v \in Worker
  BY DEF Busy
<1>2. CASE UNCHANGED vars
  BY <1>2 DEF vars
<1>3. CASE Restart
  BY <1>3 DEF Restart, Busy
<1>4. ASSUME NEW w \in Worker, SaveRetired(w) \/ CloseStage(w) PROVE job'[v] = job[v]
  BY <1>1, <1>4, GoIs DEF SaveRetired, CloseStage, Done
<1>5. ASSUME NEW w \in Worker, NEW j, Go(w, j), job[w] = Idle \/ job[w].at # "retire" PROVE job'[v] = job[v]
  <2>1. v # w
    BY <1>5 DEF Busy
  <2> QED
    BY <1>1, <1>5, <2>1, GoIs
<1>6. \A w \in Busy : w \in Worker
  BY DEF Busy
<1> QED
  BY <1>2, <1>3, <1>4, <1>5, <1>6, NextGo

LEMMA RankerStays ==
  ASSUME Base, Base', OutCalls, [Next]_vars, ~Restart, ~\E w \in Worker : CloseStage(w),
         NEW v \in Busy, Ranks(job[v])
  PROVE  v \in Busy'
<1>1. v \in Worker
  BY DEF Busy
<1>2. CASE UNCHANGED vars
  BY <1>2 DEF vars, Busy
<1>3. ASSUME NEW w \in Worker, SaveRetired(w) PROVE FALSE
  BY <1>3, RetirerIs
<1>4. ASSUME NEW w \in Worker, NEW j, Go(w, j), job[w] = Idle PROVE v \in Busy'
  <2>1. v # w
    BY <1>4 DEF Busy
  <2> QED
    BY <1>1, <1>4, <2>1, GoIs
<1>5. ASSUME NEW w \in Busy, NEW j, Go(w, j), Ranks(job[w]) => j # Idle PROVE v \in Busy'
  <2>1. w \in Worker
    BY DEF Busy
  <2>2. CASE v = w
    BY <1>5, <2>1, <2>2, GoIs
  <2>3. CASE v # w
    BY <1>1, <1>5, <2>1, <2>3, GoIs
  <2> QED
    BY <2>2, <2>3
<1> QED
  BY <1>2, <1>3, <1>4, <1>5, NextGo

(* While the stage is ranked no result is saved and no row created. *)
LEMMA TableStill ==
  ASSUME Base, [Next]_vars, \A v \in Busy : job[v].at \notin {"save", "create"}
  PROVE  table' = table /\ Results' = Results
<1>1. Aside => table' = table
  BY DEF Aside
<1>2. ASSUME NEW w \in Worker, StartStage(w) \/ ListRound(w) \/ PairRound(w) PROVE table' = table
  BY <1>2 DEF StartStage, ListRound, PairRound
<1>3. ASSUME NEW w \in Worker, SaveResult(w) \/ \E row : CreateRow(w, row) PROVE FALSE
  <2>1. Is(w, "save") \/ Is(w, "create")
    BY <1>3 DEF SaveResult, CreateRow
  <2>2. w \in Busy /\ job[w].at \in {"save", "create"}
    BY <2>1, JobIs
  <2> QED
    BY <2>2
<1>4. table' = table
  BY <1>1, <1>2, <1>3, NextRows
<1> QED
  BY <1>4 DEF Results

LEMMA RankerAlone ==
  ASSUME Base, CompleteInv, NEW v \in Busy, job[v].at \in {"entries", "write", "close"}
  PROVE  /\ Ranks(job[v])
         /\ \A w \in Busy : Ranks(job[w]) => w = v
         /\ \A w \in Busy : job[w].at \notin {"save", "create"}
<1>1. Ranks(job[v])
  BY AtIs
<1>2. \A w \in Busy : w # v => job[w].kind \in {"retire", "advance"}
  BY <1>1 DEF CompleteInv
<1>3. \A w \in Busy : w # v => ~Ranks(job[w]) /\ job[w].at \notin {"save", "create"}
  BY <1>2, AtIs DEF Ranks
<1> QED
  BY <1>1, <1>3

LEMMA RetireNext ==
  ASSUME Base, Base', OutCalls, RetireInv, "retire" \notin Overlaps, [Next]_vars
  PROVE  RetireInv'
<1>1. CASE \E w \in Worker : \E j : Begun(w, j)
  <2>0. PICK w \in Worker : \E j : Begun(w, j)
    BY <1>1
  <2>1. PICK j : Begun(w, j)
    BY <2>0
  <2>2. Start(w, j) /\ entry' = entry
    BY <2>1 DEF Begun
  <2>3. /\ job'[w] = j /\ Busy' \subseteq Worker
        /\ \A v \in Worker : v # w => job'[v] = job[v] /\ (v \in Busy' <=> v \in Busy)
    BY <2>2, StartIs, GoIs
  <2>4. \A v \in Busy' : v # w => v \in Busy /\ job'[v] = job[v]
    BY <2>3
  <2>5. \A v \in Busy : j.kind = "retire" /\ job[v].kind = "retire" => j.entry[1] # job[v].entry[1]
    BY <2>2, RetirersAlone
  <2>6. j.kind = "retire" => j.entry[2] = entry[j.entry[1]]
    BY <2>1 DEF Begun
  <2>7. \A u, v \in Busy' :
          job'[u].kind = "retire" /\ job'[v].kind = "retire" => u = v \/ job'[u].entry[1] # job'[v].entry[1]
    BY <2>3, <2>4, <2>5 DEF RetireInv
  <2>8. \A v \in Busy' : job'[v].kind = "retire" => job'[v].entry[2].rank = entry'[job'[v].entry[1]].rank
    BY <2>2, <2>3, <2>4, <2>6 DEF RetireInv
  <2> QED
    BY <2>7, <2>8 DEF RetireInv
<1>2. CASE GoesOn
  <2>1. \A v \in Busy' : job'[v].kind = "retire" => v \in Busy /\ job[v].kind = "retire" /\ job'[v] = job[v]
    BY <1>2, AtIs, RetirerStays DEF GoesOn
  <2>2. \A u, v \in Busy' :
          job'[u].kind = "retire" /\ job'[v].kind = "retire" => u = v \/ job'[u].entry[1] # job'[v].entry[1]
    BY <2>1 DEF RetireInv
  <2>3. ASSUME NEW v \in Busy', job'[v].kind = "retire"
        PROVE  job'[v].entry[2].rank = entry'[job'[v].entry[1]].rank
    <3>1. v \in Busy /\ job[v].kind = "retire" /\ job'[v] = job[v]
      BY <2>1, <2>3
    <3>2. CASE UNCHANGED entry
      BY <3>1, <3>2 DEF RetireInv
    <3>3. ASSUME NEW w \in Worker, SaveRank(w) PROVE FALSE
      <4>1. w \in Busy /\ job[w].at = "write"
        BY <3>3, JobIs DEF SaveRank
      <4> QED
        BY <3>1, <4>1, AtIs DEF OutCalls
    <3>4. ASSUME NEW w \in Worker, SaveRetired(w) PROVE entry'[job[v].entry[1]] = entry[job[v].entry[1]]
      <4>1. w \in Busy /\ job[w].kind = "retire" /\ job[w].entry[1] \in Entry
        BY <3>4, RetirerIs, AtIs
      <4>2. w \notin Busy'
        BY <3>4, GoIs DEF SaveRetired, Done
      <4>3. job[w].entry[1] # job[v].entry[1]
        BY <2>3, <3>1, <4>1, <4>2 DEF RetireInv
      <4>4. job[v].entry[1] \in Entry
        BY <3>1, AtIs DEF Base, Fit
      <4>5. \E x : entry' = [entry EXCEPT ![job[w].entry[1]] = x]
        BY <3>4 DEF SaveRetired
      <4> QED
        BY <4>3, <4>4, <4>5 DEF Base
    <3> QED
      BY <3>1, <3>2, <3>3, <3>4, NextEntry DEF RetireInv
  <2> QED
    BY <2>2, <2>3 DEF RetireInv
<1> QED
  BY <1>1, <1>2, NextCalls

LEMMA RanksKept ==
  ASSUME Frame
  PROVE  /\ \A results : FinalRanks(results)' = FinalRanks(results)
         /\ \A v : job'[v].seen = job[v].seen /\ job'[v].rule = job[v].rule =>
                     RankByRef(v)' = RankByRef(v)
<1>1. Entry' = Entry /\ stage'.groups = stage.groups
  BY FrameIs DEF Frame
<1>2. \A e : Group(e)' = Group(e)
  BY <1>1 DEF Group
<1>3. \A g : GroupEntries(g)' = GroupEntries(g)
  BY <1>1, <1>2 DEF GroupEntries
<1>4. \A results : FinalRanks(results)' = FinalRanks(results)
  BY <1>1, <1>2, <1>3 DEF FinalRanks
<1>5. ASSUME NEW v, job'[v].seen = job[v].seen, job'[v].rule = job[v].rule
      PROVE  RankByRef(v)' = RankByRef(v)
  <2>1. /\ stage'.n = stage.n
        /\ \A e : GroupOf(stage'.groups, e) = GroupOf(stage.groups, e)
    BY DEF Frame
  <2> QED
    BY <1>5, <2>1 DEF RankByRef, FinalRanks, GroupEntries, Group, Entry
<1> QED
  BY <1>4, <1>5

LEMMA RankNext ==
  ASSUME Base, Base', Frame, CompleteInv, OutCalls, RankInv, [Next]_vars
  PROVE  RankInv'
<1>1. Entry' = Entry
  BY FrameIs
<1> DEFINE At(j) == j.at \in {"entries", "write", "close"}
<1>2. \A v \in Busy' : job'[v].kind = "override" => job'[v].rule = <<>>
  <2>1. CASE GoesOn
    BY <2>1 DEF GoesOn, RankInv
  <2>2. ASSUME NEW w \in Worker, NEW j, Begun(w, j)
        PROVE  \A v \in Busy' : job'[v].kind = "override" => job'[v].rule = <<>>
    <3>1. Go(w, j) /\ (j.kind # "complete" => j.rule = <<>>)
      BY <2>2, StartIs DEF Begun
    <3>2. \A v \in Busy' : (v = w /\ job'[v] = j) \/ (v \in Busy /\ job'[v] = job[v])
      BY <3>1, GoIs
    <3> QED
      BY <3>1, <3>2 DEF RankInv
  <2> QED
    BY <2>1, <2>2, NextCalls
<1>3. ASSUME NEW v \in Busy', At(job'[v])
      PROVE  /\ job'[v].seen = Results'
             /\ job'[v].at = "write" =>
                  /\ \A x \in job'[v].saves : x[2].rank = RankByRef(v)'[x[1]]
                  /\ \A e \in Entry : HasRank(v, e)' \/ \E x \in job'[v].saves : x[1] = e
             /\ job'[v].at = "close" => \A e \in Entry : HasRank(v, e)'
  <2>1. CASE RankAside /\ ~\E w \in Worker : SaveRank(w)
    <3>1. v \in Busy /\ job'[v] = job[v] /\ At(job[v])
      BY <1>3, <2>1 DEF RankAside
    <3>2. Results' = Results
      BY <3>1, RankerAlone, TableStill
    <3>3. UNCHANGED entry
      BY <2>1, <3>1, RetirerIs, NextEntry
    <3>4. RankByRef(v)' = RankByRef(v)
      BY <3>1, RanksKept
    <3>5. \A e : HasRank(v, e)' <=> HasRank(v, e)
      BY <3>3, <3>4 DEF HasRank
    <3> QED
      BY <3>1, <3>2, <3>4, <3>5 DEF RankInv
  <2>2. ASSUME NEW w \in Worker, ReadResults(w)
        PROVE  job'[v].seen = Results' /\ job'[v].at = "entries"
    <3> DEFINE j == [job[w] EXCEPT !.at = "entries", !.seen = Results]
    <3>1. Is(w, "rank") /\ Go(w, j) /\ UNCHANGED table
      BY <2>2 DEF ReadResults
    <3>2. w \in Busy /\ IsJob(job[w]) /\ Ranks(job[w]) /\ job[w].at = "rank"
      BY <3>1, JobIs DEF OfKind
    <3>3. j.at = "entries" /\ j.seen = Results
      BY <3>2 DEF IsJob
    <3>4. CASE v = w
      BY <3>1, <3>3, <3>4, GoIs DEF Results
    <3>5. CASE v # w
      <4>1. v \in Busy /\ At(job[v])
        BY <1>3, <3>1, <3>5, GoIs
      <4> QED
        BY <3>2, <3>5, <4>1, RankerAlone
    <3> QED
      BY <3>4, <3>5
  <2>3. ASSUME NEW w \in Worker, ReadEntries(w)
        PROVE  /\ job'[v].seen = Results' /\ job'[v].at = "write"
               /\ \A x \in job'[v].saves : x[2].rank = RankByRef(v)'[x[1]]
               /\ \A e \in Entry : \E x \in job'[v].saves : x[1] = e
    <3> DEFINE R == RankByRef(w)
               s == {<<e, [entry[e] EXCEPT !.rank = R[e]]>> : e \in Entry}
               j == [job[w] EXCEPT !.at = "write", !.saves = s]
    <3>1. Is(w, "entries") /\ Go(w, j) /\ UNCHANGED table
      BY <2>3 DEF ReadEntries
    <3>2. w \in Busy /\ IsJob(job[w]) /\ Ranks(job[w]) /\ job[w].at = "entries"
      BY <3>1, JobIs DEF OfKind
    <3>3. v = w
      <4>1. SUFFICES ASSUME v # w PROVE FALSE
        OBVIOUS
      <4>2. v \in Busy /\ At(job[v])
        BY <1>3, <3>1, <4>1, GoIs
      <4> QED
        BY <3>2, <4>1, <4>2, RankerAlone
    <3>4. \A e \in Entry : [entry[e] EXCEPT !.rank = R[e]].rank = R[e]
      BY DEF Base, IsEntry
    <3> HIDE DEF R
    <3>5. ASSUME NEW x \in s PROVE x[2].rank = R[x[1]]
      <4>1. PICK e \in Entry : x = <<e, [entry[e] EXCEPT !.rank = R[e]]>>
        OBVIOUS
      <4> QED
        BY <3>4, <4>1
    <3>6. \A e \in Entry : \E x \in s : x[1] = e
      <4>1. ASSUME NEW e \in Entry PROVE \E x \in s : x[1] = e
        <5>1. <<e, [entry[e] EXCEPT !.rank = R[e]]>> \in s
          OBVIOUS
        <5> HIDE DEF s
        <5> QED
          BY <5>1
      <4> QED
        BY <4>1
    <3> HIDE DEF s
    <3>7. j.saves = s /\ j.seen = job[w].seen /\ j.rule = job[w].rule /\ j.at = "write"
      BY <3>2 DEF IsJob
    <3> HIDE DEF j
    <3>8. job'[w] = j
      BY <3>1, GoIs
    <3>9. job[w].seen = Results /\ Results' = Results
      BY <3>1, <3>2 DEF RankInv, Results
    <3>10. RankByRef(w)' = R
      BY <3>7, <3>8, RanksKept DEF R
    <3> QED
      BY <3>3, <3>5, <3>6, <3>7, <3>8, <3>9, <3>10
  <2>4. ASSUME NEW w \in Worker, SaveRank(w)
        PROVE  /\ job'[v].seen = Results'
               /\ job'[v].at = "write" =>
                    /\ \A x \in job'[v].saves : x[2].rank = RankByRef(v)'[x[1]]
                    /\ \A e \in Entry : HasRank(v, e)' \/ \E x \in job'[v].saves : x[1] = e
               /\ job'[v].at = "close" => \A e \in Entry : HasRank(v, e)'
    <3>1. PICK x \in job[w].saves :
            /\ x[1] \in Entry /\ entry' = [entry EXCEPT ![x[1]] = x[2]]
            /\ Go(w, IF job[w].saves = {x} THEN [job[w] EXCEPT !.at = "close", !.saves = {}]
                     ELSE [job[w] EXCEPT !.saves = @ \ {x}])
      BY <2>4, SaveRankIs
    <3> DEFINE j == IF job[w].saves = {x} THEN [job[w] EXCEPT !.at = "close", !.saves = {}]
                    ELSE [job[w] EXCEPT !.saves = @ \ {x}]
    <3>2. w \in Busy /\ IsJob(job[w]) /\ job[w].at = "write" /\ Ranks(job[w]) /\ UNCHANGED table
      BY <2>4, JobIs, AtIs DEF SaveRank
    <3>3. v = w
      <4>1. SUFFICES ASSUME v # w PROVE FALSE
        OBVIOUS
      <4>2. v \in Busy /\ At(job[v])
        BY <1>3, <3>1, <4>1, GoIs
      <4> QED
        BY <3>2, <4>1, <4>2, RankerAlone
    <3>4. /\ j.seen = job[w].seen /\ j.rule = job[w].rule /\ j.saves = job[w].saves \ {x}
          /\ j.at = "close" => job[w].saves = {x}
      BY <3>2 DEF IsJob
    <3>5. Go(w, j)
      BY <3>1
    <3> HIDE DEF j
    <3>6. job'[w] = j
      BY <3>5, GoIs
    <3>7. job[w].seen = Results /\ Results' = Results
      BY <3>2 DEF RankInv, Results
    <3>8. RankByRef(w)' = RankByRef(w)
      BY <3>4, <3>6, RanksKept
    <3>9. \A y \in job[w].saves : y[2].rank = RankByRef(w)[y[1]]
      BY <3>2 DEF RankInv
    <3>10. \A e \in Entry : HasRank(w, e) \/ \E y \in job[w].saves : y[1] = e
      BY <3>2 DEF RankInv
    <3>11. HasRank(w, x[1])'
      BY <3>1, <3>8, <3>9 DEF HasRank, Base
    <3>12. \A e \in Entry : e # x[1] /\ HasRank(w, e) => HasRank(w, e)'
      BY <3>1, <3>8 DEF HasRank, Base
    <3>13. \A e \in Entry : HasRank(w, e)' \/ \E y \in job[w].saves \ {x} : y[1] = e
      BY <3>10, <3>11, <3>12
    <3>14. job'[w].at = "close" => \A e \in Entry : HasRank(w, e)'
      BY <3>4, <3>6, <3>13
    <3> QED
      BY <3>3, <3>4, <3>6, <3>7, <3>8, <3>9, <3>13, <3>14
  <2>5. CASE RankAside \/ \E w \in Worker : SaveRank(w)
    BY <2>1, <2>4, <2>5
  <2>6. CASE \E w \in Worker : ReadResults(w) \/ ReadEntries(w)
    BY <2>2, <2>3, <2>6
  <2> QED
    BY <2>5, <2>6, NextRanking
<1> QED
  BY <1>1, <1>2, <1>3 DEF RankInv

LEMMA NextRuling ==
  ASSUME Base, [Next]_vars, ~Restart, ~\E w \in Worker : CloseStage(w)
  PROVE  ruling' = ruling /\ faults' = faults
<1>1. CASE UNCHANGED vars
  BY <1>1 DEF vars
<1>2. ASSUME NEW w \in Worker,
             \/ StartStage(w) \/ ListRound(w) \/ PairRound(w) \/ SaveResult(w)
             \/ \E row : CreateRow(w, row)
      PROVE  ruling' = ruling /\ faults' = faults
  BY <1>2 DEF StartStage, ListRound, PairRound, SaveResult, CreateRow
<1>3. ASSUME NEW w \in Worker,
             \/ CancelStage(w) \/ CompleteStage(w) \/ AdvanceStage(w)
             \/ \E r \in table, e \in Entry : Report(w, r, e) \/ Override(w, r, e)
             \/ \E e \in Entry : RetireEntry(w, e)
      PROVE  ruling' = ruling /\ faults' = faults
  BY <1>3 DEF CancelStage, CompleteStage, AdvanceStage, Report, Override, RetireEntry
<1>4. ASSUME NEW w \in Worker,
             \/ Activate(w) \/ ReadResults(w) \/ ReadEntries(w) \/ SaveRank(w)
             \/ SaveCancelled(w) \/ SaveRetired(w) \/ DrawField(w) \/ EnrollNext(w)
      PROVE  ruling' = ruling /\ faults' = faults
  BY <1>4 DEF Activate, ReadResults, ReadEntries, SaveRank, SaveCancelled, SaveRetired,
     DrawField, EnrollNext
<1> QED
  BY <1>1, <1>2, <1>3, <1>4, NextIs

LEMMA RankedNext ==
  ASSUME Base, Base', Frame, CompleteInv, OutCalls, RanksInv, [Next]_vars
  PROVE  RankedInv'
<1>1. RetireInv /\ RankInv /\ RankedInv /\ faults \in Nat
  BY DEF RanksInv, RankedInv
<1>2. Entry' = Entry
  BY FrameIs
<1>3. CASE Restart
  <2>1. faults' \in Nat /\ faults' # 0
    BY <1>1, <1>3 DEF Restart
  <2> QED
    BY <2>1 DEF RankedInv
<1>4. ASSUME NEW w \in Worker, CloseStage(w) PROVE RankedInv'
  <2>1. /\ Is(w, "close") /\ UNCHANGED <<entry, table, faults>>
        /\ ruling' = IF job[w].kind = "complete" THEN job[w].rule ELSE ruling
    BY <1>4 DEF CloseStage
  <2>2. w \in Busy /\ job[w].at = "close" /\ Ranks(job[w])
    BY <2>1, JobIs, AtIs
  <2>3. job[w].seen = Results /\ \A e \in Entry : entry[e].rank = RankByRef(w)[e]
    BY <1>1, <2>2 DEF RankInv, HasRank
  <2>4. \A e \in Entry : FinalRanks(Results)'[e] = FinalRanks(Results)[e]
    <3>1. Results' = Results
      BY <2>1 DEF Results
    <3>2. stage'.n = stage.n /\ stage'.groups = stage.groups
      BY DEF Frame
    <3> QED
      BY <3>1, <3>2 DEF FinalRanks, GroupEntries, Group, Entry
  <2>5. ASSUME NEW e \in Entry PROVE RightRank(e)'
    <3>1. entry'[e].rank = IF e \in DOMAIN job[w].rule THEN job[w].rule[e] ELSE FinalRanks(Results)[e]
      BY <2>1, <2>3 DEF RankByRef
    <3>2. CASE job[w].kind = "complete"
      BY <2>1, <2>4, <3>1, <3>2 DEF RightRank
    <3>3. CASE job[w].kind # "complete"
      <4>1. job[w].rule = <<>>
        BY <1>1, <2>2, <3>3 DEF RankInv, Ranks
      <4>2. e \notin DOMAIN job[w].rule
        BY <4>1
      <4> QED
        BY <2>4, <3>1, <4>2 DEF RightRank
    <3> QED
      BY <3>2, <3>3
  <2> QED
    BY <1>1, <1>2, <2>1, <2>5 DEF RankedInv
<1>5. CASE ~Restart /\ ~\E w \in Worker : CloseStage(w)
  <2>1. ruling' = ruling /\ faults' = faults
    BY <1>5, NextRuling
  <2>2. SUFFICES ASSUME faults' = 0, stage'.state = "complete", \A v \in Busy' : ~Ranks(job[v])',
                        NEW e \in Entry
                 PROVE  RightRank(e)'
    BY <1>1, <1>2, <2>1 DEF RankedInv
  <2>3. stage.state = "complete"
    <3>1. \A v \in Busy : ~CloseStage(v)
      BY <1>5 DEF Busy
    <3> QED
      BY <2>2, <3>1, NextState
  <2>4. ASSUME NEW v \in Busy PROVE ~Ranks(job[v])
    <3>1. SUFFICES ASSUME Ranks(job[v]) PROVE FALSE
      OBVIOUS
    <3>2. v \in Busy'
      BY <1>5, <3>1, RankerStays
    <3>3. CASE GoesOn
      BY <2>2, <3>1, <3>2, <3>3 DEF GoesOn, Ranks
    <3>4. ASSUME NEW w \in Worker, NEW j, Begun(w, j) PROVE FALSE
      <4>1. Go(w, j) /\ job[w] = Idle /\ v # w /\ v \in Worker
        BY <3>4, StartIs DEF Begun, Busy
      <4>2. job'[v] = job[v]
        BY <4>1, GoIs
      <4> QED
        BY <2>2, <3>1, <3>2, <4>2 DEF Ranks
    <3> QED
      BY <3>3, <3>4, NextCalls
  <2>5. \A v \in Busy : job[v].at \notin {"save", "create"}
    BY <2>3, <2>4, AtIs DEF CompleteInv
  <2>6. Results' = Results
    BY <2>5, TableStill
  <2>7. FinalRanks(Results)'[e] = FinalRanks(Results)[e]
    <3>1. stage'.n = stage.n /\ stage'.groups = stage.groups
      BY DEF Frame
    <3> QED
      BY <2>6, <3>1 DEF FinalRanks, GroupEntries, Group, Entry
  <2>8. entry'[e].rank = entry[e].rank
    <3>1. ASSUME NEW w \in Worker, SaveRank(w) PROVE FALSE
      <4>1. w \in Busy /\ job[w].at = "write"
        BY <3>1, JobIs DEF SaveRank
      <4> QED
        BY <2>4, <4>1, AtIs
    <3>2. ASSUME NEW w \in Worker, SaveRetired(w) PROVE entry'[e].rank = entry[e].rank
      <4> DEFINE f == job[w].entry[1]
      <4>1. w \in Busy /\ job[w].kind = "retire" /\ f \in Entry /\ IsEntry(job[w].entry[2])
        BY <3>2, RetirerIs, AtIs
      <4>2. entry' = [entry EXCEPT ![f] = [job[w].entry[2] EXCEPT !.status = "dropped"]]
        BY <3>2 DEF SaveRetired
      <4>3. job[w].entry[2].rank = entry[f].rank
        BY <1>1, <4>1 DEF RetireInv
      <4>4. [job[w].entry[2] EXCEPT !.status = "dropped"].rank = entry[f].rank
        BY <4>1, <4>3 DEF IsEntry
      <4> QED
        BY <4>1, <4>2, <4>4 DEF Base
    <3> QED
      BY <3>1, <3>2, NextEntry
  <2>9. RightRank(e)
    BY <1>1, <2>1, <2>2, <2>3, <2>4 DEF RankedInv
  <2> QED
    BY <2>1, <2>7, <2>8, <2>9 DEF RightRank
<1> QED
  BY <1>3, <1>4, <1>5

(* The stage's ranks: the inductive invariant is that of the entries that  *)
(* retire, that nothing is recorded while the stage is ranked, and what    *)
(* each call has read and is about to save.                                *)
StageInv == Base /\ CompleteInv /\ OutInv /\ RanksInv

LEMMA StageInductive ==
  ASSUME Apart
  PROVE  /\ Sound /\ Init => StageInv
         /\ StageInv /\ [Next]_vars => StageInv'
<1>1. {"state", "result"} \cap Overlaps = {} /\ "retire" \notin Overlaps
  BY DEF Apart
<1>2. ASSUME Sound, Init PROVE StageInv
  <2>1. RetireInv /\ RankInv /\ RankedInv
    BY <1>2 DEF Init, RetireInv, RankInv, RankedInv, Busy
  <2> QED
    BY <1>2, <2>1, BaseInit, CompleteInit, OutInit DEF StageInv, RanksInv
<1>3. ASSUME StageInv, [Next]_vars PROVE StageInv'
  <2>1. Base /\ CompleteInv /\ OutInv /\ OutCalls /\ RanksInv /\ RetireInv /\ RankInv
    BY <1>3 DEF StageInv, OutInv, RanksInv
  <2>2. Base' /\ Frame
    BY <1>3, <2>1, BaseNext
  <2>3. CompleteInv' /\ OutInv'
    BY <1>1, <1>3, <2>1, CompleteNext, OutNext
  <2>4. RetireInv' /\ RankInv' /\ RankedInv'
    BY <1>1, <1>3, <2>1, <2>2, RetireNext, RankNext, RankedNext
  <2> QED
    BY <2>2, <2>3, <2>4 DEF StageInv, RanksInv
<1> QED
  BY <1>2, <1>3

-----------------------------------------------------------------------------
(* The next round is paired without anybody's asking.                      *)

(* Calls that change the stage's state. *)
Rules(j) == j.kind \in {"start", "cancel"} \/ Ranks(j)

(* They come one at a time; a stage is started from a draft, in which no   *)
(* result is recorded, and the results of an active one are recorded by    *)
(* calls that found it active.                                             *)
StateInv ==
  /\ \A w, v \in Busy : Rules(job[w]) /\ Rules(job[v]) => w = v
  /\ \A w \in Busy : job[w].kind = "start" => stage.state = "draft"
  /\ stage.state = "draft" =>
       /\ \A r \in table : r.two # None => r.open
       /\ \A w \in Busy : ~Scores(job[w])
  /\ stage.state = "active" => \A w \in Busy : Scores(job[w]) => job[w].was = "active"

(* What is left to create of a round: one bye at most, a match for every   *)
(* entry before the first row, and no key that is taken after it.          *)
TodoOk(j) ==
  /\ \A r \in j.todo : r.open <=> r.two # None
  /\ \A r, q \in j.todo : r.two = None /\ q.two = None => r = q
  /\ j.made = 0 => \A e \in Active : \E r \in j.todo : e \in Meeting(r)
  /\ j.made > 0 => \A r \in j.todo, q \in table : q.round = r.round => q.position <= j.made

TodoInv == \A w \in Busy : job[w].at = "create" => TodoOk(job[w])

(* A stage does not start without an open match. *)
StartInv ==
  \A w \in Busy : job[w].kind = "start" =>
    Open # {} \/ (job[w].at = "create" /\ \E r \in job[w].todo : r.two # None)

(* The last round was the last, or could not be followed by another. *)
Over ==
  \/ LastRound(table) >= TargetRounds(Cardinality(Active))
  \/ \E A \in SUBSET {e \in Entry : left[e] = LastRound(table)} :
       NextRound(table, Active \cup A) = {}

(* A call that is going to see to the next round. *)
Follows(j) ==
  \/ j.at = "list"
  \/ /\ j.at = "pair" /\ Fresh(LastRound(j.seen) + 1)
     /\ \A r \in table : \E q \in j.seen : Same(r, q)
     /\ \A q \in j.seen : \E r \in table : Same(r, q)
  \/ /\ j.at = "create"
     /\ IF j.made = 0 THEN \A r \in j.todo : Fresh(r.round) ELSE \E r \in j.todo : r.two # None

Followed == Over \/ \E w \in Busy : Follows(job[w])

PairedInv ==
  faults = 0 /\ stage.state = "active" /\ Open = {} => Followed

(* A pairing leaves nobody out, and gives one bye at most. *)
LEMMA PairRowOpen ==
  ASSUME NEW n \in Nat, NEW a \in Entry, NEW b \in Entry, a <= b
  PROVE  LET r == PairRow(n, {a, b})
         IN  (r.open <=> r.two # None) /\ (r.two = None <=> a = b)
<1> DEFINE S == {a, b}
           r == PairRow(n, S)
           two == IF S = {Min(S)} THEN None ELSE Max(S)
<1>1. a \in Nat /\ b \in Nat /\ a # None /\ b # None
  BY NoneAssumption DEF Entry
<1>2. Min(S) \in S
  <2>1. \E x \in S : \A y \in S : x =< y
    BY <1>1
  <2> QED
    BY <2>1 DEF Min
<1>3. Max(S) \in S
  <2>1. \E x \in S : \A y \in S : x >= y
    BY <1>1
  <2> QED
    BY <2>1 DEF Max
<1>4. r.two = two /\ (r.open <=> two # None)
  BY DEF PairRow, Row
<1>5. S = {Min(S)} <=> a = b
  BY <1>2
<1>6. two = None <=> S = {Min(S)}
  BY <1>1, <1>3
<1> QED
  BY <1>4, <1>5, <1>6

LEMMA NextRoundFull ==
  ASSUME stage.n \in Nat, NEW seen, NEW players, players \subseteq Entry,
         NEW n \in Nat, LastRound(seen) = n,
         NEW rows \in NextRound(seen, players)
  PROVE  /\ \A r \in rows : r.open <=> r.two # None
         /\ \A r, q \in rows : r.two = None /\ q.two = None => r = q
         /\ \A e \in players : \E r \in rows : e \in Meeting(r)
<1>1. players \subseteq Nat /\ IsFiniteSet(players)
  <2>1. IsFiniteSet(1..stage.n)
    BY FS_Interval
  <2>2. players \in SUBSET (1..stage.n) /\ players \subseteq Nat
    BY DEF Entry
  <2> QED
    BY <2>1, <2>2, FS_Subset
<1>2. PICK P \in Pairings(players, Met(seen)) : rows = {PairRow(n + 1, S) : S \in P}
  BY DEF NextRound
<1>3. /\ P \subseteq {S \in SUBSET players : Cardinality(S) \in {1, 2}}
      /\ \A e \in players : Cardinality({S \in P : e \in S}) = 1
      /\ Cardinality({S \in P : Cardinality(S) = 1}) = Cardinality(players) % 2
  BY <1>2 DEF Pairings
<1>4. IsFiniteSet(P)
  <2>1. IsFiniteSet(SUBSET players)
    BY <1>1, FS_SUBSET
  <2>2. P \in SUBSET SUBSET players
    BY <1>3
  <2> QED
    BY <2>1, <2>2, FS_Subset
<1>5. ASSUME NEW S \in P
      PROVE  LET r == PairRow(n + 1, S)
             IN  /\ Meeting(r) = S /\ (r.open <=> r.two # None)
                 /\ r.two = None => Cardinality(S) = 1
  <2>0. S \in SUBSET players /\ Cardinality(S) \in {1, 2}
    BY <1>3
  <2>1. PICK a, b \in S : S = {a, b} /\ a <= b
    BY <1>1, <2>0, FewIs
  <2>2. a \in Entry /\ b \in Entry
    BY <1>3
  <2>3. /\ Meeting(PairRow(n + 1, S)) = S
        /\ PairRow(n + 1, S).open <=> PairRow(n + 1, S).two # None
        /\ PairRow(n + 1, S).two = None <=> a = b
    BY <2>1, <2>2, PairRowIs, PairRowOpen
  <2>4. a = b => Cardinality(S) = 1
    BY <2>1, FS_Singleton
  <2> QED
    BY <2>3, <2>4
<1>6. \A r \in rows : \E S \in P : r = PairRow(n + 1, S)
  BY <1>2
<1>7. ASSUME NEW S \in P, NEW T \in P, Cardinality(S) = 1, Cardinality(T) = 1 PROVE S = T
  <2> DEFINE B == {U \in P : Cardinality(U) = 1}
  <2>1. IsFiniteSet(B) /\ B # {}
    BY <1>4, <1>7, FS_Subset
  <2>2. Cardinality(players) \in Nat
    BY <1>1, FS_CardinalityType
  <2>3. Cardinality(B) \in {0, 1}
    BY <1>3, <2>2
  <2>4. Cardinality(B) = 1
    BY <2>1, <2>3, FS_EmptySet
  <2>5. PICK U : B = {U}
    BY <2>1, <2>4, FS_Singleton
  <2> QED
    BY <1>7, <2>5
<1>8. ASSUME NEW e \in players PROVE \E r \in rows : e \in Meeting(r)
  <2>1. IsFiniteSet({S \in P : e \in S})
    BY <1>4, FS_Subset
  <2>2. PICK S : {T \in P : e \in T} = {S}
    BY <1>3, <2>1, FS_Singleton
  <2>3. S \in P /\ e \in S
    BY <2>2
  <2>4. PairRow(n + 1, S) \in rows
    BY <1>2, <2>3
  <2> QED
    BY <1>5, <2>3, <2>4
<1>9. ASSUME NEW r \in rows, NEW q \in rows, r.two = None, q.two = None PROVE r = q
  <2>1. PICK S \in P : r = PairRow(n + 1, S)
    BY <1>6
  <2>2. PICK T \in P : q = PairRow(n + 1, T)
    BY <1>6
  <2>3. Cardinality(S) = 1 /\ Cardinality(T) = 1
    BY <1>5, <1>9, <2>1, <2>2
  <2> QED
    BY <1>7, <2>1, <2>2, <2>3
<1>10. \A r \in rows : r.open <=> r.two # None
  BY <1>5, <1>6
<1> QED
  BY <1>8, <1>9, <1>10

(* Meetings rule pairings out. *)
LEMMA NoneToPair ==
  ASSUME NEW rows, NEW players
  PROVE  NextRound(rows, players) = {} <=> Pairings(players, Met(rows)) = {}
BY DEF NextRound

LEMMA FewerPairings ==
  ASSUME NEW players, NEW met, NEW more, met \subseteq more, Pairings(players, met) = {}
  PROVE  Pairings(players, more) = {}
BY DEF Pairings

LEMMA AllMet ==
  ASSUME NEW players, NEW met, \A S \in SUBSET players : Cardinality(S) \in {1, 2} => S \in met
  PROVE  Pairings(players, met) = {}
BY DEF Pairings

(* A smaller field does not need more rounds. *)
LEMMA FewerRounds ==
  ASSUME stage.n \in Fields, NEW m \in Nat, NEW n \in Nat, m <= n
  PROVE  TargetRounds(m) \in Nat /\ TargetRounds(n) \in Nat /\ TargetRounds(m) <= TargetRounds(n)
<1>0. SwissRounds[stage.n] \in Nat
  BY BoundAssumption
<1>1. CASE SwissRounds[stage.n] # 0
  BY <1>0, <1>1 DEF TargetRounds
<1>2. CASE SwissRounds[stage.n] = 0
  <2> DEFINE Less(i) == {k \in 0..i : 2^k < i}
  <2>1. Less(m) \subseteq Less(n)
    OBVIOUS
  <2>2. IsFiniteSet(Less(n))
    <3>1. IsFiniteSet(0..n)
      BY FS_Interval
    <3> QED
      BY <3>1, FS_Subset
  <2>3. /\ Cardinality(Less(m)) \in Nat /\ Cardinality(Less(n)) \in Nat
        /\ Cardinality(Less(m)) <= Cardinality(Less(n))
    <3> HIDE DEF Less
    <3>1. IsFiniteSet(Less(m)) /\ Cardinality(Less(m)) <= Cardinality(Less(n))
      BY <2>1, <2>2, FS_Subset
    <3> QED
      BY <2>2, <3>1, FS_CardinalityType
  <2>4. TargetRounds(m) = Max({1, Cardinality(Less(m))}) /\ TargetRounds(n) = Max({1, Cardinality(Less(n))})
    BY <1>2 DEF TargetRounds
  <2>5. ASSUME NEW i \in Nat PROVE Max({1, i}) \in {1, i} /\ Max({1, i}) >= 1 /\ Max({1, i}) >= i
    <3>1. \E x \in {1, i} : \A y \in {1, i} : x >= y
      OBVIOUS
    <3>2. Max({1, i}) \in {1, i} /\ \A y \in {1, i} : Max({1, i}) >= y
      BY <3>1 DEF Max
    <3> QED
      BY <3>2
  <2> HIDE DEF Less
  <2>6. ASSUME NEW x \in Nat, NEW y \in Nat, x <= y PROVE Max({1, x}) \in Nat /\ Max({1, y}) \in Nat /\ Max({1, x}) <= Max({1, y})
    <3>1. Max({1, x}) \in {1, x} /\ Max({1, y}) \in {1, y} /\ Max({1, y}) >= 1 /\ Max({1, y}) >= y
      BY <2>5
    <3> QED
      BY <2>6, <3>1
  <2> QED
    BY <2>3, <2>4, <2>6
<1> QED
  BY <1>1, <1>2

(* A step leaves the calls that list, pair or create alone. *)
Untouched ==
  \A v \in Busy : job[v].at \in {"list", "pair", "create"} => v \in Busy' /\ job'[v] = job[v]

LEMMA UntouchedGo ==
  ASSUME Base, NEW w \in Worker, NEW j, Go(w, j),
         job[w] = Idle \/ job[w].at \notin {"list", "pair", "create"}
  PROVE  Untouched
<1>1. ASSUME NEW v \in Busy, job[v].at \in {"list", "pair", "create"}
      PROVE  v \in Busy' /\ job'[v] = job[v]
  <2>1. v # w /\ v \in Worker
    BY <1>1 DEF Busy
  <2> QED
    BY <2>1, GoIs
<1> QED
  BY <1>1 DEF Untouched

LEMMA UntouchedNext ==
  ASSUME Base, Base', [Next]_vars
  PROVE  \/ Restart
         \/ Untouched /\ Aside
         \/ \E w \in Worker : StartStage(w) /\ Untouched
         \/ \E w \in Worker : \/ ListRound(w) \/ PairRound(w) \/ SaveResult(w)
                              \/ \E row : CreateRow(w, row)
<1>1. CASE UNCHANGED vars
  BY <1>1 DEF vars, Aside, Untouched, Busy
<1>2. ASSUME NEW w \in Worker,
             \/ StartStage(w) \/ CancelStage(w) \/ CompleteStage(w) \/ AdvanceStage(w)
             \/ \E r \in table, e \in Entry : Report(w, r, e) \/ Override(w, r, e)
             \/ \E e \in Entry : RetireEntry(w, e)
      PROVE  Untouched
  <2>1. \E j : Go(w, j) /\ job[w] = Idle
    BY <1>2, BegunIs, StartIs DEF Begun
  <2> QED
    BY <2>1, UntouchedGo
<1>3. ASSUME NEW w \in Worker, NEW at, Is(w, at), at \notin {"list", "pair", "create"}, NEW j, Go(w, j)
      PROVE  Untouched
  BY <1>3, JobIs, UntouchedGo
<1>4. ASSUME NEW w \in Worker,
             Activate(w) \/ CloseStage(w) \/ SaveCancelled(w) \/ SaveRetired(w) \/ ReadResults(w)
      PROVE  Untouched
  BY <1>3, <1>4 DEF Activate, CloseStage, SaveCancelled, SaveRetired, ReadResults, Done
<1>5. ASSUME NEW w \in Worker, ReadEntries(w) PROVE Untouched
  BY <1>3, <1>5 DEF ReadEntries
<1>6. ASSUME NEW w \in Worker, SaveRank(w) PROVE Untouched
  <2>1. Is(w, "write") /\ \E j : Go(w, j)
    BY <1>6, SaveRankIs DEF SaveRank
  <2> QED
    BY <1>3, <2>1
<1>7. ASSUME NEW w \in Worker, DrawField(w) PROVE Untouched
  <2>1. Is(w, "draw") /\ \E j : Go(w, j)
    BY <1>7 DEF DrawField, Done
  <2> QED
    BY <1>3, <2>1
<1>8. ASSUME NEW w \in Worker, EnrollNext(w) PROVE Untouched
  <2>1. Is(w, "enroll") /\ \E j : Go(w, j)
    BY <1>8 DEF EnrollNext, Done
  <2> QED
    BY <1>3, <2>1
<1> QED
  BY <1>1, <1>2, <1>4, <1>5, <1>6, <1>7, <1>8, NextIs, AsideStart, AsideStep

LEMMA NextStage ==
  ASSUME Base, [Next]_vars
  PROVE  \/ stage' = stage
         \/ \E w \in Worker : Activate(w) \/ SaveCancelled(w) \/ CloseStage(w)
<1>1. CASE UNCHANGED vars \/ Restart
  BY <1>1 DEF vars, Restart
<1>2. ASSUME NEW w \in Worker,
             \/ StartStage(w) \/ ListRound(w) \/ PairRound(w) \/ SaveResult(w)
             \/ \E row : CreateRow(w, row)
      PROVE  stage' = stage
  BY <1>2 DEF StartStage, ListRound, PairRound, SaveResult, CreateRow
<1>3. ASSUME NEW w \in Worker,
             \/ CancelStage(w) \/ CompleteStage(w) \/ AdvanceStage(w)
             \/ \E r \in table, e \in Entry : Report(w, r, e) \/ Override(w, r, e)
             \/ \E e \in Entry : RetireEntry(w, e)
      PROVE  stage' = stage
  BY <1>3 DEF CancelStage, CompleteStage, AdvanceStage, Report, Override, RetireEntry
<1>4. ASSUME NEW w \in Worker,
             \/ ReadResults(w) \/ ReadEntries(w) \/ SaveRank(w)
             \/ SaveRetired(w) \/ DrawField(w) \/ EnrollNext(w)
      PROVE  stage' = stage
  BY <1>4 DEF ReadResults, ReadEntries, SaveRank, SaveRetired, DrawField, EnrollNext
<1> QED
  BY <1>1, <1>2, <1>3, <1>4, NextIs

(* Nobody who retired comes back. *)
LEMMA ActiveNext ==
  ASSUME Base, OutCalls, OutStatus, Frame, [Next]_vars
  PROVE  /\ Active' \subseteq Active
         /\ (~\E u \in Worker : SaveRetired(u)) => Active' = Active /\ left' = left
<1>1. Entry' = Entry
  BY FrameIs
<1>2. CASE UNCHANGED <<entry, left>>
  BY <1>1, <1>2 DEF Active
<1>3. ASSUME NEW w \in Worker, SaveRank(w), UNCHANGED left PROVE Active' = Active /\ left' = left
  <2>1. PICK x \in job[w].saves : x[1] \in Entry /\ entry' = [entry EXCEPT ![x[1]] = x[2]]
    BY <1>3, SaveRankIs
  <2>2. w \in Busy /\ job[w].at = "write"
    BY <1>3, JobIs DEF SaveRank
  <2>3. x[2].status = entry[x[1]].status
    BY <2>1, <2>2 DEF OutStatus
  <2>4. \A e \in Entry : entry'[e].status = entry[e].status
    BY <2>1, <2>3 DEF Base
  <2> QED
    BY <1>1, <1>3, <2>4 DEF Active
<1>4. ASSUME NEW w \in Worker, SaveRetired(w) PROVE Active' \subseteq Active
  <2> DEFINE f == job[w].entry[1]
  <2>1. f \in Entry /\ IsEntry(job[w].entry[2])
    BY <1>4, RetirerIs
  <2>2. entry' = [entry EXCEPT ![f] = [job[w].entry[2] EXCEPT !.status = "dropped"]]
    BY <1>4 DEF SaveRetired
  <2>3. entry'[f].status = "dropped"
    BY <2>1, <2>2 DEF IsEntry, Base
  <2>4. \A e \in Entry : e # f => entry'[e] = entry[e]
    BY <2>2 DEF Base
  <2> QED
    BY <1>1, <2>3, <2>4 DEF Active
<1> QED
  BY <1>2, <1>3, <1>4, NextEntry

(* Who starts, cancels or ranks the stage is alone with that. *)
LEMMA RulersAlone ==
  ASSUME "state" \notin Overlaps, NEW w, NEW j, Start(w, j), NEW v \in Busy
  PROVE  ~(Rules(j) /\ Rules(job[v]))
<1>1. ~Conflict(j, job[v])["state"]
  <2>1. "state" \in ConflictKind
    BY DEF ConflictKind
  <2> QED
    BY <2>1, TogetherIs
<1> QED
  BY <1>1 DEF Conflict, Rules

LEMMA SoleNext ==
  ASSUME Base, Base', "state" \notin Overlaps, [Next]_vars,
         \A w, v \in Busy : Rules(job[w]) /\ Rules(job[v]) => w = v
  PROVE  \A w, v \in Busy' : Rules(job'[w]) /\ Rules(job'[v]) => w = v
<1>1. CASE \E w \in Worker : \E j : Begun(w, j)
  <2>0. PICK w \in Worker : \E j : Begun(w, j)
    BY <1>1
  <2>1. PICK j : Begun(w, j)
    BY <2>0
  <2>2. Start(w, j)
    BY <2>1 DEF Begun
  <2>3. /\ job'[w] = j /\ Busy' \subseteq Worker
        /\ \A v \in Worker : v # w => job'[v] = job[v] /\ (v \in Busy' <=> v \in Busy)
    BY <2>2, StartIs, GoIs
  <2>4. \A v \in Busy' : v # w => v \in Busy /\ job'[v] = job[v]
    BY <2>3
  <2>5. \A v \in Busy : ~(Rules(j) /\ Rules(job[v]))
    BY <2>2, RulersAlone
  <2> QED
    BY <2>3, <2>4, <2>5
<1>2. CASE GoesOn
  <2>1. \A v \in Busy' : v \in Busy /\ (Rules(job'[v]) <=> Rules(job[v]))
    BY <1>2 DEF GoesOn, Rules, Ranks
  <2> QED
    BY <2>1
<1> QED
  BY <1>1, <1>2, NextCalls

(* Whose step changes the stage's state, and from what. *)
LEMMA RulerIs ==
  ASSUME Base, StateInv, NEW w \in Worker, Activate(w) \/ SaveCancelled(w) \/ CloseStage(w)
  PROVE  /\ w \in Busy /\ Rules(job[w]) /\ Go(w, Idle)
         /\ Activate(w) => stage.state = "draft" /\ stage'.state = "active"
                             /\ job[w].kind = "start" /\ job[w].at = "activate" /\ UNCHANGED table
         /\ ~Activate(w) => stage'.state \in {"cancelled", "complete"}
<1>1. Is(w, "activate") \/ Is(w, "cancel") \/ Is(w, "close")
  BY DEF Activate, SaveCancelled, CloseStage
<1>2. w \in Busy /\ job[w].at \in {"activate", "cancel", "close"} /\ OfKind(job[w])
  BY <1>1, JobIs
<1>3. Rules(job[w])
  BY <1>2 DEF OfKind, Rules
<1>4. Go(w, Idle)
  BY DEF Activate, SaveCancelled, CloseStage, Done
<1>5. ASSUME Activate(w) PROVE stage.state = "draft" /\ stage'.state = "active"
                                 /\ job[w].kind = "start" /\ job[w].at = "activate" /\ UNCHANGED table
  <2>1. Is(w, "activate") /\ stage' = [stage EXCEPT !.state = "active"] /\ UNCHANGED table
    BY <1>5 DEF Activate
  <2>2. job[w].at = "activate" /\ job[w].kind = "start"
    BY <1>2, <2>1 DEF Is, OfKind
  <2> QED
    BY <1>2, <2>1, <2>2 DEF StateInv, Base
<1>6. ASSUME ~Activate(w) PROVE stage'.state \in {"cancelled", "complete"}
  BY <1>6 DEF SaveCancelled, CloseStage, Base
<1> QED
  BY <1>2, <1>3, <1>4, <1>5, <1>6

LEMMA DraftNext ==
  ASSUME Base, Base', StateInv, [Next]_vars
  PROVE  /\ stage'.state = "draft" => stage.state = "draft"
         /\ stage'.state = "active" => stage.state = "active" \/ \E w \in Worker : Activate(w)
         /\ \A v \in Busy' : job'[v].kind = "start" => stage'.state = "draft"
<1>1. /\ stage'.state = "draft" => stage.state = "draft"
      /\ stage'.state = "active" => stage.state = "active" \/ \E w \in Worker : Activate(w)
  BY NextStage, RulerIs
<1>2. ASSUME NEW v \in Busy', job'[v].kind = "start" PROVE stage'.state = "draft"
  <2>1. CASE \E w \in Worker : \E j : Begun(w, j)
    <3>0. PICK w \in Worker : \E j : Begun(w, j)
      BY <2>1
    <3>1. PICK j : Begun(w, j)
      BY <3>0
    <3>2. Go(w, j) /\ stage' = stage
      BY <3>1, StartIs DEF Begun
    <3>3. CASE v = w
      BY <1>2, <3>1, <3>2, <3>3, GoIs DEF Begun
    <3>4. CASE v # w
      BY <1>2, <3>2, <3>4, GoIs DEF StateInv
    <3> QED
      BY <3>3, <3>4
  <2>2. CASE GoesOn
    <3>1. v \in Busy /\ job[v].kind = "start" /\ Rules(job[v]) /\ stage.state = "draft"
      BY <1>2, <2>2 DEF GoesOn, Rules, StateInv
    <3>2. ASSUME NEW w \in Worker, Activate(w) \/ SaveCancelled(w) \/ CloseStage(w) PROVE FALSE
      <4>1. w \in Busy /\ Rules(job[w]) /\ Go(w, Idle)
        BY <3>2, RulerIs
      <4>2. v = w
        BY <3>1, <4>1 DEF StateInv
      <4> QED
        BY <4>1, <4>2, GoIs
    <3> QED
      BY <3>1, <3>2, NextStage
  <2> QED
    BY <2>1, <2>2, NextCalls
<1> QED
  BY <1>1, <1>2

LEMMA DraftRows ==
  ASSUME Base, Base', StateInv, TodoInv, [Next]_vars, stage.state = "draft"
  PROVE  /\ \A r \in table' : r.two # None => r.open
         /\ \A v \in Busy' : ~Scores(job'[v])
<1>1. (\A r \in table : r.two # None => r.open) /\ \A v \in Busy : ~Scores(job[v])
  BY DEF StateInv
<1>2. \A r \in table' : r.two # None => r.open
  <2>1. CASE UNCHANGED table
    BY <1>1, <2>1
  <2>2. ASSUME NEW w \in Worker, SaveResult(w) PROVE FALSE
    <3>1. Is(w, "save")
      BY <2>2 DEF SaveResult
    <3>2. w \in Busy /\ Scores(job[w])
      BY <3>1, JobIs DEF OfKind
    <3> QED
      BY <1>1, <3>2
  <2>3. ASSUME NEW w \in Worker, NEW row, CreateRow(w, row)
        PROVE  \A r \in table' : r.two # None => r.open
    <3>1. Is(w, "create") /\ row \in job[w].todo
      BY <2>3 DEF CreateRow
    <3>2. w \in Busy /\ job[w].at = "create" /\ row \in Rows
      BY <3>1, JobIs DEF IsJob
    <3>3. row.open <=> row.two # None
      BY <3>1, <3>2 DEF TodoInv, TodoOk
    <3>4. Placed(w, row).open = row.open /\ Placed(w, row).two = row.two
      BY <3>2 DEF Placed, Rows
    <3>5. UNCHANGED table \/ table' = table \cup {Placed(w, row)}
      BY <2>3 DEF CreateRow
    <3> QED
      BY <1>1, <3>3, <3>4, <3>5
  <2>4. ASSUME NEW w \in Worker, StartStage(w) \/ ListRound(w) \/ PairRound(w) PROVE UNCHANGED table
    BY <2>4 DEF StartStage, ListRound, PairRound
  <2>5. Aside => UNCHANGED table
    BY DEF Aside
  <2> QED
    BY <2>1, <2>2, <2>3, <2>4, <2>5, NextRows
<1>3. \A v \in Busy' : ~Scores(job'[v])
  <2>1. CASE \E w \in Worker : \E j : Begun(w, j)
    <3>0. PICK w \in Worker : \E j : Begun(w, j)
      BY <2>1
    <3>1. PICK j : Begun(w, j)
      BY <3>0
    <3>2. Go(w, j)
      BY <3>1, StartIs DEF Begun
    <3>3. ~Scores(j)
      <4>1. j.kind # "report"
        BY <3>1 DEF Begun
      <4>2. j.kind # "override"
        BY <1>1, <3>1 DEF Begun, Results
      <4> QED
        BY <4>1, <4>2 DEF Scores
    <3> QED
      BY <1>1, <3>2, <3>3, GoIs
  <2>2. CASE GoesOn
    BY <1>1, <2>2 DEF GoesOn, Scores
  <2> QED
    BY <2>1, <2>2, NextCalls
<1> QED
  BY <1>2, <1>3

LEMMA StateNext ==
  ASSUME Base, Base', StateInv, TodoInv, "state" \notin Overlaps, [Next]_vars
  PROVE  StateInv'
<1>1. \A w, v \in Busy' : Rules(job'[w]) /\ Rules(job'[v]) => w = v
  BY SoleNext DEF StateInv
<1>2. ASSUME stage'.state = "active", NEW v \in Busy', Scores(job'[v]) PROVE job'[v].was = "active"
  <2>1. CASE stage.state = "active" /\ \E w \in Worker : \E j : Begun(w, j)
    <3>0. PICK w \in Worker : \E j : Begun(w, j)
      BY <2>1
    <3>1. PICK j : Begun(w, j)
      BY <3>0
    <3>2. Go(w, j) /\ j.was = "active"
      BY <2>1, <3>1, StartIs DEF Begun
    <3>3. CASE v = w
      BY <3>2, <3>3, GoIs
    <3>4. CASE v # w
      BY <1>2, <2>1, <3>2, <3>4, GoIs DEF StateInv
    <3> QED
      BY <3>3, <3>4
  <2>2. CASE stage.state = "active" /\ GoesOn
    BY <1>2, <2>2 DEF GoesOn, Scores, StateInv
  <2>3. ASSUME NEW w \in Worker, Activate(w) PROVE FALSE
    <3>1. Go(w, Idle) /\ stage.state = "draft"
      BY <2>3, RulerIs
    <3>2. v \in Busy /\ job'[v] = job[v]
      BY <3>1, GoIs
    <3> QED
      BY <1>2, <3>1, <3>2 DEF StateInv
  <2> QED
    BY <1>2, <2>1, <2>2, <2>3, DraftNext, NextCalls
<1>3. stage'.state = "draft" =>
        /\ \A r \in table' : r.two # None => r.open
        /\ \A w \in Busy' : ~Scores(job'[w])
  BY DraftNext, DraftRows
<1> QED
  BY <1>1, <1>2, <1>3, DraftNext DEF StateInv, Rules, Ranks, Scores

LEMMA TodoKept ==
  ASSUME NEW v \in Worker, job'[v] = job[v], TodoOk(job[v]), Active' \subseteq Active,
         job[v].made > 0 =>
           \A q \in table' : \E p \in table : p.round = q.round /\ p.position = q.position
  PROVE  TodoOk(job[v])'
<1>1. \A r, q \in job[v].todo : r.two = None /\ q.two = None => r = q
  BY DEF TodoOk
<1>2. ASSUME job[v].made = 0 PROVE \A e \in Active' : \E r \in job[v].todo : e \in Meeting(r)
  BY <1>2 DEF TodoOk
<1>3. ASSUME job[v].made > 0, NEW r \in job[v].todo, NEW q \in table', q.round = r.round
      PROVE  q.position <= job[v].made
  <2>1. PICK p \in table : p.round = q.round /\ p.position = q.position
    BY <1>3
  <2>2. p.position <= job[v].made
    BY <1>3, <2>1 DEF TodoOk
  <2> QED
    BY <2>1, <2>2
<1>4. \A r \in job[v].todo : r.open <=> r.two # None
  BY DEF TodoOk
<1> QED
  BY <1>1, <1>2, <1>3, <1>4 DEF TodoOk, Meeting

(* A step of one call that creates nothing. *)
LEMMA TodoGo ==
  ASSUME Base, TodoInv, Active' \subseteq Active, NEW w \in Worker, NEW j, Go(w, j),
         \A q \in table' : \E p \in table : p.round = q.round /\ p.position = q.position,
         j # Idle /\ j.at = "create" => TodoOk(job[w])'
  PROVE  TodoInv'
<1>1. ASSUME NEW v \in Busy', job'[v].at = "create" PROVE TodoOk(job[v])'
  <2>1. CASE v = w
    BY <1>1, <2>1, GoIs
  <2>2. CASE v # w
    <3>1. v \in Worker /\ v \in Busy /\ job'[v] = job[v]
      BY <2>2, GoIs
    <3>2. TodoOk(job[v])
      BY <1>1, <3>1 DEF TodoInv
    <3> QED
      BY <3>1, <3>2, TodoKept
  <2> QED
    BY <2>1, <2>2
<1> QED
  BY <1>1 DEF TodoInv

(* A round just paired. *)
LEMMA TodoPaired ==
  ASSUME Base, NEW w \in Worker, NEW seen, LastRound(seen) \in Nat,
         NEW rows \in NextRound(seen, Active),
         NEW j, job'[w] = j, j.todo = rows, j.made = 0, Active' \subseteq Active
  PROVE  TodoOk(job[w])'
<1>1. PICK n \in Nat : n = LastRound(seen)
  OBVIOUS
<1>2. stage.n \in Nat /\ Active \subseteq Entry
  BY FieldSize DEF Active
<1>3. /\ \A r \in rows : r.open <=> r.two # None
      /\ \A r, q \in rows : r.two = None /\ q.two = None => r = q
      /\ \A e \in Active : \E r \in rows : e \in Meeting(r)
  BY <1>1, <1>2, NextRoundFull
<1>4. \A e \in Active' : \E r \in rows : e \in Meeting(r)
  BY <1>3
<1>5. ~(0 > 0)
  OBVIOUS
<1> QED
  BY <1>3, <1>4, <1>5 DEF TodoOk, Meeting

(* While one call is halfway through a round, nobody else creates a row. *)
LEMMA OneHalfway ==
  ASSUME Base, RoundsInv, CallsInv, NEW w \in Worker, NEW row, CreateRow(w, row),
         ~\E r \in table : Key(r) = Key(Placed(w, row)),
         NEW v \in Busy, v # w, job[v].at = "create"
  PROVE  job[v].made = 0
<1>1. SUFFICES ASSUME job[v].made # 0 PROVE FALSE
  OBVIOUS
<1>2. job[v].made > 0
  BY <1>1 DEF Base, IsJob
<1>3. Halfway
  BY <1>2 DEF Halfway
<1>4. w \in Busy /\ IsJob(job[w]) /\ job[w].at = "create" /\ job[w].made # 0
  <2>1. PICK n \in Nat \ {0} :
          /\ w \in Busy /\ IsJob(job[w]) /\ job[w].at = "create"
          /\ IF job[w].made = 0 THEN Fresh(n) ELSE LastRound(table) = n /\ Halfway
    BY CreatorIs
  <2> QED
    BY <1>3, <2>1 DEF Fresh
<1>5. job[w].made > 0
  BY <1>4 DEF IsJob
<1> QED
  BY <1>2, <1>4, <1>5 DEF CallsInv

LEMMA TodoCreateRow ==
  ASSUME Base, RoundsInv, CallsInv, TodoInv, Active' \subseteq Active,
         NEW w \in Worker, NEW row, CreateRow(w, row)
  PROVE  TodoInv'
<1> DEFINE p == Placed(w, row)
<1>1. CASE \E r \in table : Key(r) = Key(p)
  <2>1. Go(w, Idle) /\ UNCHANGED table
    BY <1>1 DEF CreateRow, Done
  <2> QED
    BY <2>1, TodoGo
<1>2. CASE ~\E r \in table : Key(r) = Key(p)
  <2>1. PICK n \in Nat \ {0} :
               /\ w \in Busy /\ IsJob(job[w]) /\ job[w].at = "create" /\ row \in job[w].todo
               /\ table' = table \cup {p}
               /\ p.round = n /\ p.position = job[w].made + 1
               /\ \A r \in job[w].todo : r.round = n
               /\ IF job[w].made = 0 THEN Fresh(n) ELSE LastRound(table) = n /\ Halfway
    BY <1>2, CreatorIs
  <2> HIDE DEF p
  <2> DEFINE j == IF job[w].todo # {row}
                  THEN [job[w] EXCEPT !.todo = @ \ {row}, !.made = @ + 1]
                  ELSE IF job[w].kind = "start" THEN [job[w] EXCEPT !.at = "activate", !.todo = {}]
                       ELSE Idle
  <2>2. Go(w, j)
    BY <1>2 DEF CreateRow, Created, p
  <2>3. \/ j = Idle \/ j.at = "activate"
        \/ j.at = "create" /\ j.todo = job[w].todo \ {row} /\ j.made = job[w].made + 1
    BY <2>1 DEF IsJob
  <2> HIDE DEF j
  <2>4. TodoOk(job[w]) /\ job[w].made \in Nat
    BY <2>1 DEF TodoInv, IsJob
  <2>5. ASSUME NEW q \in table', q.round = n PROVE q.position <= job[w].made + 1
    <3>1. CASE q = p
      BY <2>1, <2>4, <3>1
    <3>2. CASE q \in table /\ job[w].made = 0
      <4>1. LastRound(table) = n - 1 /\ q.round <= LastRound(table)
        BY <2>1, <3>2, TableLast DEF Fresh
      <4> QED
        BY <2>1, <2>5, <4>1
    <3>3. CASE q \in table /\ job[w].made # 0
      <4>1. job[w].made > 0 /\ q.position \in Nat
        BY <2>4, <3>3 DEF Base, Rows
      <4>2. q.position <= job[w].made
        BY <2>1, <2>4, <2>5, <3>3, <4>1 DEF TodoOk
      <4> QED
        BY <2>4, <4>1, <4>2
    <3> QED
      BY <2>1, <3>1, <3>2, <3>3
  <2>6. ASSUME NEW v \in Busy', job'[v].at = "create" PROVE TodoOk(job[v])'
    <3>1. CASE v = w
      <4>1. job'[w] = j /\ j.at = "create" /\ j.todo = job[w].todo \ {row} /\ j.made = job[w].made + 1
        BY <2>2, <2>3, <2>6, <3>1, GoIs
      <4>2. j.made # 0 /\ j.todo \subseteq job[w].todo
        BY <2>4, <4>1
      <4>3. /\ \A r \in j.todo : r.open <=> r.two # None
            /\ \A r, q \in j.todo : r.two = None /\ q.two = None => r = q
        BY <2>4, <4>2 DEF TodoOk
      <4>4. \A r \in j.todo, q \in table' : q.round = r.round => q.position <= j.made
        BY <2>1, <2>5, <4>1, <4>2
      <4> QED
        BY <3>1, <4>1, <4>2, <4>3, <4>4 DEF TodoOk, Meeting
    <3>2. CASE v # w
      <4>1. v \in Worker /\ v \in Busy /\ job'[v] = job[v]
        BY <2>2, <3>2, GoIs
      <4>2. job[v].made = 0
        BY <1>2, <2>6, <3>2, <4>1, OneHalfway DEF p
      <4>3. TodoOk(job[v]) /\ ~(job[v].made > 0)
        BY <2>6, <4>1, <4>2 DEF TodoInv
      <4> QED
        BY <4>1, <4>3, TodoKept
    <3> QED
      BY <3>1, <3>2
  <2> QED
    BY <2>6 DEF TodoInv
<1> QED
  BY <1>1, <1>2

LEMMA TodoNext ==
  ASSUME Base, RoundsInv, CallsInv, TodoInv, Active' \subseteq Active, stage.format = "swiss",
         [Next]_vars
  PROVE  TodoInv'
<1>1. CASE Aside
  <2>1. ASSUME NEW v \in Busy', job'[v].at = "create" PROVE TodoOk(job[v])'
    <3>1. v \in Busy /\ v \in Worker /\ job'[v] = job[v] /\ table' = table
      BY <1>1, <2>1 DEF Aside, Busy
    <3>2. TodoOk(job[v])
      BY <2>1, <3>1 DEF TodoInv
    <3> QED
      BY <3>1, <3>2, TodoKept
  <2> QED
    BY <2>1 DEF TodoInv
<1>2. ASSUME NEW w \in Worker, StartStage(w) PROVE TodoInv'
  <2>1. PICK rows \in NextRound({}, Active) : Start(w, [Call("start", "create") EXCEPT !.todo = rows])
    BY <1>2 DEF StartStage, FirstRound
  <2> DEFINE j == [Call("start", "create") EXCEPT !.todo = rows]
  <2>2. Go(w, j) /\ UNCHANGED table
    BY <1>2, <2>1, StartIs DEF StartStage
  <2>3. j.todo = rows /\ j.made = 0
    BY DEF Call
  <2> HIDE DEF j
  <2>4. LastRound({}) \in Nat
    BY EmptyLast
  <2>5. job'[w] = j
    BY <2>2, GoIs
  <2>6. TodoOk(job[w])'
    BY <2>3, <2>4, <2>5, TodoPaired
  <2> QED
    BY <2>2, <2>6, TodoGo
<1>3. ASSUME NEW w \in Worker, ListRound(w) PROVE TodoInv'
  <2>1. Is(w, "list") /\ UNCHANGED table /\ (Go(w, Idle) \/ Go(w, [job[w] EXCEPT !.at = "pair", !.seen = table]))
    BY <1>3 DEF ListRound, Done
  <2>2. [job[w] EXCEPT !.at = "pair", !.seen = table].at = "pair"
    BY <2>1, JobIs DEF IsJob
  <2> QED
    BY <2>1, <2>2, TodoGo
<1>4. ASSUME NEW w \in Worker, PairRound(w) PROVE TodoInv'
  <2>1. /\ Is(w, "pair") /\ UNCHANGED table
        /\ \/ Done(w)
           \/ \E rows \in NextRound(job[w].seen, Active) :
                Go(w, [job[w] EXCEPT !.at = "create", !.todo = rows])
    BY <1>4, PairRoundIs
  <2>2. w \in Busy /\ IsJob(job[w]) /\ OfKind(job[w]) /\ job[w].at = "pair"
    BY <2>1, JobIs
  <2>3. ASSUME NEW rows \in NextRound(job[w].seen, Active),
               Go(w, [job[w] EXCEPT !.at = "create", !.todo = rows])
        PROVE  TodoInv'
    <3> DEFINE j == [job[w] EXCEPT !.at = "create", !.todo = rows]
    <3>1. j.todo = rows /\ j.made = 0
      BY <2>2 DEF IsJob, OfKind
    <3>2. Go(w, j)
      BY <2>3
    <3> HIDE DEF j
    <3>3. LastRound(job[w].seen) \in Nat
      BY <2>2, SeenIs
    <3>4. job'[w] = j
      BY <3>2, GoIs
    <3>5. TodoOk(job[w])'
      BY <3>1, <3>3, <3>4, TodoPaired
    <3> QED
      BY <2>1, <3>2, <3>5, TodoGo
  <2> QED
    BY <2>1, <2>3, TodoGo DEF Done
<1>5. ASSUME NEW w \in Worker, SaveResult(w) PROVE TodoInv'
  <2>1. /\ Is(w, "save")
        /\ Go(w, Idle) \/ Go(w, [job[w] EXCEPT !.at = "rank"]) \/ Go(w, [job[w] EXCEPT !.at = "list"])
    BY <1>5 DEF SaveResult, Step, Done
  <2>2. \A at : [job[w] EXCEPT !.at = at].at = at
    BY <2>1, JobIs DEF IsJob
  <2>3. \A q \in table' : \E p \in table : p.round = q.round /\ p.position = q.position
    BY <1>5, SaveResultIs, SameIs
  <2> QED
    BY <2>1, <2>2, <2>3, TodoGo
<1> QED
  BY <1>1, <1>2, <1>3, <1>4, <1>5, TodoCreateRow, NextRows

LEMMA FaultsNext ==
  ASSUME Base, faults \in Nat, [Next]_vars
  PROVE  faults' \in Nat /\ (Restart => faults' # 0) /\ (Restart \/ faults' = faults)
<1>1. UNCHANGED vars => faults' = faults
  BY DEF vars
<1>2. Restart => faults' \in Nat /\ faults' # 0
  BY DEF Restart
<1>3. ASSUME NEW w \in Worker,
             \/ StartStage(w) \/ ListRound(w) \/ PairRound(w) \/ SaveResult(w)
             \/ \E row : CreateRow(w, row)
      PROVE  faults' = faults
  BY <1>3 DEF StartStage, ListRound, PairRound, SaveResult, CreateRow
<1>4. ASSUME NEW w \in Worker,
             \/ CancelStage(w) \/ CompleteStage(w) \/ AdvanceStage(w)
             \/ \E r \in table, e \in Entry : Report(w, r, e) \/ Override(w, r, e)
             \/ \E e \in Entry : RetireEntry(w, e)
      PROVE  faults' = faults
  BY <1>4 DEF CancelStage, CompleteStage, AdvanceStage, Report, Override, RetireEntry
<1>5. ASSUME NEW w \in Worker,
             \/ Activate(w) \/ ReadResults(w) \/ ReadEntries(w) \/ SaveRank(w) \/ CloseStage(w)
             \/ SaveCancelled(w) \/ SaveRetired(w) \/ DrawField(w) \/ EnrollNext(w)
      PROVE  faults' = faults
  BY <1>5 DEF Activate, ReadResults, ReadEntries, SaveRank, CloseStage, SaveCancelled,
              SaveRetired, DrawField, EnrollNext
<1> QED
  BY <1>1, <1>2, <1>3, <1>4, <1>5, NextIs

LEMMA ActiveIs ==
  ASSUME Base
  PROVE  IsFiniteSet(Active) /\ Cardinality(Active) \in Nat
<1>1. IsFiniteSet(1..stage.n) /\ Active \subseteq 1..stage.n
  BY FieldSize, FS_Interval DEF Active, Entry
<1> QED
  BY <1>1, FS_Subset, FS_CardinalityType

(* More matches of the last round, and fewer entries, do not undo its being the last. *)
LEMMA OverKept ==
  ASSUME Base, Frame, Over, LastRound(table') = LastRound(table), Met(table) \subseteq Met(table'),
         Active' = Active, left' = left
  PROVE  Over'
<1>1. Entry' = Entry
  BY FrameIs
<1>2. CASE LastRound(table) >= TargetRounds(Cardinality(Active))
  <2>1. TargetRounds(Cardinality(Active))' = TargetRounds(Cardinality(Active))
    BY DEF TargetRounds, Frame
  <2> QED
    BY <1>2, <2>1 DEF Over
<1>3. ASSUME NEW A \in SUBSET {e \in Entry : left[e] = LastRound(table)},
             NextRound(table, Active \cup A) = {}
      PROVE  Over'
  <2>1. NextRound(table', Active' \cup A) = {}
    BY <1>3, NoneToPair, FewerPairings
  <2>2. A \in SUBSET {e \in Entry' : left'[e] = LastRound(table')}
    BY <1>1
  <2> QED
    BY <2>1, <2>2 DEF Over
<1> QED
  BY <1>2, <1>3 DEF Over

LEMMA FollowsKept ==
  ASSUME UNCHANGED table, Halfway' => Halfway, NEW v, NEW j, job'[v] = j, Follows(j)
  PROVE  Follows(job[v])'
<1>1. \A n : Fresh(n) => Fresh(n)'
  BY FreshKept
<1> QED
  BY <1>1 DEF Follows, Same, Key

(* A step of one call that creates nothing. *)
LEMMA FollowedGo ==
  ASSUME Base, Frame, UNCHANGED <<table, left>>, Active' = Active, Followed,
         NEW w \in Worker, NEW j, Go(w, j), j = Idle \/ ~(j.at = "create" /\ j.made > 0),
         w \in Busy /\ Follows(job[w]) => Over \/ (j # Idle /\ Follows(j))
  PROVE  Followed'
<1>1. Halfway' => Halfway
  <2>1. ASSUME NEW v \in Busy', job'[v].at = "create", job'[v].made > 0
        PROVE  v \in Busy /\ job[v] = job'[v]
    <3>1. v # w
      BY <2>1, GoIs
    <3> QED
      BY <3>1, GoIs
  <2> QED
    BY <2>1 DEF Halfway
<1>2. CASE Over
  BY <1>2, OverKept DEF Followed, LastRound, Met
<1>3. ASSUME ~Over, NEW v \in Busy, Follows(job[v]) PROVE \E u \in Busy' : Follows(job[u])'
  <2>1. CASE v = w
    <3>1. w \in Busy' /\ job'[w] = j /\ Follows(j)
      BY <1>3, <2>1, GoIs
    <3> QED
      BY <1>1, <3>1, FollowsKept
  <2>2. CASE v # w
    <3>1. v \in Busy' /\ job'[v] = job[v]
      BY <2>2, GoIs DEF Busy
    <3> QED
      BY <1>1, <1>3, <3>1, FollowsKept
  <2> QED
    BY <2>1, <2>2
<1> QED
  BY <1>2, <1>3 DEF Followed

LEMMA FollowedListRound ==
  ASSUME Base, Frame, RoundsInv, CallsInv, "round" \notin Overlaps, Followed, Open = {},
         Active' = Active, left' = left, NEW w \in Worker, ListRound(w)
  PROVE  Followed'
<1> DEFINE j == [job[w] EXCEPT !.at = "pair", !.seen = table]
<1>1. Is(w, "list") /\ ~Halfway /\ UNCHANGED table
  BY DEF ListRound
<1>2. w \in Busy /\ IsJob(job[w])
  BY <1>1, JobIs
<1>3. Go(w, j)
  BY DEF ListRound, InRound, Open
<1>4. j.at = "pair" /\ j.seen = table /\ j.kind \in Kind
  BY <1>2 DEF IsJob
<1> HIDE DEF j
<1>5. LastRound(table) \in Nat
  BY TableLast
<1>6. Fresh(LastRound(table) + 1)
  <2>1. \A n \in Nat : LastRound(table) = n => Fresh(n + 1)
    BY <1>1 DEF Fresh
  <2> QED
    BY <1>5, <2>1
<1>7. j # Idle /\ Follows(j)
  <2>1. j # Idle
    BY <1>4 DEF Idle, Kind
  <2>2. \A r \in table : Same(r, r)
    BY DEF Same
  <2>3. Fresh(LastRound(j.seen) + 1)
    BY <1>4, <1>6
  <2>4. /\ \A r \in table : \E q \in j.seen : Same(r, q)
        /\ \A q \in j.seen : \E r \in table : Same(r, q)
    BY <1>4, <2>2
  <2> QED
    BY <1>4, <2>1, <2>3, <2>4 DEF Follows
<1>8. ~(j.at = "create")
  BY <1>4
<1> QED
  BY <1>1, <1>3, <1>7, <1>8, FollowedGo

LEMMA FollowedPairRound ==
  ASSUME Base, Frame, RoundsInv, CallsInv, Followed, Open = {},
         Active' = Active, left' = left, NEW w \in Worker, PairRound(w)
  PROVE  Followed'
<1>1. Is(w, "pair") /\ UNCHANGED table
  BY DEF PairRound
<1>2. w \in Busy /\ IsJob(job[w]) /\ OfKind(job[w]) /\ job[w].at = "pair" /\ Pairs(job[w])
  BY <1>1, JobIs DEF CallsInv, CallOk
<1>3. ASSUME Follows(job[w])
      PROVE  /\ LastRound(job[w].seen) = LastRound(table)
             /\ NextRound(job[w].seen, Active) = NextRound(table, Active)
  <2>1. /\ \A r \in table : \E q \in job[w].seen : Same(r, q)
        /\ \A q \in job[w].seen : \E r \in table : Same(r, q)
    BY <1>2, <1>3 DEF Follows
  <2>2. {r.round : r \in job[w].seen} = {r.round : r \in table}
    BY <2>1, SameIs
  <2>3. LastRound(job[w].seen) = LastRound(table)
    BY <2>2, LastOfSame
  <2>4. (\A r \in table : ~r.open) /\ \A q \in job[w].seen : ~q.open
    BY <1>2 DEF Open, Pairs
  <2>5. Met(job[w].seen) = Met(table)
    <3>1. {x \in table : ~x.open} = table /\ {x \in job[w].seen : ~x.open} = job[w].seen
      BY <2>4
    <3>2. {Meeting(r) : r \in table} = {Meeting(r) : r \in job[w].seen}
      BY <2>1, SameIs
    <3> QED
      BY <3>1, <3>2 DEF Met
  <2> QED
    BY <2>3, <2>5 DEF NextRound
<1>4. PICK n \in Nat : n = LastRound(job[w].seen)
  BY <1>2, SeenIs
<1> DEFINE next == IF LastRound(job[w].seen) >= TargetRounds(Cardinality(Active))
                   THEN {} ELSE NextRound(job[w].seen, Active)
<1>5. IF next = {} THEN Go(w, Idle)
      ELSE \E rows \in next : Go(w, [job[w] EXCEPT !.at = "create", !.todo = rows])
  BY DEF PairRound, Done
<1>6. CASE next = {}
  <2>1. Follows(job[w]) => Over
    <3>1. ASSUME Follows(job[w]), ~(LastRound(table) >= TargetRounds(Cardinality(Active))) PROVE Over
      <4>1. NextRound(table, Active) = {}
        BY <1>3, <1>6, <3>1
      <4>2. NextRound(table, Active \cup {}) = {}
        BY <4>1
      <4> QED
        BY <4>2 DEF Over
    <3> QED
      BY <3>1 DEF Over
  <2>2. Go(w, Idle)
    BY <1>5, <1>6
  <2> QED
    BY <1>1, <2>1, <2>2, FollowedGo
<1>7. CASE next # {}
  <2>1. PICK rows \in NextRound(job[w].seen, Active) :
               Go(w, [job[w] EXCEPT !.at = "create", !.todo = rows])
    BY <1>5, <1>7
  <2> DEFINE j == [job[w] EXCEPT !.at = "create", !.todo = rows]
  <2>2. j.at = "create" /\ j.todo = rows /\ j.made = 0 /\ j.kind \in Kind
    BY <1>2 DEF IsJob, OfKind
  <2>3. Go(w, j)
    BY <2>1
  <2> HIDE DEF j, next
  <2>4. \A r \in rows : r.round = n + 1
    BY <1>4, FieldSize, NextRoundIs DEF Active
  <2>5. Follows(job[w]) => Follows(j)
    <3>1. ASSUME Follows(job[w]) PROVE Fresh(n + 1)
      BY <1>2, <1>4, <3>1 DEF Follows
    <3>2. ASSUME Follows(job[w]), NEW r \in rows PROVE Fresh(r.round)
      BY <2>4, <3>1, <3>2
    <3> QED
      BY <2>2, <3>2 DEF Follows
  <2>6. j # Idle
    BY <2>2 DEF Idle, Kind
  <2>7. ~(j.made > 0)
    BY <2>2
  <2> QED
    BY <1>1, <2>3, <2>5, <2>6, <2>7, FollowedGo
<1> QED
  BY <1>6, <1>7

(* Two entries are not both given the bye. *)
LEMMA SomeMatch ==
  ASSUME Base, Active = Entry, NEW rows \in NextRound({}, Active)
  PROVE  \E r \in rows : r.two # None
<1>1. stage.n \in Nat \ {0, 1} /\ LastRound({}) = 0
  BY BoundAssumption, EmptyLast DEF Base
<1>2. /\ \A r, q \in rows : r.two = None /\ q.two = None => r = q
      /\ \A e \in Entry : \E r \in rows : e \in Meeting(r)
  BY <1>1, NextRoundFull
<1>3. 1 \in Entry /\ 2 \in Entry
  BY <1>1 DEF Entry
<1>4. PICK r \in rows : 1 \in Meeting(r)
  BY <1>2, <1>3
<1>5. PICK q \in rows : 2 \in Meeting(q)
  BY <1>2, <1>3
<1>6. SUFFICES ASSUME r.two = None, q.two = None PROVE FALSE
  BY <1>4, <1>5
<1>7. r = q
  BY <1>2, <1>6
<1>8. 1 = r.one /\ 2 = r.one
  BY <1>4, <1>5, <1>6, <1>7 DEF Meeting
<1> QED
  BY <1>8

LEMMA StartNext ==
  ASSUME Base, Base', RoundsInv, CallsInv, StateInv, TodoInv, StartInv, stage.format = "swiss",
         [Next]_vars
  PROVE  StartInv'
<1> DEFINE Good(j) == Open' # {} \/ (j.at = "create" /\ \E r \in j.todo : r.two # None)
<1>1. SUFFICES ASSUME NEW v \in Busy', job'[v].kind = "start" PROVE Good(job'[v])
  BY DEF StartInv
<1>2. ASSUME v \in Busy, job[v].kind = "start", job'[v] = job[v], Open \subseteq Open'
      PROVE  Good(job'[v])
  BY <1>2 DEF StartInv
<1>3. GoesOn => v \in Busy /\ job[v].kind = "start"
  BY <1>1 DEF GoesOn
<1>4. CASE Restart
  BY <1>1, <1>4 DEF Restart, Busy
<1>5. CASE Untouched /\ Aside
  <2>1. Open' = Open
    BY <1>5 DEF Aside, Open
  <2>2. v \in Busy /\ job[v].kind = "start"
    <3>1. CASE \E w \in Worker : \E j : Begun(w, j)
      <4>0. PICK w \in Worker : \E j : Begun(w, j)
        BY <3>1
      <4>1. PICK j : Begun(w, j)
        BY <4>0
      <4>2. Go(w, j)
        BY <4>1, StartIs DEF Begun
      <4>3. v # w
        <5>1. SUFFICES ASSUME v = w PROVE FALSE
          OBVIOUS
        <5>2. job'[w] = j /\ j.at = "create"
          BY <1>1, <4>1, <4>2, <5>1, GoIs DEF Begun
        <5>3. w \in Busy
          BY <1>5, <5>1, <5>2 DEF Aside
        <5>4. job[w] = Idle
          BY <4>1, StartIs DEF Begun
        <5> QED
          BY <5>3, <5>4 DEF Busy
      <4> QED
        BY <1>1, <4>2, <4>3, GoIs
    <3>2. CASE GoesOn
      BY <1>3, <3>2
    <3> QED
      BY <3>1, <3>2, NextCalls
  <2>3. CASE job[v].at = "create"
    BY <1>2, <1>5, <2>1, <2>2, <2>3 DEF Untouched
  <2>4. CASE job[v].at # "create"
    BY <2>1, <2>2, <2>4 DEF StartInv
  <2> QED
    BY <2>3, <2>4
<1>6. ASSUME NEW w \in Worker, StartStage(w), Untouched PROVE Good(job'[v])
  <2>1. PICK rows \in NextRound({}, Active) : Start(w, [Call("start", "create") EXCEPT !.todo = rows])
    BY <1>6 DEF StartStage, FirstRound
  <2> DEFINE j == [Call("start", "create") EXCEPT !.todo = rows]
  <2>2. Go(w, j) /\ UNCHANGED table /\ Active = Entry
    BY <1>6, <2>1, StartIs DEF StartStage
  <2>3. j.todo = rows /\ j.at = "create"
    BY DEF Call
  <2> HIDE DEF j
  <2>4. CASE v = w
    <3>1. job'[v] = j
      BY <2>2, <2>4, GoIs
    <3> QED
      BY <2>1, <2>2, <2>3, <3>1, SomeMatch
  <2>5. CASE v # w
    <3>1. v \in Busy /\ job'[v] = job[v] /\ Open' = Open
      BY <2>2, <2>5, GoIs DEF Open
    <3> QED
      BY <1>1, <1>2, <3>1
  <2> QED
    BY <2>4, <2>5
<1>7. ASSUME NEW w \in Worker, ListRound(w) \/ PairRound(w) PROVE Good(job'[v])
  <2>1. v \in Busy /\ job[v].kind = "start"
    BY <1>3, <1>7, GoesOnIs
  <2>2. (Is(w, "list") \/ Is(w, "pair")) /\ UNCHANGED table
    BY <1>7 DEF ListRound, PairRound
  <2>3. job[w].kind # "start"
    BY <2>2, JobIs DEF OfKind
  <2>4. v # w /\ \E j : Go(w, j)
    BY <1>7, <2>1, <2>3, PairRoundIs DEF ListRound, Done
  <2>5. job'[v] = job[v] /\ Open' = Open
    BY <2>2, <2>4, GoIs DEF Open
  <2> QED
    BY <1>2, <2>1, <2>5
<1>8. ASSUME NEW w \in Worker, SaveResult(w) PROVE FALSE
  <2>1. v \in Busy /\ job[v].kind = "start"
    BY <1>3, <1>8, GoesOnIs
  <2>2. Is(w, "save")
    BY <1>8 DEF SaveResult
  <2>3. w \in Busy /\ Scores(job[w])
    BY <2>2, JobIs DEF OfKind
  <2> QED
    BY <2>1, <2>3 DEF StateInv
<1>9. ASSUME NEW w \in Worker, NEW row, CreateRow(w, row) PROVE Good(job'[v])
  <2> DEFINE p == Placed(w, row)
  <2>1. v \in Busy /\ job[v].kind = "start"
    BY <1>3, <1>9, GoesOnIs
  <2>2. CASE \E r \in table : Key(r) = Key(p)
    <3>1. Go(w, Idle) /\ Open' = Open
      BY <1>9, <2>2 DEF CreateRow, Done, Open
    <3>2. job'[v] = job[v]
      BY <1>1, <3>1, GoIs
    <3> QED
      BY <1>2, <2>1, <3>1, <3>2
  <2>3. CASE ~\E r \in table : Key(r) = Key(p)
    <3>1. Is(w, "create") /\ row \in job[w].todo /\ table' = table \cup {p}
      BY <1>9, <2>3 DEF CreateRow
    <3>2. w \in Busy /\ IsJob(job[w]) /\ job[w].at = "create" /\ TodoOk(job[w])
      BY <3>1, JobIs DEF TodoInv
    <3>3. p.open = row.open
      <4>1. row \in Rows
        BY <3>1, <3>2 DEF IsJob
      <4> QED
        BY <4>1 DEF Placed, Rows
    <3>4. Open \subseteq Open' /\ (row.open => p \in Open')
      BY <3>1, <3>3 DEF Open
    <3> DEFINE j == IF job[w].todo # {row}
                    THEN [job[w] EXCEPT !.todo = @ \ {row}, !.made = @ + 1]
                    ELSE IF job[w].kind = "start" THEN [job[w] EXCEPT !.at = "activate", !.todo = {}]
                         ELSE Idle
    <3>5. Go(w, j)
      BY <1>9, <2>3 DEF CreateRow, Created
    <3>6. job[w].todo # {row} => j.at = "create" /\ j.todo = job[w].todo \ {row}
      BY <3>2 DEF IsJob
    <3> HIDE DEF j, p
    <3>7. CASE v # w
      <4>1. job'[v] = job[v]
        BY <3>5, <3>7, GoIs
      <4> QED
        BY <1>2, <2>1, <3>4, <4>1
    <3>8. CASE v = w
      <4>1. job'[v] = j
        BY <3>5, <3>8, GoIs
      <4>2. CASE row.open \/ Open # {}
        BY <3>4, <4>2
      <4>3. CASE ~row.open /\ Open = {}
        <5>1. row.two = None
          BY <3>1, <3>2, <4>3 DEF TodoOk
        <5>2. PICK r \in job[w].todo : r.two # None
          BY <2>1, <3>8, <4>3 DEF StartInv
        <5>3. r \in job[w].todo \ {row} /\ job[w].todo # {row}
          BY <5>1, <5>2
        <5> QED
          BY <3>6, <4>1, <5>2, <5>3
      <4> QED
        BY <4>2, <4>3
    <3> QED
      BY <3>7, <3>8
  <2> QED
    BY <2>2, <2>3
<1> QED
  BY <1>4, <1>5, <1>6, <1>7, <1>8, <1>9, UntouchedNext

(* retire_entry pairs nothing: whoever retires while a round is the last   *)
(* may be why no other follows it.                                         *)
LEMMA FollowedRetired ==
  ASSUME Base, Frame, RoundsInv, CallsInv, OutCalls, Followed, Untouched, Aside, Active' \subseteq Active,
         NEW u \in Worker, SaveRetired(u)
  PROVE  Followed'
<1> DEFINE f == job[u].entry[1]
<1>1. UNCHANGED table /\ Entry' = Entry
  BY FrameIs DEF Aside
<1>2. Halfway' => Halfway
  BY DEF Halfway, Aside
<1>3. ASSUME NEW v \in Busy, Follows(job[v]) PROVE Followed'
  <2>1. v \in Busy' /\ job'[v] = job[v]
    BY <1>3 DEF Untouched, Follows
  <2>2. Follows(job[v])'
    BY <1>1, <1>2, <1>3, <2>1, FollowsKept
  <2> QED
    BY <2>1, <2>2 DEF Followed
<1>4. ASSUME \A v \in Busy : ~Follows(job[v]) PROVE Max(RoundsBegun) = LastRound(table)
  <2>1. ASSUME NEW v \in Busy, NEW r \in job[v].todo PROVE r.round \in Nat /\ r.round <= LastRound(table)
    <3>1. job[v].at = "create" /\ IsJob(job[v])
      BY <2>1 DEF Base, OfKind
    <3>2. PICK n \in Nat \ {0} : Creates(job[v], n)
      BY <3>1 DEF CallsInv, CallOk
    <3>3. \A q \in job[v].todo : q.round = n
      BY <3>2 DEF Creates
    <3>4. CASE job[v].made # 0
      BY <2>1, <3>2, <3>3, <3>4 DEF Creates
    <3>5. CASE job[v].made = 0
      <4>1. ~Fresh(n)
        <5>1. Fresh(n) => \A q \in job[v].todo : Fresh(q.round)
          BY <3>3
        <5> QED
          BY <1>4, <3>1, <3>5, <5>1 DEF Follows
      <4>2. Taken(n)
        BY <3>2, <3>5, <4>1 DEF Creates
      <4>3. n <= LastRound(table)
        BY <4>2, TableLast DEF Taken
      <4> QED
        BY <2>1, <3>3, <4>3
    <3> QED
      BY <3>4, <3>5
  <2>2. LastRound(table) \in Nat /\ LastRound(table) \in RoundsBegun
    BY TableLast DEF RoundsBegun
  <2>3. RoundsBegun \subseteq Nat /\ \A x \in RoundsBegun : x <= LastRound(table)
    BY <2>1, <2>2 DEF RoundsBegun
  <2>4. Max(RoundsBegun) \in RoundsBegun /\ Max(RoundsBegun) \in Nat /\ \A x \in RoundsBegun : x <= Max(RoundsBegun)
    BY <2>2, <2>3, GreatestIs
  <2> QED
    BY <2>2, <2>3, <2>4
<1>5. ASSUME Over, \A v \in Busy : ~Follows(job[v]) PROVE Over'
  <2>1. f \in Entry /\ IsEntry(job[u].entry[2])
    BY RetirerIs
  <2>2. /\ entry' = [entry EXCEPT ![f] = [job[u].entry[2] EXCEPT !.status = "dropped"]]
        /\ left' = [left EXCEPT ![f] = LastRound(table)]
    BY <1>4, <1>5 DEF SaveRetired
  <2>3. LastRound(table') = LastRound(table) /\ NextRound(table', Active') = NextRound(table, Active')
    BY <1>1
  <2>4. CASE LastRound(table) >= TargetRounds(Cardinality(Active))
    <3>1. Cardinality(Active') <= Cardinality(Active) /\ Cardinality(Active') \in Nat /\ Cardinality(Active) \in Nat
      BY ActiveIs, FS_Subset, FS_CardinalityType
    <3>2. stage.n \in Fields /\ LastRound(table) \in Nat
      BY TableLast DEF Base
    <3>3. LastRound(table) >= TargetRounds(Cardinality(Active'))
      BY <2>4, <3>1, <3>2, FewerRounds
    <3>4. TargetRounds(Cardinality(Active))' = TargetRounds(Cardinality(Active'))
      BY DEF TargetRounds, Frame
    <3> QED
      BY <2>3, <3>3, <3>4 DEF Over
  <2>5. ASSUME NEW A \in SUBSET {e \in Entry : left[e] = LastRound(table)},
               NextRound(table, Active \cup A) = {}
        PROVE  Over'
    <3> DEFINE B == IF f \in Active \cup A THEN A \cup {f} ELSE A
    <3>1. Active' = Active \ {f}
      <4>1. entry'[f].status = "dropped"
        BY <2>1, <2>2 DEF IsEntry, Base
      <4>2. \A e \in Entry : e # f => entry'[e] = entry[e]
        BY <2>2 DEF Base
      <4> QED
        BY <1>1, <2>1, <4>1, <4>2 DEF Active
    <3>2. Active' \cup B = Active \cup A
      BY <3>1
    <3>3. left'[f] = LastRound(table) /\ \A e \in Entry : e # f => left'[e] = left[e]
      BY <2>1, <2>2 DEF Base
    <3>4. B \in SUBSET {e \in Entry' : left'[e] = LastRound(table')}
      BY <1>1, <2>1, <2>3, <3>3
    <3>5. NextRound(table', Active' \cup B) = {}
      BY <1>1, <2>5, <3>2
    <3> QED
      BY <3>4, <3>5 DEF Over
  <2> QED
    BY <1>5, <2>4, <2>5 DEF Over
<1> QED
  BY <1>3, <1>5 DEF Followed

(* A round that has begun with a bye goes on, or was that bye.             *)
LEMMA FollowedCreateRow ==
  ASSUME Base, Frame, RoundsInv, CallsInv, TodoInv, Followed, Open' = {},
         Active' = Active, left' = left, NEW w \in Worker, NEW row, CreateRow(w, row),
         ~\E r \in table : Key(r) = Key(Placed(w, row))
  PROVE  Followed'
<1> DEFINE p == Placed(w, row)
<1>1. PICK n \in Nat \ {0} :
             /\ w \in Busy /\ IsJob(job[w]) /\ job[w].at = "create" /\ row \in job[w].todo
             /\ table' = table \cup {p}
             /\ p.round = n /\ Meeting(p) = Meeting(row)
             /\ IF job[w].made = 0 THEN Fresh(n) ELSE LastRound(table) = n /\ Halfway
  BY CreatorIs
<1>2. row \in Rows /\ TodoOk(job[w]) /\ job[w].made \in Nat
  BY <1>1 DEF TodoInv, IsJob
<1>3. p.open = row.open
  BY <1>2 DEF Placed, Rows
<1> DEFINE j == IF job[w].todo # {row}
                THEN [job[w] EXCEPT !.todo = @ \ {row}, !.made = @ + 1]
                ELSE IF job[w].kind = "start" THEN [job[w] EXCEPT !.at = "activate", !.todo = {}]
                     ELSE Idle
<1>4. Go(w, j)
  BY DEF CreateRow, Created
<1>5. job[w].todo # {row} =>
        j.at = "create" /\ j.todo = job[w].todo \ {row} /\ j.made = job[w].made + 1 /\ j.kind \in Kind
  BY <1>1 DEF IsJob
<1> HIDE DEF j, p
<1>6. ~p.open /\ row.two = None
  <2>1. ~p.open
    BY <1>1 DEF Open
  <2> QED
    BY <1>1, <1>2, <1>3, <2>1 DEF TodoOk
<1>7. ASSUME NEW r \in job[w].todo, r.two # None PROVE Followed'
  <2>1. r \in job[w].todo \ {row} /\ job[w].todo # {row}
    BY <1>6, <1>7
  <2>2. j.at = "create" /\ r \in j.todo /\ j.made # 0
    BY <1>2, <1>5, <2>1
  <2>3. j # Idle
    BY <1>5, <2>1 DEF Idle, Kind
  <2>4. w \in Busy' /\ job'[w] = j
    BY <1>4, <2>3, GoIs
  <2>5. Follows(job[w])'
    BY <1>7, <2>2, <2>4 DEF Follows
  <2> QED
    BY <2>4, <2>5 DEF Followed
<1>8. CASE job[w].made = 0 /\ job[w].todo = {row}
  <2>1. \A e \in Active' : e \in Meeting(row)
    BY <1>2, <1>8 DEF TodoOk
  <2>2. Meeting(row) = {row.one}
    BY <1>2, <1>6, NoneAssumption DEF Meeting, Rows, Entry
  <2>3. Meeting(p) \in Met(table')
    BY <1>1, <1>6 DEF Met
  <2>4. ASSUME NEW S \in SUBSET Active', Cardinality(S) \in {1, 2} PROVE S \in Met(table')
    <3>1. S # {}
      BY <2>4, FS_EmptySet
    <3>2. S = {row.one}
      BY <2>1, <2>2, <3>1
    <3> QED
      BY <1>1, <2>2, <2>3, <3>2
  <2>5. NextRound(table', Active') = {}
    BY <2>4, AllMet, NoneToPair
  <2>6. NextRound(table', Active' \cup {}) = {}
    BY <2>5
  <2> QED
    BY <2>6 DEF Over, Followed
<1>9. CASE job[w].made = 0 /\ job[w].todo # {row}
  <2>1. PICK r \in job[w].todo : r # row
    BY <1>1, <1>9
  <2>2. r.two # None
    BY <1>1, <1>2, <1>6, <2>1 DEF TodoOk
  <2> QED
    BY <1>7, <2>2
<1>10. CASE job[w].made # 0
  <2>1. LastRound(table) = n /\ Halfway
    BY <1>1, <1>10
  <2>2. CASE Over
    <3>1. LastRound(table') = n
      <4>1. {r.round : r \in table'} = {r.round : r \in table} \cup {n}
        BY <1>1
      <4>2. table # {}
        BY <2>1, EmptyLast
      <4>3. n \in {r.round : r \in table}
        BY <2>1, <4>2, TableLast
      <4>4. {r.round : r \in table'} = {r.round : r \in table}
        BY <4>1, <4>3
      <4> QED
        BY <2>1, <4>4, LastOfSame
    <3>2. Met(table) \subseteq Met(table')
      BY <1>1 DEF Met
    <3> QED
      BY <2>1, <2>2, <3>1, <3>2, OverKept DEF Followed
  <2>3. ASSUME NEW v \in Busy, Follows(job[v]) PROVE Followed'
    <3>1. \A m : ~Fresh(m)
      BY <2>1 DEF Fresh
    <3>2. CASE v = w
      BY <1>1, <1>7, <1>10, <2>3, <3>2 DEF Follows
    <3>3. CASE v # w /\ job[v].at = "create"
      <4>1. job[v].made = 0
        BY <3>3, OneHalfway
      <4>2. v \in Busy' /\ job'[v] = job[v]
        BY <1>4, <3>3, GoIs DEF Busy
      <4>3. job[v].todo = {}
        BY <2>3, <3>1, <3>3, <4>1 DEF Follows
      <4>4. Follows(job[v])'
        BY <3>3, <4>1, <4>2, <4>3 DEF Follows
      <4> QED
        BY <4>2, <4>4 DEF Followed
    <3>4. CASE v # w /\ job[v].at # "create"
      <4>1. job[v].at = "list"
        BY <2>3, <3>1, <3>4 DEF Follows
      <4>2. v \in Busy' /\ job'[v] = job[v]
        BY <1>4, <3>4, GoIs DEF Busy
      <4>3. Follows(job[v])'
        BY <4>1, <4>2 DEF Follows
      <4> QED
        BY <4>2, <4>3 DEF Followed
    <3> QED
      BY <3>2, <3>3, <3>4
  <2> QED
    BY <2>2, <2>3 DEF Followed
<1> QED
  BY <1>8, <1>9, <1>10

(* The rows of a round that has just been paired, or half created, are free. *)
LEMMA NoConflict ==
  ASSUME Base, RoundsInv, CallsInv, TodoInv, NEW w \in Worker, NEW row, CreateRow(w, row),
         NEW r \in table, Key(r) = Key(Placed(w, row))
  PROVE  ~Follows(job[w])
<1>1. Is(w, "create") /\ row \in job[w].todo
  BY DEF CreateRow
<1>2. w \in Busy /\ IsJob(job[w]) /\ job[w].at = "create" /\ CallOk(job[w]) /\ TodoOk(job[w])
  BY <1>1, JobIs DEF CallsInv, TodoInv
<1>3. PICK n \in Nat \ {0} : Creates(job[w], n)
  BY <1>2 DEF CallOk
<1>4. row.position = 0 /\ row.round = n /\ row \in Rows /\ job[w].made \in Nat
  BY <1>1, <1>2, <1>3 DEF Creates, IsJob
<1>5. r.round = n /\ r.position = job[w].made + 1
  <2>1. Placed(w, row) = [row EXCEPT !.position = job[w].made + 1]
    BY <1>4 DEF Placed
  <2>2. Placed(w, row).round = n /\ Placed(w, row).position = job[w].made + 1
    BY <1>4, <2>1 DEF Rows
  <2> QED
    BY <2>2 DEF Key
<1>6. CASE job[w].made = 0
  <2>1. ~Fresh(n)
    <3>1. SUFFICES ASSUME Fresh(n) PROVE FALSE
      OBVIOUS
    <3>2. LastRound(table) = n - 1 /\ n <= LastRound(table)
      BY <1>5, <3>1, TableLast DEF Fresh
    <3> QED
      BY <3>2
  <2> QED
    BY <1>1, <1>2, <1>4, <1>6, <2>1 DEF Follows
<1>7. CASE job[w].made # 0
  <2>1. r.position <= job[w].made
    <3>1. job[w].made > 0
      BY <1>4, <1>7
    <3> QED
      BY <1>1, <1>2, <1>4, <1>5, <3>1 DEF TodoOk
  <2> QED
    BY <1>4, <1>5, <2>1
<1> QED
  BY <1>6, <1>7

LEMMA PairedSaveResult ==
  ASSUME Base, StateInv, stage.format = "swiss", stage.state = "active", NEW w \in Worker, SaveResult(w)
  PROVE  Followed'
<1>1. Is(w, "save")
  BY DEF SaveResult
<1>2. w \in Busy /\ IsJob(job[w]) /\ Scores(job[w])
  BY <1>1, JobIs DEF OfKind
<1>3. job[w].was = "active"
  BY <1>2 DEF StateInv
<1> DEFINE j == [job[w] EXCEPT !.at = "list"]
<1>4. Go(w, j)
  BY <1>3 DEF SaveResult, Step
<1>5. j.at = "list" /\ j.kind \in Kind
  BY <1>2 DEF IsJob
<1> HIDE DEF j
<1>6. w \in Busy' /\ job'[w] = j
  BY <1>4, <1>5, GoIs DEF Idle, Kind
<1>7. Follows(job[w])'
  BY <1>5, <1>6 DEF Follows
<1> QED
  BY <1>6, <1>7 DEF Followed

LEMMA PairedNext ==
  ASSUME Base, Base', Frame, RoundsInv, CallsInv, StateInv, TodoInv, StartInv, PairedInv,
         OutCalls, OutStatus, faults \in Nat, "round" \notin Overlaps, stage.format = "swiss",
         [Next]_vars
  PROVE  PairedInv'
<1>1. SUFFICES ASSUME faults' = 0, stage'.state = "active", Open' = {} PROVE Followed'
  BY DEF PairedInv
<1>2. faults = 0 /\ ~Restart
  BY <1>1, FaultsNext
<1>3. stage.state = "active"
  <2>1. ASSUME NEW w \in Worker, Activate(w) PROVE FALSE
    <3>1. w \in Busy /\ job[w].kind = "start" /\ job[w].at = "activate" /\ UNCHANGED table
      BY <2>1, RulerIs
    <3>2. Open # {}
      BY <3>1 DEF StartInv
    <3> QED
      BY <1>1, <3>1, <3>2 DEF Open
  <2> QED
    BY <1>1, <2>1, DraftNext
<1>4. /\ Active' \subseteq Active
      /\ (~\E u \in Worker : SaveRetired(u)) => Active' = Active /\ left' = left
  BY ActiveNext
<1>5. UNCHANGED table => Open = {} /\ Followed
  BY <1>1, <1>2, <1>3 DEF PairedInv, Open
<1>6. ASSUME NEW w \in Worker,
             ListRound(w) \/ PairRound(w) \/ \E row : CreateRow(w, row)
      PROVE  Active' = Active /\ left' = left
  BY <1>6 DEF ListRound, PairRound, CreateRow, Active, Entry
<1>7. CASE Untouched /\ Aside
  <2>1. UNCHANGED table /\ Followed
    BY <1>5, <1>7 DEF Aside
  <2>2. ASSUME NEW u \in Worker, SaveRetired(u) PROVE Followed'
    BY <1>4, <1>7, <2>1, <2>2, FollowedRetired
  <2>3. CASE ~\E u \in Worker : SaveRetired(u)
    <3>1. CASE Over
      BY <1>4, <2>1, <2>3, <3>1, OverKept DEF Followed, LastRound, Met
    <3>2. ASSUME NEW v \in Busy, Follows(job[v]) PROVE Followed'
      <4>1. v \in Busy' /\ job'[v] = job[v]
        BY <1>7, <3>2 DEF Untouched, Follows
      <4>2. Halfway' => Halfway
        BY <1>7 DEF Halfway, Aside
      <4>3. Follows(job[v])'
        BY <2>1, <3>2, <4>1, <4>2, FollowsKept
      <4> QED
        BY <4>1, <4>3 DEF Followed
    <3> QED
      BY <2>1, <3>1, <3>2 DEF Followed
  <2> QED
    BY <2>2, <2>3
<1>8. ASSUME NEW w \in Worker, StartStage(w) PROVE FALSE
  BY <1>3, <1>8 DEF StartStage
<1>9. ASSUME NEW w \in Worker, ListRound(w) PROVE Followed'
  BY <1>5, <1>6, <1>9, FollowedListRound DEF ListRound
<1>10. ASSUME NEW w \in Worker, PairRound(w) PROVE Followed'
  BY <1>5, <1>6, <1>10, FollowedPairRound DEF PairRound
<1>11. ASSUME NEW w \in Worker, SaveResult(w) PROVE Followed'
  BY <1>3, <1>11, PairedSaveResult
<1>12. ASSUME NEW w \in Worker, NEW row, CreateRow(w, row) PROVE Followed'
  <2>1. CASE \E r \in table : Key(r) = Key(Placed(w, row))
    <3>1. Go(w, Idle) /\ UNCHANGED table /\ Is(w, "create") /\ row \in job[w].todo
      BY <1>12, <2>1 DEF CreateRow, Done
    <3>2. Open = {} /\ Followed
      BY <1>5, <3>1
    <3>3. ~Follows(job[w])
      BY <1>12, <2>1, <3>1, NoConflict
    <3> QED
      BY <1>6, <1>12, <3>1, <3>2, <3>3, FollowedGo
  <2>2. CASE ~\E r \in table : Key(r) = Key(Placed(w, row))
    <3>1. Open = {}
      <4>1. Open \subseteq Open'
        BY <1>12, <2>2 DEF CreateRow, Open
      <4> QED
        BY <1>1, <4>1
    <3>2. Followed
      BY <1>2, <1>3, <3>1 DEF PairedInv
    <3> QED
      BY <1>1, <1>6, <1>12, <2>2, <3>2, FollowedCreateRow
  <2> QED
    BY <2>1, <2>2
<1> QED
  BY <1>2, <1>7, <1>8, <1>9, <1>10, <1>11, <1>12, UntouchedNext

(* The next round, with the rounds, the calls that create them and the     *)
(* entries that retire.                                                    *)
WaitInv == stage.format = "swiss" => StateInv /\ TodoInv /\ StartInv /\ PairedInv

LEMMA WaitNext ==
  ASSUME Base, SwissInv, OutInv, faults \in Nat, WaitInv, {"round", "state"} \cap Overlaps = {},
         [Next]_vars
  PROVE  WaitInv'
<1>1. Base' /\ Frame
  BY BaseNext
<1>2. SUFFICES ASSUME stage.format = "swiss" PROVE StateInv' /\ TodoInv' /\ StartInv' /\ PairedInv'
  BY <1>1 DEF WaitInv, Frame
<1>3. /\ RoundsInv /\ CallsInv /\ OutCalls /\ OutStatus
      /\ StateInv /\ TodoInv /\ StartInv /\ PairedInv
      /\ "round" \notin Overlaps /\ "state" \notin Overlaps
  BY <1>2 DEF SwissInv, OutInv, WaitInv
<1>4. Active' \subseteq Active
  BY <1>1, <1>3, ActiveNext
<1>5. StateInv'
  BY <1>1, <1>3, StateNext
<1>6. TodoInv'
  BY <1>2, <1>3, <1>4, TodoNext
<1>7. StartInv'
  BY <1>1, <1>2, <1>3, StartNext
<1>8. PairedInv'
  BY <1>1, <1>2, <1>3, PairedNext
<1> QED
  BY <1>5, <1>6, <1>7, <1>8

LEMMA WaitInit == Init => WaitInv
<1>1. Init => stage.state = "draft" /\ table = {} /\ Busy = {}
  BY DEF Init, Busy
<1> QED
  BY <1>1 DEF WaitInv, StateInv, TodoInv, StartInv, PairedInv

-----------------------------------------------------------------------------
(* Drawing the next stage's field.                                         *)

Ahead(S, rank, e) == {f \in S : rank[f] < rank[e] \/ (rank[f] = rank[e] /\ f < e)}

(* R lists S, the best first. *)
Lists(R, S, rank) ==
  /\ Cardinality(S) \in Nat /\ DOMAIN R = 1..Cardinality(S)
  /\ \A i \in 1..Cardinality(S) : R[i] \in S
  /\ \A i, j \in 1..Cardinality(S) : i < j => R[i] # R[j] /\ rank[R[i]] <= rank[R[j]]
  /\ \A e \in S : \E i \in 1..Cardinality(S) : R[i] = e

LEMMA UpTo == ASSUME NEW k \in Nat PROVE IsFiniteSet(1..k) /\ Cardinality(1..k) = k
<1>1. /\ IsFiniteSet(1..k)
      /\ Cardinality(1..k) = IF 1 > k THEN 0 ELSE k - 1 + 1
  BY FS_Interval
<1> QED
  BY <1>1

LEMMA RankedLists ==
  ASSUME NEW S \in SUBSET Int, IsFiniteSet(S), NEW rank, \A e \in S : rank[e] \in Int
  PROVE  Lists(Ranked(S, rank), S, rank)
<1> DEFINE B(e) == Ahead(S, rank, e)
<1>0. PICK n \in Nat : n = Cardinality(S)
  BY FS_CardinalityType
<1>1. \A e \in S : /\ IsFiniteSet(B(e)) /\ Cardinality(B(e)) \in Nat /\ Cardinality(B(e)) < n
  <2> SUFFICES ASSUME NEW e \in S
               PROVE  IsFiniteSet(B(e)) /\ Cardinality(B(e)) \in Nat /\ Cardinality(B(e)) < n
    OBVIOUS
  <2>1. B(e) \subseteq S /\ e \notin B(e)
    BY DEF Ahead
  <2> HIDE DEF B
  <2>2. /\ IsFiniteSet(B(e)) /\ Cardinality(B(e)) <= Cardinality(S)
        /\ Cardinality(S) = Cardinality(B(e)) => S = B(e)
    BY <2>1, FS_Subset
  <2>3. Cardinality(B(e)) \in Nat
    BY <2>2, FS_CardinalityType
  <2> QED
    BY <1>0, <2>1, <2>2, <2>3
<1>2. \A e, f \in S : e \in B(f) => Cardinality(B(e)) < Cardinality(B(f))
  <2> SUFFICES ASSUME NEW e \in S, NEW f \in S, e \in B(f)
               PROVE  Cardinality(B(e)) < Cardinality(B(f))
    OBVIOUS
  <2>1. B(e) \subseteq B(f) /\ e \notin B(e)
    <3>1. e \notin B(e)
      BY DEF Ahead
    <3>2. \A x \in S : rank[x] \in Int /\ x \in Int
      OBVIOUS
    <3>3. rank[e] < rank[f] \/ (rank[e] = rank[f] /\ e < f)
      BY DEF Ahead
    <3>4. ASSUME NEW x \in B(e) PROVE x \in B(f)
      <4>1. x \in S /\ (rank[x] < rank[e] \/ (rank[x] = rank[e] /\ x < e))
        BY <3>4 DEF Ahead
      <4>2. rank[x] < rank[f] \/ (rank[x] = rank[f] /\ x < f)
        BY <3>2, <3>3, <4>1
      <4> QED
        BY <4>1, <4>2 DEF Ahead
    <3> QED
      BY <3>1, <3>4
  <2> HIDE DEF B
  <2>2. /\ Cardinality(B(e)) <= Cardinality(B(f))
        /\ Cardinality(B(f)) = Cardinality(B(e)) => B(f) = B(e)
    BY <1>1, <2>1, FS_Subset
  <2> QED
    BY <1>1, <2>1, <2>2
<1>3. \A e, f \in S : e # f => e \in B(f) \/ f \in B(e)
  BY DEF Ahead
<1>4. \A e, f \in S : e \in B(f) => rank[e] <= rank[f]
  BY DEF Ahead
<1>5. Ranked(S, rank) = [i \in 1..n |-> CHOOSE e \in S : Cardinality(B(e)) = i - 1]
  BY <1>0 DEF Ranked, Ahead
<1> HIDE DEF B
<1>6. PICK c : c = [e \in S |-> Cardinality(B(e)) + 1]
  OBVIOUS
<1>7. \A i \in 1..n : \E e \in S : Cardinality(B(e)) = i - 1
  <2>1. PICK T : T = 1..n /\ IsFiniteSet(T) /\ Cardinality(T) = n
    BY UpTo
  <2>2. c \in Injection(S, T)
    <3>1. c \in [S -> T]
      BY <1>1, <1>6, <2>1
    <3>2. ASSUME NEW e \in S, NEW f \in S, c[e] = c[f] PROVE e = f
      <4>1. Cardinality(B(e)) = Cardinality(B(f))
        BY <1>1, <1>6, <3>2
      <4> QED
        BY <1>1, <1>2, <1>3, <4>1
    <3> QED
      BY <3>1, <3>2 DEF Injection, IsInjective
  <2>3. c \in Surjection(S, T)
    BY <1>0, <2>1, <2>2, FS_Injection
  <2>4. ASSUME NEW i \in 1..n PROVE \E e \in S : Cardinality(B(e)) = i - 1
    <3>1. PICK e \in S : c[e] = i
      BY <2>1, <2>3 DEF Surjection
    <3> QED
      BY <1>1, <1>6, <3>1
  <2> QED
    BY <2>4
<1>8. PICK R : R = Ranked(S, rank)
  OBVIOUS
<1>9. \A i \in 1..n : R[i] \in S /\ Cardinality(B(R[i])) = i - 1
  <2> SUFFICES ASSUME NEW i \in 1..n PROVE R[i] \in S /\ Cardinality(B(R[i])) = i - 1
    OBVIOUS
  <2>1. R[i] = CHOOSE e \in S : Cardinality(B(e)) = i - 1
    BY <1>5, <1>8
  <2> QED
    BY <1>7, <2>1
<1>10. ASSUME NEW i \in 1..n, NEW j \in 1..n, i < j PROVE R[i] # R[j] /\ rank[R[i]] <= rank[R[j]]
  <2>1. R[i] # R[j]
    BY <1>9, <1>10
  <2>2. ~(R[j] \in B(R[i]))
    <3>1. R[i] \in S /\ R[j] \in S /\ Cardinality(B(R[i])) = i - 1 /\ Cardinality(B(R[j])) = j - 1
      BY <1>9
    <3>2. R[j] \in B(R[i]) => j - 1 < i - 1
      BY <1>2, <3>1
    <3> QED
      BY <1>10, <3>2
  <2> QED
    BY <1>3, <1>4, <1>9, <2>1, <2>2
<1>11. ASSUME NEW e \in S PROVE \E i \in 1..n : R[i] = e
  <2>1. PICK i \in 1..n : i = Cardinality(B(e)) + 1
    BY <1>1
  <2>2. Cardinality(B(R[i])) = Cardinality(B(e)) /\ R[i] \in S
    BY <1>1, <1>9, <2>1
  <2>3. PICK f \in S : f = R[i]
    BY <2>2
  <2>4. e \notin B(f) /\ f \notin B(e)
    BY <1>1, <1>2, <2>2, <2>3
  <2> QED
    BY <1>3, <2>3, <2>4
<1> QED
  BY <1>0, <1>5, <1>8, <1>9, <1>10, <1>11 DEF Lists

(* Ranks are numbers: whoever is ahead is one of the entries. *)
Kept(results, chain, e, group, k) ==
  {f \in group : Score(results, chain[k], group, f) = Score(results, chain[k], group, e)}

Level(results, entries, e) == {f \in entries : Points(results, f) = Points(results, e)}

TiedTo(results, entries, chain, e, m, t) ==
  t = [k \in 0..m |-> IF k = 0 THEN Level(results, entries, e)
                      ELSE Kept(results, chain, e, t[k - 1], k)]

LEMMA TiedWithIs ==
  ASSUME NEW results, NEW entries, NEW chain, NEW e
  PROVE  TiedWith(results, entries, chain, e)
           = CHOOSE t : TiedTo(results, entries, chain, e, Len(chain), t)
BY DEF TiedWith, TiedTo, Kept, Level

LEMMA TiedExists ==
  ASSUME NEW results, NEW entries, NEW chain, NEW e, NEW n \in Nat
  PROVE  \E t : TiedTo(results, entries, chain, e, n, t)
<1> DEFINE Q(m) == \E t : TiedTo(results, entries, chain, e, m, t)
           T == {m \in Nat : ~Q(m)}
<1>1. Q(0)
  <2> DEFINE t == [k \in 0..0 |-> Level(results, entries, e)]
  <2>1. t = [k \in 0..0 |-> IF k = 0 THEN Level(results, entries, e)
                            ELSE Kept(results, chain, e, t[k - 1], k)]
    OBVIOUS
  <2> HIDE DEF t
  <2> QED
    BY <2>1 DEF TiedTo
<1>2. ASSUME NEW m \in Nat, Q(m) PROVE Q(m + 1)
  <2>1. PICK t : TiedTo(results, entries, chain, e, m, t)
    BY <1>2
  <2>2. t = [k \in 0..m |-> IF k = 0 THEN Level(results, entries, e)
                            ELSE Kept(results, chain, e, t[k - 1], k)]
    BY <2>1 DEF TiedTo
  <2> DEFINE u == [k \in 0..m + 1 |-> IF k = m + 1 THEN Kept(results, chain, e, t[m], m + 1) ELSE t[k]]
  <2>3. ASSUME NEW k \in 0..m + 1
        PROVE  u[k] = IF k = 0 THEN Level(results, entries, e)
                      ELSE Kept(results, chain, e, u[k - 1], k)
    <3>1. CASE k = m + 1
      <4>1. u[k] = Kept(results, chain, e, t[m], m + 1) /\ u[k - 1] = t[m] /\ k # 0
        BY <3>1
      <4> QED
        BY <3>1, <4>1
    <3>2. CASE k \in 0..m
      <4>1. u[k] = t[k] /\ (k # 0 => u[k - 1] = t[k - 1])
        BY <3>2
      <4> HIDE DEF u
      <4>2. t[k] = IF k = 0 THEN Level(results, entries, e) ELSE Kept(results, chain, e, t[k - 1], k)
        BY <2>2, <3>2
      <4> QED
        BY <4>1, <4>2
    <3> QED
      BY <3>1, <3>2
  <2>4. u = [k \in 0..m + 1 |-> u[k]]
    OBVIOUS
  <2> HIDE DEF u
  <2>5. u = [k \in 0..m + 1 |-> IF k = 0 THEN Level(results, entries, e)
                                ELSE Kept(results, chain, e, u[k - 1], k)]
    BY <2>3, <2>4
  <2> QED
    BY <2>5 DEF TiedTo
<1> HIDE DEF Q
<1>3. CASE T = {}
  BY <1>3 DEF Q
<1>4. CASE T # {}
  <2>1. PICK m \in T : \A k \in T : m <= k
    <3>1. T \subseteq Nat
      OBVIOUS
    <3> HIDE DEF T
    <3> QED
      BY <1>4, <3>1, LeastExists
  <2>2. m \in Nat /\ ~Q(m) /\ m # 0
    BY <1>1
  <2>3. m - 1 \in Nat /\ m - 1 < m
    BY <2>2
  <2>4. m - 1 \notin T
    <3> HIDE DEF T
    <3> QED
      BY <2>1, <2>2, <2>3
  <2>5. Q(m - 1)
    BY <2>3, <2>4
  <2>6. Q((m - 1) + 1) /\ (m - 1) + 1 = m
    BY <1>2, <2>3, <2>5
  <2> QED
    BY <2>2, <2>6
<1> QED
  BY <1>3, <1>4

LEMMA TiedAmong ==
  ASSUME NEW results, NEW entries, NEW chain, Len(chain) \in Nat, NEW e
  PROVE  \A k \in 0..Len(chain) : TiedWith(results, entries, chain, e)[k] \subseteq entries
<1>1. PICK n \in Nat : n = Len(chain)
  OBVIOUS
<1>2. PICK t : t = TiedWith(results, entries, chain, e)
  OBVIOUS
<1>3. TiedTo(results, entries, chain, e, n, t)
  <2>1. t = CHOOSE u : TiedTo(results, entries, chain, e, n, u)
    BY <1>1, <1>2, TiedWithIs
  <2>2. \E u : TiedTo(results, entries, chain, e, n, u)
    BY TiedExists
  <2> QED
    BY <2>1, <2>2
<1>4. t = [k \in 0..n |-> IF k = 0 THEN Level(results, entries, e)
                          ELSE Kept(results, chain, e, t[k - 1], k)]
  BY <1>3 DEF TiedTo
<1>5. t[0] \subseteq entries
  <2>1. t[0] = Level(results, entries, e)
    BY <1>4
  <2> QED
    BY <2>1 DEF Level
<1>6. ASSUME NEW k \in 1..n, t[k - 1] \subseteq entries PROVE t[k] \subseteq entries
  <2>1. t[k] = Kept(results, chain, e, t[k - 1], k)
    BY <1>4
  <2> QED
    BY <1>6, <2>1 DEF Kept
<1> DEFINE T == {k \in 0..n : ~(t[k] \subseteq entries)}
<1>7. CASE T = {}
  BY <1>1, <1>2, <1>7
<1>8. CASE T # {}
  <2>1. PICK m \in T : \A k \in T : m <= k
    <3>1. T \subseteq Nat
      OBVIOUS
    <3> HIDE DEF T
    <3> QED
      BY <1>8, <3>1, LeastExists
  <2>2. m \in 0..n /\ ~(t[m] \subseteq entries) /\ m # 0
    BY <1>5
  <2>3. m - 1 \in 0..n /\ m - 1 < m /\ m \in 1..n
    BY <2>2
  <2>4. m - 1 \notin T
    <3> HIDE DEF T
    <3> QED
      BY <2>1, <2>2, <2>3
  <2> QED
    BY <1>6, <2>2, <2>3, <2>4
<1> QED
  BY <1>7, <1>8

LEMMA RankIs ==
  ASSUME NEW results, NEW entries, IsFiniteSet(entries), NEW e
  PROVE  RankOf(results, entries, Chain, e) \in Nat
<1>1. Len(Chain) \in Nat
  BY ChainAssumption
<1>2. PICK t : t = TiedWith(results, entries, Chain, e)
  OBVIOUS
<1>3. \A k \in 1..Len(Chain) : t[k - 1] \subseteq entries
  BY <1>1, <1>2, TiedAmong
<1>4. AheadOf(results, entries, Chain, e)
        = {f \in entries : Points(results, f) > Points(results, e)} \cup
          UNION {{f \in t[k - 1] : Score(results, Chain[k], t[k - 1], f)
                                     > Score(results, Chain[k], t[k - 1], e)} :
                 k \in 1..Len(Chain)}
  BY <1>2 DEF AheadOf
<1>5. AheadOf(results, entries, Chain, e) \subseteq entries
  BY <1>3, <1>4
<1>6. Cardinality(AheadOf(results, entries, Chain, e)) \in Nat
  BY <1>5, FS_Subset, FS_CardinalityType
<1> QED
  BY <1>6 DEF RankOf

(* The advancers stand in rows of one per group: place i is in row        *)
(* InRow(G, i), of the group InColumn(G, i).                              *)
InColumn(G, i) == 1 + ((i - 1) % G)
InRow(G, i) == 1 + ((i - 1) \div G)
Grid(n, G, count) == n = G * count

LEMMA GridIs ==
  ASSUME NEW G \in Nat \ {0}, NEW count \in Nat \ {0}, NEW n \in Nat, Grid(n, G, count)
  PROVE  /\ \A i \in 1..n : InColumn(G, i) \in 1..G /\ InRow(G, i) \in 1..count
         /\ \A i, j \in 1..n :
              InColumn(G, i) = InColumn(G, j) /\ InRow(G, i) = InRow(G, j) => i = j
         /\ \A c \in 1..G, r \in 1..count :
              \E i \in 1..n : InColumn(G, i) = c /\ InRow(G, i) = r
<1>0. n = G * count
  BY DEF Grid
<1>1. ASSUME NEW a \in Nat
      PROVE  a \div G \in Nat /\ a % G \in 0..G - 1 /\ a = (a \div G) * G + (a % G)
  BY <1>1
<1>2. ASSUME NEW a \in Nat, NEW b \in Nat, a < b
      PROVE  a * G + G <= b * G /\ a * G \in Nat /\ b * G \in Nat
  BY <1>2
<1>3. ASSUME NEW a \in Nat, NEW c \in 0..G - 1
      PROVE  (a * G + c) \div G = a /\ (a * G + c) % G = c
  BY <1>3
<1>4. ASSUME NEW i \in 1..n PROVE InColumn(G, i) \in 1..G /\ InRow(G, i) \in 1..count
  <2>1. PICK a \in Nat : a = i - 1 /\ a < n
    BY <1>4
  <2>2. PICK q \in Nat, r \in 0..G - 1 : q = a \div G /\ r = a % G /\ a = q * G + r
    BY <1>1
  <2>3. ~(count < q)
    <3>1. count < q => count * G + G <= q * G /\ count * G \in Nat /\ q * G \in Nat
      BY <1>2
    <3> QED
      BY <1>0, <2>1, <2>2, <3>1
  <2>4. count # q
    <3>1. PICK x \in Nat : x = q * G
      OBVIOUS
    <3> QED
      BY <1>0, <2>1, <2>2, <3>1
  <2> QED
    BY <2>1, <2>2, <2>3, <2>4 DEF InColumn, InRow
<1>5. ASSUME NEW i \in 1..n, NEW j \in 1..n, InColumn(G, i) = InColumn(G, j), InRow(G, i) = InRow(G, j)
      PROVE  i = j
  <2>1. PICK a \in Nat, b \in Nat : a = i - 1 /\ b = j - 1
    BY <1>5
  <2>2. PICK q \in Nat, r \in 0..G - 1 : q = a \div G /\ r = a % G /\ a = q * G + r
    BY <1>1
  <2>3. PICK p \in Nat, s \in 0..G - 1 : p = b \div G /\ s = b % G /\ b = p * G + s
    BY <1>1
  <2>4. q = p /\ r = s
    BY <1>5, <2>1, <2>2, <2>3 DEF InColumn, InRow
  <2> QED
    BY <2>1, <2>2, <2>3, <2>4
<1>6. ASSUME NEW c \in 1..G, NEW r \in 1..count
      PROVE  \E i \in 1..n : InColumn(G, i) = c /\ InRow(G, i) = r
  <2>1. PICK u \in Nat, h \in 0..G - 1 : u = r - 1 /\ h = c - 1
    OBVIOUS
  <2>2. PICK x \in Nat : x = u * G
    OBVIOUS
  <2>3. u * G + G <= count * G
    <3>1. u < count
      BY <2>1
    <3> QED
      BY <1>2, <3>1
  <2>4. PICK i \in 1..n : i = x + h + 1
    BY <1>0, <2>2, <2>3
  <2>5. i - 1 = u * G + h
    BY <2>2, <2>4
  <2>6. (i - 1) \div G = u /\ (i - 1) % G = h
    BY <1>3, <2>5
  <2>7. InColumn(G, i) = c /\ InRow(G, i) = r
    BY <2>1, <2>6 DEF InColumn, InRow
  <2> QED
    BY <2>7
<1> QED
  BY <1>4, <1>5, <1>6

(* a is n of S, each once, and leaves out nobody who is ahead of one of    *)
(* the same group that it takes.                                           *)
Through(a, n, S, rank, groupOf) ==
  /\ a \in [1..n -> S]
  /\ \A i, j \in 1..n : a[i] = a[j] => i = j
  /\ \A i \in 1..n, f \in S :
       (\A j \in 1..n : a[j] # f) /\ groupOf[a[i]] = groupOf[f] => rank[a[i]] <= rank[f]

(* The entries of a group, as ranked. *)
OfGroup(S, groupOf, g) == {e \in S : groupOf[e] = g}
Best(S, rank, groupOf, gs) == [i \in DOMAIN gs |-> Ranked(OfGroup(S, groupOf, gs[i]), rank)]
Taking(best, G, n) == [i \in 1..n |-> best[InColumn(G, i)][InRow(G, i)]]
InOrderOf(S) == Ranked(S, [g \in S |-> g])

LEMMA AdvancersAre ==
  ASSUME NEW S, NEW rank, NEW groupOf, NEW count
  PROVE  \A gs : gs = InOrderOf({groupOf[e] : e \in S}) =>
           Advancers(S, rank, groupOf, count)
             = Taking(Best(S, rank, groupOf, gs), Len(gs), count * Len(gs))
BY DEF Advancers, Taking, Best, OfGroup, InColumn, InRow, InOrderOf

LEMMA RankedIs ==
  ASSUME NEW S, NEW rank
  PROVE  Ranked(S, rank) = [i \in 1..Cardinality(S) |-> Ranked(S, rank)[i]]
<1> DEFINE best(i) ==
      CHOOSE e \in S :
        Cardinality({f \in S : rank[f] < rank[e] \/ (rank[f] = rank[e] /\ f < e)}) = i - 1
<1>1. Ranked(S, rank) = [i \in 1..Cardinality(S) |-> best(i)]
  BY DEF Ranked
<1> HIDE DEF best
<1> QED
  BY <1>1

LEMMA AdvancersThrough ==
  ASSUME NEW S \in SUBSET Int, IsFiniteSet(S), NEW rank, \A e \in S : rank[e] \in Int,
         NEW groupOf, \A e \in S : groupOf[e] \in Int, NEW count \in Nat \ {0},
         EnoughRanked(S, groupOf, count)
  PROVE  \E G \in Nat \ {0}, n \in Nat \ {0} :
           Grid(n, G, count) /\ Through(Advancers(S, rank, groupOf, count), n, S, rank, groupOf)
<1>1. PICK D : D = {groupOf[e] : e \in S}
  OBVIOUS
<1>2. IsFiniteSet(D) /\ D \subseteq Int /\ D # {}
  <2>1. IsFiniteSet({groupOf[e] : e \in S})
    <3>1. PICK h : h = [e \in S |-> groupOf[e]]
      OBVIOUS
    <3>2. h \in Surjection(S, D)
      BY <1>1, <3>1 DEF Surjection
    <3> QED
      BY <1>1, <3>2, FS_Surjection
  <2>2. S # {}
    BY DEF EnoughRanked
  <2> QED
    BY <1>1, <2>1, <2>2
<1>3. PICK gs : gs = InOrderOf(D)
  OBVIOUS
<1>4. Lists(gs, D, [g \in D |-> g])
  <2>1. \A g \in D : [h \in D |-> h][g] \in Int
    BY <1>2
  <2> QED
    BY <1>2, <1>3, <2>1, RankedLists DEF InOrderOf
<1>5. PICK G \in Nat \ {0} : G = Cardinality(D)
  <2>1. Cardinality(D) \in Nat /\ Cardinality(D) # 0
    BY <1>2, FS_CardinalityType, FS_EmptySet
  <2> QED
    BY <2>1
<1>6. /\ DOMAIN gs = 1..G
      /\ \A c \in 1..G : gs[c] \in D
      /\ \A c, d \in 1..G : gs[c] = gs[d] => c = d
      /\ \A g \in D : \E c \in 1..G : gs[c] = g
  <2>1. \A c, d \in 1..G : c < d => gs[c] # gs[d]
    BY <1>4, <1>5 DEF Lists
  <2>2. \A c, d \in 1..G : gs[c] = gs[d] => c = d
    BY <2>1
  <2> QED
    BY <1>4, <1>5, <2>2 DEF Lists
<1>7. Len(gs) = G
  <2>1. gs = [c \in 1..G |-> gs[c]]
    <3>1. gs = [c \in 1..Cardinality(D) |-> gs[c]]
      BY <1>3, RankedIs DEF InOrderOf
    <3> QED
      BY <1>5, <3>1
  <2> QED
    BY <2>1
<1>8. PICK n \in Nat \ {0} : n = G * count /\ n = count * G
  OBVIOUS
<1>9. Grid(n, G, count)
  BY <1>8 DEF Grid
<1>10. /\ \A i \in 1..n : InColumn(G, i) \in 1..G /\ InRow(G, i) \in 1..count
       /\ \A i, j \in 1..n :
            InColumn(G, i) = InColumn(G, j) /\ InRow(G, i) = InRow(G, j) => i = j
       /\ \A c \in 1..G, r \in 1..count :
            \E i \in 1..n : InColumn(G, i) = c /\ InRow(G, i) = r
  BY <1>9, GridIs
<1>11. PICK best : best = Best(S, rank, groupOf, gs)
  OBVIOUS
<1>12. \A c \in 1..G : /\ Lists(best[c], OfGroup(S, groupOf, gs[c]), rank)
                       /\ Cardinality(OfGroup(S, groupOf, gs[c])) >= count
  <2> SUFFICES ASSUME NEW c \in 1..G
               PROVE  /\ Lists(best[c], OfGroup(S, groupOf, gs[c]), rank)
                      /\ Cardinality(OfGroup(S, groupOf, gs[c])) >= count
    OBVIOUS
  <2>1. PICK T : T = OfGroup(S, groupOf, gs[c])
    OBVIOUS
  <2>2. T \subseteq S
    BY <2>1 DEF OfGroup
  <2>3. T \in SUBSET Int /\ IsFiniteSet(T) /\ \A e \in T : rank[e] \in Int
    BY <2>2, FS_Subset
  <2>4. Lists(Ranked(T, rank), T, rank)
    BY <2>3, RankedLists
  <2>5. best[c] = Ranked(T, rank)
    BY <1>6, <1>11, <2>1 DEF Best
  <2>6. Cardinality(T) >= count
    <3>1. gs[c] \in {groupOf[e] : e \in S}
      BY <1>1, <1>6
    <3>2. Cardinality({e \in S : groupOf[e] = gs[c]}) >= count
      BY <3>1 DEF EnoughRanked
    <3> QED
      BY <2>1, <3>2 DEF OfGroup
  <2> QED
    BY <2>1, <2>4, <2>5, <2>6
<1>13. PICK a : a = Advancers(S, rank, groupOf, count)
  OBVIOUS
<1>14. a = [i \in 1..n |-> best[InColumn(G, i)][InRow(G, i)]]
  <2>1. a = Taking(Best(S, rank, groupOf, gs), Len(gs), count * Len(gs))
    <3>1. gs = InOrderOf({groupOf[e] : e \in S})
      BY <1>1, <1>3
    <3>2. Advancers(S, rank, groupOf, count)
            = Taking(Best(S, rank, groupOf, gs), Len(gs), count * Len(gs))
      BY <3>1, AdvancersAre
    <3> QED
      BY <1>13, <3>2
  <2>2. a = Taking(best, G, n)
    BY <1>7, <1>8, <1>11, <2>1
  <2> QED
    BY <2>2 DEF Taking
<1>15. \A c \in 1..G :
         /\ \A r \in 1..count : best[c][r] \in S /\ groupOf[best[c][r]] = gs[c]
         /\ \A r, s \in 1..count : best[c][r] = best[c][s] => r = s
         /\ \A f \in S : groupOf[f] = gs[c] /\ (\A r \in 1..count : best[c][r] # f) =>
              \A r \in 1..count : rank[best[c][r]] <= rank[f]
  <2> SUFFICES ASSUME NEW c \in 1..G
               PROVE  /\ \A r \in 1..count : best[c][r] \in S /\ groupOf[best[c][r]] = gs[c]
                      /\ \A r, s \in 1..count : best[c][r] = best[c][s] => r = s
                      /\ \A f \in S : groupOf[f] = gs[c] /\ (\A r \in 1..count : best[c][r] # f) =>
                           \A r \in 1..count : rank[best[c][r]] <= rank[f]
    OBVIOUS
  <2>1. PICK T : T = OfGroup(S, groupOf, gs[c])
    OBVIOUS
  <2>2. PICK R : R = best[c]
    OBVIOUS
  <2>3. PICK k \in Nat : k = Cardinality(T) /\ k >= count
    BY <1>12, <2>1 DEF Lists
  <2>4. /\ \A i \in 1..k : R[i] \in T
        /\ \A i, j \in 1..k : i < j => R[i] # R[j] /\ rank[R[i]] <= rank[R[j]]
        /\ \A e \in T : \E i \in 1..k : R[i] = e
    <3>1. Lists(R, T, rank)
      BY <1>12, <2>1, <2>2
    <3> QED
      BY <2>3, <3>1 DEF Lists
  <2>5. \A e : e \in T <=> e \in S /\ groupOf[e] = gs[c]
    BY <2>1 DEF OfGroup
  <2>6. \A r \in 1..count : r \in 1..k
    BY <2>3
  <2>7. \A r \in 1..count : R[r] \in S /\ groupOf[R[r]] = gs[c]
    BY <2>4, <2>5, <2>6
  <2>8. \A r, s \in 1..count : R[r] = R[s] => r = s
    BY <2>4, <2>6
  <2>9. ASSUME NEW f \in S, groupOf[f] = gs[c], \A r \in 1..count : R[r] # f, NEW r \in 1..count
        PROVE  rank[R[r]] <= rank[f]
    <3>1. PICK i \in 1..k : R[i] = f
      BY <2>4, <2>5, <2>9
    <3>2. r \in 1..k /\ r < i
      BY <2>3, <2>9, <3>1
    <3> QED
      BY <2>4, <3>1, <3>2
  <2> QED
    BY <2>2, <2>7, <2>8, <2>9
<1>16. \A i \in 1..n : a[i] = best[InColumn(G, i)][InRow(G, i)]
  BY <1>14
<1>17. a \in [1..n -> S]
  BY <1>10, <1>14, <1>15
<1>18. ASSUME NEW i \in 1..n, NEW j \in 1..n, a[i] = a[j] PROVE i = j
  <2>1. PICK c \in 1..G, r \in 1..count : c = InColumn(G, i) /\ r = InRow(G, i)
    BY <1>10
  <2>2. PICK d \in 1..G, s \in 1..count : d = InColumn(G, j) /\ s = InRow(G, j)
    BY <1>10
  <2>3. best[c][r] = best[d][s]
    BY <1>16, <1>18, <2>1, <2>2
  <2>4. c = d
    <3>1. groupOf[best[c][r]] = gs[c] /\ groupOf[best[d][s]] = gs[d]
      BY <1>15
    <3> QED
      BY <1>6, <2>3, <3>1
  <2>5. r = s
    BY <1>15, <2>3, <2>4
  <2> QED
    BY <1>10, <2>1, <2>2, <2>4, <2>5
<1>19. ASSUME NEW i \in 1..n, NEW f \in S, \A j \in 1..n : a[j] # f, groupOf[a[i]] = groupOf[f]
       PROVE  rank[a[i]] <= rank[f]
  <2>1. PICK c \in 1..G, r \in 1..count : c = InColumn(G, i) /\ r = InRow(G, i)
    BY <1>10
  <2>2. a[i] = best[c][r] /\ groupOf[f] = gs[c]
    BY <1>15, <1>16, <1>19, <2>1
  <2>3. ASSUME NEW s \in 1..count, best[c][s] = f PROVE FALSE
    <3>1. PICK j \in 1..n : InColumn(G, j) = c /\ InRow(G, j) = s
      BY <1>10
    <3> QED
      BY <1>16, <1>19, <2>3, <3>1
  <2> QED
    BY <1>15, <2>2, <2>3
<1> QED
  BY <1>9, <1>13, <1>17, <1>18, <1>19 DEF Through

(* What is proved of the engines; the walk through their graphs that module *)
(* checks is not looked at here.                                            *)
Engines == INSTANCE MCEliminationGraph_proofs
  WITH MaxField <- 2, NoPointer <- <<>>,
       stage <- None, at <- None, losses <- None, champion <- None

LEMMA EmptyNoPointer == <<>> \notin [match : Int \X Int, slot : Engines!Slot]
<1>1. \A p \in [match : Int \X Int, slot : Engines!Slot] : DOMAIN p = {"match", "slot"}
  OBVIOUS
<1>2. DOMAIN <<>> # {"match", "slot"}
  OBVIOUS
<1> QED
  BY <1>1, <1>2

LEMMA ScheduleSound == Sound
<1> SUFFICES ASSUME NEW n \in Nat, NEW groups \in 1..n PROVE IsRoundRobin(n, groups)
  BY DEF Sound
<1>1. Engines!IsRoundRobin(n, groups)
  BY Engines!RoundRobinIs, EmptyNoPointer, NoneAssumption
<1>2. \A g : Engines!GroupSeeds(n, groups, g) = GroupSeeds(n, groups, g)
  BY DEF Engines!GroupSeeds, GroupSeeds, Engines!GroupOf, GroupOf, Engines!Cardinality, Cardinality
<1>3. \A s, g : Engines!ScheduleGroup(s, g) = ScheduleGroup(s, g)
  BY DEF Engines!ScheduleGroup, ScheduleGroup, Engines!Cardinality, Cardinality,
         Engines!Arrangements, Arrangements, Engines!Turn, Turn, Engines!Front, Front,
         Engines!Last, Last, Engines!Phantom, Phantom
<1>4. Engines!RoundRobinMatches(n, groups) = RoundRobinMatches(n, groups)
  BY <1>2, <1>3 DEF Engines!RoundRobinMatches, RoundRobinMatches
<1> QED
  BY <1>1, <1>4 DEF Engines!IsRoundRobin, IsRoundRobin

(* Laying the advancers out by groups reorders them. *)
LEMMA RankedTheSame ==
  ASSUME NEW S, NEW rank
  PROVE  Engines!Ranked(S, rank) = Ranked(S, rank)
BY DEF Engines!Ranked, Ranked, Engines!Cardinality, Cardinality, Engines!IsFiniteSet, IsFiniteSet

LEMMA SeatsTheSame ==
  ASSUME NEW G, NEW count
  PROVE  Engines!SeatGroups(G, count) = SeatGroups(G, count)
BY Zenon DEF Engines!SeatGroups, SeatGroups, Engines!Ranked, Ranked,
       Engines!Cardinality, Cardinality, Engines!IsFiniteSet, IsFiniteSet,
       Engines!Opening!next_power_of_two, Opening!next_power_of_two,
       Engines!Opening!Rounds, Opening!Rounds

LEMMA SnakeThrough ==
  ASSUME NEW G \in Nat \ {0}, NEW count \in Nat \ {0}, NEW n \in Nat \ {0}, Grid(n, G, count),
         NEW a, NEW S, NEW rank, NEW groupOf, Through(a, n, S, rank, groupOf)
  PROVE  Through(SnakeOrder(a, G, count), n, S, rank, groupOf)
<1>1. CASE G < 2
  BY <1>1 DEF SnakeOrder
<1>2. CASE G >= 2
  <2>1. n >= 2 /\ Engines!Split(n, G, count)
    <3>1. n = G * count
      BY DEF Grid
    <3>2. n >= 2
      <4>1. PICK k \in Nat : k = count - 1
        OBVIOUS
      <4>2. n = G * k + G /\ G * k \in Nat
        BY <3>1, <4>1
      <4> QED
        BY <1>2, <4>2
    <3> QED
      BY <3>1, <3>2 DEF Engines!Split
  <2>2. Engines!Shuffled(Engines!SeatGroups(G, count), G, n)
    BY <1>2, <2>1, Engines!SeatsShuffled, EmptyNoPointer, NoneAssumption DEF Engines!Split
  <2>3. PICK seats : seats = SeatGroups(G, count)
    OBVIOUS
  <2>4. Engines!Shuffled(seats, G, n)
    BY <2>2, <2>3, SeatsTheSame
  <2>5. \A s : Engines!TierAt(seats, s) = TierAt(seats, s)
    BY DEF Engines!TierAt, TierAt, Engines!Cardinality, Cardinality,
           Engines!IsFiniteSet, IsFiniteSet
  <2>6. PICK p : p = [s \in 1..n |-> (TierAt(seats, s) - 1) * G + seats[s]]
    OBVIOUS
  <2>7. \A s \in 1..n : Engines!Placing(seats, G, s) = p[s]
    BY <2>5, <2>6 DEF Engines!Placing
  <2>8. /\ \A s \in 1..n : p[s] \in 1..n
        /\ \A s, q \in 1..n : p[s] = p[q] => s = q
        /\ \A i \in 1..n : \E s \in 1..n : p[s] = i
    BY <2>4, <2>7 DEF Engines!Shuffled
  <2>9. PICK b : b = SnakeOrder(a, G, count)
    OBVIOUS
  <2>10. /\ a \in [1..n -> S]
         /\ \A i, j \in 1..n : a[i] = a[j] => i = j
         /\ \A i \in 1..n, f \in S :
              (\A j \in 1..n : a[j] # f) /\ groupOf[a[i]] = groupOf[f] => rank[a[i]] <= rank[f]
    BY DEF Through
  <2>11. b = [s \in 1..n |-> a[p[s]]]
    <3>1. DOMAIN a = 1..n /\ ~(G < 2)
      BY <1>2, <2>10
    <3>2. b = [s \in 1..n |-> a[(TierAt(seats, s) - 1) * G + seats[s]]]
      BY <2>3, <2>9, <3>1 DEF SnakeOrder
    <3> QED
      BY <2>6, <3>2
  <2>12. b \in [1..n -> S]
    BY <2>8, <2>10, <2>11
  <2>13. \A s, q \in 1..n : b[s] = b[q] => s = q
    BY <2>8, <2>10, <2>11
  <2>14. ASSUME NEW s \in 1..n, NEW f \in S, \A q \in 1..n : b[q] # f, groupOf[b[s]] = groupOf[f]
         PROVE  rank[b[s]] <= rank[f]
    <3>1. ASSUME NEW i \in 1..n, a[i] = f PROVE FALSE
      <4>1. PICK q \in 1..n : p[q] = i
        BY <2>8
      <4>2. b[q] = f
        BY <2>11, <3>1, <4>1
      <4> QED
        BY <2>14, <4>2
    <3>2. b[s] = a[p[s]] /\ p[s] \in 1..n
      BY <2>8, <2>11
    <3> QED
      BY <2>10, <2>14, <3>1, <3>2
  <2> QED
    BY <2>9, <2>12, <2>13, <2>14 DEF Through
<1> QED
  BY <1>1, <1>2

(* The order in which a field is drawn. *)
Drafts(order, n) ==
  /\ Len(order) = n
  /\ Through(order, n, Candidates, [e \in Entry |-> entry[e].rank], [e \in Entry |-> Group(e)])

LEMMA OrderIs ==
  ASSUME Base, NEW S, S = Candidates, \A e \in S : entry[e].rank \in Nat,
         EnoughRanked(S, [e \in Entry |-> Group(e)], Count)
  PROVE  \E n \in Nat \ {0} : Drafts(Order(S), n)
<1>1. PICK rank : rank = [e \in Entry |-> entry[e].rank]
  OBVIOUS
<1>2. PICK groupOf : groupOf = [e \in Entry |-> Group(e)]
  OBVIOUS
<1>3. S \subseteq Entry
  BY DEF Candidates, Active
<1>4. S \in SUBSET Int /\ IsFiniteSet(S)
  <2>1. stage.n \in Nat
    BY FieldSize
  <2>2. IsFiniteSet(Entry) /\ Entry \subseteq Int
    BY <2>1, UpTo DEF Entry
  <2> QED
    BY <1>3, <2>2, FS_Subset
<1>5. \A e \in S : rank[e] \in Int
  BY <1>1, <1>3
<1>6. \A e \in S : groupOf[e] \in Int
  <2>1. ASSUME NEW e \in S PROVE groupOf[e] \in Int
    <3>1. e \in Entry /\ e \in Nat /\ e >= 1
      BY <1>3, FieldSize DEF Entry
    <3>2. stage.groups \in Nat \ {0}
      BY BoundAssumption DEF Base
    <3>3. PICK d \in Nat, k \in Nat \ {0} : d = e - 1 /\ k = stage.groups
      <4>1. e - 1 \in Nat
        BY <3>1
      <4> QED
        BY <3>2, <4>1
    <3>4. d \div k \in Nat /\ d % k \in 0..k - 1
      BY <3>3
    <3>5. GroupOf(k, e) \in Int
      BY <3>3, <3>4 DEF GroupOf
    <3> QED
      BY <1>2, <3>1, <3>3, <3>5 DEF Group
  <2> QED
    BY <2>1
<1>7. Count \in Nat \ {0} /\ EnoughRanked(S, groupOf, Count)
  BY <1>2, BoundAssumption
<1>8. PICK a : a = Advancers(S, rank, groupOf, Count)
  OBVIOUS
<1>9. PICK G \in Nat \ {0}, n \in Nat \ {0} : Grid(n, G, Count) /\ Through(a, n, S, rank, groupOf)
  BY <1>4, <1>5, <1>6, <1>7, <1>8, AdvancersThrough
<1>10. PICK b : b = SnakeOrder(a, G, Count)
  OBVIOUS
<1>11. Through(b, n, S, rank, groupOf)
  BY <1>7, <1>9, <1>10, SnakeThrough
<1>12. ASSUME NEW c, Through(c, n, S, rank, groupOf) PROVE Len(c) = n
  <2>1. c \in [1..n -> S]
    BY <1>12 DEF Through
  <2> QED
    BY <2>1
<1>13. Len(a) \div Count = G
  <2>1. Len(a) = G * Count
    BY <1>9, <1>12 DEF Grid
  <2> QED
    BY <1>7, <2>1
<1>14. Order(S) = b
  BY <1>1, <1>2, <1>8, <1>10, <1>13 DEF Order
<1>15. Drafts(b, n)
  BY <1>1, <1>2, <1>11, <1>12 DEF Drafts
<1> QED
  BY <1>14, <1>15

-----------------------------------------------------------------------------
(* What the draw rests on.                                                 *)

(* A ruling gives ranks. *)
RuleInv ==
  /\ \A e \in DOMAIN ruling : ruling[e] \in Nat
  /\ \A w \in Busy : \A e \in DOMAIN job[w].rule : job[w].rule[e] \in Nat

(* Whoever draws has the stage to itself, and the stage is complete. *)
DrawsAlone ==
  \A w \in Busy : job[w].kind = "advance" =>
    stage.state = "complete" /\ \A v \in Busy : v = w

(* A stage that was drawn from stays complete, and is ranked again only    *)
(* after a correction.                                                     *)
Settled ==
  /\ stage.state = "complete" => \A w \in Busy : job[w].kind # "complete"
  /\ Drawing => stage.state = "complete"
  /\ Drawing => \A w \in Busy : Ranks(job[w]) /\ job[w].at # "save" => amended

(* Nobody stayed out who was ahead of one of the same group that is in. *)
BestIn ==
  \A e, f \in Entry :
    field[e] # None /\ field[f] = None /\ f \in Active /\ Group(e) = Group(f) =>
      entry[e].rank <= entry[f].rank

Drafted(j) ==
  \E n \in Nat \ {0} :
    /\ Drafts(j.order, n) /\ j.made < n
    /\ \A e \in Entry : field[e] # None <=> \E s \in 1..j.made : j.order[s] = e

(* What a draw has enrolled is the beginning of its order. *)
DrawnInv ==
  /\ DOMAIN field = Entry
  /\ \A w \in Busy : job[w].at = "draw" => ~Drawing /\ job[w].made = 0
  /\ faults = 0 => \A w \in Busy : job[w].at = "enroll" => Drafted(job[w])
  /\ faults = 0 /\ Drawing /\ ~amended /\ (\A w \in Busy : job[w].kind # "advance") => BestIn

DrawInv == RuleInv /\ DrawsAlone /\ Settled /\ DrawnInv

LEMMA RanksAre ==
  ASSUME Base, NEW results, NEW e \in Entry
  PROVE  FinalRanks(results)[e] \in Nat
<1>1. IsFiniteSet(GroupEntries(Group(e)))
  <2>1. stage.n \in Nat
    BY FieldSize
  <2>2. IsFiniteSet(Entry)
    BY <2>1, UpTo DEF Entry
  <2> QED
    BY <2>2, FS_Subset DEF GroupEntries
<1>2. PICK rows, group : rows = {r \in results : r.group = Group(e)} /\ group = GroupEntries(Group(e))
  OBVIOUS
<1>3. RankOf(rows, group, Chain, e) \in Nat
  BY <1>1, <1>2, RankIs
<1>4. FinalRanks(results)[e] = RankOf(rows, group, Chain, e)
  BY <1>2 DEF FinalRanks
<1> QED
  BY <1>3, <1>4

LEMMA RulingsAre ==
  ASSUME Base, NEW rule \in Rulings
  PROVE  \A e \in DOMAIN rule : rule[e] \in Nat
<1>1. PICK ranks : ranks = FinalRanks(Results)
  OBVIOUS
<1>2. \A e \in Entry : ranks[e] \in Nat
  BY <1>1, RanksAre
<1>3. rule = <<>> \/ \E e \in Entry : rule = [f \in Ties(ranks, e) |-> ranks[e] + 1]
  BY <1>1 DEF Rulings
<1>4. CASE rule = <<>>
  BY <1>4
<1>5. ASSUME NEW e \in Entry, rule = [f \in Ties(ranks, e) |-> ranks[e] + 1]
      PROVE  \A f \in DOMAIN rule : rule[f] \in Nat
  <2>1. PICK k \in Nat : k = ranks[e] + 1
    BY <1>2
  <2> QED
    BY <1>5, <2>1
<1> QED
  BY <1>3, <1>4, <1>5

LEMMA RuleNext ==
  ASSUME Base, Base', RuleInv, [Next]_vars
  PROVE  RuleInv'
<1>1. CASE \E w \in Worker : \E j : Begun(w, j)
  <2>0. PICK w \in Worker : \E j : Begun(w, j)
    BY <1>1
  <2>1. PICK j : Begun(w, j)
    BY <2>0
  <2>2. Start(w, j) /\ ruling' = ruling /\ (j.rule = <<>> \/ j.rule \in Rulings)
    BY <2>1 DEF Begun
  <2>3. \A v \in Busy' : (v = w /\ job'[v] = j) \/ (v \in Busy /\ job'[v] = job[v])
    BY <2>2, StartIs, GoIs
  <2>4. \A e \in DOMAIN j.rule : j.rule[e] \in Nat
    <3>1. CASE j.rule = <<>>
      BY <3>1
    <3>2. CASE j.rule \in Rulings
      BY <3>2, RulingsAre
    <3> QED
      BY <2>2, <3>1, <3>2
  <2> QED
    BY <2>2, <2>3, <2>4 DEF RuleInv
<1>2. CASE GoesOn
  <2>1. \A v \in Busy' : v \in Busy /\ job'[v].rule = job[v].rule
    BY <1>2 DEF GoesOn
  <2>2. \A e \in DOMAIN ruling' : ruling'[e] \in Nat
    <3>1. CASE Restart
      BY <3>1 DEF Restart, RuleInv
    <3>2. ASSUME NEW w \in Worker, CloseStage(w) PROVE \A e \in DOMAIN ruling' : ruling'[e] \in Nat
      <4>1. w \in Busy
        BY <3>2, JobIs DEF CloseStage
      <4>2. ruling' = job[w].rule \/ ruling' = ruling
        BY <3>2 DEF CloseStage
      <4> QED
        BY <4>1, <4>2 DEF RuleInv
    <3>3. CASE ~Restart /\ ~\E w \in Worker : CloseStage(w)
      BY <3>3, NextRuling DEF RuleInv
    <3> QED
      BY <3>1, <3>2, <3>3
  <2> QED
    BY <2>1, <2>2 DEF RuleInv
<1> QED
  BY <1>1, <1>2, NextCalls

LEMMA CompleteStays ==
  ASSUME Base, CompleteInv, [Next]_vars, stage.state = "complete"
  PROVE  stage'.state = "complete"
<1>1. ASSUME NEW w \in Busy, job[w].kind \in {"start", "cancel"} PROVE FALSE
  BY <1>1 DEF CompleteInv, Ranks
<1>2. ASSUME NEW w \in Busy, CloseStage(w) PROVE stage'.state = "complete"
  BY <1>2 DEF CloseStage, Base
<1> QED
  BY <1>1, <1>2, NextState

(* Who else may be in flight with a draw. *)
LEMMA DrawersAlone ==
  ASSUME {"retire", "draw"} \cap Overlaps = {}, NEW w, NEW j, Start(w, j), NEW v \in Busy
  PROVE  /\ j.kind = "advance" => job[v].kind \notin {"retire", "advance"} /\ ~Ranks(job[v])
         /\ job[v].kind = "advance" => j.kind \notin {"retire", "advance"} /\ ~Ranks(j)
<1>1. ~Conflict(j, job[v])["retire"] /\ ~Conflict(job[v], j)["retire"]
  <2>1. "retire" \in ConflictKind /\ "retire" \notin Overlaps
    BY DEF ConflictKind
  <2> QED
    BY <2>1, TogetherIs
<1>2. ~Conflict(j, job[v])["draw"] /\ ~Conflict(job[v], j)["draw"]
  <2>1. "draw" \in ConflictKind /\ "draw" \notin Overlaps
    BY DEF ConflictKind
  <2> QED
    BY <2>1, TogetherIs
<1> QED
  BY <1>1, <1>2 DEF Conflict

LEMMA BegunAlone ==
  ASSUME Base, CompleteInv, DrawsAlone, {"retire", "draw"} \cap Overlaps = {},
         NEW w \in Worker, NEW j, Begun(w, j)
  PROVE  /\ j.kind = "advance" => stage.state = "complete" /\ Busy = {}
         /\ \A v \in Busy : job[v].kind # "advance"
<1>1. Start(w, j) /\ IsJob(j)
  BY DEF Begun
<1>2. ASSUME j.kind = "advance" PROVE stage.state = "complete" /\ Busy = {}
  <2>1. stage.state = "complete"
    BY <1>2 DEF Begun
  <2>2. ASSUME NEW v \in Busy PROVE FALSE
    <3>1. job[v].kind \in {"retire", "advance"} \/ Ranks(job[v])
      BY <2>1 DEF CompleteInv
    <3> QED
      BY <1>1, <1>2, <3>1, DrawersAlone
  <2> QED
    BY <2>1, <2>2
<1>3. ASSUME NEW v \in Busy, job[v].kind = "advance" PROVE FALSE
  <2>1. stage.state = "complete"
    BY <1>3 DEF DrawsAlone
  <2>2. j.kind \in {"retire", "advance"} \/ Ranks(j)
    <3>1. j.kind \in Kind
      BY <1>1 DEF IsJob
    <3> QED
      BY <2>1, <3>1 DEF Begun, Kind, Ranks
  <2> QED
    BY <1>1, <1>3, <2>2, DrawersAlone
<1> QED
  BY <1>2, <1>3

LEMMA AloneNext ==
  ASSUME Base, Base', CompleteInv, DrawsAlone, {"retire", "draw"} \cap Overlaps = {}, [Next]_vars
  PROVE  DrawsAlone'
<1>1. CASE \E w \in Worker : \E j : Begun(w, j)
  <2>0. PICK w \in Worker : \E j : Begun(w, j)
    BY <1>1
  <2>1. PICK j : Begun(w, j)
    BY <2>0
  <2>2. Start(w, j) /\ stage' = stage
    BY <2>1 DEF Begun
  <2>3. \A v \in Busy' : (v = w /\ job'[v] = j) \/ (v \in Busy /\ job'[v] = job[v])
    BY <2>2, StartIs, GoIs
  <2>4. /\ j.kind = "advance" => stage.state = "complete" /\ Busy = {}
        /\ \A v \in Busy : job[v].kind # "advance"
    BY <2>1, BegunAlone
  <2>5. ASSUME NEW v \in Busy', job'[v].kind = "advance"
        PROVE  stage'.state = "complete" /\ \A u \in Busy' : u = v
    BY <2>2, <2>3, <2>4, <2>5
  <2> QED
    BY <2>5 DEF DrawsAlone
<1>2. CASE GoesOn
  <2>1. ASSUME NEW v \in Busy', job'[v].kind = "advance"
        PROVE  stage'.state = "complete" /\ \A u \in Busy' : u = v
    <3>1. v \in Busy /\ job[v].kind = "advance" /\ \A u \in Busy' : u \in Busy
      BY <1>2, <2>1 DEF GoesOn
    <3>2. stage.state = "complete" /\ \A u \in Busy : u = v
      BY <3>1 DEF DrawsAlone
    <3> QED
      BY <3>1, <3>2, CompleteStays
  <2> QED
    BY <2>1 DEF DrawsAlone
<1> QED
  BY <1>1, <1>2, NextCalls

LEMMA NextDraw ==
  ASSUME Base, [Next]_vars
  PROVE  UNCHANGED <<field, amended>> \/ \E w \in Worker : EnrollNext(w) \/ SaveResult(w)
<1>1. CASE UNCHANGED vars \/ Restart
  BY <1>1 DEF vars, Restart
<1>2. ASSUME NEW w \in Worker,
             StartStage(w) \/ ListRound(w) \/ PairRound(w) \/ \E row : CreateRow(w, row)
      PROVE  UNCHANGED <<field, amended>>
  BY <1>2 DEF StartStage, ListRound, PairRound, CreateRow
<1>3. ASSUME NEW w \in Worker,
             \/ CancelStage(w) \/ CompleteStage(w) \/ AdvanceStage(w)
             \/ \E r \in table, e \in Entry : Report(w, r, e) \/ Override(w, r, e)
             \/ \E e \in Entry : RetireEntry(w, e)
      PROVE  UNCHANGED <<field, amended>>
  BY <1>3 DEF CancelStage, CompleteStage, AdvanceStage, Report, Override, RetireEntry
<1>4. ASSUME NEW w \in Worker,
             \/ Activate(w) \/ ReadResults(w) \/ ReadEntries(w) \/ SaveRank(w) \/ CloseStage(w)
             \/ SaveCancelled(w) \/ SaveRetired(w) \/ DrawField(w)
      PROVE  UNCHANGED <<field, amended>>
  BY <1>4 DEF Activate, ReadResults, ReadEntries, SaveRank, CloseStage, SaveCancelled,
     SaveRetired, DrawField
<1> QED
  BY <1>1, <1>2, <1>3, <1>4, NextIs

(* The step of a call, named by where the call stands. *)
LEMMA StepAt ==
  ASSUME Base, Base', [Next]_vars
  PROVE  \/ UNCHANGED vars \/ Restart \/ \E w \in Worker : \E j : Begun(w, j)
         \/ \E w \in Worker : SaveResult(w) \/ DrawField(w) \/ EnrollNext(w)
         \/ \E w \in Worker : \E j :
              Go(w, j) /\ job[w].at \notin {"save", "draw", "enroll"} /\ w \in Busy
<1>1. ASSUME NEW w \in Worker, NEW at, Is(w, at), at \notin {"save", "draw", "enroll"}, NEW j, Go(w, j)
      PROVE  Go(w, j) /\ job[w].at \notin {"save", "draw", "enroll"} /\ w \in Busy
  BY <1>1, JobIs
<1>2. ASSUME NEW w \in Worker,
             \/ Activate(w) \/ ListRound(w) \/ PairRound(w) \/ (\E row : CreateRow(w, row))
             \/ SaveCancelled(w) \/ ReadResults(w) \/ ReadEntries(w) \/ CloseStage(w)
             \/ SaveRetired(w)
      PROVE  \E at, j : Is(w, at) /\ at \notin {"save", "draw", "enroll"} /\ Go(w, j)
  BY <1>2 DEF Activate, ListRound, PairRound, CreateRow, Created, SaveCancelled, ReadResults,
     ReadEntries, CloseStage, SaveRetired, Done
<1>3. ASSUME NEW w \in Worker, SaveRank(w)
      PROVE  \E at, j : Is(w, at) /\ at \notin {"save", "draw", "enroll"} /\ Go(w, j)
  BY <1>3, SaveRankIs DEF SaveRank
<1> QED
  BY <1>1, <1>2, <1>3, NextIs, BegunIs

LEMMA SaverIs ==
  ASSUME Base, Base', [Next]_vars, NEW v \in Busy, job[v].at = "save", v \in Busy'
  PROVE  job'[v] = job[v] \/ SaveResult(v)
<1>1. v \in Worker
  BY DEF Busy
<1>2. CASE UNCHANGED vars
  BY <1>2 DEF vars
<1>3. CASE Restart
  BY <1>3 DEF Restart, Busy
<1>4. ASSUME NEW w \in Worker, NEW j, Begun(w, j) PROVE job'[v] = job[v]
  <2>1. Go(w, j) /\ v # w
    BY <1>4, StartIs DEF Begun, Busy
  <2> QED
    BY <1>1, <2>1, GoIs
<1>5. ASSUME NEW w \in Worker, NEW j, Go(w, j), w # v PROVE job'[v] = job[v]
  BY <1>1, <1>5, GoIs
<1>6. ASSUME NEW w \in Worker, SaveResult(w) PROVE job'[v] = job[v] \/ SaveResult(v)
  <2>1. \E j : Go(w, j)
    BY <1>6 DEF SaveResult, Step, Done
  <2> QED
    BY <1>5, <1>6, <2>1
<1>7. ASSUME NEW w \in Worker, DrawField(w) \/ EnrollNext(w) PROVE job'[v] = job[v]
  <2>1. (Is(w, "draw") \/ Is(w, "enroll")) /\ \E j : Go(w, j)
    BY <1>7 DEF DrawField, EnrollNext, Done
  <2>2. w # v
    BY <2>1 DEF Is
  <2> QED
    BY <1>5, <2>1, <2>2
<1> QED
  BY <1>2, <1>3, <1>4, <1>5, <1>6, <1>7, StepAt

LEMMA DrawerIs ==
  ASSUME Base, NEW v \in Busy
  PROVE  job[v].kind = "advance" <=> job[v].at \in {"draw", "enroll"}
BY DEF Base, OfKind

LEMMA DrawStep ==
  ASSUME Base, Base', DrawsAlone, [Next]_vars, NEW w \in Busy, job[w].kind = "advance"
  PROVE  \/ UNCHANGED vars \/ Restart \/ \E u \in Worker : \E j : Begun(u, j)
         \/ DrawField(w) \/ EnrollNext(w)
<1>1. \A u \in Busy : u = w
  BY DEF DrawsAlone
<1>2. job[w].at \in {"draw", "enroll"}
  BY DrawerIs
<1>3. ASSUME NEW u \in Worker, DrawField(u) \/ EnrollNext(u) PROVE u = w
  <2>1. u \in Busy
    BY <1>3, JobIs DEF DrawField, EnrollNext
  <2> QED
    BY <1>1, <2>1
<1>4. ASSUME NEW u \in Worker, SaveResult(u) PROVE FALSE
  <2>1. u \in Busy /\ job[u].at = "save"
    BY <1>4, JobIs DEF SaveResult
  <2> QED
    BY <1>1, <1>2, <2>1
<1> QED
  BY <1>1, <1>2, <1>3, <1>4, StepAt

LEMMA SettledNext ==
  ASSUME Base, Base', Frame, CompleteInv, DrawsAlone, Settled, [Next]_vars
  PROVE  Settled'
<1>1. Entry' = Entry
  BY FrameIs
<1>2. ASSUME NEW v \in Busy', stage'.state = "complete" PROVE job'[v].kind # "complete"
  <2>1. CASE stage.state = "complete"
    <3>1. CASE GoesOn
      BY <2>1, <3>1 DEF GoesOn, Settled
    <3>2. ASSUME NEW w \in Worker, NEW j, Begun(w, j) PROVE job'[v].kind # "complete"
      <4>1. (v = w /\ job'[v] = j) \/ (v \in Busy /\ job'[v] = job[v])
        BY <3>2, StartIs, GoIs DEF Begun
      <4>2. j.kind # "complete"
        BY <2>1, <3>2 DEF Begun
      <4> QED
        BY <2>1, <4>1, <4>2 DEF Settled
    <3> QED
      BY <3>1, <3>2, NextCalls
  <2>2. CASE stage.state # "complete"
    <3>1. PICK w \in Busy : job[w].at = "close" /\ w \notin Busy'
      BY <1>2, <2>2, NextState
    <3>2. \A u \in Busy : u # w => job[u].kind \in {"retire", "advance"}
      BY <3>1, AtIs DEF CompleteInv
    <3>3. CASE GoesOn
      BY <3>1, <3>2, <3>3 DEF GoesOn
    <3>4. ASSUME NEW u \in Worker, NEW j, Begun(u, j) PROVE FALSE
      BY <1>2, <2>2, <3>4 DEF Begun
    <3> QED
      BY <3>3, <3>4, NextCalls
  <2> QED
    BY <2>1, <2>2
<1>3. ASSUME NEW w \in Worker, EnrollNext(w)
      PROVE  /\ stage.state = "complete"
             /\ \A v \in Busy' : ~Ranks(job'[v])
  <2>1. w \in Busy /\ job[w].kind = "advance"
    BY <1>3, JobIs, DrawerIs DEF EnrollNext
  <2>2. stage.state = "complete" /\ \A v \in Busy : v = w
    BY <2>1 DEF DrawsAlone
  <2>3. GoesOn
    BY <1>3, GoesOnIs
  <2>4. \A v \in Busy' : job'[v].kind = "advance"
    BY <2>1, <2>2, <2>3 DEF GoesOn
  <2> QED
    BY <2>2, <2>4 DEF Ranks
<1>4. ASSUME ~\E w \in Worker : EnrollNext(w) PROVE Drawing' = Drawing
  <2>1. field' = field
    BY <1>4, NextDraw DEF SaveResult
  <2> QED
    BY <1>1, <2>1 DEF Drawing
<1>5. Drawing' => stage'.state = "complete"
  BY <1>3, <1>4, CompleteStays DEF Settled
<1>6. ASSUME Drawing', NEW v \in Busy', Ranks(job'[v]), job'[v].at # "save" PROVE amended'
  <2>1. ~\E w \in Worker : EnrollNext(w)
    BY <1>3, <1>6
  <2>2. Drawing /\ stage.state = "complete"
    BY <1>4, <1>6, <2>1 DEF Settled
  <2>3. amended => amended'
    BY <2>1, NextDraw DEF SaveResult
  <2>4. CASE GoesOn
    <3>1. v \in Busy /\ Ranks(job[v])
      BY <1>6, <2>4 DEF GoesOn, Ranks
    <3>2. CASE job[v].at # "save"
      BY <2>2, <2>3, <3>1, <3>2 DEF Settled
    <3>3. CASE job[v].at = "save"
      <4>1. SaveResult(v)
        BY <1>6, <3>1, <3>3, SaverIs
      <4> QED
        BY <2>2, <4>1 DEF SaveResult
    <3> QED
      BY <3>2, <3>3
  <2>5. ASSUME NEW w \in Worker, NEW j, Begun(w, j) PROVE amended'
    <3>1. (v = w /\ job'[v] = j) \/ (v \in Busy /\ job'[v] = job[v])
      BY <2>5, StartIs, GoIs DEF Begun
    <3>2. ~(Ranks(j) /\ j.at # "save")
      BY <2>2, <2>5 DEF Begun, Ranks
    <3> QED
      BY <1>6, <2>2, <2>3, <3>1, <3>2 DEF Settled
  <2> QED
    BY <2>4, <2>5, NextCalls
<1> QED
  BY <1>2, <1>5, <1>6 DEF Settled, Ranks

LEMMA BestKept ==
  ASSUME Frame, BestIn, field' = field,
         \A e \in Entry : /\ entry'[e].rank = entry[e].rank
                          /\ entry'[e].status = "active" => entry[e].status = "active"
  PROVE  BestIn'
<1>1. Entry' = Entry /\ stage'.groups = stage.groups
  BY FrameIs DEF Frame
<1>2. \A e : Group(e)' = Group(e)
  BY <1>1 DEF Group
<1>3. \A f : f \in Active' => f \in Active
  BY <1>1 DEF Active
<1> QED
  BY <1>1, <1>2, <1>3 DEF BestIn

LEMMA RetiredKeepsRank ==
  ASSUME Base, OutCalls, RetireInv, NEW w \in Worker, SaveRetired(w), NEW e \in Entry
  PROVE  /\ entry'[e].rank = entry[e].rank
         /\ entry'[e].status = "active" => entry[e].status = "active"
<1> DEFINE f == job[w].entry[1]
           x == [job[w].entry[2] EXCEPT !.status = "dropped"]
<1>1. w \in Busy /\ job[w].kind = "retire" /\ f \in Entry /\ IsEntry(job[w].entry[2])
  BY RetirerIs, AtIs
<1>2. entry' = [entry EXCEPT ![f] = x]
  BY DEF SaveRetired
<1>3. job[w].entry[2].rank = entry[f].rank
  BY <1>1 DEF RetireInv
<1>4. x.rank = entry[f].rank /\ x.status = "dropped"
  BY <1>1, <1>3 DEF IsEntry
<1> HIDE DEF x
<1>5. CASE e = f
  BY <1>1, <1>2, <1>4, <1>5 DEF Base
<1>6. CASE e # f
  BY <1>1, <1>2, <1>6 DEF Base
<1> QED
  BY <1>5, <1>6

(* In a complete stage that nobody is ranking every entry has a rank. *)
LEMMA AllRanked ==
  ASSUME Base, RankedInv, RuleInv, faults = 0, stage.state = "complete",
         \A w \in Busy : ~Ranks(job[w]), NEW e \in Entry
  PROVE  entry[e].rank \in Nat
<1>1. RightRank(e)
  BY DEF RankedInv
<1>2. FinalRanks(Results)[e] \in Nat
  BY RanksAre
<1> QED
  BY <1>1, <1>2 DEF RightRank, RuleInv

LEMMA DraftsKept ==
  ASSUME UNCHANGED <<stage, entry>>, NEW order, NEW n, Drafts(order, n)
  PROVE  Drafts(order, n)'
BY DEF Drafts, Through, Candidates, Active, Entry, Group

LEMMA EnrolledNext ==
  ASSUME Base, Base', RankedInv, RuleInv, DrawsAlone, DOMAIN field = Entry,
         NEW w \in Worker, EnrollNext(w), faults = 0, Drafted(job[w])
  PROVE  /\ \A v \in Busy' : v = w /\ job'[v].at = "enroll" /\ Drafted(job[v])'
         /\ Busy' = {} => BestIn'
<1> DEFINE k == job[w]
<1>1. Is(w, "enroll") /\ UNCHANGED <<stage, entry>>
  BY DEF EnrollNext
<1>2. w \in Busy /\ k.at = "enroll" /\ k.kind = "advance" /\ IsJob(k)
  BY <1>1, JobIs, DrawerIs
<1>3. stage.state = "complete" /\ \A v \in Busy : v = w
  BY <1>2 DEF DrawsAlone
<1>4. PICK n \in Nat \ {0} :
        /\ Drafts(k.order, n) /\ k.made < n
        /\ \A x \in Entry : field[x] # None <=> \E t \in 1..k.made : k.order[t] = x
  BY DEF Drafted
<1>5. PICK m \in Nat : m = k.made
  BY <1>2 DEF IsJob
<1>o. PICK order : order = k.order
  OBVIOUS
<1>6. PICK rank, groupOf : rank = [x \in Entry |-> entry[x].rank] /\ groupOf = [x \in Entry |-> Group(x)]
  OBVIOUS
<1>7. /\ Len(order) = n /\ \A t \in 1..n : order[t] \in Candidates
      /\ \A t, q \in 1..n : order[t] = order[q] => t = q
      /\ \A t \in 1..n, f \in Candidates :
           (\A q \in 1..n : order[q] # f) /\ groupOf[order[t]] = groupOf[f] => rank[order[t]] <= rank[f]
  <2>1. Len(order) = n /\ Through(order, n, Candidates, rank, groupOf)
    BY <1>4, <1>6, <1>o DEF Drafts
  <2>2. \A t \in 1..n : order[t] \in Candidates
    BY <2>1 DEF Through
  <2> QED
    BY <2>1, <2>2 DEF Through
<1>8. PICK s \in 1..n : s = m + 1
  BY <1>4, <1>5
<1>e. PICK e : e = order[s]
  OBVIOUS
<1>9. Candidates \subseteq Active /\ Active \subseteq Entry
  BY DEF Candidates, Active
<1>10. e \in Entry
  BY <1>7, <1>9, <1>e
<1>11. \A x \in Entry : field[x] # None <=> \E t \in 1..m : order[t] = x
  BY <1>4, <1>5, <1>o
<1>12. field[e] = None
  <2>1. ASSUME NEW t \in 1..m, order[t] = e PROVE FALSE
    BY <1>7, <1>8, <1>e, <2>1
  <2> QED
    BY <1>10, <1>11, <2>1
<1>13. /\ field' = [field EXCEPT ![e] = s]
       /\ Go(w, IF s = n THEN Idle ELSE [k EXCEPT !.made = s])
  BY <1>5, <1>7, <1>8, <1>12, <1>e, <1>o DEF EnrollNext
<1>14. \A x \in Entry : field'[x] # None <=> \E t \in 1..s : order[t] = x
  <2>1. s # None
    BY NoneAssumption
  <2>2. \A t : t \in 1..s <=> t \in 1..m \/ t = s
    BY <1>8
  <2>3. \A x \in Entry : field'[x] # None <=> x = e \/ field[x] # None
    BY <1>10, <1>13, <2>1
  <2> QED
    BY <1>8, <1>11, <1>e, <2>2, <2>3
<1>15. Entry' = Entry /\ \A x : Group(x)' = Group(x)
  BY <1>1 DEF Entry, Group
<1>16. CASE s = n
  <2>1. Busy' = {}
    BY <1>2, <1>3, <1>13, <1>16, GoIs
  <2>2. ASSUME NEW x \in Entry, NEW f \in Entry, field'[x] # None, field'[f] = None, f \in Active',
               Group(x) = Group(f)
        PROVE  entry'[x].rank <= entry'[f].rank
    <3>1. PICK t \in 1..n : order[t] = x
      BY <1>14, <1>16, <2>2
    <3>2. \A q \in 1..n : order[q] # f
      BY <1>14, <1>16, <2>2
    <3>3. entry[f].rank \in Nat
      BY <1>2, <1>3, AllRanked DEF Ranks
    <3>4. f \in Candidates
      BY <1>1, <2>2, <3>3, NoneAssumption DEF Candidates, Active, Entry
    <3>5. groupOf[order[t]] = groupOf[f]
      BY <1>6, <2>2, <3>1
    <3>6. rank[order[t]] <= rank[f]
      BY <1>7, <3>2, <3>4, <3>5
    <3> QED
      BY <1>1, <1>6, <3>1, <3>6
  <2> QED
    BY <1>15, <2>1, <2>2 DEF BestIn
<1>17. CASE s # n
  <2> DEFINE j == [k EXCEPT !.made = s]
  <2>1. j.made = s /\ j.order = order /\ j.at = "enroll" /\ j.kind = "advance"
    BY <1>2, <1>o DEF IsJob
  <2>2. Go(w, j)
    BY <1>13, <1>17
  <2> HIDE DEF j
  <2>3. j # Idle
    BY <2>1 DEF Idle
  <2>4. job'[w] = j /\ Busy' = {w}
    BY <1>2, <1>3, <2>2, <2>3, GoIs
  <2>5. Drafts(order, n)'
    BY <1>1, <1>4, <1>o, DraftsKept
  <2>6. s < n
    BY <1>17
  <2>7. Drafted(job[w])'
    BY <1>14, <1>15, <2>1, <2>4, <2>5, <2>6 DEF Drafted
  <2> QED
    BY <2>1, <2>4, <2>7
<1> QED
  BY <1>16, <1>17

LEMMA DrawFieldNext ==
  ASSUME Base, Base', RankedInv, RuleInv, DrawsAlone, DOMAIN field = Entry,
         NEW w \in Worker, DrawField(w), ~Drawing, job[w].made = 0
  PROVE  \A v \in Busy' : v = w /\ job'[v].at = "enroll" /\ (faults = 0 => Drafted(job[v])')
<1> DEFINE k == job[w]
           j == [k EXCEPT !.at = "enroll", !.order = Order(Candidates)]
<1>1. /\ Is(w, "draw") /\ UNCHANGED <<stage, entry, field>>
      /\ \/ Go(w, Idle)
         \/ Go(w, j) /\ EnoughRanked(Candidates, [x \in Entry |-> Group(x)], Count)
  BY DEF DrawField, Done
<1>2. w \in Busy /\ k.at = "draw" /\ k.kind = "advance" /\ IsJob(k)
  BY <1>1, JobIs, DrawerIs
<1>3. stage.state = "complete" /\ \A v \in Busy : v = w
  BY <1>2 DEF DrawsAlone
<1>4. CASE Go(w, Idle)
  BY <1>2, <1>3, <1>4, GoIs
<1>5. CASE Go(w, j) /\ EnoughRanked(Candidates, [x \in Entry |-> Group(x)], Count)
  <2>1. j.at = "enroll" /\ j.order = Order(Candidates) /\ j.made = 0 /\ j.kind = "advance"
    BY <1>2 DEF IsJob
  <2>2. Go(w, j)
    BY <1>5
  <2> HIDE DEF j
  <2>3. j # Idle
    BY <2>1 DEF Idle
  <2>4. job'[w] = j /\ Busy' = {w}
    BY <1>2, <1>3, <2>2, <2>3, GoIs
  <2>5. ASSUME faults = 0 PROVE Drafted(job[w])'
    <3>1. ~Ranks(k)
      BY <1>2 DEF Ranks
    <3>2. \A x \in Entry : entry[x].rank \in Nat
      BY <1>3, <2>5, <3>1, AllRanked
    <3>3. PICK S : S = Candidates
      OBVIOUS
    <3>4. \A x \in S : entry[x].rank \in Nat
      BY <3>2, <3>3 DEF Candidates, Active
    <3>5. PICK n \in Nat \ {0} : Drafts(Order(S), n)
      BY <1>5, <3>3, <3>4, OrderIs
    <3>6. Drafts(job'[w].order, n)
      BY <2>1, <2>4, <3>3, <3>5
    <3>7. PICK order : order = job'[w].order
      OBVIOUS
    <3>8. Drafts(order, n)'
      BY <1>1, <3>6, <3>7, DraftsKept
    <3>9. \A x \in Entry' : field'[x] = None
      BY <1>1 DEF Drawing, Entry
    <3>10. job'[w].made = 0 /\ 0 < n
      BY <2>1, <2>4
    <3> QED
      BY <3>7, <3>8, <3>9, <3>10 DEF Drafted
  <2> QED
    BY <2>1, <2>4, <2>5
<1> QED
  BY <1>1, <1>4, <1>5

LEMMA DrawnNext ==
  ASSUME StageInv, DrawInv, Base', Frame, {"retire", "draw"} \cap Overlaps = {}, [Next]_vars
  PROVE  DrawnInv'
<1>1. /\ Base /\ CompleteInv /\ OutCalls /\ RetireInv /\ RankedInv
      /\ RuleInv /\ DrawsAlone /\ Settled /\ DrawnInv
  BY DEF StageInv, OutInv, RanksInv, DrawInv
<1>2. Entry' = Entry /\ DOMAIN field = Entry
  BY <1>1, FrameIs DEF DrawnInv
<1>3. DOMAIN field' = Entry'
  BY <1>1, <1>2, NextDraw DEF EnrollNext, SaveResult
<1>4. CASE Restart
  <2>1. faults \in Nat /\ faults' = faults + 1
    BY <1>1, <1>4 DEF RankedInv, Restart
  <2>2. Busy' = {} /\ faults' # 0
    BY <1>4, <2>1 DEF Restart, Busy
  <2> QED
    BY <1>3, <2>2 DEF DrawnInv
<1>5. CASE UNCHANGED vars
  <2>1. UNCHANGED <<stage, entry, field, job, amended, faults>>
    BY <1>5 DEF vars
  <2>2. Busy' = Busy /\ Drawing' = Drawing
    BY <1>2, <2>1 DEF Busy, Drawing
  <2>3. ASSUME NEW w \in Busy, Drafted(job[w]) PROVE Drafted(job[w])'
    <3>1. PICK n \in Nat \ {0} :
            /\ Drafts(job[w].order, n) /\ job[w].made < n
            /\ \A e \in Entry : field[e] # None <=> \E s \in 1..job[w].made : job[w].order[s] = e
      BY <2>3 DEF Drafted
    <3>2. PICK order : order = job[w].order /\ order = job'[w].order
      BY <2>1
    <3>3. Drafts(order, n)'
      BY <2>1, <3>1, <3>2, DraftsKept
    <3> QED
      BY <1>2, <2>1, <3>1, <3>2, <3>3 DEF Drafted
  <2>4. BestIn => BestIn'
    BY <2>1, BestKept
  <2> QED
    BY <1>1, <1>3, <2>1, <2>2, <2>3, <2>4 DEF DrawnInv
<1>6. ASSUME NEW w \in Busy, job[w].kind = "advance", ~Restart, ~UNCHANGED vars PROVE DrawnInv'
  <2>1. w \in Worker
    BY DEF Busy
  <2>2. ASSUME NEW u \in Worker, NEW j, Begun(u, j) PROVE FALSE
    BY <1>1, <1>6, <2>2, BegunAlone
  <2>3. CASE DrawField(w)
    <3>1. ~Drawing /\ job[w].made = 0
      BY <1>1, <1>6, <2>3 DEF DrawnInv, DrawField, Is
    <3>2. \A v \in Busy' : v = w /\ job'[v].at = "enroll" /\ (faults = 0 => Drafted(job[v])')
      BY <1>1, <1>2, <2>1, <2>3, <3>1, DrawFieldNext
    <3>3. field' = field /\ faults' = faults
      BY <2>3 DEF DrawField
    <3>4. ~Drawing'
      BY <1>2, <3>1, <3>3 DEF Drawing
    <3> QED
      BY <1>3, <3>2, <3>3, <3>4 DEF DrawnInv
  <2>4. CASE EnrollNext(w)
    <3>1. faults' = faults /\ job[w].at = "enroll"
      BY <2>4 DEF EnrollNext, Is
    <3>2. ASSUME faults = 0
          PROVE  /\ \A v \in Busy' : v = w /\ job'[v].at = "enroll" /\ Drafted(job[v])'
                 /\ Busy' = {} => BestIn'
      <4>1. Drafted(job[w])
        BY <1>1, <3>1, <3>2 DEF DrawnInv
      <4> QED
        BY <1>1, <1>2, <2>1, <2>4, <3>2, <4>1, EnrolledNext
    <3>3. \A v \in Busy' : job'[v].at # "draw" /\ job'[v].kind = "advance"
      <4>1. GoesOn
        BY <1>1, <2>1, <2>4, GoesOnIs
      <4>2. \A v \in Busy' : v = w /\ job'[v].kind = "advance"
        BY <1>1, <1>6, <4>1 DEF GoesOn, DrawsAlone
      <4>3. job'[w] = Idle \/ job'[w].at = "enroll"
        <5>1. IsJob(job[w])
          BY <1>1 DEF Base
        <5>2. \A m : [job[w] EXCEPT !.made = m].at = "enroll"
          BY <3>1, <5>1 DEF IsJob
        <5>3. Go(w, Idle) \/ \E m : Go(w, [job[w] EXCEPT !.made = m])
          BY <2>4 DEF EnrollNext, Done
        <5> QED
          BY <1>1, <2>1, <5>2, <5>3, GoIs
      <4> QED
        BY <4>2, <4>3 DEF Busy
    <3> QED
      BY <1>3, <3>1, <3>2, <3>3 DEF DrawnInv
  <2> QED
    BY <1>1, <1>6, <2>2, <2>3, <2>4, DrawStep
<1>7. ASSUME \A w \in Busy : job[w].kind # "advance", NEW u \in Worker, NEW j, Begun(u, j)
      PROVE  DrawnInv'
  <2>1. Start(u, j) /\ UNCHANGED <<stage, entry, field, amended, faults>> /\ OfKind(j)
    BY <1>7 DEF Begun
  <2>2. job'[u] = j /\ u \in Busy' /\ \A v \in Busy' : v = u \/ (v \in Busy /\ job'[v] = job[v])
    BY <1>1, <1>7, <2>1, StartIs, GoIs, IdleNotJob DEF Begun
  <2>3. \A v \in Busy : job[v].at \notin {"draw", "enroll"}
    BY <1>1, <1>7, DrawerIs
  <2>4. j.at \in {"draw", "enroll"} => j.at = "draw" /\ j.made = 0 /\ ~Drawing
    BY <1>7 DEF Begun, OfKind
  <2>5. Drawing' = Drawing
    BY <1>2, <2>1 DEF Drawing
  <2>6. BestIn => BestIn'
    BY <2>1 DEF BestIn, Active, Entry, Group
  <2>7. \A v \in Busy' : job'[v].at = "draw" => ~Drawing' /\ job'[v].made = 0
    BY <2>2, <2>3, <2>4, <2>5
  <2>8. \A v \in Busy' : job'[v].at # "enroll"
    BY <2>2, <2>3, <2>4
  <2>9. faults' = 0 /\ Drawing' /\ ~amended' => BestIn'
    BY <1>1, <1>7, <2>1, <2>5, <2>6 DEF DrawnInv
  <2> QED
    BY <1>3, <2>7, <2>8, <2>9 DEF DrawnInv
<1>8. ASSUME \A w \in Busy : job[w].kind # "advance", GoesOn, ~Restart PROVE DrawnInv'
  <2>1. \A v \in Busy' : job'[v].kind # "advance" /\ job'[v].at \notin {"draw", "enroll"}
    <3>1. \A v \in Busy' : job'[v].kind # "advance"
      BY <1>8 DEF GoesOn
    <3>2. \A v \in Busy' : OfKind(job[v])'
      BY DEF Base
    <3> QED
      BY <3>1, <3>2 DEF OfKind
  <2>2. ASSUME NEW w \in Worker, EnrollNext(w) PROVE FALSE
    <3>1. w \in Busy /\ job[w].at = "enroll"
      BY <1>1, <2>2, JobIs DEF EnrollNext
    <3> QED
      BY <1>1, <1>8, <3>1, DrawerIs
  <2>3. field' = field /\ Drawing' = Drawing
    <3>1. field' = field
      BY <1>1, <2>2, NextDraw DEF SaveResult
    <3> QED
      BY <1>2, <3>1 DEF Drawing
  <2>4. Drawing' /\ ~amended' => Drawing /\ ~amended
    <3>1. CASE UNCHANGED <<field, amended>>
      BY <2>3, <3>1
    <3>2. ASSUME NEW w \in Worker, SaveResult(w) PROVE amended' = (amended \/ Drawing)
      BY <3>2 DEF SaveResult
    <3> QED
      BY <1>1, <2>2, <2>3, <3>1, <3>2, NextDraw
  <2>5. faults' = faults
    <3>1. ASSUME NEW w \in Worker, CloseStage(w) PROVE faults' = faults
      BY <3>1 DEF CloseStage
    <3> QED
      BY <1>1, <1>8, <3>1, NextRuling
  <2>6. ASSUME faults' = 0, Drawing', ~amended' PROVE BestIn'
    <3>1. Drawing /\ ~amended /\ BestIn
      BY <1>1, <1>8, <2>4, <2>5, <2>6 DEF DrawnInv
    <3>2. ASSUME NEW w \in Worker, SaveRank(w) PROVE FALSE
      <4>1. w \in Busy /\ job[w].at = "write"
        BY <1>1, <3>2, JobIs DEF SaveRank
      <4>2. Ranks(job[w]) /\ job[w].at # "save"
        BY <1>1, <4>1, AtIs
      <4> QED
        BY <1>1, <3>1, <4>1, <4>2 DEF Settled
    <3>3. \A e \in Entry : /\ entry'[e].rank = entry[e].rank
                           /\ entry'[e].status = "active" => entry[e].status = "active"
      BY <1>1, <3>2, NextEntry, RetiredKeepsRank
    <3> QED
      BY <2>3, <3>1, <3>3, BestKept
  <2> QED
    BY <1>3, <2>1, <2>6 DEF DrawnInv
<1> QED
  BY <1>1, <1>4, <1>5, <1>6, <1>7, <1>8, NextCalls

LEMMA DrawInductive ==
  ASSUME Apart, "draw" \notin Overlaps
  PROVE  /\ Sound /\ Init => StageInv /\ DrawInv
         /\ StageInv /\ DrawInv /\ [Next]_vars => StageInv' /\ DrawInv'
<1>1. {"retire", "draw"} \cap Overlaps = {}
  BY DEF Apart
<1>2. ASSUME Init PROVE DrawInv
  <2>1. Busy = {} /\ ~Drawing /\ DOMAIN field = Entry /\ DOMAIN ruling = {}
    BY <1>2 DEF Init, Busy, Drawing
  <2> QED
    BY <1>2, <2>1 DEF DrawInv, RuleInv, DrawsAlone, Settled, DrawnInv, Init
<1>3. ASSUME StageInv, DrawInv, StageInv', [Next]_vars PROVE DrawInv'
  <2>1. Base /\ Base' /\ CompleteInv /\ RuleInv /\ DrawsAlone /\ Settled
    BY <1>3 DEF StageInv, DrawInv
  <2>2. Frame
    BY <1>3, <2>1, BaseNext
  <2>3. RuleInv' /\ DrawsAlone' /\ Settled'
    BY <1>1, <1>3, <2>1, <2>2, RuleNext, AloneNext, SettledNext
  <2>4. DrawnInv'
    BY <1>1, <1>3, <2>1, <2>2, DrawnNext
  <2> QED
    BY <2>3, <2>4 DEF DrawInv
<1> QED
  BY <1>2, <1>3, StageInductive

-----------------------------------------------------------------------------
(* What holds of every behaviour.                                         *)

(* "No-rematch" pairings, and a bye at most once, however the calls that   *)
(* record the results of a round interleave and whatever a restart cuts    *)
(* short (_advance_swiss): provided nobody looks at a round while another  *)
(* call is halfway through creating it.                                    *)
THEOREM NobodyMeetsTwice ==
  ASSUME "round" \notin Overlaps
  PROVE  Spec => []NoRematch
<1>1. ASSUME PairingInv PROVE NoRematch
  <2>1. CASE stage.format = "swiss"
    BY <1>1, <2>1 DEF PairingInv, SwissInv, RoundsInv, Unmet, NoRematch
  <2>2. CASE stage.format = "round_robin"
    BY <1>1, <2>2, ScheduledApart DEF PairingInv, NoRematch
  <2>3. stage.format \in {"swiss", "round_robin"}
    BY <1>1, BoundAssumption DEF PairingInv, Base
  <2> QED
    BY <2>1, <2>2, <2>3
<1>2. (Init => PairingInv) /\ (PairingInv /\ [Next]_vars => PairingInv')
  BY PairingInductive, ScheduleSound
<1> QED
  BY <1>1, <1>2, PTL DEF Spec

(* A round is paired once, when the one before it is over, nobody plays    *)
(* two matches of a round, and nothing is open in a stage that is complete *)
(* (_advance_swiss, complete_stage): provided a call that looks at a round *)
(* waits for one halfway through creating it, and calls that change the    *)
(* stage's state or the same result do not overlap.                        *)
THEOREM InOrder ==
  ASSUME {"round", "state", "result"} \cap Overlaps = {}
  PROVE  Spec => []RoundsInOrder
<1>1. ASSUME PairingInv, CompleteInv PROVE RoundsInOrder
  <2>1. stage.state = "complete" => Open = {}
    BY <1>1 DEF CompleteInv
  <2>2. CASE stage.format = "swiss"
    <3>1. RoundsInv
      BY <1>1, <2>2 DEF PairingInv, SwissInv
    <3> QED
      BY <2>1, <3>1 DEF RoundsInv, Unmet, RoundsInOrder, OneRoundAtATime
  <2>3. CASE stage.format = "round_robin"
    BY <1>1, <2>1, <2>3, ScheduledApart DEF PairingInv, RoundsInOrder, OneRoundAtATime
  <2>4. stage.format \in {"swiss", "round_robin"}
    BY <1>1, BoundAssumption DEF PairingInv, Base
  <2> QED
    BY <2>2, <2>3, <2>4
<1>2. "round" \notin Overlaps /\ {"state", "result"} \cap Overlaps = {}
  OBVIOUS
<1>3. Init => PairingInv /\ CompleteInv
  BY <1>2, PairingInductive, ScheduleSound, CompleteInit
<1>4. PairingInv /\ CompleteInv /\ [Next]_vars => PairingInv' /\ CompleteInv'
  BY <1>2, PairingInductive, CompleteNext DEF PairingInv
<1> QED
  BY <1>1, <1>3, <1>4, PTL DEF Spec

(* "Swiss stops pairing them": whoever retires is in no round paired after *)
(* that, however retire_entry overlaps with results and with the pairing   *)
(* of a round: provided it does not overlap with the ranking of the stage, *)
(* which saves whole entries (_finalize_stage).                            *)
THEOREM OutForGood ==
  ASSUME "retire" \notin Overlaps
  PROVE  Spec => []RetiredIsOut
<1>1. Base /\ OutInv => RetiredIsOut
  BY DEF OutInv, OutRounds, InBy, RetiredIsOut
<1>2. Init => Base /\ OutInv
  BY BaseInit, ScheduleSound, OutInit
<1>3. Base /\ OutInv /\ [Next]_vars => Base' /\ OutInv'
  BY BaseNext, OutNext
<1> QED
  BY <1>1, <1>2, <1>3, PTL DEF Spec

(* The ranks of a complete stage are those of its results, as corrected,   *)
(* but for those staff ruled on (_finalize_stage saves the entries one by  *)
(* one and then the stage): provided no call that changes the stage's      *)
(* state, a result or an entry overlaps with the ranking, and nothing      *)
(* restarts in the middle of it.                                           *)
THEOREM RanksRight ==
  ASSUME Apart
  PROVE  Spec => []RanksFollowResults
<1>1. ASSUME StageInv PROVE RanksFollowResults
  BY <1>1 DEF StageInv, RanksInv, RankedInv, RightRank, RanksFollowResults, Quiet
<1>2. (Init => StageInv) /\ (StageInv /\ [Next]_vars => StageInv')
  BY StageInductive, ScheduleSound
<1> QED
  BY <1>1, <1>2, PTL DEF Spec

(* The next round does not wait for anybody: when every call is answered,  *)
(* a Swiss stage with nothing open has had its last round, whichever of    *)
(* the calls that recorded the last results saw them both, and whoever     *)
(* retired meanwhile (_advance_swiss): provided a call that looks at a     *)
(* round waits for one halfway through creating it, calls that change the  *)
(* stage's state do not overlap, and retirements do not overlap with the   *)
(* ranking.                                                                *)
THEOREM NoRoundForgotten ==
  ASSUME {"round", "state", "retire"} \cap Overlaps = {}
  PROVE  Spec => []NextRoundPaired
<1> DEFINE Inv == PairingInv /\ OutInv /\ faults \in Nat /\ WaitInv
<1>1. /\ "round" \notin Overlaps /\ "retire" \notin Overlaps
      /\ {"round", "state"} \cap Overlaps = {}
  OBVIOUS
<1>2. Init => Inv
  <2>1. Init => faults \in Nat
    BY DEF Init
  <2> QED
    BY <1>1, <2>1, PairingInductive, ScheduleSound, OutInit, WaitInit
<1>3. Inv /\ [Next]_vars => Inv'
  <2> SUFFICES ASSUME Inv, [Next]_vars PROVE Inv'
    OBVIOUS
  <2>1. Base /\ SwissInv
    BY DEF PairingInv
  <2>2. PairingInv'
    BY <1>1, PairingInductive
  <2>3. OutInv'
    BY <1>1, <2>1, OutNext
  <2>4. faults' \in Nat
    BY <2>1, FaultsNext
  <2>5. WaitInv'
    BY <1>1, <2>1, WaitNext
  <2> QED
    BY <2>2, <2>3, <2>4, <2>5
<1>4. Inv => NextRoundPaired
  <2> SUFFICES ASSUME Inv, Quiet, stage.format = "swiss", stage.state = "active", Open = {}
               PROVE  Over
    BY DEF NextRoundPaired, Over
  <2>1. Followed
    BY DEF WaitInv, PairedInv, Quiet
  <2> QED
    BY <2>1 DEF Followed, Quiet
<1> QED
  BY <1>2, <1>3, <1>4, PTL DEF Spec

(* Nobody in the next stage was ranked behind an active entry of its group *)
(* that stayed out, unless a result was corrected after the draw           *)
(* (_compute_advancers takes the best of each group, and                   *)
(* _seed_advancers only reorders them): provided a draw overlaps with no   *)
(* ranking, retirement or other draw, and nothing restarts.                *)
THEOREM BestGoThrough ==
  ASSUME Apart, "draw" \notin Overlaps
  PROVE  Spec => []BestAdvance
<1>1. ASSUME StageInv, DrawInv PROVE BestAdvance
  BY <1>1 DEF DrawInv, DrawnInv, BestIn, BestAdvance, Quiet
<1>2. /\ Init => StageInv /\ DrawInv
      /\ StageInv /\ DrawInv /\ [Next]_vars => StageInv' /\ DrawInv'
  BY DrawInductive, ScheduleSound
<1> QED
  BY <1>1, <1>2, PTL DEF Spec
=============================================================================

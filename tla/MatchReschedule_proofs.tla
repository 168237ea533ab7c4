------------------------ MODULE MatchReschedule_proofs ------------------------
(***************************************************************************)
(* Proofs about MatchReschedule, for any number of matches, players,       *)
(* requests and calls in flight.  Each theorem names the conflicts it must *)
(* exclude; every other pair of calls may interleave freely.               *)
(***************************************************************************)
EXTENDS MatchReschedule, FiniteSetTheorems, TLAPS

(* A call in flight keeps the types of its fields, whichever it updates.   *)
LEMMA JobTyped ==
  ASSUME TypeOK, NEW w \in Worker, job[w] # Idle
  PROVE  job[w] \in Jobs
  BY DEF TypeOK

Steps == {"check", "save", "move", "clear", "seed", "record", "list", "close"}

(* A new call is well typed. *)
LEMMA CallTyped ==
  ASSUME NEW kind \in Kind, NEW at \in Steps, NEW m \in Match, NEW u \in Player \cup Admin
  PROVE  Call(kind, at, m, u) \in Jobs
  BY DEF Call, Jobs, Steps

(* A call stays well typed when it moves on, whichever field it updates. *)
LEMMA Updated ==
  ASSUME NEW j \in Jobs
  PROVE  /\ \A a \in Steps : [j EXCEPT !.at = a] \in Jobs
         /\ \A t \in Time \cup {None} : [j EXCEPT !.time = t] \in Jobs
         /\ \A r \in RequestRow : [j EXCEPT !.row = r] \in Jobs
         /\ \A S \in SUBSET Player : [j EXCEPT !.todo = S] \in Jobs
         /\ \A a \in Steps, S \in SUBSET Player : [j EXCEPT !.at = a, !.todo = S] \in Jobs
         /\ \A a \in Steps, S \in SUBSET (Request \X RequestRow) :
              [j EXCEPT !.at = a, !.others = S] \in Jobs
         /\ \A S \in SUBSET (Request \X RequestRow) : [j EXCEPT !.others = S] \in Jobs
         /\ \A i \in Request, r \in RequestRow : [j EXCEPT !.id = i, !.row = r] \in Jobs
<1>1. \A a \in Steps : [j EXCEPT !.at = a] \in Jobs
  BY DEF Jobs, Steps
<1>2. \A t \in Time \cup {None} : [j EXCEPT !.time = t] \in Jobs
  BY DEF Jobs
<1>3. \A r \in RequestRow : [j EXCEPT !.row = r] \in Jobs
  BY DEF Jobs
<1>4. \A S \in SUBSET Player : [j EXCEPT !.todo = S] \in Jobs
  BY DEF Jobs
<1>5. \A S \in SUBSET (Request \X RequestRow) : [j EXCEPT !.others = S] \in Jobs
  BY DEF Jobs
<1>6. \A i \in Request : [j EXCEPT !.id = i] \in Jobs
  BY DEF Jobs
<1>7. \A a, S : /\ [j EXCEPT !.at = a, !.todo = S] = [[j EXCEPT !.at = a] EXCEPT !.todo = S]
               /\ [j EXCEPT !.at = a, !.others = S] = [[j EXCEPT !.at = a] EXCEPT !.others = S]
               /\ [j EXCEPT !.id = a, !.row = S] = [[j EXCEPT !.id = a] EXCEPT !.row = S]
  BY DEF Jobs
<1>8. \A a \in Steps, S \in SUBSET Player : [j EXCEPT !.at = a, !.todo = S] \in Jobs
  <2> TAKE a \in Steps, S \in SUBSET Player
  <2>1. [j EXCEPT !.at = a] \in Jobs
    BY <1>1
  <2> QED
    BY <2>1, <1>7 DEF Jobs
<1>9. \A a \in Steps, S \in SUBSET (Request \X RequestRow) :
        [j EXCEPT !.at = a, !.others = S] \in Jobs
  <2> TAKE a \in Steps, S \in SUBSET (Request \X RequestRow)
  <2>1. [j EXCEPT !.at = a] \in Jobs
    BY <1>1
  <2> QED
    BY <2>1, <1>7 DEF Jobs
<1>10. \A i \in Request, r \in RequestRow : [j EXCEPT !.id = i, !.row = r] \in Jobs
  <2> TAKE i \in Request, r \in RequestRow
  <2>1. [j EXCEPT !.id = i] \in Jobs
    BY <1>6
  <2> QED
    BY <2>1, <1>7 DEF Jobs
<1> QED
  BY <1>1, <1>2, <1>3, <1>4, <1>5, <1>8, <1>9, <1>10

(* A request that exists is a well typed row. *)
LEMMA RowTyped ==
  ASSUME TypeOK, NEW i \in Requests
  PROVE  /\ i \in Request /\ req[i] \in RequestRow
         /\ req[i].by \in Player /\ req[i].match \in Match
  BY DEF TypeOK, Requests, RequestRow

(* A call about a request is well typed. *)
LEMMA RequestTyped ==
  ASSUME TypeOK, NEW i \in Requests, NEW u \in Player \cup Admin,
         NEW kind \in Kind, NEW at \in Steps
  PROVE  /\ i \in Request /\ req[i] \in RequestRow /\ req[i].by \in Player
         /\ OnRequest(kind, at, i, u) \in Jobs
<1>1. i \in Request /\ req[i] \in RequestRow
  BY DEF TypeOK, Requests
<1>2. req[i].match \in Match /\ req[i].by \in Player
  BY <1>1 DEF RequestRow
<1>3. Call(kind, at, req[i].match, u) \in Jobs
  BY <1>2, CallTyped
<1> QED
  BY <1>1, <1>2, <1>3, Updated DEF OnRequest

-----------------------------------------------------------------------------
(* What a call in flight holds is about what it is doing: an answer holds  *)
(* the request as it was read, a submit the row it will create, and a call *)
(* that has moved the match knows the time it moved it to.                 *)
Holds(j) ==
  /\ j.kind \in Deciding =>
       /\ j.id \in Request /\ j.row \in RequestRow /\ j.row.match = j.match
  /\ j.kind \in {"agree", "withdraw", "decline"} => j.at = "save"
  /\ j.kind = "approve" => j.at \in {"move", "clear", "seed", "record", "list", "close"}
  /\ j.kind = "submit" =>
       /\ j.at \in {"check", "save"} /\ j.row \in RequestRow
       /\ j.row.match = j.match /\ j.row.by = j.by /\ j.row.status = "pending"
  /\ j.kind = "edit" => j.at \in {"move", "clear", "seed"}
  /\ j.kind = "ack" => j.at = "save" /\ j.time \in Time
  /\ j.kind \in {"edit", "approve"} /\ j.at # "move" => j.time \in Time
  /\ j.kind # "idle" /\ j.others # {} => j.kind = "approve" /\ j.at = "close"

HoldsInv == \A w \in Worker : Holds(job[w])

(* A worker without a call holds nothing. *)
LEMMA IdleHolds == Holds(Idle)
  BY DEF Holds, Idle, Deciding

(* One call moving on to hold what it should is enough for HoldsInv. *)
LEMMA HoldsKept ==
  ASSUME TypeOK, HoldsInv, NEW w \in Worker, NEW j, Holds(j), job' = [job EXCEPT ![w] = j]
  PROVE  HoldsInv'
  BY DEF HoldsInv, TypeOK

(* The actions of a step, each with its parameters typed. *)
LEMMA Cases ==
  TypeOK /\ Next =>
    \/ \E w \in Worker, u \in Player, m \in Match, kind \in {"move", "cancel"},
          t \in Time \cup {None} : Submit(w, u, m, kind, t)
    \/ \E w \in Worker : SubmitChecks(w)
    \/ \E w \in Worker : SubmitSaves(w)
    \/ \E w \in Worker, u \in Player, i \in Request : Agree(w, u, i)
    \/ \E w \in Worker, i \in Request : Withdraw(w, i)
    \/ \E w \in Worker, i \in Request : Decline(w, i)
    \/ \E w \in Worker : SaveAnswer(w)
    \/ \E w \in Worker, v \in Admin, m \in Match, t \in Time : EditMatch(w, v, m, t)
    \/ \E w \in Worker, v \in Admin, i \in Request, t \in Time \cup {None} : Approve(w, v, i, t)
    \/ \E w \in Worker : MoveFails(w)
    \/ \E w \in Worker : CancelMatch(w)
    \/ \E w \in Worker : MoveMatch(w)
    \/ \E w \in Worker : ClearAcks(w)
    \/ \E w \in Worker, u \in Player : SeedAck(w, u)
    \/ \E w \in Worker : RecordApproval(w)
    \/ \E w \in Worker : ListOthers(w)
    \/ \E w \in Worker, x \in Request \X RequestRow : Supersede(w, x)
    \/ \E w \in Worker, u \in Player, m \in Match : Acknowledge(w, u, m)
    \/ \E w \in Worker : SaveAck(w)
    \/ \E m \in Match : DeleteMatch(m)
    \/ Restart
<1>1. TypeOK => \A w \in Worker : w \in Busy => \A x \in job[w].others : x \in Request \X RequestRow
  BY DEF TypeOK, Jobs, Busy
<1>2. Proposals \cup {None} \subseteq Time \cup {None} /\ Busy \subseteq Worker
  BY BoundAssumption DEF Busy
<1> QED
  BY <1>1, <1>2 DEF Next, Continue

(* Every step keeps the types. *)
LEMMA TypeStep ==
  ASSUME TypeOK, HoldsInv, Next
  PROVE  TypeOK'
<1>2. ASSUME NEW w \in Worker, NEW u \in Player, NEW m \in Match,
             NEW kind \in {"move", "cancel"}, NEW t \in Time \cup {None},
             Submit(w, u, m, kind, t)
       PROVE  TypeOK'
  <2>1. m \in Match /\ match[m] \in Time /\ t \in Time \cup {None}
    BY <1>2 DEF Submit, Matches, TypeOK
  <2>2. [match |-> m, by |-> u, kind |-> kind, proposed |-> t, original |-> match[m],
         agreed |-> FALSE, status |-> "pending"] \in RequestRow
    BY <2>1 DEF RequestRow
  <2>3. Call("submit", "check", m, u) \in Jobs
    BY CallTyped DEF Kind, Steps
  <2>9. job' \in [Worker -> Jobs \cup {Idle}]
    BY <1>2, <2>2, <2>3, Updated DEF TypeOK, Submit, Start, Go
  <2> QED
    BY <1>2, <2>9 DEF TypeOK, Submit
<1>3. ASSUME NEW w \in Worker, SubmitChecks(w) PROVE TypeOK'
  <2>1. job[w] \in Jobs
    BY <1>3, JobTyped DEF SubmitChecks, Is
  <2>2. [job[w] EXCEPT !.at = "save"] \in Jobs
    BY <2>1, Updated DEF Steps
  <2>9. job' \in [Worker -> Jobs \cup {Idle}]
    BY <1>3, <2>2 DEF TypeOK, SubmitChecks, Step, Go, Done
  <2> QED
    BY <1>3, <2>9 DEF TypeOK, SubmitChecks
<1>4. ASSUME NEW w \in Worker, SubmitSaves(w) PROVE TypeOK'
  <2>1. job[w].row \in RequestRow
    BY <1>4 DEF SubmitSaves, Is, HoldsInv, Holds
  <2>2. job' \in [Worker -> Jobs \cup {Idle}]
    BY <1>4 DEF TypeOK, SubmitSaves, Go, Done
  <2>3. req' \in [Request -> RequestRow \cup {None}] /\ issued' \in Nat
    BY <1>4, <2>1 DEF TypeOK, SubmitSaves
  <2> QED
    BY <1>4, <2>2, <2>3 DEF TypeOK, SubmitSaves
<1>5. ASSUME NEW w \in Worker, NEW u \in Player, NEW i \in Request, Agree(w, u, i) PROVE TypeOK'
  <2>1. i \in Requests
    BY <1>5 DEF Agree, Pending
  <2>2. OnRequest("agree", "save", i, u) \in Jobs
    BY <2>1, RequestTyped DEF Kind, Deciding, Steps
  <2>3. job' \in [Worker -> Jobs \cup {Idle}]
    BY <1>5, <2>2 DEF TypeOK, Agree, Start, Go
  <2> QED
    BY <1>5, <2>3 DEF TypeOK, Agree
<1>6. ASSUME NEW w \in Worker, NEW i \in Request, Withdraw(w, i) PROVE TypeOK'
  <2>1. i \in Requests /\ req[i].by \in Player
    BY <1>6, RowTyped DEF Withdraw, Pending
  <2>2. OnRequest("withdraw", "save", i, req[i].by) \in Jobs
    BY <2>1, RequestTyped DEF Kind, Deciding, Steps
  <2>3. job' \in [Worker -> Jobs \cup {Idle}]
    BY <1>6, <2>2 DEF TypeOK, Withdraw, Start, Go
  <2> QED
    BY <1>6, <2>3 DEF TypeOK, Withdraw
<1>7. ASSUME NEW w \in Worker, NEW i \in Request, Decline(w, i) PROVE TypeOK'
  <2>1. i \in Requests /\ req[i].by \in Player
    BY <1>7, RowTyped DEF Decline, Pending
  <2>2. OnRequest("decline", "save", i, req[i].by) \in Jobs
    BY <2>1, RequestTyped DEF Kind, Deciding, Steps
  <2>3. job' \in [Worker -> Jobs \cup {Idle}]
    BY <1>7, <2>2 DEF TypeOK, Decline, Start, Go
  <2> QED
    BY <1>7, <2>3 DEF TypeOK, Decline
<1>8. ASSUME NEW w \in Worker, SaveAnswer(w) PROVE TypeOK'
  <2>1. job[w].id \in Request /\ job[w].row \in RequestRow
    BY <1>8 DEF SaveAnswer, HoldsInv, Holds
  <2>2. /\ [job[w].row EXCEPT !.agreed = TRUE] \in RequestRow
        /\ [job[w].row EXCEPT !.status = "withdrawn"] \in RequestRow
        /\ [job[w].row EXCEPT !.status = "declined"] \in RequestRow
    BY <2>1 DEF RequestRow
  <2>3. req' \in [Request -> RequestRow \cup {None}]
    BY <1>8, <2>2 DEF TypeOK, SaveAnswer, SaveRequest
  <2>4. job' \in [Worker -> Jobs \cup {Idle}]
    BY <1>8 DEF TypeOK, SaveAnswer, Go, Done
  <2> QED
    BY <1>8, <2>3, <2>4 DEF TypeOK, SaveAnswer
<1>9. ASSUME NEW w \in Worker, NEW v \in Admin, NEW m \in Match, NEW t \in Time,
             EditMatch(w, v, m, t)
       PROVE  TypeOK'
  <2>1. Call("edit", "move", m, v) \in Jobs
    BY CallTyped DEF Kind, Steps
  <2>2. job' \in [Worker -> Jobs \cup {Idle}]
    BY <1>9, <2>1, Updated DEF TypeOK, EditMatch, Start, Go
  <2> QED
    BY <1>9, <2>2 DEF TypeOK, EditMatch
<1>10. ASSUME NEW w \in Worker, NEW v \in Admin, NEW i \in Request, NEW t \in Time \cup {None},
              Approve(w, v, i, t)
       PROVE  TypeOK'
  <2>1. i \in Requests
    BY <1>10 DEF Approve, Pending
  <2>2. OnRequest("approve", "move", i, v) \in Jobs
    BY <2>1, RequestTyped DEF Kind, Deciding, Steps
  <2>3. req[i] \in RequestRow
    BY <2>1 DEF TypeOK, Requests
  <2>4. req[i].proposed \in Time \cup {None}
    BY <2>3 DEF RequestRow
  <2> DEFINE time == CASE req[i].kind = "cancel" -> None
                       [] t # None -> t
                       [] OTHER -> req[i].proposed
  <2>5. time \in Time \cup {None}
    BY <2>4
  <2>6. job' = [job EXCEPT ![w] = [OnRequest("approve", "move", i, v) EXCEPT !.time = time]]
    BY <1>10 DEF Approve, Start, Go
  <2> HIDE DEF time
  <2>7. job' \in [Worker -> Jobs \cup {Idle}]
    BY <2>2, <2>5, <2>6, Updated DEF TypeOK
  <2> QED
    BY <1>10, <2>7 DEF TypeOK, Approve
<1>11. ASSUME NEW w \in Worker, MoveFails(w) PROVE TypeOK'
  BY <1>11 DEF MoveFails, Is, Go, Done, TypeOK
<1>12. ASSUME NEW w \in Worker, CancelMatch(w) PROVE TypeOK'
  <2>1. job' \in [Worker -> Jobs \cup {Idle}]
    BY <1>12 DEF TypeOK, CancelMatch, Go, Done
  <2>2. match' \in [Match -> Time \cup {None}] /\ req' \in [Request -> RequestRow \cup {None}]
    BY <1>12 DEF TypeOK, CancelMatch, Remove
  <2>3. ack' \in [Match -> [Player -> Answer]]
    BY <1>12 DEF TypeOK, CancelMatch, Remove, Answer
  <2> QED
    BY <1>12, <2>1, <2>2, <2>3 DEF TypeOK, CancelMatch
<1>13. ASSUME NEW w \in Worker, MoveMatch(w) PROVE TypeOK'
  <2>1. job[w] \in Jobs
    BY <1>13, JobTyped DEF MoveMatch, Is
  <2>2. /\ [job[w] EXCEPT !.at = "clear"] \in Jobs
        /\ AfterMove(job[w]) \in Jobs \cup {Idle}
    BY <2>1, Updated DEF Steps, AfterMove
  <2>3. job[w].match \in Match /\ job[w].time \in Time
    BY <1>13, <2>1 DEF MoveMatch, Jobs
  <2>4. match' \in [Match -> Time \cup {None}] /\ promised' \in [Match -> Time \cup {None}]
    BY <1>13, <2>3 DEF TypeOK, MoveMatch
  <2>9. job' \in [Worker -> Jobs \cup {Idle}]
    BY <1>13, <2>2 DEF TypeOK, MoveMatch, Go
  <2> QED
    BY <1>13, <2>4, <2>9 DEF TypeOK, MoveMatch
<1>14. ASSUME NEW w \in Worker, ClearAcks(w) PROVE TypeOK'
  <2>1. job[w] \in Jobs
    BY <1>14, JobTyped DEF ClearAcks, Is
  <2>2. [job[w] EXCEPT !.at = "seed", !.todo = Player] \in Jobs
    BY <2>1, Updated DEF Steps
  <2>3. ack' \in [Match -> [Player -> Answer]]
    BY <1>14 DEF TypeOK, ClearAcks, Answer
  <2>9. job' \in [Worker -> Jobs \cup {Idle}]
    BY <1>14, <2>2 DEF TypeOK, ClearAcks, Go
  <2> QED
    BY <1>14, <2>3, <2>9 DEF TypeOK, ClearAcks
<1>15. ASSUME NEW w \in Worker, NEW u \in Player, SeedAck(w, u) PROVE TypeOK'
  <2>0. job[w] \in Jobs /\ Holds(job[w]) /\ job[w].at = "seed"
    BY <1>15, JobTyped DEF SeedAck, Is, HoldsInv
  <2>1. job[w] \in Jobs /\ job[w].time \in Time
    BY <2>0 DEF Holds, Jobs, Kind, Deciding
  <2>2. job[w].todo \in SUBSET Player
    BY <2>1 DEF Jobs
  <2>3. /\ [job[w] EXCEPT !.todo = {}] \in Jobs
        /\ [job[w] EXCEPT !.todo = job[w].todo \ {u}] \in Jobs
    BY <2>1, <2>2, Updated
  <2>4. AfterMove([job[w] EXCEPT !.todo = {}]) \in Jobs \cup {Idle}
    BY <2>3, Updated DEF Steps, AfterMove
  <2>5. ack' \in [Match -> [Player -> Answer]]
    BY <1>15, <2>1 DEF TypeOK, SeedAck, Answer
  <2>9. job' \in [Worker -> Jobs \cup {Idle}]
    BY <1>15, <2>3, <2>4 DEF TypeOK, SeedAck, Go
  <2> QED
    BY <1>15, <2>5, <2>9 DEF TypeOK, SeedAck
<1>16. ASSUME NEW w \in Worker, RecordApproval(w) PROVE TypeOK'
  <2>1. job[w] \in Jobs /\ job[w].row \in RequestRow
    BY <1>16, JobTyped DEF RecordApproval, Is, HoldsInv, Holds, Deciding
  <2>2. /\ [job[w] EXCEPT !.at = "list"] \in Jobs
        /\ [job[w].row EXCEPT !.status = "approved"] \in RequestRow
    BY <2>1, Updated DEF Steps, RequestRow
  <2>3. req' \in [Request -> RequestRow \cup {None}]
    BY <1>16, <2>2 DEF TypeOK, RecordApproval, SaveRequest
  <2>9. job' \in [Worker -> Jobs \cup {Idle}]
    BY <1>16, <2>2 DEF TypeOK, RecordApproval, Step, Go
  <2> QED
    BY <1>16, <2>3, <2>9 DEF TypeOK, RecordApproval
<1>17. ASSUME NEW w \in Worker, ListOthers(w) PROVE TypeOK'
  <2>1. job[w] \in Jobs
    BY <1>17, JobTyped DEF ListOthers, Is
  <2>2. job[w].time \in Time \cup {None}
    BY <2>1 DEF Jobs
  <2>3. Told(w) => /\ job' \in [Worker -> Jobs \cup {Idle}]
                  /\ promised' \in [Match -> Time \cup {None}]
    BY <2>1, <2>2 DEF Told, Done, Go, TypeOK
  <2> DEFINE others == {<<i, req[i]>> : i \in PendingOn(job[w].match) \ {job[w].id}}
  <2>4. others \in SUBSET (Request \X RequestRow)
    BY RequestTyped DEF PendingOn, Pending, Requests, TypeOK
  <2>5. [job[w] EXCEPT !.at = "close", !.others = others] \in Jobs
    BY <2>1, <2>4, Updated DEF Steps
  <2>6. /\ job' \in [Worker -> Jobs \cup {Idle}]
        /\ promised' \in [Match -> Time \cup {None}]
    BY <1>17, <2>3, <2>5 DEF TypeOK, ListOthers, Go
  <2> QED
    BY <1>17, <2>6 DEF TypeOK, ListOthers
<1>18. ASSUME NEW w \in Worker, NEW x \in Request \X RequestRow, Supersede(w, x) PROVE TypeOK'
  <2>1. job[w] \in Jobs
    BY <1>18, JobTyped DEF Supersede, Is
  <2>2. job[w].time \in Time \cup {None} /\ job[w].others \ {x} \in SUBSET (Request \X RequestRow)
    BY <2>1 DEF Jobs
  <2>3. Told(w) => /\ job' \in [Worker -> Jobs \cup {Idle}]
                  /\ promised' \in [Match -> Time \cup {None}]
    BY <2>1, <2>2 DEF Told, Done, Go, TypeOK
  <2>4. [job[w] EXCEPT !.others = job[w].others \ {x}] \in Jobs
    BY <2>1, <2>2, Updated
  <2>5. [x[2] EXCEPT !.status = "superseded"] \in RequestRow
    BY DEF RequestRow
  <2>6. req' \in [Request -> RequestRow \cup {None}]
    BY <1>18, <2>5 DEF TypeOK, Supersede, SaveRequest
  <2>7. /\ job' \in [Worker -> Jobs \cup {Idle}]
        /\ promised' \in [Match -> Time \cup {None}]
    BY <1>18, <2>3, <2>4 DEF TypeOK, Supersede, Go
  <2> QED
    BY <1>18, <2>6, <2>7 DEF TypeOK, Supersede
<1>19. ASSUME NEW w \in Worker, NEW u \in Player, NEW m \in Match, Acknowledge(w, u, m)
       PROVE  TypeOK'
  <2>1. Call("ack", "save", m, u) \in Jobs /\ match[m] \in Time \cup {None}
    BY CallTyped DEF Kind, Steps, TypeOK
  <2>2. job' \in [Worker -> Jobs \cup {Idle}]
    BY <1>19, <2>1, Updated DEF TypeOK, Acknowledge, Start, Go
  <2> QED
    BY <1>19, <2>2 DEF TypeOK, Acknowledge
<1>20. ASSUME NEW w \in Worker, SaveAck(w) PROVE TypeOK'
  <2>1. job[w].time \in Time
    BY <1>20 DEF SaveAck, Is, HoldsInv, Holds
  <2>2. job' \in [Worker -> Jobs \cup {Idle}]
    BY <1>20 DEF TypeOK, SaveAck, Go, Done
  <2>3. ack' \in [Match -> [Player -> Answer]]
    BY <1>20, <2>1 DEF TypeOK, SaveAck, Answer
  <2> QED
    BY <1>20, <2>2, <2>3 DEF TypeOK, SaveAck
<1>21. ASSUME NEW m \in Match, DeleteMatch(m) PROVE TypeOK'
  <2>1. match' \in [Match -> Time \cup {None}] /\ req' \in [Request -> RequestRow \cup {None}]
    BY <1>21 DEF TypeOK, DeleteMatch, Remove
  <2>2. ack' \in [Match -> [Player -> Answer]]
    BY <1>21 DEF TypeOK, DeleteMatch, Remove, Answer
  <2> QED
    BY <1>21, <2>1, <2>2 DEF TypeOK, DeleteMatch
<1>22. ASSUME Restart PROVE TypeOK'
  BY <1>22 DEF Restart, TypeOK, Done, Go
<1> QED
  BY <1>2, <1>3, <1>4, <1>5, <1>6, <1>7, <1>8, <1>9, <1>10, <1>11, <1>12, <1>13, <1>14, <1>15,
     <1>16, <1>17, <1>18, <1>19, <1>20, <1>21, <1>22, Cases

(* Every step keeps what the calls hold. *)
LEMMA HoldsStep ==
  ASSUME TypeOK, HoldsInv, Next
  PROVE  HoldsInv'
<1>2. ASSUME NEW w \in Worker, NEW u \in Player, NEW m \in Match,
             NEW kind \in {"move", "cancel"}, NEW t \in Time \cup {None},
             Submit(w, u, m, kind, t)
       PROVE  HoldsInv'
  <2>1. m \in Match /\ match[m] \in Time /\ t \in Time \cup {None}
    BY <1>2 DEF Submit, Matches, TypeOK
  <2>2. Holds([Call("submit", "check", m, u) EXCEPT !.row =
            [match |-> m, by |-> u, kind |-> kind, proposed |-> t, original |-> match[m],
             agreed |-> FALSE, status |-> "pending"]])
    BY <2>1 DEF Holds, Call, Deciding, RequestRow
  <2> QED
    BY <1>2, <2>2, HoldsKept DEF Submit, Start, Go
<1>3. ASSUME NEW w \in Worker, SubmitChecks(w) PROVE HoldsInv'
  <2>1. job[w] \in Jobs /\ Holds(job[w])
    BY <1>3, JobTyped DEF SubmitChecks, Is, HoldsInv
  <2>2. Holds([job[w] EXCEPT !.at = "save"])
    BY <1>3, <2>1 DEF SubmitChecks, Is, Holds, Jobs, Kind,
     Deciding, Idle
  <2> QED
    BY <1>3, <2>2, IdleHolds, HoldsKept DEF SubmitChecks, Step, Go, Done
<1>4. ASSUME NEW w \in Worker, SubmitSaves(w) PROVE HoldsInv'
  BY <1>4, IdleHolds, HoldsKept DEF SubmitSaves, Is, Go, Done
<1>5. ASSUME NEW w \in Worker, NEW u \in Player, NEW i \in Request, Agree(w, u, i) PROVE HoldsInv'
  <2>1. i \in Requests
    BY <1>5 DEF Agree, Pending
  <2>2. Holds(OnRequest("agree", "save", i, u))
    BY <2>1, RowTyped DEF Holds, OnRequest, Call,
     Deciding, RequestRow
  <2> QED
    BY <1>5, <2>2, HoldsKept DEF Agree, Start, Go
<1>6. ASSUME NEW w \in Worker, NEW i \in Request, Withdraw(w, i) PROVE HoldsInv'
  <2>1. i \in Requests
    BY <1>6 DEF Withdraw, Pending
  <2>2. Holds(OnRequest("withdraw", "save", i, req[i].by))
    BY <2>1, RowTyped DEF Holds,
     OnRequest, Call, Deciding, RequestRow
  <2> QED
    BY <1>6, <2>2, HoldsKept DEF Withdraw, Start, Go
<1>7. ASSUME NEW w \in Worker, NEW i \in Request, Decline(w, i) PROVE HoldsInv'
  <2>1. i \in Requests
    BY <1>7 DEF Decline, Pending
  <2>2. Holds(OnRequest("decline", "save", i, req[i].by))
    BY <2>1, RowTyped DEF Holds,
     OnRequest, Call, Deciding, RequestRow
  <2> QED
    BY <1>7, <2>2, HoldsKept DEF Decline, Start, Go
<1>8. ASSUME NEW w \in Worker, SaveAnswer(w) PROVE HoldsInv'
  BY <1>8, IdleHolds, HoldsKept DEF SaveAnswer, Is, Go, Done, SaveRequest
<1>9. ASSUME NEW w \in Worker, NEW v \in Admin, NEW m \in Match, NEW t \in Time,
             EditMatch(w, v, m, t)
       PROVE  HoldsInv'
  <2>1. m \in Match /\ match[m] \in Time
    BY <1>9 DEF EditMatch, Matches, TypeOK
  <2>2. Holds([Call("edit", "move", m, v) EXCEPT !.time = t])
    BY <2>1 DEF Holds, Call, Deciding,
     RequestRow
  <2> QED
    BY <1>9, <2>2, HoldsKept DEF EditMatch, Start, Go
<1>10. ASSUME NEW w \in Worker, NEW v \in Admin, NEW i \in Request, NEW t \in Time \cup {None},
              Approve(w, v, i, t)
       PROVE  HoldsInv'
  <2>1. i \in Requests
    BY <1>10 DEF Approve, Pending
  <2>2. Holds([OnRequest("approve", "move", i, v) EXCEPT !.time =
            CASE req[i].kind = "cancel" -> None
              [] t # None -> t
              [] OTHER -> req[i].proposed])
    BY <2>1, RowTyped DEF Holds, OnRequest, Call, Deciding, RequestRow
  <2> QED
    BY <1>10, <2>2, HoldsKept DEF Approve, Start, Go
<1>11. ASSUME NEW w \in Worker, MoveFails(w) PROVE HoldsInv'
  BY <1>11, IdleHolds, HoldsKept DEF MoveFails, Is, Go, Done
<1>12. ASSUME NEW w \in Worker, CancelMatch(w) PROVE HoldsInv'
  BY <1>12, IdleHolds, HoldsKept DEF CancelMatch, Is, Go, Done, Remove
<1>13. ASSUME NEW w \in Worker, MoveMatch(w) PROVE HoldsInv'
  <2>1. job[w] \in Jobs /\ Holds(job[w])
    BY <1>13, JobTyped DEF MoveMatch, Is, HoldsInv
  <2>2. Holds([job[w] EXCEPT !.at = "clear"]) /\ Holds(AfterMove(job[w]))
    BY <1>13, <2>1 DEF
     MoveMatch, Is, Holds, AfterMove, Jobs, Kind, Deciding, Idle
  <2> QED
    BY <1>13, <2>2, IdleHolds, HoldsKept DEF MoveMatch, Go
<1>14. ASSUME NEW w \in Worker, ClearAcks(w) PROVE HoldsInv'
  <2>1. job[w] \in Jobs /\ Holds(job[w])
    BY <1>14, JobTyped DEF ClearAcks, Is, HoldsInv
  <2>2. Holds([job[w] EXCEPT !.at = "seed", !.todo = Player])
    BY <1>14, <2>1 DEF ClearAcks, Is,
     Holds, Jobs, Kind, Deciding, Idle
  <2> QED
    BY <1>14, <2>2, IdleHolds, HoldsKept DEF ClearAcks, Go
<1>15. ASSUME NEW w \in Worker, NEW u \in Player, SeedAck(w, u) PROVE HoldsInv'
  <2>1. job[w] \in Jobs /\ Holds(job[w])
    BY <1>15, JobTyped DEF SeedAck, Is, HoldsInv
  <2>2. /\ Holds(AfterMove([job[w] EXCEPT !.todo = {}]))
        /\ Holds([job[w] EXCEPT !.todo = job[w].todo \ {u}])
    BY <1>15, <2>1 DEF SeedAck, Is, Holds, AfterMove, Jobs, Kind, Deciding, Idle
  <2> QED
    BY <1>15, <2>2, IdleHolds, HoldsKept DEF SeedAck, Go
<1>16. ASSUME NEW w \in Worker, RecordApproval(w) PROVE HoldsInv'
  <2>1. job[w] \in Jobs /\ Holds(job[w])
    BY <1>16, JobTyped DEF RecordApproval, Is, HoldsInv
  <2>2. Holds([job[w] EXCEPT !.at = "list"])
    BY <1>16, <2>1 DEF RecordApproval, Is, Holds, Jobs,
     Kind, Deciding, Idle
  <2> QED
    BY <1>16, <2>2, IdleHolds, HoldsKept DEF RecordApproval, Step, Go
<1>17. ASSUME NEW w \in Worker, ListOthers(w) PROVE HoldsInv'
  <2>1. job[w] \in Jobs /\ Holds(job[w])
    BY <1>17, JobTyped DEF ListOthers, Is, HoldsInv
  <2>2. Holds([job[w] EXCEPT !.at = "close",
            !.others = {<<i, req[i]>> : i \in PendingOn(job[w].match) \ {job[w].id}}])
    BY <1>17, <2>1 DEF ListOthers, Is, Holds, Jobs, Kind, Deciding, Idle
  <2> QED
    BY <1>17, <2>2, IdleHolds, HoldsKept DEF ListOthers, Go, Told, Done
<1>18. ASSUME NEW w \in Worker, NEW x \in Request \X RequestRow, Supersede(w, x) PROVE HoldsInv'
  <2>1. job[w] \in Jobs /\ Holds(job[w])
    BY <1>18, JobTyped DEF Supersede, Is, HoldsInv
  <2>2. Holds([job[w] EXCEPT !.others = job[w].others \ {x}])
    BY <1>18, <2>1 DEF Supersede, Is,
     Holds, Jobs, Kind, Deciding, Idle
  <2> QED
    BY <1>18, <2>2, IdleHolds, HoldsKept DEF Supersede, Go, Told, Done
<1>19. ASSUME NEW w \in Worker, NEW u \in Player, NEW m \in Match, Acknowledge(w, u, m)
       PROVE  HoldsInv'
  <2>1. m \in Match /\ match[m] \in Time
    BY <1>19 DEF Acknowledge, Matches, TypeOK
  <2>2. Holds([Call("ack", "save", m, u) EXCEPT !.time = match[m]])
    BY <2>1 DEF Holds, Call,
     Deciding, RequestRow
  <2> QED
    BY <1>19, <2>2, HoldsKept DEF Acknowledge, Start, Go
<1>20. ASSUME NEW w \in Worker, SaveAck(w) PROVE HoldsInv'
  BY <1>20, IdleHolds, HoldsKept DEF SaveAck, Is, Go, Done
<1>21. ASSUME NEW m \in Match, DeleteMatch(m) PROVE HoldsInv'
  BY <1>21 DEF DeleteMatch, HoldsInv
<1>22. ASSUME Restart PROVE HoldsInv'
  BY <1>22, IdleHolds DEF Restart, HoldsInv
<1> QED
  BY <1>2, <1>3, <1>4, <1>5, <1>6, <1>7, <1>8, <1>9, <1>10, <1>11, <1>12, <1>13, <1>14, <1>15,
     <1>16, <1>17, <1>18, <1>19, <1>20, <1>21, <1>22, Cases

-----------------------------------------------------------------------------
(* Two calls whose conflict is not allowed are never both in flight.       *)
ApartInv ==
  \A v, w \in Worker : v # w =>
    \A c \in ConflictKind : InConflict(job[v], job[w])[c] => c \in Conflicts

(* A conflict is mutual, depends on whose call it is and what it is about  *)
(* only, and takes two calls.                                              *)
Same(j, k) == j.kind = k.kind /\ j.id = k.id /\ j.match = k.match /\ j.by = k.by

(* A conflict is mutual. *)
LEMMA Mutual ==
  ASSUME NEW j, NEW k, NEW c \in ConflictKind
  PROVE  InConflict(j, k)[c] <=> InConflict(k, j)[c]
  BY DEF InConflict, ConflictKind

(* Calls of the same kind about the same thing have the same conflicts. *)
LEMMA SameConflict ==
  ASSUME NEW i, NEW j, NEW k, Same(i, j), NEW c \in ConflictKind
  PROVE  InConflict(i, k)[c] <=> InConflict(j, k)[c]
  BY DEF Same, InConflict, ConflictKind, Moves

(* Nothing conflicts with a worker without a call. *)
LEMMA IdleConflict ==
  ASSUME NEW k, NEW c \in ConflictKind
  PROVE  ~InConflict(Idle, k)[c]
<1>1. Idle.kind = "idle"
  BY DEF Idle
<1>2. /\ Idle.kind \notin Deciding \cup {"submit", "ack"} /\ ~Moves(Idle)
      /\ {Idle.kind, k.kind} # {"submit", "approve"}
      /\ "ack" \in {Idle.kind, k.kind} => ~Moves(k)
  BY <1>1 DEF Deciding, Moves
<1>3. /\ ~InConflict(Idle, k)["row"] /\ ~InConflict(Idle, k)["twice"]
      /\ ~InConflict(Idle, k)["stale"] /\ ~InConflict(Idle, k)["move"]
      /\ ~InConflict(Idle, k)["ack"]
  BY <1>2 DEF InConflict
<1> QED
  BY <1>3 DEF ConflictKind

(* A call that moves on or ends adds no conflict. *)
LEMMA ApartKept ==
  ASSUME TypeOK, ApartInv, NEW w \in Worker, NEW j, Same(j, job[w]) \/ j = Idle,
         job' = [job EXCEPT ![w] = j]
  PROVE  ApartInv'
<1> SUFFICES ASSUME NEW v \in Worker, NEW u \in Worker, v # u, NEW c \in ConflictKind,
                    InConflict(job'[v], job'[u])[c]
             PROVE  c \in Conflicts
  BY DEF ApartInv
<1>1. /\ job'[w] = j /\ \A x \in Worker \ {w} : job'[x] = job[x]
      /\ InConflict(job[v], job[u])[c] => c \in Conflicts
  BY DEF ApartInv, TypeOK
<1>2. CASE v = w
  <2>1. InConflict(j, job[u])[c]
    BY <1>1, <1>2
  <2> QED
    BY <1>1, <1>2, <2>1, SameConflict, IdleConflict
<1>3. CASE u = w
  <2>1. InConflict(j, job[v])[c]
    BY <1>1, <1>3, Mutual
  <2>2. InConflict(job[u], job[v])[c]
    BY <1>3, <2>1, SameConflict, IdleConflict
  <2> QED
    BY <1>1, <2>2, Mutual
<1>4. CASE v # w /\ u # w
  BY <1>1, <1>4
<1> QED
  BY <1>2, <1>3, <1>4

(* A call that starts adds no conflict that is not allowed. *)
LEMMA ApartStart ==
  ASSUME TypeOK, ApartInv, NEW w \in Worker, NEW j, Start(w, j)
  PROVE  ApartInv'
<1> SUFFICES ASSUME NEW v \in Worker, NEW u \in Worker, v # u, NEW c \in ConflictKind,
                    InConflict(job'[v], job'[u])[c]
             PROVE  c \in Conflicts
  BY DEF ApartInv
<1>1. /\ job'[w] = j /\ \A x \in Worker \ {w} : job'[x] = job[x]
      /\ InConflict(job[v], job[u])[c] => c \in Conflicts
  BY DEF ApartInv, TypeOK, Start, Go
<1>2. \A x \in Worker : InConflict(j, job[x])[c] => c \in Conflicts
  BY Mutual, IdleConflict DEF Start, Busy
<1> QED
  BY <1>1, <1>2, Mutual

(* Every step keeps conflicting calls apart. *)
LEMMA ApartStep ==
  ASSUME TypeOK, ApartInv, Next
  PROVE  ApartInv'
<1>2. ASSUME NEW w \in Worker, NEW u \in Player, NEW m \in Match,
             NEW kind \in {"move", "cancel"}, NEW t \in Time \cup {None},
             Submit(w, u, m, kind, t)
       PROVE  ApartInv'
  BY <1>2, ApartStart DEF Submit
<1>3. ASSUME NEW w \in Worker, SubmitChecks(w) PROVE ApartInv'
  <2>1. job[w] \in Jobs
    BY <1>3, JobTyped DEF SubmitChecks, Is
  <2>2. Same([job[w] EXCEPT !.at = "save"], job[w])
    BY <2>1 DEF Same, Jobs
  <2> QED
    BY <1>3, <2>2, ApartKept DEF SubmitChecks, Step, Go, Done
<1>4. ASSUME NEW w \in Worker, SubmitSaves(w) PROVE ApartInv'
  BY <1>4, ApartKept DEF SubmitSaves, Go, Done
<1>5. ASSUME NEW w \in Worker, NEW u \in Player, NEW i \in Request, Agree(w, u, i) PROVE ApartInv'
  BY <1>5, ApartStart DEF Agree
<1>6. ASSUME NEW w \in Worker, NEW i \in Request, Withdraw(w, i) PROVE ApartInv'
  BY <1>6, ApartStart DEF Withdraw
<1>7. ASSUME NEW w \in Worker, NEW i \in Request, Decline(w, i) PROVE ApartInv'
  BY <1>7, ApartStart DEF Decline
<1>8. ASSUME NEW w \in Worker, SaveAnswer(w) PROVE ApartInv'
  BY <1>8, ApartKept DEF SaveAnswer, Go, Done
<1>9. ASSUME NEW w \in Worker, NEW v \in Admin, NEW m \in Match, NEW t \in Time,
             EditMatch(w, v, m, t)
       PROVE  ApartInv'
  BY <1>9, ApartStart DEF EditMatch
<1>10. ASSUME NEW w \in Worker, NEW v \in Admin, NEW i \in Request, NEW t \in Time \cup {None},
              Approve(w, v, i, t)
       PROVE  ApartInv'
  BY <1>10, ApartStart DEF Approve
<1>11. ASSUME NEW w \in Worker, MoveFails(w) PROVE ApartInv'
  BY <1>11, ApartKept DEF MoveFails, Go, Done
<1>12. ASSUME NEW w \in Worker, CancelMatch(w) PROVE ApartInv'
  BY <1>12, ApartKept DEF CancelMatch, Go, Done
<1>13. ASSUME NEW w \in Worker, MoveMatch(w) PROVE ApartInv'
  <2>1. job[w] \in Jobs
    BY <1>13, JobTyped DEF MoveMatch, Is
  <2>2. /\ Same([job[w] EXCEPT !.at = "clear"], job[w])
        /\ Same(AfterMove(job[w]), job[w]) \/ AfterMove(job[w]) = Idle
    BY <2>1 DEF Same, Jobs, AfterMove
  <2> QED
    BY <1>13, <2>2, ApartKept DEF MoveMatch, Go
<1>14. ASSUME NEW w \in Worker, ClearAcks(w) PROVE ApartInv'
  <2>1. job[w] \in Jobs
    BY <1>14, JobTyped DEF ClearAcks, Is
  <2>2. Same([job[w] EXCEPT !.at = "seed", !.todo = Player], job[w])
    BY <2>1 DEF Same, Jobs
  <2> QED
    BY <1>14, <2>2, ApartKept DEF ClearAcks, Go
<1>15. ASSUME NEW w \in Worker, NEW u \in Player, SeedAck(w, u) PROVE ApartInv'
  <2>1. job[w] \in Jobs
    BY <1>15, JobTyped DEF SeedAck, Is
  <2>2. /\ Same(AfterMove([job[w] EXCEPT !.todo = {}]), job[w]) \/ AfterMove([job[w] EXCEPT !.todo = {}]) = Idle
        /\ Same([job[w] EXCEPT !.todo = job[w].todo \ {u}], job[w])
    BY <2>1 DEF Same, Jobs, AfterMove
  <2> QED
    BY <1>15, <2>2, ApartKept DEF SeedAck, Go
<1>16. ASSUME NEW w \in Worker, RecordApproval(w) PROVE ApartInv'
  <2>1. job[w] \in Jobs
    BY <1>16, JobTyped DEF RecordApproval, Is
  <2>2. Same([job[w] EXCEPT !.at = "list"], job[w])
    BY <2>1 DEF Same, Jobs
  <2> QED
    BY <1>16, <2>2, ApartKept DEF RecordApproval, Step, Go
<1>17. ASSUME NEW w \in Worker, ListOthers(w) PROVE ApartInv'
  <2>1. job[w] \in Jobs
    BY <1>17, JobTyped DEF ListOthers, Is
  <2>2. Same([job[w] EXCEPT !.at = "close",
            !.others = {<<i, req[i]>> : i \in PendingOn(job[w].match) \ {job[w].id}}], job[w])
    BY <2>1 DEF Same, Jobs
  <2> QED
    BY <1>17, <2>2, ApartKept DEF ListOthers, Go, Told, Done
<1>18. ASSUME NEW w \in Worker, NEW x \in Request \X RequestRow, Supersede(w, x) PROVE ApartInv'
  <2>1. job[w] \in Jobs
    BY <1>18, JobTyped DEF Supersede, Is
  <2>2. Same([job[w] EXCEPT !.others = job[w].others \ {x}], job[w])
    BY <2>1 DEF Same, Jobs
  <2> QED
    BY <1>18, <2>2, ApartKept DEF Supersede, Go, Told, Done
<1>19. ASSUME NEW w \in Worker, NEW u \in Player, NEW m \in Match, Acknowledge(w, u, m)
       PROVE  ApartInv'
  BY <1>19, ApartStart DEF Acknowledge
<1>20. ASSUME NEW w \in Worker, SaveAck(w) PROVE ApartInv'
  BY <1>20, ApartKept DEF SaveAck, Go, Done
<1>21. ASSUME NEW m \in Match, DeleteMatch(m) PROVE ApartInv'
  BY <1>21 DEF DeleteMatch, ApartInv
<1>22. ASSUME Restart PROVE ApartInv'
  BY <1>22, IdleConflict DEF Restart, ApartInv
<1> QED
  BY <1>2, <1>3, <1>4, <1>5, <1>6, <1>7, <1>8, <1>9, <1>10, <1>11, <1>12, <1>13, <1>14, <1>15,
     <1>16, <1>17, <1>18, <1>19, <1>20, <1>21, <1>22, Cases

-----------------------------------------------------------------------------
(* Without conflicting answers, the row an answer will save is still the   *)
(* row of the table, and so are the rows an approval is about to close.    *)
Fresh(j) ==
  j.kind \in Deciding =>
    /\ j.id <= issued /\ j.row.status = "pending"
    /\ j.at \notin {"list", "close"} /\ j.id \in Requests => req[j.id] = j.row
    /\ \A x \in j.others :
         /\ x[1] <= issued /\ x[2].status = "pending" /\ x[2].match = j.match
         /\ x[1] \in Requests => req[x[1]] = x[2]

RowInv ==
  /\ \A i \in Requests : i <= issued
  /\ \A w \in Worker : Fresh(job[w])

Base == TypeOK /\ HoldsInv /\ ApartInv

(* Request ids are numbers. *)
LEMMA Ids == \A i \in Request : i \in Nat
  BY IdAssumption, FS_CardinalityType

(* Two answers in flight are about different requests, and an approval is  *)
(* the only answer on its match.                                           *)
LEMMA Alone ==
  ASSUME ApartInv, "row" \notin Conflicts, NEW v \in Worker, NEW w \in Worker, v # w,
         job[v].kind \in Deciding, job[w].kind \in Deciding
  PROVE  /\ job[v].id # job[w].id
         /\ job[v].match = job[w].match => "approve" \notin {job[v].kind, job[w].kind}
<1>1. ~InConflict(job[v], job[w])["row"]
  BY DEF ApartInv, ConflictKind
<1> QED
  BY <1>1 DEF InConflict

(* One call moving on, the table untouched, is enough for RowInv. *)
LEMMA FreshKept ==
  ASSUME TypeOK, RowInv, NEW w \in Worker, NEW j, Fresh(j), job' = [job EXCEPT ![w] = j],
         UNCHANGED <<req, issued>>
  PROVE  RowInv'
  BY DEF RowInv, Fresh, TypeOK, Requests

(* A worker without a call holds no row. *)
LEMMA IdleFresh == Fresh(Idle)
  BY DEF Fresh, Idle, Deciding

(* What a save of one row does to the rows the other calls hold: nothing.  *)
LEMMA SaveApart ==
  ASSUME Base, RowInv, "row" \notin Conflicts, NEW w \in Worker, job[w].kind \in Deciding,
         NEW k \in Request, NEW row \in RequestRow,
         \/ k = job[w].id /\ job[w].at \notin {"list", "close"}
         \/ job[w].kind = "approve" /\ \E x \in job[w].others : x[1] = k,
         SaveRequest(k, row), issued' = issued,
         NEW v \in Worker, v # w, job'[v] = job[v]
  PROVE  Fresh(job[v])'
<1> SUFFICES ASSUME job[v].kind \in Deciding
             PROVE  Fresh(job[v])'
  BY DEF Fresh
<1>1. k \in Requests => req[k].match = job[w].match
  BY DEF RowInv, Fresh, Base, HoldsInv, Holds
<1>2. /\ k \in Requests /\ job[v].at \notin {"list", "close"} => job[v].id # k
      /\ k \in Requests => \A y \in job[v].others : y[1] # k
  <2>1. ASSUME k \in Requests, job[v].at \notin {"list", "close"}, job[v].id = k PROVE FALSE
    <3>1. req[k].match = job[v].match
      BY <2>1 DEF RowInv, Fresh, Base, HoldsInv, Holds
    <3> QED
      BY <1>1, <2>1, <3>1, Alone DEF Base
  <2>2. ASSUME k \in Requests, NEW y \in job[v].others, y[1] = k PROVE FALSE
    <3>1. req[k].match = job[v].match
      BY <2>2 DEF RowInv, Fresh
    <3>2. job[v].kind = "approve"
      BY <2>2 DEF Base, HoldsInv, Holds, Deciding
    <3> QED
      BY <1>1, <2>2, <3>1, <3>2, Alone DEF Base
  <2> QED
    BY <2>1, <2>2
<1>3. /\ Requests' = Requests
      /\ \A i \in Requests : k \notin Requests \/ i # k => req'[i] = req[i]
  BY NullAssumption, RowAssumption DEF SaveRequest, Requests, Base, TypeOK
<1>4. Fresh(job[v])
  BY DEF RowInv
<1> QED
  BY <1>2, <1>3, <1>4 DEF Fresh

(* Every step keeps what is held the row of the table. *)
LEMMA RowStep ==
  ASSUME Base, RowInv, "row" \notin Conflicts, Next
  PROVE  RowInv'
<1>2. ASSUME NEW w \in Worker, NEW u \in Player, NEW m \in Match,
             NEW kind \in {"move", "cancel"}, NEW t \in Time \cup {None},
             Submit(w, u, m, kind, t)
       PROVE  RowInv'
  <2>1. Fresh([Call("submit", "check", m, u) EXCEPT !.row =
            [match |-> m, by |-> u, kind |-> kind, proposed |-> t, original |-> match[m],
             agreed |-> FALSE, status |-> "pending"]])
    BY DEF Fresh, Call, Deciding
  <2> QED
    BY <1>2, <2>1, FreshKept DEF Base, Submit, Start, Go
<1>3. ASSUME NEW w \in Worker, SubmitChecks(w) PROVE RowInv'
  <2>1. job[w] \in Jobs /\ Fresh(job[w]) /\ Holds(job[w])
    BY <1>3, JobTyped DEF SubmitChecks, Is, Base, HoldsInv, RowInv
  <2>2. Fresh([job[w] EXCEPT !.at = "save"])
    BY <1>3, <2>1 DEF SubmitChecks, Is, Fresh, Holds,
     Jobs, Deciding
  <2> QED
    BY <1>3, <2>2, IdleFresh, FreshKept DEF Base, SubmitChecks, Step, Go, Done
<1>4. ASSUME NEW w \in Worker, SubmitSaves(w) PROVE RowInv'
  <2>1. issued \in Nat /\ issued + 1 \notin Requests
    BY Ids DEF RowInv, Base, TypeOK, Requests
  <2>2. /\ issued' \in {issued, issued + 1}
        /\ \A i \in Requests' : i \in Requests \/ (i = issued + 1 /\ issued' = i)
        /\ \A i \in Requests' : i # issued + 1 => req'[i] = req[i]
    BY <1>4, <2>1 DEF SubmitSaves, Requests, Base, TypeOK
  <2>0. issued <= issued' /\ issued' \in Nat
    BY <2>1, <2>2
  <2>3. \A i \in Requests' : i <= issued'
    <3>1. \A i \in Requests : i \in Nat /\ i <= issued
      BY Ids DEF RowInv, Requests
    <3> QED
      BY <2>0, <2>1, <2>2, <3>1
  <2>4. ASSUME NEW v \in Worker, v # w PROVE Fresh(job[v])'
    <3>1. job'[v] = job[v] /\ Fresh(job[v]) /\ Holds(job[v])
      BY <1>4, <2>4 DEF SubmitSaves, Go, Done, Base, TypeOK, RowInv, HoldsInv
    <3>2. \A i \in Request : i <= issued /\ i \in Requests' => i \in Requests /\ req'[i] = req[i]
      BY <2>1, <2>2, Ids DEF Requests
    <3>3. job[v].kind \in Deciding => \A x \in job[v].others : x[1] \in Request
      BY JobTyped DEF Base, Jobs, Idle, Deciding
    <3>4. \A i \in Request : i <= issued => i <= issued'
      BY <2>0, <2>1, Ids
    <3> QED
      BY <3>1, <3>2, <3>3, <3>4 DEF Fresh, Holds
  <2>5. Fresh(job[w])'
    BY <1>4 DEF SubmitSaves, Go, Done, Base, TypeOK, Fresh, Idle, Deciding
  <2> QED
    BY <2>3, <2>4, <2>5 DEF RowInv
<1>5. ASSUME NEW w \in Worker, NEW u \in Player, NEW i \in Request, Agree(w, u, i) PROVE RowInv'
  <2>1. i \in Requests /\ req[i].status = "pending" /\ i <= issued
    BY <1>5 DEF Agree, Pending, RowInv
  <2>2. Fresh(OnRequest("agree", "save", i, u))
    BY <2>1 DEF Fresh, OnRequest, Call
  <2> QED
    BY <1>5, <2>2, FreshKept DEF Base, Agree, Start, Go
<1>6. ASSUME NEW w \in Worker, NEW i \in Request, Withdraw(w, i) PROVE RowInv'
  <2>1. i \in Requests /\ req[i].status = "pending" /\ i <= issued
    BY <1>6 DEF Withdraw, Pending, RowInv
  <2>2. Fresh(OnRequest("withdraw", "save", i, req[i].by))
    BY <2>1 DEF Fresh, OnRequest, Call
  <2> QED
    BY <1>6, <2>2, FreshKept DEF Base, Withdraw, Start, Go
<1>7. ASSUME NEW w \in Worker, NEW i \in Request, Decline(w, i) PROVE RowInv'
  <2>1. i \in Requests /\ req[i].status = "pending" /\ i <= issued
    BY <1>7 DEF Decline, Pending, RowInv
  <2>2. Fresh(OnRequest("decline", "save", i, req[i].by))
    BY <2>1 DEF Fresh, OnRequest, Call
  <2> QED
    BY <1>7, <2>2, FreshKept DEF Base, Decline, Start, Go
<1>8. ASSUME NEW w \in Worker, SaveAnswer(w) PROVE RowInv'
  <2>1. /\ job[w].kind \in Deciding /\ job[w].id \in Request /\ job[w].at = "save"
        /\ job[w].row \in RequestRow
    BY <1>8 DEF SaveAnswer, Is, Base, HoldsInv, Holds
  <2>2. PICK row \in RequestRow : SaveRequest(job[w].id, row)
    <3>1. /\ [job[w].row EXCEPT !.agreed = TRUE] \in RequestRow
          /\ [job[w].row EXCEPT !.status = "withdrawn"] \in RequestRow
          /\ [job[w].row EXCEPT !.status = "declined"] \in RequestRow
      BY <2>1 DEF RequestRow
    <3> QED
      BY <1>8, <3>1 DEF SaveAnswer
  <2>3. issued' = issued /\ job' = [job EXCEPT ![w] = Idle]
    BY <1>8 DEF SaveAnswer, Done, Go
  <2>4. \A v \in Worker : v # w => Fresh(job[v])'
    BY <2>1, <2>2, <2>3, SaveApart DEF Base, TypeOK
  <2>5. Fresh(job[w])'
    BY <2>3 DEF Fresh, Idle, Deciding, Base, TypeOK
  <2>6. Requests' = Requests
    BY <2>1, <2>2, RowAssumption DEF SaveRequest, Requests, Base, TypeOK
  <2> QED
    BY <2>3, <2>4, <2>5, <2>6 DEF RowInv
<1>9. ASSUME NEW w \in Worker, NEW v \in Admin, NEW m \in Match, NEW t \in Time,
             EditMatch(w, v, m, t)
       PROVE  RowInv'
  <2>1. Fresh([Call("edit", "move", m, v) EXCEPT !.time = t])
    BY DEF Fresh, Call, Deciding
  <2> QED
    BY <1>9, <2>1, FreshKept DEF Base, EditMatch, Start, Go
<1>10. ASSUME NEW w \in Worker, NEW v \in Admin, NEW i \in Request, NEW t \in Time \cup {None},
              Approve(w, v, i, t)
       PROVE  RowInv'
  <2>1. i \in Requests /\ req[i].status = "pending" /\ i <= issued
    BY <1>10 DEF Approve, Pending, RowInv
  <2>2. Fresh([OnRequest("approve", "move", i, v) EXCEPT !.time =
            CASE req[i].kind = "cancel" -> None
              [] t # None -> t
              [] OTHER -> req[i].proposed])
    BY <2>1 DEF Fresh, OnRequest, Call
  <2> QED
    BY <1>10, <2>2, FreshKept DEF Base, Approve, Start, Go
<1>11. ASSUME NEW w \in Worker, MoveFails(w) PROVE RowInv'
  BY <1>11, IdleFresh, FreshKept DEF Base, MoveFails, Go, Done
<1>12. ASSUME NEW w \in Worker, CancelMatch(w) PROVE RowInv'
  <2>1. \A i \in Requests' : i \in Requests /\ req'[i] = req[i]
    BY <1>12 DEF CancelMatch, Remove, Requests
  <2>2. issued' = issued /\ job' = [job EXCEPT ![w] = Idle]
    BY <1>12 DEF CancelMatch, Done, Go
  <2> QED
    BY <2>1, <2>2 DEF RowInv, Fresh, Base, TypeOK, Idle, Deciding
<1>13. ASSUME NEW w \in Worker, MoveMatch(w) PROVE RowInv'
  <2>1. job[w] \in Jobs /\ Fresh(job[w]) /\ Holds(job[w])
    BY <1>13, JobTyped DEF MoveMatch, Is, Base, HoldsInv, RowInv
  <2>2. /\ Fresh([job[w] EXCEPT !.at = "clear"])
        /\ Fresh(AfterMove(job[w]))
    BY <1>13, <2>1
     DEF MoveMatch, Is, Fresh, Holds, Jobs, Deciding, AfterMove, Idle
  <2> QED
    BY <1>13, <2>2, IdleFresh, FreshKept DEF Base, MoveMatch, Go
<1>14. ASSUME NEW w \in Worker, ClearAcks(w) PROVE RowInv'
  <2>1. job[w] \in Jobs /\ Fresh(job[w]) /\ Holds(job[w])
    BY <1>14, JobTyped DEF ClearAcks, Is, Base, HoldsInv, RowInv
  <2>2. Fresh([job[w] EXCEPT !.at = "seed", !.todo = Player])
    BY <1>14, <2>1 DEF ClearAcks, Is,
     Fresh, Holds, Jobs, Deciding
  <2> QED
    BY <1>14, <2>2, IdleFresh, FreshKept DEF Base, ClearAcks, Go
<1>15. ASSUME NEW w \in Worker, NEW u \in Player, SeedAck(w, u) PROVE RowInv'
  <2>1. job[w] \in Jobs /\ Fresh(job[w]) /\ Holds(job[w])
    BY <1>15, JobTyped DEF SeedAck, Is, Base, HoldsInv, RowInv
  <2>2. /\ Fresh(AfterMove([job[w] EXCEPT !.todo = {}]))
        /\ Fresh([job[w] EXCEPT !.todo = job[w].todo \ {u}])
    BY <1>15, <2>1 DEF SeedAck, Is, Fresh, Holds, Jobs, Deciding, AfterMove, Idle
  <2> QED
    BY <1>15, <2>2, IdleFresh, FreshKept DEF Base, SeedAck, Go
<1>16. ASSUME NEW w \in Worker, RecordApproval(w) PROVE RowInv'
  <2>1. /\ job[w] \in Jobs /\ job[w].kind = "approve" /\ job[w].at = "record"
        /\ job[w].kind \in Deciding /\ job[w].id \in Request /\ job[w].row \in RequestRow
        /\ job[w].others = {} /\ Fresh(job[w])
    BY <1>16, JobTyped DEF RecordApproval, Is, Base, HoldsInv, Holds, Deciding, RowInv
  <2>2. [job[w].row EXCEPT !.status = "approved"] \in RequestRow
    BY <2>1 DEF RequestRow
  <2>3. /\ SaveRequest(job[w].id, [job[w].row EXCEPT !.status = "approved"])
        /\ issued' = issued /\ job' = [job EXCEPT ![w] = [job[w] EXCEPT !.at = "list"]]
    BY <1>16 DEF RecordApproval, Step, Go
  <2>4. \A v \in Worker : v # w => Fresh(job[v])'
    BY <2>1, <2>2, <2>3, SaveApart DEF Base, TypeOK
  <2>5. Fresh(job[w])'
    <3>1. job'[w] = [job[w] EXCEPT !.at = "list"]
      BY <2>3 DEF Base, TypeOK
    <3> QED
      BY <2>1, <2>3, <3>1 DEF Fresh, Jobs
  <2>6. Requests' = Requests
    BY <2>1, <2>2, <2>3, RowAssumption DEF SaveRequest, Requests, Base, TypeOK
  <2> QED
    BY <2>3, <2>4, <2>5, <2>6 DEF RowInv
<1>17. ASSUME NEW w \in Worker, ListOthers(w) PROVE RowInv'
  <2>1. job[w] \in Jobs /\ Fresh(job[w]) /\ job[w].kind = "approve" /\ job[w].at = "list"
    BY <1>17, JobTyped DEF ListOthers, Is, Base, RowInv
  <2> DEFINE others == {<<i, req[i]>> : i \in PendingOn(job[w].match) \ {job[w].id}}
             j == [job[w] EXCEPT !.at = "close", !.others = others]
  <2>2. \A x \in others : /\ x[1] \in Requests /\ x[1] <= issued /\ x[2] = req[x[1]]
                          /\ x[2].status = "pending" /\ x[2].match = job[w].match
    BY DEF PendingOn, Pending, RowInv
  <2> HIDE DEF others
  <2>3. Fresh(j)
    BY <2>1, <2>2 DEF Fresh, Jobs
  <2>4. job' = [job EXCEPT ![w] = Idle] \/ job' = [job EXCEPT ![w] = j]
    BY <1>17 DEF ListOthers, Told, Done, Go, others
  <2> QED
    BY <1>17, <2>3, <2>4, IdleFresh, FreshKept DEF Base, ListOthers
<1>18. ASSUME NEW w \in Worker, NEW x \in Request \X RequestRow, Supersede(w, x) PROVE RowInv'
  <2>1. /\ job[w] \in Jobs /\ job[w].kind = "approve" /\ job[w].at = "close"
        /\ job[w].kind \in Deciding /\ x \in job[w].others /\ Fresh(job[w])
    BY <1>18, JobTyped DEF Supersede, Is, Base, Deciding, RowInv
  <2>2. x[1] \in Request /\ [x[2] EXCEPT !.status = "superseded"] \in RequestRow
    BY DEF RequestRow
  <2>3. /\ SaveRequest(x[1], [x[2] EXCEPT !.status = "superseded"])
        /\ issued' = issued
        /\ \/ job' = [job EXCEPT ![w] = Idle]
           \/ job' = [job EXCEPT ![w] = [job[w] EXCEPT !.others = job[w].others \ {x}]]
    BY <1>18 DEF Supersede, Told, Done, Go
  <2>4. \A v \in Worker : v # w => Fresh(job[v])'
    BY <2>1, <2>2, <2>3, SaveApart DEF Base, TypeOK
  <2>5. Fresh(job[w])'
    <3>1. CASE job' = [job EXCEPT ![w] = Idle]
      BY <3>1 DEF Fresh, Idle, Deciding, Base, TypeOK
    <3>2. CASE job' = [job EXCEPT ![w] = [job[w] EXCEPT !.others = job[w].others \ {x}]]
      <4>1. job'[w] = [job[w] EXCEPT !.others = job[w].others \ {x}]
        BY <3>2 DEF Base, TypeOK
      <4>2. \A y \in job[w].others \ {x} : y[1] \in Requests => y[1] # x[1]
        <5>1. \A y \in job[w].others : y \in Request \X RequestRow
          BY <2>1 DEF Jobs
        <5> QED
          BY <2>1, <5>1 DEF Fresh
      <4>3. \A y \in job[w].others \ {x} :
              y[1] \in Requests' => y[1] \in Requests /\ req'[y[1]] = req[y[1]]
        BY <2>2, <2>3, <4>2 DEF SaveRequest, Requests, Base, TypeOK
      <4> QED
        BY <2>1, <2>3, <4>1, <4>3 DEF Fresh, Jobs
    <3> QED
      BY <2>3, <3>1, <3>2
  <2>6. Requests' = Requests
    BY <2>2, <2>3, RowAssumption DEF SaveRequest, Requests, Base, TypeOK
  <2> QED
    BY <2>3, <2>4, <2>5, <2>6 DEF RowInv
<1>19. ASSUME NEW w \in Worker, NEW u \in Player, NEW m \in Match, Acknowledge(w, u, m)
       PROVE  RowInv'
  <2>1. Fresh([Call("ack", "save", m, u) EXCEPT !.time = match[m]])
    BY DEF Fresh, Call, Deciding
  <2> QED
    BY <1>19, <2>1, FreshKept DEF Base, Acknowledge, Start, Go
<1>20. ASSUME NEW w \in Worker, SaveAck(w) PROVE RowInv'
  BY <1>20, IdleFresh, FreshKept DEF Base, SaveAck, Go, Done
<1>21. ASSUME NEW m \in Match, DeleteMatch(m) PROVE RowInv'
  <2>1. \A i \in Requests' : i \in Requests /\ req'[i] = req[i]
    BY <1>21 DEF DeleteMatch, Remove, Requests
  <2>2. issued' = issued /\ job' = job
    BY <1>21 DEF DeleteMatch
  <2> QED
    BY <2>1, <2>2 DEF RowInv, Fresh, Base, TypeOK, Idle, Deciding
<1>22. ASSUME Restart PROVE RowInv'
  BY <1>22, IdleFresh DEF Restart, RowInv, Fresh, Requests, Idle, Deciding
<1> QED
  BY <1>2, <1>3, <1>4, <1>5, <1>6, <1>7, <1>8, <1>9, <1>10, <1>11, <1>12, <1>13, <1>14, <1>15,
     <1>16, <1>17, <1>18, <1>19, <1>20, <1>21, <1>22, Cases DEF Base

(* What a step does to the requests: it creates one, saves an open one, or *)
(* removes some.                                                           *)
Creates(w) == SubmitSaves(w) /\ job[w].match \in Matches

RowsStep ==
  /\ \A i \in Requests' : i \in Requests \/ \E w \in Worker : Creates(w) /\ i = issued + 1
  /\ \A i \in Requests : \/ req'[i] = req[i] \/ req'[i] = None
                         \/ /\ req[i].status = "pending"
                            /\ req'[i].match = req[i].match /\ req'[i].by = req[i].by
                            /\ req'[i].original = req[i].original

(* A save of an open row keeps whose it is and what it is about. *)
LEMMA SaveOpen ==
  ASSUME TypeOK, NEW k \in Request, NEW old \in RequestRow, k \in Requests => req[k] = old,
         old.status = "pending", NEW row \in RequestRow,
         row.match = old.match /\ row.by = old.by /\ row.original = old.original,
         SaveRequest(k, row)
  PROVE  RowsStep
  BY RowAssumption DEF RowsStep, SaveRequest, Requests, TypeOK

(* Every step writes the requests as RowsStep says. *)
LEMMA RowsWritten ==
  ASSUME Base, RowInv, Next
  PROVE  RowsStep
<1>2. ASSUME NEW w \in Worker, NEW u \in Player, NEW m \in Match,
             NEW kind \in {"move", "cancel"}, NEW t \in Time \cup {None},
             Submit(w, u, m, kind, t)
       PROVE  RowsStep
  BY <1>2 DEF Submit, RowsStep, Requests
<1>3. ASSUME NEW w \in Worker, SubmitChecks(w) PROVE RowsStep
  BY <1>3 DEF SubmitChecks, RowsStep, Requests
<1>4. ASSUME NEW w \in Worker, SubmitSaves(w) PROVE RowsStep
  <2>1. issued \in Nat /\ issued + 1 \notin Requests
    BY Ids DEF RowInv, Base, TypeOK, Requests
  <2>2. CASE job[w].match \in Matches
    BY <1>4, <2>1, <2>2 DEF SubmitSaves, Creates, RowsStep, Requests, Base, TypeOK
  <2>3. CASE job[w].match \notin Matches
    BY <1>4, <2>3 DEF SubmitSaves, RowsStep, Requests
  <2> QED
    BY <2>2, <2>3
<1>5. ASSUME NEW w \in Worker, NEW u \in Player, NEW i \in Request, Agree(w, u, i) PROVE RowsStep
  BY <1>5 DEF Agree, RowsStep, Requests
<1>6. ASSUME NEW w \in Worker, NEW i \in Request, Withdraw(w, i) PROVE RowsStep
  BY <1>6 DEF Withdraw, RowsStep, Requests
<1>7. ASSUME NEW w \in Worker, NEW i \in Request, Decline(w, i) PROVE RowsStep
  BY <1>7 DEF Decline, RowsStep, Requests
<1>8. ASSUME NEW w \in Worker, SaveAnswer(w) PROVE RowsStep
  <2>1. /\ job[w].kind \in Deciding /\ job[w].id \in Request /\ job[w].at = "save"
        /\ job[w].row \in RequestRow /\ Fresh(job[w])
    BY <1>8 DEF SaveAnswer, Is, Base, HoldsInv, Holds, RowInv
  <2>2. job[w].row.status = "pending" /\ (job[w].id \in Requests => req[job[w].id] = job[w].row)
    BY <2>1 DEF Fresh
  <2>3. PICK row \in RequestRow : /\ SaveRequest(job[w].id, row)
                                  /\ row.match = job[w].row.match /\ row.by = job[w].row.by
                                  /\ row.original = job[w].row.original
    <3>1. \A row \in {[job[w].row EXCEPT !.agreed = TRUE], [job[w].row EXCEPT !.status = "withdrawn"],
                      [job[w].row EXCEPT !.status = "declined"]} :
            /\ row \in RequestRow
            /\ row.match = job[w].row.match /\ row.by = job[w].row.by
            /\ row.original = job[w].row.original
      BY <2>1 DEF RequestRow
    <3> QED
      BY <1>8, <3>1 DEF SaveAnswer
  <2> QED
    BY <2>1, <2>2, <2>3, SaveOpen DEF Base
<1>9. ASSUME NEW w \in Worker, NEW v \in Admin, NEW m \in Match, NEW t \in Time,
             EditMatch(w, v, m, t)
       PROVE  RowsStep
  BY <1>9 DEF EditMatch, RowsStep, Requests
<1>10. ASSUME NEW w \in Worker, NEW v \in Admin, NEW i \in Request, NEW t \in Time \cup {None},
              Approve(w, v, i, t)
       PROVE  RowsStep
  BY <1>10 DEF Approve, RowsStep, Requests
<1>11. ASSUME NEW w \in Worker, MoveFails(w) PROVE RowsStep
  BY <1>11 DEF MoveFails, RowsStep, Requests
<1>12. ASSUME NEW w \in Worker, CancelMatch(w) PROVE RowsStep
  BY <1>12 DEF CancelMatch, Remove, RowsStep, Requests
<1>13. ASSUME NEW w \in Worker, MoveMatch(w) PROVE RowsStep
  BY <1>13 DEF MoveMatch, RowsStep, Requests
<1>14. ASSUME NEW w \in Worker, ClearAcks(w) PROVE RowsStep
  BY <1>14 DEF ClearAcks, RowsStep, Requests
<1>15. ASSUME NEW w \in Worker, NEW u \in Player, SeedAck(w, u) PROVE RowsStep
  BY <1>15 DEF SeedAck, RowsStep, Requests
<1>16. ASSUME NEW w \in Worker, RecordApproval(w) PROVE RowsStep
  <2>1. /\ job[w].kind \in Deciding /\ job[w].id \in Request /\ job[w].at = "record"
        /\ job[w].row \in RequestRow /\ Fresh(job[w])
    BY <1>16 DEF RecordApproval, Is, Base, HoldsInv, Holds, RowInv, Deciding
  <2>2. job[w].row.status = "pending" /\ (job[w].id \in Requests => req[job[w].id] = job[w].row)
    BY <2>1 DEF Fresh
  <2> DEFINE row == [job[w].row EXCEPT !.status = "approved"]
  <2>3. /\ row \in RequestRow /\ row.match = job[w].row.match /\ row.by = job[w].row.by
        /\ row.original = job[w].row.original
    BY <2>1 DEF RequestRow
  <2>4. SaveRequest(job[w].id, row)
    BY <1>16 DEF RecordApproval
  <2> HIDE DEF row
  <2> QED
    BY <2>1, <2>2, <2>3, <2>4, SaveOpen DEF Base
<1>17. ASSUME NEW w \in Worker, ListOthers(w) PROVE RowsStep
  BY <1>17 DEF ListOthers, RowsStep, Requests
<1>18. ASSUME NEW w \in Worker, NEW x \in Request \X RequestRow, Supersede(w, x) PROVE RowsStep
  <2>1. x \in job[w].others /\ job[w].kind \in Deciding /\ Fresh(job[w])
    BY <1>18 DEF Supersede, Is, RowInv, Deciding
  <2>2. /\ x[1] \in Request /\ x[2] \in RequestRow /\ x[2].status = "pending"
        /\ x[1] \in Requests => req[x[1]] = x[2]
    BY <2>1 DEF Fresh
  <2> DEFINE row == [x[2] EXCEPT !.status = "superseded"]
  <2>3. /\ row \in RequestRow /\ row.match = x[2].match /\ row.by = x[2].by
        /\ row.original = x[2].original
    BY <2>2 DEF RequestRow
  <2>4. SaveRequest(x[1], row)
    BY <1>18 DEF Supersede
  <2> HIDE DEF row
  <2> QED
    BY <2>2, <2>3, <2>4, SaveOpen DEF Base
<1>19. ASSUME NEW w \in Worker, NEW u \in Player, NEW m \in Match, Acknowledge(w, u, m)
       PROVE  RowsStep
  BY <1>19 DEF Acknowledge, RowsStep, Requests
<1>20. ASSUME NEW w \in Worker, SaveAck(w) PROVE RowsStep
  BY <1>20 DEF SaveAck, RowsStep, Requests
<1>21. ASSUME NEW m \in Match, DeleteMatch(m) PROVE RowsStep
  BY <1>21 DEF DeleteMatch, Remove, RowsStep, Requests
<1>22. ASSUME Restart PROVE RowsStep
  BY <1>22 DEF Restart, RowsStep, Requests
<1> QED
  BY <1>2, <1>3, <1>4, <1>5, <1>6, <1>7, <1>8, <1>9, <1>10, <1>11, <1>12, <1>13, <1>14, <1>15,
     <1>16, <1>17, <1>18, <1>19, <1>20, <1>21, <1>22, Cases DEF Base

(* Base holds at the start. *)
LEMMA BaseInit == Init => Base
<1> SUFFICES ASSUME Init PROVE Base
  OBVIOUS
<1>1. TypeOK
  BY DEF Init, TypeOK, Answer
<1>2. HoldsInv /\ ApartInv
  BY IdleHolds, IdleConflict DEF Init, HoldsInv, ApartInv
<1> QED
  BY <1>1, <1>2 DEF Base

(* Base is inductive. *)
LEMMA BaseStep == Base /\ [Next]_vars => Base'
<1> SUFFICES ASSUME Base, [Next]_vars PROVE Base'
  OBVIOUS
<1>1. CASE Next
  BY <1>1, TypeStep, HoldsStep, ApartStep DEF Base
<1>2. CASE UNCHANGED vars
  BY <1>2 DEF vars, Base, TypeOK, HoldsInv, ApartInv
<1> QED
  BY <1>1, <1>2

(* Every reachable state is well typed, whatever calls overlap.            *)
THEOREM TypeCorrect == Spec => []TypeOK
<1>1. Base => TypeOK
  BY DEF Base
<1> QED
  BY <1>1, BaseInit, BaseStep, PTL DEF Spec

(* What an answer holds is always the row of the table. *)
LEMMA RowInvariant == ASSUME "row" \notin Conflicts PROVE Spec => [](Base /\ RowInv)
<1>1. Init => RowInv
  BY IdleFresh, NullAssumption DEF Init, RowInv, Requests
<1>2. Base /\ RowInv /\ [Next]_vars => RowInv'
  <2>1. Base /\ RowInv /\ Next => RowInv'
    BY RowStep
  <2>2. RowInv /\ UNCHANGED vars => RowInv'
    BY DEF vars, RowInv, Fresh, Requests
  <2> QED
    BY <2>1, <2>2
<1> QED
  BY <1>1, <1>2, BaseInit, BaseStep, PTL DEF Spec

-----------------------------------------------------------------------------
(* A player's requests.                                                    *)
Ready(j) == j.kind = "submit" /\ j.at = "save"

(* A submit gets ready to create its row only by looking for another.      *)
ReadyStep ==
  \A z \in Worker : Ready(job'[z]) =>
    \/ job'[z] = job[z]
    \/ /\ SubmitChecks(z) /\ Asked(job[z].match, job[z].by) = {}
       /\ job'[z].match = job[z].match /\ job'[z].by = job[z].by

(* Every step is a ReadyStep. *)
LEMMA ReadySteps ==
  ASSUME Base, Next
  PROVE  ReadyStep
<1>2. ASSUME NEW w \in Worker, NEW u \in Player, NEW m \in Match,
             NEW kind \in {"move", "cancel"}, NEW t \in Time \cup {None},
             Submit(w, u, m, kind, t)
       PROVE  ReadyStep
  BY <1>2 DEF Submit, Start, Go, Call, Base, TypeOK, ReadyStep, Ready
<1>3. ASSUME NEW w \in Worker, SubmitChecks(w) PROVE ReadyStep
  <2>1. job[w] \in Jobs
    BY <1>3, JobTyped DEF SubmitChecks, Is, Base
  <2> QED
    BY <1>3, <2>1 DEF SubmitChecks, Step, Done, Go, Base, TypeOK, ReadyStep, Ready, Idle, Jobs
<1>4. ASSUME NEW w \in Worker, SubmitSaves(w) PROVE ReadyStep
  BY <1>4 DEF SubmitSaves, Done, Go, Base, TypeOK, ReadyStep, Ready, Idle
<1>5. ASSUME NEW w \in Worker, NEW u \in Player, NEW i \in Request, Agree(w, u, i) PROVE ReadyStep
  BY <1>5 DEF Agree, Start, Go, OnRequest, Call, Base, TypeOK, ReadyStep, Ready
<1>6. ASSUME NEW w \in Worker, NEW i \in Request, Withdraw(w, i) PROVE ReadyStep
  BY <1>6 DEF Withdraw, Start, Go, OnRequest, Call, Base, TypeOK, ReadyStep, Ready
<1>7. ASSUME NEW w \in Worker, NEW i \in Request, Decline(w, i) PROVE ReadyStep
  BY <1>7 DEF Decline, Start, Go, OnRequest, Call, Base, TypeOK, ReadyStep, Ready
<1>8. ASSUME NEW w \in Worker, SaveAnswer(w) PROVE ReadyStep
  BY <1>8 DEF SaveAnswer, Done, Go, Base, TypeOK, ReadyStep, Ready, Idle
<1>9. ASSUME NEW w \in Worker, NEW v \in Admin, NEW m \in Match, NEW t \in Time,
             EditMatch(w, v, m, t)
       PROVE  ReadyStep
  BY <1>9 DEF EditMatch, Start, Go, Call, Base, TypeOK, ReadyStep, Ready
<1>10. ASSUME NEW w \in Worker, NEW v \in Admin, NEW i \in Request, NEW t \in Time \cup {None},
              Approve(w, v, i, t)
       PROVE  ReadyStep
  BY <1>10 DEF Approve, Start, Go, OnRequest, Call, Base, TypeOK, ReadyStep, Ready
<1>11. ASSUME NEW w \in Worker, MoveFails(w) PROVE ReadyStep
  BY <1>11 DEF MoveFails, Done, Go, Base, TypeOK, ReadyStep, Ready, Idle
<1>12. ASSUME NEW w \in Worker, CancelMatch(w) PROVE ReadyStep
  BY <1>12 DEF CancelMatch, Done, Go, Base, TypeOK, ReadyStep, Ready, Idle
<1>13. ASSUME NEW w \in Worker, MoveMatch(w) PROVE ReadyStep
  <2>1. job[w] \in Jobs /\ job[w].kind # "submit"
    BY <1>13, JobTyped DEF MoveMatch, Is, Base, HoldsInv, Holds
  <2> QED
    BY <1>13, <2>1 DEF MoveMatch, Go, AfterMove, Idle, Base, TypeOK, ReadyStep, Ready, Jobs
<1>14. ASSUME NEW w \in Worker, ClearAcks(w) PROVE ReadyStep
  <2>1. job[w] \in Jobs /\ job[w].kind # "submit"
    BY <1>14, JobTyped DEF ClearAcks, Is, Base, HoldsInv, Holds
  <2> QED
    BY <1>14, <2>1 DEF ClearAcks, Go, Base, TypeOK, ReadyStep, Ready, Jobs
<1>15. ASSUME NEW w \in Worker, NEW u \in Player, SeedAck(w, u) PROVE ReadyStep
  <2>1. job[w] \in Jobs /\ job[w].kind # "submit"
    BY <1>15, JobTyped DEF SeedAck, Is, Base, HoldsInv, Holds
  <2> QED
    BY <1>15, <2>1 DEF SeedAck, Go, AfterMove, Idle, Base, TypeOK, ReadyStep, Ready, Jobs
<1>16. ASSUME NEW w \in Worker, RecordApproval(w) PROVE ReadyStep
  <2>1. job[w] \in Jobs /\ job[w].kind # "submit"
    BY <1>16, JobTyped DEF RecordApproval, Is, Base, HoldsInv, Holds
  <2> QED
    BY <1>16, <2>1 DEF RecordApproval, Step, Go, Base, TypeOK, ReadyStep, Ready, Jobs
<1>17. ASSUME NEW w \in Worker, ListOthers(w) PROVE ReadyStep
  <2>1. job[w] \in Jobs /\ job[w].kind # "submit"
    BY <1>17, JobTyped DEF ListOthers, Is, Base, HoldsInv, Holds
  <2>2. \A S : [job[w] EXCEPT !.at = "close", !.others = S].kind = job[w].kind
    BY <2>1 DEF Jobs
  <2> DEFINE others == {<<i, req[i]>> : i \in PendingOn(job[w].match) \ {job[w].id}}
             j == [job[w] EXCEPT !.at = "close", !.others = others]
  <2>3. job' = [job EXCEPT ![w] = Idle] \/ job' = [job EXCEPT ![w] = j]
    BY <1>17 DEF ListOthers, Told, Done, Go
  <2>4. ~Ready(j) /\ ~Ready(Idle)
    BY <2>1, <2>2 DEF Ready, Idle
  <2> HIDE DEF j
  <2> QED
    BY <2>3, <2>4 DEF ReadyStep, Base, TypeOK
<1>18. ASSUME NEW w \in Worker, NEW x \in Request \X RequestRow, Supersede(w, x) PROVE ReadyStep
  <2>1. job[w] \in Jobs /\ job[w].kind # "submit"
    BY <1>18, JobTyped DEF Supersede, Is, Base, HoldsInv, Holds
  <2> QED
    BY <1>18, <2>1 DEF Supersede, Go, Told, Done, Idle, Base, TypeOK, ReadyStep, Ready, Jobs
<1>19. ASSUME NEW w \in Worker, NEW u \in Player, NEW m \in Match, Acknowledge(w, u, m)
       PROVE  ReadyStep
  BY <1>19 DEF Acknowledge, Start, Go, Call, Base, TypeOK, ReadyStep, Ready
<1>20. ASSUME NEW w \in Worker, SaveAck(w) PROVE ReadyStep
  BY <1>20 DEF SaveAck, Done, Go, Base, TypeOK, ReadyStep, Ready, Idle
<1>21. ASSUME NEW m \in Match, DeleteMatch(m) PROVE ReadyStep
  BY <1>21 DEF DeleteMatch, ReadyStep
<1>22. ASSUME Restart PROVE ReadyStep
  BY <1>22 DEF Restart, ReadyStep, Ready, Idle
<1> QED
  BY <1>2, <1>3, <1>4, <1>5, <1>6, <1>7, <1>8, <1>9, <1>10, <1>11, <1>12, <1>13, <1>14, <1>15,
     <1>16, <1>17, <1>18, <1>19, <1>20, <1>21, <1>22, Cases DEF Base

(* What makes OneOpenRequest inductive: a submit about to create its row   *)
(* is for a player who has no open request on the match.                   *)
OneInv ==
  /\ \A i, k \in Pending : req[i].match = req[k].match /\ req[i].by = req[k].by => i = k
  /\ \A w \in Worker : Ready(job[w]) => Asked(job[w].match, job[w].by) = {}

(* A step that creates no request leaves no player with more open ones.    *)
LEMMA PendingKept ==
  ASSUME Base, RowsStep, NEW i \in Pending', i \in Requests
  PROVE  i \in Pending /\ req'[i].match = req[i].match /\ req'[i].by = req[i].by
  BY DEF RowsStep, Pending, Requests

(* OneInv is inductive: a creation is the only step that can add an open   *)
(* request, and the submit was alone for its player.                       *)
LEMMA OneStep ==
  ASSUME Base, RowInv, OneInv, "twice" \notin Conflicts, Next
  PROVE  OneInv'
<1>1. RowsStep /\ ReadyStep
  BY RowsWritten, ReadySteps
<1>2. CASE \E w \in Worker : Creates(w)
  <2>1. PICK w \in Worker : Creates(w)
    BY <1>2
  <2>2. /\ job[w] # Idle /\ Ready(job[w]) /\ Asked(job[w].match, job[w].by) = {}
        /\ job[w].row.match = job[w].match /\ job[w].row.by = job[w].by
        /\ job[w].row \in RequestRow
    BY <2>1 DEF Creates, SubmitSaves, Is, Ready, OneInv, Base, HoldsInv, Holds
  <2>3. /\ job' = [job EXCEPT ![w] = Idle] /\ issued \in Nat
        /\ req' = [req EXCEPT ![issued + 1] = job[w].row]
    BY <2>1 DEF Creates, SubmitSaves, Done, Go, Base, TypeOK
  <2>4. issued + 1 \notin Requests
    BY <2>3, Ids DEF RowInv, Requests
  <2>5. \A i \in Pending' : \/ i \in Pending /\ req'[i] = req[i]
                            \/ i = issued + 1 /\ req'[i] = job[w].row
    BY <2>3, <2>4 DEF Pending, Requests, Base, TypeOK
  <2>6. \A i, k \in Pending' : req'[i].match = req'[k].match /\ req'[i].by = req'[k].by => i = k
    BY <2>2, <2>5 DEF OneInv, Asked, PendingOn
  <2>7. ASSUME NEW v \in Worker, Ready(job'[v]) PROVE Asked(job[v].match, job[v].by)' = {}
    <3>1. v # w /\ job'[v] = job[v]
      BY <2>3, <2>7 DEF Ready, Idle, Base, TypeOK
    <3>2. ~InConflict(job[v], job[w])["twice"]
      BY <3>1 DEF Base, ApartInv, ConflictKind
    <3>3. ~(job[v].match = job[w].match /\ job[v].by = job[w].by)
      BY <2>2, <2>7, <3>1, <3>2 DEF InConflict, Ready
    <3>4. Asked(job[v].match, job[v].by) = {}
      BY <2>7, <3>1 DEF OneInv
    <3> QED
      BY <2>2, <2>5, <3>1, <3>3, <3>4 DEF Asked, PendingOn
  <2> QED
    BY <2>6, <2>7 DEF OneInv
<1>3. CASE ~\E w \in Worker : Creates(w)
  <2>1. \A i \in Pending' : i \in Requests
    BY <1>1, <1>3 DEF RowsStep, Pending
  <2>2. \A i \in Pending' :
          i \in Pending /\ req'[i].match = req[i].match /\ req'[i].by = req[i].by
    BY <1>1, <2>1, PendingKept
  <2>3. ASSUME NEW v \in Worker, Ready(job'[v]) PROVE Asked(job[v].match, job[v].by)' = {}
    <3>1. /\ Asked(job[v].match, job[v].by) = {}
          /\ job'[v].match = job[v].match /\ job'[v].by = job[v].by
      BY <1>1, <2>3 DEF ReadyStep, OneInv
    <3> QED
      BY <2>2, <3>1 DEF Asked, PendingOn
  <2> QED
    BY <2>2, <2>3 DEF OneInv
<1> QED
  BY <1>2, <1>3

(* OneInv says that a player has one open request on a match at most. *)
LEMMA AtMostOne ==
  ASSUME TypeOK, OneInv, NEW m \in Match, NEW u \in Player
  PROVE  Cardinality(Asked(m, u)) <= 1
<1>1. CASE Asked(m, u) = {}
  BY <1>1, FS_EmptySet
<1>2. CASE Asked(m, u) # {}
  <2>1. PICK i : i \in Asked(m, u)
    BY <1>2
  <2>2. Asked(m, u) = {i}
    BY <2>1 DEF OneInv, Asked, PendingOn
  <2>3. Cardinality({i}) = 1
    BY FS_Singleton
  <2> QED
    BY <2>2, <2>3
<1> QED
  BY <1>1, <1>2

(* A player never has two requests open on one match, for any number of    *)
(* calls in flight, as long as the player does not submit two at the same  *)
(* time (and the answers do not overlap).                                  *)
THEOREM OneRequest ==
  ASSUME {"row", "twice"} \cap Conflicts = {}
  PROVE  Spec => []OneOpenRequest
<1>1. "row" \notin Conflicts /\ "twice" \notin Conflicts
  OBVIOUS
<1>2. Init => OneInv
  BY NullAssumption DEF Init, OneInv, Pending, Requests, Ready, Idle
<1>3. Base /\ RowInv /\ OneInv /\ [Next]_vars => OneInv'
  <2>1. Base /\ RowInv /\ OneInv /\ Next => OneInv'
    BY <1>1, OneStep
  <2>2. OneInv /\ UNCHANGED vars => OneInv'
    BY DEF vars, OneInv, Pending, Requests, Ready, Asked, PendingOn
  <2> QED
    BY <2>1, <2>2
<1>4. Spec => [](Base /\ RowInv)
  BY <1>1, RowInvariant
<1>5. Base /\ OneInv => OneOpenRequest
  BY AtMostOne DEF Base, OneOpenRequest
<1> QED
  BY <1>2, <1>3, <1>4, <1>5, PTL DEF Spec

-----------------------------------------------------------------------------
(* The time of the match.                                                  *)

(* A call that has moved the match. *)
Past(j) == Moves(j) /\ j.at # "move"

(* What a step does to the times: only MoveMatch changes the time of a     *)
(* match that stays, and a promise is the time a completed approval holds. *)
TimesStep ==
  /\ \/ match' = match
     \/ \E w \in Worker :
          /\ MoveMatch(w) /\ job[w].match \in Match
          /\ match' = [match EXCEPT ![job[w].match] = job[w].time]
          /\ promised' = [promised EXCEPT ![job[w].match] = None]
     \/ \E m \in Match : match' = [match EXCEPT ![m] = None] /\ promised' = promised
  /\ \A m \in Match :
       \/ promised'[m] \in {promised[m], None}
       \/ \E w \in Worker : /\ Past(job[w]) /\ job[w].match = m /\ m \in Matches
                            /\ promised'[m] = job[w].time /\ match' = match
  /\ \A w \in Worker : Past(job'[w]) =>
       /\ Past(job[w]) \/ MoveMatch(w)
       /\ job'[w].match = job[w].match /\ job'[w].time = job[w].time

(* Every step is a TimesStep. *)
LEMMA TimesSteps ==
  ASSUME Base, Next
  PROVE  TimesStep
<1>2. ASSUME NEW w \in Worker, NEW u \in Player, NEW m \in Match,
             NEW kind \in {"move", "cancel"}, NEW t \in Time \cup {None},
             Submit(w, u, m, kind, t)
       PROVE  TimesStep
  BY <1>2 DEF Submit, Start, Go, Call, TimesStep, Past, Moves, Base, TypeOK
<1>3. ASSUME NEW w \in Worker, SubmitChecks(w) PROVE TimesStep
  <2>1. job[w] \in Jobs
    BY <1>3, JobTyped DEF SubmitChecks, Is, Base
  <2> QED
    BY <1>3, <2>1 DEF SubmitChecks, Is, Step, Done, Go, TimesStep, Past, Moves, Base, TypeOK, Idle, Jobs
<1>4. ASSUME NEW w \in Worker, SubmitSaves(w) PROVE TimesStep
  BY <1>4 DEF SubmitSaves, Done, Go, TimesStep, Past, Moves, Base, TypeOK, Idle
<1>5. ASSUME NEW w \in Worker, NEW u \in Player, NEW i \in Request, Agree(w, u, i) PROVE TimesStep
  BY <1>5 DEF Agree, Start, Go, OnRequest, Call, TimesStep, Past, Moves, Base, TypeOK
<1>6. ASSUME NEW w \in Worker, NEW i \in Request, Withdraw(w, i) PROVE TimesStep
  BY <1>6 DEF Withdraw, Start, Go, OnRequest, Call, TimesStep, Past, Moves, Base, TypeOK
<1>7. ASSUME NEW w \in Worker, NEW i \in Request, Decline(w, i) PROVE TimesStep
  BY <1>7 DEF Decline, Start, Go, OnRequest, Call, TimesStep, Past, Moves, Base, TypeOK
<1>8. ASSUME NEW w \in Worker, SaveAnswer(w) PROVE TimesStep
  BY <1>8 DEF SaveAnswer, Done, Go, TimesStep, Past, Moves, Base, TypeOK, Idle
<1>9. ASSUME NEW w \in Worker, NEW v \in Admin, NEW m \in Match, NEW t \in Time,
             EditMatch(w, v, m, t)
       PROVE  TimesStep
  BY <1>9 DEF EditMatch, Start, Go, Call, TimesStep, Past, Moves, Base, TypeOK
<1>10. ASSUME NEW w \in Worker, NEW v \in Admin, NEW i \in Request, NEW t \in Time \cup {None},
              Approve(w, v, i, t)
       PROVE  TimesStep
  BY <1>10 DEF Approve, Start, Go, OnRequest, Call, TimesStep, Past, Moves, Base, TypeOK
<1>11. ASSUME NEW w \in Worker, MoveFails(w) PROVE TimesStep
  BY <1>11 DEF MoveFails, Done, Go, TimesStep, Past, Moves, Base, TypeOK, Idle
<1>12. ASSUME NEW w \in Worker, CancelMatch(w) PROVE TimesStep
  <2>1. job[w].match \in Match /\ match' = [match EXCEPT ![job[w].match] = None]
    BY <1>12 DEF CancelMatch, Remove, Matches
  <2> QED
    BY <1>12, <2>1 DEF CancelMatch, Done, Go, TimesStep, Past, Moves, Base, TypeOK, Idle
<1>13. ASSUME NEW w \in Worker, MoveMatch(w) PROVE TimesStep
  <2>1. job[w] \in Jobs /\ job[w].kind # "submit" /\ Holds(job[w])
    BY <1>13, JobTyped DEF MoveMatch, Is, Base, HoldsInv, Holds
  <2>2. Moves(job[w])
    BY <1>13, <2>1 DEF MoveMatch, Is, Holds, Jobs, Kind, Deciding, Moves
  <2> QED
    BY <1>13, <2>1, <2>2 DEF MoveMatch, Go, AfterMove, Idle, Matches, TimesStep, Past, Moves, Base, TypeOK, Jobs
<1>14. ASSUME NEW w \in Worker, ClearAcks(w) PROVE TimesStep
  <2>1. job[w] \in Jobs /\ job[w].kind # "submit" /\ Holds(job[w])
    BY <1>14, JobTyped DEF ClearAcks, Is, Base, HoldsInv, Holds
  <2>2. Moves(job[w])
    BY <1>14, <2>1 DEF ClearAcks, Is, Holds, Jobs, Kind, Deciding, Moves
  <2> QED
    BY <1>14, <2>1, <2>2 DEF ClearAcks, Is, Go, TimesStep, Past, Moves, Base, TypeOK, Jobs
<1>15. ASSUME NEW w \in Worker, NEW u \in Player, SeedAck(w, u) PROVE TimesStep
  <2>1. job[w] \in Jobs /\ job[w].kind # "submit" /\ Holds(job[w])
    BY <1>15, JobTyped DEF SeedAck, Is, Base, HoldsInv, Holds
  <2>2. Moves(job[w])
    BY <1>15, <2>1 DEF SeedAck, Is, Holds, Jobs, Kind, Deciding, Moves
  <2> QED
    BY <1>15, <2>1, <2>2 DEF SeedAck, Is, Go, AfterMove, Idle, TimesStep, Past, Moves, Base, TypeOK, Jobs
<1>16. ASSUME NEW w \in Worker, RecordApproval(w) PROVE TimesStep
  <2>1. job[w] \in Jobs /\ job[w].kind # "submit" /\ Holds(job[w])
    BY <1>16, JobTyped DEF RecordApproval, Is, Base, HoldsInv, Holds
  <2>2. Moves(job[w])
    BY <1>16, <2>1 DEF RecordApproval, Is, Holds, Jobs, Kind, Deciding, Moves
  <2> QED
    BY <1>16, <2>1, <2>2 DEF RecordApproval, Is, Step, Go, TimesStep, Past, Moves, Base, TypeOK, Jobs
<1>17. ASSUME NEW w \in Worker, ListOthers(w) PROVE TimesStep
  <2>1. job[w] \in Jobs /\ job[w].kind = "approve" /\ job[w].at = "list"
    BY <1>17, JobTyped DEF ListOthers, Is, Base
  <2> DEFINE others == {<<i, req[i]>> : i \in PendingOn(job[w].match) \ {job[w].id}}
             j == [job[w] EXCEPT !.at = "close", !.others = others]
  <2>2. \/ Told(w)
        \/ job' = [job EXCEPT ![w] = j] /\ promised' = promised
    BY <1>17 DEF ListOthers, Go
  <2>3. Past(j) /\ j.match = job[w].match /\ j.time = job[w].time /\ Past(job[w])
    BY <2>1 DEF Past, Moves, Jobs
  <2>4. match' = match
    BY <1>17 DEF ListOthers
  <2> HIDE DEF j
  <2>5. CASE Told(w)
    BY <2>3, <2>4, <2>5 DEF Told, Done, Go, Idle, TimesStep, Past, Moves, Base, TypeOK
  <2>6. CASE job' = [job EXCEPT ![w] = j] /\ promised' = promised
    BY <2>3, <2>4, <2>6 DEF TimesStep, Base, TypeOK
  <2> QED
    BY <2>2, <2>5, <2>6
<1>18. ASSUME NEW w \in Worker, NEW x \in Request \X RequestRow, Supersede(w, x) PROVE TimesStep
  <2>1. job[w] \in Jobs /\ job[w].kind = "approve" /\ job[w].at = "close"
    BY <1>18, JobTyped DEF Supersede, Is, Base
  <2> DEFINE j == [job[w] EXCEPT !.others = job[w].others \ {x}]
  <2>2. \/ Told(w)
        \/ job' = [job EXCEPT ![w] = j] /\ promised' = promised
    BY <1>18 DEF Supersede, Go
  <2>3. Past(j) /\ j.match = job[w].match /\ j.time = job[w].time /\ Past(job[w])
    BY <2>1 DEF Past, Moves, Jobs
  <2>4. match' = match
    BY <1>18 DEF Supersede
  <2> HIDE DEF j
  <2>5. CASE Told(w)
    BY <2>3, <2>4, <2>5 DEF Told, Done, Go, Idle, TimesStep, Past, Moves, Base, TypeOK
  <2>6. CASE job' = [job EXCEPT ![w] = j] /\ promised' = promised
    BY <2>3, <2>4, <2>6 DEF TimesStep, Base, TypeOK
  <2> QED
    BY <2>2, <2>5, <2>6
<1>19. ASSUME NEW w \in Worker, NEW u \in Player, NEW m \in Match, Acknowledge(w, u, m)
       PROVE  TimesStep
  BY <1>19 DEF Acknowledge, Start, Go, Call, TimesStep, Past, Moves, Base, TypeOK
<1>20. ASSUME NEW w \in Worker, SaveAck(w) PROVE TimesStep
  BY <1>20 DEF SaveAck, Done, Go, TimesStep, Past, Moves, Base, TypeOK, Idle
<1>21. ASSUME NEW m \in Match, DeleteMatch(m) PROVE TimesStep
  BY <1>21 DEF DeleteMatch, Remove, TimesStep, Past, Moves, Base, TypeOK
<1>22. ASSUME Restart PROVE TimesStep
  BY <1>22 DEF Restart, TimesStep, Past, Moves, Base, TypeOK, Idle
<1> QED
  BY <1>2, <1>3, <1>4, <1>5, <1>6, <1>7, <1>8, <1>9, <1>10, <1>11, <1>12, <1>13, <1>14, <1>15,
     <1>16, <1>17, <1>18, <1>19, <1>20, <1>21, <1>22, Cases DEF Base

(* What makes PromiseKept inductive: until its call is done, the match is  *)
(* where the call moved it.                                                *)
KeptInv ==
  /\ PromiseKept
  /\ \A w \in Worker :
       Past(job[w]) /\ job[w].match \in Matches => match[job[w].match] = job[w].time

(* KeptInv is inductive: the only call that could move the match away      *)
(* would conflict.                                                         *)
LEMMA KeptStep ==
  ASSUME Base, KeptInv, "move" \notin Conflicts, Next
  PROVE  KeptInv'
<1>1. TimesStep
  BY TimesSteps
<1>2. ASSUME NEW w \in Worker, MoveMatch(w), job[w].match \in Match,
             match' = [match EXCEPT ![job[w].match] = job[w].time],
             promised' = [promised EXCEPT ![job[w].match] = None]
       PROVE  KeptInv'
  <2>1. job[w] # Idle /\ Moves(job[w]) /\ job[w].time # None
    <3>1. job[w] # Idle /\ job[w].at = "move" /\ Holds(job[w]) /\ job[w].kind \in Kind
      BY <1>2, JobTyped DEF MoveMatch, Is, Base, HoldsInv, Jobs
    <3> QED
      BY <1>2, <3>1 DEF MoveMatch, Moves, Holds, Kind, Deciding
  <2>2. PromiseKept'
    BY <1>2 DEF KeptInv, PromiseKept, Matches, Base, TypeOK
  <2>3. ASSUME NEW v \in Worker, Past(job'[v]), job'[v].match \in Matches'
         PROVE  match'[job'[v].match] = job'[v].time
    <3>1. /\ Past(job[v]) \/ MoveMatch(v)
          /\ job'[v].match = job[v].match /\ job'[v].time = job[v].time
      BY <1>1, <2>3 DEF TimesStep
    <3>2. CASE v = w
      BY <1>2, <3>1, <3>2 DEF Base, TypeOK
    <3>3. CASE v # w
      <4>1. ~InConflict(job[v], job[w])["move"]
        BY <3>3 DEF Base, ApartInv, ConflictKind
      <4>2. Past(job[v])
        <5>1. MoveMatch(v) => job'[w] = job[w]
          BY <3>3 DEF MoveMatch, Go, Base, TypeOK
        <5>2. MoveMatch(w) => job'[v] = job[v]
          BY <3>3 DEF MoveMatch, Go, Base, TypeOK
        <5> QED
          BY <1>2, <2>3, <5>2
      <4>3. job[v].match # job[w].match
        BY <2>1, <4>1, <4>2 DEF InConflict, Past
      <4>4. match'[job[v].match] = match[job[v].match] /\ job[v].match \in Matches
        BY <1>2, <2>3, <3>1, <4>3 DEF Matches, Base, TypeOK
      <4> QED
        BY <3>1, <4>2, <4>4 DEF KeptInv
    <3> QED
      BY <3>2, <3>3
  <2> QED
    BY <2>2, <2>3 DEF KeptInv
<1>3. CASE \/ match' = match
           \/ \E m \in Match : match' = [match EXCEPT ![m] = None] /\ promised' = promised
  <2>1. CASE \E w \in Worker : MoveMatch(w)
    <3>1. PICK w \in Worker : MoveMatch(w)
      BY <2>1
    <3>2. /\ job[w].match \in Match
          /\ match' = [match EXCEPT ![job[w].match] = job[w].time]
          /\ promised' = [promised EXCEPT ![job[w].match] = None]
      BY <3>1 DEF MoveMatch, Matches
    <3> QED
      BY <1>2, <3>1, <3>2
  <2>2. CASE ~\E w \in Worker : MoveMatch(w)
    <3>1. \A m \in Matches' : m \in Matches /\ match'[m] = match[m]
      BY <1>3 DEF Matches, Base, TypeOK
    <3>2. \A v \in Worker : Past(job'[v]) =>
            Past(job[v]) /\ job'[v].match = job[v].match /\ job'[v].time = job[v].time
      BY <1>1, <2>2 DEF TimesStep
    <3>3. \A m \in Matches' : promised'[m] # None => match'[m] = promised'[m]
      <4> TAKE m \in Matches'
      <4>1. m \in Matches /\ match'[m] = match[m] /\ m \in Match
        BY <3>1 DEF Matches
      <4>2. CASE promised'[m] \in {promised[m], None}
        BY <4>1, <4>2 DEF KeptInv, PromiseKept
      <4>3. CASE promised'[m] \notin {promised[m], None}
        BY <1>1, <4>1, <4>3 DEF KeptInv, TimesStep
      <4> QED
        BY <4>2, <4>3
    <3> QED
      BY <3>1, <3>2, <3>3 DEF KeptInv, PromiseKept
  <2> QED
    BY <2>1, <2>2
<1> QED
  BY <1>1, <1>2, <1>3 DEF TimesStep

(* Until its call is done, a match is where the call moved it. *)
LEMMA KeptInvariant == ASSUME "move" \notin Conflicts PROVE Spec => [](Base /\ KeptInv)
<1>1. Init => KeptInv
  BY DEF Init, KeptInv, PromiseKept, Past, Moves, Idle, Matches
<1>2. Base /\ KeptInv /\ [Next]_vars => KeptInv'
  <2>1. Base /\ KeptInv /\ Next => KeptInv'
    BY KeptStep
  <2>2. KeptInv /\ UNCHANGED vars => KeptInv'
    BY DEF vars, KeptInv, PromiseKept, Past, Moves, Matches
  <2> QED
    BY <2>1, <2>2
<1> QED
  BY <1>1, <1>2, BaseInit, BaseStep, PTL DEF Spec

(* What an approval told everyone stays true until the match is moved      *)
(* again, restarts included, as long as no two calls move one match at the *)
(* same time; requests, answers and acknowledgments may interleave freely. *)
THEOREM KeptPromise ==
  ASSUME "move" \notin Conflicts
  PROVE  Spec => []PromiseKept
<1>1. Base /\ KeptInv => PromiseKept
  BY DEF KeptInv
<1> QED
  BY <1>1, KeptInvariant, PTL

-----------------------------------------------------------------------------
(* The acknowledgments.                                                    *)

(* A call has moved match m and not yet dropped its acknowledgments. *)
Clears(j, m) == Moves(j) /\ j.at = "clear" /\ j.match = m
Clearing(m) == \E w \in Worker : Clears(job[w], m)

(* What a step does to the acknowledgments: one is dropped, asked for, or  *)
(* given for the time a call holds; a match that was moved gets out of     *)
(* Clearing by losing them all, or by a restart.                           *)
AcksStep ==
  /\ \A m \in Match, u \in Player :
       \/ ack'[m][u] = ack[m][u]
       \/ ack'[m][u] \in {"none", "asked"}
       \/ \E w \in Worker : /\ Past(job[w]) \/ job[w].kind = "ack"
                            /\ job[w].match = m /\ m \in Matches
                            /\ ack'[m][u] = job[w].time /\ match' = match
  /\ \A m \in Match : Clearing(m) =>
       Clearing(m)' \/ (\A u \in Player : ack'[m][u] = "none") \/ torn'
  /\ \A w \in Worker : MoveMatch(w) =>
       \A m \in Match : job[w].match = m => Clearing(m)' \/ match[m] = job[w].time
  /\ \A w \in Worker : job'[w].kind = "ack" =>
       \/ job[w].kind = "ack" /\ job'[w].match = job[w].match /\ job'[w].time = job[w].time
       \/ job'[w].match \in Matches /\ job'[w].time = match[job'[w].match] /\ match' = match
  /\ torn => torn'

(* A step of one call that leaves the acknowledgments alone. *)
LEMMA AcksKept ==
  ASSUME TypeOK, NEW w \in Worker, NEW j, job' = [job EXCEPT ![w] = j],
         UNCHANGED <<ack, torn>>, \A m \in Match : Clears(job[w], m) => Clears(j, m),
         \/ j.kind # "ack"
         \/ job[w].kind = "ack" /\ j.match = job[w].match /\ j.time = job[w].time
         \/ j.match \in Matches /\ j.time = match[j.match] /\ match' = match,
         ~\E v \in Worker : MoveMatch(v)
  PROVE  AcksStep
<1>1. \A m \in Match : Clearing(m) => Clearing(m)'
  BY DEF Clearing, TypeOK
<1> QED
  BY <1>1 DEF AcksStep, TypeOK

(* Only MoveMatch moves. *)
LEMMA OtherStep ==
  ASSUME TypeOK, NEW w \in Worker, job[w] = Idle \/ job[w].at # "move",
         \A z \in Worker : z # w => job'[z] = job[z]
  PROVE  ~\E v \in Worker : MoveMatch(v)
<1> SUFFICES ASSUME NEW v \in Worker, MoveMatch(v) PROVE FALSE
  OBVIOUS
<1>1. job[v] # Idle /\ job[v].at = "move" /\ job[v] \in Jobs
  BY JobTyped DEF MoveMatch, Is
<1>2. v # w
  BY <1>1
<1>3. job'[v] # job[v]
  BY <1>1 DEF MoveMatch, Go, AfterMove, Idle, Jobs, TypeOK
<1> QED
  BY <1>2, <1>3

(* Every step is an AcksStep. *)
LEMMA AcksSteps ==
  ASSUME Base, Next
  PROVE  AcksStep
<1>2. ASSUME NEW w \in Worker, NEW u \in Player, NEW m \in Match,
             NEW kind \in {"move", "cancel"}, NEW t \in Time \cup {None},
             Submit(w, u, m, kind, t)
       PROVE  AcksStep
  <2> DEFINE j == [Call("submit", "check", m, u) EXCEPT !.row =
        [match |-> m, by |-> u, kind |-> kind, proposed |-> t, original |-> match[m],
         agreed |-> FALSE, status |-> "pending"]]
  <2>1. job[w] = Idle /\ job' = [job EXCEPT ![w] = j]
    BY <1>2 DEF Submit, Start, Go
  <2>2. j.kind # "ack"
    BY <1>2 DEF Submit, OnRequest, Call
  <2> HIDE DEF j
  <2>3. ~\E z \in Worker : MoveMatch(z)
    BY <2>1, OtherStep DEF Base, TypeOK
  <2>4. \A n \in Match : ~Clears(job[w], n)
    BY <2>1 DEF Clears, Moves, Idle
  <2>5. UNCHANGED <<ack, torn>>
    BY <1>2 DEF Submit
  <2> QED
    BY <2>1, <2>2, <2>3, <2>4, <2>5, AcksKept DEF Base
<1>3. ASSUME NEW w \in Worker, SubmitChecks(w) PROVE AcksStep
  <2>1. job[w] \in Jobs /\ job[w] # Idle /\ ~Moves(job[w]) /\ job[w].at # "move"
    BY <1>3, JobTyped DEF SubmitChecks, Is, Base, HoldsInv, Holds, Moves, Deciding
  <2>2. PICK j : job' = [job EXCEPT ![w] = j] /\ j.kind # "ack"
    BY <1>3, <2>1 DEF SubmitChecks, Is, Step, Done, Go, Idle, Jobs
  <2>3. ~\E z \in Worker : MoveMatch(z)
    BY <2>1, <2>2, OtherStep DEF Base, TypeOK
  <2>4. \A n \in Match : ~Clears(job[w], n)
    BY <2>1 DEF Clears
  <2>5. UNCHANGED <<ack, torn>>
    BY <1>3 DEF SubmitChecks
  <2> QED
    BY <2>2, <2>3, <2>4, <2>5, AcksKept DEF Base
<1>4. ASSUME NEW w \in Worker, SubmitSaves(w) PROVE AcksStep
  <2>1. job[w] \in Jobs /\ job[w] # Idle /\ ~Moves(job[w]) /\ job[w].at # "move"
    BY <1>4, JobTyped DEF SubmitSaves, Is, Base, HoldsInv, Holds, Moves, Deciding
  <2>2. PICK j : job' = [job EXCEPT ![w] = j] /\ j.kind # "ack"
    <3>1. job' = [job EXCEPT ![w] = Idle] /\ Idle.kind # "ack"
      BY <1>4 DEF SubmitSaves, Done, Go, Idle
    <3> QED
      BY <3>1
  <2>3. ~\E z \in Worker : MoveMatch(z)
    BY <2>1, <2>2, OtherStep DEF Base, TypeOK
  <2>4. \A n \in Match : ~Clears(job[w], n)
    BY <2>1 DEF Clears
  <2>5. UNCHANGED <<ack, torn>>
    BY <1>4 DEF SubmitSaves
  <2> QED
    BY <2>2, <2>3, <2>4, <2>5, AcksKept DEF Base
<1>5. ASSUME NEW w \in Worker, NEW u \in Player, NEW i \in Request, Agree(w, u, i) PROVE AcksStep
  <2> DEFINE j == OnRequest("agree", "save", i, u)
  <2>1. job[w] = Idle /\ job' = [job EXCEPT ![w] = j]
    BY <1>5 DEF Agree, Start, Go
  <2>2. j.kind # "ack"
    BY <1>5 DEF Agree, OnRequest, Call
  <2> HIDE DEF j
  <2>3. ~\E z \in Worker : MoveMatch(z)
    BY <2>1, OtherStep DEF Base, TypeOK
  <2>4. \A n \in Match : ~Clears(job[w], n)
    BY <2>1 DEF Clears, Moves, Idle
  <2>5. UNCHANGED <<ack, torn>>
    BY <1>5 DEF Agree
  <2> QED
    BY <2>1, <2>2, <2>3, <2>4, <2>5, AcksKept DEF Base
<1>6. ASSUME NEW w \in Worker, NEW i \in Request, Withdraw(w, i) PROVE AcksStep
  <2> DEFINE j == OnRequest("withdraw", "save", i, req[i].by)
  <2>1. job[w] = Idle /\ job' = [job EXCEPT ![w] = j]
    BY <1>6 DEF Withdraw, Start, Go
  <2>2. j.kind # "ack"
    BY <1>6 DEF Withdraw, OnRequest, Call
  <2> HIDE DEF j
  <2>3. ~\E z \in Worker : MoveMatch(z)
    BY <2>1, OtherStep DEF Base, TypeOK
  <2>4. \A n \in Match : ~Clears(job[w], n)
    BY <2>1 DEF Clears, Moves, Idle
  <2>5. UNCHANGED <<ack, torn>>
    BY <1>6 DEF Withdraw
  <2> QED
    BY <2>1, <2>2, <2>3, <2>4, <2>5, AcksKept DEF Base
<1>7. ASSUME NEW w \in Worker, NEW i \in Request, Decline(w, i) PROVE AcksStep
  <2> DEFINE j == OnRequest("decline", "save", i, req[i].by)
  <2>1. job[w] = Idle /\ job' = [job EXCEPT ![w] = j]
    BY <1>7 DEF Decline, Start, Go
  <2>2. j.kind # "ack"
    BY <1>7 DEF Decline, OnRequest, Call
  <2> HIDE DEF j
  <2>3. ~\E z \in Worker : MoveMatch(z)
    BY <2>1, OtherStep DEF Base, TypeOK
  <2>4. \A n \in Match : ~Clears(job[w], n)
    BY <2>1 DEF Clears, Moves, Idle
  <2>5. UNCHANGED <<ack, torn>>
    BY <1>7 DEF Decline
  <2> QED
    BY <2>1, <2>2, <2>3, <2>4, <2>5, AcksKept DEF Base
<1>8. ASSUME NEW w \in Worker, SaveAnswer(w) PROVE AcksStep
  <2>1. job[w] \in Jobs /\ job[w] # Idle /\ ~Moves(job[w]) /\ job[w].at # "move"
    BY <1>8, JobTyped DEF SaveAnswer, Is, Base, HoldsInv, Holds, Moves, Deciding
  <2>2. PICK j : job' = [job EXCEPT ![w] = j] /\ j.kind # "ack"
    <3>1. job' = [job EXCEPT ![w] = Idle] /\ Idle.kind # "ack"
      BY <1>8 DEF SaveAnswer, Done, Go, Idle
    <3> QED
      BY <3>1
  <2>3. ~\E z \in Worker : MoveMatch(z)
    BY <2>1, <2>2, OtherStep DEF Base, TypeOK
  <2>4. \A n \in Match : ~Clears(job[w], n)
    BY <2>1 DEF Clears
  <2>5. UNCHANGED <<ack, torn>>
    BY <1>8 DEF SaveAnswer
  <2> QED
    BY <2>2, <2>3, <2>4, <2>5, AcksKept DEF Base
<1>9. ASSUME NEW w \in Worker, NEW v \in Admin, NEW m \in Match, NEW t \in Time,
             EditMatch(w, v, m, t)
       PROVE  AcksStep
  <2> DEFINE j == [Call("edit", "move", m, v) EXCEPT !.time = t]
  <2>1. job[w] = Idle /\ job' = [job EXCEPT ![w] = j]
    BY <1>9 DEF EditMatch, Start, Go
  <2>2. j.kind # "ack"
    BY <1>9 DEF EditMatch, OnRequest, Call
  <2> HIDE DEF j
  <2>3. ~\E z \in Worker : MoveMatch(z)
    BY <2>1, OtherStep DEF Base, TypeOK
  <2>4. \A n \in Match : ~Clears(job[w], n)
    BY <2>1 DEF Clears, Moves, Idle
  <2>5. UNCHANGED <<ack, torn>>
    BY <1>9 DEF EditMatch
  <2> QED
    BY <2>1, <2>2, <2>3, <2>4, <2>5, AcksKept DEF Base
<1>10. ASSUME NEW w \in Worker, NEW v \in Admin, NEW i \in Request, NEW t \in Time \cup {None},
              Approve(w, v, i, t)
       PROVE  AcksStep
  <2> DEFINE j == [OnRequest("approve", "move", i, v) EXCEPT !.time =
        CASE req[i].kind = "cancel" -> None [] t # None -> t [] OTHER -> req[i].proposed]
  <2>1. job[w] = Idle /\ job' = [job EXCEPT ![w] = j]
    BY <1>10 DEF Approve, Start, Go
  <2>2. j.kind # "ack"
    BY <1>10 DEF Approve, OnRequest, Call
  <2> HIDE DEF j
  <2>3. ~\E z \in Worker : MoveMatch(z)
    BY <2>1, OtherStep DEF Base, TypeOK
  <2>4. \A n \in Match : ~Clears(job[w], n)
    BY <2>1 DEF Clears, Moves, Idle
  <2>5. UNCHANGED <<ack, torn>>
    BY <1>10 DEF Approve
  <2> QED
    BY <2>1, <2>2, <2>3, <2>4, <2>5, AcksKept DEF Base
<1>11. ASSUME NEW w \in Worker, MoveFails(w) PROVE AcksStep
  <2>1. job' = [job EXCEPT ![w] = Idle] /\ UNCHANGED <<match, ack, torn>> /\ job[w].at = "move"
    BY <1>11 DEF MoveFails, Is, Done, Go
  <2>2. \A m \in Match : Clearing(m) => Clearing(m)'
    BY <2>1 DEF Clearing, Clears, Base, TypeOK
  <2>3. \A v \in Worker : MoveMatch(v) => match[job[v].match] = job[v].time
    BY <2>1 DEF MoveMatch, Matches, Base, TypeOK
  <2> QED
    BY <2>1, <2>2, <2>3 DEF AcksStep, Base, TypeOK, Idle
<1>12. ASSUME NEW w \in Worker, CancelMatch(w) PROVE AcksStep
  <2>1. /\ job[w].match \in Match /\ job[w].match \in Matches
        /\ match' = [match EXCEPT ![job[w].match] = None]
        /\ ack' = [ack EXCEPT ![job[w].match] = [q \in Player |-> "none"]]
    BY <1>12 DEF CancelMatch, Remove, Matches
  <2>2. torn' = torn /\ job' = [job EXCEPT ![w] = Idle] /\ job[w].at = "move"
    BY <1>12 DEF CancelMatch, Is, Done, Go
  <2>3. \A n \in Match : Clearing(n) => Clearing(n)'
    BY <2>2 DEF Clearing, Clears, Base, TypeOK
  <2>4. \A v \in Worker : ~MoveMatch(v)
    BY <2>1 DEF MoveMatch, Matches, Base, TypeOK
  <2> QED
    BY <2>1, <2>2, <2>3, <2>4 DEF AcksStep, Base, TypeOK, Idle
<1>13. ASSUME NEW w \in Worker, MoveMatch(w) PROVE AcksStep
  <2>1. /\ job[w] \in Jobs /\ job[w] # Idle /\ job[w].kind # "submit" /\ Holds(job[w])
        /\ job[w].at = "move"
    BY <1>13, JobTyped DEF MoveMatch, Is, Base, HoldsInv, Holds
  <2>2. Moves(job[w])
    BY <2>1 DEF Holds, Jobs, Kind, Deciding, Moves
  <2>3. /\ job[w].match \in Matches /\ UNCHANGED <<ack, torn>>
        /\ match[job[w].match] # job[w].time =>
             job' = [job EXCEPT ![w] = [job[w] EXCEPT !.at = "clear"]]
        /\ match[job[w].match] = job[w].time => job' = [job EXCEPT ![w] = AfterMove(job[w])]
    BY <1>13 DEF MoveMatch, Go
  <2>4. /\ [job[w] EXCEPT !.at = "clear"].kind # "ack" /\ AfterMove(job[w]).kind # "ack"
        /\ Clears([job[w] EXCEPT !.at = "clear"], job[w].match)
    BY <2>1, <2>2 DEF AfterMove, Idle, Jobs, Clears, Moves
  <2> DEFINE j == job'[w]
  <2>5. /\ job' = [job EXCEPT ![w] = j] /\ j.kind # "ack"
        /\ match[job[w].match] # job[w].time => Clears(j, job[w].match)
    BY <2>3, <2>4 DEF Base, TypeOK
  <2> HIDE DEF j
  <2>6. \A n \in Match : Clearing(n) => Clearing(n)'
    BY <2>1, <2>5 DEF Clearing, Clears, Base, TypeOK
  <2>7. \A n \in Match : job[w].match = n => Clearing(n)' \/ match[n] = job[w].time
    BY <2>5 DEF Clearing, Clears, Base, TypeOK
  <2>8. \A v \in Worker : MoveMatch(v) => v = w \/ match[job[v].match] = job[v].time
    <3> SUFFICES ASSUME NEW v \in Worker, MoveMatch(v), v # w PROVE FALSE
      OBVIOUS
    <3>1. job[v] # Idle /\ job[v].at = "move" /\ job[v] \in Jobs
      BY JobTyped DEF MoveMatch, Is, Base
    <3>2. job'[v] # job[v]
      BY <3>1 DEF MoveMatch, Go, AfterMove, Idle, Jobs, Base, TypeOK
    <3> QED
      BY <2>5, <3>2 DEF Base, TypeOK
  <2> QED
    BY <2>3, <2>5, <2>6, <2>7, <2>8 DEF AcksStep, Base, TypeOK
<1>14. ASSUME NEW w \in Worker, ClearAcks(w) PROVE AcksStep
  <2>1. job[w] \in Jobs /\ job[w] # Idle /\ job[w].kind # "ack" /\ job[w].at = "clear"
    BY <1>14, JobTyped DEF ClearAcks, Is, Base, HoldsInv, Holds
  <2> DEFINE j == [job[w] EXCEPT !.at = "seed", !.todo = Player]
  <2>2. /\ job' = [job EXCEPT ![w] = j] /\ torn' = torn
        /\ ack' = [ack EXCEPT ![job[w].match] = [q \in Player |-> "none"]]
    BY <1>14 DEF ClearAcks, Go
  <2>3. j.kind # "ack"
    BY <2>1 DEF Jobs
  <2> HIDE DEF j
  <2>4. ~\E z \in Worker : MoveMatch(z)
    BY <2>1, <2>2, OtherStep DEF Base, TypeOK
  <2>5. \A n \in Match : n # job[w].match => (Clearing(n) => Clearing(n)')
    BY <2>2 DEF Clearing, Clears, Base, TypeOK
  <2> QED
    BY <2>2, <2>3, <2>4, <2>5 DEF AcksStep, Base, TypeOK
<1>15. ASSUME NEW w \in Worker, NEW u \in Player, SeedAck(w, u) PROVE AcksStep
  <2>1. /\ job[w] \in Jobs /\ job[w] # Idle /\ job[w].at = "seed" /\ Holds(job[w])
        /\ job[w].kind # "submit"
    BY <1>15, JobTyped DEF SeedAck, Is, Base, HoldsInv, Holds
  <2>2. Past(job[w]) /\ job[w].kind # "ack"
    BY <2>1 DEF Past, Moves, Holds, Jobs, Kind, Deciding
  <2>3. PICK j : job' = [job EXCEPT ![w] = j] /\ j.kind # "ack"
    <3>1. /\ AfterMove([job[w] EXCEPT !.todo = {}]).kind # "ack"
          /\ [job[w] EXCEPT !.todo = job[w].todo \ {u}].kind # "ack"
      BY <2>1, <2>2 DEF AfterMove, Idle, Jobs
    <3> QED
      BY <1>15, <3>1 DEF SeedAck, Go
  <2>4. ~\E z \in Worker : MoveMatch(z)
    BY <2>1, <2>3, OtherStep DEF Base, TypeOK
  <2>5. \A n \in Match : Clearing(n) => Clearing(n)'
    BY <2>1, <2>3 DEF Clearing, Clears, Base, TypeOK
  <2>6. UNCHANGED <<match, torn>>
    BY <1>15 DEF SeedAck
  <2>7. \A n \in Match, q \in Player :
          \/ ack'[n][q] = ack[n][q] \/ ack'[n][q] = "asked"
          \/ job[w].match = n /\ n \in Matches /\ ack'[n][q] = job[w].time
    BY <1>15 DEF SeedAck, Base, TypeOK, Matches
  <2> QED
    BY <2>2, <2>3, <2>4, <2>5, <2>6, <2>7 DEF AcksStep, Base, TypeOK
<1>16. ASSUME NEW w \in Worker, RecordApproval(w) PROVE AcksStep
  <2>1. job[w] \in Jobs /\ job[w] # Idle /\ job[w].kind = "approve" /\ job[w].at = "record"
    BY <1>16, JobTyped DEF RecordApproval, Is, Base
  <2> DEFINE j == [job[w] EXCEPT !.at = "list"]
  <2>2. job' = [job EXCEPT ![w] = j] /\ j.kind # "ack"
    BY <1>16, <2>1 DEF RecordApproval, Step, Go, Jobs
  <2> HIDE DEF j
  <2>3. ~\E z \in Worker : MoveMatch(z)
    BY <2>1, <2>2, OtherStep DEF Base, TypeOK
  <2>4. \A n \in Match : ~Clears(job[w], n)
    BY <2>1 DEF Clears
  <2>5. UNCHANGED <<ack, torn>>
    BY <1>16 DEF RecordApproval
  <2> QED
    BY <2>2, <2>3, <2>4, <2>5, AcksKept DEF Base
<1>17. ASSUME NEW w \in Worker, ListOthers(w) PROVE AcksStep
  <2>1. job[w] \in Jobs /\ job[w] # Idle /\ job[w].kind = "approve" /\ job[w].at = "list"
    BY <1>17, JobTyped DEF ListOthers, Is, Base
  <2> DEFINE others == {<<i, req[i]>> : i \in PendingOn(job[w].match) \ {job[w].id}}
             j == [job[w] EXCEPT !.at = "close", !.others = others]
  <2>2. job' = [job EXCEPT ![w] = Idle] \/ job' = [job EXCEPT ![w] = j]
    BY <1>17 DEF ListOthers, Told, Done, Go
  <2>3. j.kind # "ack" /\ Idle.kind # "ack"
    BY <2>1 DEF Jobs, Idle
  <2> HIDE DEF j
  <2>4. ~\E z \in Worker : MoveMatch(z)
    BY <2>1, <2>2, OtherStep DEF Base, TypeOK
  <2>5. \A n \in Match : ~Clears(job[w], n)
    BY <2>1 DEF Clears
  <2>6. UNCHANGED <<ack, torn>>
    BY <1>17 DEF ListOthers
  <2> QED
    BY <2>2, <2>3, <2>4, <2>5, <2>6, AcksKept DEF Base
<1>18. ASSUME NEW w \in Worker, NEW x \in Request \X RequestRow, Supersede(w, x) PROVE AcksStep
  <2>1. job[w] \in Jobs /\ job[w] # Idle /\ job[w].kind = "approve" /\ job[w].at = "close"
    BY <1>18, JobTyped DEF Supersede, Is, Base
  <2> DEFINE j == [job[w] EXCEPT !.others = job[w].others \ {x}]
  <2>2. job' = [job EXCEPT ![w] = Idle] \/ job' = [job EXCEPT ![w] = j]
    BY <1>18 DEF Supersede, Told, Done, Go
  <2>3. j.kind # "ack" /\ Idle.kind # "ack"
    BY <2>1 DEF Jobs, Idle
  <2> HIDE DEF j
  <2>4. ~\E z \in Worker : MoveMatch(z)
    BY <2>1, <2>2, OtherStep DEF Base, TypeOK
  <2>5. \A n \in Match : ~Clears(job[w], n)
    BY <2>1 DEF Clears
  <2>6. UNCHANGED <<ack, torn>>
    BY <1>18 DEF Supersede
  <2> QED
    BY <2>2, <2>3, <2>4, <2>5, <2>6, AcksKept DEF Base
<1>19. ASSUME NEW w \in Worker, NEW u \in Player, NEW m \in Match, Acknowledge(w, u, m)
       PROVE  AcksStep
  <2> DEFINE j == [Call("ack", "save", m, u) EXCEPT !.time = match[m]]
  <2>1. job[w] = Idle /\ job' = [job EXCEPT ![w] = j]
    BY <1>19 DEF Acknowledge, Start, Go
  <2>2. j.match \in Matches /\ j.time = match[j.match] /\ match' = match
    BY <1>19 DEF Acknowledge, OnRequest, Call
  <2> HIDE DEF j
  <2>3. ~\E z \in Worker : MoveMatch(z)
    BY <2>1, OtherStep DEF Base, TypeOK
  <2>4. \A n \in Match : ~Clears(job[w], n)
    BY <2>1 DEF Clears, Moves, Idle
  <2>5. UNCHANGED <<ack, torn>>
    BY <1>19 DEF Acknowledge
  <2> QED
    BY <2>1, <2>2, <2>3, <2>4, <2>5, AcksKept DEF Base
<1>20. ASSUME NEW w \in Worker, SaveAck(w) PROVE AcksStep
  <2>1. job[w] # Idle /\ job[w].kind = "ack" /\ job[w].at = "save"
    BY <1>20 DEF SaveAck, Is
  <2>2. job' = [job EXCEPT ![w] = Idle] /\ UNCHANGED <<match, torn>>
    BY <1>20 DEF SaveAck, Done, Go
  <2>3. ~\E z \in Worker : MoveMatch(z)
    BY <2>1, <2>2, OtherStep DEF Base, TypeOK
  <2>4. \A n \in Match : Clearing(n) => Clearing(n)'
    BY <2>1, <2>2 DEF Clearing, Clears, Base, TypeOK
  <2>5. \A n \in Match, q \in Player :
          \/ ack'[n][q] = ack[n][q]
          \/ job[w].match = n /\ n \in Matches /\ ack'[n][q] = job[w].time
    BY <1>20 DEF SaveAck, Base, TypeOK, Matches
  <2> QED
    BY <2>1, <2>2, <2>3, <2>4, <2>5 DEF AcksStep, Base, TypeOK, Idle
<1>21. ASSUME NEW m \in Match, DeleteMatch(m) PROVE AcksStep
  <2>1. m \in Match /\ m \in Matches /\ match' = [match EXCEPT ![m] = None]
        /\ ack' = [ack EXCEPT ![m] = [q \in Player |-> "none"]]
    BY <1>21 DEF DeleteMatch, Remove, Matches
  <2>2. torn' = torn /\ job' = job
    BY <1>21 DEF DeleteMatch, Is, Done, Go
  <2>3. \A n \in Match : Clearing(n) => Clearing(n)'
    BY <2>2 DEF Clearing, Clears, Base, TypeOK
  <2>4. \A v \in Worker : ~MoveMatch(v)
    BY <2>1 DEF MoveMatch, Matches, Base, TypeOK
  <2> QED
    BY <2>1, <2>2, <2>3, <2>4 DEF AcksStep, Base, TypeOK, Idle
<1>22. ASSUME Restart PROVE AcksStep
  <2>1. /\ job' = [w \in Worker |-> Idle] /\ UNCHANGED <<match, ack>>
        /\ torn' = (torn \/ \E m \in Match : Moving(m))
    BY <1>22 DEF Restart
  <2>2. \A m \in Match : Clearing(m) => Moving(m)
    BY DEF Clearing, Clears, Moving, Moves, Busy, Idle
  <2>3. \A v \in Worker : MoveMatch(v) => match[job[v].match] = job[v].time
    BY <2>1 DEF MoveMatch, Matches, Base, TypeOK
  <2> QED
    BY <2>1, <2>2, <2>3 DEF AcksStep, Base, TypeOK, Idle
<1> QED
  BY <1>2, <1>3, <1>4, <1>5, <1>6, <1>7, <1>8, <1>9, <1>10, <1>11, <1>12, <1>13, <1>14, <1>15,
     <1>16, <1>17, <1>18, <1>19, <1>20, <1>21, <1>22, Cases DEF Base

(* What makes AcknowledgedSinceMoved inductive: an acknowledgment about to *)
(* be saved began at the time the match is at, and so did every one given, *)
(* unless they are about to be dropped.                                    *)
AckInv ==
  \/ torn
  \/ /\ \A m \in Matches, u \in Player :
          ~Clearing(m) /\ ack[m][u] \in Time => ack[m][u] = match[m]
     /\ \A w \in Worker :
          job[w].kind = "ack" /\ job[w].match \in Matches => job[w].time = match[job[w].match]

(* A match that stays keeps its time, or is moved. *)
LEMMA SameTime ==
  ASSUME Base, TimesStep, NEW m \in Matches'
  PROVE  /\ m \in Match /\ m \in Matches
         /\ \/ match'[m] = match[m]
            \/ \E w \in Worker : MoveMatch(w) /\ job[w].match = m /\ match'[m] = job[w].time
<1>1. m \in Match /\ match'[m] # None
  BY DEF Matches
<1>2. CASE match' = match
  BY <1>1, <1>2 DEF Matches
<1>3. CASE \E n \in Match : match' = [match EXCEPT ![n] = None] /\ promised' = promised
  BY <1>1, <1>3 DEF Matches, Base, TypeOK
<1>4. ASSUME NEW w \in Worker, MoveMatch(w), job[w].match \in Match,
             match' = [match EXCEPT ![job[w].match] = job[w].time]
       PROVE  /\ m \in Match /\ m \in Matches
              /\ \/ match'[m] = match[m]
                 \/ MoveMatch(w) /\ job[w].match = m /\ match'[m] = job[w].time
  <2>1. job[w].match \in Matches
    BY <1>4 DEF MoveMatch
  <2> QED
    BY <1>1, <1>4, <2>1 DEF Matches, Base, TypeOK
<1> QED
  BY <1>2, <1>3, <1>4 DEF TimesStep

(* AckInv is inductive. *)
LEMMA AckStep ==
  ASSUME Base, KeptInv, AckInv, {"move", "ack"} \cap Conflicts = {}, Next
  PROVE  AckInv'
<1>1. TimesStep /\ AcksStep
  BY TimesSteps, AcksSteps
<1> SUFFICES ASSUME ~torn' PROVE AckInv'
  BY DEF AckInv
<1>2. ~torn
  BY <1>1 DEF AcksStep
<1>3. /\ \A m \in Matches, u \in Player :
           ~Clearing(m) /\ ack[m][u] \in Time => ack[m][u] = match[m]
      /\ \A w \in Worker :
           job[w].kind = "ack" /\ job[w].match \in Matches => job[w].time = match[job[w].match]
  BY <1>2 DEF AckInv
<1>4. ASSUME NEW m \in Matches', NEW u \in Player, ~Clearing(m)', ack'[m][u] \in Time
       PROVE  ack'[m][u] = match'[m]
  <2>1. m \in Match /\ m \in Matches
    BY <1>1, SameTime
  <2>2. CASE ack'[m][u] = ack[m][u]
    <3>1. ~Clearing(m)
      BY <1>1, <1>4, <2>1, AnswerAssumption DEF AcksStep
    <3>2. ack[m][u] = match[m]
      BY <1>3, <1>4, <2>1, <2>2, <3>1
    <3>3. match'[m] = match[m]
      BY <1>1, <1>4, <2>1, SameTime DEF AcksStep
    <3> QED
      BY <2>2, <3>2, <3>3
  <2>3. CASE ack'[m][u] \in {"none", "asked"}
    BY <1>4, <2>3, AnswerAssumption
  <2>4. ASSUME NEW w \in Worker, Past(job[w]) \/ job[w].kind = "ack", job[w].match = m,
               ack'[m][u] = job[w].time, match' = match
         PROVE  ack'[m][u] = match'[m]
    BY <1>3, <2>1, <2>4 DEF KeptInv
  <2> QED
    BY <1>1, <2>1, <2>2, <2>3, <2>4 DEF AcksStep
<1>5. ASSUME NEW w \in Worker, job'[w].kind = "ack", job'[w].match \in Matches'
       PROVE  job'[w].time = match'[job'[w].match]
  <2> DEFINE m == job'[w].match
  <2>1. CASE job'[w].match \in Matches /\ job'[w].time = match[job'[w].match] /\ match' = match
    BY <2>1
  <2>2. CASE job[w].kind = "ack" /\ job'[w].match = job[w].match /\ job'[w].time = job[w].time
    <3>1. m \in Matches /\ job[w].time = match[m]
      BY <1>1, <1>3, <1>5, <2>2, SameTime
    <3>2. ASSUME NEW v \in Worker, MoveMatch(v), job[v].match = m PROVE FALSE
      <4>1. job[v] # Idle /\ job[v] \in Jobs /\ job[v].at = "move" /\ Holds(job[v])
        BY <3>2, JobTyped DEF MoveMatch, Is, Base, HoldsInv
      <4>2. Moves(job[v]) /\ v # w
        BY <2>2, <4>1 DEF Holds, Jobs, Kind, Deciding, Moves
      <4>3. ~InConflict(job[w], job[v])["ack"]
        BY <4>2 DEF Base, ApartInv, ConflictKind
      <4> QED
        BY <2>2, <3>2, <4>2, <4>3 DEF InConflict
    <3>3. match'[m] = match[m]
      BY <1>1, <1>5, <3>2, SameTime
    <3> QED
      BY <2>2, <3>1, <3>3
  <2> QED
    BY <1>1, <1>5, <2>1, <2>2 DEF AcksStep
<1> QED
  BY <1>4, <1>5 DEF AckInv

(* An acknowledgment that stands was given at the time the match is at, and *)
(* not before its last move, unless a restart cut a move off before it      *)
(* dropped the acknowledgments: whoever moves the match, approves, submits  *)
(* or deletes in between, as long as no two calls move the match at the     *)
(* same time and none moves it while a player acknowledges it.              *)
THEOREM AcknowledgedSince ==
  ASSUME {"move", "ack"} \cap Conflicts = {}
  PROVE  Spec => []AcknowledgedSinceMoved
<1>1. "move" \notin Conflicts
  OBVIOUS
<1>2. Init => AckInv
  <2>1. Init => \A m \in Match, u \in Player : ack[m][u] \notin Time
    BY AnswerAssumption DEF Init
  <2>2. Init => \A w \in Worker : job[w].kind # "ack"
    BY DEF Init, Idle
  <2> QED
    BY <2>1, <2>2 DEF AckInv, Matches
<1>3. Base /\ KeptInv /\ AckInv /\ [Next]_vars => AckInv'
  <2>1. Base /\ KeptInv /\ AckInv /\ Next => AckInv'
    BY AckStep
  <2>2. AckInv /\ UNCHANGED vars => AckInv'
    BY DEF vars, AckInv, Matches, Clearing, Clears, Moves
  <2> QED
    BY <2>1, <2>2
<1>4. Spec => [](Base /\ KeptInv)
  BY <1>1, KeptInvariant
<1>5. AckInv => AcknowledgedSinceMoved
  BY DEF AckInv, AcknowledgedSinceMoved, Clearing, Clears, Moving, Moves, Busy, Idle
<1> QED
  BY <1>2, <1>3, <1>4, <1>5, PTL DEF Spec

-----------------------------------------------------------------------------
(* The requests left open by an approval.                                  *)
Listed(j) == j.kind = "approve" /\ j.at \in {"list", "close"}

(* How a call comes to supersede the others, finish doing so, and promise  *)
(* the time; and how a submit comes by the time it records.                *)
ListStep ==
  /\ \A w \in Worker : Listed(job'[w]) =>
       \/ job'[w] = job[w]
       \/ /\ job'[w].id = job[w].id /\ job'[w].match = job[w].match
          /\ \/ job'[w].at = "list" /\ job[w].id \notin Pending'
             \/ /\ Listed(job[w]) /\ job[w].at = "list" /\ req' = req
                /\ \A i \in PendingOn(job[w].match) \ {job[w].id} :
                     \E x \in job'[w].others : x[1] = i
             \/ /\ Listed(job[w]) /\ job[w].at = "close"
                /\ \E x \in job[w].others :
                     job'[w].others = job[w].others \ {x} /\ x[1] \notin Pending'
  /\ \A m \in Match : promised'[m] \notin {promised[m], None} =>
       \E w \in Worker :
         /\ Listed(job[w]) /\ job[w].match = m
         /\ \/ job[w].at = "list" /\ req' = req /\ PendingOn(m) \subseteq {job[w].id}
            \/ job[w].at = "close" /\ \E x : job[w].others = {x} /\ x[1] \notin Pending'
  /\ \A w \in Worker : job'[w].kind = "submit" =>
       \/ job[w].kind = "submit" /\ job'[w].match = job[w].match /\ job'[w].row = job[w].row
       \/ job'[w].row.original = match[job'[w].match] /\ match' = match

(* A step of one call that lists nothing and makes no promise. *)
LEMMA ListKept ==
  ASSUME TypeOK, NEW w \in Worker, NEW j, job' = [job EXCEPT ![w] = j], ~Listed(j),
         \A m \in Match : promised'[m] \in {promised[m], None},
         \/ j.kind # "submit"
         \/ job[w].kind = "submit" /\ j.match = job[w].match /\ j.row = job[w].row
         \/ j.row.original = match[j.match] /\ match' = match
  PROVE  ListStep
  BY DEF ListStep, TypeOK

(* Saving a request that is not open closes it, or finds it gone. *)
LEMMA SavedClosed ==
  ASSUME TypeOK, NEW k \in Request, NEW row, row.status # "pending", SaveRequest(k, row)
  PROVE  k \notin Pending'
  BY DEF SaveRequest, Pending, Requests, TypeOK

(* Every step is a ListStep. *)
LEMMA ListSteps ==
  ASSUME Base, Next
  PROVE  ListStep
<1>2. ASSUME NEW w \in Worker, NEW u \in Player, NEW m \in Match,
             NEW kind \in {"move", "cancel"}, NEW t \in Time \cup {None},
             Submit(w, u, m, kind, t)
       PROVE  ListStep
  <2> DEFINE j == [Call("submit", "check", m, u) EXCEPT !.row =
        [match |-> m, by |-> u, kind |-> kind, proposed |-> t, original |-> match[m],
         agreed |-> FALSE, status |-> "pending"]]
  <2>1. job' = [job EXCEPT ![w] = j]
    BY <1>2 DEF Submit, Start, Go
  <2>2. ~Listed(j)
    BY DEF Listed, OnRequest, Call
  <2>3. j.kind = "submit" /\ j.row.original = match[j.match] /\ match' = match
    BY <1>2 DEF Submit, OnRequest, Call
  <2>4. promised' = promised
    BY <1>2 DEF Submit
  <2> HIDE DEF j
  <2> QED
    BY <2>1, <2>2, <2>3, <2>4, ListKept DEF Base
<1>3. ASSUME NEW w \in Worker, SubmitChecks(w) PROVE ListStep
  <2>1. job[w] \in Jobs /\ job[w].kind = "submit"
    BY <1>3, JobTyped DEF SubmitChecks, Is, Base
  <2> DEFINE j == [job[w] EXCEPT !.at = "save"]
  <2>2. job' = [job EXCEPT ![w] = Idle] \/ job' = [job EXCEPT ![w] = j]
    BY <1>3 DEF SubmitChecks, Step, Done, Go
  <2>3. /\ ~Listed(j) /\ j.match = job[w].match /\ j.row = job[w].row
        /\ ~Listed(Idle) /\ Idle.kind # "submit"
    BY <2>1 DEF Listed, Jobs, Idle
  <2>4. promised' = promised
    BY <1>3 DEF SubmitChecks
  <2> HIDE DEF j
  <2> QED
    BY <2>1, <2>2, <2>3, <2>4, ListKept DEF Base
<1>4. ASSUME NEW w \in Worker, SubmitSaves(w) PROVE ListStep
  <2>1. job' = [job EXCEPT ![w] = Idle] /\ promised' = promised
    BY <1>4 DEF SubmitSaves, Done, Go
  <2>2. ~Listed(Idle) /\ Idle.kind # "submit"
    BY DEF Listed, Idle
  <2> QED
    BY <2>1, <2>2, ListKept DEF Base
<1>5. ASSUME NEW w \in Worker, NEW u \in Player, NEW i \in Request, Agree(w, u, i) PROVE ListStep
  <2> DEFINE j == OnRequest("agree", "save", i, u)
  <2>1. job' = [job EXCEPT ![w] = j]
    BY <1>5 DEF Agree, Start, Go
  <2>2. ~Listed(j)
    BY DEF Listed, OnRequest, Call
  <2>3. j.kind # "submit"
    BY <1>5 DEF Agree, OnRequest, Call
  <2>4. promised' = promised
    BY <1>5 DEF Agree
  <2> HIDE DEF j
  <2> QED
    BY <2>1, <2>2, <2>3, <2>4, ListKept DEF Base
<1>6. ASSUME NEW w \in Worker, NEW i \in Request, Withdraw(w, i) PROVE ListStep
  <2> DEFINE j == OnRequest("withdraw", "save", i, req[i].by)
  <2>1. job' = [job EXCEPT ![w] = j]
    BY <1>6 DEF Withdraw, Start, Go
  <2>2. ~Listed(j)
    BY DEF Listed, OnRequest, Call
  <2>3. j.kind # "submit"
    BY <1>6 DEF Withdraw, OnRequest, Call
  <2>4. promised' = promised
    BY <1>6 DEF Withdraw
  <2> HIDE DEF j
  <2> QED
    BY <2>1, <2>2, <2>3, <2>4, ListKept DEF Base
<1>7. ASSUME NEW w \in Worker, NEW i \in Request, Decline(w, i) PROVE ListStep
  <2> DEFINE j == OnRequest("decline", "save", i, req[i].by)
  <2>1. job' = [job EXCEPT ![w] = j]
    BY <1>7 DEF Decline, Start, Go
  <2>2. ~Listed(j)
    BY DEF Listed, OnRequest, Call
  <2>3. j.kind # "submit"
    BY <1>7 DEF Decline, OnRequest, Call
  <2>4. promised' = promised
    BY <1>7 DEF Decline
  <2> HIDE DEF j
  <2> QED
    BY <2>1, <2>2, <2>3, <2>4, ListKept DEF Base
<1>8. ASSUME NEW w \in Worker, SaveAnswer(w) PROVE ListStep
  <2>1. job' = [job EXCEPT ![w] = Idle] /\ promised' = promised
    BY <1>8 DEF SaveAnswer, Done, Go
  <2>2. ~Listed(Idle) /\ Idle.kind # "submit"
    BY DEF Listed, Idle
  <2> QED
    BY <2>1, <2>2, ListKept DEF Base
<1>9. ASSUME NEW w \in Worker, NEW v \in Admin, NEW m \in Match, NEW t \in Time,
             EditMatch(w, v, m, t)
       PROVE  ListStep
  <2> DEFINE j == [Call("edit", "move", m, v) EXCEPT !.time = t]
  <2>1. job' = [job EXCEPT ![w] = j]
    BY <1>9 DEF EditMatch, Start, Go
  <2>2. ~Listed(j)
    BY DEF Listed, OnRequest, Call
  <2>3. j.kind # "submit"
    BY <1>9 DEF EditMatch, OnRequest, Call
  <2>4. promised' = promised
    BY <1>9 DEF EditMatch
  <2> HIDE DEF j
  <2> QED
    BY <2>1, <2>2, <2>3, <2>4, ListKept DEF Base
<1>10. ASSUME NEW w \in Worker, NEW v \in Admin, NEW i \in Request, NEW t \in Time \cup {None},
              Approve(w, v, i, t)
       PROVE  ListStep
  <2> DEFINE j == [OnRequest("approve", "move", i, v) EXCEPT !.time =
        CASE req[i].kind = "cancel" -> None [] t # None -> t [] OTHER -> req[i].proposed]
  <2>1. job' = [job EXCEPT ![w] = j]
    BY <1>10 DEF Approve, Start, Go
  <2>2. ~Listed(j)
    BY DEF Listed, OnRequest, Call
  <2>3. j.kind # "submit"
    BY <1>10 DEF Approve, OnRequest, Call
  <2>4. promised' = promised
    BY <1>10 DEF Approve
  <2> HIDE DEF j
  <2> QED
    BY <2>1, <2>2, <2>3, <2>4, ListKept DEF Base
<1>11. ASSUME NEW w \in Worker, MoveFails(w) PROVE ListStep
  <2>1. job' = [job EXCEPT ![w] = Idle] /\ promised' = promised
    BY <1>11 DEF MoveFails, Done, Go
  <2>2. ~Listed(Idle) /\ Idle.kind # "submit"
    BY DEF Listed, Idle
  <2> QED
    BY <2>1, <2>2, ListKept DEF Base
<1>12. ASSUME NEW w \in Worker, CancelMatch(w) PROVE ListStep
  <2>1. job' = [job EXCEPT ![w] = Idle] /\ promised' = promised
    BY <1>12 DEF CancelMatch, Done, Go
  <2>2. ~Listed(Idle) /\ Idle.kind # "submit"
    BY DEF Listed, Idle
  <2> QED
    BY <2>1, <2>2, ListKept DEF Base
<1>13. ASSUME NEW w \in Worker, MoveMatch(w) PROVE ListStep
  <2>1. job[w] \in Jobs /\ job[w].kind # "submit"
    BY <1>13, JobTyped DEF MoveMatch, Is, Base, HoldsInv, Holds
  <2>2. PICK j : job' = [job EXCEPT ![w] = j] /\ ~Listed(j) /\ j.kind # "submit"
    <3>1. /\ ~Listed([job[w] EXCEPT !.at = "clear"])
          /\ [job[w] EXCEPT !.at = "clear"].kind # "submit"
        /\ ~Listed(AfterMove(job[w])) /\ AfterMove(job[w]).kind # "submit"
      BY <2>1 DEF AfterMove, Idle, Jobs, Listed
    <3> QED
      BY <1>13, <3>1 DEF MoveMatch, Go
  <2>3. \A m \in Match : promised'[m] \in {promised[m], None}
    BY <1>13 DEF MoveMatch, Base, TypeOK
  <2> QED
    BY <2>2, <2>3, ListKept DEF Base
<1>14. ASSUME NEW w \in Worker, ClearAcks(w) PROVE ListStep
  <2>1. job[w] \in Jobs /\ job[w].kind # "submit"
    BY <1>14, JobTyped DEF ClearAcks, Is, Base, HoldsInv, Holds
  <2>2. PICK j : job' = [job EXCEPT ![w] = j] /\ ~Listed(j) /\ j.kind # "submit"
    <3>1. /\ ~Listed([job[w] EXCEPT !.at = "seed", !.todo = Player])
          /\ [job[w] EXCEPT !.at = "seed", !.todo = Player].kind # "submit"
      BY <2>1 DEF AfterMove, Idle, Jobs, Listed
    <3> QED
      BY <1>14, <3>1 DEF ClearAcks, Go
  <2>3. \A m \in Match : promised'[m] \in {promised[m], None}
    BY <1>14 DEF ClearAcks, Base, TypeOK
  <2> QED
    BY <2>2, <2>3, ListKept DEF Base
<1>15. ASSUME NEW w \in Worker, NEW u \in Player, SeedAck(w, u) PROVE ListStep
  <2>1. job[w] \in Jobs /\ job[w].kind # "submit" /\ job[w].at = "seed"
    BY <1>15, JobTyped DEF SeedAck, Is, Base, HoldsInv, Holds
  <2>2. PICK j : job' = [job EXCEPT ![w] = j] /\ ~Listed(j) /\ j.kind # "submit"
    <3>1. /\ ~Listed(AfterMove([job[w] EXCEPT !.todo = {}]))
          /\ AfterMove([job[w] EXCEPT !.todo = {}]).kind # "submit"
        /\ ~Listed([job[w] EXCEPT !.todo = job[w].todo \ {u}])
        /\ [job[w] EXCEPT !.todo = job[w].todo \ {u}].kind # "submit"
      BY <2>1 DEF AfterMove, Idle, Jobs, Listed
    <3> QED
      BY <1>15, <3>1 DEF SeedAck, Go
  <2>3. \A m \in Match : promised'[m] \in {promised[m], None}
    BY <1>15 DEF SeedAck, Base, TypeOK
  <2> QED
    BY <2>2, <2>3, ListKept DEF Base
<1>16. ASSUME NEW w \in Worker, RecordApproval(w) PROVE ListStep
  <2>1. /\ job[w] \in Jobs /\ job[w].kind = "approve" /\ job[w].id \in Request
        /\ job[w].row \in RequestRow
    BY <1>16, JobTyped DEF RecordApproval, Is, Base, HoldsInv, Holds, Deciding
  <2> DEFINE row == [job[w].row EXCEPT !.status = "approved"]
             j == [job[w] EXCEPT !.at = "list"]
  <2>2. row.status # "pending"
    BY <2>1 DEF RequestRow
  <2>3. SaveRequest(job[w].id, row) /\ promised' = promised /\ job' = [job EXCEPT ![w] = j]
    BY <1>16 DEF RecordApproval, Step, Go
  <2>4. j.at = "list" /\ j.id = job[w].id /\ j.match = job[w].match /\ j.kind = "approve"
    BY <2>1 DEF Jobs
  <2> HIDE DEF row, j
  <2>5. job[w].id \notin Pending'
    BY <2>1, <2>2, <2>3, SavedClosed DEF Base
  <2> QED
    BY <2>3, <2>4, <2>5 DEF ListStep, Base, TypeOK
<1>17. ASSUME NEW w \in Worker, ListOthers(w) PROVE ListStep
  <2>1. job[w] \in Jobs /\ job[w].kind = "approve" /\ job[w].at = "list" /\ req' = req
    BY <1>17, JobTyped DEF ListOthers, Is, Base
  <2> DEFINE m == job[w].match
             ids == PendingOn(m) \ {job[w].id}
             others == {<<i, req[i]>> : i \in ids}
             j == [job[w] EXCEPT !.at = "close", !.others = others]
  <2>2. \/ ids = {} /\ Told(w)
        \/ job' = [job EXCEPT ![w] = j] /\ promised' = promised
    BY <1>17 DEF ListOthers, Go
  <2>3. /\ j.at = "close" /\ j.id = job[w].id /\ j.match = m /\ j.kind = "approve"
        /\ j.others = others
    BY <2>1 DEF Jobs
  <2>4. \A i \in ids : \E x \in others : x[1] = i
    <3> TAKE i \in ids
    <3>1. <<i, req[i]>> \in others
      OBVIOUS
    <3> HIDE DEF others
    <3> QED
      BY <3>1
  <2>5. Listed(job[w])
    BY <2>1 DEF Listed
  <2> HIDE DEF j, others
  <2>6. CASE ids = {} /\ Told(w)
    <3>1. /\ job' = [job EXCEPT ![w] = Idle]
          /\ \A n \in Match : promised'[n] = promised[n] \/ n = m
      BY <2>6 DEF Told, Done, Go, Base, TypeOK
    <3>2. PendingOn(m) \subseteq {job[w].id}
      BY <2>6
    <3>3. ~Listed(Idle) /\ Idle.kind # "submit"
      BY DEF Listed, Idle
    <3> QED
      BY <2>1, <2>5, <3>1, <3>2, <3>3 DEF ListStep, Base, TypeOK
  <2>7. CASE job' = [job EXCEPT ![w] = j] /\ promised' = promised
    BY <2>1, <2>3, <2>4, <2>5, <2>7 DEF ListStep, Base, TypeOK
  <2> QED
    BY <2>2, <2>6, <2>7
<1>18. ASSUME NEW w \in Worker, NEW x \in Request \X RequestRow, Supersede(w, x) PROVE ListStep
  <2>1. /\ job[w] \in Jobs /\ job[w].kind = "approve" /\ job[w].at = "close"
        /\ x \in job[w].others /\ x[1] \in Request /\ x[2] \in RequestRow
    BY <1>18, JobTyped DEF Supersede, Is, Base
  <2> DEFINE row == [x[2] EXCEPT !.status = "superseded"]
             j == [job[w] EXCEPT !.others = job[w].others \ {x}]
  <2>2. row.status # "pending"
    BY <2>1 DEF RequestRow
  <2>3. /\ SaveRequest(x[1], row)
        /\ \/ job[w].others = {x} /\ Told(w)
           \/ job' = [job EXCEPT ![w] = j] /\ promised' = promised
    BY <1>18 DEF Supersede, Go
  <2>4. /\ j.at = "close" /\ j.id = job[w].id /\ j.match = job[w].match /\ j.kind = "approve"
        /\ j.others = job[w].others \ {x}
    BY <2>1 DEF Jobs
  <2>5. Listed(job[w])
    BY <2>1 DEF Listed
  <2> HIDE DEF row, j
  <2>6. x[1] \notin Pending'
    BY <2>1, <2>2, <2>3, SavedClosed DEF Base
  <2>7. CASE job[w].others = {x} /\ Told(w)
    <3>1. /\ job' = [job EXCEPT ![w] = Idle]
          /\ \A n \in Match : promised'[n] = promised[n] \/ n = job[w].match
      BY <2>7 DEF Told, Done, Go, Base, TypeOK
    <3>2. ~Listed(Idle) /\ Idle.kind # "submit"
      BY DEF Listed, Idle
    <3> QED
      BY <2>1, <2>5, <2>6, <2>7, <3>1, <3>2 DEF ListStep, Base, TypeOK
  <2>8. CASE job' = [job EXCEPT ![w] = j] /\ promised' = promised
    BY <2>1, <2>4, <2>5, <2>6, <2>8 DEF ListStep, Base, TypeOK
  <2> QED
    BY <2>3, <2>7, <2>8
<1>19. ASSUME NEW w \in Worker, NEW u \in Player, NEW m \in Match, Acknowledge(w, u, m)
       PROVE  ListStep
  <2> DEFINE j == [Call("ack", "save", m, u) EXCEPT !.time = match[m]]
  <2>1. job' = [job EXCEPT ![w] = j]
    BY <1>19 DEF Acknowledge, Start, Go
  <2>2. ~Listed(j)
    BY DEF Listed, OnRequest, Call
  <2>3. j.kind # "submit"
    BY <1>19 DEF Acknowledge, OnRequest, Call
  <2>4. promised' = promised
    BY <1>19 DEF Acknowledge
  <2> HIDE DEF j
  <2> QED
    BY <2>1, <2>2, <2>3, <2>4, ListKept DEF Base
<1>20. ASSUME NEW w \in Worker, SaveAck(w) PROVE ListStep
  <2>1. job' = [job EXCEPT ![w] = Idle] /\ promised' = promised
    BY <1>20 DEF SaveAck, Done, Go
  <2>2. ~Listed(Idle) /\ Idle.kind # "submit"
    BY DEF Listed, Idle
  <2> QED
    BY <2>1, <2>2, ListKept DEF Base
<1>21. ASSUME NEW m \in Match, DeleteMatch(m) PROVE ListStep
  BY <1>21 DEF DeleteMatch, ListStep
<1>22. ASSUME Restart PROVE ListStep
  BY <1>22 DEF Restart, ListStep, Listed, Idle
<1> QED
  BY <1>2, <1>3, <1>4, <1>5, <1>6, <1>7, <1>8, <1>9, <1>10, <1>11, <1>12, <1>13, <1>14, <1>15,
     <1>16, <1>17, <1>18, <1>19, <1>20, <1>21, <1>22, Cases DEF Base

(* What makes OpenRequestsCurrent inductive: a submit in flight will       *)
(* record the promised time, and an approval that has been recorded holds  *)
(* every other request still open on the match.                            *)
Covered(j) ==
  Listed(j) =>
    /\ j.id \notin Pending
    /\ j.at = "close" => \A i \in PendingOn(j.match) : \E x \in j.others : x[1] = i

CurrentInv ==
  /\ OpenRequestsCurrent
  /\ \A w \in Worker : Covered(job[w])
  /\ \A w \in Worker :
       job[w].kind = "submit" /\ job[w].match \in Matches /\ promised[job[w].match] # None =>
         job[w].row.original = match[job[w].match]

(* No request of a match appears while an approval on it is in flight.     *)
LEMMA NoNewOnes ==
  ASSUME Base, RowInv, RowsStep, "stale" \notin Conflicts,
         NEW w \in Worker, Listed(job[w]), NEW i \in Pending',
         req'[i].match = job[w].match \/ i = job[w].id
  PROVE  i \in Pending /\ req'[i].match = req[i].match
<1>1. CASE i \in Requests
  BY <1>1, PendingKept
<1>2. CASE i \notin Requests
  <2>1. PICK v \in Worker : Creates(v) /\ i = issued + 1
    BY <1>2 DEF RowsStep, Pending
  <2>2. /\ job[v].kind = "submit" /\ job[v].row.match = job[v].match
        /\ req'[i] = job[v].row
    BY <2>1 DEF Creates, SubmitSaves, Is, Base, HoldsInv, Holds, TypeOK, Pending, Requests
  <2>3. ~InConflict(job[v], job[w])["stale"]
    BY <2>2 DEF Base, ApartInv, ConflictKind, Listed
  <2>4. job[v].match # job[w].match
    BY <2>2, <2>3 DEF InConflict, Listed
  <2>5. job[w].id # issued + 1
    <3>1. job[w].id <= issued /\ job[w].id \in Nat /\ issued \in Nat
      BY Ids DEF RowInv, Fresh, Base, HoldsInv, Holds, TypeOK, Listed, Deciding
    <3> QED
      BY <3>1
  <2> QED
    BY <2>1, <2>2, <2>4, <2>5
<1> QED
  BY <1>1, <1>2

(* Covered is inductive. *)
LEMMA CoveredStep ==
  ASSUME Base, RowInv, RowsStep, ListStep, "stale" \notin Conflicts,
         NEW w \in Worker, Covered(job[w])
  PROVE  Covered(job[w])'
<1> SUFFICES ASSUME Listed(job'[w])
             PROVE  /\ job'[w].id \notin Pending'
                    /\ job'[w].at = "close" =>
                         \A i \in PendingOn(job[w].match)' : \E x \in job'[w].others : x[1] = i
  BY DEF Covered, Listed
<1>1. CASE job'[w] = job[w]
  BY <1>1, NoNewOnes DEF Covered, PendingOn, Listed
<1>2. CASE /\ job'[w].id = job[w].id /\ job'[w].match = job[w].match
           /\ job'[w].at = "list" /\ job[w].id \notin Pending'
  BY <1>2
<1>3. CASE /\ job'[w].id = job[w].id /\ job'[w].match = job[w].match
           /\ Listed(job[w]) /\ job[w].at = "list" /\ req' = req
           /\ \A i \in PendingOn(job[w].match) \ {job[w].id} : \E x \in job'[w].others : x[1] = i
  BY <1>3 DEF Covered, PendingOn, Pending, Requests
<1>4. CASE /\ job'[w].id = job[w].id /\ job'[w].match = job[w].match
           /\ Listed(job[w]) /\ job[w].at = "close"
           /\ \E x \in job[w].others :
                job'[w].others = job[w].others \ {x} /\ x[1] \notin Pending'
  BY <1>4, NoNewOnes DEF Covered, PendingOn
<1> QED
  BY <1>1, <1>2, <1>3, <1>4 DEF ListStep

(* When an approval is complete, no request is open on its match. *)
LEMMA NoneLeft ==
  ASSUME Base, RowInv, RowsStep, ListStep, CurrentInv, "stale" \notin Conflicts,
         NEW m \in Match, promised'[m] \notin {promised[m], None}
  PROVE  PendingOn(m)' = {}
<1> SUFFICES ASSUME NEW i \in Pending', req'[i].match = m PROVE FALSE
  BY DEF PendingOn
<1>1. PICK w \in Worker :
         /\ Listed(job[w]) /\ job[w].match = m
         /\ \/ job[w].at = "list" /\ req' = req /\ PendingOn(m) \subseteq {job[w].id}
            \/ job[w].at = "close" /\ \E x : job[w].others = {x} /\ x[1] \notin Pending'
  BY DEF ListStep
<1>2. i \in PendingOn(m) /\ Covered(job[w])
  BY <1>1, NoNewOnes DEF PendingOn, CurrentInv
<1> QED
  BY <1>1, <1>2 DEF Covered, PendingOn

(* Whose promise stands has not been moved. *)
LEMMA PromiseStands ==
  ASSUME Base, TimesStep, NEW m \in Matches', promised'[m] # None, promised'[m] = promised[m]
  PROVE  m \in Match /\ m \in Matches /\ match'[m] = match[m]
<1>1. ~\E w \in Worker : MoveMatch(w) /\ job[w].match = m
  BY DEF MoveMatch, Matches, Base, TypeOK
<1> QED
  BY <1>1, SameTime

(* CurrentInv is inductive. *)
LEMMA CurrentStep ==
  ASSUME Base, RowInv, CurrentInv, {"row", "stale"} \cap Conflicts = {}, Next
  PROVE  CurrentInv'
<1>1. RowsStep /\ TimesStep /\ ListStep /\ "stale" \notin Conflicts
  BY RowsWritten, TimesSteps, ListSteps
<1>2. ASSUME NEW m \in Matches', promised'[m] # None, NEW i \in Pending', req'[i].match = m
       PROVE  req'[i].original = match'[m]
  <2>1. promised'[m] = promised[m]
    BY <1>1, <1>2, NoneLeft DEF PendingOn, Matches
  <2>2. m \in Match /\ m \in Matches /\ match'[m] = match[m]
    BY <1>1, <1>2, <2>1, PromiseStands
  <2>3. CASE i \in Requests
    <3>1. i \in PendingOn(m) /\ req'[i].original = req[i].original
      BY <1>1, <1>2, <2>3, PendingKept DEF RowsStep, Pending, PendingOn, Requests
    <3> QED
      BY <1>2, <2>1, <2>2, <3>1 DEF CurrentInv, OpenRequestsCurrent
  <2>4. CASE i \notin Requests
    <3>1. PICK v \in Worker : Creates(v) /\ i = issued + 1
      BY <1>1, <2>4 DEF RowsStep, Pending
    <3>2. /\ job[v].kind = "submit" /\ job[v].row.match = job[v].match
          /\ req'[i] = job[v].row
      BY <3>1 DEF Creates, SubmitSaves, Is, Base, HoldsInv, Holds, TypeOK, Pending, Requests
    <3> QED
      BY <1>2, <2>1, <2>2, <3>2 DEF CurrentInv
  <2> QED
    BY <2>3, <2>4
<1>3. ASSUME NEW w \in Worker, job'[w].kind = "submit", job'[w].match \in Matches',
             promised'[job'[w].match] # None
       PROVE  job'[w].row.original = match'[job'[w].match]
  <2> DEFINE m == job'[w].match
  <2>1. CASE job'[w].row.original = match[job'[w].match] /\ match' = match
    BY <2>1
  <2>2. CASE job[w].kind = "submit" /\ job'[w].match = job[w].match /\ job'[w].row = job[w].row
    <3>1. promised'[m] = promised[m]
      <4> SUFFICES ASSUME promised'[m] # promised[m] PROVE FALSE
        OBVIOUS
      <4>1. PICK v \in Worker : Listed(job[v]) /\ job[v].match = m
        BY <1>1, <1>3 DEF ListStep, Matches
      <4>2. ~InConflict(job[w], job[v])["stale"]
        BY <1>1, <2>2, <4>1 DEF Base, ApartInv, ConflictKind, Listed
      <4> QED
        BY <2>2, <4>1, <4>2 DEF InConflict, Listed
    <3>2. m \in Matches /\ match'[m] = match[m]
      BY <1>1, <1>3, <3>1, PromiseStands
    <3> QED
      BY <1>3, <2>2, <3>1, <3>2 DEF CurrentInv
  <2> QED
    BY <1>1, <1>3, <2>1, <2>2 DEF ListStep
<1>4. \A w \in Worker : Covered(job[w])'
  BY <1>1, CoveredStep DEF CurrentInv
<1> QED
  BY <1>2, <1>3, <1>4 DEF CurrentInv, OpenRequestsCurrent, PendingOn

(* After an approval, what is still open on the match was asked of the     *)
(* time it is at, as long as answers to the match's requests do not        *)
(* overlap and no player submits one while an approval is in flight.       *)
THEOREM NothingStaleLeft ==
  ASSUME {"row", "stale"} \cap Conflicts = {}
  PROVE  Spec => []OpenRequestsCurrent
<1>1. "row" \notin Conflicts
  OBVIOUS
<1>2. Init => CurrentInv
  <2>1. Init => \A w \in Worker : job[w].kind = "idle"
    BY DEF Init, Idle
  <2> QED
    BY <2>1 DEF Init, CurrentInv, OpenRequestsCurrent, Covered, Listed, Matches
<1>3. Base /\ RowInv /\ CurrentInv /\ [Next]_vars => CurrentInv'
  <2>1. Base /\ RowInv /\ CurrentInv /\ Next => CurrentInv'
    BY CurrentStep
  <2>2. CurrentInv /\ UNCHANGED vars => CurrentInv'
    BY DEF vars, CurrentInv, OpenRequestsCurrent, Covered, Listed, Matches, PendingOn,
           Pending, Requests
  <2> QED
    BY <2>1, <2>2
<1>4. Spec => [](Base /\ RowInv)
  BY <1>1, RowInvariant
<1>5. CurrentInv => OpenRequestsCurrent
  BY DEF CurrentInv
<1> QED
  BY <1>2, <1>3, <1>4, <1>5, PTL DEF Spec
=============================================================================

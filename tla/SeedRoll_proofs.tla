---------------------------- MODULE SeedRoll_proofs ----------------------------
(***************************************************************************)
(* Theorems about SeedRoll.                                                *)
(***************************************************************************)
EXTENDS SeedRoll, TLAPS

(* What a request holds: the row it submits is still the one it queued,    *)
(* too young to be swept, and the direct roll it awaits is not recorded yet.   *)
RequestInv ==
  \A c \in Caller :
    /\ request[c].at = "idle" => request[c] = Idle
    /\ request[c].at \in {"check", "queue"} =>
         request[c].match \in Match /\ request[c].roll = None
    /\ request[c].at = "submit" =>
         /\ request[c].roll \in Rows \ old
         /\ task[request[c].roll].match = request[c].match
         /\ task[request[c].roll].status = "queued"
         /\ ~task[request[c].roll].handle
    /\ request[c].at = "await" =>
         /\ request[c].match \in Match /\ request[c].roll \in Direct
         /\ made[request[c].roll] = 0

(* The lock of a match in its process, and that a roll belongs to one request. *)
AloneInv ==
  \A b, c \in Caller : b # c =>
    /\ request[b].roll # None => request[b].roll # request[c].roll
    /\ request[b].match # None /\ Home[b] = Home[c] => request[b].match # request[c].match

(* What a tick holds: rows that were unfinished when read, that nobody is  *)
(* submitting; and a claimed task that only it completes.                  *)
TickInv ==
  \A w \in Process :
    /\ \A x \in tick[w].todo :
         /\ x[1] \in Rows /\ x[2].status \in Active /\ x[2].match = task[x[1]].match
         /\ \A c \in Caller : request[c].at = "submit" => request[c].roll # x[1]
    /\ tick[w].at = "complete" =>
         /\ tick[w].task \in Rows /\ task[tick[w].task].status = "succeeded"
         /\ made[tick[w].task] = 0
    /\ \A v \in Process :
         v # w /\ tick[v].at = "complete" /\ tick[w].at = "complete" =>
           tick[v].task # tick[w].task

(* A roll is recorded once, and a task only when it succeeded. *)
MadeInv ==
  /\ old \subseteq Rows
  /\ \A x \in Roll : made[x] <= 1
  /\ \A t \in Task : made[t] = 1 => t \in Rows /\ task[t].status = "succeeded"

(* No two unfinished tasks of a match were queued by one process, and a    *)
(* request about to queue one adds to none of its own process.             *)
QueueInv ==
  /\ \A c \in Caller : request[c].at = "queue" =>
       \A t \in ActiveFor(request[c].match) : task[t].by # Home[c]
  /\ \A s, t \in ActiveTasks :
       s # t /\ task[s].match \in Match /\ task[s].match = task[t].match =>
         task[s].by # task[t].by

IInv == TypeOK /\ RequestInv /\ AloneInv /\ TickInv /\ MadeInv /\ QueueInv

USE FaultAssumption, HomeAssumption, RollAssumption, RowAssumption

LEMMA InitInv == Init => IInv
  BY SMTT(30) DEF Init, IInv, TypeOK, RequestInv, AloneInv, TickInv, MadeInv, QueueInv, Requests,
     Ticks, Idle, Waiting, Doing, Ticking, Rows, ActiveTasks, Roll

(* The actions of a step, each with its parameters typed. *)
LEMMA Cases ==
  TypeOK /\ Next =>
    \/ \E c \in Caller, m \in Match : Generate(c, m)
    \/ \E c \in Caller, m \in Match, d \in Direct : GenerateDirect(c, m, d)
    \/ \E c \in Caller : FindTask(c)
    \/ \E c \in Caller, t \in Task : QueueRoll(c, t)
    \/ \E c \in Caller, t \in Task : QueueFreeRoll(c, t)
    \/ \E c \in Caller : SubmitAccepted(c)
    \/ \E c \in Caller : SubmitRefused(c)
    \/ \E c \in Caller : SubmitFailed(c)
    \/ \E c \in Caller : DirectAnswered(c)
    \/ \E c \in Caller : DirectFailed(c)
    \/ \E m \in Match : ClearMatchSeed(m)
    \/ \E t \in Task : Ages(t)
    \/ \E w \in Process : Tick(w)
    \/ \E w \in Process, x \in Read : Sweep(w, x)
    \/ \E w \in Process : DueForPoll(w)
    \/ \E w \in Process, x \in Read : PollPending(w, x)
    \/ \E w \in Process, x \in Read : PollFailed(w, x)
    \/ \E w \in Process, x \in Read : PollLanded(w, x)
    \/ \E w \in Process : Complete(w)
    \/ \E w \in Process : CompleteRaises(w)
    \/ \E w \in Process : TickEnds(w)
    \/ \E w \in Process : Restart(w)
<1>1. TypeOK => \A w \in Process : \A x \in tick[w].todo : x \in Read
  BY DEF TypeOK, Ticks
<1> QED
  BY <1>1 DEF Next, Work, Submitted

(* What a claim does to the rows. *)
LEMMA Claimed ==
  ASSUME TypeOK, TickInv, NEW w \in Process, NEW x \in tick[w].todo, NEW s \in Terminal,
         task' = IF Claims(x[1], x[2]) THEN [task EXCEPT ![x[1]].status = s] ELSE task
  PROVE  /\ x[1] \in Rows /\ x[2].status \in Active /\ x[2].match = task[x[1]].match
         /\ Rows' = Rows
         /\ \A t \in Rows : task'[t].match = task[t].match /\ task'[t].by = task[t].by
         /\ \A t \in Rows : task'[t] # task[t] => t \in ActiveTasks /\ t = x[1]
         /\ ActiveTasks' \subseteq ActiveTasks
         /\ Claims(x[1], x[2]) => x[1] \in ActiveTasks /\ task'[x[1]].status = s
         /\ task' \in [Task -> TaskRow \cup {None}]
<1>1. x[1] \in Rows /\ x[2].status \in Active /\ x[2].match = task[x[1]].match
  BY DEF TickInv
<1>2. task[x[1]] \in TaskRow /\ x[1] \in Task
  BY <1>1 DEF Rows, TypeOK
<1>3. CASE Claims(x[1], x[2])
  <2>1. task' = [task EXCEPT ![x[1]].status = s]
    BY <1>3
  <2>2. x[1] \in ActiveTasks
    BY <1>1, <1>3 DEF Claims, ActiveTasks
  <2>3. /\ task'[x[1]] \in TaskRow /\ task'[x[1]].status = s
        /\ task'[x[1]].match = task[x[1]].match /\ task'[x[1]].by = task[x[1]].by
    BY <1>2, <2>1 DEF TypeOK, TaskRow, Status
  <2>4. \A t \in Task \ {x[1]} : task'[t] = task[t]
    BY <1>2, <2>1 DEF TypeOK
  <2>5. Rows' = Rows
    BY <1>1, <2>3, <2>4 DEF Rows
  <2>7. task' \in [Task -> TaskRow \cup {None}]
    BY <1>2, <2>1, <2>3 DEF TypeOK
  <2>6. ActiveTasks' \subseteq ActiveTasks
    BY <2>2, <2>4, <2>5 DEF ActiveTasks
  <2> QED
    BY <1>1, <2>2, <2>3, <2>4, <2>5, <2>6, <2>7 DEF Rows
<1>4. CASE ~Claims(x[1], x[2])
  BY <1>1, <1>4 DEF Rows, ActiveTasks, TypeOK
<1> QED
  BY <1>3, <1>4

(* A row that is queued. *)
LEMMA Queued ==
  ASSUME TypeOK, NEW c \in Caller, NEW m \in Match \cup {None}, NEW t \in Task,
         NEW w \in Process \cup {None}, QueueRow(c, m, t, w)
  PROVE  /\ task[t] = None /\ task'[t] # None
         /\ task'[t].match = m /\ task'[t].status = "queued" /\ ~task'[t].handle
         /\ task'[t].by = w
         /\ \A s \in Task \ {t} : task'[s] = task[s]
         /\ request'[c] = Doing("submit", m, t)
         /\ \A b \in Caller \ {c} : request'[b] = request[b]
<1>1. [match |-> m, status |-> "queued", handle |-> FALSE, by |-> w] \in TaskRow
  BY DEF TaskRow, Status, Active
<1> QED
  BY <1>1 DEF QueueRow, TypeOK, Rows

(* The row a request submits. *)
LEMMA Submission ==
  ASSUME TypeOK, RequestInv, NEW c \in Caller, Submits(c)
  PROVE  /\ request[c].roll \in ActiveTasks \ old
         /\ task[request[c].roll].match = request[c].match
         /\ task[request[c].roll].status = "queued"
  BY DEF Submits, RequestInv, ActiveTasks, Active

(* What an answer does to the requests. *)
LEMMA Answered ==
  ASSUME TypeOK, NEW c \in Caller, Answer(c)
  PROVE  /\ request'[c] = Idle
         /\ \A b \in Caller \ {c} : request'[b] = request[b]
  BY DEF Answer, TypeOK

(* What a process leaves behind when it restarts. *)
LEMMA Restarted ==
  ASSUME TypeOK, NEW w \in Process, Restart(w)
  PROVE  /\ \A c \in Caller : request'[c] \in {Idle, request[c]}
         /\ \A v \in Process : tick'[v] \in {Waiting, tick[v]}
         /\ UNCHANGED <<task, old, seed, made>>
  BY DEF Restart, TypeOK

(* What going on with a tick does to the ticks. *)
LEMMA WentOn ==
  ASSUME TypeOK, NEW w \in Process, NEW x, GoOn(w, x)
  PROVE  /\ tick' \in [Process -> Ticks]
         /\ tick'[w].at = tick[w].at /\ tick'[w].todo = tick[w].todo \ {x}
         /\ \A v \in Process \ {w} : tick'[v] = tick[v]
<1>1. Rest(w, x) \in Ticks
  BY DEF Rest, Ticking, Ticks, TypeOK
<1> QED
  BY <1>1 DEF GoOn, Rest, Ticking, TypeOK

LEMMA TypeStep == IInv /\ Next => TypeOK'
<1> SUFFICES ASSUME IInv, Next PROVE TypeOK'
  OBVIOUS
<1>1. TypeOK /\ RequestInv /\ TickInv
  BY DEF IInv
<1>2. ASSUME NEW c \in Caller, NEW m \in Match, Generate(c, m) PROVE TypeOK'
  BY <1>1, <1>2 DEF Generate, Doing, TypeOK, Requests
<1>3. ASSUME NEW c \in Caller, NEW m \in Match, NEW d \in Direct, GenerateDirect(c, m, d) PROVE TypeOK'
  BY <1>1, <1>3 DEF GenerateDirect, Doing, TypeOK, Requests, Roll
<1>4. ASSUME NEW c \in Caller, FindTask(c) PROVE TypeOK'
  BY <1>1, <1>4 DEF FindTask, Answer, Idle, Doing, Requests, TypeOK
<1>5. ASSUME NEW c \in Caller, NEW t \in Task, QueueRoll(c, t) PROVE TypeOK'
  BY <1>1, <1>5 DEF QueueRoll, QueueRow, Doing, TypeOK, Requests, TaskRow, Status, Active, Roll
<1>6. ASSUME NEW c \in Caller, NEW t \in Task, QueueFreeRoll(c, t) PROVE TypeOK'
  BY <1>1, <1>6 DEF QueueFreeRoll, QueueRow, Doing, TypeOK, Requests, TaskRow, Status, Active,
     Roll
<1>7. ASSUME NEW c \in Caller, SubmitAccepted(c) PROVE TypeOK'
  <2>1. request[c].roll \in Task /\ task[request[c].roll] \in TaskRow
    BY <1>1, <1>7 DEF RequestInv, SubmitAccepted, Submits, TypeOK, Rows
  <2>2. task' \in [Task -> TaskRow \cup {None}]
    BY <1>1, <1>7, <2>1 DEF SubmitAccepted, TypeOK, Requests, TaskRow, Status, Active
  <2>3. request' \in [Caller -> Requests]
    BY <1>1, <1>7 DEF SubmitAccepted, Answer, Idle, Doing, TypeOK, Requests
  <2> QED
    BY <1>1, <1>7, <2>2, <2>3 DEF SubmitAccepted, TypeOK
<1>8. ASSUME NEW c \in Caller, SubmitRefused(c) PROVE TypeOK'
  BY <1>1, <1>8 DEF SubmitRefused, Answer, Idle, Doing, TypeOK, Requests
<1>9. ASSUME NEW c \in Caller, SubmitFailed(c) PROVE TypeOK'
  <2>1. request[c].roll \in Task /\ task[request[c].roll] \in TaskRow
    BY <1>1, <1>9 DEF RequestInv, SubmitFailed, Submits, TypeOK, Rows
  <2>2. task' \in [Task -> TaskRow \cup {None}]
    BY <1>1, <1>9, <2>1 DEF SubmitFailed, TypeOK, TaskRow, Status, Terminal
  <2>3. request' \in [Caller -> Requests]
    BY <1>1, <1>9 DEF SubmitFailed, Answer, Idle, Doing, TypeOK, Requests
  <2> QED
    BY <1>1, <1>9, <2>2, <2>3 DEF SubmitFailed, TypeOK
<1>10. ASSUME NEW c \in Caller, DirectAnswered(c) PROVE TypeOK'
  <2>1. request[c].match \in Match /\ request[c].roll \in Roll
    BY <1>1, <1>10 DEF RequestInv, DirectAnswered, Awaits, Roll
  <2>2. seed' \in [Match -> Roll \cup {None}] /\ made' \in [Roll -> Nat]
    BY <1>1, <1>10, <2>1 DEF DirectAnswered, CompleteSeedRoll, TypeOK
  <2>3. request' \in [Caller -> Requests]
    BY <1>1, <1>10 DEF DirectAnswered, Answer, Idle, Doing, TypeOK, Requests
  <2> QED
    BY <1>1, <1>10, <2>2, <2>3 DEF DirectAnswered, TypeOK
<1>11. ASSUME NEW c \in Caller, DirectFailed(c) PROVE TypeOK'
  BY <1>1, <1>11 DEF DirectFailed, Answer, Idle, Doing, TypeOK, Requests
<1>12. ASSUME NEW m \in Match, ClearMatchSeed(m) PROVE TypeOK'
  BY <1>1, <1>12 DEF ClearMatchSeed, TypeOK
<1>13. ASSUME NEW t \in Task, Ages(t) PROVE TypeOK'
  BY <1>1, <1>13 DEF Ages, TypeOK
<1>14. ASSUME NEW w \in Process, Tick(w) PROVE TypeOK'
  BY <1>1, <1>14 DEF Tick, Ticking, Ticks, Read, AsRead, ActiveTasks, Rows, TypeOK
<1>15. ASSUME NEW w \in Process, NEW x \in Read, Sweep(w, x) PROVE TypeOK'
  <2>1. task' \in [Task -> TaskRow \cup {None}]
    BY <1>1, <1>15, Claimed DEF Sweep, Terminal
  <2> QED
    BY <1>1, <1>15, <2>1, WentOn DEF Sweep, TypeOK
<1>16. ASSUME NEW w \in Process, DueForPoll(w) PROVE TypeOK'
  BY <1>1, <1>16 DEF DueForPoll, Ticking, Ticks, Read, AsRead, ActiveTasks, Rows, TypeOK
<1>17. ASSUME NEW w \in Process, NEW x \in Read, PollPending(w, x) PROVE TypeOK'
  BY <1>1, <1>17 DEF PollPending, GoOn, Rest, Ticking, TypeOK, Ticks
<1>18. ASSUME NEW w \in Process, NEW x \in Read, PollFailed(w, x) PROVE TypeOK'
  <2>1. task' \in [Task -> TaskRow \cup {None}]
    BY <1>1, <1>18, Claimed DEF PollFailed, Terminal
  <2> QED
    BY <1>1, <1>18, <2>1, WentOn DEF PollFailed, TypeOK
<1>19. ASSUME NEW w \in Process, NEW x \in Read, PollLanded(w, x) PROVE TypeOK'
  <2>1. x[1] \in Task /\ Ticking("complete", tick[w].todo \ {x}, x[1]) \in Ticks
    BY <1>1, <1>19 DEF Ticking, Ticks, Read, TypeOK
  <2>2. Rest(w, x) \in Ticks
    BY <1>1, <1>19 DEF Rest, Ticking, Ticks, TypeOK
  <2>3. tick' \in [Process -> Ticks]
    BY <1>1, <1>19, <2>1, <2>2 DEF PollLanded, GoOn, TypeOK
  <2>4. task' \in [Task -> TaskRow \cup {None}]
    BY <1>1, <1>19, <2>1 DEF PollLanded, Claims, TypeOK, TaskRow, Status, Terminal
  <2> QED
    BY <1>1, <1>19, <2>3, <2>4 DEF PollLanded, TypeOK
<1>20. ASSUME NEW w \in Process, Complete(w) PROVE TypeOK'
  <2>1. tick' \in [Process -> Ticks]
    BY <1>1, <1>20 DEF Complete, Completed, Ticking, Ticks, TypeOK
  <2>2. tick[w].task \in Task /\ task[tick[w].task] \in TaskRow
    BY <1>1, <1>20 DEF Complete, TickInv, Rows, TypeOK
  <2>3. seed' \in [Match -> Roll \cup {None}] /\ made' \in [Roll -> Nat]
    BY <1>1, <1>20, <2>2 DEF Complete, CompleteSeedRoll, TaskRow, Roll, TypeOK
  <2> QED
    BY <1>1, <1>20, <2>1, <2>3 DEF Complete, TypeOK
<1>21. ASSUME NEW w \in Process, CompleteRaises(w) PROVE TypeOK'
  BY <1>1, <1>21 DEF CompleteRaises, Completed, Ticking, TypeOK, Ticks
<1>22. ASSUME NEW w \in Process, TickEnds(w) PROVE TypeOK'
  BY <1>1, <1>22 DEF TickEnds, Waiting, Ticking, TypeOK, Ticks
<1>23. ASSUME NEW w \in Process, Restart(w) PROVE TypeOK'
  BY <1>1, <1>23 DEF Restart, ServedBy, Idle, Doing, Waiting, Ticking, TypeOK, Requests, Ticks
<1> HIDE DEF TypeOK
<1> QED
  BY <1>1, <1>2, <1>3, <1>4, <1>5, <1>6, <1>7, <1>8, <1>9, <1>10, <1>11, <1>12, <1>13, <1>14, <1>15,
     <1>16, <1>17, <1>18, <1>19, <1>20, <1>21, <1>22, <1>23, Cases

LEMMA RequestStep == IInv /\ Next => RequestInv'
<1> SUFFICES ASSUME IInv, Next PROVE RequestInv'
  OBVIOUS
<1>1. TypeOK /\ RequestInv /\ AloneInv /\ TickInv /\ MadeInv
  BY DEF IInv
<1>2. ASSUME NEW c \in Caller, NEW m \in Match, Generate(c, m) PROVE RequestInv'
  BY <1>1, <1>2 DEF Generate, Doing, RequestInv, Rows
<1>3. ASSUME NEW c \in Caller, NEW m \in Match, NEW d \in Direct, GenerateDirect(c, m, d) PROVE RequestInv'
  BY <1>1, <1>3 DEF GenerateDirect, Doing, RequestInv, Rows
<1>4. ASSUME NEW c \in Caller, FindTask(c) PROVE RequestInv'
  BY <1>1, <1>4 DEF FindTask, Answer, Idle, Doing, TypeOK, RequestInv, Requests, Active, Rows
<1>5. ASSUME NEW c \in Caller, NEW t \in Task, QueueRoll(c, t) PROVE RequestInv'
  <2>1. task[t] = None /\ t \notin old /\ request[c].match \in Match
    BY <1>1, <1>5 DEF QueueRoll, QueueRow, MadeInv, Rows, RequestInv
  <2>2. \A b \in Caller : request[b].at = "submit" => request[b].roll # t
    BY <1>1, <2>1 DEF RequestInv, Rows
  <2>3. QueueRow(c, request[c].match, t, Home[c])
    BY <1>5 DEF QueueRoll
  <2>4. /\ request'[c].at = "submit" /\ request'[c].roll = t /\ request'[c].match = request[c].match
        /\ \A b \in Caller \ {c} : request'[b] = request[b]
    BY <1>1, <1>5 DEF QueueRoll, QueueRow, Doing, TypeOK
  <2>5. /\ task'[t] # None /\ task'[t].match = request[c].match
        /\ task'[t].status = "queued" /\ ~task'[t].handle
        /\ \A s \in Task \ {t} : task'[s] = task[s]
    BY <1>1, <2>1, <2>3, Queued
  <2>6. UNCHANGED <<old, made>>
    BY <1>5 DEF QueueRoll
  <2> QED
    BY <1>1, <2>1, <2>2, <2>4, <2>5, <2>6 DEF RequestInv, Rows
<1>6. ASSUME NEW c \in Caller, NEW t \in Task, QueueFreeRoll(c, t) PROVE RequestInv'
  <2>1. task[t] = None /\ t \notin old
    BY <1>1, <1>6 DEF QueueFreeRoll, QueueRow, MadeInv, Rows
  <2>2. \A b \in Caller : request[b].at = "submit" => request[b].roll # t
    BY <1>1, <2>1 DEF RequestInv, Rows
  <2>3. QueueRow(c, None, t, None)
    BY <1>6 DEF QueueFreeRoll
  <2>4. /\ request'[c].at = "submit" /\ request'[c].roll = t /\ request'[c].match = None
        /\ \A b \in Caller \ {c} : request'[b] = request[b]
    BY <1>1, <1>6 DEF QueueFreeRoll, QueueRow, Doing, TypeOK
  <2>5. /\ task'[t] # None /\ task'[t].match = None
        /\ task'[t].status = "queued" /\ ~task'[t].handle
        /\ \A s \in Task \ {t} : task'[s] = task[s]
    BY <1>1, <2>1, <2>3, Queued
  <2>6. UNCHANGED <<old, made>>
    BY <1>6 DEF QueueFreeRoll
  <2> QED
    BY <1>1, <2>1, <2>2, <2>4, <2>5, <2>6 DEF RequestInv, Rows
<1>7. ASSUME NEW c \in Caller, SubmitAccepted(c) PROVE RequestInv'
  BY <1>1, <1>7 DEF SubmitAccepted, Answer, Idle, Doing, TypeOK, RequestInv, AloneInv, Rows
<1>8. ASSUME NEW c \in Caller, SubmitRefused(c) PROVE RequestInv'
  BY <1>1, <1>8 DEF SubmitRefused, Answer, Idle, Doing, TypeOK, RequestInv, AloneInv, Rows
<1>9. ASSUME NEW c \in Caller, SubmitFailed(c) PROVE RequestInv'
  BY <1>1, <1>9 DEF SubmitFailed, Answer, Idle, Doing, TypeOK, RequestInv, AloneInv, Rows
<1>10. ASSUME NEW c \in Caller, DirectAnswered(c) PROVE RequestInv'
  BY <1>1, <1>10 DEF DirectAnswered, CompleteSeedRoll, Answer, Idle, Doing, TypeOK, RequestInv,
     AloneInv, Rows
<1>11. ASSUME NEW c \in Caller, DirectFailed(c) PROVE RequestInv'
  BY <1>1, <1>11 DEF DirectFailed, Answer, Idle, Doing, RequestInv, Rows
<1>12. ASSUME NEW m \in Match, ClearMatchSeed(m) PROVE RequestInv'
  BY <1>1, <1>12 DEF ClearMatchSeed, RequestInv, Rows
<1>13. ASSUME NEW t \in Task, Ages(t) PROVE RequestInv'
  BY <1>1, <1>13 DEF Ages, Submitting, RequestInv, Rows
<1>14. ASSUME NEW w \in Process, Tick(w) PROVE RequestInv'
  BY <1>1, <1>14 DEF Tick, RequestInv, Rows
<1>15. ASSUME NEW w \in Process, NEW x \in Read, Sweep(w, x) PROVE RequestInv'
  BY <1>1, <1>15 DEF Sweep, RequestInv, TickInv, Rows
<1>16. ASSUME NEW w \in Process, DueForPoll(w) PROVE RequestInv'
  BY <1>1, <1>16 DEF DueForPoll, RequestInv, Rows
<1>17. ASSUME NEW w \in Process, NEW x \in Read, PollPending(w, x) PROVE RequestInv'
  BY <1>1, <1>17 DEF PollPending, RequestInv, Rows
<1>18. ASSUME NEW w \in Process, NEW x \in Read, PollFailed(w, x) PROVE RequestInv'
  BY <1>1, <1>18 DEF PollFailed, RequestInv, TickInv, Rows
<1>19. ASSUME NEW w \in Process, NEW x \in Read, PollLanded(w, x) PROVE RequestInv'
  BY <1>1, <1>19 DEF PollLanded, TypeOK, RequestInv, TickInv, Rows
<1>20. ASSUME NEW w \in Process, Complete(w) PROVE RequestInv'
  BY <1>1, <1>20 DEF Complete, CompleteSeedRoll, TypeOK, RequestInv, TickInv, Requests, Rows
<1>21. ASSUME NEW w \in Process, CompleteRaises(w) PROVE RequestInv'
  BY <1>1, <1>21 DEF CompleteRaises, RequestInv, Rows
<1>22. ASSUME NEW w \in Process, TickEnds(w) PROVE RequestInv'
  BY <1>1, <1>22 DEF TickEnds, RequestInv, Rows
<1>23. ASSUME NEW w \in Process, Restart(w) PROVE RequestInv'
  BY <1>1, <1>23, Restarted DEF Idle, Doing, RequestInv, Rows
<1> HIDE DEF RequestInv
<1> QED
  BY <1>1, <1>2, <1>3, <1>4, <1>5, <1>6, <1>7, <1>8, <1>9, <1>10, <1>11, <1>12, <1>13, <1>14, <1>15,
     <1>16, <1>17, <1>18, <1>19, <1>20, <1>21, <1>22, <1>23, Cases

LEMMA AloneStep == IInv /\ Next => AloneInv'
<1> SUFFICES ASSUME IInv, Next PROVE AloneInv'
  OBVIOUS
<1>1. TypeOK /\ RequestInv /\ AloneInv
  BY DEF IInv
<1>2. ASSUME NEW c \in Caller, NEW m \in Match, Generate(c, m) PROVE AloneInv'
  BY <1>1, <1>2 DEF Generate, Doing, AloneInv, Locked
<1>3. ASSUME NEW c \in Caller, NEW m \in Match, NEW d \in Direct, GenerateDirect(c, m, d) PROVE AloneInv'
  BY <1>1, <1>3 DEF GenerateDirect, Doing, AloneInv, Locked
<1>4. ASSUME NEW c \in Caller, FindTask(c) PROVE AloneInv'
  BY <1>1, <1>4 DEF FindTask, Answer, Idle, Doing, TypeOK, AloneInv, Requests
<1>5. ASSUME NEW c \in Caller, NEW t \in Task, QueueRoll(c, t) PROVE AloneInv'
  <2>1. \A b \in Caller : request[b].roll # t
    BY <1>1, <1>5 DEF QueueRoll, QueueRow, RequestInv, TypeOK, Requests, Idle, Doing
  <2> QED
    BY <1>1, <1>5, <2>1 DEF QueueRoll, QueueRow, AloneInv, Doing
<1>6. ASSUME NEW c \in Caller, NEW t \in Task, QueueFreeRoll(c, t) PROVE AloneInv'
  <2>1. \A b \in Caller : request[b].roll # t
    BY <1>1, <1>6 DEF QueueFreeRoll, QueueRow, RequestInv, TypeOK, Requests, Idle, Doing
  <2> QED
    BY <1>1, <1>6, <2>1 DEF QueueFreeRoll, QueueRow, AloneInv, Doing
<1>7. ASSUME NEW c \in Caller, SubmitAccepted(c) PROVE AloneInv'
  BY <1>1, <1>7 DEF SubmitAccepted, Answer, Idle, Doing, AloneInv
<1>8. ASSUME NEW c \in Caller, SubmitRefused(c) PROVE AloneInv'
  BY <1>1, <1>8 DEF SubmitRefused, Answer, Idle, Doing, AloneInv
<1>9. ASSUME NEW c \in Caller, SubmitFailed(c) PROVE AloneInv'
  BY <1>1, <1>9 DEF SubmitFailed, Answer, Idle, Doing, AloneInv
<1>10. ASSUME NEW c \in Caller, DirectAnswered(c) PROVE AloneInv'
  BY <1>1, <1>10 DEF DirectAnswered, Answer, Idle, Doing, AloneInv
<1>11. ASSUME NEW c \in Caller, DirectFailed(c) PROVE AloneInv'
  BY <1>1, <1>11 DEF DirectFailed, Answer, Idle, Doing, AloneInv
<1>12. ASSUME NEW m \in Match, ClearMatchSeed(m) PROVE AloneInv'
  BY <1>1, <1>12 DEF ClearMatchSeed, AloneInv
<1>13. ASSUME NEW t \in Task, Ages(t) PROVE AloneInv'
  BY <1>1, <1>13 DEF Ages, AloneInv
<1>14. ASSUME NEW w \in Process, Tick(w) PROVE AloneInv'
  BY <1>1, <1>14 DEF Tick, AloneInv
<1>15. ASSUME NEW w \in Process, NEW x \in Read, Sweep(w, x) PROVE AloneInv'
  BY <1>1, <1>15 DEF Sweep, AloneInv
<1>16. ASSUME NEW w \in Process, DueForPoll(w) PROVE AloneInv'
  BY <1>1, <1>16 DEF DueForPoll, AloneInv
<1>17. ASSUME NEW w \in Process, NEW x \in Read, PollPending(w, x) PROVE AloneInv'
  BY <1>1, <1>17 DEF PollPending, AloneInv
<1>18. ASSUME NEW w \in Process, NEW x \in Read, PollFailed(w, x) PROVE AloneInv'
  BY <1>1, <1>18 DEF PollFailed, AloneInv
<1>19. ASSUME NEW w \in Process, NEW x \in Read, PollLanded(w, x) PROVE AloneInv'
  BY <1>1, <1>19 DEF PollLanded, AloneInv
<1>20. ASSUME NEW w \in Process, Complete(w) PROVE AloneInv'
  BY <1>1, <1>20 DEF Complete, AloneInv
<1>21. ASSUME NEW w \in Process, CompleteRaises(w) PROVE AloneInv'
  BY <1>1, <1>21 DEF CompleteRaises, AloneInv
<1>22. ASSUME NEW w \in Process, TickEnds(w) PROVE AloneInv'
  BY <1>1, <1>22 DEF TickEnds, AloneInv
<1>23. ASSUME NEW w \in Process, Restart(w) PROVE AloneInv'
  BY <1>1, <1>23 DEF Restart, ServedBy, Idle, Doing, AloneInv
<1> HIDE DEF AloneInv
<1> QED
  BY <1>1, <1>2, <1>3, <1>4, <1>5, <1>6, <1>7, <1>8, <1>9, <1>10, <1>11, <1>12, <1>13, <1>14, <1>15,
     <1>16, <1>17, <1>18, <1>19, <1>20, <1>21, <1>22, <1>23, Cases

LEMMA TickStep == IInv /\ Next => TickInv'
<1> SUFFICES ASSUME IInv, Next PROVE TickInv'
  OBVIOUS
<1>1. TypeOK /\ RequestInv /\ AloneInv /\ TickInv /\ MadeInv
  BY DEF IInv
<1>2. ASSUME NEW c \in Caller, NEW m \in Match, Generate(c, m) PROVE TickInv'
  BY <1>1, <1>2 DEF Generate, Doing, TickInv, Rows
<1>3. ASSUME NEW c \in Caller, NEW m \in Match, NEW d \in Direct, GenerateDirect(c, m, d) PROVE TickInv'
  BY <1>1, <1>3 DEF GenerateDirect, Doing, TickInv, Rows
<1>4. ASSUME NEW c \in Caller, FindTask(c) PROVE TickInv'
  <2>1. \A b \in Caller : request'[b].at = "submit" => request'[b] = request[b]
    BY <1>1, <1>4, Answered DEF FindTask, Idle, Doing, TypeOK, Requests
  <2>2. UNCHANGED <<task, tick, made>>
    BY <1>4 DEF FindTask
  <2> QED
    BY <1>1, <2>1, <2>2 DEF TickInv, Rows
<1>5. ASSUME NEW c \in Caller, NEW t \in Task, QueueRoll(c, t) PROVE TickInv'
  BY <1>1, <1>5 DEF QueueRoll, QueueRow, Doing, TickInv, Rows
<1>6. ASSUME NEW c \in Caller, NEW t \in Task, QueueFreeRoll(c, t) PROVE TickInv'
  BY <1>1, <1>6 DEF QueueFreeRoll, QueueRow, Doing, TickInv, Rows
<1>7. ASSUME NEW c \in Caller, SubmitAccepted(c) PROVE TickInv'
  <2>1. request[c].roll \in Task /\ task[request[c].roll].status = "queued"
    BY <1>1, <1>7 DEF SubmitAccepted, Submits, RequestInv, Rows
  <2>2. \A w \in Process : /\ tick[w].at = "complete" => tick[w].task # request[c].roll
                          /\ \A x \in tick[w].todo : x[1] # request[c].roll
    BY <1>1, <1>7, <2>1 DEF SubmitAccepted, Submits, TickInv
  <2>3. \A s \in Task \ {request[c].roll} : task'[s] = task[s]
    BY <1>1, <1>7 DEF SubmitAccepted
  <2>4. \A b \in Caller : request'[b].at = "submit" => request'[b] = request[b]
    BY <1>1, <1>7 DEF SubmitAccepted, Answer, Idle, Doing
  <2> QED
    BY <1>1, <1>7, <2>2, <2>3, <2>4 DEF SubmitAccepted, TickInv, Rows
<1>8. ASSUME NEW c \in Caller, SubmitRefused(c) PROVE TickInv'
  <2>1. request[c].roll \in Task /\ task[request[c].roll].status = "queued"
    BY <1>1, <1>8 DEF SubmitRefused, Submits, RequestInv, Rows
  <2>2. \A w \in Process : /\ tick[w].at = "complete" => tick[w].task # request[c].roll
                          /\ \A x \in tick[w].todo : x[1] # request[c].roll
    BY <1>1, <1>8, <2>1 DEF SubmitRefused, Submits, TickInv
  <2>3. \A s \in Task \ {request[c].roll} : task'[s] = task[s]
    BY <1>1, <1>8 DEF SubmitRefused
  <2>4. \A b \in Caller : request'[b].at = "submit" => request'[b] = request[b]
    BY <1>1, <1>8 DEF SubmitRefused, Answer, Idle, Doing
  <2> QED
    BY <1>1, <1>8, <2>2, <2>3, <2>4 DEF SubmitRefused, TickInv, Rows
<1>9. ASSUME NEW c \in Caller, SubmitFailed(c) PROVE TickInv'
  <2>1. request[c].roll \in Task /\ task[request[c].roll].status = "queued"
    BY <1>1, <1>9 DEF SubmitFailed, Submits, RequestInv, Rows
  <2>2. \A w \in Process : /\ tick[w].at = "complete" => tick[w].task # request[c].roll
                          /\ \A x \in tick[w].todo : x[1] # request[c].roll
    BY <1>1, <1>9, <2>1 DEF SubmitFailed, Submits, TickInv
  <2>3. \A s \in Task \ {request[c].roll} : task'[s] = task[s]
    BY <1>1, <1>9 DEF SubmitFailed
  <2>4. \A b \in Caller : request'[b].at = "submit" => request'[b] = request[b]
    BY <1>1, <1>9 DEF SubmitFailed, Answer, Idle, Doing
  <2> QED
    BY <1>1, <1>9, <2>2, <2>3, <2>4 DEF SubmitFailed, TickInv, Rows
<1>10. ASSUME NEW c \in Caller, DirectAnswered(c) PROVE TickInv'
  <2>1. request[c].roll \in Direct
    BY <1>1, <1>10 DEF DirectAnswered, Awaits, RequestInv
  <2>2. \A w \in Process : tick[w].at = "complete" => made'[tick[w].task] = made[tick[w].task]
    BY <1>1, <1>10, <2>1 DEF DirectAnswered, CompleteSeedRoll, TickInv, Rows
  <2>3. \A b \in Caller : request'[b].at = "submit" => request'[b] = request[b]
    BY <1>1, <1>10 DEF DirectAnswered, Answer, Idle, Doing
  <2> QED
    BY <1>1, <1>10, <2>2, <2>3 DEF DirectAnswered, TickInv, Rows
<1>11. ASSUME NEW c \in Caller, DirectFailed(c) PROVE TickInv'
  BY <1>1, <1>11 DEF DirectFailed, Answer, Idle, Doing, TickInv, Rows
<1>12. ASSUME NEW m \in Match, ClearMatchSeed(m) PROVE TickInv'
  BY <1>1, <1>12 DEF ClearMatchSeed, TickInv, Rows
<1>13. ASSUME NEW t \in Task, Ages(t) PROVE TickInv'
  BY <1>1, <1>13 DEF Ages, TickInv, Rows
<1>14. ASSUME NEW w \in Process, Tick(w) PROVE TickInv'
  <2> DEFINE S == ActiveTasks \cap old
  <2>1. tick'[w].todo = AsRead(S) /\ tick'[w].at # "complete"
    BY <1>1, <1>14 DEF Tick, Ticking, TypeOK
  <2>2. \A v \in Process \ {w} : tick'[v] = tick[v]
    BY <1>1, <1>14 DEF Tick
  <2>3. \A t \in S : \A c \in Caller : request[c].at = "submit" => request[c].roll # t
    BY <1>1, Submission DEF Submits
  <2>4. \A x \in AsRead(S) :
          /\ x[1] \in Rows /\ x[2].status \in Active /\ x[2].match = task[x[1]].match
          /\ \A c \in Caller : request[c].at = "submit" => request[c].roll # x[1]
    BY <2>3 DEF AsRead, ActiveTasks
  <2>5. UNCHANGED <<task, request, made>>
    BY <1>14 DEF Tick
  <2>6. \A v \in Process : tick'[v].at = "complete" => tick'[v] = tick[v]
    BY <2>1, <2>2
  <2>7. \A v \in Process : \A x \in tick'[v].todo :
          /\ x[1] \in Rows /\ x[2].status \in Active /\ x[2].match = task[x[1]].match
          /\ \A c \in Caller : request[c].at = "submit" => request[c].roll # x[1]
    <3> HIDE DEF S
    <3> QED
      BY <1>1, <2>1, <2>2, <2>4 DEF TickInv
  <2> QED
    BY <1>1, <2>5, <2>6, <2>7 DEF TickInv, Rows
<1>15. ASSUME NEW w \in Process, NEW x \in Read, Sweep(w, x) PROVE TickInv'
  <2>1. /\ Rows' = Rows /\ \A t \in Rows : task'[t].match = task[t].match
        /\ \A t \in Rows : task'[t] # task[t] => t \in ActiveTasks
    BY <1>1, <1>15, Claimed DEF Sweep, Terminal
  <2>2. /\ tick'[w].todo \subseteq tick[w].todo /\ tick'[w].at = "sweep"
        /\ \A v \in Process \ {w} : tick'[v] = tick[v]
    BY <1>1, <1>15 DEF Sweep, GoOn, Rest, Ticking
  <2>3. UNCHANGED <<request, made>>
    BY <1>15 DEF Sweep
  <2> QED
    BY <1>1, <2>1, <2>2, <2>3 DEF TickInv, ActiveTasks, Active
<1>16. ASSUME NEW w \in Process, DueForPoll(w) PROVE TickInv'
  <2> DEFINE S == {t \in ActiveTasks : task[t].handle}
  <2>1. tick'[w].todo = AsRead(S) /\ tick'[w].at # "complete"
    BY <1>1, <1>16 DEF DueForPoll, Ticking, TypeOK
  <2>2. \A v \in Process \ {w} : tick'[v] = tick[v]
    BY <1>1, <1>16 DEF DueForPoll
  <2>3. \A t \in S : \A c \in Caller : request[c].at = "submit" => request[c].roll # t
    BY <1>1 DEF RequestInv
  <2>4. \A x \in AsRead(S) :
          /\ x[1] \in Rows /\ x[2].status \in Active /\ x[2].match = task[x[1]].match
          /\ \A c \in Caller : request[c].at = "submit" => request[c].roll # x[1]
    BY <2>3 DEF AsRead, ActiveTasks
  <2>5. UNCHANGED <<task, request, made>>
    BY <1>16 DEF DueForPoll
  <2>6. \A v \in Process : tick'[v].at = "complete" => tick'[v] = tick[v]
    BY <2>1, <2>2
  <2>7. \A v \in Process : \A x \in tick'[v].todo :
          /\ x[1] \in Rows /\ x[2].status \in Active /\ x[2].match = task[x[1]].match
          /\ \A c \in Caller : request[c].at = "submit" => request[c].roll # x[1]
    <3> HIDE DEF S
    <3> QED
      BY <1>1, <2>1, <2>2, <2>4 DEF TickInv
  <2> QED
    BY <1>1, <2>5, <2>6, <2>7 DEF TickInv, Rows
<1>17. ASSUME NEW w \in Process, NEW x \in Read, PollPending(w, x) PROVE TickInv'
  BY <1>1, <1>17 DEF PollPending, GoOn, Rest, Ticking, TickInv, Rows
<1>18. ASSUME NEW w \in Process, NEW x \in Read, PollFailed(w, x) PROVE TickInv'
  <2>1. /\ Rows' = Rows
        /\ \A t \in Rows : task'[t].match = task[t].match
        /\ \A t \in Rows : task'[t] # task[t] => t \in ActiveTasks
    BY <1>1, <1>18, Claimed DEF PollFailed, Terminal
  <2>2. \A v \in Process : /\ tick'[v].todo \subseteq tick[v].todo
                           /\ tick'[v].at = "complete" => tick'[v] = tick[v]
    BY <1>1, <1>18, WentOn DEF PollFailed
  <2>3. UNCHANGED <<request, made>>
    BY <1>18 DEF PollFailed
  <2>4. \A v \in Process : tick[v].at = "complete" => task'[tick[v].task] = task[tick[v].task]
    BY <1>1, <2>1 DEF TickInv, ActiveTasks, Active
  <2>5. ASSUME NEW v \in Process, tick'[v].at = "complete"
        PROVE  /\ tick[v].at = "complete" /\ tick'[v].task = tick[v].task
               /\ tick[v].task \in Rows' /\ task'[tick[v].task].status = "succeeded"
               /\ made'[tick[v].task] = 0
    BY <1>1, <2>1, <2>2, <2>3, <2>4, <2>5 DEF TickInv
  <2>6. ASSUME NEW v \in Process, NEW y \in tick'[v].todo
        PROVE  /\ y[1] \in Rows' /\ y[2].status \in Active /\ y[2].match = task'[y[1]].match
               /\ \A c \in Caller : request'[c].at = "submit" => request'[c].roll # y[1]
    <3>1. y \in tick[v].todo
      BY <2>2, <2>6
    <3>2. /\ y[1] \in Rows /\ y[2].status \in Active /\ y[2].match = task[y[1]].match
          /\ \A c \in Caller : request[c].at = "submit" => request[c].roll # y[1]
      BY <1>1, <3>1 DEF TickInv
    <3> QED
      BY <2>1, <2>3, <3>2
  <2>7. \A v, u \in Process : u # v /\ tick'[u].at = "complete" /\ tick'[v].at = "complete" =>
          tick'[u].task # tick'[v].task
    BY <1>1, <2>5 DEF TickInv
  <2> QED
    BY <2>5, <2>6, <2>7 DEF TickInv
<1>19. ASSUME NEW w \in Process, NEW x \in Read, PollLanded(w, x) PROVE TickInv'
  <2>1. /\ x[1] \in Rows /\ Rows' = Rows
        /\ \A t \in Rows : task'[t].match = task[t].match
        /\ \A t \in Rows : task'[t] # task[t] => t \in ActiveTasks
        /\ Claims(x[1], x[2]) => x[1] \in ActiveTasks /\ task'[x[1]].status = "succeeded"
    BY <1>1, <1>19, Claimed DEF PollLanded, Terminal
  <2>2. \A v \in Process \ {w} : tick'[v] = tick[v]
    BY <1>1, <1>19 DEF PollLanded, GoOn, TypeOK
  <2>3. /\ tick'[w].todo \subseteq tick[w].todo
        /\ tick'[w].at = "complete" => Claims(x[1], x[2]) /\ tick'[w].task = x[1]
    BY <1>1, <1>19 DEF PollLanded, GoOn, Rest, Ticking, TypeOK
  <2>4. \A t \in ActiveTasks : made[t] = 0
    BY <1>1 DEF MadeInv, TypeOK, Roll, Rows, ActiveTasks, Active
  <2>5. UNCHANGED <<request, made>>
    BY <1>19 DEF PollLanded
  <2> QED
    BY <1>1, <2>1, <2>2, <2>3, <2>4, <2>5 DEF TickInv, ActiveTasks, Active
<1>20. ASSUME NEW w \in Process, Complete(w) PROVE TickInv'
  BY <1>1, <1>20 DEF Complete, CompleteSeedRoll, Completed, Ticking, TypeOK, TickInv, Roll, Rows
<1>21. ASSUME NEW w \in Process, CompleteRaises(w) PROVE TickInv'
  BY <1>1, <1>21 DEF CompleteRaises, Completed, Ticking, TickInv, Rows
<1>22. ASSUME NEW w \in Process, TickEnds(w) PROVE TickInv'
  BY <1>1, <1>22 DEF TickEnds, Waiting, Ticking, TickInv, Rows
<1>23. ASSUME NEW w \in Process, Restart(w) PROVE TickInv'
  BY <1>1, <1>23, Restarted DEF Waiting, Ticking, Idle, Doing, TickInv, Rows
<1> HIDE DEF TickInv
<1> QED
  BY <1>1, <1>2, <1>3, <1>4, <1>5, <1>6, <1>7, <1>8, <1>9, <1>10, <1>11, <1>12, <1>13, <1>14, <1>15,
     <1>16, <1>17, <1>18, <1>19, <1>20, <1>21, <1>22, <1>23, Cases

LEMMA MadeStep == IInv /\ Next => MadeInv'
<1> SUFFICES ASSUME IInv, Next PROVE MadeInv'
  OBVIOUS
<1>1. TypeOK /\ RequestInv /\ TickInv /\ MadeInv
  BY DEF IInv
<1>2. ASSUME NEW c \in Caller, NEW m \in Match, Generate(c, m) PROVE MadeInv'
  BY <1>1, <1>2 DEF Generate, MadeInv, Rows
<1>3. ASSUME NEW c \in Caller, NEW m \in Match, NEW d \in Direct, GenerateDirect(c, m, d) PROVE MadeInv'
  BY <1>1, <1>3 DEF GenerateDirect, MadeInv, Rows
<1>4. ASSUME NEW c \in Caller, FindTask(c) PROVE MadeInv'
  BY <1>1, <1>4 DEF FindTask, MadeInv, Rows
<1>5. ASSUME NEW c \in Caller, NEW t \in Task, QueueRoll(c, t) PROVE MadeInv'
  BY <1>1, <1>5 DEF QueueRoll, QueueRow, MadeInv, Rows
<1>6. ASSUME NEW c \in Caller, NEW t \in Task, QueueFreeRoll(c, t) PROVE MadeInv'
  BY <1>1, <1>6 DEF QueueFreeRoll, QueueRow, MadeInv, Rows
<1>7. ASSUME NEW c \in Caller, SubmitAccepted(c) PROVE MadeInv'
  <2>1. /\ request[c].roll \in Task \ old
        /\ task[request[c].roll].status = "queued"
    BY <1>1, <1>7 DEF SubmitAccepted, Submits, RequestInv, Rows
  <2>2. made[request[c].roll] # 1
    BY <1>1, <2>1 DEF MadeInv
  <2>3. \A s \in Task \ {request[c].roll} : task'[s] = task[s]
    BY <1>1, <1>7 DEF SubmitAccepted
  <2> QED
    BY <1>1, <1>7, <2>1, <2>2, <2>3 DEF SubmitAccepted, MadeInv, Rows
<1>8. ASSUME NEW c \in Caller, SubmitRefused(c) PROVE MadeInv'
  <2>1. /\ request[c].roll \in Task \ old
        /\ task[request[c].roll].status = "queued"
    BY <1>1, <1>8 DEF SubmitRefused, Submits, RequestInv, Rows
  <2>2. made[request[c].roll] # 1
    BY <1>1, <2>1 DEF MadeInv
  <2>3. \A s \in Task \ {request[c].roll} : task'[s] = task[s]
    BY <1>1, <1>8 DEF SubmitRefused
  <2> QED
    BY <1>1, <1>8, <2>1, <2>2, <2>3 DEF SubmitRefused, MadeInv, Rows
<1>9. ASSUME NEW c \in Caller, SubmitFailed(c) PROVE MadeInv'
  <2>1. /\ request[c].roll \in Task \ old
        /\ task[request[c].roll].status = "queued"
    BY <1>1, <1>9 DEF SubmitFailed, Submits, RequestInv, Rows
  <2>2. made[request[c].roll] # 1
    BY <1>1, <2>1 DEF MadeInv
  <2>3. \A s \in Task \ {request[c].roll} : task'[s] = task[s]
    BY <1>1, <1>9 DEF SubmitFailed
  <2> QED
    BY <1>1, <1>9, <2>1, <2>2, <2>3 DEF SubmitFailed, MadeInv, Rows
<1>10. ASSUME NEW c \in Caller, DirectAnswered(c) PROVE MadeInv'
  <2>1. request[c].roll \in Roll \ Task /\ made[request[c].roll] = 0
    BY <1>1, <1>10 DEF DirectAnswered, Awaits, RequestInv, Roll
  <2> QED
    BY <1>1, <1>10, <2>1 DEF DirectAnswered, CompleteSeedRoll, MadeInv, Rows
<1>11. ASSUME NEW c \in Caller, DirectFailed(c) PROVE MadeInv'
  BY <1>1, <1>11 DEF DirectFailed, MadeInv, Rows
<1>12. ASSUME NEW m \in Match, ClearMatchSeed(m) PROVE MadeInv'
  BY <1>1, <1>12 DEF ClearMatchSeed, MadeInv, Rows
<1>13. ASSUME NEW t \in Task, Ages(t) PROVE MadeInv'
  BY <1>1, <1>13 DEF Ages, ActiveTasks, MadeInv, Rows
<1>14. ASSUME NEW w \in Process, Tick(w) PROVE MadeInv'
  BY <1>1, <1>14 DEF Tick, MadeInv, Rows
<1>15. ASSUME NEW w \in Process, NEW x \in Read, Sweep(w, x) PROVE MadeInv'
  <2>1. /\ Rows' = Rows /\ \A t \in Rows : task'[t].match = task[t].match
        /\ \A t \in Rows : task'[t] # task[t] => t \in ActiveTasks
    BY <1>1, <1>15, Claimed DEF Sweep, Terminal
  <2>2. UNCHANGED <<old, made>>
    BY <1>15 DEF Sweep
  <2> QED
    BY <1>1, <2>1, <2>2 DEF MadeInv, ActiveTasks, Active
<1>16. ASSUME NEW w \in Process, DueForPoll(w) PROVE MadeInv'
  BY <1>1, <1>16 DEF DueForPoll, MadeInv, Rows
<1>17. ASSUME NEW w \in Process, NEW x \in Read, PollPending(w, x) PROVE MadeInv'
  BY <1>1, <1>17 DEF PollPending, MadeInv, Rows
<1>18. ASSUME NEW w \in Process, NEW x \in Read, PollFailed(w, x) PROVE MadeInv'
  <2>1. /\ Rows' = Rows /\ \A t \in Rows : task'[t].match = task[t].match
        /\ \A t \in Rows : task'[t] # task[t] => t \in ActiveTasks
    BY <1>1, <1>18, Claimed DEF PollFailed, Terminal
  <2>2. UNCHANGED <<old, made>>
    BY <1>18 DEF PollFailed
  <2> QED
    BY <1>1, <2>1, <2>2 DEF MadeInv, ActiveTasks, Active
<1>19. ASSUME NEW w \in Process, NEW x \in Read, PollLanded(w, x) PROVE MadeInv'
  <2>1. /\ Rows' = Rows /\ \A t \in Rows : task'[t].match = task[t].match
        /\ \A t \in Rows : task'[t] # task[t] => t \in ActiveTasks
    BY <1>1, <1>19, Claimed DEF PollLanded, Terminal
  <2>2. UNCHANGED <<old, made>>
    BY <1>19 DEF PollLanded
  <2> QED
    BY <1>1, <2>1, <2>2 DEF MadeInv, ActiveTasks, Active
<1>20. ASSUME NEW w \in Process, Complete(w) PROVE MadeInv'
  <2>1. /\ tick[w].task \in Rows /\ task[tick[w].task].status = "succeeded"
        /\ made[tick[w].task] = 0
    BY <1>1, <1>20 DEF Complete, TickInv
  <2>2. made' = made \/ made' = [made EXCEPT ![tick[w].task] = made[tick[w].task] + 1]
    BY <1>20 DEF Complete, CompleteSeedRoll
  <2>3. UNCHANGED <<old, task>>
    BY <1>20 DEF Complete
  <2> QED
    BY <1>1, <2>1, <2>2, <2>3 DEF MadeInv, TypeOK, Roll, Rows
<1>21. ASSUME NEW w \in Process, CompleteRaises(w) PROVE MadeInv'
  BY <1>1, <1>21 DEF CompleteRaises, MadeInv, Rows
<1>22. ASSUME NEW w \in Process, TickEnds(w) PROVE MadeInv'
  BY <1>1, <1>22 DEF TickEnds, MadeInv, Rows
<1>23. ASSUME NEW w \in Process, Restart(w) PROVE MadeInv'
  BY <1>1, <1>23 DEF Restart, ServedBy, MadeInv, Rows
<1> HIDE DEF MadeInv
<1> QED
  BY <1>1, <1>2, <1>3, <1>4, <1>5, <1>6, <1>7, <1>8, <1>9, <1>10, <1>11, <1>12, <1>13, <1>14, <1>15,
     <1>16, <1>17, <1>18, <1>19, <1>20, <1>21, <1>22, <1>23, Cases

LEMMA QueueStep == IInv /\ Next => QueueInv'
<1> SUFFICES ASSUME IInv, Next PROVE QueueInv'
  OBVIOUS
<1>1. TypeOK /\ RequestInv /\ AloneInv /\ TickInv /\ QueueInv
  BY DEF IInv
<1>2. ASSUME NEW c \in Caller, NEW m \in Match, Generate(c, m) PROVE QueueInv'
  BY <1>1, <1>2 DEF Generate, Doing, QueueInv, ActiveTasks, ActiveFor, Rows
<1>3. ASSUME NEW c \in Caller, NEW m \in Match, NEW d \in Direct, GenerateDirect(c, m, d) PROVE QueueInv'
  BY <1>1, <1>3 DEF GenerateDirect, Doing, QueueInv, ActiveTasks, ActiveFor, Rows
<1>4. ASSUME NEW c \in Caller, FindTask(c) PROVE QueueInv'
  BY <1>1, <1>4 DEF FindTask, Answer, Idle, Doing, TypeOK, QueueInv, ActiveTasks, ActiveFor,
     Requests, Rows
<1>5. ASSUME NEW c \in Caller, NEW t \in Task, QueueRoll(c, t) PROVE QueueInv'
  BY <1>1, <1>5 DEF QueueRoll, QueueRow, Doing, TypeOK, RequestInv, AloneInv, QueueInv,
     ActiveTasks, ActiveFor, Rows
<1>6. ASSUME NEW c \in Caller, NEW t \in Task, QueueFreeRoll(c, t) PROVE QueueInv'
  BY <1>1, <1>6 DEF QueueFreeRoll, QueueRow, Doing, RequestInv, QueueInv, ActiveTasks, ActiveFor,
     Rows
<1>7. ASSUME NEW c \in Caller, SubmitAccepted(c) PROVE QueueInv'
  <2>1. /\ request[c].roll \in ActiveTasks
        /\ task[request[c].roll].match = request[c].match
    BY <1>1, <1>7, Submission DEF SubmitAccepted
  <2> DEFINE Row == [match |-> request[c].match, status |-> "running", handle |-> TRUE,
                     by |-> task[request[c].roll].by]
  <2>5. Row \in TaskRow
    BY <1>1, <2>1 DEF TypeOK, Requests, TaskRow, Status, Active, ActiveTasks, Rows
  <2>2. /\ task'[request[c].roll] # None /\ task'[request[c].roll].match = request[c].match
        /\ task'[request[c].roll].status = "running"
        /\ task'[request[c].roll].by = task[request[c].roll].by
        /\ \A s \in Task \ {request[c].roll} : task'[s] = task[s]
    BY <1>1, <1>7, <2>1, <2>5 DEF SubmitAccepted, TypeOK, ActiveTasks, Rows
  <2>3. /\ ActiveTasks' \subseteq ActiveTasks
        /\ \A s \in ActiveTasks : task'[s].match = task[s].match /\ task'[s].by = task[s].by
    BY <2>1, <2>2 DEF ActiveTasks, Rows
  <2>4. \A b \in Caller : request'[b].at = "queue" => request'[b] = request[b]
    BY <1>1, <1>7, Answered DEF SubmitAccepted, Idle, Doing
  <2> QED
    BY <1>1, <2>3, <2>4 DEF QueueInv, ActiveFor
<1>8. ASSUME NEW c \in Caller, SubmitRefused(c) PROVE QueueInv'
  BY <1>1, <1>8 DEF SubmitRefused, Answer, Idle, Doing, QueueInv, ActiveTasks, ActiveFor, Rows
<1>9. ASSUME NEW c \in Caller, SubmitFailed(c) PROVE QueueInv'
  BY <1>1, <1>9 DEF SubmitFailed, Answer, Idle, Doing, QueueInv, ActiveTasks, ActiveFor, Active,
     Rows
<1>10. ASSUME NEW c \in Caller, DirectAnswered(c) PROVE QueueInv'
  BY <1>1, <1>10 DEF DirectAnswered, Answer, Idle, Doing, QueueInv, ActiveTasks, ActiveFor, Rows
<1>11. ASSUME NEW c \in Caller, DirectFailed(c) PROVE QueueInv'
  BY <1>1, <1>11 DEF DirectFailed, Answer, Idle, Doing, QueueInv, ActiveTasks, ActiveFor, Rows
<1>12. ASSUME NEW m \in Match, ClearMatchSeed(m) PROVE QueueInv'
  BY <1>1, <1>12 DEF ClearMatchSeed, QueueInv, ActiveTasks, ActiveFor, Rows
<1>13. ASSUME NEW t \in Task, Ages(t) PROVE QueueInv'
  BY <1>1, <1>13 DEF Ages, ActiveTasks, QueueInv, ActiveFor, Rows
<1>14. ASSUME NEW w \in Process, Tick(w) PROVE QueueInv'
  BY <1>1, <1>14 DEF Tick, QueueInv, ActiveTasks, ActiveFor, Rows
<1>15. ASSUME NEW w \in Process, NEW x \in Read, Sweep(w, x) PROVE QueueInv'
  <2>1. /\ ActiveTasks' \subseteq ActiveTasks
        /\ \A t \in Rows : task'[t].match = task[t].match /\ task'[t].by = task[t].by
    BY <1>1, <1>15, Claimed DEF Sweep, Terminal
  <2>2. UNCHANGED request
    BY <1>15 DEF Sweep
  <2> QED
    BY <1>1, <2>1, <2>2 DEF QueueInv, ActiveFor, ActiveTasks
<1>16. ASSUME NEW w \in Process, DueForPoll(w) PROVE QueueInv'
  BY <1>1, <1>16 DEF DueForPoll, QueueInv, ActiveTasks, ActiveFor, Rows
<1>17. ASSUME NEW w \in Process, NEW x \in Read, PollPending(w, x) PROVE QueueInv'
  BY <1>1, <1>17 DEF PollPending, QueueInv, ActiveTasks, ActiveFor, Rows
<1>18. ASSUME NEW w \in Process, NEW x \in Read, PollFailed(w, x) PROVE QueueInv'
  <2>1. /\ ActiveTasks' \subseteq ActiveTasks
        /\ \A t \in Rows : task'[t].match = task[t].match /\ task'[t].by = task[t].by
    BY <1>1, <1>18, Claimed DEF PollFailed, Terminal
  <2>2. UNCHANGED request
    BY <1>18 DEF PollFailed
  <2> QED
    BY <1>1, <2>1, <2>2 DEF QueueInv, ActiveFor, ActiveTasks
<1>19. ASSUME NEW w \in Process, NEW x \in Read, PollLanded(w, x) PROVE QueueInv'
  <2>1. /\ ActiveTasks' \subseteq ActiveTasks
        /\ \A t \in Rows : task'[t].match = task[t].match /\ task'[t].by = task[t].by
    BY <1>1, <1>19, Claimed DEF PollLanded, Terminal
  <2>2. UNCHANGED request
    BY <1>19 DEF PollLanded
  <2> QED
    BY <1>1, <2>1, <2>2 DEF QueueInv, ActiveFor, ActiveTasks
<1>20. ASSUME NEW w \in Process, Complete(w) PROVE QueueInv'
  BY <1>1, <1>20 DEF Complete, QueueInv, ActiveTasks, ActiveFor, Rows
<1>21. ASSUME NEW w \in Process, CompleteRaises(w) PROVE QueueInv'
  BY <1>1, <1>21 DEF CompleteRaises, QueueInv, ActiveTasks, ActiveFor, Rows
<1>22. ASSUME NEW w \in Process, TickEnds(w) PROVE QueueInv'
  BY <1>1, <1>22 DEF TickEnds, QueueInv, ActiveTasks, ActiveFor, Rows
<1>23. ASSUME NEW w \in Process, Restart(w) PROVE QueueInv'
  BY <1>1, <1>23, Restarted DEF Idle, Doing, QueueInv, ActiveFor, ActiveTasks, Rows
<1> HIDE DEF QueueInv
<1> QED
  BY <1>1, <1>2, <1>3, <1>4, <1>5, <1>6, <1>7, <1>8, <1>9, <1>10, <1>11, <1>12, <1>13, <1>14, <1>15,
     <1>16, <1>17, <1>18, <1>19, <1>20, <1>21, <1>22, <1>23, Cases

(* The claims hold in every reachable state. *)
LEMMA Invariant == Spec => []IInv
<1>1. IInv /\ [Next]_vars => IInv'
  <2> SUFFICES ASSUME IInv, [Next]_vars PROVE IInv'
    OBVIOUS
  <2>1. CASE Next
    BY <2>1, TypeStep, RequestStep, AloneStep, TickStep, MadeStep, QueueStep DEF IInv
  <2>2. CASE UNCHANGED vars
    BY <2>2 DEF vars, IInv, TypeOK, RequestInv, AloneInv, TickInv, MadeInv, QueueInv, Rows,
       ActiveTasks, ActiveFor
  <2> QED
    BY <2>1, <2>2
<1> QED
  BY <1>1, InitInv, PTL DEF Spec

(* Every variable keeps its type, whatever restarts and answers do. *)
THEOREM TypeCorrect == Spec => []TypeOK
<1>1. IInv => TypeOK
  BY DEF IInv
<1> QED
  BY <1>1, Invariant, PTL

(* No roll is recorded twice: with any number of workers polling the same  *)
(* tasks, and any number of restarts, seed_roll_worker completes a landed  *)
(* task at most once.                                                      *)
THEOREM OnceOnly == Spec => []CompletedOnce
<1>1. IInv => CompletedOnce
  BY DEF IInv, MadeInv, CompletedOnce
<1> QED
  BY <1>1, Invariant, PTL

(* A process never queues a match while its own earlier task of that match *)
(* is unfinished, for any number of processes, requests and restarts: the  *)
(* lock of a process reaches its requests only, so nothing keeps two       *)
(* processes apart, and within one the look for the match's task, under    *)
(* the lock, is enough whichever worker moves the task.                    *)
THEOREM OneEach == Spec => []OneRollPerProcess
<1>1. IInv => OneRollPerProcess
  <2> SUFFICES ASSUME IInv, NEW s \in ActiveTasks, NEW t \in ActiveTasks, s # t,
                      task[s].match = task[t].match, task[s].match # None
               PROVE  task[s].by # task[t].by
    BY DEF OneRollPerProcess
  <2>1. TypeOK /\ QueueInv
    BY DEF IInv
  <2>2. task[s].match \in Match
    BY <2>1 DEF TypeOK, ActiveTasks, Rows, TaskRow
  <2> QED
    BY <2>1, <2>2 DEF QueueInv
<1> QED
  BY <1>1, Invariant, PTL

(* A task that ended never changes: neither a late answer to its submit,   *)
(* nor a sweep or a poll that read it while it ran, moves it again.        *)
THEOREM TerminalForGood == Spec => TerminalStays
<1> DEFINE Stays == \A t \in Rows : task[t].status \in Terminal => task'[t] = task[t]
<1>1. IInv /\ [Next]_vars => Stays
  <2> SUFFICES ASSUME IInv, [Next]_vars,
                      NEW t \in Rows, task[t].status \in Terminal, task'[t] # task[t]
               PROVE FALSE
    OBVIOUS
  <2>1. TypeOK /\ RequestInv /\ TickInv /\ t \in Task \ ActiveTasks
    BY DEF IInv, Rows, ActiveTasks, Active, Terminal
  <2>2. \A c \in Caller : Submits(c) => request[c].roll # t
    BY <2>1, Submission
  <2>3. ASSUME NEW w \in Process, NEW x \in tick[w].todo, NEW s \in Terminal,
               task' = IF Claims(x[1], x[2]) THEN [task EXCEPT ![x[1]].status = s] ELSE task
        PROVE FALSE
    BY <2>1, <2>3, Claimed
  <2>4. task' # task
    OBVIOUS
  <2>5. TypeOK /\ Next
    BY <2>1, <2>4 DEF vars
  <2>6. \A c \in Caller, s \in Task : ~QueueRoll(c, s) /\ ~QueueFreeRoll(c, s)
    BY <2>1 DEF QueueRoll, QueueFreeRoll, QueueRow, TypeOK
  <2>7. \A c \in Caller : ~SubmitAccepted(c) /\ ~SubmitRefused(c) /\ ~SubmitFailed(c)
    BY <2>1, <2>2 DEF SubmitAccepted, SubmitRefused, SubmitFailed, TypeOK
  <2>8. \A w \in Process, x \in Read : ~Sweep(w, x) /\ ~PollFailed(w, x) /\ ~PollLanded(w, x)
    BY <2>3 DEF Sweep, PollFailed, PollLanded, Terminal
  <2>9. /\ \A c \in Caller, m \in Match, d \in Direct : ~Generate(c, m) /\ ~GenerateDirect(c, m, d)
        /\ \A c \in Caller : ~FindTask(c) /\ ~DirectAnswered(c) /\ ~DirectFailed(c)
        /\ \A m \in Match : ~ClearMatchSeed(m)
        /\ \A s \in Task : ~Ages(s)
    BY <2>4 DEF Generate, GenerateDirect, FindTask, DirectAnswered, DirectFailed, ClearMatchSeed,
       Ages
  <2>10. /\ \A w \in Process : /\ ~Tick(w) /\ ~DueForPoll(w) /\ ~Complete(w)
                               /\ ~CompleteRaises(w) /\ ~TickEnds(w)
         /\ \A w \in Process, x \in Read : ~PollPending(w, x)
         /\ \A w \in Process : ~Restart(w)
    BY <2>4 DEF Tick, DueForPoll, Complete, CompleteRaises, TickEnds, PollPending, Restart
  <2>11. \A c \in Caller, m \in Match : ~Generate(c, m)
    BY <2>4 DEF Generate
  <2> QED
    BY <2>5, <2>6, <2>7, <2>8, <2>9, <2>10, <2>11, Cases
<1> QED
  BY <1>1, Invariant, PTL DEF Spec, TerminalStays
=============================================================================

------------------------------- MODULE SeedRoll -------------------------------
(***************************************************************************)
(* Rolling a match's seed (match_schedule_service.generate_seed,           *)
(* seed_roll_service, provider_task_service, seed_roll_worker).            *)
(*                                                                         *)
(* A direct randomizer answers within the request.  A queueing one is      *)
(* tracked by a ProviderTask row: the request queues it, submits it and    *)
(* returns; the worker's tick abandons the old tasks and polls the others, *)
(* and the one that claims a landed task records its seed on the match.    *)
(* Two processes run while a deploy overlaps, each with its requests, its  *)
(* worker and its own locks.  A restart of one loses what it was doing,    *)
(* never a row.                                                            *)
(***************************************************************************)
EXTENDS Integers, FiniteSets

CONSTANTS
  Match,     \* the matches
  Task,      \* bound: ids of the ProviderTasks that may exist
  Direct,    \* bound: ids of the rolls answered within their request
  Caller,    \* requests that may be in flight at the same time
  Process,   \* the processes at work: two while a deploy overlaps
  Home,      \* the process that serves each request
  None,      \* NULL
  MaxFaults  \* bound: restarts and completions that raise

ASSUME FaultAssumption == MaxFaults \in Nat
ASSUME HomeAssumption == Home \in [Caller -> Process]
ASSUME RollAssumption ==
  /\ Task \cap Direct = {} /\ None \notin Task \cup Direct \cup Match
  /\ IsFiniteSet(Task)

VARIABLES
  task,     \* ProviderTask rows
  old,      \* tasks older than TASK_MAX_AGE
  seed,     \* Match.generated_seed, named by the roll it came from
  made,     \* GeneratedSeeds rows made from each roll (ghost)
  request,  \* what each request in flight is doing
  tick,     \* what each process's tick is doing
  faults    \* restarts and failed completions so far (bound)

vars == <<task, old, seed, made, request, tick, faults>>

Active == {"queued", "running"}
Terminal == {"succeeded", "failed", "abandoned"}
Status == Active \cup Terminal

(* by: the process that queued it for its match (ghost). *)
TaskRow == [match : Match \cup {None}, status : Status, handle : BOOLEAN,
            by : Process \cup {None}]
ASSUME RowAssumption == None \notin TaskRow

Roll == Task \cup Direct

Rows == {t \in Task : task[t] # None}
ActiveTasks == {t \in Rows : task[t].status \in Active}

(* active_for_match *)
ActiveFor(m) == {t \in ActiveTasks : task[t].match = m}

(* roll: the task being submitted, or the direct roll awaited. *)
Requests == [at : {"idle", "check", "queue", "submit", "await"}, match : Match \cup {None},
             roll : Roll \cup {None}]
Doing(at, m, x) == [at |-> at, match |-> m, roll |-> x]
Idle == Doing("idle", None, None)

(* todo: rows as the tick read them.  task: the claimed task it completes. *)
Read == Task \X TaskRow
Ticks == [at : {"idle", "sweep", "poll", "complete"}, todo : SUBSET Read,
          task : Task \cup {None}]
Ticking(at, todo, t) == [at |-> at, todo |-> todo, task |-> t]
Waiting == Ticking("idle", {}, None)

Submitting == {t \in Task : \E c \in Caller : request[c].at = "submit" /\ request[c].roll = t}
Answer(c) == request' = [request EXCEPT ![c] = Idle]

(* Mutant: the claim does not compare. *)
ClaimsAlways(t, row) == task[t] # None

(* claim: the row moves only if it still has the status that was read. *)
Claims(t, row) == task[t] # None /\ task[t].status = row.status

-----------------------------------------------------------------------------
(* Requests.  The lock of a match (_seed_locks) is held to the answer, and *)
(* seen by the requests of the same process only.                          *)

Locked(c, m) == \E b \in Caller : Home[b] = Home[c] /\ request[b].match = m

(* Room for every roll in flight to get an id (bound). *)
TaskToSpare ==
  Cardinality({c \in Caller : request[c].at \in {"check", "queue"}}) < Cardinality(Task \ Rows)

(* The match is loaded and has no seed; its randomizer queues. *)
Generate(c, m) ==
  /\ request[c] = Idle /\ ~Locked(c, m)
  /\ seed[m] = None
  /\ TaskToSpare
  /\ request' = [request EXCEPT ![c] = Doing("check", m, None)]
  /\ UNCHANGED <<task, old, seed, made, tick, faults>>

(* The same, with a randomizer that answers directly. *)
GenerateDirect(c, m, d) ==
  /\ request[c] = Idle /\ ~Locked(c, m)
  /\ seed[m] = None
  /\ made[d] = 0 /\ \A b \in Caller : request[b].roll # d
  /\ request' = [request EXCEPT ![c] = Doing("await", m, d)]
  /\ UNCHANGED <<task, old, seed, made, tick, faults>>

QueueRow(c, m, t, w) ==
  /\ t \in Task \ Rows
  /\ task' = [task EXCEPT ![t] =
       [match |-> m, status |-> "queued", handle |-> FALSE, by |-> w]]
  /\ request' = [request EXCEPT ![c] = Doing("submit", m, t)]

(* Mutant: the match's unfinished task is not looked for. *)
FindNothing(c) ==
  /\ request[c].at = "check"
  /\ request' = [request EXCEPT ![c].at = "queue"]
  /\ UNCHANGED <<task, old, seed, made, tick, faults>>

(* _queue_async_seed looks for the match's task, and then queues one. *)
FindTask(c) ==
  /\ request[c].at = "check"
  /\ IF ActiveFor(request[c].match) # {} THEN Answer(c)
     ELSE request' = [request EXCEPT ![c].at = "queue"]
  /\ UNCHANGED <<task, old, seed, made, tick, faults>>

QueueRoll(c, t) ==
  /\ request[c].at = "queue"
  /\ QueueRow(c, request[c].match, t, Home[c])
  /\ UNCHANGED <<old, seed, made, tick, faults>>

(* A bare roll over REST has no match, no lock and no check. *)
QueueFreeRoll(c, t) ==
  /\ request[c] = Idle
  /\ TaskToSpare
  /\ QueueRow(c, None, t, None)
  /\ UNCHANGED <<old, seed, made, tick, faults>>

Submits(c) == request[c].at = "submit"

(* mark_submitted: the whole row is saved. *)
SubmitAccepted(c) ==
  /\ Submits(c)
  /\ task' = [task EXCEPT ![request[c].roll] =
       [match |-> request[c].match, status |-> "running", handle |-> TRUE, by |-> @.by]]
  /\ Answer(c)
  /\ UNCHANGED <<old, seed, made, tick, faults>>

(* A misconfiguration leaves no row behind. *)
SubmitRefused(c) ==
  /\ Submits(c)
  /\ task' = [task EXCEPT ![request[c].roll] = None]
  /\ Answer(c)
  /\ UNCHANGED <<old, seed, made, tick, faults>>

SubmitFailed(c) ==
  /\ Submits(c)
  /\ task' = [task EXCEPT ![request[c].roll].status = "failed"]
  /\ Answer(c)
  /\ UNCHANGED <<old, seed, made, tick, faults>>

(* complete_seed_roll: the seed is recorded, whatever the match has now. *)
CompleteSeedRoll(m, x) ==
  /\ made' = [made EXCEPT ![x] = @ + 1]
  /\ seed' = [seed EXCEPT ![m] = x]

Awaits(c) == request[c].at = "await"

DirectAnswered(c) ==
  /\ Awaits(c)
  /\ CompleteSeedRoll(request[c].match, request[c].roll)
  /\ Answer(c)
  /\ UNCHANGED <<task, old, tick, faults>>

DirectFailed(c) ==
  /\ Awaits(c)
  /\ Answer(c)
  /\ UNCHANGED <<task, old, seed, made, tick, faults>>

(* clear_match_seed *)
ClearMatchSeed(m) ==
  /\ seed[m] # None
  /\ seed' = [seed EXCEPT ![m] = None]
  /\ UNCHANGED <<task, old, made, request, tick, faults>>

-----------------------------------------------------------------------------
(* A process's worker.                                                     *)

(* A submit's provider calls end well before TASK_MAX_AGE. *)
Ages(t) ==
  /\ t \in ActiveTasks \ (old \cup Submitting)
  /\ old' = old \cup {t}
  /\ UNCHANGED <<task, seed, made, request, tick, faults>>

AsRead(S) == {<<t, task[t]>> : t \in S}

(* Mutant: only tasks the provider has accepted are swept. *)
TickAccepted(w) ==
  /\ tick[w] = Waiting /\ ActiveTasks # {}
  /\ tick' = [tick EXCEPT
       ![w] = Ticking("sweep", AsRead({t \in ActiveTasks \cap old : task[t].handle}), None)]
  /\ UNCHANGED <<task, old, seed, made, request, faults>>

Tick(w) ==
  /\ tick[w] = Waiting /\ ActiveTasks # {}
  /\ tick' = [tick EXCEPT ![w] = Ticking("sweep", AsRead(ActiveTasks \cap old), None)]
  /\ UNCHANGED <<task, old, seed, made, request, faults>>

(* The tick goes on with what it has read, or ends. *)
Rest(w, x) == Ticking(tick[w].at, tick[w].todo \ {x}, None)
GoOn(w, x) == tick' = [tick EXCEPT ![w] = Rest(w, x)]

(* sweep_stale *)
Sweep(w, x) ==
  /\ tick[w].at = "sweep" /\ x \in tick[w].todo
  /\ task' = IF Claims(x[1], x[2])
             THEN [task EXCEPT ![x[1]].status = "abandoned"] ELSE task
  /\ GoOn(w, x)
  /\ UNCHANGED <<old, seed, made, request, faults>>

(* due_for_poll *)
DueForPoll(w) ==
  /\ tick[w].at = "sweep" /\ tick[w].todo = {}
  /\ tick' = [tick EXCEPT
       ![w] = Ticking("poll", AsRead({t \in ActiveTasks : task[t].handle}), None)]
  /\ UNCHANGED <<task, old, seed, made, request, faults>>

PollPending(w, x) ==
  /\ tick[w].at = "poll" /\ x \in tick[w].todo
  /\ GoOn(w, x)
  /\ UNCHANGED <<task, old, seed, made, request, faults>>

PollFailed(w, x) ==
  /\ tick[w].at = "poll" /\ x \in tick[w].todo
  /\ task' = IF Claims(x[1], x[2]) THEN [task EXCEPT ![x[1]].status = "failed"] ELSE task
  /\ GoOn(w, x)
  /\ UNCHANGED <<old, seed, made, request, faults>>

(* The claim comes before the completion. *)
PollLanded(w, x) ==
  /\ tick[w].at = "poll" /\ x \in tick[w].todo
  /\ IF Claims(x[1], x[2])
     THEN /\ task' = [task EXCEPT ![x[1]].status = "succeeded"]
          /\ tick' = [tick EXCEPT ![w] = Ticking("complete", @.todo \ {x}, x[1])]
     ELSE GoOn(w, x) /\ UNCHANGED task
  /\ UNCHANGED <<old, seed, made, request, faults>>

Completed(w) == tick' = [tick EXCEPT ![w] = Ticking("poll", @.todo, None)]

(* A task without a match has nothing to give its seed to. *)
Complete(w) ==
  /\ tick[w].at = "complete"
  /\ LET t == tick[w].task
     IN  IF task[t].match = None THEN UNCHANGED <<seed, made>>
         ELSE CompleteSeedRoll(task[t].match, t)
  /\ Completed(w)
  /\ UNCHANGED <<task, old, request, faults>>

(* for_each_tenant_scoped goes on when one task's completion raises. *)
CompleteRaises(w) ==
  /\ tick[w].at = "complete"
  /\ faults < MaxFaults /\ faults' = faults + 1
  /\ Completed(w)
  /\ UNCHANGED <<task, old, seed, made, request>>

TickEnds(w) ==
  /\ tick[w].at = "poll" /\ tick[w].todo = {}
  /\ tick' = [tick EXCEPT ![w] = Waiting]
  /\ UNCHANGED <<task, old, seed, made, request, faults>>

ServedBy(w) == {c \in Caller : Home[c] = w}

Restart(w) ==
  /\ faults < MaxFaults /\ faults' = faults + 1
  /\ tick[w] # Waiting \/ \E c \in ServedBy(w) : request[c] # Idle
  /\ request' = [c \in Caller |-> IF c \in ServedBy(w) THEN Idle ELSE request[c]]
  /\ tick' = [tick EXCEPT ![w] = Waiting]
  /\ UNCHANGED <<task, old, seed, made>>

-----------------------------------------------------------------------------
Init ==
  /\ task = [t \in Task |-> None]
  /\ old = {}
  /\ seed = [m \in Match |-> None]
  /\ made = [x \in Roll |-> 0]
  /\ request = [c \in Caller |-> Idle]
  /\ tick = [w \in Process |-> Waiting]
  /\ faults = 0

Submitted(c) == SubmitAccepted(c) \/ SubmitRefused(c) \/ SubmitFailed(c)

Work(w) ==
  \/ Tick(w) \/ DueForPoll(w) \/ Complete(w) \/ CompleteRaises(w) \/ TickEnds(w)
  \/ \E x \in tick[w].todo :
       Sweep(w, x) \/ PollPending(w, x) \/ PollFailed(w, x) \/ PollLanded(w, x)

Next ==
  \/ \E c \in Caller, m \in Match :
       Generate(c, m) \/ \E d \in Direct : GenerateDirect(c, m, d)
  \/ \E c \in Caller, t \in Task : QueueRoll(c, t) \/ QueueFreeRoll(c, t)
  \/ \E c \in Caller : FindTask(c) \/ Submitted(c) \/ DirectAnswered(c) \/ DirectFailed(c)
  \/ \E m \in Match : ClearMatchSeed(m)
  \/ \E t \in Task : Ages(t)
  \/ \E w \in Process : Work(w) \/ Restart(w)

(* A submit is answered, a task that lives grows old, and the loop ticks.  *)
Fairness ==
  /\ \A c \in Caller : WF_vars(Submitted(c))
  /\ \A t \in Task : WF_vars(Ages(t))
  /\ \A w \in Process : WF_vars(Work(w))

Spec == Init /\ [][Next]_vars /\ Fairness

-----------------------------------------------------------------------------
(* Properties.                                                             *)

TypeOK ==
  /\ task \in [Task -> TaskRow \cup {None}]
  /\ old \subseteq Task
  /\ seed \in [Match -> Roll \cup {None}]
  /\ made \in [Roll -> Nat]
  /\ request \in [Caller -> Requests]
  /\ tick \in [Process -> Ticks]
  /\ faults \in 0..MaxFaults

(* "A duplicate tick cannot write a second seed": no roll is recorded      *)
(* twice, with two workers and any restart.                                *)
CompletedOnce == \A x \in Roll : made[x] <= 1

(* "What stops a second Generate click from queueing a second upstream     *)
(* generation": a process never queues a match twice, its earlier task     *)
(* unfinished, whichever worker moves that task and whatever is restarted. *)
OneRollPerProcess ==
  \A s, t \in ActiveTasks :
    s # t /\ task[s].match = task[t].match /\ task[s].match # None => task[s].by # task[t].by

(* "States a poller must never pick back up": a terminal task never        *)
(* changes.                                                                *)
TerminalStays ==
  [][\A t \in Rows : task[t].status \in Terminal => task'[t] = task[t]]_vars

(* An unfinished task of a match keeps every Generate out: it lands, fails *)
(* or is abandoned, whatever was lost, and the match is free again.        *)
EveryRollEnds == \A m \in Match : ActiveFor(m) # {} ~> ActiveFor(m) = {}
=============================================================================

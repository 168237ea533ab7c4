------------------------ MODULE MatchLifecycle_proofs ------------------------
(***************************************************************************)
(* Proofs about MatchLifecycle, for any number of requests in flight and   *)
(* any bound on rewinds.  Each theorem names the overlaps it must exclude; *)
(* every other pair of requests may interleave freely.                     *)
(***************************************************************************)
EXTENDS MatchLifecycle, TLAPS

(* The stamps, the flag and the jobs keep their types. *)
LEMMA TypeInit == Init => TypeOK
<1> SUFFICES ASSUME Init PROVE TypeOK
  OBVIOUS
<1> USE DEF Init
<1>1. stamp \in Stamps
  BY DEF Stamps
<1>2. job \in [Worker -> {Idle} \cup Jobs]
  OBVIOUS
<1>3. told \in [Step -> Nat]
  OBVIOUS
<1>4. rewinds \in 0..MaxRewinds
  BY BoundAssumption
<1> QED
  BY <1>1, <1>2, <1>3, <1>4 DEF TypeOK, RoomStatus

(* A transition in flight is told apart from the other jobs by its kind. *)
Transition ==
  [kind : Step, at : {"check", "stamp", "resolve"}, result : BOOLEAN, review : BOOLEAN]

LEMMA TransitionJob ==
  ASSUME TypeOK, NEW w \in Worker, job[w].kind \in Step
  PROVE  job[w] \in Transition
  BY DEF TypeOK, Jobs, Idle, Step, Transition

LEMMA TypeStep == TypeOK /\ [Next]_vars => TypeOK'
<1> SUFFICES ASSUME TypeOK, [Next]_vars PROVE TypeOK'
  OBVIOUS
<1> USE DEF TypeOK, Stamps, RoomStatus, Go
<1>1. ASSUME NEW w \in Worker, NEW step \in Step, Begin(w, step) PROVE TypeOK'
  BY <1>1 DEF Begin, MayStart, Jobs
<1>2. ASSUME NEW w \in Worker, Check(w) PROVE TypeOK'
  <2>1. job[w] \in Transition
    BY <1>2, TransitionJob DEF Check
  <2>2. [job[w] EXCEPT !.at = "stamp", !.review = review] \in Jobs
    BY <2>1 DEF Jobs, Transition
  <2>3. job' \in [Worker -> {Idle} \cup Jobs]
    BY <1>2, <2>2 DEF Check
  <2> QED
    BY <1>2, <2>3 DEF Check
<1>3. ASSUME NEW w \in Worker, Stamp(w) PROVE TypeOK'
  <2>1. job[w] \in Transition /\ job[w].kind \in Step
    BY <1>3, TransitionJob DEF Stamp
  <2>2. [job[w] EXCEPT !.at = "resolve"] \in Jobs
    BY <2>1 DEF Jobs, Transition
  <2>3. job' \in [Worker -> {Idle} \cup Jobs]
    BY <1>3, <2>2 DEF Stamp
  <2>4. stamp' = stamp \/ stamp' = [stamp EXCEPT ![job[w].kind] = TRUE]
    BY <1>3 DEF Stamp
  <2>5. told' = told \/ told' = [told EXCEPT ![job[w].kind] = @ + 1]
    BY <1>3 DEF Stamp
  <2>6. stamp' \in Stamps
    BY <2>1, <2>4
  <2>7. told' \in [Step -> Nat]
    BY <2>1, <2>5
  <2> QED
    BY <1>3, <2>3, <2>6, <2>7 DEF Stamp
<1>4. ASSUME NEW w \in Worker, Resolve(w) PROVE TypeOK'
  BY <1>4 DEF Resolve
<1>5. CASE RecordMatchResult
  BY <1>5 DEF RecordMatchResult
<1>6. ASSUME NEW w \in Worker, FlagForReview(w) PROVE TypeOK'
  BY <1>6 DEF FlagForReview, Jobs
<1>7. ASSUME NEW w \in Worker, Flag(w) PROVE TypeOK'
  BY <1>7 DEF Flag
<1>8. CASE ClearReview
  BY <1>8 DEF ClearReview
<1>9. ASSUME NEW w \in Worker, NEW keep \in 0..3, Rewind(w, keep) PROVE TypeOK'
  BY <1>9, BoundAssumption DEF Rewind, Jobs
<1>10. ASSUME NEW w \in Worker, ClearSteps(w) PROVE TypeOK'
  BY <1>10 DEF ClearSteps
<1>11. CASE OpenRoom
  BY <1>11 DEF OpenRoom
<1>12. CASE CancelRoom
  BY <1>12 DEF CancelRoom
<1>13. ASSUME NEW w \in Worker, NEW ends \in BOOLEAN, NEW ranked \in Outcomes,
              RoomEvent(w, ends, ranked)
       PROVE TypeOK'
  BY <1>13, BoundAssumption DEF RoomEvent, Jobs
<1>14. ASSUME NEW w \in Worker, SaveRoomEvent(w) PROVE TypeOK'
  <2>1. job[w] \in [kind : {"room"}, stamp : Stamps, review : BOOLEAN, ends : BOOLEAN]
    BY <1>14 DEF SaveRoomEvent, Jobs, Idle, Step
  <2>2. Written(job[w]) \in Stamps
    BY <2>1 DEF Written
  <2> QED
    BY <1>14, <2>1, <2>2 DEF SaveRoomEvent
<1>15. CASE UNCHANGED vars
  BY <1>15 DEF vars
<1> QED
  BY <1>1, <1>2, <1>3, <1>4, <1>5, <1>6, <1>7, <1>8, <1>9, <1>10, <1>11, <1>12,
     <1>13, <1>14, <1>15
  DEF Next, Continue

(* Every reachable state of the lifecycle is well typed: no interleaving   *)
(* of requests puts a job, a stamp or a rewind target out of its range.    *)
THEOREM TypeCorrect == Spec => []TypeOK
<1> QED
  BY TypeInit, TypeStep, PTL DEF Spec

-----------------------------------------------------------------------------
(* Overlap control: two requests are in flight together only if Overlaps   *)
(* allows their kinds to be.                                               *)
Apart ==
  \A v, w \in Worker :
    v # w /\ job[v] # Idle /\ job[w] # Idle => {job[v].kind, job[w].kind} \in Overlaps

LEMMA ApartInit == Init => Apart
  BY DEF Init, Apart

(* A worker that goes idle or stays in its kind takes no overlap with it,  *)
(* and one that starts has asked.                                          *)
LEMMA ApartJob ==
  ASSUME TypeOK, Apart, NEW w \in Worker, NEW j, Go(w, j),
         \/ j = Idle
         \/ job[w] # Idle /\ j.kind = job[w].kind
         \/ MayStart(w, j.kind)
  PROVE  Apart'
<1> SUFFICES ASSUME NEW u \in Worker, NEW v \in Worker, u # v,
                    job'[u] # Idle, job'[v] # Idle
             PROVE  {job'[u].kind, job'[v].kind} \in Overlaps
  BY DEF Apart
<1>1. \A x \in Worker : job'[x] = IF x = w THEN j ELSE job[x]
  BY DEF Go, TypeOK
<1>2. CASE u # w /\ v # w
  BY <1>1, <1>2 DEF Apart
<1>3. CASE u = w
  <2>1. job'[v] = job[v] /\ job[v] # Idle /\ job'[u] = j
    BY <1>1, <1>3
  <2>2. CASE job[w] # Idle /\ j.kind = job[w].kind
    BY <2>1, <2>2, <1>3 DEF Apart
  <2>3. CASE MayStart(w, j.kind)
    BY <2>1, <2>3 DEF MayStart, Busy
  <2> QED
    BY <2>1, <2>2, <2>3
<1>4. CASE v = w
  <2>1. job'[u] = job[u] /\ job[u] # Idle /\ job'[v] = j
    BY <1>1, <1>4
  <2>2. CASE job[w] # Idle /\ j.kind = job[w].kind
    BY <2>1, <2>2, <1>4 DEF Apart
  <2>3. CASE MayStart(w, j.kind)
    <3>1. {j.kind, job[u].kind} \in Overlaps
      BY <2>1, <2>3 DEF MayStart, Busy
    <3>2. {j.kind, job[u].kind} = {job[u].kind, j.kind}
      OBVIOUS
    <3> QED
      BY <2>1, <3>1, <3>2
  <2> QED
    BY <2>1, <2>2, <2>3
<1> QED
  BY <1>2, <1>3, <1>4

LEMMA ApartStep == TypeOK /\ Apart /\ [Next]_vars => Apart'
<1> SUFFICES ASSUME TypeOK, Apart, [Next]_vars PROVE Apart'
  OBVIOUS
<1>1. ASSUME NEW w \in Worker, NEW step \in Step, Begin(w, step) PROVE Apart'
  BY <1>1, ApartJob DEF Begin
<1>2. ASSUME NEW w \in Worker, Check(w) PROVE Apart'
  <2>1. job[w] \in Transition /\ job[w] # Idle
    BY <1>2, TransitionJob DEF Check, Idle, Step
  <2>2. [job[w] EXCEPT !.at = "stamp", !.review = review].kind = job[w].kind
    BY <2>1 DEF Transition
  <2> QED
    BY <1>2, <2>1, <2>2, ApartJob DEF Check
<1>3. ASSUME NEW w \in Worker, Stamp(w) PROVE Apart'
  <2>1. job[w] \in Transition /\ job[w] # Idle
    BY <1>3, TransitionJob DEF Stamp, Idle, Step
  <2>2. [job[w] EXCEPT !.at = "resolve"].kind = job[w].kind
    BY <2>1 DEF Transition
  <2> QED
    BY <1>3, <2>1, <2>2, ApartJob DEF Stamp
<1>4. ASSUME NEW w \in Worker, Go(w, Idle) PROVE Apart'
  BY <1>4, ApartJob
<1>5. ASSUME NEW w \in Worker, FlagForReview(w) PROVE Apart'
  BY <1>5, ApartJob DEF FlagForReview
<1>6. ASSUME NEW w \in Worker, NEW keep \in 0..3, Rewind(w, keep) PROVE Apart'
  BY <1>6, ApartJob DEF Rewind
<1>7. ASSUME NEW w \in Worker, NEW ends \in BOOLEAN, NEW ranked \in Outcomes,
             RoomEvent(w, ends, ranked)
      PROVE Apart'
  BY <1>7, ApartJob DEF RoomEvent
<1>8. ASSUME UNCHANGED job PROVE Apart'
  BY <1>8 DEF Apart
<1> QED
  BY <1>1, <1>2, <1>3, <1>4, <1>5, <1>6, <1>7, <1>8
  DEF Next, Continue, Resolve, Flag, ClearSteps, SaveRoomEvent, RecordMatchResult,
      ClearReview, OpenRoom, CancelRoom, vars

-----------------------------------------------------------------------------
(* Order of the lifecycle.                                                 *)

InOrder(s) ==
  /\ s["finished"] => s["started"]
  /\ s["confirmed"] => s["finished"]

(* What a request in flight relies on: a room's copy of the row is in      *)
(* order, and what a passed check has seen is still so when it stamps.     *)
JobsInOrder ==
  \A w \in Worker :
    /\ job[w].kind = "room" => InOrder(job[w].stamp)
    /\ job[w].kind = "finished" /\ job[w].at = "stamp" => stamp["started"]
    /\ job[w].kind = "confirmed" /\ job[w].at = "stamp" => stamp["finished"]

OrderInv == TypeOK /\ Apart /\ InOrder(stamp) /\ JobsInOrder

(* The overlaps that would take a step away from under a passed check. *)
OrderlyOverlaps ==
  /\ {"rewind", "finished"} \notin Overlaps
  /\ {"rewind", "confirmed"} \notin Overlaps
  /\ {"room", "confirmed"} \notin Overlaps

LEMMA OrderStep ==
  ASSUME OrderlyOverlaps, OrderInv, [Next]_vars
  PROVE  InOrder(stamp)' /\ JobsInOrder'
<1> USE DEF OrderInv
<1>0. TypeOK'
  BY TypeStep
<1>1. ASSUME NEW w \in Worker, NEW step \in Step, Begin(w, step)
      PROVE InOrder(stamp)' /\ JobsInOrder'
  BY <1>1 DEF Begin, Go, TypeOK, InOrder, JobsInOrder, Step
<1>2. ASSUME NEW w \in Worker, Check(w) PROVE InOrder(stamp)' /\ JobsInOrder'
  <2>1. job[w] \in Transition
    BY <1>2, TransitionJob DEF Check
  <2>2. \A v \in Worker \ {w} : job'[v] = job[v]
    BY <1>2 DEF Check, Go, TypeOK
  <2>3. job'[w] = Idle \/ (Allowed(job[w]) /\ job'[w].kind = job[w].kind)
    BY <1>2, <2>1 DEF Check, Go, TypeOK, Transition
  <2>4. job[w].kind \in Step
    BY <2>1 DEF Transition
  <2> QED
    BY <1>2, <2>2, <2>3, <2>4
    DEF Check, Allowed, InOrder, JobsInOrder, Step, Idle
<1>3. ASSUME NEW w \in Worker, Stamp(w) PROVE InOrder(stamp)' /\ JobsInOrder'
  <2>1. job[w] \in Transition /\ job[w].kind \in Step /\ job[w].at = "stamp"
    BY <1>3, TransitionJob DEF Stamp
  <2>2. \A v \in Worker \ {w} : job'[v] = job[v]
    BY <1>3 DEF Stamp, Go, TypeOK
  <2>3. job'[w] = Idle \/ (job'[w].kind \in Step /\ job'[w].at = "resolve")
    BY <1>3, <2>1 DEF Stamp, Go, TypeOK, Transition
  <2>4. stamp' = stamp \/ stamp' = [stamp EXCEPT ![job[w].kind] = TRUE]
    BY <1>3 DEF Stamp
  <2>5. \A s \in Step : stamp[s] => stamp'[s]
    BY <2>1, <2>4 DEF TypeOK, Stamps
  <2>6. JobsInOrder'
    BY <2>2, <2>3, <2>5 DEF JobsInOrder, Step, Idle
  <2>7. InOrder(stamp)'
    BY <2>1, <2>4 DEF InOrder, JobsInOrder, TypeOK, Stamps, Step
  <2> QED
    BY <2>6, <2>7
<1>4. ASSUME NEW w \in Worker, Go(w, Idle), stamp' = stamp
      PROVE InOrder(stamp)' /\ JobsInOrder'
  BY <1>4 DEF Go, TypeOK, InOrder, JobsInOrder, Idle
<1>5. ASSUME NEW w \in Worker, FlagForReview(w) PROVE InOrder(stamp)' /\ JobsInOrder'
  BY <1>5 DEF FlagForReview, Go, TypeOK, InOrder, JobsInOrder
<1>6. ASSUME NEW w \in Worker, NEW keep \in 0..3, Rewind(w, keep)
      PROVE InOrder(stamp)' /\ JobsInOrder'
  BY <1>6 DEF Rewind, Go, TypeOK, InOrder, JobsInOrder
<1>7. ASSUME NEW w \in Worker, ClearSteps(w) PROVE InOrder(stamp)' /\ JobsInOrder'
  <2>1. job[w].kind = "rewind" /\ job[w] # Idle
    BY <1>7 DEF ClearSteps, Idle
  <2>2. job[w].keep \in 0..3
    BY <2>1 DEF TypeOK, Jobs, Step, Idle
  <2>3. InOrder(stamp)'
    BY <1>7, <2>2 DEF ClearSteps, ClearedAfter, Order, InOrder, TypeOK, Stamps, Step
  <2>4. \A v \in Worker \ {w} : job'[v] = job[v]
    BY <1>7 DEF ClearSteps, Go, TypeOK
  <2>5. \A v \in Worker \ {w} : job[v].kind \notin {"finished", "confirmed"}
    BY <2>1 DEF Apart, OrderlyOverlaps, Idle
  <2>6. job'[w] = Idle
    BY <1>7 DEF ClearSteps, Go, TypeOK
  <2>7. JobsInOrder'
    BY <2>4, <2>5, <2>6 DEF JobsInOrder, Idle
  <2> QED
    BY <2>3, <2>7
<1>8. ASSUME NEW w \in Worker, NEW ends \in BOOLEAN, NEW ranked \in Outcomes,
             RoomEvent(w, ends, ranked)
      PROVE InOrder(stamp)' /\ JobsInOrder'
  BY <1>8 DEF RoomEvent, Go, TypeOK, InOrder, JobsInOrder
<1>9. ASSUME NEW w \in Worker, SaveRoomEvent(w) PROVE InOrder(stamp)' /\ JobsInOrder'
  <2>1. job[w].kind = "room" /\ job[w] # Idle
    BY <1>9 DEF SaveRoomEvent, Idle
  <2>2. job[w].stamp \in Stamps
    BY <2>1 DEF TypeOK, Jobs, Step, Idle
  <2>3. \/ stamp' = stamp /\ job[w].stamp["started"] /\ ~job[w].ends
        \/ stamp' = Written(job[w])
    BY <1>9 DEF SaveRoomEvent, Saves
  <2>4. InOrder(job[w].stamp)
    BY <2>1 DEF JobsInOrder
  <2>5. InOrder(Written(job[w])) /\ Written(job[w])["started"]
    <3>1. CASE job[w].ends
      BY <2>2, <2>4, <3>1 DEF Written, InOrder, Stamps, Step
    <3>2. CASE ~job[w].ends
      BY <2>2, <2>4, <3>2 DEF Written, InOrder, Stamps, Step
    <3> QED
      BY <3>1, <3>2
  <2>6. InOrder(stamp)'
    BY <2>3, <2>5 DEF InOrder
  <2>7. \A v \in Worker \ {w} : job'[v] = job[v]
    BY <1>9 DEF SaveRoomEvent, Go, TypeOK
  <2>8. \A v \in Worker \ {w} : job[v].kind # "confirmed"
    BY <2>1 DEF Apart, OrderlyOverlaps, Idle
  <2>9. job'[w] = Idle
    BY <1>9 DEF SaveRoomEvent, Go, TypeOK
  <2>10. JobsInOrder'
    BY <2>3, <2>5, <2>7, <2>8, <2>9 DEF JobsInOrder, Idle
  <2> QED
    BY <2>6, <2>10
<1>10. ASSUME UNCHANGED <<stamp, job>> PROVE InOrder(stamp)' /\ JobsInOrder'
  BY <1>10 DEF InOrder, JobsInOrder
<1> QED
  BY <1>1, <1>2, <1>3, <1>4, <1>5, <1>6, <1>7, <1>8, <1>9, <1>10
  DEF Next, Continue, Resolve, Flag, RecordMatchResult, ClearReview, OpenRoom,
      CancelRoom, vars

(* "A match can never end up finished without having started", nor         *)
(* confirmed without being finished: for any number of requests, whatever  *)
(* overlaps but a rewind with a finish or a confirmation, and a room event *)
(* with a confirmation.                                                    *)
THEOREM LifecycleStaysInOrder ==
  ASSUME OrderlyOverlaps
  PROVE  Spec => []LifecycleInOrder
<1>1. Init => OrderInv
  BY TypeInit, ApartInit DEF Init, OrderInv, InOrder, JobsInOrder, Idle, Step
<1>2. OrderInv /\ [Next]_vars => OrderInv'
  BY TypeStep, ApartStep, OrderStep DEF OrderInv
<1>3. OrderInv => LifecycleInOrder
  BY DEF OrderInv, InOrder, LifecycleInOrder
<1> QED
  BY <1>1, <1>2, <1>3, PTL DEF Spec

-----------------------------------------------------------------------------
(* One announcement per transition.                                        *)

(* An unset column has not been announced since it was cleared.  A room    *)
(* job's copy may predate a stamp, so the same is asked of what it will    *)
(* write; "seated", which its copy may miss, is never announced where      *)
(* rooms are in use.                                                       *)
OnceInv ==
  /\ TypeOK /\ Apart /\ AnnouncedOnce
  /\ \A s \in Step : ~stamp[s] => told[s] = 0
  /\ room # "none" => racetime
  /\ racetime => told["seated"] = 0
  /\ \A w \in Worker :
       /\ racetime /\ job[w].kind = "seated" => job[w].at = "check"
       /\ job[w].kind = "room" =>
            /\ racetime
            /\ \A s \in {"finished", "confirmed"} : ~job[w].stamp[s] => told[s] = 0

(* The overlaps in which a room's save would unset an announced column. *)
AudibleOverlaps ==
  /\ {"room", "finished"} \notin Overlaps
  /\ {"room", "confirmed"} \notin Overlaps

LEMMA OnceStep ==
  ASSUME AudibleOverlaps, OnceInv, [Next]_vars
  PROVE  OnceInv'
<1> USE DEF OnceInv
<1>0. TypeOK' /\ Apart'
  BY TypeStep, ApartStep
<1>1. ASSUME NEW w \in Worker, NEW step \in Step, Begin(w, step) PROVE OnceInv'
  BY <1>0, <1>1 DEF Begin, Go, TypeOK, AnnouncedOnce, Step
<1>2. ASSUME NEW w \in Worker, Check(w) PROVE OnceInv'
  <2>1. job[w] \in Transition /\ job[w].kind \in Step
    BY <1>2, TransitionJob DEF Check
  <2>2. \A v \in Worker \ {w} : job'[v] = job[v]
    BY <1>2 DEF Check, Go, TypeOK
  <2>3. job'[w] = Idle \/ (Allowed(job[w]) /\ job'[w].kind = job[w].kind)
    BY <1>2, <2>1 DEF Check, Go, TypeOK, Transition
  <2>4. /\ racetime /\ job'[w].kind = "seated" => job'[w].at = "check"
        /\ job'[w].kind # "room"
    BY <2>1, <2>3 DEF Allowed, Idle, Step
  <2> QED
    BY <1>0, <1>2, <2>2, <2>4 DEF Check, AnnouncedOnce
<1>3. ASSUME NEW w \in Worker, Stamp(w) PROVE OnceInv'
  <2>1. job[w] \in Transition /\ job[w].kind \in Step /\ job[w].at = "stamp"
    BY <1>3, TransitionJob DEF Stamp
  <2>2. \A v \in Worker \ {w} : job'[v] = job[v]
    BY <1>3 DEF Stamp, Go, TypeOK
  <2>3. \/ job'[w] = Idle
        \/ job[w].kind = "confirmed" /\ job'[w] = [job[w] EXCEPT !.at = "resolve"]
    BY <1>3, <2>1 DEF Stamp, Go, TypeOK
  <2>4. job'[w].kind \notin {"seated", "room"}
    BY <2>1, <2>3 DEF Transition, Idle
  <2>5. CASE StillUnset(job[w].kind)
    <3>1. /\ stamp' = [stamp EXCEPT ![job[w].kind] = TRUE]
          /\ told' = [told EXCEPT ![job[w].kind] = @ + 1]
      BY <1>3, <2>5 DEF Stamp
    <3>2. told[job[w].kind] = 0
      BY <2>1, <2>5 DEF StillUnset
    <3>3. /\ \A s \in Step \ {job[w].kind} : told'[s] = told[s] /\ stamp'[s] = stamp[s]
          /\ told'[job[w].kind] = 1
          /\ stamp'[job[w].kind]
      <4>1. \A s \in Step \ {job[w].kind} : told'[s] = told[s]
        BY <3>1 DEF TypeOK
      <4>2. told'[job[w].kind] = 1
        BY <2>1, <3>1, <3>2 DEF TypeOK
      <4>3. stamp'[job[w].kind]
        BY <2>1, <3>1 DEF TypeOK, Stamps
      <4>4. \A s \in Step \ {job[w].kind} : stamp'[s] = stamp[s]
        BY <3>1, Zenon DEF TypeOK, Stamps
      <4> QED
        BY <4>1, <4>2, <4>3, <4>4
    <3>4. AnnouncedOnce' /\ \A s \in Step : ~stamp'[s] => told'[s] = 0
      BY <3>3 DEF AnnouncedOnce
    <3>5. racetime => job[w].kind # "seated"
      BY <2>1
    <3>6. \A v \in Worker \ {w} : job[v].kind = "room" => job[w].kind \notin {"finished", "confirmed"}
      BY <2>1 DEF Apart, AudibleOverlaps, Idle, Step
    <3> QED
      BY <1>0, <1>3, <2>2, <2>4, <3>3, <3>4, <3>5, <3>6 DEF Stamp, Step
  <2>6. CASE ~StillUnset(job[w].kind)
    <3>1. UNCHANGED <<stamp, told>>
      BY <1>3, <2>6 DEF Stamp
    <3> QED
      BY <1>0, <1>3, <2>2, <2>4, <3>1 DEF Stamp, AnnouncedOnce
  <2> QED
    BY <2>5, <2>6
<1>4. ASSUME NEW w \in Worker, Go(w, Idle), UNCHANGED <<stamp, told, room, racetime>>
      PROVE OnceInv'
  BY <1>0, <1>4 DEF Go, TypeOK, AnnouncedOnce, Idle
<1>5. ASSUME NEW w \in Worker, FlagForReview(w) PROVE OnceInv'
  BY <1>0, <1>5 DEF FlagForReview, Go, TypeOK, AnnouncedOnce
<1>6. ASSUME NEW w \in Worker, NEW keep \in 0..3, Rewind(w, keep) PROVE OnceInv'
  BY <1>0, <1>6 DEF Rewind, Go, TypeOK, AnnouncedOnce
<1>7. ASSUME NEW w \in Worker, ClearSteps(w) PROVE OnceInv'
  <2>1. \A v \in Worker \ {w} : job'[v] = job[v]
    BY <1>7 DEF ClearSteps, Go, TypeOK
  <2>2. job'[w] = Idle
    BY <1>7 DEF ClearSteps, Go, TypeOK
  <2>3. \A s \in Step : \/ told'[s] = 0
                        \/ told'[s] = told[s] /\ stamp'[s] = stamp[s]
    BY <1>7 DEF ClearSteps, TypeOK, Stamps
  <2> QED
    BY <1>0, <1>7, <2>1, <2>2, <2>3 DEF ClearSteps, AnnouncedOnce, Idle, Step
<1>8. ASSUME NEW w \in Worker, NEW ends \in BOOLEAN, NEW ranked \in Outcomes,
             RoomEvent(w, ends, ranked)
      PROVE OnceInv'
  BY <1>0, <1>8 DEF RoomEvent, Go, TypeOK, AnnouncedOnce, Step
<1>9. ASSUME NEW w \in Worker, SaveRoomEvent(w) PROVE OnceInv'
  <2>1. job[w].kind = "room" /\ racetime /\ told["seated"] = 0
    BY <1>9 DEF SaveRoomEvent
  <2>2. job[w].stamp \in Stamps
    BY <2>1 DEF TypeOK, Jobs, Step, Idle
  <2>3. stamp' = stamp \/ stamp' = Written(job[w])
    BY <1>9 DEF SaveRoomEvent
  <2>4. \A s \in Step : ~Written(job[w])[s] => told[s] = 0
    <3>1. Written(job[w])["started"]
      BY <2>2 DEF Written, Stamps, Step
    <3>2. \A s \in {"finished", "confirmed"} : ~Written(job[w])[s] => ~job[w].stamp[s]
      BY <2>2 DEF Written, Stamps, Step
    <3> QED
      BY <2>1, <3>1, <3>2 DEF Step
  <2>5. \A v \in Worker \ {w} : job'[v] = job[v]
    BY <1>9 DEF SaveRoomEvent, Go, TypeOK
  <2>6. job'[w] = Idle
    BY <1>9 DEF SaveRoomEvent, Go, TypeOK
  <2> QED
    BY <1>0, <1>9, <2>1, <2>3, <2>4, <2>5, <2>6 DEF SaveRoomEvent, AnnouncedOnce, Idle
<1>10. ASSUME UNCHANGED <<stamp, told, job, racetime>>, room' # "none" => racetime
       PROVE  OnceInv'
  BY <1>0, <1>10 DEF AnnouncedOnce
<1> QED
  BY <1>1, <1>2, <1>3, <1>4, <1>5, <1>6, <1>7, <1>8, <1>9, <1>10
  DEF Next, Continue, Resolve, Flag, RecordMatchResult, ClearReview, OpenRoom,
      CancelRoom, vars

(* Two taps announce a transition once: for any number of requests, unless *)
(* a room event overlaps a finish or a confirmation.                       *)
THEOREM TransitionsAnnouncedOnce ==
  ASSUME AudibleOverlaps
  PROVE  Spec => []AnnouncedOnce
<1>1. Init => OnceInv
  BY TypeInit, ApartInit DEF Init, OnceInv, AnnouncedOnce, Idle, Step
<1>2. OnceInv /\ [Next]_vars => OnceInv'
  BY OnceStep
<1>3. OnceInv => AnnouncedOnce
  BY DEF OnceInv
<1> QED
  BY <1>1, <1>2, <1>3, PTL DEF Spec

-----------------------------------------------------------------------------
(* A confirmed match carries no open dispute.                              *)

Resolving == \E w \in Worker : job[w].kind = "confirmed" /\ job[w].at = "resolve"

(* A flag on a confirmed match is about to be resolved by the confirmation *)
(* itself; a flag or a room's copy in flight cannot bring one back.        *)
DisputeInv ==
  /\ TypeOK /\ Apart
  /\ stamp["confirmed"] /\ review => Resolving
  /\ \A w \in Worker :
       /\ job[w].kind = "flag" => ~stamp["confirmed"]
       /\ job[w].kind = "confirmed" /\ job[w].at = "stamp" /\ review => job[w].review
       /\ job[w].kind = "room" => /\ job[w].stamp["confirmed"] = stamp["confirmed"]
                                  /\ job[w].stamp["confirmed"] => ~job[w].review

(* The overlaps that would raise a flag behind a confirmation's back. *)
SettledOverlaps ==
  /\ {"flag", "confirmed"} \notin Overlaps
  /\ {"room", "confirmed"} \notin Overlaps
  /\ {"room", "rewind"} \notin Overlaps

LEMMA DisputeStep ==
  ASSUME SettledOverlaps, DisputeInv, [Next]_vars
  PROVE  DisputeInv'
<1> USE DEF DisputeInv
<1>0. TypeOK' /\ Apart'
  BY TypeStep, ApartStep
<1>1. ASSUME NEW w \in Worker, NEW j, job[w] = Idle, Go(w, j),
             j.kind = "confirmed" => j.at # "stamp",
             j.kind = "flag" => ~stamp["confirmed"],
             j.kind = "room" => /\ j.stamp = stamp
                                /\ stamp["confirmed"] => ~j.review,
             UNCHANGED <<stamp, review>>
      PROVE  DisputeInv'
  BY <1>0, <1>1 DEF Go, TypeOK, Resolving, Idle
<1>2. ASSUME NEW w \in Worker, NEW step \in Step, Begin(w, step) PROVE DisputeInv'
  <2>1. step \notin {"flag", "room"}
    BY DEF Step
  <2> QED
    BY <1>1, <1>2, <2>1 DEF Begin, MayStart
<1>3. ASSUME NEW w \in Worker, FlagForReview(w) PROVE DisputeInv'
  BY <1>1, <1>3 DEF FlagForReview, MayStart
<1>4. ASSUME NEW w \in Worker, NEW keep \in 0..3, Rewind(w, keep) PROVE DisputeInv'
  BY <1>1, <1>4 DEF Rewind, MayStart
<1>5. ASSUME NEW w \in Worker, NEW ends \in BOOLEAN, NEW ranked \in Outcomes,
             RoomEvent(w, ends, ranked)
      PROVE DisputeInv'
  <2>1. ~Resolving
    BY <1>5 DEF RoomEvent, MayStart, Busy, SettledOverlaps, Resolving, Idle
  <2> QED
    BY <1>1, <1>5, <2>1 DEF RoomEvent, MayStart
<1>6. ASSUME NEW w \in Worker, Check(w) PROVE DisputeInv'
  <2>1. job[w] \in Transition /\ job[w].kind \in Step /\ job[w].at = "check"
    BY <1>6, TransitionJob DEF Check
  <2>2. \A v \in Worker \ {w} : job'[v] = job[v]
    BY <1>6 DEF Check, Go, TypeOK
  <2>3. \/ job'[w] = Idle
        \/ job'[w] = [job[w] EXCEPT !.at = "stamp", !.review = review]
    BY <1>6 DEF Check, Go, TypeOK
  <2>4. job'[w] = Idle \/ (job'[w].kind \in Step /\ job'[w].review = review)
    BY <2>1, <2>3 DEF Transition
  <2>5. UNCHANGED <<stamp, review>>
    BY <1>6 DEF Check
  <2>6. Resolving => Resolving'
    BY <2>1, <2>2 DEF Resolving
  <2> QED
    BY <1>0, <2>2, <2>4, <2>5, <2>6 DEF Idle, Step
<1>7. ASSUME NEW w \in Worker, Stamp(w) PROVE DisputeInv'
  <2>1. job[w] \in Transition /\ job[w].kind \in Step /\ job[w].at = "stamp"
    BY <1>7, TransitionJob DEF Stamp
  <2>2. \A v \in Worker \ {w} : job'[v] = job[v]
    BY <1>7 DEF Stamp, Go, TypeOK
  <2>3. \/ job'[w] = Idle
        \/ job[w].kind = "confirmed" /\ job'[w] = [job[w] EXCEPT !.at = "resolve"]
    BY <1>7, <2>1 DEF Stamp, Go, TypeOK
  <2>4. job'[w] = Idle \/ (job'[w].kind = "confirmed" /\ job'[w].at = "resolve")
    BY <2>1, <2>3 DEF Transition
  <2>5. Resolving => Resolving'
    BY <2>1, <2>2 DEF Resolving
  <2>6. review' = review
    BY <1>7 DEF Stamp
  <2>7. CASE stamp'["confirmed"] = stamp["confirmed"]
    BY <1>0, <2>2, <2>4, <2>5, <2>6, <2>7 DEF Idle
  <2>8. CASE stamp'["confirmed"] # stamp["confirmed"]
    <3>1. job[w].kind = "confirmed" /\ StillUnset("confirmed")
      BY <1>7, <2>1, <2>8 DEF Stamp, TypeOK, Stamps, Step
    <3>2. job[w].review => Resolving'
      <4>1. job[w].review => job'[w] = [job[w] EXCEPT !.at = "resolve"]
        BY <1>7, <3>1 DEF Stamp, Go, TypeOK
      <4> QED
        BY <2>1, <3>1, <4>1 DEF Resolving, Transition
    <3>3. \A v \in Worker \ {w} : job[v].kind \notin {"flag", "room"}
      BY <2>1, <3>1 DEF Apart, SettledOverlaps, Idle, Step
    <3>4. review => job[w].review
      BY <2>1, <3>1
    <3> QED
      BY <1>0, <2>2, <2>4, <2>6, <3>2, <3>3, <3>4 DEF Idle
  <2> QED
    BY <2>7, <2>8
<1>8. ASSUME NEW w \in Worker, Resolve(w) PROVE DisputeInv'
  BY <1>0, <1>8 DEF Resolve, Go, TypeOK, Idle
<1>9. ASSUME NEW w \in Worker, Flag(w) PROVE DisputeInv'
  <2>1. job[w].kind = "flag" /\ job[w] # Idle /\ ~stamp["confirmed"]
    BY <1>9 DEF Flag, Idle
  <2>2. \A v \in Worker \ {w} : job[v].kind # "confirmed"
    BY <2>1 DEF Apart, SettledOverlaps, Idle
  <2> QED
    BY <1>0, <1>9, <2>1, <2>2 DEF Flag, Go, TypeOK, Idle
<1>10. ASSUME NEW w \in Worker, ClearSteps(w) PROVE DisputeInv'
  <2>1. job[w].kind = "rewind" /\ job[w] # Idle
    BY <1>10 DEF ClearSteps, Idle
  <2>2. \A v \in Worker \ {w} : job'[v] = job[v] /\ job[v].kind # "room"
    BY <1>10, <2>1 DEF ClearSteps, Go, TypeOK, Apart, SettledOverlaps, Idle
  <2>3. job'[w] = Idle /\ review' = review
    BY <1>10 DEF ClearSteps, Go, TypeOK
  <2>4. stamp'["confirmed"] => stamp["confirmed"]
    BY <1>10 DEF ClearSteps, Step
  <2>5. Resolving => Resolving'
    BY <2>1, <2>2 DEF Resolving
  <2> QED
    BY <1>0, <2>2, <2>3, <2>4, <2>5 DEF Idle
<1>11. ASSUME NEW w \in Worker, SaveRoomEvent(w) PROVE DisputeInv'
  <2>1. job[w].kind = "room" /\ job[w] # Idle
    BY <1>11 DEF SaveRoomEvent, Idle
  <2>2. job[w].stamp \in Stamps
    BY <2>1 DEF TypeOK, Jobs, Step, Idle
  <2>3. \A v \in Worker \ {w} : job'[v] = job[v] /\ job[v].kind # "confirmed"
    BY <1>11, <2>1 DEF SaveRoomEvent, Go, TypeOK, Apart, SettledOverlaps, Idle
  <2>4. job'[w] = Idle
    BY <1>11 DEF SaveRoomEvent, Go, TypeOK
  <2>5. Written(job[w])["confirmed"] = job[w].stamp["confirmed"]
    BY <2>2 DEF Written, Stamps, Step
  <2>6. stamp'["confirmed"] = stamp["confirmed"]
    BY <1>11, <2>1, <2>5 DEF SaveRoomEvent
  <2>7. stamp["confirmed"] => (review' => review)
    BY <1>11, <2>1 DEF SaveRoomEvent, TypeOK, Jobs, Idle, Step
  <2>8. ~Resolving
    BY <2>1, <2>3 DEF Resolving
  <2>9. ~(stamp["confirmed"] /\ review')
    BY <2>7, <2>8
  <2>10. \A v \in Worker : job'[v] = job[v] \/ job'[v] = Idle
    BY <2>3, <2>4
  <2>11. \A v \in Worker : job'[v].kind # "confirmed"
    BY <2>3, <2>4 DEF Idle
  <2> QED
    BY <1>0, <2>6, <2>9, <2>10, <2>11 DEF Idle
<1>12. ASSUME UNCHANGED <<stamp, job>>, review' => review PROVE DisputeInv'
  <2>1. Resolving => Resolving'
    BY <1>12 DEF Resolving
  <2> QED
    BY <1>0, <1>12, <2>1
<1> QED
  BY <1>2, <1>3, <1>4, <1>5, <1>6, <1>7, <1>8, <1>9, <1>10, <1>11, <1>12
  DEF Next, Continue, RecordMatchResult, ClearReview, OpenRoom, CancelRoom, vars

(* Between requests a confirmed match carries no review flag: for any      *)
(* number of requests, unless a flag or a room event overlaps a            *)
(* confirmation, or a room event overlaps a rewind.                        *)
THEOREM ConfirmationResolves ==
  ASSUME SettledOverlaps
  PROVE  Spec => []ConfirmedIsResolved
<1>1. Init => DisputeInv
  <2> SUFFICES ASSUME Init PROVE DisputeInv
    OBVIOUS
  <2>1. ~review /\ \A w \in Worker : job[w].kind = "idle"
    BY DEF Init, Idle
  <2> QED
    BY <2>1, TypeInit, ApartInit DEF DisputeInv
<1>2. DisputeInv /\ [Next]_vars => DisputeInv'
  BY DisputeStep
<1>3. DisputeInv => ConfirmedIsResolved
  BY DEF DisputeInv, ConfirmedIsResolved, Quiet, Busy, Resolving, Idle
<1> QED
  BY <1>1, <1>2, <1>3, PTL DEF Spec
=============================================================================

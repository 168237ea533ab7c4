--------------------------- MODULE MCMatchReschedule ---------------------------
(***************************************************************************)
(* Small instances of MatchReschedule.                                     *)
(***************************************************************************)
EXTENDS MatchReschedule, TLC

(* Calls are interchangeable. *)
Symmetry == Permutations(Worker)

(* What the future of a state depends on: nothing reads a decided request  *)
(* but for its match and its status, nor what was promised of a match that *)
(* is gone.                                                                *)
Alive ==
  <<match, ack, issued, job, torn,
    [i \in Request |-> IF i \in Requests \ Pending THEN <<req[i].match, req[i].status>>
                       ELSE req[i]],
    [m \in Match |-> IF m \in Matches THEN promised[m] ELSE None]>>
=============================================================================

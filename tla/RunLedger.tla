------------------------------ MODULE RunLedger ------------------------------
(***************************************************************************)
(* What a qualifier's pool promises of its runs, whatever requests, races  *)
(* and ticks it took: a run is opened by a draw or entered as a result, it *)
(* ends once, it may be voided once, and a player never holds more counting *)
(* runs than the pool allows nor two open ones.                            *)
(***************************************************************************)
EXTENDS Integers, FiniteSets

CONSTANTS
  Player,  \* who runs
  Entry,   \* the runs there may ever be
  None,    \* nobody
  Cap      \* counting runs a player may hold

VARIABLES
  owner,   \* whose an entry is
  life     \* where it is in its life

vars == <<owner, life>>

Counting(u) == {e \in Entry : owner[e] = u /\ life[e] \in {"open", "ended"}}
Open(u) == {e \in Entry : owner[e] = u /\ life[e] = "open"}
HasRoom(u) == Cardinality(Counting(u)) < Cap

Enter(e, u, as) ==
  /\ life[e] = "unused"
  /\ owner' = [owner EXCEPT ![e] = u]
  /\ life' = [life EXCEPT ![e] = as]

OpenRun(e, u) == HasRoom(u) /\ Open(u) = {} /\ Enter(e, u, "open")

RecordResult(e, u) == Enter(e, u, IF HasRoom(u) THEN "ended" ELSE "void")

Move(e, from, to) ==
  /\ life[e] = from
  /\ life' = [life EXCEPT ![e] = to]
  /\ UNCHANGED owner

End(e) == Move(e, "open", "ended")
Void(e) == Move(e, "ended", "void")

Init ==
  /\ owner = [e \in Entry |-> None]
  /\ life = [e \in Entry |-> "unused"]

Next ==
  \/ \E e \in Entry, u \in Player : OpenRun(e, u) \/ RecordResult(e, u)
  \/ \E e \in Entry : End(e) \/ Void(e)

Safe == Init /\ [][Next]_vars

(* No open run is left open. *)
Spec == Safe /\ \A e \in Entry : WF_vars(End(e))

TypeOK ==
  /\ owner \in [Entry -> Player \cup {None}]
  /\ life \in [Entry -> {"unused", "open", "ended", "void"}]

(* What the ledger's steps keep: no player is over the cap, and none has   *)
(* two open runs.                                                          *)
LedgerInv ==
  \A u \in Player : Cardinality(Counting(u)) <= Cap /\ Cardinality(Open(u)) <= 1
=============================================================================

--------------------------- MODULE MCQualifierRuns ---------------------------
(***************************************************************************)
(* Small instances of QualifierRuns.                                       *)
(***************************************************************************)
EXTENDS QualifierRuns, TLC

(* Requests are interchangeable, and so are the seeds a draw may offer,    *)
(* runners who are no reviewers and reviewers who do not run.              *)
Symmetry ==
  Permutations(Worker) \cup Permutations(Permalink \ Live)
    \cup Permutations(Player \ Reviewer) \cup Permutations(Reviewer \ Player)
=============================================================================

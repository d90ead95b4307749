----------------------------- MODULE MCGrading -----------------------------
(* Grading for TLC: bets and reviewers are interchangeable. *)
EXTENDS Grading, TLC

Symmetry == Permutations(Bet) \cup Permutations(Reviewer)
=============================================================================

---------------------------- MODULE MCQuizSession ----------------------------
(* Instances of QuizSession for TLC: model values for requests and task     *)
(* executions, which are interchangeable.                                   *)
EXTENDS QuizSession, TLC

Symmetry == Permutations(Req) \cup Permutations(Run)
==============================================================================

----------------------------- MODULE MCQuizPages -----------------------------
(* Instances of QuizPages for TLC.                                          *)
EXTENDS QuizPages, TLC
==============================================================================

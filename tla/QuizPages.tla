------------------------------ MODULE QuizPages -------------------------------
(***************************************************************************)
(* The page on which a quiz is taken: while its questions are streamed,    *)
(* and while they are answered.  The first leaves a quiz that is ready on  *)
(* the server, with which the second begins: a behaviour is one of one     *)
(* part, and the other stays at rest.                                      *)
(***************************************************************************)
EXTENDS QuizStream, QuizTake

VARIABLE part \* "stream" or "take"

pagesVars == <<part, streamVars, takeVars>>

Init ==
    /\ part \in {"stream", "take"} /\ StreamInit /\ TakeInit
    /\ part # "take" => mode = "normal"

Next ==
    \/ part = "stream" /\ StreamNext /\ UNCHANGED <<part, takeVars>>
    \/ part = "take" /\ TakeNext /\ UNCHANGED <<part, streamVars>>

Spec == Init /\ [][Next]_pagesVars /\ StreamFairness

-----------------------------------------------------------------------------
(* Properties *)

\* What the page shows is what the server was asked for and what was answered: a quiz that
\* is ready has its questions once for every visit, the stream is open while the page says
\* so, no question is passed over, a result is that of its question, and a page that waits
\* for a grade has a request under way.
QuizPagesConsistent ==
    /\ StreamTypeOK /\ ReadyHasItems /\ OneVisitOneCopy /\ OpenIsWanted /\ StreamingHasStream
    /\ TakeTypeOK /\ NothingPassedOver /\ ResultOfItem /\ GradingIsUnderWay
=============================================================================

------------------------------- MODULE Learning -------------------------------
(***************************************************************************)
(* The pages that make something to learn from: those for studying, and    *)
(* those on which a quiz is set up.  They read the same files and notes    *)
(* and hand over nothing else: a behaviour is one of one part, and the     *)
(* other stays at rest.                                                    *)
(***************************************************************************)
EXTENDS StudyPages, QuizSetup

VARIABLE part \* "study" or "setup"

learningVars == <<part, studyVars, setupVars>>

Init ==
    /\ part \in {"study", "setup"} /\ StudyInit /\ SetupInit
    /\ part # "setup" => files = [f \in File |-> "ready"]
    /\ part # "study" => ~short /\ made = [t \in Types |-> 0]

Next ==
    \/ part = "study" /\ StudyNext /\ UNCHANGED <<part, setupVars>>
    \/ part = "setup" /\ SetupNext /\ UNCHANGED <<part, studyVars>>

Spec == Init /\ [][Next]_learningVars

-----------------------------------------------------------------------------
(* Properties *)

\* What the pages show is what was chosen, asked for and read: a card and a version that
\* is shown exists, a tutor's answer is not mixed with another, the selections are among
\* what is listed, a request that was cancelled shows no quiz, and a prompt that was saved
\* is listed.
LearningConsistent ==
    /\ StudyTypeOK /\ StuckHasCause /\ NewestIsShown /\ CardExists
    /\ AnswerIsWhole /\ ComposerUnlocks /\ PickedAreVisible /\ OneSource /\ OpenPanelIsThere
    /\ SetupTypeOK /\ SelectedInFolder /\ NoticeStartsEmpty /\ CancelledIsNotShown
    /\ TierIsOffered /\ PromptsAreSaved

\* A mindmap on the screen is drawn whole: what is selected and collapsed is on it, no two
\* nodes overlap, and the nodes that are not drawn are counted.  (enrichWithDepth)
MapIsDrawnWhole == NodesExist /\ NodesApart /\ HiddenAreCounted
=============================================================================

----------------------------- MODULE StudyPages ------------------------------
(***************************************************************************)
(* The pages for studying: the list on which it begins, and the viewer of  *)
(* one document, Studied, with its contents and its tutor.  Only one page, *)
(* and one tab of the viewer, is open at a time; what a page asked for     *)
(* goes on when it is left.                                                *)
(***************************************************************************)
EXTENDS StudyContent, TutorChat, StudyStart

CONSTANTS
    Studied, \* the document whose viewer is modelled
    MaxUse   \* bound on what the user does on all of the pages

ASSUME PagesAssumption == Studied \in Docs /\ MaxUse \in Nat

studyVars == <<contentVars, chatVars, startVars>>

StudyInit == ContentInit /\ ChatInit /\ StartInit

InUse == acts' + forms' + questions' + newChats' <= MaxUse

\* The tab of the tutor is mounted and unmounted with its page.
ChatFollows ==
    IF tab # "tutor" /\ tab' = "tutor" THEN EnterChat
    ELSE IF tab = "tutor" /\ tab' # "tutor" THEN LeaveChat
    ELSE UNCHANGED chatVars

\* A link to the list, or to the viewer, from elsewhere.
VisitList == at = "away" /\ EnterStart(0) /\ UNCHANGED <<contentVars, chatVars>>

VisitViewer == at = "away" /\ LeaveStart(Studied) /\ OpenViewer /\ UNCHANGED chatVars

\* The button of the viewer, and of the page of a document that is gone.
BackToList == at = Studied /\ CloseViewer /\ EnterStart(1) /\ ChatFollows /\ InUse

\* The list opens the viewer, and the document of a topic closes it.
List ==
    /\ StartNext
    /\ IF at' = at THEN UNCHANGED <<contentVars, chatVars>>
       ELSE IF at' = Studied THEN OpenViewer /\ UNCHANGED chatVars
       ELSE IF tab # "none" THEN CloseViewer /\ ChatFollows
       ELSE UNCHANGED <<contentVars, chatVars>>
    /\ InUse

Content == ContentNext /\ ChatFollows /\ UNCHANGED startVars /\ InUse

Chat == ChatNext /\ UNCHANGED <<contentVars, startVars>> /\ InUse

StudyNext == VisitList \/ VisitViewer \/ BackToList \/ List \/ Content \/ Chat

StudySpec == StudyInit /\ [][StudyNext]_studyVars

\* Every part has its type.
StudyTypeOK == ContentTypeOK /\ ChatTypeOK /\ StartTypeOK /\ (tab # "none" => at = Studied)
=============================================================================

------------------------------- MODULE Library --------------------------------
(***************************************************************************)
(* The page with the files and the queue of the uploads on it.  The queue  *)
(* gives the list its files (Uploaded) and has it read again, the list     *)
(* tells the queue nothing: a behaviour is one of the queue or one of the  *)
(* list, and the other part stays as it was at first.                      *)
(***************************************************************************)
EXTENDS UploadQueue, FilesPage

VARIABLE part \* "queue" or "list"

libraryVars == <<part, queueVars, filesVars>>

Init == part \in {"queue", "list"} /\ QueueInit /\ FilesInit

Next ==
    \/ part = "queue" /\ QueueNext /\ UNCHANGED <<part, filesVars>>
    \/ part = "list" /\ FilesNext /\ UNCHANGED <<part, queueVars>>

Spec == Init /\ [][Next]_libraryVars

-----------------------------------------------------------------------------
(* Properties *)

\* The queue keeps its counts and its rows in step: what every step of uploadOne and of
\* the pump has to leave true.
QueueConsistent ==
    QueueTypeOK /\ RunningIsOpen /\ ActiveIsReal /\ RunningIsCancellable /\ DoneIsStored

\* The list follows the files and the folders that are there: what the queries, the
\* mutations of the page and the worker have to leave true together.
FilesConsistent ==
    FilesTypeOK /\ DeletedLeavesList /\ ViewFolderExists /\ FolderOfFileExists
=============================================================================

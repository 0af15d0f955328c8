------------------------------ MODULE FilesPage ------------------------------
(***************************************************************************)
(* The list of the files page: what it shows of the server's files and     *)
(* folders (a query that is polled, invalidated and keeps its former rows  *)
(* while it loads), the selection, and the mutations that buttons and      *)
(* dialogs start; with the file handlers of the server and the worker that *)
(* parses files, which is running while the user deletes, moves, retries.  *)
(***************************************************************************)
EXTENDS Naturals, FiniteSets

CONSTANTS
    File,       \* files of the user
    Uploaded,   \* those that were just uploaded; the others are ready
    Folder,     \* folders of the user, and names of new ones
    Existing,   \* the folders there are at first
    MaxRetries, \* max_retry_count
    MaxOps,     \* bound on the mutations the user starts
    FilesFaults \* "network": a request fails; "dispatch": the broker refuses
                \* a task; "crash": a worker dies and its task is redelivered

\* No folder, the root, and the view of all files, none of which is a folder.
None == "none"
Root == "root"
All  == "all"

ASSUME FilesAssumption ==
    /\ Folder \cap {None, Root, All} = {}
    /\ Uploaded \subseteq File
    /\ Existing \subseteq Folder
    /\ MaxRetries \in Nat
    /\ MaxOps \in Nat
    /\ FilesFaults \subseteq {"network", "dispatch", "crash"}

\* parsing stands for the statuses a worker sets on the way, failed for both
\* failed_partial and failed_terminal.
Processing == {"uploaded", "parsing"}
Failed     == {"failed"}
FileStatus == Processing \cup Failed \cup {"ready", "deleted"}

VARIABLES
    file,     \* the server's record of a file: st, folder, gone (deleted_at is
              \* set), doc (it has a parsed document), tries (retry_count)
    worker,   \* process_file of a file: "idle", "queued", "parsing", "embedding"
    folders,  \* the folders that exist
    view,     \* selectedFolderId
    rows,     \* the rows of the list: what is shown of a file, or "none"
    fetch,    \* the request for the list ("no", "asked", "answered"), with its rows
    sel,      \* selectedFileIds
    mut,      \* mutations in flight
    ops,
    missed    \* history: files deleted by a batch of which another part failed

filesVars == <<file, worker, folders, view, rows, fetch, sel, mut, ops, missed>>

server  == <<file, worker, folders>>
listing == <<view, rows, fetch>>

NoRows == [f \in File |-> None]
NoFetch == [st |-> "no", rows |-> NoRows]
Asked   == [st |-> "asked", rows |-> NoRows]

FilesInit ==
    /\ file = [f \in File |-> [st |-> IF f \in Uploaded THEN "uploaded" ELSE "ready",
                               folder |-> Root, gone |-> FALSE,
                               doc |-> f \notin Uploaded, tries |-> 0]]
    /\ worker = [f \in File |-> IF f \in Uploaded THEN "queued" ELSE "idle"]
    /\ folders = Existing
    /\ view = All
    /\ rows = NoRows
    /\ fetch = Asked
    /\ sel = {}
    /\ mut = {}
    /\ ops = 0
    /\ missed = {}

-----------------------------------------------------------------------------
(* process_file, a task per upload or retry *)

Put(f, r, w) ==
    /\ file' = [file EXCEPT ![f] = r]
    /\ worker' = [worker EXCEPT ![f] = w]
    /\ UNCHANGED <<folders, listing, sel, mut, ops, missed>>

\* The status is written whatever has become of the file.
StartParsing(f) ==
    /\ worker[f] = "queued"
    /\ Put(f, [file[f] EXCEPT !.st = "parsing"], "parsing")

\* Mutant: an empty text leaves the file as it is.
ForgetEmpty(f) ==
    /\ worker[f] = "parsing"
    /\ \/ Put(f, file[f], "idle")
       \/ ~file[f].doc /\ Put(f, [file[f] EXCEPT !.doc = TRUE], "embedding")

\* The text is extracted, or cannot be; the document of the file is inserted.
\* A file has one: a second insert fails, and its rollback leaves the status.
Parse(f) ==
    /\ worker[f] = "parsing"
    /\ \/ Put(f, [file[f] EXCEPT !.st = "failed"], "idle")
       \/ ~file[f].doc /\ Put(f, [file[f] EXCEPT !.doc = TRUE], "embedding")
       \/ file[f].doc /\ Put(f, file[f], "idle")

FinishParsing(f) ==
    /\ worker[f] = "embedding"
    /\ \E st \in {"ready", "failed"} : Put(f, [file[f] EXCEPT !.st = st], "idle")

CrashWorker(f) ==
    /\ "crash" \in FilesFaults
    /\ worker[f] \in {"parsing", "embedding"}
    /\ Put(f, file[f], "queued")

LoseTask(f) ==
    /\ "dispatch" \in FilesFaults
    /\ worker[f] = "queued" /\ file[f].st = "uploaded"
    /\ Put(f, file[f], "idle")

-----------------------------------------------------------------------------
(* The query of the list *)

Matches(f, v) ==
    /\ ~file[f].gone
    /\ v \in {All, file[f].folder}

\* What a row tells of the status: whether to poll, and whether to offer a retry.
Badge(f) == IF file[f].st \in Processing THEN "processing" ELSE file[f].st

Listed(f) == rows[f] # None

\* list_files.
ReadList ==
    /\ fetch = Asked
    /\ fetch' = [st |-> "answered",
                 rows |-> [f \in File |-> IF Matches(f, view) THEN Badge(f) ELSE None]]
    /\ UNCHANGED <<server, view, rows, sel, mut, ops, missed>>

ShowList ==
    /\ fetch.st = "answered"
    /\ rows' = fetch.rows
    /\ fetch' = NoFetch
    /\ UNCHANGED <<server, view, sel, mut, ops, missed>>

\* refetchInterval: while a file of the list is being processed.
Poll ==
    /\ fetch = NoFetch
    /\ \E f \in File : rows[f] = "processing"
    /\ fetch' = Asked
    /\ UNCHANGED <<server, view, rows, sel, mut, ops, missed>>

\* invalidateQueries(['files']): an answer in flight is dropped.
Invalidate == fetch' = Asked

-----------------------------------------------------------------------------
(* What the user does on the page *)

\* Folder buttons: the selection is cleared.  (So it is by the status filter.)
ChooseView(v) ==
    /\ v # view
    /\ v \in folders \cup {All}
    /\ view' = v
    /\ fetch' = Asked
    /\ sel' = {}
    /\ UNCHANGED <<server, rows, mut, ops, missed>>

\* The button of an empty list resets the filters, not the selection.
ResetFilters ==
    /\ rows = NoRows /\ view # All
    /\ view' = All
    /\ fetch' = Asked
    /\ UNCHANGED <<server, rows, sel, mut, ops, missed>>

ToggleFileSelection(f) ==
    /\ Listed(f)
    /\ sel' = IF f \in sel THEN sel \ {f} ELSE sel \cup {f}
    /\ UNCHANGED <<server, listing, mut, ops, missed>>

Visible == {f \in File : Listed(f)}

SelectAllToggle ==
    /\ Visible # {}
    /\ sel' = IF Visible \subseteq sel THEN sel \ Visible ELSE sel \cup Visible
    /\ UNCHANGED <<server, listing, mut, ops, missed>>

Pending(op) == \E m \in mut : m.op = op

\* mutate(): one request for every file in S, all at once.  n tells a mutation from
\* another that is in flight.
Start(op, S, d) ==
    /\ ops < MaxOps
    /\ ops' = ops + 1
    /\ mut' = mut \cup {[n |-> IF Pending(op) THEN ops ELSE 0, op |-> op,
                         files |-> S, todo |-> S, ok |-> TRUE, folder |-> d]}

\* Buttons, the batch bar and the dialogs.  Only the deletions of one file and
\* of a folder disable their button; the folder chosen for a move is kept from
\* the last time and may be gone.
StartMutation ==
    /\ \/ ~Pending("delete") /\ \E f \in Visible : Start("delete", {f}, None)
       \/ ~Pending("delete_folder") /\ \E d \in folders : Start("delete_folder", {}, d)
       \/ sel # {} /\ \E d \in Folder \cup {Root} : Start("move", sel, d)
       \/ sel # {} /\ Start("delete_selected", sel, None)
       \/ \E f \in Visible : Start("rename", {f}, None)
       \/ \E f \in Visible : rows[f] = "failed" /\ Start("retry", {f}, None)
       \/ \E d \in Folder \ folders : Start("create_folder", {}, d)
    /\ UNCHANGED <<server, listing, sel, missed>>

-----------------------------------------------------------------------------
(* The handlers of the server, one request of a mutation each *)

\* get_owned_file: 404 once the file is deleted.
Owned(f) == ~file[f].gone

Refuses(m, f) ==
    \/ ~Owned(f)
    \/ m.op = "move" /\ m.folder \notin folders \cup {Root}
    \/ m.op = "retry" /\ (file[f].st \notin Failed \cup {"uploaded"} \/ file[f].tries >= MaxRetries)

Handled(m, f, ok) ==
    mut' = (mut \ {m}) \cup {[m EXCEPT !.todo = @ \ {f}, !.ok = @ /\ ok]}

Refuse(m, f) ==
    /\ f \in m.todo
    /\ Refuses(m, f) \/ "network" \in FilesFaults
    /\ Handled(m, f, FALSE)
    /\ missed' = IF m.op = "delete_selected" THEN missed \cup {g \in m.files : file[g].gone} ELSE missed
    /\ UNCHANGED <<server, listing, sel, ops>>

\* delete_file, move_file, rename_file and retry_file.
Serve(m, f) ==
    /\ f \in m.todo /\ ~Refuses(m, f)
    /\ Handled(m, f, TRUE)
    /\ file' = [file EXCEPT ![f] =
          CASE m.op \in {"delete", "delete_selected"} -> [@ EXCEPT !.st = "deleted", !.gone = TRUE]
            [] m.op = "move"   -> [@ EXCEPT !.folder = m.folder]
            [] m.op = "rename" -> @
            [] m.op = "retry"  -> [@ EXCEPT !.st = "uploaded", !.tries = @ + 1]]
    /\ worker' = IF m.op = "retry" THEN [worker EXCEPT ![f] = "queued"] ELSE worker
    /\ missed' = IF m.op = "delete_selected" /\ ~m.ok THEN missed \cup {f} ELSE missed
    /\ UNCHANGED <<folders, listing, sel, ops>>

\* create_folder and delete_folder, whose files move to the root.
ServeFolder(m) ==
    /\ m.op \in {"create_folder", "delete_folder"} /\ m.folder # None
    /\ IF m.op = "create_folder"
       THEN folders' = folders \cup {m.folder} /\ UNCHANGED file
       ELSE /\ folders' = folders \ {m.folder}
            /\ file' = [f \in File |-> IF file[f].folder = m.folder
                                       THEN [file[f] EXCEPT !.folder = Root] ELSE file[f]]
    /\ mut' = (mut \ {m}) \cup {[m EXCEPT !.folder = None, !.files = {m.folder}]}
    /\ UNCHANGED <<worker, listing, sel, ops, missed>>

-----------------------------------------------------------------------------
(* The mutations settle *)

Answered(m) == m.todo = {} /\ m \in mut /\ (m.op \in {"create_folder", "delete_folder"} => m.folder = None)

\* Mutant: the deletion of a file does not read the list again.
DeletedOnly(m) ==
    /\ Answered(m) /\ m.ok /\ m.op = "delete"
    /\ mut' = mut \ {m}
    /\ UNCHANGED <<server, listing, sel, ops, missed>>

\* onSuccess of deleteMutation: a deleted file stays selected.
Deleted(m) ==
    /\ Answered(m) /\ m.ok /\ m.op = "delete"
    /\ mut' = mut \ {m}
    /\ Invalidate
    /\ UNCHANGED <<server, view, rows, sel, ops, missed>>

\* onSuccess of deleteSelectedMutation and moveMutation.
BatchDone(m) ==
    /\ Answered(m) /\ m.ok /\ m.op \in {"delete_selected", "move"}
    /\ mut' = mut \ {m}
    /\ Invalidate
    /\ sel' = {}
    /\ UNCHANGED <<server, view, rows, ops, missed>>

\* onSuccess of renameMutation and retryMutation.
RowChanged(m) ==
    /\ Answered(m) /\ m.ok /\ m.op \in {"rename", "retry"}
    /\ mut' = mut \ {m}
    /\ Invalidate
    /\ UNCHANGED <<server, view, rows, sel, ops, missed>>

FolderCreated(m) ==
    /\ Answered(m) /\ m.op = "create_folder"
    /\ mut' = mut \ {m}
    /\ UNCHANGED <<server, listing, sel, ops, missed>>

\* onSuccess of deleteFolderMutation: the view leaves the folder.
FolderDeleted(m) ==
    /\ Answered(m) /\ m.op = "delete_folder"
    /\ mut' = mut \ {m}
    /\ view' = IF view \in m.files THEN All ELSE view
    /\ fetch' = Asked
    /\ UNCHANGED <<server, rows, sel, ops, missed>>

\* A mutation of which a request failed: nothing is invalidated.
MutationFailed(m) ==
    /\ Answered(m) /\ ~m.ok
    /\ mut' = mut \ {m}
    /\ UNCHANGED <<server, listing, sel, ops, missed>>

Settle(m) ==
    Deleted(m) \/ BatchDone(m) \/ RowChanged(m) \/ FolderCreated(m)
    \/ FolderDeleted(m) \/ MutationFailed(m)

-----------------------------------------------------------------------------
Views == Folder \cup {All}

FilesUser ==
    \/ \E v \in Views : ChooseView(v)
    \/ ResetFilters \/ SelectAllToggle \/ StartMutation
    \/ \E f \in File : ToggleFileSelection(f)

Worker == \E f \in File :
    StartParsing(f) \/ Parse(f) \/ FinishParsing(f) \/ CrashWorker(f) \/ LoseTask(f)

FilesNext ==
    \/ FilesUser \/ Worker
    \/ ReadList \/ ShowList \/ Poll
    \/ \E m \in mut : \/ \E f \in File : Serve(m, f) \/ Refuse(m, f)
                      \/ ServeFolder(m) \/ Settle(m)

FilesSpec == FilesInit /\ [][FilesNext]_filesVars

-----------------------------------------------------------------------------
FilesTypeOK ==
    /\ file \in [File -> [st : FileStatus, folder : Folder \cup {Root}, gone : BOOLEAN,
                          doc : BOOLEAN, tries : 0..MaxRetries]]
    /\ worker \in [File -> {"idle", "queued", "parsing", "embedding"}]
    /\ folders \subseteq Folder
    /\ view \in Views
    /\ rows \in [File -> {None, "processing", "ready", "failed"}]
    /\ sel \subseteq File
    /\ \A m \in mut : m.todo \subseteq m.files
    /\ ops \in 0..MaxOps

\* A deletion that was reported as done leaves the list: no answer read before
\* it is shown after it.  Only a batch that failed in part leaves deleted files.
DeletedLeavesList ==
    \A f \in File : Listed(f) /\ file[f].gone /\ fetch = NoFetch =>
        f \in missed \/ \E m \in mut : f \in m.files

\* The page never stays in a folder that is gone.
ViewFolderExists ==
    view \in folders \cup {All} \/ \E m \in mut : m.op = "delete_folder"

\* A file is processed for ever only if its task was never dispatched, or a
\* former run of it had already stored its document.
StuckHasCause ==
    \A f \in File : file[f].st \in Processing /\ worker[f] = "idle" =>
        file[f].st = "uploaded" \/ file[f].doc

\* The files of a folder that is deleted are kept, in the root.
FolderOfFileExists == \A f \in File : file[f].folder \in folders \cup {Root}
==============================================================================

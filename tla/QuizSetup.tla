------------------------------ MODULE QuizSetup ------------------------------
(***************************************************************************)
(* The pages from which a quiz is asked for: the form of a new quiz, the   *)
(* form of a retry set, the wrong notes that lead to it, and the saved     *)
(* prompts both forms share.  The lists on these pages are read again      *)
(* while the user selects from them, and the request that creates the      *)
(* quiz goes on when its form is left.                                     *)
(*                                                                         *)
(* Of the settings only those are kept that something else depends on: the *)
(* tier (stored in the browser) and the instruction (saved as a prompt).   *)
(* Mode, difficulty and question types are data of the request.            *)
(***************************************************************************)
EXTENDS Naturals, FiniteSets

CONSTANTS
    None,
    File,        \* the user's files
    Folder,      \* a folder
    FolderFiles, \* the files in it; the others are in none
    Note,        \* wrong notes
    NotesIncorrect, \* those that are incorrect; the others are partly correct
    Concept,     \* concepts
    ConceptOf,   \* the concept of a note, None if it has none
    Group,       \* the files of notes, and one group for notes without a file
    GroupOf,     \* the group of a note
    PageSize,    \* notes on a page of the list
    Tier,        \* the tiers offered
    OldTier,     \* a tier that is no longer offered
    Stored,      \* what the browser may have stored as the tier
    Slot,        \* the slots for saved prompts
    Text,        \* instructions
    MaxPosts,    \* bound on the quizzes asked for
    MaxEdits,    \* bound on the changes to forms, selections, files and notes
    MaxMoves,    \* bound on the pages opened
    SetupUse     \* bound on both together

ASSUME SetupAssumption ==
    /\ FolderFiles \subseteq File
    /\ NotesIncorrect \subseteq Note
    /\ ConceptOf \in [Note -> Concept \cup {None}]
    /\ GroupOf \in [Note -> Group]
    /\ OldTier \notin Tier /\ Tier # {} /\ Stored \subseteq {None, OldTier}
    /\ None \notin Concept \cup Group \cup Text \cup Tier \cup {OldTier, Folder}
    /\ PageSize \in Nat \ {0}
    /\ {MaxPosts, MaxEdits, MaxMoves, SetupUse} \subseteq Nat

VARIABLES
    files,    \* on the server: "ready" or "other" (no such file, or not eligible)
    notes,    \* on the server
    slots,    \* on the server: the text of each saved prompt
    site,     \* "new", "retry", "notes" or "quiz", which stands for every other page
    offered,  \* the files as the form of a new quiz lists them
    shown,    \* the notes as a page lists them
    got,      \* the files have been listed before
    pref,     \* quiz_preferred_tier in the browser
    prompts,  \* the cached slots; reading: a list under way; stale: a list read
              \* before a save has arrived after it
    entry,    \* state of QuizNew
    retry,    \* state of Retry
    list,     \* state of WrongNotes
    text,     \* the instruction on the form
    posts,    \* quizzes asked for
    edits,
    moves

setupVars == <<files, notes, slots, site, offered, shown, got, pref, prompts, entry, retry, list, text, posts, edits, moves>>

setupServer  == <<files, notes, slots>>
setupQueries == <<offered, shown, got>>
pages   == <<site, entry, retry, list, text>>

NewForm == [source |-> "document", sel |-> {}, folder |-> None, pre |-> {}, applied |-> FALSE, topic |-> "no",
            modal |-> FALSE, confirmed |-> FALSE]

NewRetry == [how |-> "ai", brought |-> {}, group |-> None, keys |-> {}]

NewList == [at |-> 1, incorrect |-> FALSE, sel |-> {}]

NoPost == [st |-> "no", form |-> 0, awaited |-> FALSE, tier |-> None, cancelled |-> FALSE]

SetupInit ==
    /\ files \in [File -> {"ready", "other"}]
    /\ notes = Note
    /\ slots = [s \in Slot |-> None]
    /\ site = "quiz"
    /\ offered = [f \in File |-> "other"]
    /\ shown = {}
    /\ got = FALSE
    /\ pref \in Stored
    /\ prompts = [has |-> FALSE, cached |-> slots, reading |-> FALSE, read |-> slots, stale |-> FALSE]
    /\ entry = NewForm /\ retry = NewRetry /\ list = NewList
    /\ text = None
    /\ posts = [i \in 1..MaxPosts |-> NoPost]
    /\ edits = 0 /\ moves = 0

SetupInUse == edits + moves < SetupUse

EditSetup == SetupInUse /\ edits < MaxEdits /\ edits' = edits + 1

\* The forms share the component SavedPromptSlots.
OnForm == site \in {"new", "retry"}

-----------------------------------------------------------------------------
(* Moving between the pages: a page is a fresh component *)

Move(to) == SetupInUse /\ moves < MaxMoves /\ moves' = moves + 1 /\ site' = to /\ text' = None

\* The saved prompts are read when a form opens; the list goes on without it.
ReadPromptsAgain ==
    prompts' = IF prompts.reading THEN prompts ELSE [prompts EXCEPT !.reading = TRUE, !.read = slots]

\* The form of a new quiz.  From the page of a file, that file is to be selected;
\* from a quiz whose topic was refused, the topic is asked for again.
OpenNew ==
    /\ site = "quiz" /\ Move("new")
    /\ \/ \E pre \in {{}} \cup {{f} : f \in File} : entry' = [NewForm EXCEPT !.pre = pre]
       \/ entry' = [NewForm EXCEPT !.source = "topic"]
    /\ ReadPromptsAgain
    /\ UNCHANGED <<setupServer, setupQueries, pref, retry, list, posts, edits>>

OpenNotes ==
    /\ site \in {"quiz", "retry"} /\ Move("notes")
    /\ list' = NewList /\ retry' = NewRetry
    /\ UNCHANGED <<setupServer, setupQueries, pref, prompts, entry, posts, edits>>

BackHome ==
    /\ site # "quiz" /\ site' = "quiz" /\ text' = None
    /\ entry' = NewForm /\ retry' = NewRetry /\ list' = NewList
    /\ UNCHANGED <<setupServer, setupQueries, pref, prompts, posts, edits, moves>>

-----------------------------------------------------------------------------
(* What happens on the server meanwhile *)

FileChanges ==
    /\ EditSetup
    /\ \E f \in File, s \in {"ready", "other"} :
          /\ files[f] # s
          /\ files' = [files EXCEPT ![f] = s]
    /\ UNCHANGED <<notes, slots, pages, setupQueries, pref, prompts, posts, moves>>

\* An objection is accepted, or a quiz is deleted, in another tab.
NoteGoes ==
    /\ EditSetup
    /\ \E n \in notes : notes' = notes \ {n}
    /\ UNCHANGED <<files, slots, pages, setupQueries, pref, prompts, posts, moves>>

-----------------------------------------------------------------------------
(* The form of a new quiz *)

Listed == {f \in File : offered[f] # "other"}

\* The effect that selects the file the form was opened for, once it is listed.
Preselect(fm, now) ==
    IF fm.pre # {} /\ ~fm.applied /\ \A f \in fm.pre : now[f] # "other"
    THEN [fm EXCEPT !.sel = fm.pre, !.source = "document", !.applied = TRUE] ELSE fm

\* The list is read when the form opens, and every two seconds while a file is
\* processed; a file that has gone stays selected.
ReadFiles ==
    /\ site = "new"
    /\ offered' = files
    /\ got' = TRUE
    /\ entry' = Preselect(entry, files)
    /\ UNCHANGED <<setupServer, site, shown, pref, prompts, retry, list, text, posts, edits, moves>>

VisibleReady == {f \in File : offered[f] = "ready" /\ (entry.folder = None \/ f \in FolderFiles)}

AllShownSelected == VisibleReady # {} /\ VisibleReady \subseteq entry.sel

Awaited == {i \in 1..MaxPosts : posts[i].awaited /\ posts[i].form = moves}

\* Only the request of this form makes it wait.
IsPending == Awaited # {}

\* Until the files are listed there is a placeholder.
OnNew == site = "new" /\ got

OnFiles == OnNew /\ entry.source = "document" /\ ~entry.modal

SetForm(fm) ==
    /\ EditSetup
    /\ entry' = fm
    /\ UNCHANGED <<setupServer, site, setupQueries, pref, prompts, retry, list, text, posts, moves>>

CanChooseSource == OnNew /\ ~entry.modal

SourceModeChange ==
    /\ CanChooseSource
    /\ \E s \in {"document", "topic", "none"} : s # entry.source /\ SetForm([entry EXCEPT !.source = s])

Toggled(set, x) == IF x \in set THEN set \ {x} ELSE set \cup {x}

CanToggleFile(f) == OnFiles /\ f \in VisibleReady

FileToggle == \E f \in File : CanToggleFile(f) /\ SetForm([entry EXCEPT !.sel = Toggled(@, f)])

CanSelectAll == OnFiles /\ VisibleReady # {}

SelectAllToggle ==
    /\ CanSelectAll
    /\ SetForm([entry EXCEPT !.sel = IF AllShownSelected THEN @ \ VisibleReady ELSE @ \cup VisibleReady])

\* Mutant: another folder is shown, and the selection stays.
FolderKeepsSelection ==
    /\ OnFiles
    /\ \E d \in {None, Folder} : SetForm([entry EXCEPT !.folder = d])

FolderChange ==
    /\ OnFiles
    /\ \E d \in {None, Folder} : SetForm([entry EXCEPT !.folder = d, !.sel = {}])

TypeSubject ==
    /\ OnNew /\ entry.source = "topic" /\ ~entry.modal
    /\ \E t \in {"no", "topic", "url"} : t # entry.topic /\ SetForm([entry EXCEPT !.topic = t])

ResetNoSourceModal(fm) == [fm EXCEPT !.modal = FALSE, !.confirmed = FALSE]

CanCreate ==
    /\ OnNew /\ ~entry.modal /\ ~IsPending
    /\ entry.source = "document" => entry.sel # {}
    /\ entry.source = "topic" => entry.topic # "no"

\* A topic that is no URL, and a quiz without a source, ask for confirmation.
AsksFirst == entry.source = "none" \/ (entry.source = "topic" /\ entry.topic = "topic")

\* The tier that is used: the stored one if it is still offered.
DefaultTier == CHOOSE t \in Tier : TRUE

\* known: the tiers offered have been read.
ActiveTier(known) == IF ~known THEN None ELSE IF pref \in Tier THEN pref ELSE DefaultTier

Post ==
    \E i \in 1..MaxPosts, known \in BOOLEAN :
        /\ posts[i] = NoPost /\ \A j \in 1..(i - 1) : posts[j] # NoPost
        /\ posts' = [posts EXCEPT ![i] = [st |-> "sent", form |-> moves, awaited |-> TRUE,
                                          tier |-> ActiveTier(known), cancelled |-> FALSE]]

Submit ==
    /\ CanCreate
    /\ \/ AsksFirst /\ entry' = [entry EXCEPT !.modal = TRUE] /\ UNCHANGED posts
       \/ ~AsksFirst /\ UNCHANGED entry /\ Post
    /\ UNCHANGED <<setupServer, site, setupQueries, pref, prompts, retry, list, text, edits, moves>>

\* "edits" counts the box once for each time the dialog is open.
TickBox ==
    /\ OnNew /\ entry.modal
    /\ SetForm([entry EXCEPT !.confirmed = ~@])

CanConfirm == OnNew /\ entry.modal /\ entry.confirmed /\ ~IsPending

ConfirmNoSource ==
    /\ CanConfirm
    /\ Post
    /\ UNCHANGED <<setupServer, pages, setupQueries, pref, prompts, edits, moves>>

\* While a quiz is being created the dialog cannot be closed.
CanCloseModal == OnNew /\ entry.modal /\ ~IsPending

CloseModal ==
    /\ CanCloseModal
    /\ entry' = ResetNoSourceModal(entry)
    /\ UNCHANGED <<setupServer, site, setupQueries, pref, prompts, retry, list, text, posts, edits, moves>>

Abort(p) == [p EXCEPT !.awaited = FALSE, !.cancelled = TRUE]

CanCancel == site = "new" /\ IsPending

\* The request is aborted in the browser; the server may go on with it.
CancelGeneration ==
    /\ CanCancel
    /\ posts' = [i \in 1..MaxPosts |-> IF i \in Awaited THEN Abort(posts[i]) ELSE posts[i]]
    /\ entry' = ResetNoSourceModal(entry)
    /\ UNCHANGED <<setupServer, site, setupQueries, pref, prompts, retry, list, text, edits, moves>>

-----------------------------------------------------------------------------
(* The request on the server, and its reply *)

\* A quiz is created unless a file is gone or the quota is used up.
Create(i) ==
    /\ posts[i].st = "sent"
    /\ posts' = [posts EXCEPT ![i].st = "made"]
    /\ UNCHANGED <<setupServer, pages, setupQueries, pref, prompts, edits, moves>>

QuizRefused(i) ==
    /\ posts[i].st = "sent"
    /\ posts' = [posts EXCEPT ![i].st = "refused", ![i].awaited = FALSE]
    /\ UNCHANGED <<setupServer, pages, setupQueries, pref, prompts, edits, moves>>

ReplyLost(i) ==
    /\ posts[i].st = "made"
    /\ posts' = [posts EXCEPT ![i].st = "lost", ![i].awaited = FALSE]
    /\ UNCHANGED <<setupServer, pages, setupQueries, pref, prompts, edits, moves>>

\* The reply of a request that was not aborted leads to the quiz, from
\* whatever page the user is on by then.
GoToQuiz(i) ==
    /\ posts[i].st = "made" /\ posts[i].awaited
    /\ posts' = [posts EXCEPT ![i].st = "shown", ![i].awaited = FALSE]
    /\ site' = "quiz" /\ text' = None
    /\ entry' = NewForm /\ retry' = NewRetry /\ list' = NewList
    /\ UNCHANGED <<setupServer, setupQueries, pref, prompts, edits, moves>>

-----------------------------------------------------------------------------
(* Wrong notes *)

Matching(ns) == IF list.incorrect THEN ns \cap NotesIncorrect ELSE ns

\* The page of the list that is asked for has no notes.
ShowsEmpty == (list.at - 1) * PageSize >= Cardinality(Matching(shown))

Pages == (Cardinality(Matching(shown)) + PageSize - 1) \div PageSize

ReadNotes ==
    /\ site \in {"notes", "retry"}
    /\ shown' = notes
    /\ UNCHANGED <<setupServer, site, offered, got, pref, prompts, entry, list, text, posts, edits, moves>>

SetList(l) ==
    /\ EditSetup
    /\ list' = l
    /\ UNCHANGED <<setupServer, site, setupQueries, pref, prompts, entry, retry, text, posts, moves>>

CanToggleNote(n) == site = "notes" /\ ~ShowsEmpty /\ n \in Matching(shown)

\* The box beside a note; the selection is kept over pages and filters.
NoteToggle == \E n \in Note : CanToggleNote(n) /\ SetList([list EXCEPT !.sel = Toggled(@, n)])

ClearNotes == site = "notes" /\ list.sel # {} /\ SetList([list EXCEPT !.sel = {}])

\* The page asked for is kept when the filter changes.
FilterChange == site = "notes" /\ SetList([list EXCEPT !.incorrect = ~@])

\* The numbers of the pages are there even if the page asked for has no notes.
CanTurnPage == site = "notes" /\ Cardinality(Matching(shown)) > PageSize

PageChange ==
    /\ CanTurnPage
    /\ \E k \in 1..Pages : k # list.at /\ SetList([list EXCEPT !.at = k])

-----------------------------------------------------------------------------
(* The form of a retry set *)

Groups(ns) == {GroupOf[n] : n \in {m \in ns : ConceptOf[m] # None}}

ConceptsOf(ns, g) == {ConceptOf[n] : n \in {m \in ns : GroupOf[m] = g}} \ {None}

Offered(r, ns) == IF r.brought # {} THEN r.brought ELSE ConceptsOf(ns, r.group)

\* A group that has gone is replaced by another one, and nothing is selected then.
GroupEffect(r, ns) ==
    IF r.group \in Groups(ns) THEN {r}
    ELSE IF Groups(ns) = {} THEN {[r EXCEPT !.group = None]}
    ELSE {[r EXCEPT !.group = g] : g \in Groups(ns)}

\* Mutant: the keys are not looked at again.
KeysEffectLost(r, ns) == {r}

\* Keys that are no longer offered go; if none is left, another is selected.
KeysEffect(r, ns) ==
    LET valid == Offered(r, ns)
        left  == r.keys \cap valid
    IN  IF left = r.keys THEN {r}
        ELSE IF left # {} \/ valid = {} THEN {[r EXCEPT !.keys = left]}
        ELSE {[r EXCEPT !.keys = {k}] : k \in valid}

\* Both effects; with a group that has gone no key is offered at first.
RetryEffects(r, ns) ==
    IF r.brought = {} /\ r.group \notin Groups(ns) THEN GroupEffect([r EXCEPT !.keys = {}], ns)
    ELSE UNION {GroupEffect(q, ns) : q \in KeysEffect(r, ns)}

\* With the concepts of the notes selected, or with none.
OpenRetry ==
    /\ \/ site = "notes"
       \/ site = "quiz"
    /\ Move("retry")
    /\ LET brought == IF site = "notes" THEN {ConceptOf[n] : n \in list.sel} \ {None} ELSE {} IN
       retry' \in RetryEffects([NewRetry EXCEPT !.brought = brought], shown)
    /\ list' = NewList
    /\ ReadPromptsAgain
    /\ UNCHANGED <<setupServer, setupQueries, pref, entry, posts, edits>>

ReadNotesForRetry ==
    /\ ReadNotes
    /\ retry' \in IF site = "retry" THEN RetryEffects(retry, notes) ELSE {retry}

SetRetry(r) ==
    /\ EditSetup
    /\ retry' = r
    /\ UNCHANGED <<setupServer, site, setupQueries, pref, prompts, entry, list, text, posts, moves>>

CanChooseMode == site = "retry"

ConceptModeChange ==
    /\ CanChooseMode
    /\ \E h \in {"ai", "manual"} : h # retry.how /\ SetRetry([retry EXCEPT !.how = h])

Manual == site = "retry" /\ retry.how = "manual"

\* The groups are offered unless concepts were brought.
CanChooseGroup == Manual /\ retry.brought = {}

GroupChange ==
    /\ CanChooseGroup
    /\ \E g \in Groups(shown) : SetRetry([retry EXCEPT !.group = g, !.keys = {}])

ConceptToggle ==
    /\ Manual
    /\ \E k \in Offered(retry, shown) : SetRetry([retry EXCEPT !.keys = Toggled(@, k)])

CanCreateRetry == site = "retry" /\ ~IsPending

CreateRetry ==
    /\ CanCreateRetry
    /\ Post
    /\ UNCHANGED <<setupServer, pages, setupQueries, pref, prompts, edits, moves>>

-----------------------------------------------------------------------------
(* Settings of both forms: the tier, the instruction and the saved prompts *)

PickTier ==
    /\ OnForm /\ EditSetup
    /\ \E t \in Tier : t # pref /\ pref' = t
    /\ UNCHANGED <<setupServer, pages, setupQueries, prompts, posts, moves>>

TypeInstruction ==
    /\ OnForm /\ EditSetup
    /\ \E t \in Text \cup {None} : t # text /\ text' = t
    /\ UNCHANGED <<setupServer, site, setupQueries, pref, prompts, entry, retry, list, posts, moves>>

ShowPrompts ==
    /\ prompts.reading
    /\ prompts' = [prompts EXCEPT !.has = TRUE, !.cached = prompts.read, !.reading = FALSE, !.read = [s \in Slot |-> None],
                                  !.stale = (prompts.read # slots)]
    /\ UNCHANGED <<setupServer, pages, setupQueries, pref, posts, edits, moves>>

\* The slots are disabled until the first list is there.
CanUseSlots == OnForm /\ prompts.has

WriteToCache(s, t) == [prompts EXCEPT !.cached[s] = t]

Upsert(s, t) ==
    /\ slots' = [slots EXCEPT ![s] = t]
    /\ prompts' = WriteToCache(s, t)
    /\ UNCHANGED <<files, notes, pages, setupQueries, pref, posts, moves>>

\* A slot that is shown empty takes the text at once.
SavePrompt ==
    /\ CanUseSlots /\ text # None /\ EditSetup
    /\ \E s \in Slot : prompts.cached[s] = None /\ Upsert(s, text)

\* A slot that is shown filled has a menu.
HasMenu(s) == CanUseSlots /\ prompts.cached[s] # None

OverwritePrompt ==
    /\ text # None /\ EditSetup
    /\ \E s \in Slot : HasMenu(s) /\ Upsert(s, text)

LoadPrompt ==
    /\ EditSetup
    /\ \E s \in Slot : HasMenu(s) /\ text' = prompts.cached[s]
    /\ UNCHANGED <<setupServer, site, setupQueries, pref, prompts, entry, retry, list, posts, moves>>

DeletePrompt ==
    /\ EditSetup
    /\ \E s \in Slot : HasMenu(s) /\ Upsert(s, None)

-----------------------------------------------------------------------------
SetupNext ==
    \/ OpenNew \/ OpenNotes \/ BackHome \/ OpenRetry
    \/ FileChanges \/ NoteGoes
    \/ ReadFiles \/ SourceModeChange \/ FileToggle \/ SelectAllToggle \/ FolderChange \/ TypeSubject
    \/ Submit \/ TickBox \/ ConfirmNoSource \/ CloseModal \/ CancelGeneration
    \/ \E i \in 1..MaxPosts : Create(i) \/ QuizRefused(i) \/ ReplyLost(i) \/ GoToQuiz(i)
    \/ ReadNotesForRetry \/ NoteToggle \/ ClearNotes \/ FilterChange \/ PageChange
    \/ ConceptModeChange \/ GroupChange \/ ConceptToggle \/ CreateRetry
    \/ PickTier \/ TypeInstruction \/ ShowPrompts \/ SavePrompt \/ OverwritePrompt \/ LoadPrompt \/ DeletePrompt

SetupSpec == SetupInit /\ [][SetupNext]_setupVars
-----------------------------------------------------------------------------
SetupTypeOK ==
    /\ site \in {"new", "retry", "notes", "quiz"}
    /\ entry.sel \subseteq File /\ entry.folder \in {None, Folder}
    /\ retry.keys \subseteq Concept /\ retry.group \in Group \cup {None}
    /\ list.sel \subseteq Note /\ list.at \in Nat \ {0}
    /\ pref \in Tier \cup {None, OldTier}
    /\ \A i \in 1..MaxPosts : posts[i].st \in {"no", "sent", "made", "shown", "refused", "lost"}

\* Files of another folder are not on the screen, so none of them is selected
\* but the one the form was opened for, which may be listed only later.
\* (QuizNew: the buttons of the folders, handleFileToggle, the effect for preSelectedFileId)
SelectedInFolder ==
    site = "new" /\ entry.folder # None => entry.sel \subseteq FolderFiles \cup entry.pre

\* A quiz that has no source is asked for only after its own notice was
\* confirmed: the box of an earlier notice does not count.
\* (QuizNew: resetNoSourceModal, handleCancelGeneration, handleConfirmNoSource)
NoticeStartsEmpty == site = "new" /\ ~entry.modal => ~entry.confirmed

\* A quiz that was cancelled never takes the user to it, however late its reply.
\* (QuizNew: handleCancelGeneration, abortControllerRef)
CancelledIsNotShown == \A i \in 1..MaxPosts : posts[i].cancelled => posts[i].st # "shown"

\* A retry set is asked for concepts that are on the screen: when a note goes,
\* so does its concept from the selection.
\* (Retry: the effects on selectedFileGroup and selectedManualConceptKeys)
KeysAreOffered == site = "retry" => retry.keys \subseteq Offered(retry, shown)

\* No quiz asks for a tier that is not offered, whatever the browser has stored.
\* (QuizNew, Retry: validPreferredTier)
TierIsOffered == \A i \in 1..MaxPosts : posts[i].tier \in Tier \cup {None}

\* The slots show what is saved, but for a list that was overtaken by a save.
\* (SavedPromptSlots: writeToCache, removeFromCache)
PromptsAreSaved == prompts.has /\ ~prompts.stale => \A s \in Slot : prompts.cached[s] = slots[s]
=============================================================================

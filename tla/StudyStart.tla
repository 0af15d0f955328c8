----------------------------- MODULE StudyStart ------------------------------
(***************************************************************************)
(* The page on which the study of a document begins: documents can be      *)
(* selected, or a URL or a topic given, of which a new document is made.   *)
(* A panel slides in over the page with what was studied last.             *)
(*                                                                         *)
(* The panel is mounted before it slides in, in the second animation frame *)
(* after it opened, and unmounted when it has slid out, by a timer.        *)
(***************************************************************************)
EXTENDS FiniteSets, Integers

CONSTANTS
    Docs,       \* the documents
    FolderOf,   \* the folder of each of them
    MaxForms,   \* bound on what the user does on the page
    StartFaults \* "topic": no document can be made of a URL or a topic; "list": the
                \* list of what was studied cannot be read

ASSUME StartAssumption ==
    /\ Docs \cap {"list", "new", "away"} = {}
    /\ MaxForms \in Nat /\ StartFaults \subseteq {"topic", "list"}

Folders == {FolderOf[d] : d \in Docs}

VARIABLES
    docs,   \* the status of each document: "ready", "unfit" (it is not eligible),
            \* "processing" or "failed"
    listed, \* the statuses the page has read, or those of no document
    form,   \* sourceMode, selectedFileIds, selectedFolderId, topicUrl, topicText,
            \* and the message shown
    making, \* createTopicFile: "no", "asked", "left" (by who asked for it)
    panel,  \* open, visible, entered; frames to wait; hide: the timer that hides it;
            \* list: what it shows
    at,     \* "list", a document, "new" (the document of a topic) or "away"
    forms

startVars == <<docs, listed, form, making, panel, at, forms>>

NewStart == [mode |-> "documents", picked |-> {}, folder |-> "all", url |-> "", topic |-> "", message |-> "none"]

ClosedPanel == [open |-> FALSE, visible |-> FALSE, entered |-> FALSE, frames |-> 0, hide |-> FALSE, list |-> "unread"]

NoList == [d \in {} |-> "failed"]

StartInit ==
    /\ docs = [d \in Docs |-> "ready"] /\ listed = NoList
    /\ form = NewStart /\ making = "no"
    /\ panel = ClosedPanel
    /\ at = "away" /\ forms = 0

\* The page is opened, whatever the documents have become since it was left; to come
\* back to it counts as something done.
EnterStart(again) ==
    /\ docs' \in [Docs -> {"ready", "processing"}]
    /\ at' = "list"
    /\ forms' = forms + again
    /\ UNCHANGED <<listed, form, making, panel>>

\* It is left; what it asked for goes on.
Depart(to) ==
    /\ docs' = [d \in Docs |-> "ready"] /\ listed' = NoList
    /\ form' = NewStart /\ panel' = ClosedPanel
    /\ at' = to

LeaveStart(to) ==
    /\ Depart(to)
    /\ making' = IF making = "asked" THEN "left" ELSE making
    /\ UNCHANGED forms

-----------------------------------------------------------------------------
(* The documents *)

\* Again every two seconds while one is being processed.
ListFiles ==
    /\ at = "list" /\ (listed = NoList \/ \E d \in DOMAIN listed : listed[d] = "processing")
    /\ listed' = docs
    /\ UNCHANGED <<docs, form, making, panel, at, forms>>

ProcessFile(d) ==
    /\ docs[d] = "processing"
    /\ \E s \in {"ready", "unfit", "failed"} : docs' = [docs EXCEPT ![d] = s]
    /\ UNCHANGED <<listed, form, making, panel, at, forms>>

-----------------------------------------------------------------------------
(* The form *)

Edit(f) ==
    /\ at = "list" /\ DOMAIN listed # {}
    /\ forms < MaxForms /\ forms' = forms + 1
    /\ form' = f
    /\ UNCHANGED <<docs, listed, making, panel, at>>

Clear(f) == [f EXCEPT !.message = "none"]

SelectMode(mode) == form.mode # mode /\ Edit(Clear([form EXCEPT !.mode = mode]))

InFolder(d) == form.folder = "all" \/ FolderOf[d] = form.folder

ReadyFiles == {d \in DOMAIN listed : InFolder(d) /\ listed[d] = "ready"}

ToggleDoc(d) ==
    /\ form.mode = "documents" /\ d \in ReadyFiles
    /\ Edit(Clear([form EXCEPT !.picked = IF d \in @ THEN @ \ {d} ELSE @ \cup {d}]))

\* The box is checked when all that is visible is selected.
AllVisibleSelected == ReadyFiles # {} /\ ReadyFiles \subseteq form.picked

ToggleAll ==
    /\ form.mode = "documents" /\ ReadyFiles # {}
    /\ Edit(Clear([form EXCEPT !.picked = IF AllVisibleSelected THEN @ \ ReadyFiles ELSE @ \cup ReadyFiles]))

\* Another folder starts with nothing selected.
OpenFolder(f) == form.mode = "documents" /\ form.folder # f /\ Edit([form EXCEPT !.folder = f, !.picked = {}])

\* A URL can be given while there is no topic, and a topic while there is no URL.
TypeUrl(url) ==
    /\ form.mode = "topic" /\ making # "asked" /\ form.topic = "" /\ form.url # url
    /\ Edit(Clear([form EXCEPT !.url = url]))

TypeTopic(topic) ==
    /\ form.mode = "topic" /\ making # "asked" /\ form.url = "" /\ form.topic # topic
    /\ Edit(Clear([form EXCEPT !.topic = topic]))

-----------------------------------------------------------------------------
(* It begins *)

CanSubmit ==
    \/ form.mode = "documents" /\ form.picked # {}
    \/ form.mode = "topic" /\ (form.url # "" \/ form.topic # "") /\ making # "asked"

\* Only the first of the selected documents is opened.
StudyDocument ==
    /\ at = "list" /\ form.mode = "documents" /\ CanSubmit
    /\ \E d \in form.picked : LeaveStart(d)

\* What is not a URL, and a topic that is too long, are refused.
Refusal ==
    IF form.url = "text" THEN "url" ELSE IF form.topic = "long" THEN "topic" ELSE "none"

StudyTopic ==
    /\ at = "list" /\ form.mode = "topic" /\ CanSubmit
    /\ form' = [form EXCEPT !.message = Refusal]
    /\ making' = IF Refusal = "none" THEN "asked" ELSE making
    /\ UNCHANGED <<docs, listed, panel, at, forms>>

\* The new document is opened, even when the page has been left.
TopicMade == making # "no" /\ Depart("new") /\ making' = "no" /\ UNCHANGED forms

TopicFailed ==
    /\ "topic" \in StartFaults /\ making # "no" /\ making' = "no"
    /\ form' = IF making = "asked" THEN [form EXCEPT !.message = "failed"] ELSE form
    /\ UNCHANGED <<docs, listed, panel, at, forms>>

-----------------------------------------------------------------------------
(* The panel *)

Panel(p) == panel' = p /\ UNCHANGED <<docs, listed, form, making, at, forms>>

Opened == [panel EXCEPT !.open = TRUE, !.visible = TRUE, !.frames = 2, !.hide = FALSE]

OpenPanel ==
    /\ at = "list" /\ DOMAIN listed # {} /\ ~panel.open
    /\ forms < MaxForms /\ forms' = forms + 1
    /\ panel' = Opened
    /\ UNCHANGED <<docs, listed, form, making, at>>

\* The button, Escape and the backdrop.
ClosePanel ==
    panel.open /\ Panel([panel EXCEPT !.open = FALSE, !.entered = FALSE, !.frames = 0, !.hide = TRUE])

Frame ==
    panel.frames > 0 /\ Panel([panel EXCEPT !.frames = @ - 1, !.entered = @ \/ panel.frames = 1])

HidePanel == panel.hide /\ Panel([panel EXCEPT !.visible = FALSE, !.hide = FALSE])

\* The list is read while the panel is open, and again on request.
ReadPanel ==
    /\ panel.open /\ panel.list = "unread"
    /\ \E list \in {"empty", "items"} \cup (IF "list" \in StartFaults THEN {"failed"} ELSE {}) :
        Panel([panel EXCEPT !.list = list])

RereadPanel == panel.visible /\ panel.list = "failed" /\ Panel([panel EXCEPT !.list = "unread"])

\* A document studied before is opened; its link is there while the panel slides out.
OpenItem(d) == panel.visible /\ panel.list = "items" /\ LeaveStart(d)

StartNext ==
    \/ ListFiles \/ \E d \in Docs : ProcessFile(d) \/ ToggleDoc(d) \/ OpenItem(d)
    \/ \E m \in {"documents", "topic", "none"} : SelectMode(m)
    \/ ToggleAll \/ \E f \in Folders \cup {"all"} : OpenFolder(f)
    \/ \E u \in {"", "url", "text"} : TypeUrl(u)
    \/ \E t \in {"", "topic", "long"} : TypeTopic(t)
    \/ StudyDocument \/ StudyTopic \/ TopicMade \/ TopicFailed
    \/ OpenPanel \/ ClosePanel \/ Frame \/ HidePanel \/ ReadPanel \/ RereadPanel
-----------------------------------------------------------------------------
StartTypeOK ==
    /\ form.picked \subseteq Docs /\ form.mode \in {"documents", "topic", "none"}
    /\ making \in {"no", "asked", "left"} /\ panel.frames \in 0..2
    /\ at \in Docs \cup {"list", "new", "away"}

\* The document that is opened was selected in the folder on the screen: nothing is
\* selected out of sight.  (StudyList: the OptionGroup of folders)
PickedAreVisible == form.picked \subseteq {d \in Docs : InFolder(d)}

\* There is never both a URL and a topic.  (StudyList: handleSubmit)
OneSource == form.url = "" \/ form.topic = ""

\* An open panel stays on the screen, however quickly it is closed and opened again,
\* and a closed one does not slide in.  (StudyHistoryPanel: the effect on open)
OpenPanelIsThere == (panel.open => panel.visible /\ ~panel.hide) /\ (panel.entered => panel.open)
=============================================================================

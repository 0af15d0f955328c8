----------------------------- MODULE StudyContent -----------------------------
(***************************************************************************)
(* The pages of a study document: summary, flashcards, mindmap and memory  *)
(* notes, each generated by an event stream, each with its versions.       *)
(*                                                                         *)
(* A record of the server is replaced when a generation begins; the ones   *)
(* that were completed stay readable as versions.  A version is named by   *)
(* its place in their list, and 0 is no version.  A generator whose client *)
(* is gone stops where it is.                                              *)
(***************************************************************************)
EXTENDS MindmapLayout

CONSTANTS
    MaxRetries,  \* MAX_RETRIES of useSSE
    MaxActs,     \* bound on what the user does and on the connections that break
    Existing,    \* the kinds of which one may have been generated before
    Concepts,    \* of every version of the memory notes
    Cards,       \* the number of cards of each version of the flashcards
    Maps,        \* each version of the mindmap
    Faults       \* "network": a request fails; "ai": the AI fails; "task": a task
                 \* fails; "dispatch": no task can be queued; "gone": the file is deleted

Types == {"summary", "flashcards", "mindmap", "concept-notes"}

ASSUME StudyAssumption ==
    /\ MaxRetries \in Nat \ {0}
    /\ MaxActs \in Nat
    /\ Cards \in Seq(Nat) /\ Len(Cards) = Len(Maps) /\ Len(Cards) >= MaxActs + 2
    /\ Existing \subseteq Types /\ Faults \subseteq {"network", "ai", "task", "dispatch", "gone"}

VARIABLES
    short,   \* the document is too short to generate anything
    gone,    \* it has been deleted
    rec,     \* the status of each current record on the server
    made,    \* the versions of each kind
    conn,    \* the generator of the page's stream: "no", "work", "end", "error"
    loose,   \* generators of each kind whose client is gone
    tasks,   \* fallback tasks of each kind
    cut,     \* history: the kinds of which a client left a generator
    known,   \* the statuses the page has read
    vers,    \* the versions of each kind it has read
    cont,    \* the version it has read as the current one
    asked,   \* the queries under way
    tab,     \* the open tab, or "none" (the page is closed) or "missing"
    view,    \* the tab: versionIndex, or -1, pendingRegen, prevVersionsLength, isStreaming;
             \* old: the old version is loaded; fresh (history): the newest was asked for
    sse,     \* "off", "connect", "open", "backoff"
    retries,
    ui,      \* currentIndex, isFlipped; collapsed, selected, the state of its
             \* explanation; openSet, hideMode, revealedSet; deck (history): the version
             \* in which currentIndex was last increased
    acts

server == <<short, gone, rec, made, loose, tasks, cut>>
data == <<known, vers, cont>>
contentVars == <<server, conn, data, asked, tab, view, sse, retries, ui, acts>>

Unopened == [vi |-> -1, pending |-> FALSE, prev |-> 0, streaming |-> FALSE, old |-> FALSE, fresh |-> FALSE]

Untouched ==
    [at |-> 0, flipped |-> FALSE, deck |-> 0, collapsed |-> {}, selected |-> 0, told |-> "load",
     open |-> {}, hide |-> FALSE, revealed |-> {}]

\* At most one kind has been generated before, twice.
ContentInit ==
    /\ short \in BOOLEAN /\ gone = FALSE
    /\ \E before \in SUBSET Existing :
        /\ Cardinality(before) <= (IF short THEN 0 ELSE 1)
        /\ rec = [t \in Types |-> IF t \in before THEN "completed" ELSE "not_generated"]
        /\ made = [t \in Types |-> IF t \in before THEN 2 ELSE 0]
    /\ conn = "no" /\ cut = {}
    /\ loose = [t \in Types |-> 0] /\ tasks = [t \in Types |-> 0]
    /\ known = [t \in Types |-> "unknown"]
    /\ vers = [t \in Types |-> 0] /\ cont = [t \in Types |-> 0]
    /\ asked = {}
    /\ tab = "none" /\ view = Unopened /\ ui = Untouched
    /\ sse = "off" /\ retries = 0
    /\ acts = 0

-----------------------------------------------------------------------------
(* What a tab shows *)

\* A status that has not been read counts as not generated.
Status(t) == IF known[t] = "unknown" THEN "not_generated" ELSE known[t]

IsShort == short /\ known["summary"] # "unknown"

IsViewingOldVersion == view.vi # -1 /\ view.vi < vers[tab] - 1

\* The version on the screen.
Shown == IF ~IsViewingOldVersion THEN cont[tab] ELSE IF view.old THEN view.vi + 1 ELSE 0

Loading ==
    \/ Status(tab) = "generating"
    \/ Status(tab) = "completed" /\ cont[tab] = 0 /\ "content" \in asked

\* The content of a document that is too short is not rendered.
OnTab(t) == tab = t /\ ~IsShort

Idle(t, s) == OnTab(t) /\ ~view.streaming /\ ~Loading /\ Status(t) = s

\* The line with the versions above a summary and memory notes.
Header == tab \in {"summary", "concept-notes"} /\ OnTab(tab) /\ ~view.streaming /\ Status(tab) \in {"completed", "failed"}

Total == IF Shown = 0 THEN 0 ELSE Cards[Shown]

OnCards == Idle("flashcards", "completed") /\ Total > 0

OnMap == Idle("mindmap", "completed") /\ Shown # 0

-----------------------------------------------------------------------------
(* A tab is opened and closed *)

Act == acts < MaxActs /\ acts' = acts + 1

\* The effects on the version index, when n versions have been read.
Settle(w, n) ==
    LET first == IF w.vi = -1 /\ n > 0 THEN n - 1 ELSE w.vi
        newest == w.pending /\ n > w.prev
        vi == IF newest THEN n - 1 ELSE first
    IN [w EXCEPT !.vi = vi, !.pending = @ /\ ~newest, !.prev = n, !.old = @ /\ vi = w.vi]

\* Closing a stream leaves its generator to itself.
CloseStream ==
    /\ sse' = "off" /\ retries' = 0
    /\ conn' = "no"
    /\ loose' = IF conn = "work" THEN [loose EXCEPT ![tab] = @ + 1] ELSE loose
    /\ cut' = IF conn = "work" THEN cut \cup {tab} ELSE cut

Queries(t) == {"status"} \cup (IF Status(t) = "completed" THEN {"content", "versions"} ELSE {})

Mount(t) ==
    /\ tab' = t
    /\ view' = IF t \in Types THEN Settle(Unopened, vers[t]) ELSE Unopened
    /\ ui' = Untouched
    /\ asked' = IF t \in Types THEN Queries(t) ELSE IF t = "tutor" THEN {"status"} ELSE {}
    /\ CloseStream

\* The document is opened at its summary.
OpenViewer == tab = "none" /\ Mount("summary") /\ UNCHANGED <<short, gone, rec, made, tasks, data, acts>>

\* Only the tutor has no need of a long document.
TabEnabled(t) == ~IsShort \/ t = "tutor"

SelectTab(t) ==
    /\ tab \in Types \cup {"tutor"} /\ tab # t /\ TabEnabled(t)
    /\ Act
    /\ Mount(t)
    /\ UNCHANGED <<short, gone, rec, made, tasks, data>>

\* The link to the list, and the button for a quiz of the document.
CloseViewer == tab # "none" /\ Mount("none") /\ UNCHANGED <<short, gone, rec, made, tasks, data, acts>>

-----------------------------------------------------------------------------
(* The queries *)

Generating == \E t \in Types : known[t] = "generating"

\* Every three seconds, while something is being generated.
PollStatus ==
    /\ tab \in Types \cup {"tutor"} /\ Generating /\ "status" \notin asked
    /\ asked' = asked \cup {"status"}
    /\ UNCHANGED <<server, conn, data, tab, view, sse, retries, ui, acts>>

\* When the tab's content becomes completed, it and its versions are read.
BecomesCompleted == tab \in Types /\ Status(tab) # "completed" /\ rec[tab] = "completed"

\* The tabs of a document that turns out to be too short are closed.
ShowStatus ==
    /\ "status" \in asked /\ ~gone
    /\ known' = rec
    /\ IF short /\ tab \in Types
       THEN CloseStream /\ view' = Unopened /\ asked' = {}
       ELSE /\ asked' = (asked \ {"status"}) \cup {q \in {"content", "versions"} : BecomesCompleted}
            /\ UNCHANGED <<conn, loose, cut, view, sse, retries>>
    /\ UNCHANGED <<short, gone, rec, made, tasks, vers, cont, tab, ui, acts>>

\* A deleted document has no page any more.
ShowMissing ==
    /\ "status" \in asked /\ gone
    /\ Mount("missing")
    /\ UNCHANGED <<short, gone, rec, made, tasks, data, acts>>

\* A new map forgets what was selected and collapsed on the old one.
ForgetNodes(new) ==
    ui' = IF tab = "mindmap" /\ new # cont[tab] THEN [ui EXCEPT !.selected = 0, !.collapsed = {}] ELSE ui

\* The current record is only served when it is completed.
ShowContent ==
    /\ "content" \in asked
    /\ asked' = asked \ {"content"}
    /\ LET new == IF rec[tab] = "completed" /\ ~gone THEN made[tab] ELSE cont[tab] IN
       cont' = [cont EXCEPT ![tab] = new] /\ ForgetNodes(new)
    /\ UNCHANGED <<server, conn, known, vers, tab, view, sse, retries, acts>>

ShowVersions ==
    /\ "versions" \in asked
    /\ asked' = asked \ {"versions"}
    /\ LET n == IF gone THEN vers[tab] ELSE made[tab] IN
       vers' = [vers EXCEPT ![tab] = n] /\ view' = Settle(view, n)
    /\ UNCHANGED <<server, conn, known, cont, tab, sse, retries, ui, acts>>

ShowOldVersion ==
    /\ tab \in Types /\ IsViewingOldVersion /\ ~view.old /\ ~gone
    /\ view' = [view EXCEPT !.old = TRUE]
    /\ UNCHANGED <<server, conn, data, asked, tab, sse, retries, ui, acts>>

-----------------------------------------------------------------------------
(* VersionNavigator *)

CanNavigate == vers[tab] > 1 /\ (Header \/ OnCards \/ OnMap)

\* A look at another version starts at its first card, with the whole map.
LookAt(vi) ==
    /\ view' = [view EXCEPT !.vi = vi, !.old = FALSE, !.fresh = FALSE]
    /\ ui' = [ui EXCEPT !.at = 0, !.flipped = FALSE, !.collapsed = {}, !.selected = 0]
    /\ Act
    /\ UNCHANGED <<server, conn, data, asked, tab, sse, retries>>

PrevVersion == tab \in Types /\ CanNavigate /\ view.vi > 0 /\ LookAt(view.vi - 1)

NextVersion == tab \in Types /\ CanNavigate /\ view.vi + 1 < vers[tab] /\ LookAt(view.vi + 1)

-----------------------------------------------------------------------------
(* useStudyStreaming *)

StartStreaming(w, u) ==
    /\ Act
    /\ view' = [w EXCEPT !.streaming = TRUE]
    /\ sse' = "connect" /\ retries' = 0
    /\ ui' = [u EXCEPT !.selected = 0]
    /\ UNCHANGED <<server, conn, data, asked, tab>>

\* For the first version there is nothing to come back to.
Generate == StartStreaming([view EXCEPT !.fresh = FALSE], ui)

\* The page has read the status and the versions there are.
UpToDate == {"status", "versions"} \cap asked = {} /\ known[tab] = rec[tab] /\ vers[tab] = made[tab]

\* handleRegenerate: the newest version is shown when it is there.  Its arrival is
\* told from the versions that have been read by then.
Regenerate(u) ==
    StartStreaming(Settle([view EXCEPT !.pending = TRUE, !.vi = -1, !.fresh = UpToDate], vers[tab]), u)

FirstCard == [ui EXCEPT !.at = 0, !.flipped = FALSE]

GenerateSummary == Idle("summary", "not_generated") /\ Generate
RetrySummary == Idle("summary", "failed") /\ Regenerate(ui)
RegenerateSummary == tab = "summary" /\ Header /\ Regenerate(ui)

GenerateFlashcards == Idle("flashcards", "not_generated") /\ Regenerate(FirstCard)
RetryFlashcards == Idle("flashcards", "failed") /\ Regenerate(FirstCard)
RefillFlashcards == Idle("flashcards", "completed") /\ Total = 0 /\ Regenerate(FirstCard)
RegenerateFlashcards == OnCards /\ Regenerate(FirstCard)

GenerateMindmap == Idle("mindmap", "not_generated") /\ Generate
RetryMindmap == Idle("mindmap", "failed") /\ Generate
RefillMindmap == Idle("mindmap", "completed") /\ Shown = 0 /\ Generate
RegenerateMindmap == OnMap /\ Regenerate(ui)

GenerateNotes == Idle("concept-notes", "not_generated") /\ Generate
RetryNotes == Idle("concept-notes", "failed") /\ Regenerate(ui)
RefillNotes == Idle("concept-notes", "completed") /\ Shown = 0 /\ Regenerate(ui)
RegenerateNotes == tab = "concept-notes" /\ Header /\ Regenerate(ui)

Start ==
    \/ GenerateSummary \/ RetrySummary \/ RegenerateSummary
    \/ GenerateFlashcards \/ RetryFlashcards \/ RefillFlashcards \/ RegenerateFlashcards
    \/ GenerateMindmap \/ RetryMindmap \/ RefillMindmap \/ RegenerateMindmap
    \/ GenerateNotes \/ RetryNotes \/ RefillNotes \/ RegenerateNotes

\* The button of the thinking view: only the stream is closed.
CancelStreaming ==
    /\ tab \in Types /\ view.streaming
    /\ CloseStream
    /\ view' = [view EXCEPT !.streaming = FALSE, !.fresh = FALSE]
    /\ asked' = asked \cup {"status"}
    /\ UNCHANGED <<short, gone, rec, made, tasks, data, tab, ui, acts>>

\* Mutant: the page goes on streaming.
ErrorKeepsStreaming ==
    /\ sse' = "off"
    /\ view' = [view EXCEPT !.fresh = FALSE]
    /\ asked' = asked \cup {"status"}

HandleError ==
    /\ sse' = "off"
    /\ view' = [view EXCEPT !.streaming = FALSE, !.fresh = FALSE]
    /\ asked' = asked \cup {"status"}

RetryOrGiveUp ==
    IF retries < MaxRetries THEN sse' = "backoff" /\ retries' = retries + 1 /\ UNCHANGED <<view, asked>>
    ELSE HandleError /\ UNCHANGED retries

\* Mutant: a record that is being generated is replaced.
AcceptsAlways(t) == TRUE

\* One generation of a kind at a time.
Accepts(t) == rec[t] # "generating"

OpenStream ==
    /\ sse = "connect" /\ ~gone /\ Accepts(tab)
    /\ sse' = "open" /\ retries' = 0
    /\ rec' = [rec EXCEPT ![tab] = "generating"]
    /\ conn' = "work"
    /\ UNCHANGED <<short, gone, made, loose, tasks, cut, data, asked, tab, view, ui, acts>>

\* No token can be had.
TokenRefused ==
    /\ "network" \in Faults /\ sse = "connect"
    /\ HandleError
    /\ UNCHANGED <<server, conn, data, tab, retries, ui, acts>>

Refused ==
    /\ sse = "connect"
    /\ gone \/ ~Accepts(tab) \/ "network" \in Faults
    /\ RetryOrGiveUp
    /\ UNCHANGED <<server, conn, data, tab, ui, acts>>

BackOff ==
    /\ sse = "backoff" /\ sse' = "connect"
    /\ UNCHANGED <<server, conn, data, asked, tab, view, retries, ui, acts>>

\* The next connection generates once more: what was asked for may be there twice.
Drop ==
    /\ Act
    /\ sse = "open" /\ sse' = "backoff" /\ retries' = 1
    /\ view' = [view EXCEPT !.fresh = FALSE]
    /\ conn' = "no"
    /\ loose' = IF conn = "work" THEN [loose EXCEPT ![tab] = @ + 1] ELSE loose
    /\ cut' = IF conn = "work" THEN cut \cup {tab} ELSE cut
    /\ UNCHANGED <<short, gone, rec, made, tasks, data, asked, tab, ui>>

HandleDone ==
    /\ sse = "open" /\ conn = "end"
    /\ sse' = "off" /\ conn' = "no"
    /\ view' = [view EXCEPT !.streaming = FALSE]
    /\ asked' = asked \cup Queries(tab)
    /\ UNCHANGED <<server, data, tab, retries, ui, acts>>

HandleServerError ==
    /\ sse = "open" /\ conn = "error"
    /\ HandleError
    /\ conn' = "no"
    /\ UNCHANGED <<server, data, tab, retries, ui, acts>>

-----------------------------------------------------------------------------
(* stream_study_content and its fallback *)

Complete(t) == rec' = [rec EXCEPT ![t] = "completed"] /\ made' = [made EXCEPT ![t] = @ + 1]

Finish ==
    /\ conn = "work"
    /\ Complete(tab)
    /\ conn' = "end"
    /\ UNCHANGED <<short, gone, loose, tasks, cut, data, asked, tab, view, sse, retries, ui, acts>>

\* A task takes over; when none can be queued, the record has failed.
FallBack(t) ==
    \/ tasks' = [tasks EXCEPT ![t] = @ + 1] /\ UNCHANGED rec
    \/ "dispatch" \in Faults /\ rec' = [rec EXCEPT ![t] = "failed"] /\ UNCHANGED tasks

Fail ==
    /\ "ai" \in Faults /\ conn = "work"
    /\ FallBack(tab)
    /\ conn' = "error"
    /\ UNCHANGED <<short, gone, made, loose, cut, data, asked, tab, view, sse, retries, ui, acts>>

\* A generator whose client is gone is closed, whatever it was doing, or it has
\* finished before.
EndLoose(t) ==
    /\ loose[t] > 0
    /\ loose' = [loose EXCEPT ![t] = @ - 1]
    /\ UNCHANGED <<rec, made>> \/ Complete(t)
    /\ UNCHANGED <<short, gone, conn, tasks, cut, data, asked, tab, view, sse, retries, ui, acts>>

\* generate_summary and the like.
EndTask(t) ==
    /\ tasks[t] > 0
    /\ tasks' = [tasks EXCEPT ![t] = @ - 1]
    /\ \/ Complete(t)
       \/ "task" \in Faults /\ rec' = [rec EXCEPT ![t] = "failed"] /\ UNCHANGED made
    /\ UNCHANGED <<short, gone, conn, loose, cut, data, asked, tab, view, sse, retries, ui, acts>>

\* The file is deleted in another window.
DeleteFile ==
    /\ "gone" \in Faults /\ ~gone /\ gone' = TRUE /\ Act
    /\ UNCHANGED <<short, rec, made, conn, loose, tasks, cut, data, asked, tab, view, sse, retries, ui>>

-----------------------------------------------------------------------------
(* Cards, nodes and concepts *)

Touch(u) ==
    /\ Act
    /\ ui' = u
    /\ UNCHANGED <<server, conn, data, asked, tab, view, sse, retries>>

\* The arrow keys and the space bar act while the tab is open, even when a new deck
\* is generated.
GoTo(i, deck) == Touch([ui EXCEPT !.at = i, !.flipped = FALSE, !.deck = deck])

GoToPrev == OnTab("flashcards") /\ ui.at > 0 /\ GoTo(ui.at - 1, ui.deck)

GoToNext == OnTab("flashcards") /\ ui.at < Total - 1 /\ GoTo(ui.at + 1, Shown)

FlipCard == OnTab("flashcards") /\ Touch([ui EXCEPT !.flipped = ~@])

Seen == Visible(Maps[Shown], ui.collapsed)

\* The badge of a node with children.
ToggleNode(n) ==
    /\ OnMap /\ n \in Seen /\ HasChildren(Maps[Shown], n)
    /\ Touch([ui EXCEPT !.collapsed = IF n \in @ THEN @ \ {n} ELSE @ \cup {n}])

\* A click on a node opens its explanation.
ClickNode(n) == OnMap /\ n \in Seen /\ ui.selected # n /\ Touch([ui EXCEPT !.selected = n, !.told = "load"])

ExplanationOpen == OnMap /\ ui.selected # 0

\* The explanation arrives, or it fails, or the quota is used up.
Explained ==
    /\ ExplanationOpen /\ ui.told = "load"
    /\ \E told \in {"ok"} \cup (IF "ai" \in Faults THEN {"failed", "limit"} ELSE {}) : ui' = [ui EXCEPT !.told = told]
    /\ UNCHANGED <<server, conn, data, asked, tab, view, sse, retries, acts>>

\* Not offered when the quota is used up.
RetryExplanation == ExplanationOpen /\ ui.told = "failed" /\ Touch([ui EXCEPT !.told = "load"])

\* The button, Escape, and a click elsewhere.
ClosePopup == ExplanationOpen /\ Touch([ui EXCEPT !.selected = 0])

OnConcepts == Idle("concept-notes", "completed") /\ Shown # 0

ToggleConcept(c) ==
    OnConcepts /\ ~ui.hide /\ Touch([ui EXCEPT !.open = IF c \in @ THEN @ \ {c} ELSE @ \cup {c}])

\* Hiding starts with everything hidden.
ToggleHideMode == OnConcepts /\ Touch([ui EXCEPT !.hide = ~@, !.revealed = {}])

RevealConcept(c) ==
    OnConcepts /\ ui.hide /\ Touch([ui EXCEPT !.revealed = IF c \in @ THEN @ \ {c} ELSE @ \cup {c}])

-----------------------------------------------------------------------------
Reading == PollStatus \/ ShowStatus \/ ShowMissing \/ ShowContent \/ ShowVersions \/ ShowOldVersion

Streaming ==
    \/ OpenStream \/ TokenRefused \/ Refused \/ BackOff \/ Drop
    \/ HandleDone \/ HandleServerError \/ CancelStreaming

Generation == Finish \/ Fail \/ DeleteFile \/ \E t \in Types : EndLoose(t) \/ EndTask(t)

Touching ==
    \/ GoToPrev \/ GoToNext \/ FlipCard
    \/ \E n \in UNION {Nodes(Maps[i]) : i \in DOMAIN Maps} : ToggleNode(n) \/ ClickNode(n)
    \/ Explained \/ RetryExplanation \/ ClosePopup
    \/ \E c \in Concepts : ToggleConcept(c) \/ RevealConcept(c)
    \/ ToggleHideMode

ContentNext ==
    \/ Reading \/ Start \/ Streaming \/ Generation \/ Touching
    \/ PrevVersion \/ NextVersion
    \/ \E t \in Types \cup {"tutor"} : SelectTab(t)
-----------------------------------------------------------------------------
Statuses == {"not_generated", "generating", "completed", "failed"}

ContentTypeOK ==
    /\ rec \in [Types -> Statuses] /\ known \in [Types -> Statuses \cup {"unknown"}]
    /\ \A t \in Types : made[t] <= Len(Maps) /\ vers[t] <= made[t] /\ cont[t] <= made[t]
    /\ tab \in Types \cup {"none", "tutor", "missing"}
    /\ asked \subseteq {"status", "content", "versions"}
    /\ tab \in Types => view.vi >= -1 /\ view.vi < vers[tab]
    /\ sse \in {"off", "connect", "open", "backoff"} /\ retries \in 0..MaxRetries

\* Two generations of a kind are never under way at once, whether by a stream, by
\* one whose client is gone or by a task: the second would replace the record of
\* the first.  (stream_summary_generation: 409)
OneGeneration ==
    \A t \in Types : loose[t] + tasks[t] + (IF tab = t /\ conn = "work" THEN 1 ELSE 0) <= 1

\* What is being generated is worked at, unless a client left its generator: such
\* a record stays as it is.  (stream_study_content: the fallback)
StuckHasCause ==
    \A t \in Types :
        rec[t] = "generating" => t \in cut \/ tasks[t] > 0 \/ (tab = t /\ conn = "work")

\* A tab that thinks has a stream.  (useStudyStreaming: handleDone, handleError)
ThinkingHasStream == view.streaming <=> sse # "off"

\* Who asks for another version sees it when it is there, even if an old one was
\* on the screen, unless the list of versions was out of date when asked, or the
\* connection broke: the stream that follows makes another one.
\* (handleRegenerate, pendingRegenRef)
NewestIsShown ==
    view.fresh /\ ~view.streaming /\ asked = {} /\ Status(tab) = "completed" => ~IsViewingOldVersion

\* A card is on the screen, as long as the deck is the one it was reached in: a
\* deck that arrives later may be shorter.  (FlashcardTab: currentIndex)
CardExists == OnCards /\ ui.deck = Shown => ui.at < Total

\* What is selected and collapsed are nodes of the map on the screen.
\* (MindmapTab: the effect on generated_at)
NodesExist == OnMap => ui.selected \in Nodes(Maps[Shown]) \cup {0} /\ ui.collapsed \subseteq Nodes(Maps[Shown])

\* The nodes on the screen never overlap, whatever is collapsed.
\* (enrichWithDepth: "visible siblings never overlap")
NodesApart == OnMap => Apart(Maps[Shown], ui.collapsed)

\* The numbers on the collapsed nodes account for every node that is not drawn.
\* (enrichWithDepth: "their hidden-count is preserved on the parent")
HiddenAreCounted == OnMap => NothingUncounted(Maps[Shown], ui.collapsed)
=============================================================================

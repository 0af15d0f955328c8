----------------------------- MODULE UploadQueue -----------------------------
(***************************************************************************)
(* The upload queue of the files page: the hook useMultiFileUpload, the    *)
(* buttons of the component UploadQueue, and the upload handler of the     *)
(* server with its check for duplicates.                                   *)
(*                                                                         *)
(* shown is the React state with every queued update applied; seen is      *)
(* itemsRef.current, the state of the last render.  They agree after a     *)
(* click, which React renders at once; updates made when a request         *)
(* progresses or settles are rendered later, and a click may come first.   *)
(***************************************************************************)
EXTENDS Naturals, Sequences, FiniteSets, Arrays

CONSTANTS
    Chosen,      \* files of the user; the contents of two files differ
    Invalid,     \* those that validate refuses (type, size)
    Copies,      \* how often a file may be added to the queue
    MaxItems,    \* bound on the entries added
    Concurrency, \* uploads that may run at the same time
    QueueRetries, \* bound on the clicks on "retry"
    QueueFaults  \* "expiry": access tokens expire; "refusal": quota, rate limit

ASSUME QueueAssumption ==
    /\ Invalid \subseteq Chosen
    /\ Copies \in Nat \ {0}
    /\ MaxItems \in Nat
    /\ Concurrency \in Nat \ {0}
    /\ QueueRetries \in Nat
    /\ QueueFaults \subseteq {"expiry", "refusal"}

\* The n-th time a file is added, a new entry with an id of its own.
Item == Chosen \X (1..Copies)

Active   == {"queued", "uploading", "processing"}
Terminal == {"done", "failed", "canceled"}
UploadItemStatus == Active \cup Terminal

\* Where the request of an upload is: on its way, received by the server, held
\* by the API client while it renews the token (dropped: aborted meanwhile),
\* past the duplicate check, committed, refused, or never to arrive.
Place == {"sending", "received", "held", "dropped", "checked", "stored", "refused", "gone"}

\* One call of runOne.  open: it has not reached its finally block; renewed: it
\* was sent a second time; old: the record the server will reclaim, 0 if none.
Upload == [item : Item, at : Place, open : BOOLEAN, renewed : BOOLEAN, old : Nat]

\* The worker that parses files is external: a live record may be an orphan
\* (failed, or not picked up for 30 seconds) or not whenever it is looked at.
RecordStatus == {"none", "live", "deleted"}

VARIABLES
    shown,    \* status of every item, "none" if it is not in the list
    seen,     \* itemsRef.current
    added,    \* items ever added
    queue,    \* queueRef.current
    running,  \* runningCountRef.current
    ctl,      \* controllersRef.current: the upload an item's controller aborts, 0 if none
    uploads,  \* the calls of runOne so far
    pumping,  \* the loop of pump: "no", or running in a "click" or "later"
    mounted,  \* the files page is on the screen
    retries,
    row,      \* the server's record of every upload
    lost      \* history: items whose row no longer follows their upload, because
              \* a list made from an older render replaced the state, or because
              \* an upload aborted long ago settled after the item was retried:
              \* while the item waited again, or while another upload of it ran

queueVars == <<shown, seen, added, queue, running, ctl, uploads, pumping, mounted, retries, row, lost>>

Id == DOMAIN uploads

MaxUploads == MaxItems + QueueRetries

QueueInit ==
    /\ shown = [i \in Item |-> "none"]
    /\ seen = shown
    /\ added = {}
    /\ queue = <<>>
    /\ running = 0
    /\ ctl = [i \in Item |-> 0]
    /\ uploads = <<>>
    /\ pumping = "no"
    /\ mounted = TRUE
    /\ retries = 0
    /\ row = [u \in 1..MaxUploads |-> "none"]
    /\ lost = {}

Open == {u \in Id : uploads[u].open}

Waiting == {queue[k] : k \in DOMAIN queue}

Idle == pumping = "no"

\* setItems: without effect once the page is left.
Set(new) == shown' = IF mounted THEN new ELSE shown

\* Mutant: an upload that has settled does not look for the next one.
ReleaseOnly(S, context) ==
    LET items == {uploads[u].item : u \in S}
    IN  /\ ctl' = [i \in Item |-> IF i \in items THEN 0 ELSE ctl[i]]
        /\ running' = IF Cardinality(S) > running THEN 0 ELSE running - Cardinality(S)
        /\ pumping' = "no"
        /\ lost' = lost \cup {i \in items : i \in Waiting \/ \E u \in Open \ S : uploads[u].item = i}

\* The finally block of runOne for the uploads in S: the controller of the
\* item is deleted, whichever upload it belongs to, and pump runs.
Release(S, context) ==
    LET items == {uploads[u].item : u \in S}
    IN  /\ ctl' = [i \in Item |-> IF i \in items THEN 0 ELSE ctl[i]]
        /\ running' = IF Cardinality(S) > running THEN 0 ELSE running - Cardinality(S)
        /\ pumping' = context
        /\ lost' = lost \cup {i \in items : i \in Waiting \/ \E u \in Open \ S : uploads[u].item = i}

-----------------------------------------------------------------------------
(* pump and runOne *)

NewUpload(i) == [item |-> i, at |-> "sending", open |-> TRUE, renewed |-> FALSE, old |-> 0]

\* Mutant: the controller of the upload is not kept.
PumpWithoutController ==
    /\ ~Idle
    /\ running < Concurrency /\ queue # <<>>
    /\ queue' = Tail(queue)
    /\ LET i == Head(queue)
       IN  IF seen[i] # "queued"
           THEN UNCHANGED <<shown, running, uploads>>
           ELSE /\ running' = running + 1
                /\ Set([shown EXCEPT ![i] = IF @ = "none" THEN @ ELSE "uploading"])
                /\ uploads' = Append(uploads, NewUpload(i))
    /\ UNCHANGED <<seen, added, ctl, pumping, mounted, retries, row, lost>>

\* One round of the loop: the next id is dropped, or its upload starts.
Pump ==
    /\ ~Idle
    /\ running < Concurrency /\ queue # <<>>
    /\ queue' = Tail(queue)
    /\ LET i == Head(queue)
       IN  IF seen[i] # "queued"
           THEN UNCHANGED <<shown, running, ctl, uploads>>
           ELSE /\ running' = running + 1
                /\ ctl' = [ctl EXCEPT ![i] = Len(uploads) + 1]
                /\ Set([shown EXCEPT ![i] = IF @ = "none" THEN @ ELSE "uploading"])
                /\ uploads' = Append(uploads, NewUpload(i))
    /\ UNCHANGED <<seen, added, pumping, mounted, retries, row, lost>>

\* The loop is over; what a click has changed is rendered at once.
PumpEnds ==
    /\ ~Idle
    /\ running >= Concurrency \/ queue = <<>>
    /\ seen' = IF pumping = "click" /\ mounted THEN shown ELSE seen
    /\ pumping' = "no"
    /\ UNCHANGED <<shown, added, queue, running, ctl, uploads, mounted, retries, row, lost>>

\* React renders and the effect copies the list into itemsRef.
Render ==
    /\ Idle /\ mounted /\ seen # shown
    /\ seen' = shown
    /\ UNCHANGED <<shown, added, queue, running, ctl, uploads, pumping, mounted, retries, row, lost>>

-----------------------------------------------------------------------------
(* What the user does *)

CanClick == Idle /\ mounted

\* The buttons of a row, and those of the list.
CanCancel(i) == CanClick /\ seen[i] \in Active
CanRetry(i)  == CanClick /\ seen[i] \in {"failed", "canceled"}
CanRemove(i) == CanClick /\ seen[i] \notin Active \cup {"none"}
CanCancelAll == CanClick /\ \E i \in Item : seen[i] \in Active
CanClear     == CanClick /\ \E i \in Item : seen[i] \in Terminal

\* An entry of the same file (name and size) that is neither done nor failed.
Duplicate(f) == \E j \in Item : j[1] = f /\ seen[j] \in Active

\* Status of the k-th of the files dropped together.
FirstStatus(new, k) ==
    IF \/ Duplicate(new[k][1])
       \/ \E m \in 1..(k - 1) : new[m][1] = new[k][1]
       \/ new[k][1] \in Invalid
    THEN "failed" ELSE "queued"

\* The ids that enter the queue.
NewlyQueued(new) ==
    Picked(new, {k \in DOMAIN new : FirstStatus(new, k) = "queued"})

\* enqueue.  The new list is made from itemsRef, not from the latest state.
Enqueue(new) ==
    LET at(i)    == CHOOSE k \in DOMAIN new : new[k] = i
        chosen   == {new[k] : k \in DOMAIN new}
        list     == [i \in Item |-> IF i \in chosen THEN FirstStatus(new, at(i)) ELSE seen[i]]
    IN  /\ CanClick
        /\ chosen \cap added = {}
        /\ Cardinality(added \cup chosen) <= MaxItems
        /\ \A i \in chosen : i[2] = 1 \/ <<i[1], i[2] - 1>> \in added \cup chosen
        /\ added' = added \cup chosen
        /\ shown' = list
        /\ seen' = list
        /\ queue' = queue \o NewlyQueued(new)
        /\ pumping' = "click"
        /\ lost' = lost \cup {i \in Item : shown[i] # seen[i]}
        /\ UNCHANGED <<running, ctl, uploads, mounted, retries, row>>

Without(i) == Picked(queue, {k \in DOMAIN queue : queue[k] # i})

\* abort: an upload the API client holds back settles when the token is renewed.
AbortAll(S) ==
    uploads' = [u \in Id |->
        IF u \notin S \/ uploads[u].at = "dropped" THEN uploads[u]
        ELSE IF uploads[u].at = "held" THEN [uploads[u] EXCEPT !.at = "dropped"]
        ELSE [uploads[u] EXCEPT !.open = FALSE, !.at = IF @ = "sending" THEN "gone" ELSE @]]

Settling(S) == {u \in S : uploads[u].at \notin {"held", "dropped"}}

\* The upload an item's controller stands for.
Controlled(i) == {u \in Open : ctl[i] = u}

Cancel(st) == IF st \in Active THEN "canceled" ELSE st

CancelItem(i) ==
    /\ CanCancel(i)
    /\ queue' = Without(i)
    /\ AbortAll(Controlled(i))
    /\ shown' = [shown EXCEPT ![i] = Cancel(@)]
    /\ Release(Settling(Controlled(i)), "click")
    /\ UNCHANGED <<seen, added, mounted, retries, row>>

CancelAll ==
    LET S == UNION {Controlled(i) : i \in Item}
    IN  /\ CanCancelAll
        /\ queue' = <<>>
        /\ AbortAll(S)
        /\ shown' = [i \in Item |-> Cancel(shown[i])]
        /\ Release(Settling(S), "click")
        /\ UNCHANGED <<seen, added, mounted, retries, row>>

\* retryItem does not look for another entry of the same file.
RetryItem(i) ==
    /\ CanRetry(i)
    /\ retries < QueueRetries
    /\ retries' = retries + 1
    /\ pumping' = "click"
    /\ IF i[1] \in Invalid
       THEN /\ shown' = [shown EXCEPT ![i] = IF @ = "none" THEN @ ELSE "failed"]
            /\ UNCHANGED <<seen, queue, lost>>
       ELSE /\ seen' = [seen EXCEPT ![i] = "queued"]
            /\ shown' = seen'
            /\ queue' = Append(queue, i)
            /\ lost' = lost \cup {j \in Item : shown[j] # seen[j]}
    /\ UNCHANGED <<added, running, ctl, uploads, mounted, row>>

RemoveItem(i) ==
    /\ CanRemove(i)
    /\ queue' = Without(i)
    /\ AbortAll(Controlled(i))
    /\ shown' = [shown EXCEPT ![i] = "none"]
    /\ Release(Settling(Controlled(i)), "click")
    /\ UNCHANGED <<seen, added, mounted, retries, row>>

ClearFinished ==
    /\ CanClear
    /\ shown' = [i \in Item |-> IF shown[i] \in Terminal THEN "none" ELSE shown[i]]
    /\ pumping' = "click"
    /\ UNCHANGED <<seen, added, queue, running, ctl, uploads, mounted, retries, row, lost>>

\* The page is left: running uploads are aborted, but the queue is not
\* emptied, and the finally blocks start what waits in it.
Leave ==
    LET S == UNION {Controlled(i) : i \in Item}
    IN  /\ CanClick
        /\ mounted' = FALSE
        /\ AbortAll(S)
        /\ ctl' = [i \in Item |-> 0]
        /\ running' = running - Cardinality(Settling(S))
        /\ pumping' = "later"
        /\ UNCHANGED <<shown, seen, added, queue, retries, row, lost>>

-----------------------------------------------------------------------------
(* The request of an upload, from the browser to the server and back *)

At(u, place) == uploads[u].at = place

\* onUploadProgress.
Progressed(i, st) ==
    Set([shown EXCEPT ![i] = IF @ \in Terminal \cup {"none"} THEN @ ELSE st])

Progress(u) ==
    /\ Idle /\ At(u, "sending")
    /\ \/ /\ uploads' = [uploads EXCEPT ![u].at = "received"]
          /\ Progressed(uploads[u].item, "processing")
       \/ /\ shown[uploads[u].item] = "queued"
          /\ Progressed(uploads[u].item, "uploading")
          /\ UNCHANGED uploads
    /\ UNCHANGED <<seen, added, queue, running, ctl, pumping, mounted, retries, row, lost>>

\* 401: the response interceptor renews the token and sends the request again,
\* once (_retry).  Bound: this happens to one upload.
Expire(u) ==
    /\ Idle /\ "expiry" \in QueueFaults
    /\ At(u, "received") /\ uploads[u].open
    /\ \A v \in DOMAIN uploads \ {u} : ~uploads[v].renewed /\ uploads[v].at # "held"
    /\ uploads' = [uploads EXCEPT ![u].at = IF uploads[u].renewed THEN "refused" ELSE "held"]
    /\ UNCHANGED <<shown, seen, added, queue, running, ctl, pumping, mounted, retries, row, lost>>

Resend(u) ==
    /\ Idle /\ At(u, "held")
    /\ uploads' = [uploads EXCEPT ![u].at = "sending", ![u].renewed = TRUE]
    /\ UNCHANGED <<shown, seen, added, queue, running, ctl, pumping, mounted, retries, row, lost>>

\* Live records of the content of an upload.
Same(u) == {v \in Id : row[v] = "live" /\ uploads[v].item[1] = uploads[u].item[1]}

\* The duplicate check of upload_file: with two live records the query
\* raises; one blocks the upload, or is an orphan and will be reclaimed.
Check(u) ==
    /\ Idle /\ At(u, "received")
    /\ \/ /\ Same(u) = {}
          /\ uploads' = [uploads EXCEPT ![u].at = "checked"]
       \/ /\ \E v \in Same(u) :
                /\ Same(u) = {v}
                /\ uploads' = [uploads EXCEPT ![u].at = "checked", ![u].old = v]
       \/ /\ Same(u) # {}
          /\ uploads' = [uploads EXCEPT ![u].at = "refused"]
    /\ UNCHANGED <<shown, seen, added, queue, running, ctl, pumping, mounted, retries, row, lost>>

\* The commit of upload_file, or an error after the check.
Store(u) ==
    /\ Idle /\ At(u, "checked")
    /\ \/ /\ uploads' = [uploads EXCEPT ![u].at = "stored", ![u].old = 0]
          /\ row' = [v \in DOMAIN row |-> IF v = u THEN "live"
                                          ELSE IF v = uploads[u].old THEN "deleted" ELSE row[v]]
       \/ /\ "refusal" \in QueueFaults
          /\ uploads' = [uploads EXCEPT ![u].at = "refused", ![u].old = 0]
          /\ UNCHANGED row
    /\ UNCHANGED <<shown, seen, added, queue, running, ctl, pumping, mounted, retries, lost>>

Close(u) == uploads' = [uploads EXCEPT ![u].open = FALSE, ![u].at = IF @ = "dropped" THEN "gone" ELSE @]

Succeed(u) ==
    /\ Idle /\ uploads[u].open /\ At(u, "stored")
    /\ Set([shown EXCEPT ![uploads[u].item] = IF @ = "none" THEN @ ELSE "done"])
    /\ Close(u)
    /\ Release({u}, "later")
    /\ UNCHANGED <<seen, added, queue, mounted, retries, row>>

Fail(u) ==
    /\ Idle /\ uploads[u].open
    /\ uploads[u].at \in {"refused", "dropped"}
    /\ Set([shown EXCEPT ![uploads[u].item] =
              IF @ \in {"none", "canceled"} THEN @
              ELSE IF At(u, "dropped") THEN "canceled" ELSE "failed"])
    /\ Close(u)
    /\ Release({u}, "later")
    /\ UNCHANGED <<seen, added, queue, mounted, retries, row>>

-----------------------------------------------------------------------------
\* Drops of one or two files.
Drops == {<<i>> : i \in Item} \cup {d \in Item \X Item : d[1] # d[2]}

QueueUser ==
    \/ \E d \in Drops : Enqueue(d)
    \/ \E i \in Item : CancelItem(i) \/ RetryItem(i) \/ RemoveItem(i)
    \/ CancelAll \/ ClearFinished \/ Leave

Request(u) ==
    Progress(u) \/ Expire(u) \/ Resend(u) \/ Check(u) \/ Store(u) \/ Succeed(u) \/ Fail(u)

QueueNext ==
    \/ Pump \/ PumpEnds \/ Render
    \/ QueueUser
    \/ \E u \in Id : Request(u)

QueueSpec == QueueInit /\ [][QueueNext]_queueVars

-----------------------------------------------------------------------------
QueueTypeOK ==
    /\ shown \in [Item -> UploadItemStatus \cup {"none"}]
    /\ seen \in [Item -> UploadItemStatus \cup {"none"}]
    /\ added \subseteq Item
    /\ queue \in Seq(Item)
    /\ running \in Nat
    /\ ctl \in [Item -> Nat]
    /\ uploads \in Seq(Upload)
    /\ pumping \in {"no", "click", "later"}
    /\ mounted \in BOOLEAN
    /\ retries \in Nat
    /\ row \in [1..MaxUploads -> RecordStatus]
    /\ lost \subseteq Item

\* The counter of runOne calls is the number of uploads that have not settled,
\* through cancellations, renewals of the token and the end of the page, and
\* never exceeds the limit.
RunningIsOpen == running = Cardinality(Open) /\ running <= Concurrency

\* No slot stays free while an item waits: whoever frees one runs the pump.
NoIdleSlot == Idle /\ queue # <<>> => running = Concurrency

\* An item that is shown as waiting or uploading waits or uploads, or its row
\* was lost to an older list or to a late answer.
ActiveIsReal ==
    \A i \in Item : Idle /\ shown[i] \in Active /\ i \notin lost /\ mounted =>
        \/ \E k \in DOMAIN queue : queue[k] = i
        \/ \E u \in Open : uploads[u].item = i

\* An upload that runs can be cancelled from its row.
RunningIsCancellable ==
    \A u \in Open : LET i == uploads[u].item IN
        mounted /\ i \notin lost /\ ~At(u, "dropped") =>
            ctl[i] = u /\ shown[i] \in Active

\* A file is reported as done only if the server has a record of it.
DoneIsStored ==
    \A i \in Item : shown[i] = "done" => \E u \in Id : uploads[u].item = i /\ At(u, "stored")
==============================================================================

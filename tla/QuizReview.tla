------------------------------ MODULE QuizReview ------------------------------
(***************************************************************************)
(* What happens to results after they are recorded: a user files an        *)
(* objection to one answer log and the Celery task review_objection        *)
(* decides it; an administrator asks for a regrade of an item              *)
(* (admin_regrade), retries a failed job or cancels an unfinished one.     *)
(***************************************************************************)
EXTENDS QuizStore

\* The answer log is active and has no pending objection (400 otherwise).
BeginCreateObjection(r) ==
    \E l \in ActiveIn(log) :
        /\ \A q \in Pending : obj[q].logs # {l}
        /\ Calling(r, "create_objection", l[2], NoReq)
        /\ Step(r, [Idle EXCEPT !.pc = "writing", !.seen = status, !.old = {l}])
        /\ UNCHANGED <<rows, queue, works, tally>>

CommitCreateObjection(r) ==
    /\ call[r].name = "create_objection"
    /\ At(r, "writing")
    /\ obj' = [obj EXCEPT ![r] = [st |-> "under_review", logs |-> tx[r].old]]
    /\ status' = IF tx[r].seen = "graded" THEN "objection_pending" ELSE status
    /\ job' = [job EXCEPT ![r] = "pending"]
    /\ Step(r, [Idle EXCEPT !.pc = "dispatch"])
    /\ UNCHANGED <<total, log, draft, queue, call, works, tally>>

-----------------------------------------------------------------------------
\* review_objection, from the AI's answer on

\* Upheld and to be applied: the log l under objection is deactivated and a
\* new one with its answer and the updated score m flushed.
ReplaceWithBlank(l, m) ==                                       \* mutant
    [Idle EXCEPT !.pc = "upholding", !.items = {l[2]}, !.marks[l[2]] = m, !.old = {l}]
ReplaceNothing(l, m) ==                                         \* mutant
    [Idle EXCEPT !.pc = "upholding", !.items = {l[2]}, !.marks[l[2]] = m,
                 !.answers[l[2]] = log[l].answer]
Replace(l, m) ==
    [Idle EXCEPT !.pc = "upholding", !.items = {l[2]}, !.marks[l[2]] = m,
                 !.answers[l[2]] = log[l].answer, !.old = {l}]

\* The totals are computed before the charge, and the commit comes after it.
UpholdObjection(w) ==
    /\ RunAt(w, "create_objection", "started")
    /\ \E l \in obj[works[w]].logs, m \in Mark :
          /\ Step(w, [Replace(l, m) EXCEPT !.seen = status])
          /\ tally' = [tally EXCEPT ![w] = [was |-> total, new |-> NewTotals(w, Replace(l, m))]]
    /\ UNCHANGED <<rows, queue, call, works>>

CommitUpheldObjection(w) ==
    /\ RunAt(w, "create_objection", "upholding")
    /\ log' = Recorded(w, tx[w])
    /\ total' = Stored(tally[w])
    /\ obj' = [obj EXCEPT ![works[w]].st = "applied"]
    /\ status' = IF tx[w].seen = "regraded" THEN status ELSE "regraded"
    /\ \E st \in {"completed"} \cup (IF "charge" \in Faults THEN {"failed"} ELSE {}) :
          Conclude(w, st)
    /\ tally' = [tally EXCEPT ![w] = NoTally]
    /\ UNCHANGED <<draft, queue, call, works>>

AllPending(q) == Pending                                        \* mutant
OtherPending(q) == Pending \ {q}

\* Rejected, or upheld without should_apply: the session and its other pending
\* objections are read.
DismissObjection(w) ==
    /\ RunAt(w, "create_objection", "started")
    /\ \E d \in {"rejected", "upheld"} :
          Step(w, [Idle EXCEPT !.pc = "restoring", !.seen = status, !.verdict = d,
                               !.others = OtherPending(works[w])])
    /\ UNCHANGED <<rows, queue, call, works, tally>>

RestoresIfRejected(x) ==                                        \* mutant
    x.seen = "objection_pending" /\ x.others = {} /\ x.verdict = "rejected"
Restores(x) == x.seen = "objection_pending" /\ x.others = {}

\* Without another pending objection the session goes back to graded; with two
\* or more scalar_one_or_none raises, and JobRunner commits what was written.
CommitDismissedObjection(w) ==
    /\ RunAt(w, "create_objection", "restoring")
    /\ obj' = [obj EXCEPT ![works[w]].st = tx[w].verdict]
    /\ status' = IF Restores(tx[w]) THEN "graded" ELSE status
    /\ \/ /\ tx[w].seen = "objection_pending" /\ Cardinality(tx[w].others) > 1
          /\ Conclude(w, "failed")
       \/ /\ tx[w].seen # "objection_pending" \/ Cardinality(tx[w].others) <= 1
          /\ \E st \in {"completed"} \cup (IF "charge" \in Faults THEN {"failed"} ELSE {}) :
                Conclude(w, st)
    /\ UNCHANGED <<total, log, draft, queue, call, works, tally>>

\* No model answers: the job fails and the objection stays under review.
FailReview(w) ==
    /\ "ai" \in Faults
    /\ RunAt(w, "create_objection", "started")
    /\ Conclude(w, "failed")
    /\ UNCHANGED <<status, total, log, draft, obj, queue, call, works, tally>>

\* To be applied, with an error type outside the enum: ErrorType raises between
\* the deactivation of the old log and the insertion of the new one, and
\* JobRunner commits the deactivation.
FailUpholding(w) ==
    /\ "verdict" \in Faults
    /\ RunAt(w, "create_objection", "started")
    /\ log' = Recorded(w, [Idle EXCEPT !.old = obj[works[w]].logs])
    /\ Conclude(w, "failed")
    /\ UNCHANGED <<status, total, draft, obj, queue, call, works, tally>>

-----------------------------------------------------------------------------
\* Administration

RegradeItem(r) ==
    \E i \in Item :
        /\ Calling(r, "regrade_item", i, NoReq)
        /\ job' = [job EXCEPT ![r] = "pending"]
        /\ Step(r, [Idle EXCEPT !.pc = "dispatch"])
        /\ UNCHANGED <<status, total, log, draft, obj, queue, works, tally>>

\* _JOB_TYPE_TASK_MAP: of the job types of a session only admin_regrade is a
\* key of the map, so a retry of the others sends no task.
RetryableJobs == {"submit_exam", "create_objection", "regrade_item"}    \* mutant
Retryable == {"regrade_item"}

RetryJob(r) ==
    \E q \in Req :
        /\ job[q] = "failed"
        /\ Calling(r, "retry_job", 1, q)
        /\ job' = [job EXCEPT ![q] = "pending"]
        /\ Step(r, IF call[q].name \in Retryable THEN [Idle EXCEPT !.pc = "dispatch"]
                                                 ELSE Finished)
        /\ UNCHANGED <<status, total, log, draft, obj, queue, works, tally>>

\* celery_task_id is never set, so nothing is revoked.
CancelJob(r) ==
    \E q \in Req :
        /\ job[q] \in {"pending", "processing"}
        /\ Calling(r, "cancel_job", 1, q)
        /\ job' = [job EXCEPT ![q] = "failed"]
        /\ Step(r, Finished)
        /\ UNCHANGED <<status, total, log, draft, obj, queue, works, tally>>

\* admin_regrade: the active logs of the item are read and graded again.
ReadRegrade(w) ==
    /\ RunAt(w, "regrade_item", "started")
    /\ Step(w, [Idle EXCEPT !.pc = "regrading", !.old = ActiveOf(call[works[w]].item)])
    /\ tally' = [tally EXCEPT ![w].was = total]
    /\ UNCHANGED <<rows, queue, call, works>>

\* In place; a log whose grading raised keeps its score.
Regraded(old, m) ==
    [l \in LogId |-> IF l \in old /\ log[l].answer # Blank
                     THEN [log[l] EXCEPT !.mark = m[l]]
                     ELSE IF l \in old THEN [log[l] EXCEPT !.mark = 0] ELSE log[l]]

CommitRegrade(w) ==
    /\ RunAt(w, "regrade_item", "regrading")
    /\ \E m \in [tx[w].old -> Mark] :
          LET lg == Regraded(tx[w].old, m)
          IN  /\ log' = lg
              /\ total' = IF tx[w].old = {} THEN total
                          ELSE Stored([was |-> tally[w].was,
                                       new |-> RecalculateSessionTotals(lg)])
    /\ Conclude(w, "completed")
    /\ tally' = [tally EXCEPT ![w] = NoTally]
    /\ UNCHANGED <<status, draft, obj, queue, call, works>>

ReviewRequest(r) ==
    \/ BeginCreateObjection(r) \/ CommitCreateObjection(r)
    \/ RegradeItem(r) \/ RetryJob(r) \/ CancelJob(r)

ReviewTask(w) ==
    \/ UpholdObjection(w) \/ CommitUpheldObjection(w)
    \/ DismissObjection(w) \/ CommitDismissedObjection(w)
    \/ FailReview(w) \/ FailUpholding(w)
    \/ ReadRegrade(w) \/ CommitRegrade(w)
==============================================================================

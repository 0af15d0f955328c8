------------------------------- MODULE QuizExam -------------------------------
(***************************************************************************)
(* Exam mode: drafts saved on the way, one final submission that creates   *)
(* and dispatches a grading job, and the Celery task grade_exam.           *)
(***************************************************************************)
EXTENDS QuizStore

DraftRows(i) == {r \in Req : draft[i][r] # NoDraft}

DraftableAlways == QuizSessionStatus                            \* mutant
Draftable == {"ready", "in_progress"}

\* scalar_one_or_none raises when two rows exist, which refuses the request.
\* A row that already has the answer is not written.
BeginSaveDraft(r) ==
    \E i \in Item, a \in Answer \cup {Blank} :
        /\ Mode = "exam"
        /\ status \in Draftable
        /\ Cardinality(DraftRows(i)) <= 1
        /\ Calling(r, "save_draft", i, NoReq)
        /\ \E q \in IF DraftRows(i) = {} THEN {r} ELSE DraftRows(i) :
              Step(r, [Idle EXCEPT !.pc = "writing", !.seen = status, !.answers[i] = a,
                                   !.row = IF draft[i][q] = a THEN NoReq ELSE q])
        /\ UNCHANGED <<rows, queue, works, tally>>

CommitSaveDraft(r) ==
    /\ call[r].name = "save_draft"
    /\ At(r, "writing")
    /\ draft' = IF tx[r].row = NoReq THEN draft
                ELSE [draft EXCEPT ![call[r].item][tx[r].row] =
                                     tx[r].answers[call[r].item]]
    /\ status' = IF tx[r].seen = "ready" THEN "in_progress" ELSE status
    /\ Step(r, Finished)
    /\ UNCHANGED <<total, log, obj, job, queue, call, works, tally>>

SubmittableAgain == {"ready", "in_progress", "grading"}          \* mutant
Submittable == {"ready", "in_progress"}

\* A session already submitted, in grading or graded is answered with its
\* status and no job: nothing changes.  The idempotency key is only stored.
BeginSubmitExam(r) ==
    /\ Mode = "exam"
    /\ status \in Submittable
    /\ Calling(r, "submit_exam", 1, NoReq)
    /\ Step(r, [Idle EXCEPT !.pc = "writing", !.seen = status])
    /\ UNCHANGED <<rows, queue, works, tally>>

CommitSubmitExam(r) ==
    /\ call[r].name = "submit_exam"
    /\ At(r, "writing")
    /\ status' = "grading"
    /\ job' = [job EXCEPT ![r] = "pending"]
    /\ Step(r, [Idle EXCEPT !.pc = "dispatch"])
    /\ UNCHANGED <<total, log, draft, obj, queue, call, works, tally>>

-----------------------------------------------------------------------------
\* grade_exam

StartGradeExam(w) ==
    /\ RunAt(w, "submit_exam", "started")
    /\ status' = "grading"
    /\ Step(w, [Idle EXCEPT !.pc = "grading"])
    /\ tally' = [tally EXCEPT ![w].was = total]
    /\ UNCHANGED <<total, log, draft, obj, job, queue, call, works>>

\* What the grader takes for item i: the draft's answer, blank without a draft.
SheetAnswer(i) ==
    IF DraftRows(i) = {} THEN Blank ELSE draft[i][CHOOSE r \in DraftRows(i) : TRUE]

\* The items before the first one with two draft rows, on which the query raises.
Gradable == {i \in Item : \A j \in 1..i : Cardinality(DraftRows(j)) <= 1}

\* The active results that a grading up to that item replaces.
NoFormerResults == {}                                           \* mutant
AllFormerResults == ActiveIn(log)                               \* mutant
FormerResults == {l \in ActiveIn(log) : l[2] \in Gradable}

\* Item by item: read the draft, grade it, replace the active log; then the
\* totals.  The credits are charged after this step.
GradeSheet(w) ==
    /\ RunAt(w, "submit_exam", "grading")
    /\ LET as == [i \in Item |-> IF i \in Gradable THEN SheetAnswer(i) ELSE Blank]
       IN \E m \in GradeSingleAnswer(Gradable, as) :
            LET x == [Idle EXCEPT
                        !.pc = IF Gradable = Item THEN "writing" ELSE "failing",
                        !.items = Gradable, !.answers = as, !.marks = m,
                        !.old = FormerResults]
            IN  /\ Step(w, x)
                /\ tally' = [tally EXCEPT ![w].new =
                               IF Gradable = Item THEN NewTotals(w, x) ELSE @]
    /\ UNCHANGED <<rows, queue, call, works>>

CommitGradeExam(w) ==
    /\ RunAt(w, "submit_exam", "writing")
    /\ log' = Recorded(w, tx[w])
    /\ total' = Stored(tally[w])
    /\ status' = "graded"
    /\ Conclude(w, "completed")
    /\ tally' = [tally EXCEPT ![w] = NoTally]
    /\ UNCHANGED <<draft, obj, queue, call, works>>

FailedAsGraded == "graded"                                      \* mutant
FailedGrading == "submitted"

\* An exception: the handler sets submitted and JobRunner commits that
\* together with the logs that were already added.
FailGradeExam(w) ==
    /\ \/ RunAt(w, "submit_exam", "failing")
       \/ RunAt(w, "submit_exam", "writing") /\ "charge" \in Faults
    /\ log' = Recorded(w, tx[w])
    /\ total' = IF At(w, "writing") THEN Stored(tally[w]) ELSE total
    /\ status' = FailedGrading
    /\ Conclude(w, "failed")
    /\ tally' = [tally EXCEPT ![w] = NoTally]
    /\ UNCHANGED <<draft, obj, queue, call, works>>

ExamRequest(r) ==
    \/ BeginSaveDraft(r) \/ CommitSaveDraft(r)
    \/ BeginSubmitExam(r) \/ CommitSubmitExam(r)

ExamTask(w) ==
    \/ StartGradeExam(w) \/ GradeSheet(w) \/ CommitGradeExam(w) \/ FailGradeExam(w)
==============================================================================

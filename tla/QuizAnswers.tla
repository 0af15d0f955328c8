----------------------------- MODULE QuizAnswers -----------------------------
(***************************************************************************)
(* Answering in normal mode: one answer at a time (submit_answer), closing *)
(* the session (complete_quiz_session), or all answers in one request      *)
(* (submit_batch_answers, which the web client also uses for exams).       *)
(***************************************************************************)
EXTENDS QuizStore

AnswerableGraded == {"ready", "in_progress", "graded"}          \* mutant
Answerable == {"ready", "in_progress"}

\* The status and mode checks of the handler; the quota check only refuses.
BeginSubmitAnswer(r) ==
    \E i \in Item, a \in Answer :
        /\ Mode = "normal"
        /\ status \in Answerable
        /\ Calling(r, "submit_answer", i, NoReq)
        /\ Step(r, [Idle EXCEPT !.pc = "grading", !.seen = status, !.items = {i},
                                !.answers[i] = a])
        /\ UNCHANGED <<rows, queue, works, tally>>

\* The results that a new answer to item i replaces.
KeepPrevious(i) == {}                                           \* mutant
AllPrevious(i) == ActiveIn(log)                                 \* mutant
Previous(i) == ActiveOf(i)

\* The grading is back; SELECT ... FOR UPDATE of the active logs of the item.
GradeSubmittedAnswer(r) ==
    /\ call[r].name = "submit_answer"
    /\ At(r, "grading")
    /\ \E m \in GradeSingleAnswer(tx[r].items, tx[r].answers) :
          Step(r, [tx[r] EXCEPT !.pc = "writing", !.marks = m,
                                !.old = Previous(call[r].item)])
    /\ UNCHANGED <<rows, queue, call, works, tally>>

CommitSubmitAnswer(r) ==
    /\ call[r].name = "submit_answer"
    /\ At(r, "writing")
    /\ log' = Recorded(r, tx[r])
    /\ status' = IF tx[r].seen = "ready" THEN "in_progress" ELSE status
    /\ Step(r, Finished)
    /\ UNCHANGED <<total, draft, obj, job, queue, call, works, tally>>

\* The items that are recorded as skipped.
NoneUnanswered == {}                                            \* mutant
Unanswered == {i \in Item : ActiveOf(i) = {}}

\* Session, items and answered items are read one after the other, every item
\* without a result is recorded as skipped, and the totals are computed.  A
\* session that is already graded is returned as it is, which changes nothing.
BeginComplete(r) ==
    LET x == [Idle EXCEPT !.pc = "writing", !.seen = status,
                          !.items = Unanswered]
    IN  /\ Mode = "normal"
        /\ status \in Answerable
        /\ Calling(r, "complete", 1, NoReq)
        /\ Step(r, x)
        /\ tally' = [tally EXCEPT ![r] = [was |-> total, new |-> NewTotals(r, x)]]
        /\ UNCHANGED <<rows, queue, works>>

CommitComplete(r) ==
    /\ call[r].name = "complete"
    /\ At(r, "writing")
    /\ log' = Recorded(r, tx[r])
    /\ total' = Stored(tally[r])
    /\ status' = "graded"
    /\ Step(r, Finished)
    /\ tally' = [tally EXCEPT ![r] = NoTally]
    /\ UNCHANGED <<draft, obj, job, queue, call, works>>

\* The items a batch with the answers as records: the blank ones, too.
BatchAnswered(as) == {i \in Item : as[i] # Blank}               \* mutant
BatchItems(as) == Item

BeginBatch(r) ==
    \E as \in [Item -> Answer \cup {Blank}] :
        /\ status \in Answerable
        /\ Calling(r, "batch", 1, NoReq)
        /\ Step(r, [Idle EXCEPT !.pc = "grading", !.seen = status, !.answers = as,
                                !.items = BatchItems(as)])
        /\ tally' = [tally EXCEPT ![r].was = total]
        /\ UNCHANGED <<rows, queue, works>>

\* All gradings are back; the active logs of the session are read, the new
\* ones inserted, and the totals computed; the credits are charged next.
GradeBatch(r) ==
    /\ call[r].name = "batch"
    /\ At(r, "grading")
    /\ \E m \in GradeSingleAnswer(tx[r].items, tx[r].answers) :
          LET x == [tx[r] EXCEPT !.pc = "writing", !.marks = m, !.old = ActiveIn(log)]
          IN  /\ Step(r, x)
              /\ tally' = [tally EXCEPT ![r].new = NewTotals(r, x)]
    /\ UNCHANGED <<rows, queue, call, works>>

CommitBatch(r) ==
    /\ call[r].name = "batch"
    /\ At(r, "writing")
    /\ log' = Recorded(r, tx[r])
    /\ total' = Stored(tally[r])
    /\ status' = "graded"
    /\ Step(r, Finished)
    /\ tally' = [tally EXCEPT ![r] = NoTally]
    /\ UNCHANGED <<draft, obj, job, queue, call, works>>

Answering(r) ==
    \/ BeginSubmitAnswer(r) \/ GradeSubmittedAnswer(r) \/ CommitSubmitAnswer(r)
    \/ BeginComplete(r) \/ CommitComplete(r)
    \/ BeginBatch(r) \/ GradeBatch(r) \/ CommitBatch(r)
==============================================================================

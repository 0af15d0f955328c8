----------------------------- MODULE QuizSession -----------------------------
(***************************************************************************)
(* The life of a quiz session from the end of its generation: the request  *)
(* handlers of QuizAnswers, QuizExam and QuizReview and the Celery tasks   *)
(* they dispatch, interleaved at their commits, with the delivery of task  *)
(* messages (at least once: a worker acknowledges after the task) and the  *)
(* failures of requests and tasks.                                         *)
(***************************************************************************)
EXTENDS QuizAnswers, QuizExam, QuizReview

\* send_task, after the commit of the handler.
Dispatch(r) ==
    LET q == IF call[r].name = "retry_job" THEN call[r].target ELSE r
    IN  /\ At(r, "dispatch")
        /\ queue' = [queue EXCEPT ![q] = @ + 1]
        /\ Step(r, Finished)
        /\ UNCHANGED <<rows, call, works, tally>>

\* An exception in the handler, or in send_task: what is not committed is lost.
FailRequest(r) ==
    /\ "request" \in Faults
    /\ Open(r)
    /\ Step(r, Finished)
    /\ tally' = [tally EXCEPT ![r] = NoTally]
    /\ UNCHANGED <<rows, queue, call, works>>

Busy(w) == tx[w].pc \notin {"new", "done"}

\* JobRunner.__aenter__ of an execution; the status of the job is not checked.
TakeJob(w) ==
    \E q \in Req :
        /\ queue[q] > 0
        /\ At(w, "new")
        /\ Cardinality({v \in Run : Busy(v)}) < Workers
        /\ queue' = [queue EXCEPT ![q] = @ - 1]
        /\ works' = [works EXCEPT ![w] = q]
        /\ job' = [job EXCEPT ![q] = "processing"]
        /\ Step(w, [Idle EXCEPT !.pc = "started"])
        /\ UNCHANGED <<status, total, log, draft, obj, call, tally>>

\* A failed statement rolls the transaction back; the commit of JobRunner then
\* fails too, and the message of the failed task is acknowledged.  So it is
\* when the pool process dies (task_reject_on_worker_lost is not set).
AbortTask(w) ==
    /\ "db" \in Faults
    /\ Busy(w) /\ ~At(w, "unacked")
    /\ Step(w, [Idle EXCEPT !.pc = "unacked"])
    /\ tally' = [tally EXCEPT ![w] = NoTally]
    /\ UNCHANGED <<rows, queue, call, works>>

Acknowledge(w) ==
    /\ At(w, "unacked")
    /\ Step(w, Finished)
    /\ UNCHANGED <<rows, queue, call, works, tally>>

\* Mutant: without task_acks_late the message of a task is gone with it.
CrashAcknowledged(w) ==
    /\ "crash" \in Faults
    /\ Busy(w)
    /\ Step(w, Finished)
    /\ tally' = [tally EXCEPT ![w] = NoTally]
    /\ UNCHANGED <<rows, queue, call, works>>

\* The worker dies at any point before the acknowledgement and the broker
\* delivers the message again.  Crashes are bounded: an execution remains for
\* every request that has or may still get one.
Crash(w) ==
    /\ "crash" \in Faults
    /\ Busy(w)
    /\ Cardinality({v \in Run : At(v, "new")})
         > Cardinality({q \in Req : ~At(q, "done") \/ queue[q] > 0})
    /\ queue' = [queue EXCEPT ![works[w]] = @ + 1]
    /\ Step(w, Finished)
    /\ tally' = [tally EXCEPT ![w] = NoTally]
    /\ UNCHANGED <<rows, call, works>>

Request(r) == Answering(r) \/ ExamRequest(r) \/ ReviewRequest(r)
Task(w)    == ExamTask(w) \/ ReviewTask(w)

Next ==
    \/ \E r \in Req : Request(r) \/ Dispatch(r) \/ FailRequest(r)
    \/ \E w \in Run : TakeJob(w) \/ Task(w) \/ AbortTask(w) \/ Acknowledge(w) \/ Crash(w)

Spec == Init /\ [][Next]_vars

\* A handler that was started runs to its end, and workers take messages and
\* finish tasks; no one has to make a request, and nothing has to fail.
Fairness ==
    /\ \A r \in Req : WF_vars(Open(r) /\ (Request(r) \/ Dispatch(r)))
    /\ \A w \in Run : WF_vars(TakeJob(w) \/ Task(w) \/ Acknowledge(w))

FairSpec == Spec /\ Fairness

-----------------------------------------------------------------------------
Published == {"graded", "objection_pending", "regraded"}

TypeOK ==
    /\ status \in QuizSessionStatus
    /\ DOMAIN total = {"score", "max"}
    /\ log \in [LogId -> AnswerLog]
    /\ draft \in [Item -> [Req -> Answer \cup {Blank, NoDraft}]]
    /\ obj \in [Req -> [st : ObjectionStatus, logs : SUBSET LogId]]
    /\ job \in [Req -> JobStatus]
    /\ queue \in [Req -> Nat]
    /\ call \in [Req -> [name : CallNames \cup {"none"}, item : Item,
                         target : Req \cup {NoReq}]]
    /\ works \in [Run -> Req \cup {NoReq}]
    /\ tx \in [Tx -> Workspace]
    /\ DOMAIN tally = Tx

\* An item that was ever given a result keeps one: whoever clears the active
\* result of an item (a second answer, a batch, a regrading task, an upheld
\* objection) leaves another in its place, whatever commits in between.
AnsweredKeepsResult ==
    \A i \in Item : (\E l \in LogId : l[2] = i /\ log[l].st # "none") => ActiveOf(i) # {}

\* Every item has a result.
Complete == \A i \in Item : ActiveOf(i) # {}

\* A session that is graded, or graded and under objection, has a result for
\* every item, although the status is written by handlers that may have read
\* the session and its logs long before.
GradedIsComplete == status \in {"graded", "objection_pending"} => Complete

\* t will insert logs and clear those it has loaded; it will close the session.
Recording(t) ==
    \/ t \in Req /\ At(t, "writing") /\ call[t].name \in {"submit_answer", "complete", "batch"}
    \/ t \in Run /\ tx[t].pc \in {"writing", "failing", "upholding"}

Closing(t) ==
    \/ t \in Req /\ call[t].name = "complete" /\ At(t, "writing")
    \/ t \in Req /\ call[t].name = "batch" /\ tx[t].pc \in {"grading", "writing"}
    \/ t \in Run /\ At(t, "writing")

SafePlan(t) ==
    /\ Recording(t) => \A l \in tx[t].old : l[2] \in tx[t].items
    /\ t \in Req /\ call[t].name = "submit_answer" /\ At(t, "grading")
         => call[t].item \in tx[t].items
    /\ t \in Req /\ call[t].name = "batch" /\ At(t, "grading") => tx[t].items = Item
    /\ Closing(t) => \A i \in Item : i \in tx[t].items \/ ActiveOf(i) # {}
    /\ tx[t].seen \in {"graded", "objection_pending"} => Complete

\* What an actor is about to commit is safe whatever was committed since it
\* read the session: the results it clears are of items it records, a closing
\* of the session leaves no item without a result, and a session that was seen
\* as graded still has all of its results.
PlansAreSafe == \A t \in Tx : SafePlan(t)

\* An item counts once: at most one of its logs is the active result.
OneActiveResult == \A i \in Item : Cardinality(ActiveOf(i)) <= 1

\* The stored totals are those of the active results once results are shown.
TotalsAgree == status \in Published => total = RecalculateSessionTotals(log)

\* The final submission of a session succeeds once: it creates one grading job.
OneFinalSubmission ==
    Cardinality({r \in Req : call[r].name = "submit_exam" /\ job[r] # "none"}) <= 1

\* After the final submission the answers of an exam are read-only.
SheetClosed == [][status \notin {"ready", "in_progress"} => UNCHANGED draft]_vars

\* The active results of a published exam are for the answers of its drafts.
MarkedFromSheet ==
    Mode = "exam" /\ status \in Published =>
        \A l \in ActiveIn(log) : log[l].answer = SheetAnswer(l[2])

\* The logs inserted by the requests of an API call.
WrittenBy(name) ==
    {l \in LogId : log[l].st # "none" /\ l[1] \in Req /\ call[l[1]].name = name}

\* A graded session accepts no answer: none of the logs inserted into it
\* comes from submit_answer.
GradedRejectsAnswers ==
    [][(status \in Published) =>
        WrittenBy("submit_answer")' = WrittenBy("submit_answer")]_vars

\* A session waits for objections only while one of them is under review.
PendingHasObjection == status = "objection_pending" => Pending # {}

\* A decided objection is not decided again.
DecisionIsFinal ==
    [][\A r \in Req : obj[r].st \in {"applied", "rejected", "upheld"} =>
          obj'[r].st = obj[r].st]_vars

\* An exam that was handed in is graded.
ExamIsGraded == status = "grading" ~> status \in Published

\* An objection that was filed is decided.
ObjectionIsDecided == \A r \in Req : obj[r].st = "under_review" ~> obj[r].st # "under_review"

\* Exam mode implements ExamPaper: the sheet is read off the drafts, and the
\* published mark of an item off its active result.
phase == IF status \in {"ready", "in_progress"} THEN "open"
         ELSE IF status \in Published THEN "marked" ELSE "handed_in"

NoMark == "unmarked"

ItemMark(i) == IF phase # "marked" THEN NoMark
               ELSE log[CHOOSE l \in ActiveOf(i) : TRUE].mark

Paper == INSTANCE ExamPaper
         WITH sheet <- [i \in Item |-> SheetAnswer(i)],
              marks <- [i \in Item |-> ItemMark(i)]

ImplementsExamPaper == Paper!Spec
==============================================================================

---------------------------- MODULE QuizJobsProofs ----------------------------
(***************************************************************************)
(* Jobs and their messages: what a request or an execution does to jobs,   *)
(* objections and the broker, whatever it does to answers and drafts.      *)
(* Every action is first reduced to one of twelve moves (JobMove); the     *)
(* invariants about jobs are proved move by move.                          *)
(***************************************************************************)
EXTENDS QuizSessionProofs, FiniteSetTheorems

Jobs == <<job, queue, works, obj>>

\* The API calls that create a job, and those that write something else.
JobCalls == {"submit_exam", "create_objection", "regrade_item"}
SheetCalls == {"submit_answer", "complete", "batch", "save_draft", "submit_exam"}

\* t alone moves, to label pc.
Moves(t, pc) == /\ tx'[t].pc = pc
                /\ \A u \in Tx \ {t} : tx'[u] = tx[u]

\* A new call: nothing else is open when clients wait for their answers.
NewCall(r, name) == /\ At(r, "new")
                    /\ MaxOpen <= 1 => \A o \in Req : ~Open(o)
                    /\ call'[r].name = name
                    /\ \A u \in Req \ {r} : call'[u] = call[u]

Begins(r) ==
    /\ \E name \in SheetCalls \cup {"create_objection"} :
          NewCall(r, name) /\ (name \in SheetCalls => status \in Answerable)
    /\ Moves(r, "writing") \/ Moves(r, "grading")
    /\ UNCHANGED Jobs

Prepares(r) ==
    /\ At(r, "grading") /\ Moves(r, "writing")
    /\ UNCHANGED <<Jobs, call>>

Ends(r) ==
    /\ Open(r) /\ Moves(r, "done")
    /\ UNCHANGED <<Jobs, call>>

HandsIn(r) ==
    /\ call[r].name = "submit_exam" /\ At(r, "writing") /\ Moves(r, "dispatch")
    /\ status' = "grading"
    /\ job' = [job EXCEPT ![r] = "pending"]
    /\ UNCHANGED <<queue, works, obj, call>>

Files(r) ==
    /\ call[r].name = "create_objection" /\ At(r, "writing") /\ Moves(r, "dispatch")
    /\ job' = [job EXCEPT ![r] = "pending"]
    /\ obj'[r].st = "under_review" /\ \A q \in Req \ {r} : obj'[q] = obj[q]
    /\ UNCHANGED <<queue, works, call>>

Orders(r) ==
    /\ NewCall(r, "regrade_item") /\ Moves(r, "dispatch")
    /\ job' = [job EXCEPT ![r] = "pending"]
    /\ UNCHANGED <<queue, works, obj>>

\* retry_job and cancel_job.
Administers(r) ==
    /\ NewCall(r, "retry_job") \/ NewCall(r, "cancel_job")
    /\ \E q \in Req, st \in {"pending", "failed"} :
          /\ job[q] # "none" /\ job' = [job EXCEPT ![q] = st]
          /\ \/ Moves(r, "done")
             \/ /\ Moves(r, "dispatch") /\ call'[r].name = "retry_job"
                /\ call'[r].target = q /\ call[q].name \in Retryable
    /\ UNCHANGED <<queue, works, obj>>

Sends(r) ==
    /\ At(r, "dispatch") /\ Moves(r, "done")
    /\ queue' = [queue EXCEPT ![IF call[r].name = "retry_job" THEN call[r].target ELSE r] = @ + 1]
    /\ UNCHANGED <<job, works, obj, call>>

Takes(w) ==
    /\ At(w, "new") /\ Moves(w, "started")
    /\ Workers <= 1 => \A v \in Run : ~Busy(v)
    /\ \E q \in Req : /\ queue[q] > 0
                      /\ queue' = [queue EXCEPT ![q] = @ - 1]
                      /\ works' = [works EXCEPT ![w] = q]
                      /\ job' = [job EXCEPT ![q] = "processing"]
    /\ UNCHANGED <<obj, call>>

\* The labels of the tasks between reading and committing, and the API call
\* that created the job of a task at such a label.
TaskLabels == {"grading", "writing", "failing", "upholding", "restoring", "regrading"}

CallAt(pc) == IF pc \in {"upholding", "restoring"} THEN "create_objection"
              ELSE IF pc = "regrading" THEN "regrade_item" ELSE "submit_exam"

\* From one label of a task to the next.
Continues(w) ==
    /\ At(w, "started") \/ At(w, "grading")
    /\ works[w] \in Req
    /\ \E pc \in TaskLabels :
          /\ Moves(w, pc)
          /\ call[works[w]].name = CallAt(pc)
          /\ pc \in {"upholding", "restoring"} => At(w, "started")
          /\ pc = "restoring" => tx'[w].verdict \in {"rejected", "upheld"}
    /\ UNCHANGED <<Jobs, call>>

\* A task ends its job, and may decide its objection.
Concludes(w) ==
    /\ Busy(w) /\ ~At(w, "unacked") /\ works[w] \in Req /\ Moves(w, "unacked")
    /\ \E st \in {"completed", "failed"} : job' = [job EXCEPT ![works[w]] = st]
    /\ \/ obj' = obj
       \/ /\ At(w, "upholding") /\ obj' = [obj EXCEPT ![works[w]].st = "applied"]
       \/ /\ At(w, "restoring") /\ obj' = [obj EXCEPT ![works[w]].st = tx[w].verdict]
    /\ UNCHANGED <<queue, works, call>>

\* A task is aborted, acknowledged or lost; a crash sends its message again.
Releases(w) ==
    /\ Busy(w)
    /\ Moves(w, "unacked") \/ Moves(w, "done")
    /\ queue' = queue \/ ("crash" \in Faults /\ queue' = [queue EXCEPT ![works[w]] = @ + 1])
    /\ UNCHANGED <<job, works, obj, call>>

RequestMove(r) == \/ Begins(r) \/ Prepares(r) \/ Ends(r) \/ HandsIn(r) \/ Files(r)
                  \/ Orders(r) \/ Administers(r) \/ Sends(r)
RunMove(w) == Takes(w) \/ Continues(w) \/ Concludes(w) \/ Releases(w)

JobMove == \/ \E r \in Req : RequestMove(r)
           \/ \E w \in Run : RunMove(w)
           \/ UNCHANGED <<Jobs, call, tx>>

LEMMA StepMoves ==
  ASSUME TypeOK, NEW t \in Tx
  PROVE  /\ Step(t, Finished) => Moves(t, "done")
         /\ \A pc : Step(t, [Idle EXCEPT !.pc = pc]) => Moves(t, pc)
  BY DEF TypeOK, Step, Moves, Finished, Idle

\* Clients that wait have one request open; a sole worker has one task.
LEMMA NoneOpen ==
  ASSUME TypeOK, NEW r \in Req, NEW name, NEW i, NEW q, Calling(r, name, i, q)
  PROVE  NewCall(r, name) /\ call'[r].target = q
  <1>1. call'[r].name = name /\ call'[r].target = q /\ \A u \in Req \ {r} : call'[u] = call[u]
    BY DEF Calling, TypeOK
  <1>2. ASSUME MaxOpen <= 1 PROVE \A o \in Req : ~Open(o)
    <2> DEFINE S == {o \in Req : Open(o)}
    <2>1. IsFiniteSet(S)
      BY StoreAssumption, FS_Subset
    <2>2. Cardinality(S) \in Nat /\ Cardinality(S) < MaxOpen
      BY <2>1, FS_CardinalityType DEF Calling
    <2>3. Cardinality(S) = 0
      BY <1>2, <2>2, StoreAssumption
    <2> QED
      BY <2>1, <2>3, FS_EmptySet
  <1> QED
    BY <1>1, <1>2 DEF NewCall, Calling, At

LEMMA NoneBusy ==
  ASSUME Workers <= 1, Cardinality({v \in Run : Busy(v)}) < Workers
  PROVE  \A v \in Run : ~Busy(v)
  <1> DEFINE S == {v \in Run : Busy(v)}
  <1>1. IsFiniteSet(S)
    BY StoreAssumption, FS_Subset
  <1>2. Cardinality(S) \in Nat
    BY <1>1, FS_CardinalityType
  <1>3. Cardinality(S) = 0
    BY <1>2, StoreAssumption
  <1> QED
    BY <1>1, <1>3, FS_EmptySet

LEMMA AnsweringMoves ==
  ASSUME TypeOK, NEW r \in Req, Answering(r)
  PROVE  RequestMove(r)
  <1> USE DEF rows, Jobs
  <1>0. r \in Tx /\ tx[r] \in Workspace
    BY DEF Tx, TypeOK
  <1>1. CASE BeginSubmitAnswer(r)
    <2>1. PICK i \in Item, a \in Answer :
            /\ Calling(r, "submit_answer", i, NoReq)
            /\ Step(r, [Idle EXCEPT !.pc = "grading", !.seen = status, !.items = {i},
                                    !.answers[i] = a])
            /\ UNCHANGED <<rows, queue, works, tally>>
      BY <1>1 DEF BeginSubmitAnswer
    <2>2. Moves(r, "grading")
      BY <1>0, <2>1 DEF Moves, Step, TypeOK, Idle
    <2>3. Begins(r)
      BY <1>1, <2>1, <2>2, NoneOpen DEF Begins, SheetCalls, BeginSubmitAnswer
    <2> QED
      BY <2>3 DEF RequestMove
  <1>2. CASE GradeSubmittedAnswer(r)
    <2>1. PICK m : Step(r, [tx[r] EXCEPT !.pc = "writing", !.marks = m,
                                         !.old = Previous(call[r].item)])
      BY <1>2 DEF GradeSubmittedAnswer
    <2>2. Moves(r, "writing")
      BY <1>0, <2>1 DEF Moves, Step, TypeOK, Workspace
    <2> QED
      BY <1>2, <2>2 DEF RequestMove, Prepares, GradeSubmittedAnswer
  <1>3. CASE CommitSubmitAnswer(r) \/ CommitComplete(r) \/ CommitBatch(r)
    <2>1. Moves(r, "done")
      BY <1>0, <1>3, StepMoves DEF CommitSubmitAnswer, CommitComplete, CommitBatch
    <2> QED
      BY <1>3, <2>1 DEF RequestMove, Ends, Open, At, CommitSubmitAnswer, CommitComplete,
                        CommitBatch
  <1>4. CASE BeginComplete(r)
    <2>1. Moves(r, "writing")
      BY <1>0, <1>4 DEF Moves, Step, TypeOK, BeginComplete, Idle
    <2>2. Begins(r)
      BY <1>4, <2>1, NoneOpen DEF Begins, SheetCalls, BeginComplete
    <2> QED
      BY <2>2 DEF RequestMove
  <1>5. CASE BeginBatch(r)
    <2>1. PICK as \in [Item -> Answer \cup {Blank}] :
            /\ Calling(r, "batch", 1, NoReq)
            /\ Step(r, [Idle EXCEPT !.pc = "grading", !.seen = status, !.answers = as,
                                    !.items = BatchItems(as)])
            /\ UNCHANGED <<rows, queue, works>>
      BY <1>5 DEF BeginBatch
    <2>2. Moves(r, "grading")
      BY <1>0, <2>1 DEF Moves, Step, TypeOK, Idle
    <2>3. Begins(r)
      BY <1>5, <2>1, <2>2, NoneOpen DEF Begins, SheetCalls, BeginBatch
    <2> QED
      BY <2>3 DEF RequestMove
  <1>6. CASE GradeBatch(r)
    <2>1. PICK m : Step(r, [tx[r] EXCEPT !.pc = "writing", !.marks = m, !.old = ActiveIn(log)])
      BY <1>6 DEF GradeBatch
    <2>2. Moves(r, "writing")
      BY <1>0, <2>1 DEF Moves, Step, TypeOK, Workspace
    <2> QED
      BY <1>6, <2>2 DEF RequestMove, Prepares, GradeBatch
  <1> QED
    BY <1>1, <1>2, <1>3, <1>4, <1>5, <1>6 DEF Answering

LEMMA ExamRequestMoves ==
  ASSUME TypeOK, NEW r \in Req, ExamRequest(r)
  PROVE  RequestMove(r)
  <1> USE DEF rows, Jobs
  <1>0. r \in Tx /\ tx[r] \in Workspace
    BY DEF Tx, TypeOK
  <1>1. CASE BeginSaveDraft(r)
    <2>1. PICK i \in Item, a \in Answer \cup {Blank}, q \in Req :
            /\ Calling(r, "save_draft", i, NoReq)
            /\ Step(r, [Idle EXCEPT !.pc = "writing", !.seen = status, !.answers[i] = a,
                                    !.row = IF draft[i][q] = a THEN NoReq ELSE q])
            /\ UNCHANGED <<rows, queue, works, tally>>
      BY <1>1 DEF BeginSaveDraft, DraftRows
    <2>2. Moves(r, "writing")
      BY <1>0, <2>1 DEF Moves, Step, TypeOK, Idle
    <2>3. Begins(r)
      BY <1>1, <2>1, <2>2, NoneOpen DEF Begins, SheetCalls, BeginSaveDraft, Draftable, Answerable
    <2> QED
      BY <2>3 DEF RequestMove
  <1>2. CASE CommitSaveDraft(r)
    <2>1. Moves(r, "done")
      BY <1>0, <1>2, StepMoves DEF CommitSaveDraft
    <2> QED
      BY <1>2, <2>1 DEF RequestMove, Ends, Open, At, CommitSaveDraft
  <1>3. CASE BeginSubmitExam(r)
    <2>1. Moves(r, "writing")
      BY <1>0, <1>3 DEF Moves, Step, TypeOK, BeginSubmitExam, Idle
    <2>2. Begins(r)
      BY <1>3, <2>1, NoneOpen DEF Begins, SheetCalls, BeginSubmitExam, Submittable, Answerable
    <2> QED
      BY <2>2 DEF RequestMove
  <1>4. CASE CommitSubmitExam(r)
    <2>1. Moves(r, "dispatch")
      BY <1>0, <1>4, StepMoves DEF CommitSubmitExam
    <2> QED
      BY <1>4, <2>1 DEF RequestMove, HandsIn, CommitSubmitExam
  <1> QED
    BY <1>1, <1>2, <1>3, <1>4 DEF ExamRequest

LEMMA ReviewRequestMoves ==
  ASSUME TypeOK, NEW r \in Req, ReviewRequest(r)
  PROVE  RequestMove(r)
  <1> USE DEF rows, Jobs
  <1>0. r \in Tx /\ tx[r] \in Workspace
    BY DEF Tx, TypeOK
  <1>1. CASE BeginCreateObjection(r)
    <2>1. PICK l :
            /\ Calling(r, "create_objection", l[2], NoReq)
            /\ Step(r, [Idle EXCEPT !.pc = "writing", !.seen = status, !.old = {l}])
            /\ UNCHANGED <<rows, queue, works, tally>>
      BY <1>1 DEF BeginCreateObjection
    <2>2. Moves(r, "writing")
      BY <1>0, <2>1 DEF Moves, Step, TypeOK, Idle
    <2>3. Begins(r)
      BY <2>1, <2>2, NoneOpen DEF Begins, SheetCalls
    <2> QED
      BY <2>3 DEF RequestMove
  <1>2. CASE CommitCreateObjection(r)
    <2>1. Moves(r, "dispatch")
      BY <1>0, <1>2, StepMoves DEF CommitCreateObjection
    <2>2. obj'[r].st = "under_review" /\ \A q \in Req \ {r} : obj'[q] = obj[q]
      BY <1>2 DEF CommitCreateObjection, TypeOK
    <2> QED
      BY <1>2, <2>1, <2>2 DEF RequestMove, Files, CommitCreateObjection
  <1>3. CASE RegradeItem(r)
    <2>1. PICK i \in Item : Calling(r, "regrade_item", i, NoReq)
      BY <1>3 DEF RegradeItem
    <2>2. Moves(r, "dispatch")
      BY <1>0, <1>3, StepMoves DEF RegradeItem
    <2> QED
      BY <1>3, <2>1, <2>2, NoneOpen DEF RequestMove, Orders, RegradeItem
  <1>4. CASE RetryJob(r)
    <2>1. PICK q \in Req :
            /\ job[q] = "failed"
            /\ Calling(r, "retry_job", 1, q)
            /\ job' = [job EXCEPT ![q] = "pending"]
            /\ Step(r, IF call[q].name \in Retryable THEN [Idle EXCEPT !.pc = "dispatch"]
                                                      ELSE Finished)
            /\ UNCHANGED <<status, total, log, draft, obj, queue, works, tally>>
      BY <1>4 DEF RetryJob
    <2>2. Moves(r, "done") \/ (Moves(r, "dispatch") /\ call[q].name \in Retryable)
      <3>1. CASE call[q].name \in Retryable
        BY <1>0, <2>1, <3>1, StepMoves
      <3>2. CASE call[q].name \notin Retryable
        <4>1. Step(r, Finished)
          BY <2>1, <3>2
        <4> QED
          BY <1>0, <4>1, StepMoves
      <3> QED
        BY <3>1, <3>2
    <2>3. NewCall(r, "retry_job") /\ call'[r].target = q
      BY <2>1, NoneOpen
    <2>4. Administers(r)
      BY <2>1, <2>2, <2>3 DEF Administers, NewCall
    <2> QED
      BY <2>4 DEF RequestMove
  <1>5. CASE CancelJob(r)
    <2>1. PICK q \in Req :
            /\ job[q] \in {"pending", "processing"}
            /\ Calling(r, "cancel_job", 1, q)
            /\ job' = [job EXCEPT ![q] = "failed"]
            /\ Step(r, Finished)
            /\ UNCHANGED <<status, total, log, draft, obj, queue, works, tally>>
      BY <1>5 DEF CancelJob
    <2>2. Moves(r, "done") /\ NewCall(r, "cancel_job")
      BY <1>0, <2>1, StepMoves, NoneOpen
    <2>3. Administers(r)
      BY <2>1, <2>2 DEF Administers
    <2> QED
      BY <2>3 DEF RequestMove
  <1> QED
    BY <1>1, <1>2, <1>3, <1>4, <1>5 DEF ReviewRequest

LEMMA TaskMoves ==
  ASSUME TypeOK, NEW w \in Run, Task(w)
  PROVE  RunMove(w)
  <1> USE DEF rows, Jobs
  <1>0. w \in Tx /\ tx[w] \in Workspace
    BY DEF Tx, TypeOK
  <1>1. CASE StartGradeExam(w) \/ ReadRegrade(w)
    <2>1. CASE StartGradeExam(w)
      BY <1>0, <2>1, StepMoves DEF StartGradeExam, Continues, TaskLabels, CallAt, RunAt, At, RunMove
    <2>2. CASE ReadRegrade(w)
      <3>1. Moves(w, "regrading")
        BY <1>0, <2>2 DEF Moves, Step, TypeOK, ReadRegrade, Idle
      <3> QED
        BY <2>2, <3>1 DEF ReadRegrade, Continues, TaskLabels, CallAt, RunAt, At, RunMove
    <2> QED
      BY <1>1, <2>1, <2>2
  <1>2. CASE GradeSheet(w)
    <2> DEFINE as == [i \in Item |-> IF i \in Gradable THEN SheetAnswer(i) ELSE Blank]
               pc == IF Gradable = Item THEN "writing" ELSE "failing"
    <2>1. PICK m : Step(w, [Idle EXCEPT !.pc = pc, !.items = Gradable, !.answers = as,
                                        !.marks = m, !.old = FormerResults])
      BY <1>2 DEF GradeSheet
    <2> HIDE DEF as
    <2>2. Moves(w, pc)
      BY <1>0, <2>1 DEF Moves, Step, TypeOK, Idle
    <2>3. Continues(w)
      BY <1>2, <2>2 DEF Continues, TaskLabels, CallAt, GradeSheet, RunAt, At
    <2> QED
      BY <2>3 DEF RunMove
  <1>3. CASE CommitGradeExam(w) \/ FailGradeExam(w)
    <2>1. /\ RunAt(w, "submit_exam", "writing") \/ RunAt(w, "submit_exam", "failing")
          /\ Conclude(w, "completed") \/ Conclude(w, "failed")
          /\ UNCHANGED <<queue, works, obj, call>>
      BY <1>3 DEF CommitGradeExam, FailGradeExam
    <2>2. Moves(w, "unacked")
      BY <1>0, <2>1, StepMoves DEF Conclude
    <2>3. Concludes(w)
      BY <2>1, <2>2 DEF Concludes, Conclude, RunAt, Busy, At
    <2> QED
      BY <2>3 DEF RunMove
  <1>4. CASE UpholdObjection(w)
    <2>1. PICK l, m : Step(w, [Replace(l, m) EXCEPT !.seen = status])
      BY <1>4 DEF UpholdObjection
    <2>2. Moves(w, "upholding")
      BY <1>0, <2>1 DEF Moves, Step, TypeOK, Replace, Idle
    <2>3. Continues(w)
      BY <1>4, <2>2 DEF Continues, TaskLabels, CallAt, UpholdObjection, RunAt, At
    <2> QED
      BY <2>3 DEF RunMove
  <1>5. CASE DismissObjection(w)
    <2>1. PICK d \in {"rejected", "upheld"} :
            Step(w, [Idle EXCEPT !.pc = "restoring", !.seen = status, !.verdict = d,
                                 !.others = OtherPending(works[w])])
      BY <1>5 DEF DismissObjection
    <2>2. Moves(w, "restoring") /\ tx'[w].verdict = d
      BY <1>0, <2>1 DEF Moves, Step, TypeOK, Idle
    <2>3. Continues(w)
      BY <1>5, <2>2 DEF Continues, TaskLabels, CallAt, DismissObjection, RunAt, At
    <2> QED
      BY <2>3 DEF RunMove
  <1>6. CASE \/ CommitUpheldObjection(w) \/ CommitDismissedObjection(w)
             \/ FailReview(w) \/ FailUpholding(w) \/ CommitRegrade(w)
    <2>1. /\ works[w] \in Req /\ Busy(w) /\ ~At(w, "unacked")
          /\ \E st \in {"completed", "failed"} : Conclude(w, st)
          /\ UNCHANGED <<queue, works, call>>
      BY <1>6 DEF CommitUpheldObjection, CommitDismissedObjection, FailReview, FailUpholding,
                  CommitRegrade, RunAt, Busy, At
    <2>2. \/ obj' = obj
          \/ At(w, "upholding") /\ obj' = [obj EXCEPT ![works[w]].st = "applied"]
          \/ At(w, "restoring") /\ obj' = [obj EXCEPT ![works[w]].st = tx[w].verdict]
      BY <1>6 DEF CommitUpheldObjection, CommitDismissedObjection, FailReview, FailUpholding,
                  CommitRegrade, RunAt, At
    <2>3. Moves(w, "unacked")
      BY <1>0, <2>1, StepMoves DEF Conclude
    <2>4. Concludes(w)
      BY <2>1, <2>2, <2>3 DEF Concludes, Conclude
    <2> QED
      BY <2>4 DEF RunMove
  <1> QED
    BY <1>1, <1>2, <1>3, <1>4, <1>5, <1>6 DEF Task, ExamTask, ReviewTask

LEMMA SendingMoves ==
  ASSUME TypeOK, NEW r \in Req, Dispatch(r) \/ FailRequest(r)
  PROVE  RequestMove(r)
  <1> USE DEF rows, Jobs
  <1>1. Moves(r, "done")
    BY StepMoves DEF Dispatch, FailRequest, Tx
  <1>2. CASE Dispatch(r)
    BY <1>1, <1>2 DEF RequestMove, Sends, Dispatch
  <1>3. CASE FailRequest(r)
    BY <1>1, <1>3 DEF RequestMove, Ends, FailRequest
  <1> QED
    BY <1>2, <1>3

LEMMA DeliveryMoves ==
  ASSUME TypeOK, NEW w \in Run, TakeJob(w) \/ AbortTask(w) \/ Acknowledge(w) \/ Crash(w)
  PROVE  RunMove(w)
  <1> USE DEF rows, Jobs
  <1>1. CASE TakeJob(w)
    <2>1. Moves(w, "started")
      BY <1>1, StepMoves DEF TakeJob, Tx
    <2>2. Takes(w)
      BY <1>1, <2>1, NoneBusy DEF Takes, TakeJob
    <2> QED
      BY <2>2 DEF RunMove
  <1>2. CASE AbortTask(w) \/ Acknowledge(w) \/ Crash(w)
    <2>1. Moves(w, "unacked") \/ Moves(w, "done")
      BY <1>2, StepMoves DEF AbortTask, Acknowledge, Crash, Tx
    <2>2. Releases(w)
      BY <1>2, <2>1 DEF Releases, AbortTask, Acknowledge, Crash, Busy, At
    <2> QED
      BY <2>2 DEF RunMove
  <1> QED
    BY <1>1, <1>2

LEMMA NextMoves == ASSUME TypeOK, [Next]_vars PROVE JobMove
  <1>1. ASSUME NEW r \in Req, Request(r) PROVE RequestMove(r)
    BY <1>1, AnsweringMoves, ExamRequestMoves, ReviewRequestMoves DEF Request
  <1>2. CASE UNCHANGED vars
    BY <1>2 DEF vars, rows, Jobs, JobMove
  <1> QED
    BY <1>1, <1>2, SendingMoves, TaskMoves, DeliveryMoves DEF Next, JobMove

-----------------------------------------------------------------------------
\* A request that has not committed anything.
Uncommitted(r) == tx[r].pc \in {"new", "grading", "writing"}

\* Jobs are created once, by the commit of their request, before any message
\* about them is sent; an objection exists from the commit of its request on.
JobsExist ==
    /\ \A q \in Req : queue[q] > 0 => job[q] # "none"
    /\ \A w \in Run : works[w] \in Req => job[works[w]] # "none"
    /\ \A q \in Req : Uncommitted(q) => job[q] = "none" /\ obj[q].st = "none"
    /\ \A q \in Req : At(q, "new") <=> call[q].name = "none"
    /\ \A q \in Req : At(q, "dispatch") =>
          IF call[q].name = "retry_job"
          THEN /\ call[q].target \in Req /\ job[call[q].target] # "none"
               /\ call[call[q].target].name \in Retryable
          ELSE job[q] # "none"
    /\ \A q \in Req : job[q] # "none" => call[q].name \in JobCalls
    /\ \A q \in Req : obj[q].st # "none" <=>
          job[q] # "none" /\ call[q].name = "create_objection"
    /\ \A w \in Run : tx[w].pc \in TaskLabels =>
          works[w] \in Req /\ call[works[w]].name = CallAt(tx[w].pc)
    /\ \A w \in Run : At(w, "restoring") => tx[w].verdict \in {"rejected", "upheld"}

JInv == TypeOK /\ JobsExist

LEMMA JInvInit == Init => JInv
  <1> SUFFICES ASSUME Init PROVE JobsExist
    BY TypeInit DEF JInv
  <1>1. /\ \A t \in Tx : tx[t].pc = "new"
        /\ \A q \in Req : /\ job[q] = "none" /\ queue[q] = 0 /\ obj[q].st = "none"
                          /\ call[q].name = "none"
        /\ \A w \in Run : works[w] = NoReq
    BY DEF Init, Idle
  <1> QED
    BY <1>1, StoreAssumption DEF JobsExist, Uncommitted, TaskLabels, At, Tx

LEMMA RequestKeepsJobsExist ==
  ASSUME JInv, TypeOK', NEW r \in Req, RequestMove(r)
  PROVE  JobsExist'
  <1> USE DEF Jobs, JobsExist, Uncommitted, At, JobCalls, Moves, NewCall
  <1>0. /\ r \in Tx /\ r \notin Run /\ Run \subseteq Tx /\ Req \subseteq Tx /\ JobsExist
        /\ job \in [Req -> JobStatus] /\ queue \in [Req -> Nat] /\ DOMAIN obj = Req
    BY StoreAssumption DEF Tx, JInv, TypeOK
  <1>1. CASE Begins(r)
    BY <1>0, <1>1, SMTT(30) DEF Begins, SheetCalls
  <1>2. CASE Prepares(r)
    BY <1>0, <1>2, SMTT(30) DEF Prepares
  <1>3. CASE Ends(r)
    BY <1>0, <1>3 DEF Ends, Open
  <1>4. CASE HandsIn(r)
    BY <1>0, <1>4 DEF HandsIn
  <1>5. CASE Files(r)
    BY <1>0, <1>5 DEF Files
  <1>6. CASE Orders(r)
    BY <1>0, <1>6, SMTT(30) DEF Orders
  <1>7. CASE Administers(r)
    BY <1>0, <1>7, SMTT(30) DEF Administers
  <1>8. CASE Sends(r)
    BY <1>0, <1>8 DEF Sends
  <1> QED
    BY <1>1, <1>2, <1>3, <1>4, <1>5, <1>6, <1>7, <1>8 DEF RequestMove

LEMMA RunKeepsJobsExist ==
  ASSUME JInv, TypeOK', NEW w \in Run, RunMove(w)
  PROVE  JobsExist'
  <1> USE DEF Jobs, JobsExist, Uncommitted, At, JobCalls, Moves, TaskLabels, CallAt
  <1>0. /\ w \in Tx /\ w \notin Req /\ Run \subseteq Tx /\ Req \subseteq Tx /\ JobsExist
        /\ job \in [Req -> JobStatus] /\ queue \in [Req -> Nat] /\ works \in [Run -> Req \cup {NoReq}]
    BY StoreAssumption DEF Tx, JInv, TypeOK
  <1>1. CASE Takes(w)
    <2>1. PICK q \in Req : /\ queue[q] > 0
                          /\ queue' = [queue EXCEPT ![q] = @ - 1]
                          /\ works' = [works EXCEPT ![w] = q]
                          /\ job' = [job EXCEPT ![q] = "processing"]
      BY <1>1 DEF Takes
    <2>2. /\ job[q] # "none" /\ job'[q] = "processing" /\ works'[w] = q
          /\ \A o \in Req \ {q} : job'[o] = job[o]
          /\ \A v \in Run \ {w} : works'[v] = works[v]
          /\ \A o \in Req : queue'[o] > 0 => queue[o] > 0
      BY <1>0, <2>1
    <2>3. /\ tx'[w].pc = "started" /\ \A u \in Tx \ {w} : tx'[u] = tx[u]
          /\ UNCHANGED <<obj, call>>
      BY <1>1 DEF Takes
    <2> QED
      BY <1>0, <2>2, <2>3
  <1>2. CASE Continues(w)
    <2>1. PICK pc \in TaskLabels :
            /\ tx'[w].pc = pc /\ \A u \in Tx \ {w} : tx'[u] = tx[u]
            /\ call[works[w]].name = CallAt(pc)
            /\ pc = "restoring" => tx'[w].verdict \in {"rejected", "upheld"}
      BY <1>2 DEF Continues
    <2> QED
      BY <1>0, <1>2, <2>1 DEF Continues
  <1>3. CASE Concludes(w)
    <2>1. PICK q \in Req, st \in {"completed", "failed"} :
            q = works[w] /\ job' = [job EXCEPT ![q] = st]
      BY <1>3 DEF Concludes
    <2>2. /\ tx'[w].pc = "unacked" /\ \A u \in Tx \ {w} : tx'[u] = tx[u]
          /\ UNCHANGED <<queue, works, call>>
      BY <1>3 DEF Concludes
    <2>3. \A o \in Req : obj'[o].st = "none" <=> obj[o].st = "none"
      <3>1. tx[w].pc \in {"upholding", "restoring"} => obj[q].st # "none"
        BY <1>0, <2>1
      <3>2. obj \in [Req -> [st : ObjectionStatus, logs : SUBSET LogId]]
        BY DEF JInv, TypeOK
      <3>3. CASE obj' = obj
        BY <3>3
      <3>4. CASE At(w, "upholding") /\ obj' = [obj EXCEPT ![q].st = "applied"]
        BY <3>1, <3>2, <3>4
      <3>5. CASE At(w, "restoring") /\ obj' = [obj EXCEPT ![q].st = tx[w].verdict]
        <4>1. tx[w].verdict # "none"
          BY <1>0, <3>5
        <4> QED
          BY <3>1, <3>2, <3>5, <4>1
      <3> QED
        BY <1>3, <2>1, <3>3, <3>4, <3>5 DEF Concludes
    <2> QED
      BY <1>0, <2>1, <2>2, <2>3
  <1>4. CASE Releases(w)
    <2>1. /\ tx'[w].pc \in {"unacked", "done"} /\ \A u \in Tx \ {w} : tx'[u] = tx[u]
          /\ UNCHANGED <<job, works, obj, call>>
      BY <1>4 DEF Releases
    <2>2. \A q \in Req : queue'[q] > 0 => queue[q] > 0 \/ q = works[w]
      BY <1>0, <1>4 DEF Releases
    <2> QED
      BY <1>0, <2>1, <2>2
  <1> QED
    BY <1>1, <1>2, <1>3, <1>4 DEF RunMove

LEMMA JInvNext == JInv /\ [Next]_vars => JInv'
  <1> SUFFICES ASSUME JInv, [Next]_vars PROVE JInv'
    OBVIOUS
  <1>1. TypeOK' /\ JobMove
    BY TypeNext, NextMoves DEF JInv
  <1>2. CASE UNCHANGED <<Jobs, call, tx>>
    BY <1>1, <1>2 DEF JInv, Jobs, JobsExist, Uncommitted, At
  <1> QED
    BY <1>1, <1>2, RequestKeepsJobsExist, RunKeepsJobsExist DEF JobMove, JInv

LEMMA JInvHolds == Spec => []JInv
  BY JInvInit, JInvNext, PTL DEF Spec

-----------------------------------------------------------------------------
\* Without a crash, a job that cannot be retried has one message: it is being
\* sent, or in the broker, or taken by one execution.
OneDelivery ==
    \A q \in Req : call[q].name \notin Retryable =>
        /\ queue[q] <= 1
        /\ At(q, "dispatch") => queue[q] = 0
        /\ \A w \in Run : works[w] = q => queue[q] = 0 /\ ~At(q, "dispatch")
        /\ \A v, w \in Run : works[v] = q /\ works[w] = q => v = w

\* Whoever is still to decide an objection finds it under review.
Undecided ==
    \A q \in Req : call[q].name = "create_objection" =>
        /\ At(q, "dispatch") \/ queue[q] > 0 => obj[q].st = "under_review"
        /\ \A w \in Run : works[w] = q /\ tx[w].pc \in {"started", "upholding", "restoring"}
              => obj[q].st = "under_review"

DInv == JInv /\ OneDelivery /\ Undecided

LEMMA DInvInit == Init => DInv
  <1> SUFFICES ASSUME Init PROVE OneDelivery /\ Undecided
    BY JInvInit DEF DInv
  <1>1. /\ \A t \in Tx : tx[t].pc = "new"
        /\ \A q \in Req : queue[q] = 0 /\ call[q].name = "none"
        /\ \A w \in Run : works[w] = NoReq
    BY DEF Init, Idle
  <1> QED
    BY <1>1, StoreAssumption DEF OneDelivery, Undecided, At, Tx

LEMMA RequestKeepsDelivery ==
  ASSUME DInv, TypeOK', NEW r \in Req, RequestMove(r)
  PROVE  OneDelivery' /\ Undecided'
  <1> USE DEF Jobs, OneDelivery, Undecided, At, Moves, NewCall, Retryable
  <1>0. /\ r \in Tx /\ r \notin Run /\ Run \subseteq Tx /\ Req \subseteq Tx
        /\ OneDelivery /\ Undecided /\ JobsExist
        /\ job \in [Req -> JobStatus] /\ queue \in [Req -> Nat] /\ DOMAIN obj = Req
    BY StoreAssumption DEF Tx, DInv, JInv, TypeOK
  <1>1. At(r, "new") => job[r] = "none" /\ queue[r] = 0 /\ \A w \in Run : works[w] # r
    BY <1>0 DEF JobsExist, Uncommitted
  <1>2. CASE Begins(r) \/ Orders(r) \/ Administers(r)
    BY <1>0, <1>1, <1>2 DEF Begins, Orders, Administers
  <1>3. CASE Prepares(r) \/ Ends(r)
    BY <1>0, <1>3 DEF Prepares, Ends
  <1>4. CASE HandsIn(r) \/ Files(r)
    <2>1. job[r] = "none" /\ queue[r] = 0 /\ \A w \in Run : works[w] # r
      BY <1>0, <1>4 DEF JobsExist, Uncommitted, HandsIn, Files
    <2> QED
      BY <1>0, <1>4, <2>1 DEF HandsIn, Files
  <1>5. CASE Sends(r)
    <2>1. PICK q \in Req : /\ queue' = [queue EXCEPT ![q] = @ + 1]
                          /\ \/ q = r /\ call[r].name # "retry_job"
                             \/ call[q].name \in Retryable
      BY <1>0, <1>5 DEF Sends, JobsExist
    <2>2. queue'[q] = queue[q] + 1 /\ \A o \in Req \ {q} : queue'[o] = queue[o]
      BY <1>0, <2>1
    <2>3. /\ tx[r].pc = "dispatch" /\ tx'[r].pc = "done" /\ \A u \in Tx \ {r} : tx'[u] = tx[u]
          /\ UNCHANGED <<job, works, obj, call>>
      BY <1>5 DEF Sends
    <2> QED
      BY <1>0, <2>1, <2>2, <2>3
  <1> QED
    BY <1>2, <1>3, <1>4, <1>5 DEF RequestMove

LEMMA RunKeepsDelivery ==
  ASSUME DInv, TypeOK', NEW w \in Run, RunMove(w), "crash" \notin Faults
  PROVE  OneDelivery' /\ Undecided'
  <1> USE DEF Jobs, OneDelivery, Undecided, At, Moves
  <1>0. /\ w \in Tx /\ w \notin Req /\ Run \subseteq Tx /\ Req \subseteq Tx
        /\ OneDelivery /\ Undecided /\ JobsExist
        /\ queue \in [Req -> Nat] /\ works \in [Run -> Req \cup {NoReq}]
    BY StoreAssumption DEF Tx, DInv, JInv, TypeOK
  <1>1. CASE Takes(w)
    <2>1. PICK q \in Req : /\ queue[q] > 0
                          /\ queue' = [queue EXCEPT ![q] = @ - 1]
                          /\ works' = [works EXCEPT ![w] = q]
      BY <1>1 DEF Takes
    <2>2. /\ queue'[q] = queue[q] - 1 /\ \A o \in Req \ {q} : queue'[o] = queue[o]
          /\ works'[w] = q /\ \A v \in Run \ {w} : works'[v] = works[v]
      BY <1>0, <2>1
    <2>3. /\ tx'[w].pc = "started" /\ \A u \in Tx \ {w} : tx'[u] = tx[u]
          /\ UNCHANGED <<obj, call>>
      BY <1>1 DEF Takes
    <2> QED
      BY <1>0, <2>1, <2>2, <2>3
  <1>2. CASE Continues(w)
    BY <1>0, <1>2 DEF Continues, CallAt
  <1>3. CASE Concludes(w)
    <2>1. /\ tx'[w].pc = "unacked" /\ \A u \in Tx \ {w} : tx'[u] = tx[u]
          /\ UNCHANGED <<queue, works, call>>
      BY <1>3 DEF Concludes
    <2>2. \A o \in Req : o # works[w] => obj'[o] = obj[o]
      BY <1>3 DEF Concludes, DInv, JInv, TypeOK
    <2>3. CASE obj' = obj
      BY <1>0, <2>1, <2>3
    <2>4. CASE tx[w].pc \in {"upholding", "restoring"}
      <3>1. works[w] \in Req /\ call[works[w]].name = "create_objection"
        BY <1>0, <2>4 DEF JobsExist, TaskLabels, CallAt
      <3>2. /\ queue[works[w]] = 0 /\ ~At(works[w], "dispatch")
            /\ \A v \in Run : works[v] = works[w] => v = w
        BY <1>0, <3>1 DEF Retryable
      <3> QED
        BY <1>0, <2>1, <2>2, <3>1, <3>2
    <2> QED
      BY <1>3, <2>3, <2>4 DEF Concludes
  <1>4. CASE Releases(w)
    BY <1>0, <1>4 DEF Releases
  <1> QED
    BY <1>1, <1>2, <1>3, <1>4 DEF RunMove

LEMMA DInvNext == ASSUME "crash" \notin Faults PROVE DInv /\ [Next]_vars => DInv'
  <1> SUFFICES ASSUME DInv, [Next]_vars PROVE DInv'
    OBVIOUS
  <1>1. JInv' /\ JobMove
    BY JInvNext, NextMoves DEF DInv, JInv
  <1>2. CASE UNCHANGED <<Jobs, call, tx>>
    BY <1>1, <1>2 DEF DInv, Jobs, OneDelivery, Undecided, At
  <1> QED
    BY <1>1, <1>2, RequestKeepsDelivery, RunKeepsDelivery DEF JobMove, DInv, JInv

\* A step does not change the outcome of an objection that is decided.
LEMMA DecidedStays ==
  ASSUME DInv, [Next]_vars, NEW q \in Req, obj[q].st \in {"applied", "rejected", "upheld"}
  PROVE  obj'[q].st = obj[q].st
  <1>1. JobMove
    BY NextMoves DEF DInv, JInv
  <1>2. obj[q].st # "none" /\ obj[q].st # "under_review"
    BY DEF ObjectionStatus
  <1>3. ASSUME NEW r \in Req, Files(r) PROVE q # r
    BY <1>2, <1>3 DEF Files, DInv, JInv, JobsExist, Uncommitted, At
  <1>4. ASSUME NEW w \in Run, tx[w].pc \in {"upholding", "restoring"} PROVE q # works[w]
    BY <1>2, <1>4 DEF DInv, JInv, JobsExist, Undecided
  <1>5. ASSUME NEW r \in Req, RequestMove(r) PROVE obj'[q] = obj[q]
    BY <1>3, <1>5 DEF RequestMove, Begins, Prepares, Ends, HandsIn, Files, Orders,
                      Administers, Sends, Jobs
  <1>6. ASSUME NEW w \in Run, RunMove(w) PROVE obj'[q] = obj[q]
    BY <1>4, <1>6 DEF RunMove, Takes, Continues, TaskLabels, CallAt, Concludes, Releases, Jobs, At,
                      DInv, JInv, TypeOK
  <1> QED
    BY <1>1, <1>5, <1>6 DEF JobMove, Jobs

\* As long as no worker dies, an objection that was decided is not decided
\* again: no task runs twice for it, and none is sent for it by a retry.
THEOREM DecisionsAreFinal == ASSUME "crash" \notin Faults PROVE Spec => DecisionIsFinal
  <1> DEFINE Final == \A r \in Req : obj[r].st \in {"applied", "rejected", "upheld"} =>
                        obj'[r].st = obj[r].st
  <1>1. DInv /\ [Next]_vars => [Final]_vars
    BY DecidedStays
  <1>2. Spec => []DInv
    BY DInvInit, DInvNext, PTL DEF Spec
  <1> QED
    BY <1>1, <1>2, PTL DEF Spec, DecisionIsFinal

-----------------------------------------------------------------------------
\* At most one request is in flight, and one task in execution.
OneOpen == \A r, q \in Req : Open(r) /\ Open(q) => r = q
OneBusy == \A v, w \in Run : Busy(v) /\ Busy(w) => v = w

LEMMA OneAtATime ==
  ASSUME JobMove
  PROVE  /\ MaxOpen <= 1 /\ OneOpen => OneOpen'
         /\ Workers <= 1 /\ OneBusy => OneBusy'
  <1> USE DEF Open, Busy, At, Moves, OneOpen, OneBusy
  <1>0. Req \subseteq Tx /\ Run \subseteq Tx /\ Req \cap Run = {}
    BY StoreAssumption DEF Tx
  <1>1. ASSUME NEW r \in Req, RequestMove(r)
        PROVE  /\ \A u \in Tx \ {r} : tx'[u] = tx[u]
               /\ Open(r) \/ (MaxOpen <= 1 => \A o \in Req : ~Open(o))
    BY <1>1 DEF RequestMove, Begins, Prepares, Ends, HandsIn, Files, Orders, Administers,
                Sends, NewCall
  <1>2. ASSUME NEW w \in Run, RunMove(w)
        PROVE  /\ \A u \in Tx \ {w} : tx'[u] = tx[u]
               /\ Busy(w) \/ (Workers <= 1 => \A v \in Run : ~Busy(v))
    BY <1>2 DEF RunMove, Takes, Continues, TaskLabels, CallAt, Concludes, Releases
  <1>3. CASE \E r \in Req : RequestMove(r)
    BY <1>0, <1>1, <1>3
  <1>4. CASE \E w \in Run : RunMove(w)
    BY <1>0, <1>2, <1>4
  <1>5. CASE UNCHANGED <<Jobs, call, tx>>
    BY <1>5
  <1> QED
    BY <1>3, <1>4, <1>5 DEF JobMove

SubmitJobs == {r \in Req : call[r].name = "submit_exam" /\ job[r] # "none"}

\* A session that can still be answered has not been submitted, and nobody is
\* about to treat it as if it could.
SubmittedOnce ==
    /\ \A r, q \in SubmitJobs : r = q
    /\ status \in Answerable => SubmitJobs = {}
    /\ \A r \in Req : tx[r].pc \in {"grading", "writing"} /\ call[r].name \in SheetCalls
          => SubmitJobs = {}

SInv == JInv /\ OneOpen /\ SubmittedOnce

LEMMA SInvInit == Init => SInv
  <1> SUFFICES ASSUME Init PROVE OneOpen /\ SubmittedOnce
    BY JInvInit DEF SInv
  <1>1. /\ \A t \in Tx : tx[t].pc = "new"
        /\ \A q \in Req : job[q] = "none"
    BY DEF Init, Idle
  <1> QED
    BY <1>1 DEF OneOpen, Open, SubmittedOnce, SubmitJobs, Tx

\* Only a request that has read a session that can be answered makes it one again.
LEMMA Reopening ==
  ASSUME [Next]_vars, status' \in Answerable, status \notin Answerable
  PROVE  \E r \in Req : tx[r].pc = "writing" /\ call[r].name \in SheetCalls
                          /\ call' = call /\ job' = job
  <1> USE DEF rows, vars, Answerable, SheetCalls, At
  <1>1. CASE \E r \in Req : Answering(r)
    BY <1>1 DEF Answering, BeginSubmitAnswer, GradeSubmittedAnswer, CommitSubmitAnswer,
       BeginComplete, CommitComplete, BeginBatch, GradeBatch, CommitBatch
  <1>2. CASE \E r \in Req : ExamRequest(r)
    BY <1>2 DEF ExamRequest, BeginSaveDraft, CommitSaveDraft, BeginSubmitExam, CommitSubmitExam
  <1>3. CASE \E r \in Req : ReviewRequest(r)
    BY <1>3 DEF ReviewRequest, BeginCreateObjection, CommitCreateObjection, RegradeItem,
       RetryJob, CancelJob
  <1>4. CASE \E r \in Req : Dispatch(r) \/ FailRequest(r)
    BY <1>4 DEF Dispatch, FailRequest
  <1>5. CASE \E w \in Run : ExamTask(w)
    BY <1>5 DEF ExamTask, StartGradeExam, GradeSheet, CommitGradeExam, FailGradeExam,
       FailedGrading
  <1>6. CASE \E w \in Run : ReviewTask(w)
    BY <1>6 DEF ReviewTask, UpholdObjection, CommitUpheldObjection, DismissObjection,
       CommitDismissedObjection, FailReview, FailUpholding, ReadRegrade, CommitRegrade
  <1>7. CASE \E w \in Run : TakeJob(w) \/ AbortTask(w) \/ Acknowledge(w) \/ Crash(w)
    BY <1>7 DEF TakeJob, AbortTask, Acknowledge, Crash
  <1>8. CASE UNCHANGED vars
    BY <1>8
  <1> QED
    BY <1>1, <1>2, <1>3, <1>4, <1>5, <1>6, <1>7, <1>8 DEF Next, Request, Task

LEMMA SInvNext == ASSUME MaxOpen <= 1 PROVE SInv /\ [Next]_vars => SInv'
  <1> SUFFICES ASSUME SInv, [Next]_vars PROVE SInv'
    OBVIOUS
  <1>1. /\ JInv' /\ OneOpen' /\ JobMove
        /\ JInv /\ TypeOK /\ JobsExist /\ OneOpen /\ SubmittedOnce
        /\ Req \subseteq Tx /\ Run \subseteq Tx /\ Req \cap Run = {}
        /\ DOMAIN job = Req
    BY JInvNext, NextMoves, OneAtATime, StoreAssumption DEF SInv, JInv, Tx, TypeOK
  <1>2. status' \in Answerable => status \in Answerable \/ SubmitJobs' = {}
    BY <1>1, Reopening DEF SubmittedOnce, SubmitJobs
  <1>3. ASSUME NEW r \in Req, HandsIn(r) PROVE SubmittedOnce'
    <2>1. SubmitJobs = {} /\ SubmitJobs' = {r}
      BY <1>1, <1>3 DEF HandsIn, SubmittedOnce, SubmitJobs, SheetCalls, At
    <2>2. ~Open(r)' \/ tx'[r].pc = "dispatch"
      BY <1>3 DEF HandsIn, Moves
    <2>3. \A q \in Req \ {r} : ~Open(q)'
      BY <1>1, <1>3 DEF OneOpen, Open, HandsIn, Moves
    <2>4. status' \notin Answerable
      BY <1>3 DEF HandsIn, Answerable
    <2>5. \A q \in Req : tx'[q].pc \notin {"grading", "writing"}
      BY <2>2, <2>3 DEF Open
    <2> QED
      BY <2>1, <2>4, <2>5 DEF SubmittedOnce
  <1>4. ASSUME \A r \in Req : ~HandsIn(r) PROVE SubmitJobs' \subseteq SubmitJobs
    <2>1. ASSUME NEW r \in Req, RequestMove(r) PROVE SubmitJobs' \subseteq SubmitJobs
      BY <1>1, <1>4, <2>1 DEF RequestMove, Begins, Prepares, Ends, Files, Orders, Administers,
         Sends, SubmitJobs, NewCall, JobsExist, Uncommitted, At, Jobs
    <2>2. ASSUME NEW w \in Run, RunMove(w) PROVE SubmitJobs' \subseteq SubmitJobs
      BY <1>1, <2>2 DEF RunMove, Takes, Continues, TaskLabels, CallAt, Concludes, Releases, SubmitJobs, JobsExist, Jobs
    <2> QED
      BY <1>1, <2>1, <2>2 DEF JobMove, SubmitJobs, Jobs
  <1>5. ASSUME \A r \in Req : ~HandsIn(r), NEW q \in Req,
               tx'[q].pc \in {"grading", "writing"}, call'[q].name \in SheetCalls
        PROVE  SubmitJobs = {}
    <2>1. \/ tx[q].pc \in {"grading", "writing"} /\ call[q].name \in SheetCalls
          \/ status \in Answerable
      <3>1. ASSUME NEW r \in Req, RequestMove(r)
            PROVE \/ tx[q].pc \in {"grading", "writing"} /\ call[q].name \in SheetCalls
                  \/ status \in Answerable
        BY <1>1, <1>5, <3>1 DEF RequestMove, Begins, Prepares, Ends, Files, Orders, Administers,
           Sends, NewCall, Moves, At
      <3>2. ASSUME NEW w \in Run, RunMove(w)
            PROVE  tx'[q] = tx[q] /\ call' = call
        BY <1>1, <3>2 DEF RunMove, Takes, Continues, TaskLabels, CallAt, Concludes, Releases, Moves
      <3> QED
        BY <1>1, <1>5, <3>1, <3>2 DEF JobMove
    <2> QED
      BY <1>1, <2>1 DEF SubmittedOnce
  <1>6. ASSUME \A r \in Req : ~HandsIn(r) PROVE SubmittedOnce'
    BY <1>1, <1>2, <1>4, <1>5, <1>6 DEF SubmittedOnce
  <1> QED
    BY <1>1, <1>3, <1>6 DEF SInv

\* While clients wait for the answer to a request before they make the next, the
\* final submission of an exam succeeds once, whatever tasks do meanwhile.
THEOREM SubmittedOnlyOnce == ASSUME MaxOpen <= 1 PROVE Spec => []OneFinalSubmission
  <1>1. SInv => OneFinalSubmission
    <2> SUFFICES ASSUME SInv PROVE Cardinality(SubmitJobs) <= 1
      BY DEF OneFinalSubmission, SubmitJobs
    <2>1. CASE SubmitJobs = {}
      BY <2>1, FS_EmptySet
    <2>2. ASSUME NEW r \in SubmitJobs PROVE Cardinality(SubmitJobs) <= 1
      <3>1. SubmitJobs = {r}
        BY DEF SInv, SubmittedOnce
      <3>2. Cardinality({r}) = 1
        BY FS_Singleton
      <3> QED
        BY <3>1, <3>2
    <2> QED
      BY <2>1, <2>2
  <1> QED
    BY <1>1, SInvInit, SInvNext, PTL DEF Spec

-----------------------------------------------------------------------------
\* What a review is about to do to the session is right if it commits now: the
\* other pending objections it saw are still pending, and if the session came
\* to wait for objections behind its back, another objection is the reason.
ReviewPlans ==
    \A w \in Run :
        /\ At(w, "restoring") => tx[w].others \subseteq Pending \ {works[w]}
        /\ /\ status = "objection_pending"
           /\ \/ At(w, "restoring") /\ tx[w].seen # "objection_pending"
              \/ At(w, "upholding") /\ tx[w].seen = "regraded"
           => Pending \ {works[w]} # {}

PInv == JInv /\ OneBusy /\ PendingHasObjection /\ ReviewPlans

LEMMA PInvInit == Init => PInv
  <1> SUFFICES ASSUME Init PROVE OneBusy /\ PendingHasObjection /\ ReviewPlans
    BY JInvInit DEF PInv
  <1>1. status = "ready" /\ \A t \in Tx : tx[t].pc = "new"
    BY DEF Init, Idle
  <1> QED
    BY <1>1 DEF OneBusy, Busy, PendingHasObjection, ReviewPlans, Tx, At

\* Steps that are not about objections.
NoReviewStep ==
    /\ obj' = obj
    /\ status' = "objection_pending" => status = "objection_pending"
    /\ \A w \in Run : tx'[w].pc \in {"upholding", "restoring"} =>
          tx'[w] = tx[w] /\ works'[w] = works[w]

LEMMA ReviewSteps ==
  ASSUME TypeOK, [Next]_vars
  PROVE  \/ \E r \in Req : CommitCreateObjection(r)
         \/ \E w \in Run : \/ UpholdObjection(w) \/ DismissObjection(w)
                          \/ CommitUpheldObjection(w) \/ CommitDismissedObjection(w)
         \/ NoReviewStep
  <1> USE DEF rows, vars, NoReviewStep
  <1>0. Req \cap Run = {} /\ Run \subseteq Tx /\ DOMAIN works = Run
    BY StoreAssumption DEF Tx, TypeOK
  <1>1. ASSUME NEW r \in Req, RequestMove(r)
        PROVE  /\ \A w \in Run : tx'[w] = tx[w] /\ works'[w] = works[w]
               /\ Files(r) \/ obj' = obj
    BY <1>0, <1>1 DEF RequestMove, Begins, Prepares, Ends, HandsIn, Files, Orders, Administers,
                      Sends, Moves, Jobs
  <1>2. ASSUME NEW r \in Req, Answering(r)
        PROVE  obj' = obj /\ (status' = "objection_pending" => status = "objection_pending")
    BY <1>2 DEF Answering, BeginSubmitAnswer, GradeSubmittedAnswer, CommitSubmitAnswer,
       BeginComplete, CommitComplete, BeginBatch, GradeBatch, CommitBatch
  <1>3. ASSUME NEW r \in Req, ExamRequest(r)
        PROVE  obj' = obj /\ (status' = "objection_pending" => status = "objection_pending")
    BY <1>3 DEF ExamRequest, BeginSaveDraft, CommitSaveDraft, BeginSubmitExam, CommitSubmitExam
  <1>4. ASSUME NEW r \in Req, ReviewRequest(r), ~CommitCreateObjection(r)
        PROVE  obj' = obj /\ status' = status
    BY <1>4 DEF ReviewRequest, BeginCreateObjection, RegradeItem, RetryJob, CancelJob
  <1>5. ASSUME NEW r \in Req, Dispatch(r) \/ FailRequest(r)
        PROVE  obj' = obj /\ status' = status
    BY <1>5 DEF Dispatch, FailRequest
  <1>6. ASSUME NEW r \in Req, Request(r) \/ Dispatch(r) \/ FailRequest(r),
               ~CommitCreateObjection(r)
        PROVE  NoReviewStep
    <2>1. RequestMove(r)
      BY <1>6, AnsweringMoves, ExamRequestMoves, ReviewRequestMoves, SendingMoves DEF Request
    <2> QED
      BY <1>1, <1>2, <1>3, <1>4, <1>5, <1>6, <2>1 DEF Request
  <1>7. ASSUME NEW w \in Run, RunMove(w)
        PROVE  /\ \A v \in Run \ {w} : tx'[v] = tx[v] /\ works'[v] = works[v]
               /\ tx'[w].pc \in {"upholding", "restoring"} =>
                     At(w, "started") /\ call[works[w]].name = "create_objection"
    BY <1>0, <1>7 DEF RunMove, Takes, Continues, TaskLabels, CallAt, Concludes, Releases, Moves, Jobs
  <1>8. ASSUME NEW w \in Run, ExamTask(w)
        PROVE  /\ obj' = obj /\ (status' = "objection_pending" => status = "objection_pending")
               /\ ~(At(w, "started") /\ call[works[w]].name = "create_objection")
    BY <1>8 DEF ExamTask, StartGradeExam, GradeSheet, CommitGradeExam, FailGradeExam,
       FailedGrading, RunAt, At
  <1>9. ASSUME NEW w \in Run, FailReview(w) \/ FailUpholding(w) \/ CommitRegrade(w)
        PROVE  obj' = obj /\ status' = status /\ Moves(w, "unacked")
    BY <1>0, <1>9, StepMoves DEF FailReview, FailUpholding, CommitRegrade, Conclude
  <1>10. ASSUME NEW w \in Run, ReadRegrade(w)
         PROVE  obj' = obj /\ status' = status /\ call[works[w]].name = "regrade_item"
    BY <1>10 DEF ReadRegrade, RunAt
  <1>11. ASSUME NEW w \in Run, TakeJob(w) \/ AbortTask(w) \/ Acknowledge(w) \/ Crash(w)
         PROVE  /\ obj' = obj /\ status' = status
                /\ Moves(w, "started") \/ Moves(w, "unacked") \/ Moves(w, "done")
    BY <1>0, <1>11, StepMoves DEF TakeJob, AbortTask, Acknowledge, Crash
  <1>12. ASSUME NEW w \in Run,
                Task(w) \/ TakeJob(w) \/ AbortTask(w) \/ Acknowledge(w) \/ Crash(w),
                ~UpholdObjection(w), ~DismissObjection(w),
                ~CommitUpheldObjection(w), ~CommitDismissedObjection(w)
         PROVE  NoReviewStep
    <2>1. RunMove(w)
      BY <1>12, TaskMoves, DeliveryMoves
    <2>2. /\ obj' = obj /\ (status' = "objection_pending" => status = "objection_pending")
          /\ tx'[w].pc \notin {"upholding", "restoring"}
      BY <1>7, <1>8, <1>9, <1>10, <1>11, <1>12, <2>1 DEF Task, ReviewTask, Moves
    <2> QED
      BY <1>7, <2>1, <2>2
  <1>13. CASE UNCHANGED vars
    BY <1>13
  <1> QED
    BY <1>6, <1>12, <1>13 DEF Next

LEMMA PInvNext == ASSUME Workers <= 1 PROVE PInv /\ [Next]_vars => PInv'
  <1> SUFFICES ASSUME PInv, [Next]_vars PROVE PInv'
    OBVIOUS
  <1> USE DEF PendingHasObjection, ReviewPlans, At
  <1>1. /\ JInv' /\ OneBusy' /\ JInv /\ TypeOK /\ JobsExist /\ OneBusy /\ PendingHasObjection
        /\ ReviewPlans /\ Req \subseteq Tx /\ Run \subseteq Tx /\ Req \cap Run = {}
    BY JInvNext, NextMoves, OneAtATime, StoreAssumption DEF PInv, JInv, Tx
  <1>2. ASSUME NEW r \in Req, CommitCreateObjection(r) PROVE PendingHasObjection' /\ ReviewPlans'
    <2>1. /\ obj[r].st = "none" /\ obj'[r].st = "under_review"
          /\ \A q \in Req \ {r} : obj'[q] = obj[q]
      BY <1>1, <1>2 DEF CommitCreateObjection, JobsExist, Uncommitted, TypeOK
    <2>2. \A w \in Run : tx'[w] = tx[w] /\ works'[w] = works[w]
      BY <1>1, <1>2 DEF CommitCreateObjection, Step, TypeOK
    <2>3. Pending' = Pending \cup {r}
      BY <2>1 DEF Pending
    <2>4. ASSUME NEW w \in Run, tx[w].pc \in {"restoring", "upholding"} PROVE works[w] # r
      BY <1>1, <2>1, <2>4 DEF JobsExist, TaskLabels, CallAt
    <2> QED
      BY <1>1, <2>2, <2>3, <2>4
  <1>3. ASSUME NEW w \in Run, UpholdObjection(w) \/ DismissObjection(w)
        PROVE  PendingHasObjection' /\ ReviewPlans'
    <2>1. /\ obj' = obj /\ status' = status /\ works' = works /\ Busy(w)
          /\ \A v \in Run \ {w} : tx'[v] = tx[v]
      BY <1>1, <1>3 DEF UpholdObjection, DismissObjection, rows, Step, TypeOK, RunAt, Busy
    <2>2. /\ tx'[w].seen = status
          /\ tx'[w].pc = "restoring" => tx'[w].others = Pending \ {works[w]}
      <3>1. CASE UpholdObjection(w)
        <4>1. PICK l, m : Step(w, [Replace(l, m) EXCEPT !.seen = status])
          BY <3>1 DEF UpholdObjection
        <4> QED
          BY <1>1, <4>1 DEF Step, Replace, Idle, TypeOK
      <3>2. CASE DismissObjection(w)
        <4>1. PICK d : Step(w, [Idle EXCEPT !.pc = "restoring", !.seen = status, !.verdict = d,
                                            !.others = OtherPending(works[w])])
          BY <3>2 DEF DismissObjection
        <4> QED
          BY <1>1, <4>1 DEF Step, Idle, TypeOK, OtherPending
      <3> QED
        BY <1>3, <3>1, <3>2
    <2>3. Pending' = Pending
      BY <2>1 DEF Pending
    <2> QED
      BY <1>1, <2>1, <2>2, <2>3
  <1>4. ASSUME NEW w \in Run, CommitUpheldObjection(w) \/ CommitDismissedObjection(w)
        PROVE  PendingHasObjection' /\ ReviewPlans'
    <2>1. /\ works[w] \in Req /\ works' = works /\ Busy(w) /\ tx'[w].pc = "unacked"
          /\ \A v \in Run \ {w} : tx'[v] = tx[v]
      <3>1. Step(w, [Idle EXCEPT !.pc = "unacked"])
        BY <1>4 DEF CommitUpheldObjection, CommitDismissedObjection, Conclude
      <3>2. Moves(w, "unacked")
        BY <1>1, <3>1, StepMoves
      <3> QED
        BY <1>1, <1>4, <3>2 DEF CommitUpheldObjection, CommitDismissedObjection, RunAt, Moves, Busy
    <2>2. Pending' = Pending \ {works[w]}
      <3>1. tx[w].pc = "restoring" => tx[w].verdict # "under_review"
        BY <1>1 DEF JobsExist
      <3>2. CASE CommitUpheldObjection(w)
        <4>1. obj' = [obj EXCEPT ![works[w]].st = "applied"]
          BY <3>2 DEF CommitUpheldObjection
        <4> QED
          BY <1>1, <2>1, <4>1 DEF Pending, TypeOK
      <3>3. CASE CommitDismissedObjection(w)
        <4>1. obj' = [obj EXCEPT ![works[w]].st = tx[w].verdict] /\ tx[w].verdict # "under_review"
          BY <3>1, <3>3 DEF CommitDismissedObjection, RunAt
        <4> QED
          BY <1>1, <2>1, <4>1 DEF Pending, TypeOK
      <3> QED
        BY <1>4, <3>2, <3>3
    <2>3. status' = "objection_pending" => Pending \ {works[w]} # {}
      <3>1. CASE CommitUpheldObjection(w)
        BY <1>1, <3>1 DEF CommitUpheldObjection, RunAt
      <3>2. CASE CommitDismissedObjection(w)
        BY <1>1, <3>2 DEF CommitDismissedObjection, RunAt, Restores
      <3> QED
        BY <1>4, <3>1, <3>2
    <2>4. \A v \in Run \ {w} : ~Busy(v)'
      BY <1>1, <2>1 DEF OneBusy, Busy
    <2> QED
      BY <2>1, <2>2, <2>3, <2>4 DEF Busy
  <1>5. CASE NoReviewStep
    <2>1. Pending' = Pending
      BY <1>5 DEF NoReviewStep, Pending
    <2> QED
      BY <1>1, <1>5, <2>1 DEF NoReviewStep, PInv
  <1> QED
    BY <1>1, <1>2, <1>3, <1>4, <1>5, ReviewSteps DEF PInv

\* With one task at a time, whatever fails or is delivered twice, a session
\* waits for objections only while one of them is under review.
THEOREM PendingSessionsHaveObjections ==
  ASSUME Workers <= 1 PROVE Spec => []PendingHasObjection
  <1>1. PInv => PendingHasObjection
    BY DEF PInv
  <1> QED
    BY <1>1, PInvInit, PInvNext, PTL DEF Spec

-----------------------------------------------------------------------------
(***************************************************************************)
(* Answers and results of a session whose clients wait for one request     *)
(* before they make the next: the sheet of an exam is closed by its        *)
(* submission and marked as it was, and a graded session takes no answer.  *)
(*                                                                         *)
(* The proofs rest on lemmas that split a step into who moves (the frame), *)
(* what it has read for a later commit, and what it writes.                *)
(***************************************************************************)

RequestStep(r) == Request(r) \/ Dispatch(r) \/ FailRequest(r)
RunStep(w) == TakeJob(w) \/ Task(w) \/ AbortTask(w) \/ Acknowledge(w) \/ Crash(w)

\* A request inserts results, a task inserts results.
Answers(r) == CommitSubmitAnswer(r) \/ CommitComplete(r) \/ CommitBatch(r)
Marks(w) == CommitGradeExam(w) \/ FailGradeExam(w) \/ CommitUpheldObjection(w)

RequestCommit(r) ==
    Answers(r) \/ CommitSaveDraft(r) \/ CommitSubmitExam(r) \/ CommitCreateObjection(r)

RunCommit(w) == \/ Marks(w) \/ StartGradeExam(w) \/ CommitDismissedObjection(w)
                \/ FailUpholding(w) \/ CommitRegrade(w)

RequestPlan(r) ==
    \/ BeginSubmitAnswer(r) \/ GradeSubmittedAnswer(r) \/ BeginComplete(r)
    \/ BeginBatch(r) \/ GradeBatch(r) \/ BeginSaveDraft(r) \/ BeginSubmitExam(r)
    \/ BeginCreateObjection(r)

RunPlan(w) == \/ StartGradeExam(w) \/ GradeSheet(w) \/ UpholdObjection(w)
              \/ DismissObjection(w) \/ ReadRegrade(w)

\* t ends, waits or starts with nothing read.
Rests(t) == \E pc \in {"done", "unacked", "dispatch", "started"} :
               tx'[t] = [Idle EXCEPT !.pc = pc]

\* Nobody but t moves.
Frame(t) ==
    /\ \A u \in Tx \ {t} : tx'[u] = tx[u] /\ tally'[u] = tally[u]
    /\ \A q \in Req \ {t} : call'[q] = call[q]
    /\ \A v \in Run \ {t} : works'[v] = works[v]

LEMMA Steps ==
  ASSUME [Next]_vars
  PROVE  \/ UNCHANGED vars
         \/ \E r \in Req : RequestStep(r)
         \/ \E w \in Run : RunStep(w)
  BY DEF Next, RequestStep, RunStep

LEMMA StepFrame ==
  ASSUME TypeOK, NEW t \in Tx, NEW x, Step(t, x)
  PROVE  tx'[t] = x /\ \A u \in Tx \ {t} : tx'[u] = tx[u]
  BY DEF Step, TypeOK

LEMMA StepRests ==
  ASSUME TypeOK, NEW t \in Tx
  PROVE  /\ Step(t, Finished) => Rests(t)
         /\ \A pc \in {"done", "unacked", "dispatch", "started"} :
               Step(t, [Idle EXCEPT !.pc = pc]) => Rests(t)
  BY DEF Step, TypeOK, Rests, Finished

\* What a request reads for a later commit, or that it has nothing read.
LEMMA RequestReads ==
  ASSUME TypeOK, NEW r \in Req, RequestStep(r)
  PROVE  RequestPlan(r) \/ Rests(r)
  <1>0. r \in Tx
    BY DEF Tx
  <1>1. CASE Answering(r)
    BY <1>0, <1>1, StepRests DEF RequestPlan, Answering, CommitSubmitAnswer, CommitComplete,
       CommitBatch
  <1>2. CASE ExamRequest(r)
    BY <1>0, <1>2, StepRests DEF RequestPlan, ExamRequest, CommitSaveDraft, CommitSubmitExam
  <1>3. CASE ReviewRequest(r)
    <2>1. CASE CommitCreateObjection(r) \/ RegradeItem(r) \/ CancelJob(r)
      BY <1>0, <2>1, StepRests DEF CommitCreateObjection, RegradeItem, CancelJob
    <2>2. CASE RetryJob(r)
      <3>1. Step(r, [Idle EXCEPT !.pc = "dispatch"]) \/ Step(r, Finished)
        BY <2>2 DEF RetryJob
      <3> QED
        BY <1>0, <3>1, StepRests
    <2> QED
      BY <1>3, <2>1, <2>2 DEF ReviewRequest, RequestPlan
  <1>4. CASE Dispatch(r) \/ FailRequest(r)
    BY <1>0, <1>4, StepRests DEF Dispatch, FailRequest
  <1> QED
    BY <1>1, <1>2, <1>3, <1>4 DEF RequestStep, Request

LEMMA RunReads ==
  ASSUME TypeOK, NEW w \in Run, RunStep(w)
  PROVE  RunPlan(w) \/ Rests(w)
  <1>0. w \in Tx
    BY DEF Tx
  <1>1. CASE CommitGradeExam(w) \/ FailGradeExam(w) \/ CommitUpheldObjection(w)
    BY <1>0, <1>1, StepRests DEF CommitGradeExam, FailGradeExam, CommitUpheldObjection, Conclude
  <1>2. CASE CommitDismissedObjection(w) \/ FailReview(w) \/ FailUpholding(w) \/ CommitRegrade(w)
    BY <1>0, <1>2, StepRests DEF CommitDismissedObjection, FailReview, FailUpholding,
       CommitRegrade, Conclude
  <1>3. CASE TakeJob(w) \/ AbortTask(w) \/ Acknowledge(w) \/ Crash(w)
    BY <1>0, <1>3, StepRests DEF TakeJob, AbortTask, Acknowledge, Crash
  <1> QED
    BY <1>1, <1>2, <1>3 DEF RunStep, Task, ExamTask, ReviewTask, RunPlan

\* Only the workspace and the tally of the actor change, and its call or job.
LEMMA RequestFrame ==
  ASSUME TypeOK, NEW r \in Req, RequestStep(r)
  PROVE  Frame(r) /\ RequestMove(r) /\ works' = works
  <1> USE DEF rows
  <1>1. RequestMove(r)
    BY AnsweringMoves, ExamRequestMoves, ReviewRequestMoves, SendingMoves DEF RequestStep, Request
  <1>2. /\ \A u \in Tx \ {r} : tx'[u] = tx[u]
        /\ \A q \in Req \ {r} : call'[q] = call[q]
        /\ works' = works
    BY <1>1 DEF RequestMove, Begins, Prepares, Ends, HandsIn, Files, Orders, Administers, Sends,
                Moves, NewCall, Jobs
  <1>3. tally' = tally \/ \E y : tally' = [tally EXCEPT ![r] = y]
    <2>1. CASE Answering(r)
      BY <2>1 DEF Answering, BeginSubmitAnswer, GradeSubmittedAnswer, CommitSubmitAnswer,
         BeginComplete, CommitComplete, BeginBatch, GradeBatch, CommitBatch
    <2>2. CASE ExamRequest(r)
      BY <2>2 DEF ExamRequest, BeginSaveDraft, CommitSaveDraft, BeginSubmitExam, CommitSubmitExam
    <2>3. CASE ReviewRequest(r)
      BY <2>3 DEF ReviewRequest, BeginCreateObjection, CommitCreateObjection, RegradeItem,
         RetryJob, CancelJob
    <2>4. CASE Dispatch(r) \/ FailRequest(r)
      BY <2>4 DEF Dispatch, FailRequest
    <2> QED
      BY <2>1, <2>2, <2>3, <2>4 DEF RequestStep, Request
  <1>4. \A u \in Tx \ {r} : tally'[u] = tally[u]
    BY <1>3 DEF TypeOK
  <1> QED
    BY <1>1, <1>2, <1>4 DEF Frame

LEMMA RunFrame ==
  ASSUME TypeOK, NEW w \in Run, RunStep(w)
  PROVE  Frame(w) /\ RunMove(w) /\ call' = call
  <1> USE DEF rows
  <1>1. RunMove(w)
    BY TaskMoves, DeliveryMoves DEF RunStep
  <1>2. /\ \A u \in Tx \ {w} : tx'[u] = tx[u]
        /\ \A v \in Run \ {w} : works'[v] = works[v]
        /\ call' = call
    BY <1>1 DEF RunMove, Takes, Continues, Concludes, Releases, Moves, Jobs, TypeOK
  <1>3. tally' = tally \/ \E y : tally' = [tally EXCEPT ![w] = y]
    <2>1. CASE ExamTask(w)
      BY <2>1 DEF ExamTask, StartGradeExam, GradeSheet, CommitGradeExam, FailGradeExam
    <2>2. CASE ReviewTask(w)
      BY <2>2 DEF ReviewTask, UpholdObjection, CommitUpheldObjection, DismissObjection,
         CommitDismissedObjection, FailReview, FailUpholding, ReadRegrade, CommitRegrade
    <2>3. CASE TakeJob(w) \/ AbortTask(w) \/ Acknowledge(w) \/ Crash(w)
      BY <2>3 DEF TakeJob, AbortTask, Acknowledge, Crash
    <2> QED
      BY <2>1, <2>2, <2>3 DEF RunStep, Task
  <1>4. \A u \in Tx \ {w} : tally'[u] = tally[u]
    BY <1>3 DEF TypeOK
  <1> QED
    BY <1>1, <1>2, <1>4 DEF Frame

-----------------------------------------------------------------------------
\* Who writes the rows of the session.
LEMMA RequestWrites ==
  ASSUME NEW r \in Req, RequestStep(r), ~RequestCommit(r)
  PROVE  UNCHANGED <<status, total, log, draft, obj>>
  <1> USE DEF rows
  <1>1. CASE Answering(r)
    BY <1>1 DEF RequestCommit, Answers, Answering, BeginSubmitAnswer, GradeSubmittedAnswer,
       BeginComplete, BeginBatch, GradeBatch
  <1>2. CASE ExamRequest(r)
    BY <1>2 DEF RequestCommit, ExamRequest, BeginSaveDraft, BeginSubmitExam
  <1>3. CASE ReviewRequest(r)
    BY <1>3 DEF RequestCommit, ReviewRequest, BeginCreateObjection, RegradeItem, RetryJob, CancelJob
  <1>4. CASE Dispatch(r) \/ FailRequest(r)
    BY <1>4 DEF Dispatch, FailRequest
  <1> QED
    BY <1>1, <1>2, <1>3, <1>4 DEF RequestStep, Request

LEMMA RunWrites ==
  ASSUME NEW w \in Run, RunStep(w), ~RunCommit(w)
  PROVE  UNCHANGED <<status, total, log, draft, obj>>
  <1> USE DEF rows
  <1>1. CASE Task(w)
    BY <1>1 DEF RunCommit, Marks, Task, ExamTask, ReviewTask, GradeSheet, UpholdObjection,
       DismissObjection, FailReview, ReadRegrade
  <1>2. CASE TakeJob(w) \/ AbortTask(w) \/ Acknowledge(w) \/ Crash(w)
    BY <1>2 DEF TakeJob, AbortTask, Acknowledge, Crash
  <1> QED
    BY <1>1, <1>2 DEF RunStep

\* t inserts the results it has planned.
Inserts(t) == (t \in Req /\ Answers(t)) \/ (t \in Run /\ Marks(t))

LEMMA Inserting ==
  ASSUME TypeOK, NEW t \in Tx, Inserts(t)
  PROVE  /\ Recording(t) /\ log' = Recorded(t, tx[t]) /\ call' = call
         /\ Moves(t, "done") \/ Moves(t, "unacked")
         /\ draft' = draft /\ works' = works
  <1> USE DEF Recording, At, RunAt, Conclude
  <1>1. CASE t \in Req /\ Answers(t)
    BY <1>1, StepMoves DEF Answers, CommitSubmitAnswer, CommitComplete, CommitBatch
  <1>2. CASE t \in Run /\ Marks(t)
    BY <1>2, StepMoves DEF Marks, CommitGradeExam, FailGradeExam, CommitUpheldObjection
  <1> QED
    BY <1>1, <1>2 DEF Inserts

\* Who writes answer_logs.
LEMMA LogSteps ==
  ASSUME TypeOK, [Next]_vars
  PROVE  \/ log' = log
         \/ \E t \in Tx : Inserts(t)
         \/ \E w \in Run : FailUpholding(w) \/ CommitRegrade(w)
  <1>1. ASSUME NEW r \in Req, RequestStep(r), ~Answers(r) PROVE log' = log
    <2>1. CASE RequestCommit(r)
      BY <1>1, <2>1 DEF RequestCommit, CommitSaveDraft, CommitSubmitExam, CommitCreateObjection
    <2> QED
      BY <1>1, <2>1, RequestWrites
  <1>2. ASSUME NEW w \in Run, RunStep(w), ~Marks(w), ~FailUpholding(w), ~CommitRegrade(w)
        PROVE  log' = log
    <2>1. CASE RunCommit(w)
      BY <1>2, <2>1 DEF RunCommit, StartGradeExam, CommitDismissedObjection
    <2> QED
      BY <1>2, <2>1, RunWrites
  <1>3. UNCHANGED vars => log' = log
    BY DEF vars, rows
  <1> QED
    BY <1>1, <1>2, <1>3, Steps DEF Inserts, Tx

-----------------------------------------------------------------------------
\* Calls are of the configured kind and made in their mode.
CallsFit ==
    \A q \in Req :
        /\ call[q].name \in Calls \cup {"none"}
        /\ call[q].name \in {"submit_answer", "complete"} => Mode = "normal"
        /\ call[q].name \in {"save_draft", "submit_exam"} => Mode = "exam"

Existing == {l \in LogId : log[l].st # "none"}

\* A row of answer_logs is inserted by the commit that ends its author, and
\* what was loaded or put under objection exists.
Authors == \A l \in Existing : tx[l[1]].pc \in {"unacked", "done"}

OldExists == /\ \A t \in Tx : tx[t].old \subseteq Existing
             /\ \A q \in Req : obj[q].logs \subseteq Existing

\* An objection is to one log.
OneLog ==
    /\ \A q \in Req : obj[q].st # "none" => \E l \in LogId : obj[q].logs = {l}
    /\ \A r \in Req : call[r].name = "create_objection" /\ At(r, "writing") =>
          \E l \in LogId : tx[r].old = {l}

XInv == JInv /\ CallsFit /\ Authors /\ OldExists /\ OneLog

LEMMA XInvInit == Init => XInv
  <1> SUFFICES ASSUME Init PROVE CallsFit /\ Authors /\ OldExists /\ OneLog
    BY JInvInit DEF XInv
  <1>1. /\ \A t \in Tx : tx[t].pc = "new" /\ tx[t].old = {}
        /\ \A q \in Req : obj[q].st = "none" /\ obj[q].logs = {} /\ call[q].name = "none"
        /\ \A l \in LogId : log[l].st = "none"
    BY DEF Init, Idle
  <1> QED
    BY <1>1 DEF CallsFit, Authors, Existing, OldExists, OneLog, At, Tx

LEMMA CallsFitNext == ASSUME XInv, [Next]_vars PROVE CallsFit'
  <1>0. TypeOK /\ CallsFit
    BY DEF XInv, JInv
  <1>1. ASSUME NEW r \in Req, NEW name, NEW i, NEW q, Calling(r, name, i, q),
               name \in {"submit_answer", "complete"} => Mode = "normal",
               name \in {"save_draft", "submit_exam"} => Mode = "exam"
        PROVE  CallsFit'
    <2>1. name \in Calls /\ call'[r].name = name /\ \A u \in Req \ {r} : call'[u] = call[u]
      BY <1>0, <1>1 DEF Calling, TypeOK
    <2> QED
      BY <1>0, <1>1, <2>1 DEF CallsFit
  <1>2. CASE call' = call
    BY <1>0, <1>2 DEF CallsFit
  <1>3. ASSUME NEW r \in Req, Answering(r) PROVE CallsFit'
    BY <1>1, <1>2, <1>3 DEF Answering, BeginSubmitAnswer, GradeSubmittedAnswer,
       CommitSubmitAnswer, BeginComplete, CommitComplete, BeginBatch, GradeBatch, CommitBatch
  <1>4. ASSUME NEW r \in Req, ExamRequest(r) PROVE CallsFit'
    BY <1>1, <1>2, <1>4 DEF ExamRequest, BeginSaveDraft, CommitSaveDraft, BeginSubmitExam,
       CommitSubmitExam
  <1>5. ASSUME NEW r \in Req, ReviewRequest(r) PROVE CallsFit'
    BY <1>1, <1>2, <1>5 DEF ReviewRequest, BeginCreateObjection, CommitCreateObjection,
       RegradeItem, RetryJob, CancelJob
  <1>6. ASSUME NEW r \in Req, Dispatch(r) \/ FailRequest(r) PROVE CallsFit'
    BY <1>2, <1>6 DEF Dispatch, FailRequest
  <1>7. ASSUME NEW w \in Run, RunStep(w) PROVE CallsFit'
    BY <1>0, <1>2, <1>7, RunFrame
  <1>8. UNCHANGED vars => call' = call
    BY DEF vars
  <1> QED
    BY <1>2, <1>3, <1>4, <1>5, <1>6, <1>7, <1>8, Steps DEF RequestStep, Request

\* A row that exists stays, with its answer; a new one is of the plan of its
\* author, who ends with the commit.
LEMMA LogRows ==
  ASSUME XInv, [Next]_vars, NEW l \in LogId
  PROVE  /\ l \in Existing => l \in Existing' /\ log'[l].answer = log[l].answer
         /\ l \notin Existing /\ l \in Existing' =>
               /\ Inserts(l[1]) /\ l[2] \in tx[l[1]].items
               /\ log'[l].answer = tx[l[1]].answers[l[2]]
  <1>0. /\ TypeOK /\ l[1] \in Tx /\ log[l] \in AnswerLog
        /\ \A t \in Tx : tx[t].old \subseteq Existing
        /\ \A q \in Req : obj[q].logs \subseteq Existing
    BY DEF XInv, JInv, TypeOK, LogId, OldExists
  <1>1. CASE log' = log
    BY <1>1 DEF Existing
  <1>2. ASSUME NEW t \in Tx, Inserts(t)
        PROVE  /\ l \in Existing => l \in Existing' /\ log'[l].answer = log[l].answer
               /\ l \notin Existing /\ l \in Existing' =>
                     /\ l[1] = t /\ l[2] \in tx[t].items
                     /\ log'[l].answer = tx[t].answers[l[2]]
    <2>1. log' = Recorded(t, tx[t]) /\ Recording(t)
      BY <1>0, <1>2, Inserting
    <2>2. l \in Existing => l[1] # t
      BY <2>1 DEF XInv, Authors, Recording, At
    <2>3. CASE l[1] = t /\ l[2] \in tx[t].items
      <3>1. log'[l] = [st |-> "active", answer |-> tx[t].answers[l[2]], mark |-> tx[t].marks[l[2]]]
        BY <2>1, <2>3 DEF Recorded
      <3> QED
        BY <2>2, <2>3, <3>1
    <2>4. CASE ~(l[1] = t /\ l[2] \in tx[t].items) /\ l \in tx[t].old
      <3>1. log'[l] = [log[l] EXCEPT !.st = "inactive"]
        BY <2>1, <2>4 DEF Recorded
      <3>2. log'[l].st = "inactive" /\ log'[l].answer = log[l].answer
        BY <1>0, <3>1 DEF AnswerLog
      <3> QED
        BY <1>0, <2>4, <3>2 DEF Existing
    <2>5. CASE ~(l[1] = t /\ l[2] \in tx[t].items) /\ l \notin tx[t].old
      <3>1. log'[l] = log[l]
        BY <2>1, <2>5 DEF Recorded
      <3> QED
        BY <3>1 DEF Existing
    <2> QED
      BY <2>3, <2>4, <2>5
  <1>3. ASSUME NEW w \in Run, FailUpholding(w)
        PROVE  (l \in Existing <=> l \in Existing') /\ log'[l].answer = log[l].answer
    <2>1. /\ log' = Recorded(w, [Idle EXCEPT !.old = obj[works[w]].logs]) /\ works[w] \in Req
      BY <1>3 DEF FailUpholding, RunAt
    <2>2. log'[l] = IF l \in obj[works[w]].logs THEN [log[l] EXCEPT !.st = "inactive"] ELSE log[l]
      BY <2>1 DEF Recorded, Idle
    <2>3. CASE l \in obj[works[w]].logs
      <3>1. log'[l].st = "inactive" /\ log'[l].answer = log[l].answer
        BY <1>0, <2>2, <2>3 DEF AnswerLog
      <3> QED
        BY <1>0, <2>1, <2>3, <3>1 DEF Existing
    <2>4. CASE l \notin obj[works[w]].logs
      BY <2>2, <2>4 DEF Existing
    <2> QED
      BY <2>3, <2>4
  <1>4. ASSUME NEW w \in Run, CommitRegrade(w)
        PROVE  log'[l].st = log[l].st /\ log'[l].answer = log[l].answer
    <2>1. PICK m : log' = Regraded(tx[w].old, m)
      BY <1>4 DEF CommitRegrade
    <2>2. \/ \E k : log'[l] = [log[l] EXCEPT !.mark = k]
          \/ log'[l] = log[l]
      BY <2>1 DEF Regraded
    <2> QED
      BY <1>0, <2>2 DEF AnswerLog
  <1> QED
    BY <1>0, <1>1, <1>2, <1>3, <1>4, LogSteps DEF Existing

\* An objection changes by the commit that files it, or by a decision.
LEMMA ObjectionRows ==
  ASSUME XInv, [Next]_vars, NEW q \in Req
  PROVE  \/ obj'[q] = obj[q]
         \/ /\ CommitCreateObjection(q)
            /\ obj'[q].st = "under_review" /\ obj'[q].logs = tx[q].old
         \/ /\ \E w \in Run : /\ works[w] = q
                              /\ CommitUpheldObjection(w) \/ CommitDismissedObjection(w)
            /\ obj'[q].logs = obj[q].logs /\ obj[q].st # "none"
  <1>0. /\ TypeOK /\ obj \in [Req -> [st : ObjectionStatus, logs : SUBSET LogId]]
        /\ JobsExist
    BY DEF XInv, JInv, TypeOK
  <1>1. ASSUME NEW r \in Req, RequestStep(r), ~CommitCreateObjection(r) PROVE obj' = obj
    <2>1. CASE RequestCommit(r)
      BY <1>1, <2>1 DEF RequestCommit, Answers, CommitSubmitAnswer, CommitComplete, CommitBatch,
         CommitSaveDraft, CommitSubmitExam
    <2> QED
      BY <1>1, <2>1, RequestWrites
  <1>2. ASSUME NEW r \in Req, CommitCreateObjection(r)
        PROVE  IF q = r THEN obj'[q].st = "under_review" /\ obj'[q].logs = tx[q].old
                        ELSE obj'[q] = obj[q]
    BY <1>0, <1>2 DEF CommitCreateObjection
  <1>3. ASSUME NEW w \in Run, RunStep(w), ~CommitUpheldObjection(w), ~CommitDismissedObjection(w)
        PROVE  obj' = obj
    <2>1. CASE RunCommit(w)
      BY <1>3, <2>1 DEF RunCommit, Marks, CommitGradeExam, FailGradeExam, StartGradeExam,
         FailUpholding, CommitRegrade
    <2> QED
      BY <1>3, <2>1, RunWrites
  <1>4. ASSUME NEW w \in Run, CommitUpheldObjection(w) \/ CommitDismissedObjection(w)
        PROVE  IF q = works[w] THEN obj'[q].logs = obj[q].logs /\ obj[q].st # "none"
                               ELSE obj'[q] = obj[q]
    <2>1. \E st : obj' = [obj EXCEPT ![works[w]].st = st]
      BY <1>4 DEF CommitUpheldObjection, CommitDismissedObjection
    <2>2. works[w] \in Req /\ call[works[w]].name = "create_objection"
      BY <1>4 DEF CommitUpheldObjection, CommitDismissedObjection, RunAt
    <2>3. obj[works[w]].st # "none"
      BY <1>0, <2>2 DEF JobsExist
    <2> QED
      BY <1>0, <2>1, <2>2, <2>3
  <1>5. UNCHANGED vars => obj' = obj
    BY DEF vars, rows
  <1> QED
    BY <1>1, <1>2, <1>3, <1>4, <1>5, Steps

LEMMA AuthorsNext == ASSUME XInv, [Next]_vars PROVE Authors'
  <1>0. TypeOK /\ Req \subseteq Tx /\ Run \subseteq Tx
    BY DEF XInv, JInv, Tx
  <1> SUFFICES ASSUME NEW l \in Existing' PROVE tx'[l[1]].pc \in {"unacked", "done"}
    BY DEF Authors
  <1>1. l \in LogId /\ l[1] \in Tx
    BY DEF Existing, LogId
  <1>2. CASE l \in Existing
    <2>1. tx[l[1]].pc \in {"unacked", "done"}
      BY <1>2 DEF XInv, Authors
    <2>2. ASSUME NEW t \in Tx, tx[t].pc \in {"unacked", "done"}
          PROVE  tx'[t].pc \in {"unacked", "done"}
      <3>1. JobMove
        BY <1>0, NextMoves
      <3>2. ASSUME NEW r \in Req, RequestMove(r) PROVE tx'[t] = tx[t] \/ t = r
        BY <3>2 DEF RequestMove, Begins, Prepares, Ends, HandsIn, Files, Orders, Administers,
                    Sends, Moves
      <3>3. ASSUME NEW r \in Req, RequestMove(r), t = r PROVE tx'[t].pc \in {"unacked", "done"}
        BY <2>2, <3>3 DEF RequestMove, Begins, Prepares, Ends, HandsIn, Files, Orders,
                          Administers, Sends, Moves, NewCall, At, Open
      <3>4. ASSUME NEW w \in Run, RunMove(w) PROVE tx'[t] = tx[t] \/ t = w
        BY <3>4 DEF RunMove, Takes, Continues, Concludes, Releases, Moves
      <3>5. ASSUME NEW w \in Run, RunMove(w), t = w PROVE tx'[t].pc \in {"unacked", "done"}
        BY <2>2, <3>5 DEF RunMove, Takes, Continues, Concludes, Releases, Moves, Busy, At
      <3> QED
        BY <2>2, <3>1, <3>2, <3>3, <3>4, <3>5 DEF JobMove
    <2> QED
      BY <1>1, <2>1, <2>2
  <1>3. CASE l \notin Existing
    <2>1. Inserts(l[1])
      BY <1>1, <1>3, LogRows
    <2> QED
      BY <1>0, <1>1, <2>1, Inserting DEF Moves
  <1> QED
    BY <1>2, <1>3

\* Only rows that exist are read or put under objection.
LEMMA OldRead ==
  ASSUME XInv, NEW t \in Tx, (t \in Req /\ RequestPlan(t)) \/ (t \in Run /\ RunPlan(t))
  PROVE  tx'[t].old \subseteq Existing
  <1>0. TypeOK /\ tx \in [Tx -> Workspace]
    BY DEF XInv, JInv, TypeOK
  <1>1. ActiveIn(log) \subseteq Existing /\ \A i : ActiveOf(i) \subseteq Existing
    BY DEF ActiveIn, ActiveOf, Existing
  <1>2. CASE t \in Req /\ (BeginSubmitAnswer(t) \/ BeginComplete(t) \/ BeginBatch(t)
                             \/ BeginSaveDraft(t) \/ BeginSubmitExam(t))
    <2>1. tx'[t].old = {}
      <3>1. CASE BeginSubmitAnswer(t)
        BY <1>0, <3>1 DEF BeginSubmitAnswer, Step, Idle
      <3>2. CASE BeginComplete(t)
        BY <1>0, <3>2 DEF BeginComplete, Step, Idle
      <3>3. CASE BeginBatch(t)
        BY <1>0, <3>3 DEF BeginBatch, Step, Idle
      <3>4. CASE BeginSaveDraft(t)
        BY <1>0, <3>4 DEF BeginSaveDraft, Step, Idle
      <3>5. CASE BeginSubmitExam(t)
        BY <1>0, <3>5 DEF BeginSubmitExam, Step, Idle
      <3> QED
        BY <1>2, <3>1, <3>2, <3>3, <3>4, <3>5
    <2> QED
      BY <2>1
  <1>3. CASE t \in Req /\ GradeSubmittedAnswer(t)
    <2>1. tx'[t].old = ActiveOf(call[t].item)
      BY <1>0, <1>3 DEF GradeSubmittedAnswer, Step, Previous, Workspace
    <2> QED
      BY <1>1, <2>1
  <1>4. CASE t \in Req /\ GradeBatch(t)
    <2>1. tx'[t].old = ActiveIn(log)
      BY <1>0, <1>4 DEF GradeBatch, Step, Workspace
    <2> QED
      BY <1>1, <2>1
  <1>5. CASE t \in Req /\ BeginCreateObjection(t)
    <2>1. \E l \in ActiveIn(log) : tx'[t].old = {l}
      BY <1>0, <1>5 DEF BeginCreateObjection, Step, Idle
    <2> QED
      BY <1>1, <2>1
  <1>6. CASE t \in Run /\ (StartGradeExam(t) \/ DismissObjection(t))
    <2>1. CASE StartGradeExam(t)
      BY <1>0, <2>1 DEF StartGradeExam, Step, Idle
    <2>2. CASE DismissObjection(t)
      BY <1>0, <2>2 DEF DismissObjection, Step, Idle
    <2> QED
      BY <1>6, <2>1, <2>2
  <1>7. CASE t \in Run /\ GradeSheet(t)
    <2>1. tx'[t].old = FormerResults
      <3> DEFINE as == [i \in Item |-> IF i \in Gradable THEN SheetAnswer(i) ELSE Blank]
                 pc == IF Gradable = Item THEN "writing" ELSE "failing"
      <3>1. PICK m : Step(t, [Idle EXCEPT !.pc = pc, !.items = Gradable, !.answers = as,
                                          !.marks = m, !.old = FormerResults])
        BY <1>7 DEF GradeSheet
      <3> HIDE DEF as, pc
      <3> QED
        BY <1>0, <3>1 DEF Step, Idle
    <2> QED
      BY <1>1, <2>1 DEF FormerResults
  <1>8. CASE t \in Run /\ UpholdObjection(t)
    <2>1. works[t] \in Req /\ \E l \in obj[works[t]].logs : tx'[t].old = {l}
      BY <1>0, <1>8 DEF UpholdObjection, Step, Replace, Idle, RunAt
    <2> QED
      BY <2>1 DEF XInv, OldExists
  <1>9. CASE t \in Run /\ ReadRegrade(t)
    <2>1. tx'[t].old = ActiveOf(call[works[t]].item)
      BY <1>0, <1>9 DEF ReadRegrade, Step, Idle
    <2> QED
      BY <1>1, <2>1
  <1> QED
    BY <1>2, <1>3, <1>4, <1>5, <1>6, <1>7, <1>8, <1>9 DEF RequestPlan, RunPlan

\* An actor that moves has read something for a commit, or has nothing read.
LEMMA Reads ==
  ASSUME TypeOK, [Next]_vars, NEW t \in Tx
  PROVE  \/ tx'[t] = tx[t] /\ tally'[t] = tally[t] /\ (t \in Req => call'[t] = call[t])
         \/ t \in Req /\ RequestPlan(t)
         \/ t \in Run /\ RunPlan(t)
         \/ Rests(t)
  <1>1. ASSUME NEW r \in Req, RequestStep(r)
        PROVE  \/ tx'[t] = tx[t] /\ tally'[t] = tally[t] /\ (t \in Req => call'[t] = call[t])
               \/ t \in Req /\ RequestPlan(t)
               \/ Rests(t)
    BY <1>1, RequestFrame, RequestReads DEF Frame
  <1>2. ASSUME NEW w \in Run, RunStep(w)
        PROVE  \/ tx'[t] = tx[t] /\ tally'[t] = tally[t] /\ (t \in Req => call'[t] = call[t])
               \/ t \in Run /\ RunPlan(t)
               \/ Rests(t)
    BY <1>2, RunFrame, RunReads DEF Frame
  <1>3. CASE UNCHANGED vars
    BY <1>3 DEF vars
  <1> QED
    BY <1>1, <1>2, <1>3, Steps

\* A request that has read a log for an objection is at that call.
LEMMA Filing ==
  ASSUME TypeOK, NEW r \in Req, RequestPlan(r), ~BeginCreateObjection(r)
  PROVE  call'[r].name \in SheetCalls
  <1> USE DEF SheetCalls
  <1>1. CASE GradeSubmittedAnswer(r) \/ GradeBatch(r)
    BY <1>1 DEF GradeSubmittedAnswer, GradeBatch
  <1>2. ASSUME NEW name, NEW i, NEW q, Calling(r, name, i, q) PROVE call'[r].name = name
    BY <1>2, NoneOpen DEF NewCall
  <1>3. CASE BeginSubmitAnswer(r) \/ BeginComplete(r) \/ BeginBatch(r)
    BY <1>2, <1>3 DEF BeginSubmitAnswer, BeginComplete, BeginBatch
  <1>4. CASE BeginSaveDraft(r) \/ BeginSubmitExam(r)
    BY <1>2, <1>4 DEF BeginSaveDraft, BeginSubmitExam
  <1> QED
    BY <1>1, <1>3, <1>4 DEF RequestPlan

LEMMA XInvNext == XInv /\ [Next]_vars => XInv'
  <1> SUFFICES ASSUME XInv, [Next]_vars PROVE XInv'
    OBVIOUS
  <1>0. /\ TypeOK /\ JInv' /\ CallsFit' /\ Authors' /\ JobsExist
        /\ Existing \subseteq Existing' /\ Req \subseteq Tx /\ Run \subseteq Tx
        /\ \A t \in Tx : tx[t].old \subseteq Existing
        /\ \A q \in Req : obj[q].logs \subseteq Existing
    BY JInvNext, CallsFitNext, AuthorsNext, LogRows DEF XInv, JInv, Existing, Tx, OldExists
  <1>1. ASSUME NEW t \in Tx PROVE tx'[t].old \subseteq Existing'
    <2>1. Rests(t) => tx'[t].old = {}
      BY DEF Rests, Idle
    <2>2. CASE Rests(t) \/ tx'[t] = tx[t]
      BY <1>0, <2>1, <2>2
    <2>3. CASE (t \in Req /\ RequestPlan(t)) \/ (t \in Run /\ RunPlan(t))
      BY <1>0, <2>3, OldRead
    <2> QED
      BY <1>0, <2>2, <2>3, Reads
  <1>2. ASSUME NEW q \in Req
        PROVE  \/ obj'[q] = obj[q]
               \/ CommitCreateObjection(q) /\ obj'[q].logs = tx[q].old
               \/ obj'[q].logs = obj[q].logs /\ obj[q].st # "none"
    BY ObjectionRows
  <1>3. OldExists'
    <2>1. ASSUME NEW q \in Req PROVE obj'[q].logs \subseteq Existing'
      BY <1>0, <1>2
    <2> QED
      BY <1>1, <2>1 DEF OldExists
  <1>4. ASSUME NEW q \in Req, obj'[q].st # "none" PROVE \E l \in LogId : obj'[q].logs = {l}
    <2>1. CASE CommitCreateObjection(q) /\ obj'[q].logs = tx[q].old
      BY <2>1 DEF CommitCreateObjection, XInv, OneLog
    <2>2. CASE obj'[q].logs = obj[q].logs /\ obj[q].st # "none"
      BY <2>2 DEF XInv, OneLog
    <2> QED
      BY <1>2, <1>4, <2>1, <2>2
  <1>5. ASSUME NEW r \in Req, call'[r].name = "create_objection", tx'[r].pc = "writing"
        PROVE  \E l \in LogId : tx'[r].old = {l}
    <2>1. CASE RequestPlan(r)
      <3>1. BeginCreateObjection(r)
        BY <1>0, <1>5, <2>1, Filing DEF SheetCalls
      <3>2. PICK l \in LogId : Step(r, [Idle EXCEPT !.pc = "writing", !.seen = status, !.old = {l}])
        BY <3>1 DEF BeginCreateObjection, ActiveIn
      <3> QED
        BY <1>0, <3>2 DEF Step, Idle, TypeOK
    <2>2. CASE Rests(r)
      BY <1>5, <2>2 DEF Rests, Idle
    <2>3. CASE tx'[r] = tx[r] /\ call'[r] = call[r]
      BY <1>5, <2>3 DEF XInv, OneLog, At
    <2>4. r \in Tx /\ ~(r \in Run)
      BY StoreAssumption DEF Tx
    <2> QED
      BY <1>0, <2>1, <2>2, <2>3, <2>4, Reads
  <1>6. OneLog'
    BY <1>4, <1>5 DEF OneLog, At
  <1> QED
    BY <1>0, <1>3, <1>6 DEF XInv

-----------------------------------------------------------------------------
\* Results appear after the last answer: in an exam, or if nobody answers item
\* by item.
SheetFirst == Mode = "exam" \/ "submit_answer" \notin Calls

\* Nobody reviews results.
NoReviews == Calls \cap {"create_objection", "regrade_item"} = {}

\* A session that can be answered has no results yet, and a request that is
\* about to change it can rely on that it still can be answered.
Fresh ==
    /\ SheetFirst /\ status \in Answerable => Existing = {}
    /\ \A r \in Req : tx[r].pc \in {"grading", "writing"} /\ call[r].name \in SheetCalls
          => status \in Answerable

FInv == XInv /\ SInv /\ Fresh

LEMMA FInvInit == Init => FInv
  <1> SUFFICES ASSUME Init PROVE Fresh
    BY XInvInit, SInvInit DEF FInv
  <1>1. /\ \A t \in Tx : tx[t].pc = "new"
        /\ \A l \in LogId : log[l].st = "none"
    BY DEF Init, Idle
  <1> QED
    BY <1>1 DEF Fresh, Existing, Tx

\* The only jobs of a session that can be answered are regrades.
LEMMA OpenSheetJobs ==
  ASSUME FInv, SheetFirst \/ NoReviews, status \in Answerable, NEW q \in Req, job[q] # "none"
  PROVE  call[q].name = "regrade_item"
  <1>1. call[q].name \in JobCalls /\ call[q].name \in Calls \cup {"none"}
        /\ (call[q].name = "create_objection" => obj[q].st # "none")
    BY DEF FInv, XInv, JInv, JobsExist, CallsFit
  <1>2. call[q].name # "submit_exam"
    BY DEF FInv, SInv, SubmittedOnce, SubmitJobs
  <1>3. ASSUME call[q].name = "create_objection" PROVE FALSE
    <2>1. \E l \in LogId : obj[q].logs = {l}
      BY <1>1, <1>3 DEF FInv, XInv, OneLog
    <2>2. Existing # {}
      BY <2>1 DEF FInv, XInv, OldExists
    <2>3. NoReviews
      BY <2>2 DEF FInv, Fresh
    <2> QED
      BY <1>1, <1>3, <2>3 DEF NoReviews, JobCalls
  <1> QED
    BY <1>1, <1>2, <1>3 DEF JobCalls

\* So a task leaves the session as it is while it can be answered.
LEMMA RunKeepsSheet ==
  ASSUME FInv, SheetFirst \/ NoReviews, status \in Answerable, NEW w \in Run, RunStep(w)
  PROVE  status' = status /\ draft' = draft /\ ~Marks(w) /\ ~FailUpholding(w)
  <1>1. ASSUME NEW name, NEW pc, RunAt(w, name, pc) PROVE name = "regrade_item"
    BY <1>1, OpenSheetJobs DEF FInv, XInv, JInv, JobsExist, RunAt
  <1>2. ~Marks(w) /\ ~FailUpholding(w) /\ ~StartGradeExam(w) /\ ~CommitDismissedObjection(w)
    BY <1>1 DEF Marks, CommitGradeExam, FailGradeExam, CommitUpheldObjection, FailUpholding,
       StartGradeExam, CommitDismissedObjection
  <1>3. CASE CommitRegrade(w)
    BY <1>2, <1>3 DEF CommitRegrade
  <1>4. CASE ~RunCommit(w)
    BY <1>2, <1>4, RunWrites
  <1> QED
    BY <1>2, <1>3, <1>4 DEF RunCommit

\* What a request reads before it changes the session.
LEMMA SheetPlans ==
  ASSUME NEW r \in Req, RequestPlan(r), ~BeginCreateObjection(r)
  PROVE  /\ UNCHANGED rows
         /\ \/ status \in Answerable
            \/ tx[r].pc = "grading" /\ call[r].name \in SheetCalls
  BY DEF RequestPlan, BeginSubmitAnswer, GradeSubmittedAnswer, BeginComplete, BeginBatch,
     GradeBatch, BeginSaveDraft, BeginSubmitExam, Draftable, Submittable, Answerable, At, SheetCalls

\* One request is open: the one that moves, if it has not just been made.
LEMMA SoleRequest ==
  ASSUME FInv, MaxOpen <= 1, NEW r \in Req, RequestStep(r), NEW q \in Req, Open(q)
  PROVE  q = r
  <1>1. RequestMove(r) /\ OneOpen
    BY RequestFrame DEF FInv, XInv, JInv, SInv
  <1>2. Open(r) \/ \A o \in Req : ~Open(o)
    BY <1>1 DEF RequestMove, Begins, Prepares, Ends, HandsIn, Files, Orders, Administers, Sends,
       NewCall, Open, At
  <1> QED
    BY <1>1, <1>2 DEF OneOpen

LEMMA FInvNext ==
  ASSUME MaxOpen <= 1, SheetFirst \/ NoReviews
  PROVE  FInv /\ [Next]_vars => FInv'
  <1> SUFFICES ASSUME FInv, [Next]_vars PROVE Fresh'
    BY XInvNext, SInvNext DEF FInv
  <1>0. /\ TypeOK /\ XInv /\ OneOpen /\ Fresh /\ CallsFit
        /\ Req \subseteq Tx /\ Run \subseteq Tx /\ Req \cap Run = {}
    BY StoreAssumption DEF FInv, XInv, JInv, SInv, Tx
  <1>1. status' \in Answerable => status \in Answerable
    BY <1>0, Reopening DEF Fresh
  <1>2. ASSUME SheetFirst, status' \in Answerable, NEW l \in Existing' PROVE FALSE
    <2>1. Existing = {} /\ status \in Answerable
      BY <1>0, <1>1, <1>2 DEF Fresh
    <2>2. Inserts(l[1]) /\ l[1] \in Tx
      BY <1>0, <1>2, <2>1, LogRows DEF Existing, LogId
    <2>3. CASE l[1] \in Req /\ Answers(l[1])
      <3>1. CommitSubmitAnswer(l[1])
        BY <1>2, <2>3 DEF Answers, CommitComplete, CommitBatch, Answerable
      <3>2. call[l[1]].name = "submit_answer"
        BY <3>1 DEF CommitSubmitAnswer
      <3> QED
        BY <1>0, <1>2, <2>3, <3>2 DEF CallsFit, SheetFirst
    <2>4. CASE l[1] \in Run /\ Marks(l[1])
      <3>1. RunStep(l[1])
        BY <2>4 DEF Marks, RunStep, Task, ExamTask, ReviewTask
      <3> QED
        BY <2>1, <2>4, <3>1, RunKeepsSheet
    <2> QED
      BY <2>2, <2>3, <2>4 DEF Inserts
  <1>3. ASSUME NEW r \in Req, tx'[r].pc \in {"grading", "writing"}, call'[r].name \in SheetCalls
        PROVE  status' \in Answerable
    <2>1. CASE RequestPlan(r)
      <3>1. ASSUME BeginCreateObjection(r) PROVE FALSE
        <4>1. PICK l : Calling(r, "create_objection", l[2], NoReq)
          BY <3>1 DEF BeginCreateObjection
        <4>2. call'[r].name = "create_objection"
          BY <1>0, <4>1, NoneOpen DEF NewCall
        <4> QED
          BY <1>3, <4>2 DEF SheetCalls
      <3> QED
        BY <1>0, <2>1, <3>1, SheetPlans DEF Fresh, rows
    <2>2. CASE Rests(r)
      BY <1>3, <2>2 DEF Rests, Idle
    <2>3. CASE tx'[r] = tx[r] /\ call'[r] = call[r]
      <3>1. status \in Answerable /\ Open(r)
        BY <1>0, <1>3, <2>3 DEF Fresh, Open
      <3>2. ASSUME NEW q \in Req, RequestStep(q), RequestCommit(q) PROVE FALSE
        <4>1. q = r
          BY <3>1, <3>2, SoleRequest
        <4>2. Moves(r, "done") \/ Moves(r, "dispatch")
          BY <1>0, <3>2, <4>1, StepMoves DEF RequestCommit, Answers, CommitSubmitAnswer,
             CommitComplete, CommitBatch, CommitSaveDraft, CommitSubmitExam, CommitCreateObjection
        <4> QED
          BY <1>3, <4>2 DEF Moves
      <3>3. ASSUME NEW q \in Req, RequestStep(q) PROVE status' = status
        BY <3>2, <3>3, RequestWrites
      <3>4. ASSUME NEW w \in Run, RunStep(w) PROVE status' = status
        BY <3>1, <3>4, RunKeepsSheet
      <3>5. UNCHANGED vars => status' = status
        BY DEF vars, rows
      <3> QED
        BY <3>1, <3>3, <3>4, <3>5, Steps
    <2> QED
      BY <1>0, <2>1, <2>2, <2>3, Reads
  <1> QED
    BY <1>2, <1>3 DEF Fresh

-----------------------------------------------------------------------------
\* An exam never starts to answer item by item.
LEMMA ExamIsSheetFirst == Mode = "exam" => SheetFirst
  BY DEF SheetFirst

LEMMA DraftSteps ==
  ASSUME TypeOK, [Next]_vars
  PROVE  draft' = draft \/ \E r \in Req : CommitSaveDraft(r)
  <1>1. ASSUME NEW r \in Req, RequestStep(r), ~CommitSaveDraft(r) PROVE draft' = draft
    <2>1. CASE RequestCommit(r)
      BY <1>1, <2>1 DEF RequestCommit, Answers, CommitSubmitAnswer, CommitComplete, CommitBatch,
         CommitSubmitExam, CommitCreateObjection
    <2> QED
      BY <1>1, <2>1, RequestWrites
  <1>2. ASSUME NEW w \in Run, RunStep(w) PROVE draft' = draft
    <2>1. CASE RunCommit(w)
      BY <2>1 DEF RunCommit, Marks, CommitGradeExam, FailGradeExam, CommitUpheldObjection,
         StartGradeExam, CommitDismissedObjection, FailUpholding, CommitRegrade
    <2> QED
      BY <1>2, <2>1, RunWrites
  <1>3. UNCHANGED vars => draft' = draft
    BY DEF vars, rows
  <1> QED
    BY <1>1, <1>2, <1>3, Steps

\* Once an exam is handed in, no draft that was on its way is written any more,
\* if the client waits for its requests.
THEOREM SheetStaysClosed == ASSUME MaxOpen <= 1 PROVE Spec => SheetClosed
  <1> DEFINE Closed == status \notin {"ready", "in_progress"} => UNCHANGED draft
  <1>1. CASE Mode = "exam"
    <2>1. FInv /\ [Next]_vars => [Closed]_vars
      <3> SUFFICES ASSUME FInv, [Next]_vars, draft' # draft PROVE status \in Answerable
        BY DEF Answerable
      <3>1. PICK r \in Req : CommitSaveDraft(r)
        BY DraftSteps DEF FInv, XInv, JInv
      <3> QED
        BY <3>1 DEF FInv, Fresh, CommitSaveDraft, At, SheetCalls
    <2>2. Spec => []FInv
      BY <1>1, ExamIsSheetFirst, FInvInit, FInvNext, PTL DEF Spec
    <2> QED
      BY <2>1, <2>2, PTL DEF Spec, SheetClosed
  <1>2. CASE Mode # "exam"
    <2>1. XInv /\ [Next]_vars => [Closed]_vars
      <3> SUFFICES ASSUME XInv, [Next]_vars PROVE draft' = draft
        OBVIOUS
      <3> QED
        BY <1>2, DraftSteps DEF XInv, JInv, CallsFit, CommitSaveDraft
    <2>2. Spec => []XInv
      BY XInvInit, XInvNext, PTL DEF Spec
    <2> QED
      BY <2>1, <2>2, PTL DEF Spec, SheetClosed
  <1> QED
    BY <1>1, <1>2

\* A graded session takes no answer from a client that waits: in an exam, and
\* in normal mode if results are not reviewed before the session is graded.
THEOREM GradedSessionsRejectAnswers ==
  ASSUME MaxOpen <= 1, SheetFirst \/ NoReviews
  PROVE  Spec => GradedRejectsAnswers
  <1> DEFINE Rejects == status \in Published =>
                          WrittenBy("submit_answer")' = WrittenBy("submit_answer")
  <1>1. FInv /\ [Next]_vars => [Rejects]_vars
    <2> SUFFICES ASSUME FInv, [Next]_vars, status \in Published
                 PROVE  WrittenBy("submit_answer")' = WrittenBy("submit_answer")
      OBVIOUS
    <2>0. XInv /\ TypeOK /\ Authors /\ Fresh /\ status \notin Answerable /\ Req \subseteq Tx
      BY DEF FInv, XInv, JInv, Published, Answerable, Tx
    <2>1. ASSUME NEW l \in Existing, l[1] \in Req PROVE call'[l[1]] = call[l[1]]
      <3>1. tx[l[1]].pc \in {"unacked", "done"}
        BY <2>0, <2>1 DEF Authors
      <3>2. ASSUME NEW r \in Req, RequestStep(r), r = l[1] PROVE call' = call
        BY <2>0, <3>1, <3>2, RequestFrame DEF RequestMove, Begins, Prepares, Ends, HandsIn, Files,
           Orders, Administers, Sends, NewCall, At
      <3>3. ASSUME NEW r \in Req, RequestStep(r), r # l[1] PROVE call'[l[1]] = call[l[1]]
        BY <2>0, <2>1, <3>3, RequestFrame DEF Frame
      <3>4. ASSUME NEW w \in Run, RunStep(w) PROVE call' = call
        BY <2>0, <3>4, RunFrame
      <3>5. UNCHANGED vars => call' = call
        BY DEF vars
      <3> QED
        BY <3>2, <3>3, <3>4, <3>5, Steps
    <2>2. ASSUME NEW l \in LogId, l \notin Existing, l \in Existing', l[1] \in Req,
                 call'[l[1]].name = "submit_answer"
          PROVE  FALSE
      <3>1. Inserts(l[1]) /\ l[1] \in Tx
        BY <2>0, <2>2, LogRows
      <3>2. Recording(l[1]) /\ call' = call
        BY <2>0, <3>1, Inserting
      <3>3. tx[l[1]].pc = "writing"
        BY <2>2, <3>2, StoreAssumption DEF Recording, At
      <3> QED
        BY <2>0, <2>2, <3>2, <3>3 DEF Fresh, SheetCalls
    <2>3. \A l \in LogId : l \in Existing => l \in Existing'
      BY <2>0, LogRows
    <2>4. ASSUME NEW l \in LogId
          PROVE  l \in WrittenBy("submit_answer")' <=> l \in WrittenBy("submit_answer")
      <3>1. l \in Existing <=> log[l].st # "none"
        BY DEF Existing
      <3>2. l \in Existing' <=> log'[l].st # "none"
        BY DEF Existing
      <3> QED
        BY <2>1, <2>2, <2>3, <3>1, <3>2 DEF WrittenBy
    <2> QED
      BY <2>4 DEF WrittenBy
  <1>2. Spec => []FInv
    BY FInvInit, FInvNext, PTL DEF Spec
  <1> QED
    BY <1>1, <1>2, PTL DEF Spec, GradedRejectsAnswers

-----------------------------------------------------------------------------
\* Every result of an exam, and every one about to be inserted by a task, is for
\* the answer on the sheet.
FromSheet ==
    /\ \A l \in Existing : log[l].answer = SheetAnswer(l[2])
    /\ \A w \in Run : tx[w].pc \in {"writing", "failing", "upholding"} =>
          \A i \in tx[w].items : tx[w].answers[i] = SheetAnswer(i)

MInv == FInv /\ FromSheet

LEMMA MInvInit == Init => MInv
  <1> SUFFICES ASSUME Init PROVE FromSheet
    BY FInvInit DEF MInv
  <1>1. /\ \A t \in Tx : tx[t].pc = "new"
        /\ \A l \in LogId : log[l].st = "none"
    BY DEF Init, Idle
  <1> QED
    BY <1>1 DEF FromSheet, Existing, Tx

LEMMA MInvNext ==
  ASSUME MaxOpen <= 1, Mode = "exam", "batch" \notin Calls
  PROVE  MInv /\ [Next]_vars => MInv'
  <1> SUFFICES ASSUME MInv, [Next]_vars PROVE FromSheet'
    BY ExamIsSheetFirst, FInvNext DEF MInv
  <1>0. /\ FInv /\ XInv /\ TypeOK /\ FromSheet /\ Fresh /\ JobsExist /\ CallsFit
        /\ Req \subseteq Tx /\ Run \subseteq Tx /\ Req \cap Run = {} /\ SheetFirst
    BY ExamIsSheetFirst, StoreAssumption DEF MInv, FInv, XInv, JInv, Tx
  <1>1. CASE draft' # draft
    <2>1. PICK r \in Req : CommitSaveDraft(r)
      BY <1>0, <1>1, DraftSteps
    <2>2. status \in Answerable /\ Existing = {} /\ log' = log
      BY <1>0, <2>1 DEF Fresh, CommitSaveDraft, At, SheetCalls
    <2>3. ASSUME NEW w \in Run, tx'[w].pc \in {"writing", "failing", "upholding"} PROVE FALSE
      <3>1. tx'[w] = tx[w]
        BY <1>0, <2>1, <2>3 DEF CommitSaveDraft, Step, TypeOK
      <3>2. works[w] \in Req /\ call[works[w]].name \in {"submit_exam", "create_objection"}
            /\ job[works[w]] # "none"
        BY <1>0, <2>3, <3>1 DEF JobsExist, TaskLabels, CallAt
      <3> QED
        BY <1>0, <2>2, <3>2, OpenSheetJobs
    <2>4. Existing' = {}
      BY <2>2 DEF Existing
    <2> QED
      BY <2>3, <2>4 DEF FromSheet
  <1>2. CASE draft' = draft
    <2>0. \A i : SheetAnswer(i)' = SheetAnswer(i)
      BY <1>2 DEF SheetAnswer, DraftRows
    <2>1. ASSUME NEW l \in Existing' PROVE log'[l].answer = SheetAnswer(l[2])
      <3>1. l \in LogId
        BY <2>1 DEF Existing
      <3>2. CASE l \in Existing
        BY <1>0, <3>1, <3>2, LogRows DEF FromSheet
      <3>3. CASE l \notin Existing
        <4>1. /\ Inserts(l[1]) /\ l[1] \in Tx /\ l[2] \in tx[l[1]].items
              /\ log'[l].answer = tx[l[1]].answers[l[2]]
          BY <1>0, <2>1, <3>1, <3>3, LogRows DEF LogId
        <4>2. Recording(l[1])
          BY <1>0, <4>1, Inserting
        <4>3. CASE l[1] \in Req
          BY <1>0, <4>2, <4>3 DEF Recording, CallsFit
        <4>4. CASE l[1] \in Run
          BY <1>0, <4>1, <4>2, <4>4 DEF Recording, FromSheet
        <4> QED
          BY <4>1, <4>3, <4>4 DEF Tx
      <3> QED
        BY <3>2, <3>3
    <2>2. ASSUME NEW w \in Run, tx'[w].pc \in {"writing", "failing", "upholding"},
                 NEW i \in tx'[w].items
          PROVE  tx'[w].answers[i] = SheetAnswer(i)
      <3>1. CASE tx'[w] = tx[w]
        BY <1>0, <2>2, <3>1 DEF FromSheet
      <3>2. CASE Rests(w)
        BY <2>2, <3>2 DEF Rests, Idle
      <3>3. CASE GradeSheet(w)
        <4> DEFINE as == [j \in Item |-> IF j \in Gradable THEN SheetAnswer(j) ELSE Blank]
                   pc == IF Gradable = Item THEN "writing" ELSE "failing"
        <4>1. PICK m : Step(w, [Idle EXCEPT !.pc = pc, !.items = Gradable, !.answers = as,
                                            !.marks = m, !.old = FormerResults])
          BY <3>3 DEF GradeSheet
        <4> HIDE DEF as, pc
        <4>2. tx'[w].items = Gradable /\ tx'[w].answers = as
          BY <1>0, <4>1 DEF Step, Idle, TypeOK
        <4> QED
          BY <2>2, <4>2 DEF as, Gradable
      <3>4. CASE UpholdObjection(w)
        <4>1. PICK l \in obj[works[w]].logs, m \in Mark :
                Step(w, [Replace(l, m) EXCEPT !.seen = status])
          BY <3>4 DEF UpholdObjection
        <4>2. l \in Existing /\ l[2] \in Item
          BY <1>0, <3>4 DEF UpholdObjection, RunAt, XInv, OldExists, Existing, LogId
        <4>3. tx'[w].items = {l[2]} /\ tx'[w].answers[l[2]] = log[l].answer
          BY <1>0, <4>1, <4>2 DEF Step, Replace, Idle, Blanks, TypeOK
        <4> QED
          BY <1>0, <2>2, <4>2, <4>3 DEF FromSheet
      <3>5. CASE StartGradeExam(w)
        BY <1>0, <2>2, <3>5 DEF StartGradeExam, Step, Idle, TypeOK
      <3>6. CASE DismissObjection(w)
        BY <1>0, <2>2, <3>6 DEF DismissObjection, Step, Idle, TypeOK
      <3>7. CASE ReadRegrade(w)
        BY <1>0, <2>2, <3>7 DEF ReadRegrade, Step, Idle, TypeOK
      <3> QED
        BY <1>0, <3>1, <3>2, <3>3, <3>4, <3>5, <3>6, <3>7, Reads DEF RunPlan
    <2> QED
      BY <2>0, <2>1, <2>2 DEF FromSheet
  <1> QED
    BY <1>1, <1>2

\* The results of a published exam, reviewed ones included, are for the answers
\* of its drafts, if the client waits and does not send a batch.
THEOREM ExamsAreMarkedFromSheet ==
  ASSUME MaxOpen <= 1, "batch" \notin Calls PROVE Spec => []MarkedFromSheet
  <1>1. CASE Mode = "exam"
    <2>1. MInv => MarkedFromSheet
      BY DEF MInv, FromSheet, MarkedFromSheet, Existing, ActiveIn
    <2> QED
      BY <1>1, <2>1, MInvInit, MInvNext, PTL DEF Spec
  <1>2. CASE Mode # "exam"
    <2>1. MarkedFromSheet
      BY <1>2 DEF MarkedFromSheet
    <2> QED
      BY <2>1, PTL
  <1> QED
    BY <1>1, <1>2
==============================================================================

-------------------------- MODULE QuizSessionProofs --------------------------
(***************************************************************************)
(* Theorems about QuizSession for every number of requests, executions and *)
(* items, and every bound on what runs at a time: its state is well typed, *)
(* and, as long as the AI keeps to the ErrorType enum, an item never loses *)
(* its result and a graded session has all of its results.                 *)
(***************************************************************************)
EXTENDS QuizSession, TLAPS

-----------------------------------------------------------------------------
\* Type correctness

LEMMA IdleType == /\ Idle \in Workspace /\ Finished \in Workspace
                  /\ \A pc \in PC : [Idle EXCEPT !.pc = pc] \in Workspace
  BY StoreAssumption DEF Idle, Finished, Workspace, PC, Blanks, NoMarks,
     QuizSessionStatus, ObjectionStatus

LEMMA StepType ==
  ASSUME NEW t \in Tx, NEW x \in Workspace, tx \in [Tx -> Workspace], Step(t, x)
  PROVE  tx' \in [Tx -> Workspace]
  BY DEF Step

LEMMA CallingType ==
  ASSUME TypeOK, NEW r \in Req, NEW name \in CallNames, NEW i \in Item,
         NEW q \in Req \cup {NoReq}, Calling(r, name, i, q)
  PROVE  call' \in [Req -> [name : CallNames \cup {"none"}, item : Item,
                            target : Req \cup {NoReq}]]
  BY DEF TypeOK, Calling

LEMMA RecordedType ==
  ASSUME TypeOK, NEW t \in Tx, NEW x \in Workspace
  PROVE  Recorded(t, x) \in [LogId -> AnswerLog]
  <1>1. SUFFICES ASSUME NEW l \in LogId
                 PROVE  Recorded(t, x)[l] \in AnswerLog
    BY DEF Recorded
  <1>2. log[l] \in AnswerLog /\ l[2] \in Item /\ l \in Tx \X Item
    BY DEF TypeOK, LogId
  <1>3. x.answers[l[2]] \in Answer \cup {Blank} /\ x.marks[l[2]] \in Mark
    BY <1>2 DEF Workspace
  <1>4. [log[l] EXCEPT !.st = "inactive"] \in AnswerLog
    BY <1>2 DEF AnswerLog
  <1>5. [st |-> "active", answer |-> x.answers[l[2]], mark |-> x.marks[l[2]]] \in AnswerLog
    BY <1>3 DEF AnswerLog
  <1> QED
    BY <1>2, <1>4, <1>5 DEF Recorded

LEMMA ActiveType == ActiveIn(log) \in SUBSET LogId /\ \A i \in Item : ActiveOf(i) \in SUBSET LogId
  BY DEF ActiveIn, ActiveOf

LEMMA TypeInit == Init => TypeOK
  <1> SUFFICES ASSUME Init PROVE TypeOK
    OBVIOUS
  <1>1. 0 \in Mark /\ 1 \in Item
    BY StoreAssumption DEF Item
  <1>2. tx \in [Tx -> Workspace]
    BY IdleType DEF Init
  <1>3. log \in [LogId -> AnswerLog]
    BY <1>1 DEF Init, AnswerLog
  <1> QED
    BY <1>1, <1>2, <1>3 DEF Init, TypeOK, QuizSessionStatus, NoTotal, ObjectionStatus, JobStatus

-----------------------------------------------------------------------------
LEMMA AnsweringType ==
  ASSUME TypeOK, NEW r \in Req, Answering(r)
  PROVE  TypeOK'
  <1> USE DEF rows
  <1>0. /\ r \in Tx /\ 1 \in Item /\ 0 \in Mark
        /\ tx[r] \in Workspace /\ Idle \in Workspace /\ status \in QuizSessionStatus
    BY StoreAssumption, IdleType DEF TypeOK, Tx, Item
  <1>1. CASE BeginSubmitAnswer(r)
    <2>1. PICK i \in Item, a \in Answer :
            /\ Calling(r, "submit_answer", i, NoReq)
            /\ Step(r, [Idle EXCEPT !.pc = "grading", !.seen = status, !.items = {i},
                                    !.answers[i] = a])
            /\ UNCHANGED <<rows, queue, works, tally>>
      BY <1>1 DEF BeginSubmitAnswer
    <2>2. [Idle EXCEPT !.pc = "grading", !.seen = status, !.items = {i},
                       !.answers[i] = a] \in Workspace
      BY <1>0 DEF Workspace, PC
    <2>3. tx' \in [Tx -> Workspace]
      BY <1>0, <2>1, <2>2, StepType DEF TypeOK
    <2> QED
      BY <2>1, <2>3, CallingType DEF TypeOK, CallNames
  <1>2. CASE GradeSubmittedAnswer(r)
    <2>1. PICK m \in [Item -> Mark] :
            Step(r, [tx[r] EXCEPT !.pc = "writing", !.marks = m, !.old = Previous(call[r].item)])
      BY <1>2 DEF GradeSubmittedAnswer, GradeSingleAnswer
    <2>2. [tx[r] EXCEPT !.pc = "writing", !.marks = m, !.old = Previous(call[r].item)] \in Workspace
      BY <1>0, ActiveType DEF Workspace, PC, Previous, TypeOK
    <2>3. tx' \in [Tx -> Workspace]
      BY <1>0, <2>1, <2>2, StepType DEF TypeOK
    <2> QED
      BY <1>2, <2>3 DEF GradeSubmittedAnswer, TypeOK
  <1>3. CASE CommitSubmitAnswer(r)
    <2>1. tx' \in [Tx -> Workspace]
      BY <1>0, <1>3, IdleType, StepType DEF TypeOK, CommitSubmitAnswer
    <2>2. log' \in [LogId -> AnswerLog]
      BY <1>0, <1>3, RecordedType DEF CommitSubmitAnswer
    <2> QED
      BY <1>3, <2>1, <2>2 DEF CommitSubmitAnswer, TypeOK, QuizSessionStatus
  <1>4. CASE BeginComplete(r)
    <2> DEFINE x == [Idle EXCEPT !.pc = "writing", !.seen = status, !.items = Unanswered]
    <2>1. x \in Workspace
      BY <1>0 DEF Workspace, PC, Unanswered
    <2>2. tx' \in [Tx -> Workspace]
      BY <1>0, <1>4, <2>1, StepType DEF TypeOK, BeginComplete
    <2>3. DOMAIN tally' = Tx
      BY <1>4 DEF BeginComplete, TypeOK
    <2> QED
      BY <1>0, <1>4, <2>2, <2>3, CallingType DEF TypeOK, CallNames, BeginComplete
  <1>5. CASE CommitComplete(r)
    <2>1. tx' \in [Tx -> Workspace]
      BY <1>0, <1>5, IdleType, StepType DEF TypeOK, CommitComplete
    <2>2. log' \in [LogId -> AnswerLog]
      BY <1>0, <1>5, RecordedType DEF CommitComplete
    <2> QED
      BY <1>5, <2>1, <2>2 DEF CommitComplete, TypeOK, QuizSessionStatus, Stored
  <1>6. CASE BeginBatch(r)
    <2>1. PICK as \in [Item -> Answer \cup {Blank}] :
            /\ Calling(r, "batch", 1, NoReq)
            /\ Step(r, [Idle EXCEPT !.pc = "grading", !.seen = status, !.answers = as,
                                    !.items = BatchItems(as)])
            /\ tally' = [tally EXCEPT ![r].was = total]
            /\ UNCHANGED <<rows, queue, works>>
      BY <1>6 DEF BeginBatch
    <2>2. [Idle EXCEPT !.pc = "grading", !.seen = status, !.answers = as,
                       !.items = BatchItems(as)] \in Workspace
      BY <1>0 DEF Workspace, PC, BatchItems
    <2>3. tx' \in [Tx -> Workspace]
      BY <1>0, <2>1, <2>2, StepType DEF TypeOK
    <2> QED
      BY <1>0, <2>1, <2>3, CallingType DEF TypeOK, CallNames
  <1>7. CASE GradeBatch(r)
    <2>1. PICK m \in [Item -> Mark] :
            Step(r, [tx[r] EXCEPT !.pc = "writing", !.marks = m, !.old = ActiveIn(log)])
      BY <1>7 DEF GradeBatch, GradeSingleAnswer
    <2>2. [tx[r] EXCEPT !.pc = "writing", !.marks = m, !.old = ActiveIn(log)] \in Workspace
      BY <1>0, ActiveType DEF Workspace, PC
    <2>3. tx' \in [Tx -> Workspace]
      BY <1>0, <2>1, <2>2, StepType DEF TypeOK
    <2>4. DOMAIN tally' = Tx
      BY <1>7 DEF GradeBatch, TypeOK
    <2> QED
      BY <1>7, <2>3, <2>4 DEF GradeBatch, TypeOK
  <1>8. CASE CommitBatch(r)
    <2>1. tx' \in [Tx -> Workspace]
      BY <1>0, <1>8, IdleType, StepType DEF TypeOK, CommitBatch
    <2>2. log' \in [LogId -> AnswerLog]
      BY <1>0, <1>8, RecordedType DEF CommitBatch
    <2> QED
      BY <1>8, <2>1, <2>2 DEF CommitBatch, TypeOK, QuizSessionStatus, Stored
  <1> QED
    BY <1>1, <1>2, <1>3, <1>4, <1>5, <1>6, <1>7, <1>8 DEF Answering

LEMMA ExamRequestType ==
  ASSUME TypeOK, NEW r \in Req, ExamRequest(r)
  PROVE  TypeOK'
  <1> USE DEF rows
  <1>0. /\ r \in Tx /\ 1 \in Item
        /\ tx[r] \in Workspace /\ Idle \in Workspace /\ status \in QuizSessionStatus
        /\ call[r].item \in Item
    BY StoreAssumption, IdleType DEF TypeOK, Tx, Item
  <1>1. CASE BeginSaveDraft(r)
    <2>1. PICK i \in Item, a \in Answer \cup {Blank} :
            /\ Calling(r, "save_draft", i, NoReq)
            /\ \E q \in IF DraftRows(i) = {} THEN {r} ELSE DraftRows(i) :
                 Step(r, [Idle EXCEPT !.pc = "writing", !.seen = status, !.answers[i] = a,
                                      !.row = IF draft[i][q] = a THEN NoReq ELSE q])
            /\ UNCHANGED <<rows, queue, works, tally>>
      BY <1>1 DEF BeginSaveDraft
    <2>2. PICK q \in Req :
            Step(r, [Idle EXCEPT !.pc = "writing", !.seen = status, !.answers[i] = a,
                                 !.row = IF draft[i][q] = a THEN NoReq ELSE q])
      BY <2>1 DEF DraftRows
    <2> DEFINE row == IF draft[i][q] = a THEN NoReq ELSE q
    <2>3. row \in Req \cup {NoReq}
      OBVIOUS
    <2> HIDE DEF row
    <2>4. [Idle EXCEPT !.pc = "writing", !.seen = status, !.answers[i] = a,
                       !.row = row] \in Workspace
      BY <1>0, <2>3 DEF Workspace, PC
    <2>5. tx' \in [Tx -> Workspace]
      BY <1>0, <2>2, <2>4, StepType DEF TypeOK, row
    <2> QED
      BY <2>1, <2>5, CallingType DEF TypeOK, CallNames
  <1>2. CASE CommitSaveDraft(r)
    <2>1. tx' \in [Tx -> Workspace]
      BY <1>0, <1>2, IdleType, StepType DEF TypeOK, CommitSaveDraft
    <2>2. tx[r].row \in Req \cup {NoReq} /\ tx[r].answers[call[r].item] \in Answer \cup {Blank}
      BY <1>0 DEF Workspace
    <2>3. draft' \in [Item -> [Req -> Answer \cup {Blank, NoDraft}]]
      BY <1>0, <1>2, <2>2 DEF CommitSaveDraft, TypeOK
    <2> QED
      BY <1>2, <2>1, <2>3 DEF CommitSaveDraft, TypeOK, QuizSessionStatus
  <1>3. CASE BeginSubmitExam(r)
    <2>1. [Idle EXCEPT !.pc = "writing", !.seen = status] \in Workspace
      BY <1>0 DEF Workspace, PC
    <2>2. tx' \in [Tx -> Workspace]
      BY <1>0, <1>3, <2>1, StepType DEF TypeOK, BeginSubmitExam
    <2> QED
      BY <1>0, <1>3, <2>2, CallingType DEF BeginSubmitExam, TypeOK, CallNames
  <1>4. CASE CommitSubmitExam(r)
    <2>1. [Idle EXCEPT !.pc = "dispatch"] \in Workspace
      BY IdleType DEF PC
    <2>2. tx' \in [Tx -> Workspace]
      BY <1>0, <1>4, <2>1, StepType DEF TypeOK, CommitSubmitExam
    <2> QED
      BY <1>4, <2>2 DEF CommitSubmitExam, TypeOK, QuizSessionStatus, JobStatus
  <1> QED
    BY <1>1, <1>2, <1>3, <1>4 DEF ExamRequest

\* What holds of an execution at a label of a task.
LEMMA RunAtType ==
  ASSUME TypeOK, NEW w \in Run, NEW name, NEW pc, RunAt(w, name, pc)
  PROVE  /\ w \in Tx /\ works[w] \in Req
         /\ tx[w] \in Workspace /\ Idle \in Workspace
         /\ status \in QuizSessionStatus
         /\ total' = Stored(tally[w]) => DOMAIN total' = {"score", "max"}
  BY IdleType DEF TypeOK, RunAt, Tx, Stored

LEMMA ConcludeType ==
  ASSUME TypeOK, NEW w \in Run, NEW st \in JobStatus, Conclude(w, st)
  PROVE  job' \in [Req -> JobStatus] /\ tx' \in [Tx -> Workspace]
  <1>1. w \in Tx /\ [Idle EXCEPT !.pc = "unacked"] \in Workspace
    BY IdleType DEF Tx, PC
  <1>2. tx' \in [Tx -> Workspace]
    BY <1>1, StepType DEF Conclude, TypeOK
  <1> QED
    BY <1>2 DEF Conclude, TypeOK

LEMMA ExamTaskType ==
  ASSUME TypeOK, NEW w \in Run, ExamTask(w)
  PROVE  TypeOK'
  <1> USE DEF rows
  <1>1. CASE StartGradeExam(w)
    <2>1. w \in Tx /\ [Idle EXCEPT !.pc = "grading"] \in Workspace
      BY IdleType DEF Tx, PC
    <2>2. tx' \in [Tx -> Workspace]
      BY <1>1, <2>1, StepType DEF TypeOK, StartGradeExam
    <2> QED
      BY <1>1, <2>2 DEF StartGradeExam, TypeOK, QuizSessionStatus
  <1>2. CASE GradeSheet(w)
    <2> DEFINE as == [i \in Item |-> IF i \in Gradable THEN SheetAnswer(i) ELSE Blank]
               pc == IF Gradable = Item THEN "writing" ELSE "failing"
    <2>1. PICK m \in [Item -> Mark] :
            Step(w, [Idle EXCEPT !.pc = pc, !.items = Gradable, !.answers = as,
                                 !.marks = m, !.old = FormerResults])
      BY <1>2 DEF GradeSheet, GradeSingleAnswer
    <2>2. as \in [Item -> Answer \cup {Blank}]
      <3>1. ASSUME NEW i \in Item PROVE SheetAnswer(i) \in Answer \cup {Blank}
        BY DEF SheetAnswer, DraftRows, TypeOK
      <3> QED
        BY <3>1
    <2>3. pc \in PC /\ Gradable \in SUBSET Item /\ FormerResults \in SUBSET LogId
      BY ActiveType DEF PC, Gradable, FormerResults
    <2> HIDE DEF as, pc
    <2>4. [Idle EXCEPT !.pc = pc, !.items = Gradable, !.answers = as,
                       !.marks = m, !.old = FormerResults] \in Workspace
      BY <2>2, <2>3, IdleType DEF Workspace
    <2>5. tx' \in [Tx -> Workspace]
      BY <2>1, <2>4, StepType DEF TypeOK, Tx
    <2>6. DOMAIN tally' = Tx
      BY <1>2 DEF GradeSheet, TypeOK
    <2> QED
      BY <1>2, <2>5, <2>6 DEF GradeSheet, TypeOK
  <1>3. CASE CommitGradeExam(w)
    <2>1. w \in Tx /\ tx[w] \in Workspace /\ DOMAIN total' = {"score", "max"}
      BY <1>3, RunAtType DEF CommitGradeExam
    <2>2. log' \in [LogId -> AnswerLog]
      BY <1>3, <2>1, RecordedType DEF CommitGradeExam
    <2>3. job' \in [Req -> JobStatus] /\ tx' \in [Tx -> Workspace]
      BY <1>3, ConcludeType DEF CommitGradeExam, JobStatus
    <2> QED
      BY <1>3, <2>1, <2>2, <2>3 DEF CommitGradeExam, TypeOK, QuizSessionStatus
  <1>4. CASE FailGradeExam(w)
    <2>1. w \in Tx /\ tx[w] \in Workspace /\ DOMAIN total' = {"score", "max"}
      BY <1>4, RunAtType DEF FailGradeExam, TypeOK, Stored
    <2>2. log' \in [LogId -> AnswerLog]
      BY <1>4, <2>1, RecordedType DEF FailGradeExam
    <2>3. job' \in [Req -> JobStatus] /\ tx' \in [Tx -> Workspace]
      BY <1>4, ConcludeType DEF FailGradeExam, JobStatus
    <2> QED
      BY <1>4, <2>1, <2>2, <2>3 DEF FailGradeExam, FailedGrading, TypeOK, QuizSessionStatus
  <1> QED
    BY <1>1, <1>2, <1>3, <1>4 DEF ExamTask

LEMMA ReviewRequestType ==
  ASSUME TypeOK, NEW r \in Req, ReviewRequest(r)
  PROVE  TypeOK'
  <1> USE DEF rows
  <1>0. /\ r \in Tx /\ 1 \in Item
        /\ tx[r] \in Workspace /\ Idle \in Workspace /\ Finished \in Workspace
        /\ status \in QuizSessionStatus /\ [Idle EXCEPT !.pc = "dispatch"] \in Workspace
    BY StoreAssumption, IdleType DEF TypeOK, Tx, Item, PC
  <1>1. CASE BeginCreateObjection(r)
    <2>1. PICK l \in LogId :
            /\ Calling(r, "create_objection", l[2], NoReq)
            /\ Step(r, [Idle EXCEPT !.pc = "writing", !.seen = status, !.old = {l}])
            /\ UNCHANGED <<rows, queue, works, tally>>
      BY <1>1, ActiveType DEF BeginCreateObjection
    <2>2. l[2] \in Item
      BY DEF LogId
    <2>3. [Idle EXCEPT !.pc = "writing", !.seen = status, !.old = {l}] \in Workspace
      BY <1>0 DEF Workspace, PC
    <2>4. tx' \in [Tx -> Workspace]
      BY <1>0, <2>1, <2>3, StepType DEF TypeOK
    <2> QED
      BY <2>1, <2>2, <2>4, CallingType DEF TypeOK, CallNames
  <1>2. CASE CommitCreateObjection(r)
    <2>1. tx' \in [Tx -> Workspace]
      BY <1>0, <1>2, StepType DEF TypeOK, CommitCreateObjection
    <2>2. [st |-> "under_review", logs |-> tx[r].old] \in [st : ObjectionStatus, logs : SUBSET LogId]
      BY <1>0 DEF Workspace, ObjectionStatus
    <2>3. obj' \in [Req -> [st : ObjectionStatus, logs : SUBSET LogId]]
      BY <1>2, <2>2 DEF TypeOK, CommitCreateObjection
    <2> QED
      BY <1>2, <2>1, <2>3 DEF CommitCreateObjection, TypeOK, QuizSessionStatus, JobStatus
  <1>3. CASE RegradeItem(r)
    <2>1. tx' \in [Tx -> Workspace]
      BY <1>0, <1>3, StepType DEF TypeOK, RegradeItem
    <2> QED
      BY <1>3, <2>1, CallingType DEF RegradeItem, TypeOK, CallNames, JobStatus
  <1>4. CASE RetryJob(r)
    <2>1. PICK q \in Req :
            /\ Calling(r, "retry_job", 1, q)
            /\ job' = [job EXCEPT ![q] = "pending"]
            /\ Step(r, IF call[q].name \in Retryable THEN [Idle EXCEPT !.pc = "dispatch"]
                                                      ELSE Finished)
            /\ UNCHANGED <<status, total, log, draft, obj, queue, works, tally>>
      BY <1>4 DEF RetryJob
    <2>2. tx' \in [Tx -> Workspace]
      BY <1>0, <2>1, StepType DEF TypeOK
    <2> QED
      BY <1>0, <2>1, <2>2, CallingType DEF TypeOK, CallNames, JobStatus
  <1>5. CASE CancelJob(r)
    <2>1. PICK q \in Req :
            /\ Calling(r, "cancel_job", 1, q)
            /\ job' = [job EXCEPT ![q] = "failed"]
            /\ Step(r, Finished)
            /\ UNCHANGED <<status, total, log, draft, obj, queue, works, tally>>
      BY <1>5 DEF CancelJob
    <2>2. tx' \in [Tx -> Workspace]
      BY <1>0, <2>1, StepType DEF TypeOK
    <2> QED
      BY <1>0, <2>1, <2>2, CallingType DEF TypeOK, CallNames, JobStatus
  <1> QED
    BY <1>1, <1>2, <1>3, <1>4, <1>5 DEF ReviewRequest

LEMMA RegradedType ==
  ASSUME TypeOK, NEW old \in SUBSET LogId, NEW m \in [old -> Mark]
  PROVE  Regraded(old, m) \in [LogId -> AnswerLog]
  <1>1. SUFFICES ASSUME NEW l \in LogId
                 PROVE  Regraded(old, m)[l] \in AnswerLog
    BY DEF Regraded
  <1>2. log[l] \in AnswerLog /\ 0 \in Mark
    BY StoreAssumption DEF TypeOK
  <1>3. \A k \in Mark : [log[l] EXCEPT !.mark = k] \in AnswerLog
    BY <1>2 DEF AnswerLog
  <1> QED
    BY <1>2, <1>3 DEF Regraded

LEMMA ReviewTaskType ==
  ASSUME TypeOK, NEW w \in Run, ReviewTask(w)
  PROVE  TypeOK'
  <1> USE DEF rows
  <1>0. /\ w \in Tx /\ tx[w] \in Workspace /\ Idle \in Workspace
        /\ status \in QuizSessionStatus
    BY IdleType DEF TypeOK, Tx
  <1>1. CASE UpholdObjection(w)
    <2>1. works[w] \in Req
      BY <1>1 DEF UpholdObjection, RunAt
    <2>2. PICK l \in obj[works[w]].logs, m \in Mark :
            Step(w, [Replace(l, m) EXCEPT !.seen = status])
      BY <1>1 DEF UpholdObjection
    <2>3. l \in LogId /\ l[2] \in Item
      BY <2>1 DEF TypeOK, LogId
    <2>4. log[l].answer \in Answer \cup {Blank}
      BY <2>3 DEF TypeOK, AnswerLog
    <2>5. Replace(l, m) \in Workspace
      BY <1>0, <2>3, <2>4 DEF Replace, Workspace, PC
    <2>6. [Replace(l, m) EXCEPT !.seen = status] \in Workspace
      BY <1>0, <2>5 DEF Workspace
    <2>7. tx' \in [Tx -> Workspace]
      BY <1>0, <2>2, <2>6, StepType DEF TypeOK
    <2>8. DOMAIN tally' = Tx
      BY <1>1 DEF UpholdObjection, TypeOK
    <2> QED
      BY <1>1, <2>7, <2>8 DEF UpholdObjection, TypeOK
  <1>2. CASE CommitUpheldObjection(w)
    <2>1. works[w] \in Req /\ DOMAIN total' = {"score", "max"}
      BY <1>2, RunAtType DEF CommitUpheldObjection
    <2>2. log' \in [LogId -> AnswerLog]
      BY <1>0, <1>2, RecordedType DEF CommitUpheldObjection
    <2>3. job' \in [Req -> JobStatus] /\ tx' \in [Tx -> Workspace]
      BY <1>2, ConcludeType DEF CommitUpheldObjection, JobStatus
    <2>4. obj' \in [Req -> [st : ObjectionStatus, logs : SUBSET LogId]]
      BY <1>2, <2>1, SMTT(30) DEF CommitUpheldObjection, TypeOK, ObjectionStatus
    <2> QED
      BY <1>2, <2>1, <2>2, <2>3, <2>4 DEF CommitUpheldObjection, TypeOK, QuizSessionStatus
  <1>3. CASE DismissObjection(w)
    <2>1. PICK d \in {"rejected", "upheld"} :
            Step(w, [Idle EXCEPT !.pc = "restoring", !.seen = status, !.verdict = d,
                                 !.others = OtherPending(works[w])])
      BY <1>3 DEF DismissObjection
    <2>2. OtherPending(works[w]) \in SUBSET Req /\ d \in ObjectionStatus
      BY DEF OtherPending, Pending, ObjectionStatus
    <2>3. [Idle EXCEPT !.pc = "restoring", !.seen = status, !.verdict = d,
                       !.others = OtherPending(works[w])] \in Workspace
      BY <1>0, <2>2 DEF Workspace, PC
    <2>4. tx' \in [Tx -> Workspace]
      BY <1>0, <2>1, <2>3, StepType DEF TypeOK
    <2> QED
      BY <1>3, <2>4 DEF DismissObjection, TypeOK
  <1>4. CASE CommitDismissedObjection(w)
    <2>1. works[w] \in Req /\ tx[w].verdict \in ObjectionStatus
      BY <1>0, <1>4, RunAtType DEF CommitDismissedObjection, Workspace
    <2>2. \E st \in JobStatus : Conclude(w, st)
      BY <1>4 DEF CommitDismissedObjection, JobStatus
    <2>3. job' \in [Req -> JobStatus] /\ tx' \in [Tx -> Workspace]
      BY <2>2, ConcludeType
    <2>4. obj' \in [Req -> [st : ObjectionStatus, logs : SUBSET LogId]]
      <3>1. obj' = [obj EXCEPT ![works[w]].st = tx[w].verdict]
        BY <1>4 DEF CommitDismissedObjection
      <3>2. obj \in [Req -> [st : ObjectionStatus, logs : SUBSET LogId]]
        BY DEF TypeOK
      <3> QED
        BY <2>1, <3>1, <3>2
    <2> QED
      BY <1>4, <2>3, <2>4 DEF CommitDismissedObjection, TypeOK, QuizSessionStatus
  <1>5. CASE FailReview(w)
    <2>1. job' \in [Req -> JobStatus] /\ tx' \in [Tx -> Workspace]
      BY <1>5, ConcludeType DEF FailReview, JobStatus
    <2> QED
      BY <1>5, <2>1 DEF FailReview, TypeOK
  <1>6. CASE FailUpholding(w)
    <2>1. works[w] \in Req
      BY <1>6, RunAtType DEF FailUpholding
    <2>2. [Idle EXCEPT !.old = obj[works[w]].logs] \in Workspace
      BY <1>0, <2>1 DEF Workspace, TypeOK
    <2>3. log' \in [LogId -> AnswerLog]
      BY <1>0, <1>6, <2>2, RecordedType DEF FailUpholding
    <2>4. job' \in [Req -> JobStatus] /\ tx' \in [Tx -> Workspace]
      BY <1>6, ConcludeType DEF FailUpholding, JobStatus
    <2> QED
      BY <1>6, <2>3, <2>4 DEF FailUpholding, TypeOK
  <1>7. CASE ReadRegrade(w)
    <2>1. call[works[w]].item \in Item
      BY <1>7, RunAtType DEF ReadRegrade, TypeOK
    <2>2. [Idle EXCEPT !.pc = "regrading", !.old = ActiveOf(call[works[w]].item)] \in Workspace
      BY <1>0, <2>1, ActiveType DEF Workspace, PC
    <2>3. tx' \in [Tx -> Workspace]
      BY <1>0, <1>7, <2>2, StepType DEF TypeOK, ReadRegrade
    <2> QED
      BY <1>7, <2>3 DEF ReadRegrade, TypeOK
  <1>8. CASE CommitRegrade(w)
    <2>1. tx[w].old \in SUBSET LogId
      BY <1>0 DEF Workspace
    <2>2. PICK m \in [tx[w].old -> Mark] : log' = Regraded(tx[w].old, m)
      BY <1>8 DEF CommitRegrade
    <2>3. log' \in [LogId -> AnswerLog]
      BY <2>1, <2>2, RegradedType
    <2>4. DOMAIN total' = {"score", "max"}
      BY <1>8 DEF CommitRegrade, Stored, TypeOK
    <2>5. job' \in [Req -> JobStatus] /\ tx' \in [Tx -> Workspace]
      BY <1>8, ConcludeType DEF CommitRegrade, JobStatus
    <2> QED
      BY <1>8, <2>3, <2>4, <2>5 DEF CommitRegrade, TypeOK
  <1> QED
    BY <1>1, <1>2, <1>3, <1>4, <1>5, <1>6, <1>7, <1>8 DEF ReviewTask

LEMMA QueueType ==
  ASSUME TypeOK, NEW q, queue' = [queue EXCEPT ![q] = queue[q] + 1]
  PROVE  queue' \in [Req -> Nat]
  <1>1. CASE q \in Req
    BY <1>1 DEF TypeOK
  <1>2. CASE q \notin Req
    BY <1>2 DEF TypeOK
  <1> QED
    BY <1>1, <1>2

LEMMA TypeNext == TypeOK /\ [Next]_vars => TypeOK'
  <1> SUFFICES ASSUME TypeOK, [Next]_vars PROVE TypeOK'
    OBVIOUS
  <1> USE DEF rows
  <1>1. Finished \in Workspace /\ [Idle EXCEPT !.pc = "started"] \in Workspace
        /\ [Idle EXCEPT !.pc = "unacked"] \in Workspace
    BY IdleType DEF PC
  <1>2. ASSUME NEW r \in Req, Request(r) PROVE TypeOK'
    BY <1>2, AnsweringType, ExamRequestType, ReviewRequestType DEF Request
  <1>3. ASSUME NEW r \in Req, Dispatch(r) PROVE TypeOK'
    <2>1. r \in Tx /\ tx' \in [Tx -> Workspace]
      BY <1>1, <1>3, StepType DEF Dispatch, TypeOK, Tx
    <2>2. queue' \in [Req -> Nat]
      BY <1>3, QueueType DEF Dispatch
    <2> QED
      BY <1>3, <2>1, <2>2 DEF Dispatch, TypeOK
  <1>4. ASSUME NEW r \in Req, FailRequest(r) PROVE TypeOK'
    <2>1. tx' \in [Tx -> Workspace]
      BY <1>1, <1>4, StepType DEF FailRequest, TypeOK, Tx
    <2> QED
      BY <1>4, <2>1 DEF FailRequest, TypeOK
  <1>5. ASSUME NEW w \in Run, TakeJob(w) PROVE TypeOK'
    <2>1. tx' \in [Tx -> Workspace]
      BY <1>1, <1>5, StepType DEF TakeJob, TypeOK, Tx
    <2>2. queue' \in [Req -> Nat]
      BY <1>5 DEF TakeJob, TypeOK
    <2> QED
      BY <1>5, <2>1, <2>2 DEF TakeJob, TypeOK, JobStatus
  <1>6. ASSUME NEW w \in Run, Task(w) PROVE TypeOK'
    BY <1>6, ExamTaskType, ReviewTaskType DEF Task
  <1>7. ASSUME NEW w \in Run, AbortTask(w) PROVE TypeOK'
    <2>1. tx' \in [Tx -> Workspace]
      BY <1>1, <1>7, StepType DEF AbortTask, TypeOK, Tx
    <2> QED
      BY <1>7, <2>1 DEF AbortTask, TypeOK
  <1>8. ASSUME NEW w \in Run, Acknowledge(w) PROVE TypeOK'
    <2>1. tx' \in [Tx -> Workspace]
      BY <1>1, <1>8, StepType DEF Acknowledge, TypeOK, Tx
    <2> QED
      BY <1>8, <2>1 DEF Acknowledge, TypeOK
  <1>9. ASSUME NEW w \in Run, Crash(w) PROVE TypeOK'
    <2>1. tx' \in [Tx -> Workspace]
      BY <1>1, <1>9, StepType DEF Crash, TypeOK, Tx
    <2>2. queue' \in [Req -> Nat]
      BY <1>9, QueueType DEF Crash
    <2> QED
      BY <1>9, <2>1, <2>2 DEF Crash, TypeOK
  <1>10. CASE UNCHANGED vars
    BY <1>10 DEF vars, TypeOK
  <1> QED
    BY <1>2, <1>3, <1>4, <1>5, <1>6, <1>7, <1>8, <1>9, <1>10 DEF Next

\* Every variable keeps its type: no handler or task stores a status, a mark or
\* a reference outside the ranges of the models.
THEOREM TypeCorrect == Spec => []TypeOK
  BY TypeInit, TypeNext, PTL DEF Spec

-----------------------------------------------------------------------------
(***************************************************************************)
(* No item of a quiz loses its result, and a graded session has all of     *)
(* them, however requests and tasks interleave, fail and crash: theorems   *)
(* for any number of requests, executions and items, provided the AI never *)
(* answers a review with an error type outside ErrorType ("verdict").      *)
(*                                                                         *)
(* The invariant is inductive with PlansAreSafe, which says of every actor *)
(* that what it has read long ago is still good enough for what it is      *)
(* about to commit.  It rests on one fact that all writers of answer_logs  *)
(* share: an item that has a result keeps one (HasResult is stable).       *)
(***************************************************************************)

IInv == TypeOK /\ AnsweredKeepsResult /\ GradedIsComplete /\ PlansAreSafe

HasResult(lg, i) == \E l \in LogId : lg[l].st = "active" /\ l[2] = i
IsAnswered(lg, i) == \E l \in LogId : lg[l].st # "none" /\ l[2] = i

\* Every item that has a result keeps one.
Keeping == \A i \in Item : HasResult(log, i) => HasResult(log', i)

LEMMA HasResultDef ==
  \A i \in Item : /\ (ActiveOf(i) # {}) <=> HasResult(log, i)
                  /\ (ActiveOf(i) # {})' <=> HasResult(log', i)
  BY DEF ActiveOf, ActiveIn, HasResult

LEMMA CompleteDef ==
  /\ Complete <=> \A i \in Item : HasResult(log, i)
  /\ Complete' <=> \A i \in Item : HasResult(log', i)
  /\ AnsweredKeepsResult <=> \A i \in Item : IsAnswered(log, i) => HasResult(log, i)
  /\ AnsweredKeepsResult' <=> \A i \in Item : IsAnswered(log', i) => HasResult(log', i)
  BY HasResultDef DEF Complete, AnsweredKeepsResult, IsAnswered

\* Recording results for x.items, and clearing only results of those items,
\* leaves every item that had or gets a result with one.
LEMMA RecordedKeeps ==
  ASSUME TypeOK, AnsweredKeepsResult, NEW t \in Tx, NEW x \in Workspace,
         \A l \in x.old : l[2] \in x.items,
         log' = Recorded(t, x)
  PROVE  /\ Keeping /\ AnsweredKeepsResult'
         /\ \A i \in x.items : HasResult(log', i)
  <1>1. ASSUME NEW i \in x.items PROVE HasResult(log', i)
    <2>1. i \in Item /\ <<t, i>> \in LogId
      BY DEF Workspace, LogId
    <2>2. log'[<<t, i>>].st = "active"
      BY <2>1 DEF Recorded
    <2> QED
      BY <2>1, <2>2 DEF HasResult
  <1>2. ASSUME NEW l \in LogId, l[2] \notin x.items PROVE log'[l] = log[l]
    BY <1>2 DEF Recorded
  <1>3. ASSUME NEW i \in Item, i \notin x.items
        PROVE  /\ HasResult(log', i) <=> HasResult(log, i)
               /\ IsAnswered(log', i) <=> IsAnswered(log, i)
    BY <1>2, <1>3 DEF HasResult, IsAnswered
  <1> QED
    BY <1>1, <1>3, CompleteDef DEF Keeping

\* The same when no row changes its is_active_result.
LEMMA SameStates ==
  ASSUME AnsweredKeepsResult, \A l \in LogId : log'[l].st = log[l].st
  PROVE  Keeping /\ AnsweredKeepsResult'
  <1>1. \A i \in Item : /\ HasResult(log', i) <=> HasResult(log, i)
                        /\ IsAnswered(log', i) <=> IsAnswered(log, i)
    BY DEF HasResult, IsAnswered
  <1> QED
    BY <1>1, CompleteDef DEF Keeping

LEMMA KeepingComplete == Keeping /\ Complete => Complete'
  BY CompleteDef DEF Keeping

\* The plan of an actor that does not move stays safe while results are kept.
LEMMA OthersStaySafe ==
  ASSUME NEW u \in Tx, SafePlan(u), Keeping, tx'[u] = tx[u],
         u \in Req => call'[u] = call[u]
  PROVE  SafePlan(u)'
  <1>1. Recording(u)' <=> Recording(u)
    BY DEF Recording, At
  <1>2. Closing(u)' <=> Closing(u)
    BY DEF Closing, At
  <1>3. \A i \in Item : ActiveOf(i) # {} => (ActiveOf(i) # {})'
    BY HasResultDef DEF Keeping
  <1> QED
    BY <1>1, <1>2, <1>3, KeepingComplete DEF SafePlan, At

\* What is left to prove of a step in which t moves to the workspace x.
LEMMA StepKeepsIInv ==
  ASSUME IInv, TypeOK', NEW t \in Tx, NEW x, Step(t, x),
         \A u \in Req \ {t} : call'[u] = call[u],
         Keeping, AnsweredKeepsResult', SafePlan(t)',
         status' \in {"graded", "objection_pending"} => status' = status \/ Complete'
  PROVE  IInv'
  <1>1. \A u \in Tx \ {t} : tx'[u] = tx[u]
    BY DEF Step, IInv, TypeOK
  <1>2. \A u \in Tx : SafePlan(u)'
    BY <1>1, OthersStaySafe DEF IInv, PlansAreSafe
  <1>3. GradedIsComplete'
    BY KeepingComplete DEF GradedIsComplete, IInv
  <1> QED
    BY <1>2, <1>3 DEF IInv, PlansAreSafe

\* An actor that has committed, or has not read anything, has a safe plan.
LEMMA Resting ==
  ASSUME IInv, NEW t \in Tx, NEW pc \in {"done", "unacked", "dispatch", "started"},
         Step(t, [Idle EXCEPT !.pc = pc])
  PROVE  SafePlan(t)'
  <1>1. tx'[t].pc = pc /\ tx'[t].seen = "draft"
    BY DEF Step, Idle, IInv, TypeOK
  <1>2. ~Recording(t)' /\ ~Closing(t)' /\ ~At(t, "grading")'
    BY <1>1 DEF Recording, Closing, At
  <1> QED
    BY <1>1, <1>2 DEF SafePlan

-----------------------------------------------------------------------------
\* A step that leaves the logs and commits nothing but a move of t to x.
LEMMA QuietStep ==
  ASSUME IInv, TypeOK', NEW t \in Tx, NEW x, Step(t, x),
         \A u \in Req \ {t} : call'[u] = call[u],
         log' = log, SafePlan(t)',
         status' \in {"graded", "objection_pending"} => status' = status \/ Complete
  PROVE  IInv'
  <1>1. Keeping /\ AnsweredKeepsResult'
    BY SameStates DEF IInv
  <1> QED
    BY <1>1, KeepingComplete, StepKeepsIInv

\* A step that commits what t has recorded: t is then at rest.
LEMMA RecordingStep ==
  ASSUME IInv, TypeOK', NEW t \in Tx, Recording(t), log' = Recorded(t, tx[t]),
         NEW pc \in {"done", "unacked", "dispatch", "started"},
         Step(t, [Idle EXCEPT !.pc = pc]), call' = call,
         status' \in {"graded", "objection_pending"} => status' = status \/ Closing(t)
  PROVE  IInv'
  <1>1. tx[t] \in Workspace /\ SafePlan(t)
    BY DEF IInv, TypeOK, PlansAreSafe
  <1>2. /\ Keeping /\ AnsweredKeepsResult'
        /\ \A i \in tx[t].items : HasResult(log', i)
    BY <1>1, RecordedKeeps DEF IInv, SafePlan
  <1>3. Closing(t) => Complete'
    BY <1>1, <1>2, HasResultDef, CompleteDef DEF SafePlan, Keeping
  <1> QED
    BY <1>2, <1>3, Resting, StepKeepsIInv

LEMMA FinishedIsRest == Finished = [Idle EXCEPT !.pc = "done"]
  BY DEF Finished

LEMMA AnsweringKeepsIInv ==
  ASSUME IInv, TypeOK', NEW r \in Req, Answering(r)
  PROVE  IInv'
  <1> USE DEF rows
  <1>0. /\ r \in Tx /\ r \notin Run /\ SafePlan(r) /\ TypeOK /\ 1 \in Item
        /\ tx \in [Tx -> Workspace] /\ call[r].item \in Item
    BY StoreAssumption DEF Tx, IInv, PlansAreSafe, TypeOK, Item
  <1>1. CASE BeginSubmitAnswer(r)
    <2>1. PICK i \in Item, a \in Answer :
            /\ Calling(r, "submit_answer", i, NoReq)
            /\ Step(r, [Idle EXCEPT !.pc = "grading", !.seen = status, !.items = {i},
                                    !.answers[i] = a])
      BY <1>1 DEF BeginSubmitAnswer
    <2>2. /\ tx'[r].pc = "grading" /\ tx'[r].items = {i} /\ tx'[r].seen = status
          /\ call'[r].item = i /\ call'[r].name = "submit_answer"
          /\ \A u \in Req \ {r} : call'[u] = call[u]
      BY <1>0, <2>1 DEF Step, Idle, Calling, TypeOK
    <2>3. SafePlan(r)'
      BY <1>0, <1>1, <2>2 DEF SafePlan, Recording, Closing, At, BeginSubmitAnswer, Answerable
    <2> QED
      BY <1>0, <1>1, <2>1, <2>2, <2>3, QuietStep DEF BeginSubmitAnswer
  <1>2. CASE GradeSubmittedAnswer(r)
    <2>1. PICK m \in [Item -> Mark] :
            Step(r, [tx[r] EXCEPT !.pc = "writing", !.marks = m, !.old = Previous(call[r].item)])
      BY <1>2 DEF GradeSubmittedAnswer, GradeSingleAnswer
    <2>2. /\ tx'[r].pc = "writing" /\ tx'[r].items = tx[r].items /\ tx'[r].seen = tx[r].seen
          /\ tx'[r].old = ActiveOf(call[r].item)
      BY <1>0, <2>1 DEF Step, Workspace, Previous
    <2>3. call'[r] = call[r] /\ call[r].name = "submit_answer" /\ call[r].item \in tx[r].items
      BY <1>0, <1>2 DEF GradeSubmittedAnswer, SafePlan
    <2>4. \A l \in tx'[r].old : l[2] \in tx'[r].items
      BY <2>2, <2>3 DEF ActiveOf
    <2>5. Complete' <=> Complete
      BY <1>2, CompleteDef DEF GradeSubmittedAnswer
    <2>6. SafePlan(r)'
      BY <1>0, <2>2, <2>3, <2>4, <2>5 DEF SafePlan, Recording, Closing, At
    <2> QED
      BY <1>0, <1>2, <2>1, <2>6, QuietStep DEF GradeSubmittedAnswer
  <1>3. CASE CommitSubmitAnswer(r)
    <2>1. Recording(r)
      BY <1>3 DEF CommitSubmitAnswer, Recording
    <2> QED
      BY <1>0, <1>3, <2>1, FinishedIsRest, RecordingStep DEF CommitSubmitAnswer
  <1>4. CASE BeginComplete(r)
    <2>1. Calling(r, "complete", 1, NoReq)
          /\ Step(r, [Idle EXCEPT !.pc = "writing", !.seen = status, !.items = Unanswered])
      BY <1>4 DEF BeginComplete
    <2>2. /\ tx'[r].pc = "writing" /\ tx'[r].items = Unanswered /\ tx'[r].old = {}
          /\ tx'[r].seen = status /\ call'[r].name = "complete"
          /\ \A u \in Req \ {r} : call'[u] = call[u]
      BY <1>0, <2>1 DEF Step, Idle, Calling, TypeOK
    <2>3. \A i \in Item : i \in tx'[r].items \/ (ActiveOf(i) # {})'
      BY <1>4, <2>2, HasResultDef DEF Unanswered, BeginComplete
    <2>4. SafePlan(r)'
      BY <1>0, <1>4, <2>2, <2>3 DEF SafePlan, Recording, Closing, At, BeginComplete, Answerable
    <2> QED
      BY <1>0, <1>4, <2>1, <2>2, <2>4, QuietStep DEF BeginComplete
  <1>5. CASE CommitComplete(r)
    <2>1. Recording(r) /\ Closing(r)
      BY <1>5 DEF CommitComplete, Recording, Closing
    <2> QED
      BY <1>0, <1>5, <2>1, FinishedIsRest, RecordingStep DEF CommitComplete
  <1>6. CASE BeginBatch(r)
    <2>1. PICK as \in [Item -> Answer \cup {Blank}] :
            /\ Calling(r, "batch", 1, NoReq)
            /\ Step(r, [Idle EXCEPT !.pc = "grading", !.seen = status, !.answers = as,
                                    !.items = BatchItems(as)])
      BY <1>6 DEF BeginBatch
    <2>2. /\ tx'[r].pc = "grading" /\ tx'[r].items = Item /\ tx'[r].seen = status
          /\ call'[r].name = "batch"
          /\ \A u \in Req \ {r} : call'[u] = call[u]
      BY <1>0, <2>1 DEF Step, Idle, Calling, TypeOK, BatchItems
    <2>3. SafePlan(r)'
      BY <1>0, <1>6, <2>2 DEF SafePlan, Recording, Closing, At, BeginBatch, Answerable
    <2> QED
      BY <1>0, <1>6, <2>1, <2>2, <2>3, QuietStep DEF BeginBatch
  <1>7. CASE GradeBatch(r)
    <2>1. PICK m \in [Item -> Mark] :
            Step(r, [tx[r] EXCEPT !.pc = "writing", !.marks = m, !.old = ActiveIn(log)])
      BY <1>7 DEF GradeBatch, GradeSingleAnswer
    <2>2. /\ tx'[r].pc = "writing" /\ tx'[r].items = tx[r].items /\ tx'[r].seen = tx[r].seen
          /\ tx'[r].old = ActiveIn(log)
      BY <1>0, <2>1 DEF Step, Workspace
    <2>3. call'[r] = call[r] /\ call[r].name = "batch" /\ tx[r].items = Item
      BY <1>0, <1>7 DEF GradeBatch, SafePlan
    <2>4. \A l \in tx'[r].old : l[2] \in tx'[r].items
      BY <2>2, <2>3 DEF ActiveIn, LogId
    <2>5. Complete' <=> Complete
      BY <1>7, CompleteDef DEF GradeBatch
    <2>6. SafePlan(r)'
      BY <1>0, <2>2, <2>3, <2>4, <2>5 DEF SafePlan, Recording, Closing, At
    <2> QED
      BY <1>0, <1>7, <2>1, <2>6, QuietStep DEF GradeBatch
  <1>8. CASE CommitBatch(r)
    <2>1. Recording(r) /\ Closing(r)
      BY <1>8 DEF CommitBatch, Recording, Closing, At
    <2> QED
      BY <1>0, <1>8, <2>1, FinishedIsRest, RecordingStep DEF CommitBatch
  <1> QED
    BY <1>1, <1>2, <1>3, <1>4, <1>5, <1>6, <1>7, <1>8 DEF Answering

\* A request that reads the session and will not write answer_logs.
LEMMA ReadingStep ==
  ASSUME IInv, TypeOK', NEW r \in Req, NEW x, Step(r, x),
         x.pc = "writing", x.seen = status,
         call'[r].name \notin {"submit_answer", "complete", "batch"},
         \A u \in Req \ {r} : call'[u] = call[u], UNCHANGED <<status, log>>
  PROVE  IInv'
  <1>1. r \in Tx /\ r \notin Run /\ tx'[r] = x
    BY StoreAssumption DEF Tx, Step, IInv, TypeOK
  <1>2. status \in {"graded", "objection_pending"} => Complete'
    BY CompleteDef DEF IInv, GradedIsComplete
  <1>3. SafePlan(r)'
    BY <1>1, <1>2 DEF SafePlan, Recording, Closing, At
  <1> QED
    BY <1>1, <1>3, QuietStep

LEMMA CallingFrame ==
  ASSUME TypeOK, NEW r \in Req, NEW name, NEW i, NEW q, Calling(r, name, i, q)
  PROVE  call'[r].name = name /\ \A u \in Req \ {r} : call'[u] = call[u]
  BY DEF Calling, TypeOK

LEMMA ExamRequestKeepsIInv ==
  ASSUME IInv, TypeOK', NEW r \in Req, ExamRequest(r)
  PROVE  IInv'
  <1> USE DEF rows
  <1>0. r \in Tx /\ TypeOK
    BY DEF Tx, IInv
  <1>1. CASE BeginSaveDraft(r)
    <2>1. PICK i \in Item, a \in Answer \cup {Blank} :
            /\ Calling(r, "save_draft", i, NoReq)
            /\ \E q \in IF DraftRows(i) = {} THEN {r} ELSE DraftRows(i) :
                 Step(r, [Idle EXCEPT !.pc = "writing", !.seen = status, !.answers[i] = a,
                                      !.row = IF draft[i][q] = a THEN NoReq ELSE q])
      BY <1>1 DEF BeginSaveDraft
    <2>2. PICK q :
            Step(r, [Idle EXCEPT !.pc = "writing", !.seen = status, !.answers[i] = a,
                                 !.row = IF draft[i][q] = a THEN NoReq ELSE q])
      BY <2>1
    <2> DEFINE x == [Idle EXCEPT !.pc = "writing", !.seen = status, !.answers[i] = a,
                                 !.row = IF draft[i][q] = a THEN NoReq ELSE q]
    <2>3. x.pc = "writing" /\ x.seen = status
      BY DEF Idle
    <2> QED
      BY <1>0, <1>1, <2>1, <2>2, <2>3, CallingFrame, ReadingStep, ZenonT(30) DEF BeginSaveDraft
  <1>2. CASE CommitSaveDraft(r)
    <2>1. SafePlan(r)'
      BY <1>0, <1>2, FinishedIsRest, Resting DEF CommitSaveDraft
    <2> QED
      BY <1>0, <1>2, <2>1, QuietStep DEF CommitSaveDraft
  <1>3. CASE BeginSubmitExam(r)
    <2> DEFINE x == [Idle EXCEPT !.pc = "writing", !.seen = status]
    <2>1. x.pc = "writing" /\ x.seen = status
      BY DEF Idle
    <2> QED
      BY <1>0, <1>3, <2>1, CallingFrame, ReadingStep DEF BeginSubmitExam
  <1>4. CASE CommitSubmitExam(r)
    <2>1. SafePlan(r)'
      BY <1>0, <1>4, Resting DEF CommitSubmitExam
    <2> QED
      BY <1>0, <1>4, <2>1, QuietStep DEF CommitSubmitExam
  <1> QED
    BY <1>1, <1>2, <1>3, <1>4 DEF ExamRequest

LEMMA ExamTaskKeepsIInv ==
  ASSUME IInv, TypeOK', NEW w \in Run, ExamTask(w)
  PROVE  IInv'
  <1> USE DEF rows
  <1>0. w \in Tx /\ w \notin Req /\ TypeOK
    BY StoreAssumption DEF Tx, IInv
  <1>1. CASE StartGradeExam(w)
    <2>1. tx'[w].pc = "grading" /\ tx'[w].seen = "draft"
      BY <1>0, <1>1 DEF StartGradeExam, Step, Idle, TypeOK
    <2>2. SafePlan(w)'
      BY <1>0, <2>1 DEF SafePlan, Recording, Closing, At
    <2> QED
      BY <1>0, <1>1, <2>2, QuietStep DEF StartGradeExam
  <1>2. CASE GradeSheet(w)
    <2> DEFINE as == [i \in Item |-> IF i \in Gradable THEN SheetAnswer(i) ELSE Blank]
               pc == IF Gradable = Item THEN "writing" ELSE "failing"
    <2>1. PICK m \in [Item -> Mark] :
            Step(w, [Idle EXCEPT !.pc = pc, !.items = Gradable, !.answers = as,
                                 !.marks = m, !.old = FormerResults])
      BY <1>2 DEF GradeSheet, GradeSingleAnswer
    <2> HIDE DEF as
    <2>2. /\ tx'[w].pc = pc /\ tx'[w].seen = "draft"
          /\ tx'[w].items = Gradable /\ tx'[w].old = FormerResults
      BY <1>0, <2>1 DEF Step, Idle, TypeOK
    <2>3. \A l \in tx'[w].old : l[2] \in tx'[w].items
      BY <2>2 DEF FormerResults
    <2>4. pc = "writing" => tx'[w].items = Item
      BY <2>2
    <2>5. SafePlan(w)'
      BY <1>0, <2>2, <2>3, <2>4 DEF SafePlan, Recording, Closing, At
    <2> QED
      BY <1>0, <1>2, <2>1, <2>5, QuietStep DEF GradeSheet
  <1>3. CASE CommitGradeExam(w)
    <2>1. Recording(w) /\ Closing(w)
      BY <1>3 DEF CommitGradeExam, RunAt, Recording, Closing, At
    <2> QED
      BY <1>0, <1>3, <2>1, RecordingStep DEF CommitGradeExam, Conclude
  <1>4. CASE FailGradeExam(w)
    <2>1. Recording(w)
      BY <1>4 DEF FailGradeExam, RunAt, Recording
    <2> QED
      BY <1>0, <1>4, <2>1, RecordingStep DEF FailGradeExam, Conclude, FailedGrading
  <1> QED
    BY <1>1, <1>2, <1>3, <1>4 DEF ExamTask

LEMMA ReviewRequestKeepsIInv ==
  ASSUME IInv, TypeOK', NEW r \in Req, ReviewRequest(r)
  PROVE  IInv'
  <1> USE DEF rows
  <1>0. r \in Tx /\ TypeOK
    BY DEF Tx, IInv
  <1>1. CASE BeginCreateObjection(r)
    <2>1. PICK l \in ActiveIn(log) :
            /\ Calling(r, "create_objection", l[2], NoReq)
            /\ Step(r, [Idle EXCEPT !.pc = "writing", !.seen = status, !.old = {l}])
            /\ UNCHANGED <<rows, queue, works, tally>>
      BY <1>1 DEF BeginCreateObjection
    <2> DEFINE x == [Idle EXCEPT !.pc = "writing", !.seen = status, !.old = {l}]
    <2>2. x.pc = "writing" /\ x.seen = status
      BY DEF Idle
    <2> QED
      BY <1>0, <2>1, <2>2, CallingFrame, ReadingStep
  <1>2. CASE CommitCreateObjection(r)
    <2>1. SafePlan(r)'
      BY <1>0, <1>2, Resting DEF CommitCreateObjection
    <2>2. tx[r].seen = "graded" => Complete
      BY <1>0 DEF IInv, PlansAreSafe, SafePlan
    <2> QED
      BY <1>0, <1>2, <2>1, <2>2, QuietStep DEF CommitCreateObjection
  <1>3. CASE RegradeItem(r)
    <2>1. PICK i \in Item : Calling(r, "regrade_item", i, NoReq)
      BY <1>3 DEF RegradeItem
    <2>2. SafePlan(r)'
      BY <1>0, <1>3, Resting DEF RegradeItem
    <2> QED
      BY <1>0, <1>3, <2>1, <2>2, CallingFrame, QuietStep DEF RegradeItem
  <1>4. CASE RetryJob(r)
    <2>1. PICK q \in Req :
            /\ Calling(r, "retry_job", 1, q)
            /\ Step(r, IF call[q].name \in Retryable THEN [Idle EXCEPT !.pc = "dispatch"]
                                                      ELSE Finished)
      BY <1>4 DEF RetryJob
    <2>2. SafePlan(r)'
      BY <1>0, <2>1, FinishedIsRest, Resting
    <2> QED
      BY <1>0, <1>4, <2>1, <2>2, CallingFrame, QuietStep DEF RetryJob
  <1>5. CASE CancelJob(r)
    <2>1. PICK q \in Req : Calling(r, "cancel_job", 1, q)
      BY <1>5 DEF CancelJob
    <2>2. SafePlan(r)'
      BY <1>0, <1>5, FinishedIsRest, Resting DEF CancelJob
    <2> QED
      BY <1>0, <1>5, <2>1, <2>2, CallingFrame, QuietStep DEF CancelJob
  <1> QED
    BY <1>1, <1>2, <1>3, <1>4, <1>5 DEF ReviewRequest

\* FailUpholding is the one writer that clears a result without another in its
\* place; it needs an error type outside the enum.
LEMMA ReviewTaskKeepsIInv ==
  ASSUME IInv, TypeOK', "verdict" \notin Faults, NEW w \in Run, ReviewTask(w)
  PROVE  IInv'
  <1> USE DEF rows
  <1>0. /\ w \in Tx /\ w \notin Req /\ TypeOK /\ SafePlan(w)
        /\ tx \in [Tx -> Workspace]
    BY StoreAssumption DEF Tx, IInv, PlansAreSafe, TypeOK
  <1>1. CASE UpholdObjection(w)
    <2>1. PICK l \in obj[works[w]].logs, m \in Mark :
            Step(w, [Replace(l, m) EXCEPT !.seen = status])
      BY <1>1 DEF UpholdObjection
    <2>2. /\ tx'[w].pc = "upholding" /\ tx'[w].seen = status
          /\ tx'[w].items = {l[2]} /\ tx'[w].old = {l}
      BY <1>0, <2>1 DEF Step, Replace, Idle
    <2>3. status \in {"graded", "objection_pending"} => Complete'
      BY <1>1, CompleteDef DEF IInv, GradedIsComplete, UpholdObjection
    <2>4. SafePlan(w)'
      BY <1>0, <2>2, <2>3 DEF SafePlan, Recording, Closing, At
    <2> QED
      BY <1>0, <1>1, <2>1, <2>4, QuietStep DEF UpholdObjection
  <1>2. CASE CommitUpheldObjection(w)
    <2>1. Recording(w)
      BY <1>2 DEF CommitUpheldObjection, RunAt, Recording
    <2>2. Step(w, [Idle EXCEPT !.pc = "unacked"])
      BY <1>2 DEF CommitUpheldObjection, Conclude
    <2> QED
      BY <1>0, <1>2, <2>1, <2>2, RecordingStep DEF CommitUpheldObjection
  <1>3. CASE DismissObjection(w)
    <2>1. tx'[w].pc = "restoring" /\ tx'[w].seen = status
      BY <1>0, <1>3 DEF DismissObjection, Step, Idle
    <2>2. status \in {"graded", "objection_pending"} => Complete'
      BY <1>3, CompleteDef DEF IInv, GradedIsComplete, DismissObjection
    <2>3. SafePlan(w)'
      BY <1>0, <2>1, <2>2 DEF SafePlan, Recording, Closing, At
    <2>4. \E x : Step(w, x)
      BY <1>3 DEF DismissObjection
    <2> QED
      BY <1>0, <1>3, <2>3, <2>4, QuietStep DEF DismissObjection
  <1>4. CASE CommitDismissedObjection(w)
    <2>1. Step(w, [Idle EXCEPT !.pc = "unacked"])
      BY <1>4 DEF CommitDismissedObjection, Conclude
    <2>2. SafePlan(w)'
      BY <1>0, <2>1, Resting
    <2>3. Restores(tx[w]) => Complete
      BY <1>0 DEF SafePlan, Restores
    <2> QED
      BY <1>0, <1>4, <2>1, <2>2, <2>3, QuietStep DEF CommitDismissedObjection
  <1>5. CASE FailReview(w)
    <2>1. SafePlan(w)'
      BY <1>0, <1>5, Resting DEF FailReview, Conclude
    <2> QED
      BY <1>0, <1>5, <2>1, QuietStep DEF FailReview, Conclude
  <1>6. CASE FailUpholding(w)
    BY <1>6 DEF FailUpholding
  <1>7. CASE ReadRegrade(w)
    <2>1. tx'[w].pc = "regrading" /\ tx'[w].seen = "draft"
      BY <1>0, <1>7 DEF ReadRegrade, Step, Idle
    <2>2. SafePlan(w)'
      BY <1>0, <2>1 DEF SafePlan, Recording, Closing, At
    <2> QED
      BY <1>0, <1>7, <2>2, QuietStep DEF ReadRegrade
  <1>8. CASE CommitRegrade(w)
    <2>1. PICK m : log' = Regraded(tx[w].old, m)
      BY <1>8 DEF CommitRegrade
    <2>2. ASSUME NEW l \in LogId PROVE log'[l].st = log[l].st
      <3>1. log[l] \in AnswerLog
        BY <1>0 DEF TypeOK
      <3> QED
        BY <2>1, <3>1 DEF Regraded, AnswerLog
    <2>3. Keeping /\ AnsweredKeepsResult'
      BY <2>2, SameStates DEF IInv
    <2>4. SafePlan(w)'
      BY <1>0, <1>8, Resting DEF CommitRegrade, Conclude
    <2> QED
      BY <1>0, <1>8, <2>3, <2>4, StepKeepsIInv DEF CommitRegrade, Conclude
  <1> QED
    BY <1>1, <1>2, <1>3, <1>4, <1>5, <1>6, <1>7, <1>8 DEF ReviewTask

-----------------------------------------------------------------------------
LEMMA IInvInit == Init => IInv
  <1> SUFFICES ASSUME Init PROVE IInv
    OBVIOUS
  <1>1. TypeOK
    BY TypeInit
  <1>2. AnsweredKeepsResult /\ GradedIsComplete
    BY DEF Init, AnsweredKeepsResult, GradedIsComplete
  <1>3. \A t \in Tx : SafePlan(t)
    BY DEF Init, Idle, SafePlan, Recording, Closing, At
  <1> QED
    BY <1>1, <1>2, <1>3 DEF IInv, PlansAreSafe

LEMMA IInvNext == ASSUME "verdict" \notin Faults PROVE IInv /\ [Next]_vars => IInv'
  <1> SUFFICES ASSUME IInv, [Next]_vars PROVE IInv'
    OBVIOUS
  <1> USE DEF rows
  <1>0. TypeOK /\ TypeOK'
    BY TypeNext DEF IInv
  <1>1. ASSUME NEW r \in Req, Request(r) PROVE IInv'
    BY <1>0, <1>1, AnsweringKeepsIInv, ExamRequestKeepsIInv, ReviewRequestKeepsIInv
       DEF Request
  <1>2. ASSUME NEW w \in Run, Task(w) PROVE IInv'
    BY <1>0, <1>2, ExamTaskKeepsIInv, ReviewTaskKeepsIInv DEF Task
  <1>3. ASSUME NEW t \in Tx, NEW pc \in {"done", "unacked", "dispatch", "started"},
               Step(t, [Idle EXCEPT !.pc = pc]), UNCHANGED <<status, log, call>>
        PROVE  IInv'
    BY <1>0, <1>3, Resting, QuietStep
  <1>4. ASSUME NEW r \in Req, Dispatch(r) \/ FailRequest(r) PROVE IInv'
    BY <1>3, <1>4, FinishedIsRest DEF Dispatch, FailRequest, Tx
  <1>5. ASSUME NEW w \in Run, TakeJob(w) \/ AbortTask(w) \/ Acknowledge(w) \/ Crash(w)
        PROVE  IInv'
    BY <1>3, <1>5, FinishedIsRest DEF TakeJob, AbortTask, Acknowledge, Crash, Tx
  <1>6. CASE UNCHANGED vars
    <2>1. Keeping /\ AnsweredKeepsResult'
      BY <1>6, SameStates DEF vars, IInv
    <2>2. \A t \in Tx : SafePlan(t)'
      BY <1>6, <2>1, OthersStaySafe DEF vars, IInv, PlansAreSafe
    <2> QED
      BY <1>0, <1>6, <2>1, <2>2, KeepingComplete
         DEF vars, IInv, PlansAreSafe, GradedIsComplete
  <1> QED
    BY <1>1, <1>2, <1>4, <1>5, <1>6 DEF Next

LEMMA IInvHolds == ASSUME "verdict" \notin Faults PROVE Spec => []IInv
  BY IInvInit, IInvNext, PTL DEF Spec

\* What any actor is about to commit is compatible with what was committed
\* since it read the session.
THEOREM PlansStaySafe == ASSUME "verdict" \notin Faults PROVE Spec => []PlansAreSafe
  <1>1. IInv => PlansAreSafe
    BY DEF IInv
  <1> QED
    BY <1>1, IInvHolds, PTL

\* No interleaving of answers, batches, gradings, regrades and objections, no
\* failure of them but a malformed AI verdict, leaves an answered item without
\* an active result.
THEOREM AnsweredItemsKeepResults ==
  ASSUME "verdict" \notin Faults PROVE Spec => []AnsweredKeepsResult
  <1>1. IInv => AnsweredKeepsResult
    BY DEF IInv
  <1> QED
    BY <1>1, IInvHolds, PTL

\* A session is shown as graded, also while objections are pending, only with a
\* result for each of its items.
THEOREM GradedSessionsAreComplete ==
  ASSUME "verdict" \notin Faults PROVE Spec => []GradedIsComplete
  <1>1. IInv => GradedIsComplete
    BY DEF IInv
  <1> QED
    BY <1>1, IInvHolds, PTL
==============================================================================

-------------------------- MODULE QuizTotalsProofs --------------------------
(***************************************************************************)
(* Results count once and the stored totals are those of the results.      *)
(*                                                                         *)
(* First for any way to ensure that one actor at a time is about to write  *)
(* results (OneWriter): what it has read is then still the state when it   *)
(* commits.  OneWriter and the two other facts the argument needs follow   *)
(* from how the system is used: by one client that waits for its requests, *)
(* or by any number of tabs of an exam without objections; in both cases   *)
(* with one worker.                                                        *)
(***************************************************************************)
EXTENDS QuizJobsProofs

AnswerCalls == {"submit_answer", "complete", "batch"}

\* t is going to insert results or to change their marks.
Writing(t) ==
    \/ t \in Req /\ tx[t].pc \in {"grading", "writing"} /\ call[t].name \in AnswerCalls
    \/ t \in Run /\ tx[t].pc \in {"grading", "writing", "failing", "upholding"}
    \/ t \in Run /\ At(t, "regrading") /\ tx[t].old # {}

OneWriter == \A t, u \in Tx : Writing(t) /\ Writing(u) => t = u

\* An item has one active result, and who is about to insert another has
\* loaded that one.
SoleResults ==
    /\ \A k, l \in ActiveIn(log) : k[2] = l[2] => k = l
    /\ \A t \in Tx : Recording(t) =>
          \A l \in ActiveIn(log) : l[2] \in tx[t].items => l \in tx[t].old
    /\ \A r \in Req : call[r].name = "submit_answer" /\ At(r, "grading") =>
          tx[r].items = {call[r].item}

\* t is going to store the totals it has computed, or will compute.
Counting(t) ==
    \/ t \in Req /\ tx[t].pc \in {"grading", "writing"} /\ call[t].name \in {"complete", "batch"}
    \/ t \in Run /\ tx[t].pc \in {"grading", "writing", "upholding"}
    \/ t \in Run /\ At(t, "regrading") /\ tx[t].old # {}

Counted(t) == Counting(t) /\ tx[t].pc \in {"writing", "upholding"}

\* The totals that an actor has loaded are the stored ones, and those it has
\* computed are the totals of the results it leaves.
SoleTotals ==
    /\ \A t \in Tx : DOMAIN tally[t] = {"was", "new"}
    /\ \A t \in Tx : Counting(t) => tally[t].was = total
    /\ \A t \in Tx : Counted(t) =>
          tally[t].new = RecalculateSessionTotals(Recorded(t, tx[t]))
    /\ TotalsAgree

-----------------------------------------------------------------------------
\* The job of request q has still to be run to its end.
Ongoing(q) ==
    \/ At(q, "dispatch") \/ queue[q] > 0
    \/ \E w \in Run : works[w] = q /\ tx[w].pc \in {"started"} \cup TaskLabels

\* An exam that waits to be graded has no results yet.
Ungraded ==
    \A q \in Req : call[q].name = "submit_exam" /\ Ongoing(q) =>
        status = "grading" /\ Existing = {}

\* Objections that are still to be decided are to different active results, and
\* so is one that is about to be filed; who has seen published results can
\* rely on them to be published.
Disputes ==
    /\ \A q \in Req : call[q].name = "create_objection" /\ Ongoing(q) =>
          /\ obj[q].logs \subseteq ActiveIn(log)
          /\ \A o \in Req : o # q /\ call[o].name = "create_objection" /\ Ongoing(o) =>
                obj[q].logs \cap obj[o].logs = {}
    /\ \A r \in Req : call[r].name = "create_objection" /\ At(r, "writing") =>
          /\ tx[r].old \subseteq ActiveIn(log)
          /\ \A q \in Req : q # r /\ call[q].name = "create_objection" /\ Ongoing(q) =>
                obj[q].logs \cap tx[r].old = {}
    /\ \A w \in Run : At(w, "upholding") => tx[w].old \subseteq obj[works[w]].logs
    /\ \A t \in Tx : tx[t].seen \in Published => status \in Published

-----------------------------------------------------------------------------
\* The rows that are active after t has inserted its results.
LEMMA RecordedActive ==
  ASSUME NEW t \in Tx, tx[t] \in Workspace
  PROVE  \A l \in LogId : l \in ActiveIn(Recorded(t, tx[t])) <=>
            \/ l[1] = t /\ l[2] \in tx[t].items
            \/ l \in ActiveIn(log) /\ l \notin tx[t].old
  <1> SUFFICES ASSUME NEW l \in LogId
               PROVE  Recorded(t, tx[t])[l].st = "active" <=>
                        \/ l[1] = t /\ l[2] \in tx[t].items
                        \/ log[l].st = "active" /\ l \notin tx[t].old
    BY DEF ActiveIn
  <1>1. CASE l[1] = t /\ l[2] \in tx[t].items
    BY <1>1 DEF Recorded
  <1>2. CASE ~(l[1] = t /\ l[2] \in tx[t].items) /\ l \in tx[t].old
    <2>1. Recorded(t, tx[t])[l] = [log[l] EXCEPT !.st = "inactive"]
      BY <1>2 DEF Recorded
    <2> QED
      BY <1>2, <2>1
  <1>3. CASE ~(l[1] = t /\ l[2] \in tx[t].items) /\ l \notin tx[t].old
    BY <1>3 DEF Recorded
  <1> QED
    BY <1>1, <1>2, <1>3

\* Only the insertion of results makes a log active.
LEMMA ActiveSteps ==
  ASSUME TypeOK, [Next]_vars
  PROVE  \/ ActiveIn(log') \subseteq ActiveIn(log)
         \/ \E t \in Tx : Inserts(t)
  <1>1. ASSUME NEW w \in Run, FailUpholding(w) PROVE ActiveIn(log') \subseteq ActiveIn(log)
    <2>1. log' = Recorded(w, [Idle EXCEPT !.old = obj[works[w]].logs])
      BY <1>1 DEF FailUpholding
    <2>2. ASSUME NEW l \in LogId, log'[l].st = "active" PROVE log[l].st = "active"
      <3>1. log'[l] = IF l \in obj[works[w]].logs THEN [log[l] EXCEPT !.st = "inactive"] ELSE log[l]
        BY <2>1 DEF Recorded, Idle
      <3> QED
        BY <2>2, <3>1 DEF TypeOK, AnswerLog
    <2> QED
      BY <2>2 DEF ActiveIn
  <1>2. ASSUME NEW w \in Run, CommitRegrade(w) PROVE ActiveIn(log') \subseteq ActiveIn(log)
    <2>1. PICK m : log' = Regraded(tx[w].old, m)
      BY <1>2 DEF CommitRegrade
    <2>2. ASSUME NEW l \in LogId PROVE log'[l].st = log[l].st
      <3>1. (\E k : log'[l] = [log[l] EXCEPT !.mark = k]) \/ log'[l] = log[l]
        BY <2>1 DEF Regraded
      <3>2. log[l] \in AnswerLog
        BY DEF TypeOK
      <3> QED
        BY <3>1, <3>2 DEF AnswerLog
    <2> QED
      BY <2>2 DEF ActiveIn
  <1> QED
    BY <1>1, <1>2, LogSteps

\* What an actor reads covers the results it will replace.
LEMMA CoveringReads ==
  ASSUME TypeOK, SoleResults, NEW t \in Tx, Recording(t)',
         (t \in Req /\ RequestPlan(t)) \/ (t \in Run /\ RunPlan(t)),
         t \in Run /\ UpholdObjection(t) => obj[works[t]].logs \subseteq ActiveIn(log)
  PROVE  \A l \in ActiveIn(log) : l[2] \in tx'[t].items => l \in tx'[t].old
  <1> USE DEF Step
  <1>0. Req \cap Run = {} /\ tx \in [Tx -> Workspace]
    BY StoreAssumption DEF TypeOK
  <1>1. CASE t \in Req /\ GradeSubmittedAnswer(t)
    <2>1. /\ tx'[t].items = tx[t].items /\ tx'[t].old = ActiveOf(call[t].item)
          /\ tx[t].items = {call[t].item}
      BY <1>0, <1>1 DEF GradeSubmittedAnswer, Workspace, Previous, SoleResults
    <2> QED
      BY <2>1 DEF ActiveOf
  <1>2. CASE t \in Req /\ BeginComplete(t)
    <2>1. tx'[t].items = Unanswered
      BY <1>0, <1>2 DEF BeginComplete, Idle
    <2> QED
      BY <2>1 DEF Unanswered, ActiveOf
  <1>3. CASE t \in Req /\ GradeBatch(t)
    <2>1. tx'[t].old = ActiveIn(log)
      BY <1>0, <1>3 DEF GradeBatch, Workspace
    <2> QED
      BY <2>1
  <1>4. CASE t \in Run /\ GradeSheet(t)
    <2> DEFINE as == [i \in Item |-> IF i \in Gradable THEN SheetAnswer(i) ELSE Blank]
               pc == IF Gradable = Item THEN "writing" ELSE "failing"
    <2>1. PICK m : Step(t, [Idle EXCEPT !.pc = pc, !.items = Gradable, !.answers = as,
                                        !.marks = m, !.old = FormerResults])
      BY <1>4 DEF GradeSheet
    <2> HIDE DEF as, pc
    <2>2. tx'[t].items = Gradable /\ tx'[t].old = FormerResults
      BY <1>0, <2>1 DEF Idle
    <2> QED
      BY <2>2 DEF FormerResults
  <1>5. CASE t \in Run /\ UpholdObjection(t)
    <2>1. PICK l \in obj[works[t]].logs, m \in Mark :
            Step(t, [Replace(l, m) EXCEPT !.seen = status])
      BY <1>5 DEF UpholdObjection
    <2>2. tx'[t].items = {l[2]} /\ tx'[t].old = {l}
      BY <1>0, <2>1 DEF Replace, Idle
    <2> QED
      BY <1>5, <2>2 DEF SoleResults
  <1>6. CASE t \in Req /\ (BeginSubmitAnswer(t) \/ BeginBatch(t) \/ BeginSaveDraft(t)
                             \/ BeginSubmitExam(t) \/ BeginCreateObjection(t))
    <2>1. ASSUME NEW name, NEW i, NEW q, Calling(t, name, i, q) PROVE call'[t].name = name
      BY <1>6, <2>1, NoneOpen DEF NewCall
    <2>2. CASE BeginSubmitAnswer(t)
      <3>1. tx'[t].pc = "grading"
        BY <1>0, <2>2 DEF BeginSubmitAnswer, Idle
      <3> QED
        BY <1>0, <1>6, <3>1 DEF Recording, At
    <2>3. CASE BeginBatch(t)
      <3>1. tx'[t].pc = "grading"
        BY <1>0, <2>3 DEF BeginBatch, Idle
      <3> QED
        BY <1>0, <1>6, <3>1 DEF Recording, At
    <2>4. CASE BeginSaveDraft(t) \/ BeginSubmitExam(t) \/ BeginCreateObjection(t)
      <3>1. call'[t].name \in {"save_draft", "submit_exam", "create_objection"}
        BY <2>1, <2>4 DEF BeginSaveDraft, BeginSubmitExam, BeginCreateObjection
      <3> QED
        BY <1>0, <1>6, <3>1 DEF Recording, At
    <2> QED
      BY <1>6, <2>2, <2>3, <2>4
  <1>7. CASE t \in Run /\ (StartGradeExam(t) \/ DismissObjection(t) \/ ReadRegrade(t))
    <2>1. tx'[t].pc \in {"grading", "restoring", "regrading"}
      <3>1. StartGradeExam(t) => tx'[t].pc = "grading"
        BY <1>0 DEF StartGradeExam, Idle
      <3>2. DismissObjection(t) => tx'[t].pc = "restoring"
        BY <1>0 DEF DismissObjection, Idle
      <3>3. ReadRegrade(t) => tx'[t].pc = "regrading"
        BY <1>0 DEF ReadRegrade, Idle
      <3> QED
        BY <1>7, <3>1, <3>2, <3>3
    <2> QED
      BY <1>0, <1>7, <2>1 DEF Recording
  <1> QED
    BY <1>1, <1>2, <1>3, <1>4, <1>5, <1>6, <1>7 DEF RequestPlan, RunPlan

\* An actor that commits results or marks was about to.
LEMMA InsertersWrite == ASSUME TypeOK, NEW t \in Tx PROVE /\ Recording(t) => Writing(t)
                                                          /\ Inserts(t) => Writing(t)
  BY Inserting DEF Recording, Writing, AnswerCalls, At

\* As long as one actor at a time is about to write, items have one result.
LEMMA SoleResultsNext ==
  ASSUME TypeOK, [Next]_vars, OneWriter, SoleResults,
         \A w \in Run : UpholdObjection(w) => obj[works[w]].logs \subseteq ActiveIn(log)
  PROVE  SoleResults'
  <1>0. tx \in [Tx -> Workspace] /\ Req \subseteq Tx /\ Run \subseteq Tx /\ Req \cap Run = {}
    BY StoreAssumption DEF TypeOK, Tx
  <1>1. ASSUME NEW k \in ActiveIn(log'), NEW l \in ActiveIn(log'), k[2] = l[2] PROVE k = l
    <2>1. CASE ActiveIn(log') \subseteq ActiveIn(log)
      BY <1>1, <2>1 DEF SoleResults
    <2>2. ASSUME NEW t \in Tx, Inserts(t) PROVE k = l
      <3>1. log' = Recorded(t, tx[t]) /\ Recording(t)
        BY <2>2, Inserting
      <3>2. k \in LogId /\ l \in LogId /\ k = <<k[1], k[2]>> /\ l = <<l[1], l[2]>>
        BY DEF ActiveIn, LogId
      <3>3. /\ (k[1] = t /\ k[2] \in tx[t].items) \/ (k \in ActiveIn(log) /\ k \notin tx[t].old)
            /\ (l[1] = t /\ l[2] \in tx[t].items) \/ (l \in ActiveIn(log) /\ l \notin tx[t].old)
        BY <1>0, <1>1, <3>1, <3>2, RecordedActive
      <3>4. \A o \in ActiveIn(log) : o[2] \in tx[t].items => o \in tx[t].old
        BY <3>1 DEF SoleResults
      <3>5. k \in ActiveIn(log) /\ l \in ActiveIn(log) => k = l
        BY <1>1 DEF SoleResults
      <3> QED
        BY <1>1, <3>2, <3>3, <3>4, <3>5
    <2> QED
      BY <2>1, <2>2, ActiveSteps
  <1>2. ASSUME NEW t \in Tx, Recording(t)', NEW l \in ActiveIn(log'), l[2] \in tx'[t].items
        PROVE  l \in tx'[t].old
    <2>1. CASE Rests(t)
      BY <1>0, <1>2, <2>1 DEF Rests, Recording, At, Idle
    <2>2. CASE tx'[t] = tx[t] /\ (t \in Req => call'[t] = call[t])
      <3>1. Recording(t)
        BY <1>2, <2>2 DEF Recording, At
      <3>2. ASSUME NEW u \in Tx, Inserts(u) PROVE FALSE
        <4>1. u = t
          BY <3>1, <3>2, InsertersWrite DEF OneWriter
        <4>2. tx'[u].pc \in {"done", "unacked"}
          BY <3>2, Inserting DEF Moves
        <4> QED
          BY <1>0, <1>2, <4>1, <4>2 DEF Recording, At
      <3>3. l \in ActiveIn(log)
        BY <1>2, <3>2, ActiveSteps
      <3> QED
        BY <1>2, <2>2, <3>1, <3>3 DEF SoleResults
    <2>3. CASE (t \in Req /\ RequestPlan(t)) \/ (t \in Run /\ RunPlan(t))
      <3>1. log' = log
        <4>1. CASE t \in Req /\ RequestPlan(t)
          BY <4>1 DEF rows, RequestPlan, BeginSubmitAnswer, GradeSubmittedAnswer, BeginComplete,
             BeginBatch, GradeBatch, BeginSaveDraft, BeginSubmitExam, BeginCreateObjection
        <4>2. CASE t \in Run /\ RunPlan(t)
          BY <4>2 DEF rows, RunPlan, StartGradeExam, GradeSheet, UpholdObjection,
             DismissObjection, ReadRegrade
        <4> QED
          BY <2>3, <4>1, <4>2
      <3> QED
        BY <1>2, <2>3, <3>1, CoveringReads
    <2> QED
      BY <2>1, <2>2, <2>3, Reads
  <1>3. ASSUME NEW r \in Req, call'[r].name = "submit_answer", tx'[r].pc = "grading"
        PROVE  tx'[r].items = {call'[r].item}
    <2>1. CASE Rests(r)
      BY <1>3, <2>1 DEF Rests, Idle
    <2>2. CASE tx'[r] = tx[r] /\ call'[r] = call[r]
      BY <1>3, <2>2 DEF SoleResults, At
    <2>3. CASE RequestPlan(r)
      <3>1. ASSUME NEW name, NEW i, NEW q, Calling(r, name, i, q)
            PROVE  call'[r].name = name /\ call'[r].item = i
        BY <3>1 DEF Calling, TypeOK
      <3>2. CASE BeginSubmitAnswer(r)
        <4>1. PICK i \in Item, a \in Answer :
                /\ Calling(r, "submit_answer", i, NoReq)
                /\ Step(r, [Idle EXCEPT !.pc = "grading", !.seen = status, !.items = {i},
                                        !.answers[i] = a])
          BY <3>2 DEF BeginSubmitAnswer
        <4>2. tx'[r].items = {i}
          BY <1>0, <4>1 DEF Step, Idle
        <4> QED
          BY <3>1, <4>1, <4>2
      <3>3. CASE BeginComplete(r) \/ BeginBatch(r) \/ BeginSaveDraft(r) \/ BeginSubmitExam(r)
                 \/ BeginCreateObjection(r)
        <4>1. call'[r].name # "submit_answer"
          BY <3>1, <3>3 DEF BeginComplete, BeginBatch, BeginSaveDraft, BeginSubmitExam,
             BeginCreateObjection
        <4> QED
          BY <1>3, <4>1
      <3>4. CASE GradeSubmittedAnswer(r)
        <4>1. tx'[r].pc = "writing"
          BY <1>0, <3>4 DEF GradeSubmittedAnswer, Step, Workspace
        <4> QED
          BY <1>3, <4>1
      <3>5. CASE GradeBatch(r)
        BY <1>3, <3>5 DEF GradeBatch
      <3> QED
        BY <2>3, <3>2, <3>3, <3>4, <3>5 DEF RequestPlan
    <2>4. r \in Tx /\ ~(r \in Run)
      BY <1>0
    <2> QED
      BY <2>1, <2>2, <2>3, <2>4, Reads
  <1>4. ActiveIn(log)' = ActiveIn(log')
    BY DEF ActiveIn
  <1> QED
    BY <1>1, <1>2, <1>3, <1>4 DEF SoleResults, At

LEMMA SoleResultsCount == TypeOK /\ SoleResults => OneActiveResult
  <1> SUFFICES ASSUME TypeOK, SoleResults, NEW i \in Item PROVE Cardinality(ActiveOf(i)) <= 1
    BY DEF OneActiveResult
  <1>1. CASE ActiveOf(i) = {}
    BY <1>1, FS_EmptySet
  <1>2. ASSUME NEW l \in ActiveOf(i) PROVE Cardinality(ActiveOf(i)) <= 1
    <2>1. ActiveOf(i) = {l}
      BY DEF ActiveOf, SoleResults
    <2>2. Cardinality({l}) = 1
      BY FS_Singleton
    <2> QED
      BY <2>1, <2>2
  <1> QED
    BY <1>1, <1>2

-----------------------------------------------------------------------------
\* What is stored when the loaded totals were the stored ones.
LEMMA StoredTotals ==
  ASSUME NEW lg, NEW y, y.was = total, y.new = RecalculateSessionTotals(lg)
  PROVE  Stored(y) = RecalculateSessionTotals(lg)
  <1> DEFINE new == RecalculateSessionTotals(lg)
  <1>1. \E a, b : new = [score |-> a, max |-> b]
    BY DEF RecalculateSessionTotals
  <1> HIDE DEF new
  <1>2. PICK a, b : new = [score |-> a, max |-> b]
    BY <1>1
  <1>3. Stored(y) = [c \in {"score", "max"} |-> new[c]]
    BY DEF Stored, new
  <1> QED
    BY <1>2, <1>3 DEF new

LEMMA TallyShape ==
  ASSUME TypeOK, [Next]_vars, \A t \in Tx : DOMAIN tally[t] = {"was", "new"}
  PROVE  \A t \in Tx : DOMAIN tally'[t] = {"was", "new"}
  <1> USE DEF rows, NoTally
  <1>0. Req \subseteq Tx /\ Run \subseteq Tx /\ DOMAIN tally = Tx
    BY DEF TypeOK, Tx
  <1>1. ASSUME NEW r \in Req, RequestStep(r) PROVE DOMAIN tally'[r] = {"was", "new"}
    <2>1. CASE Answering(r)
      BY <1>0, <2>1 DEF Answering, BeginSubmitAnswer, GradeSubmittedAnswer, CommitSubmitAnswer,
         BeginComplete, CommitComplete, BeginBatch, GradeBatch, CommitBatch
    <2>2. CASE ExamRequest(r)
      BY <1>0, <2>2 DEF ExamRequest, BeginSaveDraft, CommitSaveDraft, BeginSubmitExam,
         CommitSubmitExam
    <2>3. CASE ReviewRequest(r)
      BY <1>0, <2>3 DEF ReviewRequest, BeginCreateObjection, CommitCreateObjection, RegradeItem,
         RetryJob, CancelJob
    <2>4. CASE Dispatch(r) \/ FailRequest(r)
      BY <1>0, <2>4 DEF Dispatch, FailRequest
    <2> QED
      BY <1>1, <2>1, <2>2, <2>3, <2>4 DEF RequestStep, Request
  <1>2. ASSUME NEW w \in Run, RunStep(w) PROVE DOMAIN tally'[w] = {"was", "new"}
    <2>1. CASE ExamTask(w)
      BY <1>0, <2>1 DEF ExamTask, StartGradeExam, GradeSheet, CommitGradeExam, FailGradeExam
    <2>2. CASE ReviewTask(w)
      BY <1>0, <2>2 DEF ReviewTask, UpholdObjection, CommitUpheldObjection, DismissObjection,
         CommitDismissedObjection, FailReview, FailUpholding, ReadRegrade, CommitRegrade
    <2>3. CASE TakeJob(w) \/ AbortTask(w) \/ Acknowledge(w) \/ Crash(w)
      BY <1>0, <2>3 DEF TakeJob, AbortTask, Acknowledge, Crash
    <2> QED
      BY <1>2, <2>1, <2>2, <2>3 DEF RunStep, Task
  <1>3. UNCHANGED vars => tally' = tally
    BY DEF vars
  <1>4. ASSUME NEW t \in Tx PROVE DOMAIN tally'[t] = {"was", "new"}
    BY <1>1, <1>2, <1>3, Steps, RequestFrame, RunFrame DEF Frame
  <1> QED
    BY <1>4

\* t publishes the totals it has computed.
Closes(t) == \/ t \in Req /\ (CommitComplete(t) \/ CommitBatch(t))
             \/ t \in Run /\ (CommitGradeExam(t) \/ CommitUpheldObjection(t))

LEMMA ClosingTotals ==
  ASSUME TypeOK, SoleTotals, NEW t \in Tx, Closes(t)
  PROVE  total' = RecalculateSessionTotals(log')
  <1>1. Counting(t) /\ Counted(t)
    BY DEF Closes, CommitComplete, CommitBatch, CommitGradeExam, CommitUpheldObjection,
       Counting, Counted, RunAt, At
  <1>2. log' = Recorded(t, tx[t]) /\ total' = Stored(tally[t])
    BY DEF Closes, CommitComplete, CommitBatch, CommitGradeExam, CommitUpheldObjection
  <1> QED
    BY <1>1, <1>2, StoredTotals DEF SoleTotals

\* The steps that neither publish totals nor change what they are of.
LEMMA QuietTotals ==
  ASSUME TypeOK, [Next]_vars, \A t \in Tx : ~Closes(t) /\ ~Inserts(t),
         \A w \in Run : ~FailUpholding(w) /\ ~CommitRegrade(w)
  PROVE  UNCHANGED <<log, total>>
  <1>1. log' = log
    BY LogSteps
  <1>2. ASSUME NEW r \in Req, RequestStep(r) PROVE total' = total
    <2>1. CASE RequestCommit(r)
      BY <2>1 DEF RequestCommit, Answers, Inserts, Tx, CommitSaveDraft, CommitSubmitExam,
         CommitCreateObjection
    <2> QED
      BY <1>2, <2>1, RequestWrites
  <1>3. ASSUME NEW w \in Run, RunStep(w) PROVE total' = total
    <2>1. CASE RunCommit(w)
      BY <2>1 DEF RunCommit, Marks, Inserts, Tx, StartGradeExam, CommitDismissedObjection
    <2> QED
      BY <1>3, <2>1, RunWrites
  <1>4. UNCHANGED vars => total' = total
    BY DEF vars, rows
  <1> QED
    BY <1>1, <1>2, <1>3, <1>4, Steps

\* A regrade stores the totals of the marks it has changed, if any.
LEMMA RegradeTotals ==
  ASSUME TypeOK, SoleTotals, NEW w \in Run, CommitRegrade(w)
  PROVE  IF tx[w].old = {} THEN UNCHANGED <<log, total>>
                           ELSE Writing(w) /\ total' = RecalculateSessionTotals(log')
  <1>1. PICK m \in [tx[w].old -> Mark] :
          /\ log' = Regraded(tx[w].old, m)
          /\ total' = IF tx[w].old = {} THEN total
                      ELSE Stored([was |-> tally[w].was,
                                   new |-> RecalculateSessionTotals(Regraded(tx[w].old, m))])
    BY DEF CommitRegrade
  <1>2. CASE tx[w].old = {}
    <2>1. Regraded({}, m) = log
      BY DEF Regraded, TypeOK
    <2> QED
      BY <1>1, <1>2, <2>1
  <1>3. CASE tx[w].old # {}
    <2>1. Counting(w) /\ Writing(w) /\ w \in Tx
      BY <1>3 DEF Counting, Writing, CommitRegrade, RunAt, At, Tx
    <2>2. tally[w].was = total
      BY <2>1 DEF SoleTotals
    <2> DEFINE y == [was |-> tally[w].was, new |-> RecalculateSessionTotals(Regraded(tx[w].old, m))]
    <2>3. y.was = total /\ y.new = RecalculateSessionTotals(Regraded(tx[w].old, m))
      BY <2>2
    <2>4. total' = Stored(y)
      BY <1>1, <1>3
    <2> HIDE DEF y
    <2>5. Stored(y) = RecalculateSessionTotals(Regraded(tx[w].old, m))
      BY <2>3, StoredTotals
    <2> QED
      BY <1>1, <1>3, <2>1, <2>4, <2>5
  <1> QED
    BY <1>2, <1>3

\* What is recorded depends on these columns of the workspace.
LEMMA RecordedFields ==
  ASSUME NEW t, NEW x, NEW y, x.items = y.items, x.answers = y.answers, x.marks = y.marks,
         x.old = y.old
  PROVE  Recorded(t, x) = Recorded(t, y)
  BY DEF Recorded

\* Who plans a commit loads the stored totals and computes those of its plan.
LEMMA CountingReads ==
  ASSUME TypeOK, SoleTotals, NEW t \in Tx,
         (t \in Req /\ RequestPlan(t)) \/ (t \in Run /\ RunPlan(t))
  PROVE  /\ UNCHANGED <<log, total>>
         /\ Counting(t)' => tally'[t].was = total
         /\ Counted(t)' => tally'[t].new = RecalculateSessionTotals(Recorded(t, tx'[t]))
  <1> USE DEF Step
  <1>0. /\ Req \cap Run = {} /\ tx \in [Tx -> Workspace] /\ DOMAIN tally = Tx
        /\ DOMAIN tally[t] = {"was", "new"}
    BY StoreAssumption DEF TypeOK, SoleTotals
  <1>1. UNCHANGED <<log, total>>
    <2>1. CASE t \in Req /\ RequestPlan(t)
      BY <2>1 DEF rows, RequestPlan, BeginSubmitAnswer, GradeSubmittedAnswer, BeginComplete,
         BeginBatch, GradeBatch, BeginSaveDraft, BeginSubmitExam, BeginCreateObjection
    <2>2. CASE t \in Run /\ RunPlan(t)
      BY <2>2 DEF rows, RunPlan, StartGradeExam, GradeSheet, UpholdObjection, DismissObjection,
         ReadRegrade
    <2> QED
      BY <2>1, <2>2
  <1>2. CASE t \in Req /\ BeginComplete(t)
    <2> DEFINE x == [Idle EXCEPT !.pc = "writing", !.seen = status, !.items = Unanswered]
    <2>1. tx'[t] = x /\ tally'[t] = [was |-> total, new |-> NewTotals(t, x)]
      BY <1>0, <1>2 DEF BeginComplete
    <2> HIDE DEF x
    <2> QED
      BY <1>1, <2>1 DEF NewTotals
  <1>3. CASE t \in Req /\ BeginBatch(t)
    <2>1. tx'[t].pc = "grading" /\ tally'[t].was = total
      BY <1>0, <1>3 DEF BeginBatch, Idle
    <2> QED
      BY <1>1, <2>1 DEF Counted
  <1>4. CASE t \in Req /\ GradeBatch(t)
    <2> DEFINE x(m) == [tx[t] EXCEPT !.pc = "writing", !.marks = m, !.old = ActiveIn(log)]
    <2>1. PICK m : Step(t, x(m)) /\ tally' = [tally EXCEPT ![t].new = NewTotals(t, x(m))]
      BY <1>4 DEF GradeBatch
    <2>2. Counting(t)
      BY <1>4 DEF GradeBatch, Counting, At
    <2> HIDE DEF x
    <2>3. tx'[t] = x(m) /\ tally'[t].was = tally[t].was /\ tally'[t].new = NewTotals(t, x(m))
      BY <1>0, <2>1
    <2> QED
      BY <1>1, <2>2, <2>3 DEF NewTotals, SoleTotals
  <1>5. CASE t \in Run /\ StartGradeExam(t)
    <2>1. tx'[t].pc = "grading" /\ tally'[t].was = total
      BY <1>0, <1>5 DEF StartGradeExam, Idle
    <2> QED
      BY <1>1, <2>1 DEF Counted
  <1>6. CASE t \in Run /\ GradeSheet(t)
    <2> DEFINE as == [i \in Item |-> IF i \in Gradable THEN SheetAnswer(i) ELSE Blank]
               pc == IF Gradable = Item THEN "writing" ELSE "failing"
               x(m) == [Idle EXCEPT !.pc = pc, !.items = Gradable, !.answers = as, !.marks = m,
                                    !.old = FormerResults]
    <2>1. PICK m : /\ Step(t, x(m))
                  /\ tally' = [tally EXCEPT ![t].new =
                                 IF Gradable = Item THEN NewTotals(t, x(m)) ELSE @]
      BY <1>6 DEF GradeSheet
    <2>2. Counting(t)
      BY <1>6 DEF GradeSheet, Counting, RunAt
    <2>3. tx'[t].pc = pc
      <3> HIDE DEF as, pc
      <3> QED
        BY <1>0, <2>1 DEF Idle
    <2> HIDE DEF x
    <2>4. /\ tx'[t] = x(m) /\ tally'[t].was = tally[t].was
          /\ Gradable = Item => tally'[t].new = NewTotals(t, x(m))
      BY <1>0, <2>1
    <2>5. Counted(t)' => Gradable = Item
      BY <2>3 DEF Counted
    <2> QED
      BY <1>1, <2>2, <2>4, <2>5 DEF NewTotals, SoleTotals
  <1>7. CASE t \in Run /\ UpholdObjection(t)
    <2>1. PICK l, m : /\ Step(t, [Replace(l, m) EXCEPT !.seen = status])
                     /\ tally' = [tally EXCEPT ![t] = [was |-> total, new |-> NewTotals(t, Replace(l, m))]]
      BY <1>7 DEF UpholdObjection
    <2>2. /\ tx'[t].items = Replace(l, m).items /\ tx'[t].answers = Replace(l, m).answers
          /\ tx'[t].marks = Replace(l, m).marks /\ tx'[t].old = Replace(l, m).old
      BY <1>0, <2>1 DEF Replace, Idle
    <2>3. Recorded(t, tx'[t]) = Recorded(t, Replace(l, m))
      BY <2>2, RecordedFields
    <2>4. tally'[t].was = total /\ tally'[t].new = NewTotals(t, Replace(l, m))
      BY <1>0, <2>1
    <2> QED
      BY <1>1, <2>3, <2>4 DEF NewTotals
  <1>8. CASE t \in Run /\ ReadRegrade(t)
    <2>1. tx'[t].pc = "regrading" /\ tally'[t].was = total
      BY <1>0, <1>8 DEF ReadRegrade, Idle
    <2> QED
      BY <1>1, <2>1 DEF Counted
  <1>9. CASE t \in Run /\ DismissObjection(t)
    <2>1. tx'[t].pc = "restoring"
      BY <1>0, <1>9 DEF DismissObjection, Idle
    <2> QED
      BY <1>0, <1>1, <1>9, <2>1 DEF Counting, Counted, At
  <1>10. CASE t \in Req /\ (BeginSubmitAnswer(t) \/ GradeSubmittedAnswer(t) \/ BeginSaveDraft(t)
                             \/ BeginSubmitExam(t) \/ BeginCreateObjection(t))
    <2>1. ASSUME NEW name, NEW i, NEW q, Calling(t, name, i, q) PROVE call'[t].name = name
      BY <1>10, <2>1, NoneOpen DEF NewCall
    <2>2. call'[t].name \notin {"complete", "batch"}
      BY <1>10, <2>1 DEF BeginSubmitAnswer, GradeSubmittedAnswer, BeginSaveDraft,
         BeginSubmitExam, BeginCreateObjection
    <2> QED
      BY <1>0, <1>1, <1>10, <2>2 DEF Counting, Counted
  <1> QED
    BY <1>2, <1>3, <1>4, <1>5, <1>6, <1>7, <1>8, <1>9, <1>10 DEF RequestPlan, RunPlan

\* As long as one actor at a time is about to write, totals that are published
\* are those of the results.
LEMMA SoleTotalsNext ==
  ASSUME TypeOK, [Next]_vars, OneWriter, SoleTotals,
         \A w \in Run : ~FailUpholding(w),
         \A r \in Req : CommitSubmitAnswer(r) => status' \notin Published,
         \A r \in Req : CommitCreateObjection(r) /\ status' \in Published => status \in Published,
         \A w \in Run : CommitDismissedObjection(w) /\ status' \in Published => status \in Published
  PROVE  SoleTotals'
  <1>0. Req \subseteq Tx /\ Run \subseteq Tx /\ Req \cap Run = {} /\ DOMAIN tx = Tx
    BY StoreAssumption DEF TypeOK, Tx
  <1>1. ASSUME NEW t \in Tx, Counting(t) PROVE Writing(t)
    BY <1>1 DEF Counting, Writing, AnswerCalls
  <1>2. ASSUME NEW t \in Tx, tx'[t] = tx[t], t \in Req => call'[t] = call[t], Counting(t)'
        PROVE  UNCHANGED <<log, total>>
    <2>1. Counting(t) /\ Writing(t)
      BY <1>1, <1>2 DEF Counting, At
    <2>2. ASSUME NEW u \in Tx, Inserts(u) PROVE FALSE
      <3>1. u = t
        BY <2>1, <2>2, InsertersWrite DEF OneWriter
      <3>2. tx'[u].pc \in {"done", "unacked"}
        BY <2>2, Inserting DEF Moves
      <3> QED
        BY <1>2, <3>1, <3>2 DEF Counting, At
    <2>3. ASSUME NEW u \in Tx, Closes(u) PROVE FALSE
      BY <2>2, <2>3 DEF Closes, Inserts, Answers, Marks
    <2>4. ASSUME NEW w \in Run, CommitRegrade(w) PROVE tx[w].old = {}
      <3>1. tx'[w].pc = "unacked"
        BY <1>0, <2>4, StepMoves DEF CommitRegrade, Conclude, Moves
      <3>2. w # t
        BY <1>0, <1>2, <3>1 DEF Counting, At
      <3> QED
        BY <1>0, <2>1, <2>4, <3>2, RegradeTotals DEF OneWriter
    <2> QED
      BY <2>2, <2>3, <2>4, QuietTotals, RegradeTotals
  <1>3. ASSUME NEW t \in Tx, Counting(t)'
        PROVE  /\ tally'[t].was = total'
               /\ Counted(t)' => tally'[t].new = RecalculateSessionTotals(Recorded(t, tx[t]))'
    <2>1. CASE Rests(t)
      BY <1>3, <2>1 DEF Rests, Idle, Counting, At
    <2>2. CASE tx'[t] = tx[t] /\ tally'[t] = tally[t] /\ (t \in Req => call'[t] = call[t])
      <3>1. UNCHANGED <<log, total>>
        BY <1>2, <1>3, <2>2
      <3>2. Recorded(t, tx[t])' = Recorded(t, tx[t])
        BY <2>2, <3>1 DEF Recorded
      <3>3. RecalculateSessionTotals(Recorded(t, tx[t]))' = RecalculateSessionTotals(Recorded(t, tx[t]))
        BY <3>2
      <3>4. Counting(t) /\ (Counted(t)' => Counted(t))
        BY <1>3, <2>2 DEF Counting, Counted, At
      <3> QED
        BY <2>2, <3>1, <3>3, <3>4 DEF SoleTotals
    <2>3. CASE (t \in Req /\ RequestPlan(t)) \/ (t \in Run /\ RunPlan(t))
      <3>1. UNCHANGED <<log, total>>
        BY <2>3, CountingReads
      <3>2. Recorded(t, tx[t])' = Recorded(t, tx'[t])
        BY <3>1 DEF Recorded
      <3>3. RecalculateSessionTotals(Recorded(t, tx[t]))' = RecalculateSessionTotals(Recorded(t, tx'[t]))
        BY <3>2
      <3> QED
        BY <1>3, <2>3, <3>1, <3>3, CountingReads
    <2> QED
      BY <2>1, <2>2, <2>3, Reads
  <1>4. TotalsAgree'
    <2>0. SUFFICES ASSUME status' \in Published PROVE total' = RecalculateSessionTotals(log')
      BY DEF TotalsAgree, Published
    <2>1. CASE \E t \in Tx : Closes(t)
      BY <2>1, ClosingTotals
    <2>2. CASE \A t \in Tx : ~Closes(t)
      <3>1. ASSUME NEW t \in Tx, Inserts(t) PROVE FALSE
        <4>1. (t \in Req /\ CommitSubmitAnswer(t)) \/ (t \in Run /\ FailGradeExam(t))
          BY <2>2, <3>1 DEF Inserts, Answers, Marks, Closes
        <4> QED
          BY <2>0, <4>1 DEF FailGradeExam, FailedGrading, Published
      <3>2. status \in Published
        <4>1. ASSUME NEW r \in Req, RequestStep(r) PROVE status \in Published
          BY <2>0, <3>1, <4>1, RequestWrites DEF RequestCommit, Inserts, Tx, CommitSaveDraft,
             CommitSubmitExam, Published
        <4>2. ASSUME NEW w \in Run, RunStep(w) PROVE status \in Published
          BY <2>0, <3>1, <4>2, RunWrites DEF RunCommit, Inserts, Tx, StartGradeExam,
             CommitRegrade, Published
        <4>3. UNCHANGED vars => status' = status
          BY DEF vars, rows
        <4> QED
          BY <2>0, <4>1, <4>2, <4>3, Steps
      <3>3. total = RecalculateSessionTotals(log)
        BY <3>2 DEF SoleTotals, TotalsAgree
      <3>4. CASE \E w \in Run : CommitRegrade(w)
        BY <3>3, <3>4, RegradeTotals
      <3>5. CASE \A w \in Run : ~CommitRegrade(w)
        BY <2>2, <3>1, <3>3, <3>5, QuietTotals
      <3> QED
        BY <3>4, <3>5
    <2> QED
      BY <2>1, <2>2
  <1>5. \A t \in Tx : DOMAIN tally'[t] = {"was", "new"}
    BY TallyShape DEF SoleTotals
  <1>6. \A t \in Tx : Counting(t)' => tally'[t].was = total'
    BY <1>3
  <1>7. \A t \in Tx : Counted(t)' => tally'[t].new = RecalculateSessionTotals(Recorded(t, tx[t]))'
    BY <1>3 DEF Counted
  <1> QED
    BY <1>4, <1>5, <1>6, <1>7 DEF SoleTotals

-----------------------------------------------------------------------------
\* Only tasks write the results of an exam whose batch is not used, so with one
\* worker there is one writer; and without objections none is replaced.
TabsInv == XInv /\ OneBusy /\ SoleResults /\ SoleTotals

LEMMA SoleInit == Init => OneBusy /\ SoleResults /\ SoleTotals
  <1> SUFFICES ASSUME Init PROVE OneBusy /\ SoleResults /\ SoleTotals
    OBVIOUS
  <1>1. /\ \A t \in Tx : tx[t].pc = "new" /\ tally[t] = NoTally
        /\ \A l \in LogId : log[l].st = "none"
        /\ status \notin Published
    BY DEF Init, Idle, Published
  <1> QED
    BY <1>1 DEF OneBusy, Busy, SoleResults, SoleTotals, TotalsAgree, ActiveIn, Recording, At,
       Counting, Counted, NoTally, Tx

LEMMA TabsInvNext ==
  ASSUME Mode = "exam", Workers <= 1, {"batch", "create_objection"} \cap Calls = {}
  PROVE  TabsInv /\ [Next]_vars => TabsInv'
  <1> SUFFICES ASSUME TabsInv, [Next]_vars PROVE TabsInv'
    OBVIOUS
  <1>0. /\ XInv /\ XInv' /\ TypeOK /\ CallsFit /\ OneBusy /\ OneBusy' /\ SoleResults /\ SoleTotals
    BY XInvNext, NextMoves, OneAtATime DEF TabsInv, XInv, JInv
  <1>1. \A q \in Req : call[q].name \notin {"submit_answer", "complete", "batch", "create_objection"}
    BY <1>0 DEF CallsFit
  <1>2. OneWriter
    BY <1>0, <1>1 DEF OneWriter, Writing, AnswerCalls, OneBusy, Busy, Tx, At
  <1>3. \A w \in Run : \A pc : ~RunAt(w, "create_objection", pc)
    BY <1>1 DEF RunAt
  <1>4. /\ \A w \in Run : ~UpholdObjection(w) /\ ~FailUpholding(w) /\ ~CommitDismissedObjection(w)
        /\ \A r \in Req : ~CommitSubmitAnswer(r) /\ ~CommitCreateObjection(r)
    BY <1>1, <1>3 DEF UpholdObjection, FailUpholding, CommitDismissedObjection,
       CommitSubmitAnswer, CommitCreateObjection
  <1>5. SoleResults'
    BY <1>0, <1>2, <1>4, SoleResultsNext
  <1>6. SoleTotals'
    BY <1>0, <1>2, <1>4, SoleTotalsNext
  <1> QED
    BY <1>0, <1>5, <1>6 DEF TabsInv

\* However many tabs an exam is taken in, and whatever fails or is delivered
\* twice, an item counts once and the published totals are those of the results,
\* as long as there is one worker and nobody sends a batch or objects.
THEOREM TabsCountOnce ==
  ASSUME Mode = "exam", Workers <= 1, {"batch", "create_objection"} \cap Calls = {}
  PROVE  Spec => [](OneActiveResult /\ TotalsAgree)
  <1>1. TabsInv => OneActiveResult /\ TotalsAgree
    BY SoleResultsCount DEF TabsInv, XInv, JInv, SoleTotals
  <1>2. Init => TabsInv
    BY XInvInit, SoleInit DEF TabsInv
  <1> QED
    BY <1>1, <1>2, TabsInvNext, PTL DEF Spec

-----------------------------------------------------------------------------
\* One client that waits: a job is still to be run if it was before, or is new.
LEMMA OngoingSteps ==
  ASSUME JInv, [Next]_vars, "crash" \notin Faults, NEW q \in Req, Ongoing(q)',
         call'[q].name \in {"submit_exam", "create_objection"}
  PROVE  \/ Ongoing(q) /\ call'[q] = call[q]
         \/ HandsIn(q) \/ Files(q)
  <1> USE DEF Ongoing, Jobs, Moves, At
  <1>0. /\ TypeOK /\ JobsExist /\ Req \subseteq Tx /\ Run \subseteq Tx /\ Req \cap Run = {}
        /\ queue \in [Req -> Nat] /\ DOMAIN works = Run /\ JobMove
    BY NextMoves, StoreAssumption DEF JInv, TypeOK, Tx
  <1>1. ASSUME NEW r \in Req, RequestMove(r)
        PROVE  (Ongoing(q) /\ call'[q] = call[q]) \/ HandsIn(q) \/ Files(q)
    <2>1. CASE Begins(r) \/ Orders(r) \/ Administers(r)
      <3>1. /\ q # r => call'[q] = call[q] /\ tx'[q] = tx[q]
            /\ \A w \in Run : tx'[w] = tx[w]
            /\ UNCHANGED <<queue, works>> /\ At(r, "new")
        BY <1>0, <2>1 DEF Begins, Orders, Administers, NewCall
      <3>2. CASE q # r
        BY <3>1, <3>2
      <3>3. CASE q = r
        <4>1. queue[q] = 0 /\ \A w \in Run : works[w] # q
          BY <1>0, <3>1, <3>3 DEF JobsExist, Uncommitted
        <4>2. Begins(r)
          BY <2>1, <3>3 DEF Orders, Administers, NewCall
        <4> QED
          BY <1>0, <3>1, <3>3, <4>1, <4>2 DEF Begins
      <3> QED
        BY <3>2, <3>3
    <2>2. CASE Prepares(r) \/ Ends(r)
      BY <1>0, <2>2 DEF Prepares, Ends
    <2>3. CASE HandsIn(r) \/ Files(r)
      BY <1>0, <2>3 DEF HandsIn, Files
    <2>4. CASE Sends(r)
      <3>1. PICK o \in Req : /\ queue' = [queue EXCEPT ![o] = @ + 1]
                            /\ \/ o = r
                               \/ call[o].name \in Retryable
        BY <1>0, <2>4 DEF Sends, JobsExist
      <3>2. call' = call /\ works' = works /\ \A w \in Run : tx'[w] = tx[w]
        BY <1>0, <2>4 DEF Sends
      <3>3. CASE q = r
        BY <2>4, <3>2, <3>3 DEF Sends
      <3>4. CASE q # r
        <4>1. q # o
          BY <3>1, <3>2, <3>4 DEF Retryable
        <4>2. queue'[q] = queue[q] /\ tx'[q] = tx[q]
          BY <1>0, <2>4, <3>1, <3>4, <4>1 DEF Sends
        <4> QED
          BY <3>2, <4>2
      <3> QED
        BY <3>3, <3>4
    <2> QED
      BY <1>1, <2>1, <2>2, <2>3, <2>4 DEF RequestMove
  <1>2. ASSUME NEW w \in Run, RunMove(w) PROVE Ongoing(q) /\ call'[q] = call[q]
    <2>1. /\ call' = call /\ tx'[q] = tx[q]
          /\ \A v \in Run \ {w} : tx'[v] = tx[v] /\ works'[v] = works[v]
          /\ queue'[q] > 0 => queue[q] > 0
      <3>1. CASE Takes(w)
        BY <1>0, <3>1 DEF Takes
      <3>2. CASE Continues(w) \/ Concludes(w)
        BY <1>0, <3>2 DEF Continues, Concludes
      <3>3. CASE Releases(w)
        BY <1>0, <3>3 DEF Releases
      <3> QED
        BY <1>2, <3>1, <3>2, <3>3 DEF RunMove
    <2>2. works'[w] = q /\ tx'[w].pc \in {"started"} \cup TaskLabels => Ongoing(q)
      <3>1. CASE Takes(w)
        BY <1>0, <3>1 DEF Takes
      <3>2. CASE Continues(w)
        BY <1>0, <3>2 DEF Continues, TaskLabels
      <3>3. CASE Concludes(w) \/ Releases(w)
        BY <1>0, <3>3 DEF Concludes, Releases, TaskLabels
      <3> QED
        BY <1>2, <3>1, <3>2, <3>3 DEF RunMove
    <2> QED
      BY <1>0, <2>1, <2>2
  <1>3. UNCHANGED <<Jobs, call, tx>> => Ongoing(q) /\ call'[q] = call[q]
    OBVIOUS
  <1> QED
    BY <1>0, <1>1, <1>2, <1>3 DEF JobMove

\* The end of a task ends its job.
LEMMA OngoingEnds ==
  ASSUME DInv, NEW w \in Run, NEW q \in Req, works[w] = q, call[q].name \notin Retryable,
         Moves(w, "unacked"), UNCHANGED <<queue, works>>
  PROVE  ~Ongoing(q)'
  <1> USE DEF Ongoing, Moves, At
  <1>0. OneDelivery /\ Req \subseteq Tx /\ Run \subseteq Tx /\ Req \cap Run = {}
    BY StoreAssumption DEF DInv, Tx
  <1>1. /\ queue[q] = 0 /\ ~At(q, "dispatch")
        /\ \A v \in Run : works[v] = q => v = w
    BY <1>0 DEF OneDelivery
  <1> QED
    BY <1>0, <1>1 DEF TaskLabels

\* A job that is to be run exists.
LEMMA OngoingJobs ==
  ASSUME JInv, NEW q \in Req, Ongoing(q), call[q].name # "retry_job"
  PROVE  job[q] # "none" /\ ~Uncommitted(q)
  BY DEF JInv, JobsExist, Ongoing, At

\* The request that creates a job writes no log.
LEMMA FilesLogs ==
  ASSUME XInv, [Next]_vars, NEW q \in Req, HandsIn(q) \/ Files(q)
  PROVE  /\ log' = log /\ call' = call
         /\ \A u \in Tx \ {q} : tx'[u] = tx[u]
         /\ \A o \in Req \ {q} : obj'[o] = obj[o]
         /\ Files(q) => obj'[q].logs = tx[q].old
  <1>0. /\ TypeOK /\ JobsExist /\ Req \subseteq Tx /\ Run \subseteq Tx /\ Req \cap Run = {}
        /\ Moves(q, "dispatch") /\ call' = call
    BY StoreAssumption DEF XInv, JInv, Tx, HandsIn, Files
  <1>1. ASSUME NEW t \in Tx, Inserts(t) PROVE FALSE
    <2>1. tx[t].pc \notin {"done", "unacked"} /\ tx'[t].pc \in {"done", "unacked"}
      BY <1>0, <1>1, Inserting DEF Recording, At, Moves
    <2> QED
      BY <1>0, <2>1 DEF Moves
  <1>2. ASSUME NEW w \in Run, FailUpholding(w) \/ CommitRegrade(w) PROVE FALSE
    <2>1. tx[w].pc # "unacked" /\ Moves(w, "unacked")
      BY <1>0, <1>2, StepMoves DEF FailUpholding, CommitRegrade, Conclude, RunAt
    <2> QED
      BY <1>0, <2>1 DEF Moves
  <1>3. log' = log
    BY <1>0, <1>1, <1>2, LogSteps
  <1>4. \A o \in Req \ {q} : obj'[o] = obj[o]
    BY DEF HandsIn, Files
  <1>5. ASSUME Files(q) PROVE obj'[q].logs = tx[q].old
    <2>1. obj[q].st = "none" /\ obj'[q].st = "under_review"
      BY <1>0, <1>5 DEF Files, JobsExist, Uncommitted, At
    <2> QED
      BY <2>1, ObjectionRows
  <1> QED
    BY <1>0, <1>3, <1>4, <1>5 DEF Moves

-----------------------------------------------------------------------------
\* Of a client that waits for its requests, whatever the number of workers.
WaitingInv == FInv /\ DInv /\ Ungraded /\ Disputes

LEMMA WaitingFacts ==
  ASSUME WaitingInv
  PROVE  /\ TypeOK /\ JobsExist /\ XInv /\ JInv /\ FInv /\ DInv /\ CallsFit /\ Fresh /\ OneOpen
         /\ SubmittedOnce /\ OneDelivery /\ Undecided /\ Ungraded /\ Disputes
         /\ Req \subseteq Tx /\ Run \subseteq Tx /\ Req \cap Run = {}
         /\ \A w \in Run : tx[w].pc \in TaskLabels =>
               works[w] \in Req /\ Ongoing(works[w]) /\ call[works[w]].name = CallAt(tx[w].pc)
         /\ \A w \in Run : \A name : RunAt(w, name, "started") =>
               works[w] \in Req /\ Ongoing(works[w]) /\ call[works[w]].name = name
  BY StoreAssumption DEF WaitingInv, FInv, XInv, JInv, SInv, DInv, Tx, Ongoing, RunAt, JobsExist

\* A task of an exam runs while the session is in grading and has no results.
LEMMA GradingTasks ==
  ASSUME WaitingInv, NEW w \in Run,
         \/ tx[w].pc \in {"grading", "writing", "failing"}
         \/ RunAt(w, "submit_exam", "started")
  PROVE  status = "grading" /\ Existing = {}
  <1>1. works[w] \in Req /\ Ongoing(works[w]) /\ call[works[w]].name = "submit_exam"
    BY WaitingFacts DEF TaskLabels, CallAt
  <1> QED
    BY <1>1, WaitingFacts DEF Ungraded

\* A review runs while its objection is to an existing log.
LEMMA ReviewTasks ==
  ASSUME WaitingInv, NEW w \in Run,
         \/ tx[w].pc \in {"upholding", "restoring"}
         \/ RunAt(w, "create_objection", "started")
  PROVE  /\ works[w] \in Req /\ Ongoing(works[w]) /\ call[works[w]].name = "create_objection"
         /\ \E l \in Existing : obj[works[w]].logs = {l}
  <1>1. works[w] \in Req /\ Ongoing(works[w]) /\ call[works[w]].name = "create_objection"
    BY WaitingFacts DEF TaskLabels, CallAt
  <1>2. obj[works[w]].st # "none"
    BY <1>1, OngoingJobs, WaitingFacts DEF JobsExist
  <1> QED
    BY <1>1, <1>2, WaitingFacts DEF XInv, OneLog, OldExists

\* What an exam waits for is its one grading job.
LEMMA UngradedNext ==
  ASSUME WaitingInv, [Next]_vars, CallsFit', "crash" \notin Faults
  PROVE  Ungraded'
  <1> SUFFICES ASSUME NEW q \in Req, call'[q].name = "submit_exam", Ongoing(q)'
               PROVE  status' = "grading" /\ Existing' = {}
    BY DEF Ungraded
  <1>0. SheetFirst
    BY DEF CallsFit, SheetFirst
  <1>1. CASE HandsIn(q)
    <2>1. Existing = {}
      BY <1>0, <1>1, WaitingFacts DEF HandsIn, Fresh, At, SheetCalls
    <2>2. Existing' = {}
      BY <1>1, <2>1, FilesLogs, WaitingFacts DEF Existing
    <2> QED
      BY <1>1, <2>2 DEF HandsIn
  <1>2. CASE Files(q)
    BY <1>2 DEF Files
  <1>3. CASE Ongoing(q) /\ call'[q] = call[q]
    <2>1. status = "grading" /\ Existing = {} /\ q \in SubmitJobs
      BY <1>3, WaitingFacts, OngoingJobs DEF Ungraded, SubmitJobs
    <2>2. ASSUME NEW r \in Req, RequestStep(r) PROVE status' = "grading" /\ ~Answers(r)
      <3>1. tx[r].pc # "writing" \/ call[r].name \notin SheetCalls
        BY <2>1, WaitingFacts DEF Fresh, Answerable
      <3>2. tx[r].pc # "writing" \/ call[r].name # "create_objection"
        BY <2>1, WaitingFacts DEF XInv, OneLog, OldExists, At
      <3>3. ~RequestCommit(r)
        BY <3>1, <3>2 DEF RequestCommit, Answers, CommitSubmitAnswer, CommitComplete,
           CommitBatch, CommitSaveDraft, CommitSubmitExam, CommitCreateObjection, At, SheetCalls
      <3> QED
        BY <2>1, <2>2, <3>3, RequestWrites DEF RequestCommit
    <2>3. ASSUME NEW w \in Run, RunStep(w) PROVE status' = "grading" /\ ~Marks(w)
      <3>1. ASSUME CommitGradeExam(w) \/ FailGradeExam(w) PROVE FALSE
        <4>1. Moves(w, "unacked") /\ UNCHANGED <<queue, works>> /\ tx[w].pc \in {"writing", "failing"}
          BY <3>1, StepMoves, WaitingFacts DEF CommitGradeExam, FailGradeExam, Conclude, RunAt
        <4>2. works[w] \in SubmitJobs
          BY <3>1, <4>1, WaitingFacts DEF TaskLabels, CallAt, SubmitJobs, JobsExist
        <4>3. works[w] = q
          BY <2>1, <4>2, WaitingFacts DEF SubmittedOnce
        <4>4. call[works[w]].name \notin Retryable
          BY <4>2 DEF SubmitJobs, Retryable
        <4> QED
          BY <4>1, <4>3, <4>4, OngoingEnds, WaitingFacts
      <3>2. ~CommitUpheldObjection(w) /\ ~CommitDismissedObjection(w)
        BY <2>1, ReviewTasks DEF CommitUpheldObjection, CommitDismissedObjection, RunAt
      <3>3. RunCommit(w) => status' = "grading"
        BY <2>1, <3>1, <3>2 DEF RunCommit, Marks, StartGradeExam, FailUpholding, CommitRegrade
      <3> QED
        BY <2>1, <2>3, <3>1, <3>2, <3>3, RunWrites DEF Marks
    <2>4. UNCHANGED vars => status' = status
      BY DEF vars, rows
    <2>5. status' = "grading"
      BY <2>1, <2>2, <2>3, <2>4, Steps
    <2>6. ASSUME NEW l \in Existing' PROVE FALSE
      <3>1. l \in LogId /\ l[1] \in Tx
        BY DEF Existing, LogId
      <3>2. Inserts(l[1])
        BY <2>1, <3>1, LogRows, WaitingFacts
      <3>3. (l[1] \in Req /\ RequestStep(l[1]) /\ Answers(l[1]))
            \/ (l[1] \in Run /\ RunStep(l[1]) /\ Marks(l[1]))
        BY <3>2 DEF Inserts, Answers, Marks, RequestStep, Request, Answering, RunStep, Task,
           ExamTask, ReviewTask
      <3> QED
        BY <2>2, <2>3, <3>3
    <2> QED
      BY <2>5, <2>6
  <1> QED
    BY <1>1, <1>2, <1>3, OngoingSteps, WaitingFacts

\* Published results stay published, and who has seen them has seen what is.
LEMMA PublishedNext ==
  ASSUME WaitingInv, [Next]_vars
  PROVE  /\ status \in Published => status' \in Published
         /\ \A t \in Tx : tx'[t].seen \in Published => status' \in Published
  <1>1. ASSUME status \in Published PROVE status' \in Published
    <2> USE DEF Published
    <2>1. ASSUME NEW r \in Req, RequestStep(r) PROVE status' \in Published
      <3>1. tx[r].pc # "writing" \/ call[r].name \notin SheetCalls
        BY <1>1, WaitingFacts DEF Fresh, Answerable
      <3>2. RequestCommit(r) => CommitCreateObjection(r)
        BY <3>1 DEF RequestCommit, Answers, CommitSubmitAnswer, CommitComplete,
           CommitBatch, CommitSaveDraft, CommitSubmitExam, At, SheetCalls
      <3> QED
        BY <1>1, <2>1, <3>2, RequestWrites DEF CommitCreateObjection
    <2>2. ASSUME NEW w \in Run, RunStep(w) PROVE status' \in Published
      <3>1. tx[w].pc \notin {"grading", "writing", "failing"} /\ ~RunAt(w, "submit_exam", "started")
        BY <1>1, GradingTasks
      <3>2. ~CommitGradeExam(w) /\ ~FailGradeExam(w) /\ ~StartGradeExam(w)
        BY <3>1 DEF CommitGradeExam, FailGradeExam, StartGradeExam, RunAt
      <3>3. RunCommit(w) => status' \in Published
        BY <1>1, <3>2 DEF RunCommit, Marks, CommitUpheldObjection, CommitDismissedObjection,
           FailUpholding, CommitRegrade
      <3> QED
        BY <1>1, <2>2, <3>3, RunWrites
    <2>3. UNCHANGED vars => status' = status
      BY DEF vars, rows
    <2> QED
      BY <1>1, <2>1, <2>2, <2>3, Steps
  <1>2. ASSUME NEW t \in Tx PROVE tx'[t].seen \in {status, tx[t].seen, "draft"}
    <2> USE DEF Step
    <2>0. tx \in [Tx -> Workspace] /\ TypeOK
      BY WaitingFacts DEF TypeOK
    <2>1. CASE Rests(t)
      BY <2>1 DEF Rests, Idle
    <2>2. CASE tx'[t] = tx[t]
      BY <2>2
    <2>3. CASE t \in Req /\ RequestPlan(t)
      <3>1. BeginSubmitAnswer(t) => tx'[t].seen = status
        BY <2>0 DEF BeginSubmitAnswer, Idle
      <3>2. GradeSubmittedAnswer(t) => tx'[t].seen = tx[t].seen
        BY <2>0 DEF GradeSubmittedAnswer, Workspace
      <3>3. BeginComplete(t) => tx'[t].seen = status
        BY <2>0 DEF BeginComplete, Idle
      <3>4. BeginBatch(t) => tx'[t].seen = status
        BY <2>0 DEF BeginBatch, Idle
      <3>5. GradeBatch(t) => tx'[t].seen = tx[t].seen
        BY <2>0 DEF GradeBatch, Workspace
      <3>6. BeginSaveDraft(t) => tx'[t].seen = status
        BY <2>0 DEF BeginSaveDraft, Idle
      <3>7. BeginSubmitExam(t) => tx'[t].seen = status
        BY <2>0 DEF BeginSubmitExam, Idle
      <3>8. BeginCreateObjection(t) => tx'[t].seen = status
        BY <2>0 DEF BeginCreateObjection, Idle
      <3> QED
        BY <2>3, <3>1, <3>2, <3>3, <3>4, <3>5, <3>6, <3>7, <3>8 DEF RequestPlan
    <2>4. CASE t \in Run /\ RunPlan(t)
      <3>1. StartGradeExam(t) => tx'[t].seen = "draft"
        BY <2>0 DEF StartGradeExam, Idle
      <3>2. ASSUME GradeSheet(t) PROVE tx'[t].seen = "draft"
        <4> DEFINE as == [i \in Item |-> IF i \in Gradable THEN SheetAnswer(i) ELSE Blank]
                   pc == IF Gradable = Item THEN "writing" ELSE "failing"
        <4>1. PICK m : Step(t, [Idle EXCEPT !.pc = pc, !.items = Gradable, !.answers = as,
                                            !.marks = m, !.old = FormerResults])
          BY <3>2 DEF GradeSheet
        <4> HIDE DEF as, pc
        <4> QED
          BY <2>0, <4>1 DEF Idle
      <3>3. UpholdObjection(t) => tx'[t].seen = status
        BY <2>0 DEF UpholdObjection, Replace, Idle
      <3>4. DismissObjection(t) => tx'[t].seen = status
        BY <2>0 DEF DismissObjection, Idle
      <3>5. ReadRegrade(t) => tx'[t].seen = "draft"
        BY <2>0 DEF ReadRegrade, Idle
      <3> QED
        BY <2>4, <3>1, <3>2, <3>3, <3>4, <3>5 DEF RunPlan
    <2> QED
      BY <2>0, <2>1, <2>2, <2>3, <2>4, Reads
  <1>3. \A t \in Tx : tx[t].seen \in Published => status \in Published
    BY WaitingFacts DEF Disputes
  <1> QED
    BY <1>1, <1>2, <1>3 DEF Published

\* A result that may be disputed is deactivated by the review of an objection
\* to it, which ends.
LEMMA Deactivated ==
  ASSUME WaitingInv, [Next]_vars, SheetFirst, NEW l \in ActiveIn(log), l \notin ActiveIn(log')
  PROVE  \E w \in Run :
           /\ works[w] \in Req /\ call[works[w]].name = "create_objection" /\ Ongoing(works[w])
           /\ l \in obj[works[w]].logs /\ Moves(w, "unacked") /\ UNCHANGED <<queue, works>>
  <1>0. l \in LogId /\ l \in Existing /\ log[l].st = "active" /\ log'[l].st # "active"
    BY DEF ActiveIn, Existing
  <1>1. ASSUME NEW t \in Tx, Inserts(t) PROVE t \in Run /\ CommitUpheldObjection(t) /\ l \in tx[t].old
    <2>1. log' = Recorded(t, tx[t]) /\ Recording(t) /\ tx[t] \in Workspace
      BY <1>1, Inserting, WaitingFacts DEF TypeOK
    <2>2. l \in tx[t].old
      BY <1>0, <2>1, RecordedActive DEF ActiveIn
    <2>3. t \notin Req
      BY <1>0, <2>1, WaitingFacts DEF Recording, Fresh, SheetCalls, At
    <2>4. tx[t].pc \notin {"grading", "writing", "failing"} \/ t \notin Run
      BY <1>0, GradingTasks
    <2> QED
      BY <1>1, <2>2, <2>3, <2>4 DEF Inserts, Marks, CommitGradeExam, FailGradeExam, RunAt
  <1>2. ASSUME NEW w \in Run, CommitRegrade(w) PROVE FALSE
    <2>1. PICK m : log' = Regraded(tx[w].old, m)
      BY <1>2 DEF CommitRegrade
    <2>2. (\E k : log'[l] = [log[l] EXCEPT !.mark = k]) \/ log'[l] = log[l]
      BY <1>0, <2>1 DEF Regraded
    <2>3. log[l] \in AnswerLog
      BY <1>0, WaitingFacts DEF TypeOK
    <2> QED
      BY <1>0, <2>2, <2>3 DEF AnswerLog
  <1>3. ASSUME NEW w \in Run, FailUpholding(w)
        PROVE  l \in obj[works[w]].logs /\ RunAt(w, "create_objection", "started")
    <2>1. log' = Recorded(w, [Idle EXCEPT !.old = obj[works[w]].logs])
      BY <1>3 DEF FailUpholding
    <2>2. log'[l] = IF l \in obj[works[w]].logs THEN [log[l] EXCEPT !.st = "inactive"] ELSE log[l]
      BY <1>0, <2>1 DEF Recorded, Idle
    <2> QED
      BY <1>0, <1>3, <2>2 DEF FailUpholding
  <1>4. PICK w \in Run : /\ FailUpholding(w) \/ CommitUpheldObjection(w)
                        /\ l \in obj[works[w]].logs
    <2>1. ASSUME NEW w \in Run, CommitUpheldObjection(w) PROVE tx[w].old \subseteq obj[works[w]].logs
      BY <2>1, WaitingFacts DEF Disputes, CommitUpheldObjection, RunAt, At
    <2> QED
      BY <1>0, <1>1, <1>2, <1>3, <2>1, LogSteps, WaitingFacts
  <1>5. Moves(w, "unacked") /\ UNCHANGED <<queue, works>>
    BY <1>4, StepMoves, WaitingFacts DEF FailUpholding, CommitUpheldObjection, Conclude
  <1>6. works[w] \in Req /\ Ongoing(works[w]) /\ call[works[w]].name = "create_objection"
    BY <1>4, ReviewTasks DEF FailUpholding, CommitUpheldObjection, RunAt
  <1> QED
    BY <1>4, <1>5, <1>6

\* An objection that is still to be decided was so before or has just been filed.
LEMMA DisputeSteps ==
  ASSUME WaitingInv, [Next]_vars, "crash" \notin Faults, NEW q \in Req, Ongoing(q)',
         call'[q].name = "create_objection"
  PROVE  \/ /\ Ongoing(q) /\ call[q].name = "create_objection"
            /\ obj'[q].logs = obj[q].logs /\ obj[q].st = "under_review"
         \/ Files(q)
  <1>1. CASE Ongoing(q) /\ call'[q] = call[q]
    <2>1. ~Uncommitted(q)
      BY <1>1, WaitingFacts, OngoingJobs
    <2>2. ~CommitCreateObjection(q)
      BY <2>1 DEF CommitCreateObjection, Uncommitted, At
    <2>3. obj'[q].logs = obj[q].logs
      BY <2>2, ObjectionRows, WaitingFacts
    <2>4. obj[q].st = "under_review"
      BY <1>1, WaitingFacts DEF Undecided, Ongoing, JobsExist, TaskLabels, CallAt
    <2> QED
      BY <1>1, <2>3, <2>4
  <1>2. ~HandsIn(q)
    BY DEF HandsIn
  <1> QED
    BY <1>1, <1>2, OngoingSteps, WaitingFacts

\* Objections to be decided stay apart, and to active results.
LEMMA DisputesStayApart ==
  ASSUME WaitingInv, [Next]_vars, "crash" \notin Faults, SheetFirst,
         NEW q \in Req, Ongoing(q)', call'[q].name = "create_objection"
  PROVE  /\ obj'[q].logs \subseteq ActiveIn(log')
         /\ \A o \in Req : o # q /\ call'[o].name = "create_objection" /\ Ongoing(o)' =>
               obj'[q].logs \cap obj'[o].logs = {}
  <1>1. CASE Files(q)
    <2>1. log' = log /\ call' = call /\ obj'[q].logs = tx[q].old
      BY <1>1, FilesLogs, WaitingFacts
    <2>2. call[q].name = "create_objection" /\ At(q, "writing")
      BY <1>1 DEF Files
    <2>3. ASSUME NEW o \in Req, o # q, call'[o].name = "create_objection", Ongoing(o)'
          PROVE  obj'[q].logs \cap obj'[o].logs = {}
      <3>1. ~Files(o)
        BY <1>1, <2>3, WaitingFacts DEF Files, Moves, At
      <3>2. Ongoing(o) /\ call[o].name = "create_objection" /\ obj'[o].logs = obj[o].logs
        BY <2>3, <3>1, DisputeSteps
      <3> QED
        BY <2>1, <2>2, <2>3, <3>2, WaitingFacts DEF Disputes
    <2> QED
      BY <2>1, <2>2, <2>3, WaitingFacts DEF Disputes
  <1>2. CASE Ongoing(q) /\ call[q].name = "create_objection" /\ obj'[q].logs = obj[q].logs
    <2>1. ASSUME NEW l \in obj[q].logs PROVE l \in ActiveIn(log')
      <3> SUFFICES ASSUME l \notin ActiveIn(log') PROVE FALSE
        OBVIOUS
      <3>1. l \in ActiveIn(log)
        BY <1>2, WaitingFacts DEF Disputes
      <3>2. PICK w \in Run :
              /\ works[w] \in Req /\ call[works[w]].name = "create_objection" /\ Ongoing(works[w])
              /\ l \in obj[works[w]].logs /\ Moves(w, "unacked") /\ UNCHANGED <<queue, works>>
        BY <3>1, Deactivated
      <3>3. works[w] = q
        BY <1>2, <3>2, WaitingFacts DEF Disputes
      <3> QED
        BY <1>2, <3>2, <3>3, OngoingEnds, WaitingFacts DEF Retryable
    <2>2. ASSUME NEW o \in Req, o # q, call'[o].name = "create_objection", Ongoing(o)'
          PROVE  obj'[q].logs \cap obj'[o].logs = {}
      <3>1. CASE Files(o)
        <4>1. obj'[o].logs = tx[o].old /\ call[o].name = "create_objection" /\ At(o, "writing")
          BY <3>1, FilesLogs, WaitingFacts DEF Files
        <4> QED
          BY <1>2, <2>2, <4>1, WaitingFacts DEF Disputes
      <3>2. CASE Ongoing(o) /\ call[o].name = "create_objection" /\ obj'[o].logs = obj[o].logs
        BY <1>2, <2>2, <3>2, WaitingFacts DEF Disputes
      <3> QED
        BY <2>2, <3>1, <3>2, DisputeSteps
    <2> QED
      BY <1>2, <2>1, <2>2
  <1> QED
    BY <1>1, <1>2, DisputeSteps

\* A result about to be disputed is active and not disputed yet.
LEMMA FilingStaysApart ==
  ASSUME WaitingInv, [Next]_vars, "crash" \notin Faults, SheetFirst,
         NEW r \in Req, tx'[r].pc = "writing", call'[r].name = "create_objection"
  PROVE  /\ tx'[r].old \subseteq ActiveIn(log')
         /\ \A q \in Req : q # r /\ call'[q].name = "create_objection" /\ Ongoing(q)' =>
               obj'[q].logs \cap tx'[r].old = {}
  <1>0. r \in Tx /\ r \notin Run /\ tx \in [Tx -> Workspace] /\ TypeOK
    BY WaitingFacts DEF TypeOK
  <1>1. CASE RequestPlan(r)
    <2>1. BeginCreateObjection(r)
      BY <1>0, <1>1, Filing DEF SheetCalls
    <2>2. PICK l \in ActiveIn(log) :
            /\ \A q \in Pending : obj[q].logs # {l}
            /\ Step(r, [Idle EXCEPT !.pc = "writing", !.seen = status, !.old = {l}])
            /\ UNCHANGED rows
      BY <2>1 DEF BeginCreateObjection
    <2>3. tx'[r].old = {l} /\ log' = log /\ \A u \in Tx \ {r} : tx'[u] = tx[u]
      BY <1>0, <2>2 DEF Step, Idle, rows
    <2>4. ASSUME NEW q \in Req, q # r, call'[q].name = "create_objection", Ongoing(q)'
          PROVE  obj'[q].logs \cap {l} = {}
      <3>1. ~Files(q)
        BY <1>0, <2>3, <2>4, WaitingFacts DEF Files, Moves, At
      <3>2. obj'[q].logs = obj[q].logs /\ obj[q].st = "under_review"
        BY <2>4, <3>1, DisputeSteps
      <3>3. obj[q].logs # {l}
        BY <2>2, <3>2 DEF Pending
      <3>4. \E k : obj[q].logs = {k}
        BY <3>2, WaitingFacts DEF XInv, OneLog
      <3> QED
        BY <3>2, <3>3, <3>4
    <2> QED
      BY <2>2, <2>3, <2>4
  <1>2. CASE Rests(r)
    BY <1>2 DEF Rests, Idle
  <1>3. CASE tx'[r] = tx[r] /\ call'[r] = call[r]
    <2>1. call[r].name = "create_objection" /\ At(r, "writing") /\ Uncommitted(r)
      BY <1>3 DEF At, Uncommitted
    <2>2. ASSUME NEW l \in tx[r].old PROVE l \in ActiveIn(log')
      <3> SUFFICES ASSUME l \notin ActiveIn(log') PROVE FALSE
        OBVIOUS
      <3>1. l \in ActiveIn(log)
        BY <2>1, WaitingFacts DEF Disputes
      <3>2. PICK w \in Run :
              /\ works[w] \in Req /\ call[works[w]].name = "create_objection" /\ Ongoing(works[w])
              /\ l \in obj[works[w]].logs
        BY <3>1, Deactivated
      <3>3. works[w] # r
        BY <2>1, <3>2, OngoingJobs, WaitingFacts
      <3> QED
        BY <2>1, <3>2, <3>3, WaitingFacts DEF Disputes
    <2>3. ASSUME NEW q \in Req, q # r, call'[q].name = "create_objection", Ongoing(q)'
          PROVE  obj'[q].logs \cap tx[r].old = {}
      <3>1. ~Files(q)
        BY <2>1, <2>3, WaitingFacts DEF Files, OneOpen, Open, At
      <3>2. Ongoing(q) /\ call[q].name = "create_objection" /\ obj'[q].logs = obj[q].logs
        BY <2>3, <3>1, DisputeSteps
      <3> QED
        BY <2>1, <2>3, <3>2, WaitingFacts DEF Disputes
    <2> QED
      BY <1>3, <2>2, <2>3
  <1> QED
    BY <1>0, <1>1, <1>2, <1>3, Reads

LEMMA DisputesNext ==
  ASSUME WaitingInv, [Next]_vars, CallsFit', "crash" \notin Faults, SheetFirst \/ NoReviews
  PROVE  Disputes'
  <1>0. (\E q \in Req : call'[q].name = "create_objection") => SheetFirst
    BY DEF CallsFit, NoReviews
  <1>1. ASSUME NEW q \in Req, call'[q].name = "create_objection", Ongoing(q)'
        PROVE  /\ obj'[q].logs \subseteq ActiveIn(log')
               /\ \A o \in Req : o # q /\ call'[o].name = "create_objection" /\ Ongoing(o)' =>
                     obj'[q].logs \cap obj'[o].logs = {}
    BY <1>0, <1>1, DisputesStayApart
  <1>2. ASSUME NEW r \in Req, call'[r].name = "create_objection", tx'[r].pc = "writing"
        PROVE  /\ tx'[r].old \subseteq ActiveIn(log')
               /\ \A q \in Req : q # r /\ call'[q].name = "create_objection" /\ Ongoing(q)' =>
                     obj'[q].logs \cap tx'[r].old = {}
    BY <1>0, <1>2, FilingStaysApart
  <1>3. ASSUME NEW w \in Run, tx'[w].pc = "upholding" PROVE tx'[w].old \subseteq obj'[works'[w]].logs
    <2>0. /\ tx \in [Tx -> Workspace] /\ TypeOK /\ w \in Tx /\ w \notin Req
          /\ Run \cap Req = {} /\ DOMAIN works = Run
      BY WaitingFacts DEF TypeOK
    <2>1. CASE RunPlan(w)
      <3> USE DEF Step
      <3>1. ~StartGradeExam(w) /\ ~DismissObjection(w) /\ ~ReadRegrade(w)
        <4>1. StartGradeExam(w) => tx'[w].pc = "grading"
          BY <2>0 DEF StartGradeExam, Idle
        <4>2. DismissObjection(w) => tx'[w].pc = "restoring"
          BY <2>0 DEF DismissObjection, Idle
        <4>3. ReadRegrade(w) => tx'[w].pc = "regrading"
          BY <2>0 DEF ReadRegrade, Idle
        <4> QED
          BY <1>3, <4>1, <4>2, <4>3
      <3>2. ~GradeSheet(w)
        <4> SUFFICES ASSUME GradeSheet(w) PROVE FALSE
          OBVIOUS
        <4> DEFINE as == [i \in Item |-> IF i \in Gradable THEN SheetAnswer(i) ELSE Blank]
                   pc == IF Gradable = Item THEN "writing" ELSE "failing"
        <4>1. PICK m : Step(w, [Idle EXCEPT !.pc = pc, !.items = Gradable, !.answers = as,
                                            !.marks = m, !.old = FormerResults])
          BY DEF GradeSheet
        <4>2. pc # "upholding"
          OBVIOUS
        <4> HIDE DEF as, pc
        <4> QED
          BY <1>3, <2>0, <4>1, <4>2 DEF Idle
      <3>3. UpholdObjection(w)
        BY <2>1, <3>1, <3>2 DEF RunPlan
      <3>4. PICK l \in obj[works[w]].logs, m \in Mark : Step(w, [Replace(l, m) EXCEPT !.seen = status])
        BY <3>3 DEF UpholdObjection
      <3>5. tx'[w].old = {l}
        BY <2>0, <3>4 DEF Replace, Idle
      <3> QED
        BY <3>3, <3>4, <3>5 DEF UpholdObjection, rows
    <2>2. CASE Rests(w)
      BY <1>3, <2>2 DEF Rests, Idle
    <2>3. CASE tx'[w] = tx[w]
      <3>1. /\ works[w] \in Req /\ Ongoing(works[w]) /\ call[works[w]].name = "create_objection"
            /\ ~Uncommitted(works[w])
        BY <1>3, <2>3, ReviewTasks, OngoingJobs, WaitingFacts
      <3>2. works'[w] = works[w]
        <4>1. ASSUME NEW v \in Run, RunStep(v) PROVE works'[w] = works[w]
          <5>1. CASE v = w
            <6>1. ~Takes(w)
              BY <1>3, <2>3 DEF Takes, At
            <6> QED
              BY <2>0, <4>1, <5>1, <6>1, RunFrame DEF RunMove, Continues, Concludes, Releases, Jobs
          <5>2. CASE v # w
            BY <2>0, <4>1, <5>2, RunFrame DEF Frame
          <5> QED
            BY <5>1, <5>2
        <4>2. ASSUME NEW r \in Req, RequestStep(r) PROVE works' = works
          BY <2>0, <4>2, RequestFrame
        <4> QED
          BY <4>1, <4>2, Steps DEF vars
      <3>3. obj'[works[w]].logs = obj[works[w]].logs
        <4>1. ~CommitCreateObjection(works[w])
          BY <3>1 DEF CommitCreateObjection, Uncommitted, At
        <4> QED
          BY <3>1, <4>1, ObjectionRows, WaitingFacts
      <3> QED
        BY <1>3, <2>3, <3>2, <3>3, WaitingFacts DEF Disputes, At
    <2> QED
      BY <2>0, <2>1, <2>2, <2>3, Reads
  <1>4. \A t \in Tx : tx'[t].seen \in Published => status' \in Published
    BY PublishedNext
  <1> DEFINE D1 == \A q \in Req : call[q].name = "create_objection" /\ Ongoing(q) =>
                     /\ obj[q].logs \subseteq ActiveIn(log)
                     /\ \A o \in Req : o # q /\ call[o].name = "create_objection" /\ Ongoing(o) =>
                           obj[q].logs \cap obj[o].logs = {}
             D2 == \A r \in Req : call[r].name = "create_objection" /\ At(r, "writing") =>
                     /\ tx[r].old \subseteq ActiveIn(log)
                     /\ \A q \in Req : q # r /\ call[q].name = "create_objection" /\ Ongoing(q) =>
                           obj[q].logs \cap tx[r].old = {}
  <1>5. D1'
    BY <1>1
  <1>6. D2'
    BY <1>2 DEF At
  <1>7. (\A w \in Run : At(w, "upholding") => tx[w].old \subseteq obj[works[w]].logs)'
    BY <1>3 DEF At
  <1>8. (\A t \in Tx : tx[t].seen \in Published => status \in Published)'
    BY <1>4 DEF Published
  <1> QED
    BY <1>5, <1>6, <1>7, <1>8 DEF Disputes

\* Then one actor at a time writes results: the one request, or the one task.
LEMMA WaitingWriter ==
  ASSUME WaitingInv, OneBusy, SheetFirst \/ NoReviews
  PROVE  OneWriter
  <1>1. ASSUME NEW r \in Req, NEW w \in Run, Writing(r), Writing(w) PROVE FALSE
    <2>1. status \in Answerable
      BY <1>1, WaitingFacts DEF Writing, Fresh, AnswerCalls, SheetCalls
    <2>2. tx[w].pc \in TaskLabels
      BY <1>1, WaitingFacts DEF Writing, TaskLabels, At
    <2>3. works[w] \in Req /\ call[works[w]].name = CallAt(tx[w].pc) /\ job[works[w]] # "none"
      BY <2>2, WaitingFacts DEF JobsExist
    <2>4. call[works[w]].name = "regrade_item"
      BY <2>1, <2>3, OpenSheetJobs, WaitingFacts
    <2>5. tx[w].pc = "regrading"
      BY <2>2, <2>3, <2>4 DEF CallAt, TaskLabels
    <2>6. Existing # {}
      BY <1>1, <2>5, WaitingFacts DEF Writing, XInv, OldExists, At
    <2>7. NoReviews
      BY <2>1, <2>6, WaitingFacts DEF Fresh
    <2> QED
      BY <2>3, <2>4, <2>7, WaitingFacts DEF NoReviews, CallsFit
  <1>2. \A r, q \in Req : Writing(r) /\ Writing(q) => r = q
    BY WaitingFacts DEF Writing, OneOpen, Open
  <1>3. \A v, w \in Run : Writing(v) /\ Writing(w) => v = w
    BY DEF Writing, OneBusy, Busy, At
  <1> QED
    BY <1>1, <1>2, <1>3 DEF OneWriter, Tx

LEMMA WaitingInit == Init => WaitingInv
  <1> SUFFICES ASSUME Init PROVE Ungraded /\ Disputes
    BY FInvInit, DInvInit DEF WaitingInv
  <1>1. /\ \A t \in Tx : tx[t].pc = "new" /\ tx[t].seen = "draft"
        /\ \A q \in Req : call[q].name = "none"
    BY DEF Init, Idle
  <1> QED
    BY <1>1 DEF Ungraded, Disputes, At, Published, Tx

LEMMA WaitingNext ==
  ASSUME MaxOpen <= 1, "crash" \notin Faults, SheetFirst \/ NoReviews
  PROVE  WaitingInv /\ [Next]_vars => WaitingInv'
  <1> SUFFICES ASSUME WaitingInv, [Next]_vars PROVE WaitingInv'
    OBVIOUS
  <1>1. FInv' /\ DInv'
    BY FInvNext, DInvNext, WaitingFacts
  <1>2. CallsFit'
    BY CallsFitNext, WaitingFacts
  <1> QED
    BY <1>1, <1>2, UngradedNext, DisputesNext DEF WaitingInv

\* What a step of this client or a sole worker does to the results.
LEMMA WaitingResults ==
  ASSUME WaitingInv, OneBusy, [Next]_vars, Workers <= 1, SheetFirst \/ NoReviews
  PROVE  /\ OneBusy'
         /\ SoleResults => SoleResults'
         /\ "verdict" \notin Faults /\ SoleTotals => SoleTotals'
  <1>0. TypeOK /\ OneWriter /\ OneBusy'
    BY WaitingWriter, WaitingFacts, NextMoves, OneAtATime
  <1>1. ASSUME NEW w \in Run, UpholdObjection(w) PROVE obj[works[w]].logs \subseteq ActiveIn(log)
    BY <1>1, WaitingFacts DEF UpholdObjection, Disputes
  <1>2. ASSUME NEW r \in Req, CommitSubmitAnswer(r) PROVE status' \notin Published
    <2>1. status \in Answerable
      BY <1>2, WaitingFacts DEF CommitSubmitAnswer, Fresh, SheetCalls, At
    <2> QED
      BY <1>2, <2>1 DEF CommitSubmitAnswer, Answerable, Published
  <1>3. ASSUME NEW r \in Req, CommitCreateObjection(r), status' \in Published
        PROVE  status \in Published
    BY <1>3, WaitingFacts DEF CommitCreateObjection, Disputes, Published
  <1>4. ASSUME NEW w \in Run, CommitDismissedObjection(w), status' \in Published
        PROVE  status \in Published
    BY <1>4, WaitingFacts DEF CommitDismissedObjection, Restores, Disputes, Published
  <1>5. "verdict" \notin Faults => \A w \in Run : ~FailUpholding(w)
    BY DEF FailUpholding
  <1> QED
    BY <1>0, <1>1, <1>2, <1>3, <1>4, <1>5, SoleResultsNext, SoleTotalsNext

\* A client that waits for one request before it makes the next gets one result
\* per item, reviewed or not, as long as one worker runs the tasks, no message
\* is delivered twice, and results are reviewed only when all are there.
THEOREM WaitingClientsCountOnce ==
  ASSUME MaxOpen <= 1, Workers <= 1, "crash" \notin Faults, SheetFirst \/ NoReviews
  PROVE  Spec => []OneActiveResult
  <1>1. WaitingInv /\ SoleResults => OneActiveResult
    BY SoleResultsCount, WaitingFacts
  <1>2. Init => WaitingInv /\ OneBusy /\ SoleResults
    BY WaitingInit, SoleInit
  <1>3. WaitingInv /\ OneBusy /\ SoleResults /\ [Next]_vars => (WaitingInv /\ OneBusy /\ SoleResults)'
    BY WaitingNext, WaitingResults
  <1> QED
    BY <1>1, <1>2, <1>3, PTL DEF Spec

\* The totals it is shown are those of the results, if no review stops between
\* the two logs it replaces.
THEOREM WaitingClientsSeeTheirTotals ==
  ASSUME MaxOpen <= 1, Workers <= 1, Faults \cap {"crash", "verdict"} = {}, SheetFirst \/ NoReviews
  PROVE  Spec => []TotalsAgree
  <1>1. SoleTotals => TotalsAgree
    BY DEF SoleTotals
  <1>2. Init => WaitingInv /\ OneBusy /\ SoleTotals
    BY WaitingInit, SoleInit
  <1>3. WaitingInv /\ OneBusy /\ SoleTotals /\ [Next]_vars => (WaitingInv /\ OneBusy /\ SoleTotals)'
    BY WaitingNext, WaitingResults
  <1> QED
    BY <1>1, <1>2, <1>3, PTL DEF Spec

-----------------------------------------------------------------------------
\* Exam mode implements ExamPaper: requests, drafts, jobs and tasks, in
\* their interleavings, are a sheet that is written, handed in once and
\* published once, whose marks are then amended item by item.
\*
\* The step that publishes is the hard one.  It must find the sheet that
\* was graded (FromSheet), all of it, which two draft rows of an item
\* would prevent (OneDraft, PaperPlans), and no results from before
\* (PublishedMarks).

\* An exam taken by a client that waits for its requests.  A crash would have
\* it graded twice; a failed charge of the credits leaves results behind in a
\* session that is not graded, and a malformed verdict an item without one; a
\* batch is marked for the answers it brings, not for those of the sheet.
WaitingExam == /\ Mode = "exam" /\ MaxOpen <= 1 /\ "batch" \notin Calls
               /\ Faults \cap {"crash", "verdict", "charge"} = {}

\* An item has one draft row, and who is about to write a row has found none
\* but that one.
OneDraft ==
    /\ \A i \in Item : \A r, q \in DraftRows(i) : r = q
    /\ \A r \in Req : call[r].name = "save_draft" /\ At(r, "writing") /\ tx[r].row # NoReq =>
          DraftRows(call[r].item) \subseteq {tx[r].row}

\* A grading marks every item, a blank one with 0; a review or a regrade
\* changes the results of one item.
PaperPlans ==
    \A w \in Run :
        /\ ~At(w, "failing")
        /\ At(w, "writing") =>
              /\ tx[w].items = Item
              /\ \A i \in Item : tx[w].answers[i] = Blank => tx[w].marks[i] = 0
        /\ At(w, "upholding") => \E i \in Item : tx[w].items = {i}
        /\ At(w, "regrading") => \E i \in Item : \A l \in tx[w].old : l[2] = i

\* Results are there exactly when they are published.
PublishedMarks ==
    /\ Existing # {} => status \in Published
    /\ status \in Published => Complete

PaperInv == WaitingInv /\ FromSheet /\ IInv /\ OneDraft /\ PaperPlans /\ PublishedMarks

LEMMA PaperInit == Init => PaperInv
  <1> SUFFICES ASSUME Init PROVE FromSheet /\ OneDraft /\ PaperPlans /\ PublishedMarks
    BY WaitingInit, IInvInit DEF PaperInv
  <1>1. /\ \A t \in Tx : tx[t].pc = "new"
        /\ \A i \in Item : DraftRows(i) = {}
        /\ \A l \in LogId : log[l].st = "none"
        /\ status \notin Published
    BY DEF Init, Idle, DraftRows, Published
  <1>2. FromSheet
    BY MInvInit DEF MInv
  <1> QED
    BY <1>1, <1>2 DEF OneDraft, PaperPlans, PublishedMarks, Existing, At, Tx

\* Then the grader reads the drafts of all items.
LEMMA AllGradable == OneDraft => Gradable = Item
  <1> SUFFICES ASSUME OneDraft, NEW i \in Item PROVE Cardinality(DraftRows(i)) <= 1
    <2>1. ASSUME \A i \in Item : Cardinality(DraftRows(i)) <= 1 PROVE Gradable = Item
      <3>1. \A i \in Item : \A j \in 1..i : j \in Item
        BY StoreAssumption DEF Item
      <3> QED
        BY <2>1, <3>1 DEF Gradable
    <2> QED
      BY <2>1
  <1>1. CASE DraftRows(i) = {}
    BY <1>1, FS_EmptySet
  <1>2. ASSUME NEW r \in DraftRows(i) PROVE Cardinality(DraftRows(i)) <= 1
    <2>1. DraftRows(i) = {r}
      BY DEF OneDraft
    <2>2. Cardinality({r}) = 1
      BY FS_Singleton
    <2> QED
      BY <2>1, <2>2
  <1> QED
    BY <1>1, <1>2

\* The draft that a commit writes is the only one of its item.
LEMMA SavedDraft ==
  ASSUME WaitingInv, OneDraft, NEW r \in Req, CommitSaveDraft(r)
  PROVE  \/ draft' = draft
         \/ \E i \in Item, a \in Answer \cup {Blank}, q \in Req :
               /\ DraftRows(i)' = {q} /\ draft'[i][q] = a
               /\ \A j \in Item \ {i} : DraftRows(j)' = DraftRows(j) /\ draft'[j] = draft[j]
  <1>0. /\ call[r].item \in Item /\ tx[r] \in Workspace
        /\ draft \in [Item -> [Req -> Answer \cup {Blank, NoDraft}]]
    BY WaitingFacts DEF TypeOK, Tx
  <1>1. PICK i \in Item, a \in Answer \cup {Blank}, q \in Req \cup {NoReq} :
           i = call[r].item /\ a = tx[r].answers[i] /\ q = tx[r].row
    BY <1>0 DEF Workspace
  <1>2. CASE q = NoReq
    BY <1>1, <1>2 DEF CommitSaveDraft
  <1>3. CASE q \in Req
    <2>1. draft' = [draft EXCEPT ![i][q] = a]
      BY <1>1, <1>3, StoreAssumption DEF CommitSaveDraft
    <2>2. DraftRows(i) \subseteq {q}
      BY <1>1, <1>3, StoreAssumption DEF CommitSaveDraft, OneDraft
    <2>3. a # NoDraft
      BY StoreAssumption DEF Blank, NoDraft
    <2>4. draft'[i] = [draft[i] EXCEPT ![q] = a] /\ \A j \in Item \ {i} : draft'[j] = draft[j]
      BY <1>0, <2>1
    <2>5. draft'[i][q] = a /\ \A o \in Req \ {q} : draft'[i][o] = draft[i][o]
      BY <1>0, <1>3, <2>4
    <2>6. DraftRows(i)' = {q}
      BY <1>3, <2>2, <2>3, <2>5 DEF DraftRows
    <2>7. \A j \in Item \ {i} : DraftRows(j)' = DraftRows(j)
      BY <2>4 DEF DraftRows
    <2> QED
      BY <1>3, <2>4, <2>5, <2>6, <2>7
  <1> QED
    BY <1>2, <1>3

LEMMA OneDraftNext ==
  ASSUME WaitingInv, OneDraft, [Next]_vars
  PROVE  OneDraft'
  <1>0. /\ TypeOK /\ OneOpen /\ Req \subseteq Tx /\ Run \subseteq Tx /\ Req \cap Run = {}
        /\ tx \in [Tx -> Workspace]
    BY WaitingFacts DEF TypeOK
  <1>1. ASSUME NEW r \in Req, CommitSaveDraft(r), draft' # draft PROVE OneDraft'
    <2>1. PICK i \in Item, q \in Req : /\ DraftRows(i)' = {q}
                                      /\ \A j \in Item \ {i} : DraftRows(j)' = DraftRows(j)
      BY <1>1, SavedDraft
    <2>2. \A j \in Item : \A o, u \in DraftRows(j)' : o = u
      BY <2>1 DEF OneDraft
    <2>3. \A u \in Req : tx'[u].pc # "writing"
      <3>1. Open(r) /\ tx'[r].pc = "done" /\ \A u \in Tx \ {r} : tx'[u] = tx[u]
        BY <1>0, <1>1, StepMoves DEF CommitSaveDraft, Moves, Open, At
      <3> QED
        BY <1>0, <3>1 DEF OneOpen, Open
    <2> QED
      BY <2>2, <2>3 DEF OneDraft, At
  <1>2. ASSUME draft' = draft PROVE OneDraft'
    <2>0. \A i : DraftRows(i)' = DraftRows(i)
      BY <1>2 DEF DraftRows
    <2>1. ASSUME NEW r \in Req, call'[r].name = "save_draft", tx'[r].pc = "writing",
                 tx'[r].row # NoReq
          PROVE  DraftRows(call'[r].item) \subseteq {tx'[r].row}
      <3>1. CASE RequestPlan(r)
        <4>1. ASSUME NEW name, NEW i, NEW q, Calling(r, name, i, q)
              PROVE  call'[r].name = name /\ call'[r].item = i
          BY <1>0, <4>1 DEF Calling, TypeOK
        <4>2. BeginSaveDraft(r)
          BY <2>1, <3>1, <4>1 DEF RequestPlan, BeginSubmitAnswer, GradeSubmittedAnswer,
             BeginComplete, BeginBatch, GradeBatch, BeginSubmitExam, BeginCreateObjection
        <4>3. PICK i \in Item, a \in Answer \cup {Blank} :
                /\ Calling(r, "save_draft", i, NoReq)
                /\ \E q \in IF DraftRows(i) = {} THEN {r} ELSE DraftRows(i) :
                     Step(r, [Idle EXCEPT !.pc = "writing", !.seen = status, !.answers[i] = a,
                                          !.row = IF draft[i][q] = a THEN NoReq ELSE q])
          BY <4>2 DEF BeginSaveDraft
        <4>4. PICK q \in IF DraftRows(i) = {} THEN {r} ELSE DraftRows(i) :
                Step(r, [Idle EXCEPT !.pc = "writing", !.seen = status, !.answers[i] = a,
                                     !.row = IF draft[i][q] = a THEN NoReq ELSE q])
          BY <4>3
        <4>5. tx'[r].row \in {NoReq, q}
          BY <1>0, <4>4 DEF Step, Idle
        <4>6. DraftRows(i) \subseteq {q}
          BY <4>4 DEF OneDraft
        <4> QED
          BY <2>1, <4>1, <4>3, <4>5, <4>6
      <3>2. CASE Rests(r)
        BY <2>1, <3>2 DEF Rests, Idle
      <3>3. CASE tx'[r] = tx[r] /\ call'[r] = call[r]
        BY <2>1, <3>3 DEF OneDraft, At
      <3> QED
        BY <1>0, <3>1, <3>2, <3>3, Reads
    <2> QED
      BY <2>0, <2>1 DEF OneDraft, At
  <1> QED
    BY <1>0, <1>1, <1>2, DraftSteps

\* A task reads all of the sheet, the one log under objection, or the active
\* logs of one item.
LEMMA PaperPlansNext ==
  ASSUME WaitingInv, OneDraft, PaperPlans, [Next]_vars, WaitingExam
  PROVE  PaperPlans'
  <1>0. /\ TypeOK /\ Run \subseteq Tx /\ Req \cap Run = {} /\ tx \in [Tx -> Workspace]
    BY WaitingFacts DEF TypeOK
  <1> SUFFICES ASSUME NEW w \in Run
      PROVE  /\ tx'[w].pc # "failing"
             /\ tx'[w].pc = "writing" =>
                   /\ tx'[w].items = Item
                   /\ \A i \in Item : tx'[w].answers[i] = Blank => tx'[w].marks[i] = 0
             /\ tx'[w].pc = "upholding" => \E i \in Item : tx'[w].items = {i}
             /\ tx'[w].pc = "regrading" => \E i \in Item : \A l \in tx'[w].old : l[2] = i
    BY DEF PaperPlans, At
  <1>1. CASE tx'[w] = tx[w]
    BY <1>1 DEF PaperPlans, At
  <1>2. CASE Rests(w)
    BY <1>2 DEF Rests, Idle
  <1>3. CASE GradeSheet(w)
    <2> DEFINE as == [i \in Item |-> IF i \in Gradable THEN SheetAnswer(i) ELSE Blank]
               pc == IF Gradable = Item THEN "writing" ELSE "failing"
    <2>1. PICK m \in GradeSingleAnswer(Gradable, as) :
             Step(w, [Idle EXCEPT !.pc = pc, !.items = Gradable, !.answers = as,
                                  !.marks = m, !.old = FormerResults])
      BY <1>3 DEF GradeSheet
    <2>2. Gradable = Item /\ pc = "writing"
      BY AllGradable
    <2>3. \A i \in Item : as[i] = Blank => m[i] = 0
      BY <2>1 DEF GradeSingleAnswer
    <2> HIDE DEF as, pc
    <2>4. tx'[w].pc = pc /\ tx'[w].items = Gradable /\ tx'[w].answers = as /\ tx'[w].marks = m
      BY <1>0, <2>1 DEF Step, Idle
    <2> QED
      BY <2>2, <2>3, <2>4
  <1>4. CASE UpholdObjection(w)
    <2>1. PICK l \in obj[works[w]].logs, m \in Mark :
            Step(w, [Replace(l, m) EXCEPT !.seen = status])
      BY <1>4 DEF UpholdObjection
    <2>2. tx'[w].pc = "upholding" /\ tx'[w].items = {l[2]}
      BY <1>0, <2>1 DEF Step, Replace, Idle
    <2>3. l[2] \in Item
      BY <1>0, <1>4, <2>1 DEF UpholdObjection, RunAt, TypeOK, LogId
    <2> QED
      BY <2>2, <2>3
  <1>5. CASE ReadRegrade(w)
    <2>1. tx'[w].pc = "regrading" /\ tx'[w].old = ActiveOf(call[works[w]].item)
      BY <1>0, <1>5 DEF ReadRegrade, Step, Idle
    <2>2. call[works[w]].item \in Item
      BY <1>0, <1>5 DEF ReadRegrade, RunAt, TypeOK
    <2> QED
      BY <2>1, <2>2 DEF ActiveOf
  <1>6. CASE StartGradeExam(w)
    BY <1>0, <1>6 DEF StartGradeExam, Step, Idle
  <1>7. CASE DismissObjection(w)
    <2>1. tx'[w].pc = "restoring"
      BY <1>0, <1>7 DEF DismissObjection, Step, Idle
    <2> QED
      BY <2>1
  <1> QED
    BY <1>0, <1>1, <1>2, <1>3, <1>4, <1>5, <1>6, <1>7, Reads DEF RunPlan

\* Who inserts results into an exam.
LEMMA ExamInserts ==
  ASSUME PaperInv, WaitingExam, NEW t \in Tx, Inserts(t)
  PROVE  t \in Run /\ (CommitGradeExam(t) \/ CommitUpheldObjection(t))
  <1>1. CASE t \in Req
    BY <1>1, WaitingFacts DEF PaperInv, WaitingExam, Inserts, Answers, CommitSubmitAnswer,
       CommitComplete, CommitBatch, CallsFit
  <1>2. CASE t \in Run
    <2>1. ~FailGradeExam(t)
      BY <1>2 DEF PaperInv, PaperPlans, WaitingExam, FailGradeExam, RunAt, At
    <2> QED
      BY <1>2, <2>1, WaitingFacts DEF PaperInv, Inserts, Marks
  <1> QED
    BY <1>1, <1>2 DEF Tx

\* Results are published by the commit of the grading.
LEMMA PublishingStep ==
  ASSUME PaperInv, [Next]_vars, WaitingExam, status \notin Published, status' \in Published
  PROVE  \E w \in Run : CommitGradeExam(w)
  <1>0. WaitingInv /\ FInv /\ TypeOK /\ PublishedMarks /\ CallsFit
    BY WaitingFacts DEF PaperInv
  <1>1. Existing = {}
    BY <1>0 DEF PublishedMarks
  <1> USE DEF Published
  <1>2. ASSUME NEW r \in Req, RequestStep(r) PROVE FALSE
    <2>1. ~Answers(r)
      BY <1>0 DEF WaitingExam, Answers, CommitSubmitAnswer, CommitComplete, CommitBatch,
         CallsFit
    <2>2. ~CommitCreateObjection(r)
      <3>1. CommitCreateObjection(r) => \E l \in LogId : tx[r].old = {l}
        BY <1>0 DEF CommitCreateObjection, FInv, XInv, OneLog
      <3>2. tx[r].old = {}
        BY <1>0, <1>1 DEF FInv, XInv, OldExists, Tx
      <3> QED
        BY <3>1, <3>2
    <2>3. CASE CommitSaveDraft(r)
      BY <2>3 DEF CommitSaveDraft
    <2>4. CASE CommitSubmitExam(r)
      BY <2>4 DEF CommitSubmitExam
    <2> QED
      BY <1>2, <2>1, <2>2, <2>3, <2>4, RequestWrites DEF RequestCommit
  <1>3. ASSUME NEW w \in Run, RunStep(w), ~CommitGradeExam(w) PROVE FALSE
    <2>1. ~CommitUpheldObjection(w) /\ ~CommitDismissedObjection(w)
      BY <1>0, <1>1, ReviewTasks DEF CommitUpheldObjection, CommitDismissedObjection, RunAt
    <2>2. ~FailGradeExam(w)
      BY DEF FailGradeExam, FailedGrading
    <2>3. CASE StartGradeExam(w)
      BY <2>3 DEF StartGradeExam
    <2>4. CASE FailUpholding(w)
      BY <2>4 DEF FailUpholding
    <2>5. CASE CommitRegrade(w)
      BY <2>5 DEF CommitRegrade
    <2> QED
      BY <1>3, <2>1, <2>2, <2>3, <2>4, <2>5, RunWrites DEF RunCommit, Marks
  <1>4. UNCHANGED vars => status' = status
    BY DEF vars, rows
  <1> QED
    BY <1>2, <1>3, <1>4, Steps

LEMMA PublishedMarksNext ==
  ASSUME PaperInv, [Next]_vars, WaitingExam, AnsweredKeepsResult'
  PROVE  PublishedMarks'
  <1>0. /\ WaitingInv /\ TypeOK /\ XInv /\ PublishedMarks /\ Req \cap Run = {}
    BY WaitingFacts DEF PaperInv
  <1>1. status \in Published => status' \in Published
    BY <1>0, PublishedNext
  <1>2. ASSUME NEW t \in Tx, Inserts(t) PROVE status' \in Published
    <2>1. CASE CommitGradeExam(t)
      BY <2>1 DEF CommitGradeExam, Published
    <2>2. CASE t \in Run /\ CommitUpheldObjection(t)
      <3>1. Existing # {}
        BY <1>0, <2>2, ReviewTasks DEF CommitUpheldObjection, RunAt
      <3> QED
        BY <1>0, <1>1, <3>1 DEF PublishedMarks
    <2> QED
      BY <1>2, <2>1, <2>2, ExamInserts
  <1>3. Existing' # {} => status' \in Published
    <2> SUFFICES ASSUME NEW l \in Existing' PROVE status' \in Published
      OBVIOUS
    <2>1. l \in LogId /\ l[1] \in Tx
      BY DEF Existing, LogId
    <2>2. CASE l \in Existing
      BY <1>0, <1>1, <2>2 DEF PublishedMarks
    <2> QED
      BY <1>0, <1>2, <2>1, <2>2, LogRows
  <1>4. ASSUME status \in Published PROVE Complete'
    <2> SUFFICES ASSUME NEW i \in Item PROVE HasResult(log', i)
      BY CompleteDef
    <2>1. PICK l \in LogId : log[l].st = "active" /\ l[2] = i
      BY <1>0, <1>4, CompleteDef DEF PublishedMarks, HasResult
    <2>2. l \in Existing'
      BY <1>0, <2>1, LogRows DEF Existing
    <2> QED
      BY <2>1, <2>2, CompleteDef DEF Existing, IsAnswered
  <1>5. ASSUME status \notin Published, status' \in Published PROVE Complete'
    <2>1. PICK w \in Run : CommitGradeExam(w)
      BY <1>0, <1>5, PublishingStep
    <2>2. tx[w].items = Item /\ log' = Recorded(w, tx[w]) /\ w \in Tx
      BY <2>1 DEF PaperInv, PaperPlans, CommitGradeExam, RunAt, At, Tx
    <2> SUFFICES ASSUME NEW i \in Item PROVE HasResult(log', i)
      BY CompleteDef
    <2>3. <<w, i>> \in LogId /\ log'[<<w, i>>].st = "active"
      BY <2>2 DEF LogId, Recorded
    <2> QED
      BY <2>3 DEF HasResult
  <1> QED
    BY <1>3, <1>4, <1>5 DEF PublishedMarks

LEMMA PaperNext ==
  ASSUME WaitingExam
  PROVE  PaperInv /\ [Next]_vars => PaperInv'
  <1> SUFFICES ASSUME PaperInv, [Next]_vars PROVE PaperInv'
    OBVIOUS
  <1>0. MaxOpen <= 1 /\ Mode = "exam" /\ "batch" \notin Calls /\ SheetFirst
        /\ "crash" \notin Faults /\ "verdict" \notin Faults
    BY ExamIsSheetFirst DEF WaitingExam
  <1>1. WaitingInv'
    BY <1>0, WaitingNext DEF PaperInv
  <1>2. FromSheet'
    BY <1>0, MInvNext DEF PaperInv, MInv, WaitingInv
  <1>3. IInv'
    BY <1>0, IInvNext DEF PaperInv
  <1>4. OneDraft'
    BY OneDraftNext DEF PaperInv
  <1>5. PaperPlans'
    BY PaperPlansNext DEF PaperInv
  <1>6. PublishedMarks'
    BY <1>3, PublishedMarksNext DEF IInv
  <1> QED
    BY <1>1, <1>2, <1>3, <1>4, <1>5, <1>6 DEF PaperInv

-----------------------------------------------------------------------------
\* What a step of the session is for the paper.

sheetNow == [i \in Item |-> SheetAnswer(i)]
marksNow == [i \in Item |-> ItemMark(i)]

LEMMA SameSheet == draft' = draft => sheetNow' = sheetNow
  BY DEF sheetNow, SheetAnswer, DraftRows

LEMMA Unmarked == phase # "marked" /\ phase' # "marked" => marksNow' = marksNow
  BY DEF marksNow, ItemMark

LEMMA Phases ==
  /\ phase = "open" <=> status \in Answerable
  /\ phase = "marked" <=> status \in Published
  /\ phase = "handed_in" <=> status \notin Answerable \cup Published
  /\ phase' = "open" <=> status' \in Answerable
  /\ phase' = "marked" <=> status' \in Published
  /\ phase' = "handed_in" <=> status' \notin Answerable \cup Published
  BY DEF phase, Answerable, Published

\* The mark of an item is that of one of its active logs.
LEMMA MarkOf ==
  ASSUME status' \in Published, Complete', NEW i \in Item
  PROVE  \E l \in ActiveOf(i)' : ItemMark(i)' = log'[l].mark
  <1>1. ActiveOf(i)' # {}
    BY DEF Complete
  <1>2. phase' = "marked"
    BY Phases
  <1> QED
    BY <1>1, <1>2 DEF ItemMark

LEMMA WritingRefines ==
  ASSUME PaperInv, NEW r \in Req, CommitSaveDraft(r), draft' # draft
  PROVE  \E i \in Item, a \in Answer \cup {Blank} : Paper!Write(i, a)
  <1>0. WaitingInv /\ OneDraft /\ status \in Answerable
    BY WaitingFacts DEF PaperInv, Fresh, CommitSaveDraft, At, SheetCalls
  <1>1. phase = "open" /\ phase' = "open"
    BY <1>0, Phases DEF CommitSaveDraft, Answerable
  <1>2. PICK i \in Item, a \in Answer \cup {Blank}, q \in Req :
           /\ DraftRows(i)' = {q} /\ draft'[i][q] = a
           /\ \A j \in Item \ {i} : DraftRows(j)' = DraftRows(j) /\ draft'[j] = draft[j]
    BY <1>0, SavedDraft
  <1>3. SheetAnswer(i)' = a
    BY <1>2 DEF SheetAnswer
  <1>4. ASSUME NEW j \in Item \ {i} PROVE SheetAnswer(j)' = SheetAnswer(j)
    <2>1. DraftRows(j)' = DraftRows(j) /\ draft'[j] = draft[j]
      BY <1>2
    <2> QED
      BY <2>1 DEF SheetAnswer
  <1>5. sheetNow' = [sheetNow EXCEPT ![i] = a]
    BY <1>3, <1>4 DEF sheetNow
  <1>6. marksNow' = marksNow
    BY <1>1, Unmarked
  <1> QED
    BY <1>1, <1>5, <1>6 DEF Paper!Write, sheetNow, marksNow

LEMMA HandingInRefines ==
  ASSUME PaperInv, WaitingExam, [Next]_vars, draft' = draft, status \in Answerable
  PROVE  [Paper!Next]_<<phase, sheetNow, marksNow>>
  <1>0. /\ WaitingInv /\ FInv /\ Fresh /\ CallsFit /\ SheetFirst
        /\ sheetNow' = sheetNow /\ phase = "open"
    BY WaitingFacts, ExamIsSheetFirst, SameSheet, Phases DEF PaperInv, WaitingExam
  <1>1. status' = status \/ status' \in {"in_progress", "grading"}
    <2>1. ASSUME NEW r \in Req, RequestStep(r)
          PROVE  status' = status \/ status' \in {"in_progress", "grading"}
      <3>1. ~Answers(r)
        BY <1>0 DEF WaitingExam, Answers, CommitSubmitAnswer, CommitComplete, CommitBatch,
           CallsFit
      <3>2. ~CommitCreateObjection(r)
        <4>1. CommitCreateObjection(r) => \E l \in LogId : tx[r].old = {l}
          BY <1>0 DEF CommitCreateObjection, FInv, XInv, OneLog
        <4>2. tx[r].old = {}
          BY <1>0 DEF Fresh, FInv, XInv, OldExists, Tx
        <4> QED
          BY <4>1, <4>2
      <3>3. CASE CommitSaveDraft(r)
        BY <3>3 DEF CommitSaveDraft
      <3>4. CASE CommitSubmitExam(r)
        BY <3>4 DEF CommitSubmitExam
      <3> QED
        BY <2>1, <3>1, <3>2, <3>3, <3>4, RequestWrites DEF RequestCommit
    <2>2. ASSUME NEW w \in Run, RunStep(w) PROVE status' = status
      BY <1>0, <2>2, RunKeepsSheet
    <2>3. UNCHANGED vars => status' = status
      BY DEF vars, rows
    <2> QED
      BY <2>1, <2>2, <2>3, Steps
  <1>2. phase' \in {"open", "handed_in"}
    BY <1>1, Phases DEF Answerable, Published
  <1>3. marksNow' = marksNow
    BY <1>0, <1>2, Unmarked
  <1>4. CASE phase' = "open"
    BY <1>0, <1>3, <1>4
  <1>5. CASE phase' = "handed_in"
    <2>1. Paper!HandIn
      BY <1>0, <1>3, <1>5 DEF Paper!HandIn, sheetNow, marksNow
    <2> QED
      BY <2>1 DEF Paper!Next
  <1> QED
    BY <1>2, <1>4, <1>5

LEMMA PublishingRefines ==
  ASSUME PaperInv, PaperInv', WaitingExam, [Next]_vars, draft' = draft,
         status \notin Answerable \cup Published
  PROVE  [Paper!Next]_<<phase, sheetNow, marksNow>>
  <1>0. /\ WaitingInv /\ TypeOK /\ Fresh /\ phase = "handed_in" /\ sheetNow' = sheetNow
        /\ SubmittedOnce
    BY WaitingFacts, SameSheet, Phases DEF PaperInv
  <1>1. status' \notin Answerable
    BY <1>0, Reopening DEF Fresh
  <1>2. CASE status' \notin Published
    <2>1. phase' = phase
      BY <1>0, <1>1, <1>2, Phases
    <2> QED
      BY <1>0, <2>1, Unmarked
  <1>3. CASE status' \in Published
    <2>1. PICK w \in Run : CommitGradeExam(w)
      BY <1>3, PublishingStep
    <2>2. /\ w \in Tx /\ tx[w] \in Workspace /\ log' = Recorded(w, tx[w])
          /\ At(w, "writing")
      BY <1>0, <2>1 DEF CommitGradeExam, RunAt, TypeOK, At, Tx
    <2>3. /\ \A l \in LogId : log[l].st = "none"
          /\ \A i \in Item : tx[w].answers[i] = SheetAnswer(i)
          /\ \A i \in Item : tx[w].answers[i] = Blank => tx[w].marks[i] = 0
      BY <2>2 DEF PaperInv, PublishedMarks, PaperPlans, FromSheet, Existing, At
    <2>4. ASSUME NEW i \in Item PROVE ItemMark(i)' = tx[w].marks[i]
      <3>1. PICK l \in ActiveOf(i)' : ItemMark(i)' = log'[l].mark
        BY <1>3, MarkOf DEF PaperInv, PublishedMarks
      <3>2. l \in LogId /\ l[2] = i /\ log'[l].st = "active"
        BY <3>1 DEF ActiveOf, ActiveIn
      <3>3. log'[l].mark = tx[w].marks[i]
        BY <2>2, <2>3, <3>2 DEF Recorded
      <3> QED
        BY <3>1, <3>3
    <2>5. /\ marksNow' \in [Item -> Mark]
          /\ \A i \in Item : sheetNow[i] = Blank => marksNow'[i] = 0
      BY <2>2, <2>3, <2>4 DEF marksNow, sheetNow, Workspace
    <2>6. phase' = "marked"
      BY <1>3, Phases
    <2>7. Paper!Publish
      BY <1>0, <2>5, <2>6 DEF Paper!Publish, sheetNow, marksNow
    <2> QED
      BY <2>7 DEF Paper!Next
  <1> QED
    BY <1>2, <1>3

\* A step that touches the results of one item of a published exam.
LEMMA AmendingItem ==
  ASSUME PaperInv, PaperInv', status \in Published, status' \in Published, draft' = draft,
         NEW i \in Item, \A l \in LogId : l[2] # i => log'[l] = log[l]
  PROVE  [Paper!Next]_<<phase, sheetNow, marksNow>>
  <1>0. phase = "marked" /\ phase' = "marked" /\ sheetNow' = sheetNow /\ TypeOK'
    BY Phases, SameSheet, WaitingFacts DEF PaperInv, IInv
  <1>1. ASSUME NEW j \in Item, j # i PROVE ItemMark(j)' = ItemMark(j)
    <2>1. ActiveOf(j)' = ActiveOf(j)
      BY <1>1 DEF ActiveOf, ActiveIn
    <2>2. \A l \in ActiveOf(j) : log'[l] = log[l]
      BY <1>1 DEF ActiveOf, ActiveIn
    <2>3. ActiveOf(j) # {}
      BY DEF PaperInv, PublishedMarks, Complete
    <2> QED
      BY <1>0, <2>1, <2>2, <2>3 DEF ItemMark
  <1>2. ItemMark(i)' \in Mark
    <2>1. PICK l \in ActiveOf(i)' : ItemMark(i)' = log'[l].mark
      BY MarkOf DEF PaperInv, PublishedMarks
    <2>2. log'[l] \in AnswerLog
      BY <1>0, <2>1 DEF ActiveOf, ActiveIn, TypeOK
    <2> QED
      BY <2>1, <2>2 DEF AnswerLog
  <1>3. PICK m \in Mark : m = ItemMark(i)'
    BY <1>2
  <1>4. marksNow' = [marksNow EXCEPT ![i] = m]
    BY <1>1, <1>3 DEF marksNow
  <1>5. Paper!Amend(i, m)
    BY <1>0, <1>4 DEF Paper!Amend, sheetNow, marksNow
  <1> QED
    BY <1>3, <1>5 DEF Paper!Next

LEMMA AmendingRefines ==
  ASSUME PaperInv, PaperInv', WaitingExam, [Next]_vars, draft' = draft, status \in Published
  PROVE  [Paper!Next]_<<phase, sheetNow, marksNow>>
  <1>0. /\ WaitingInv /\ TypeOK /\ status' \in Published
        /\ phase = "marked" /\ phase' = "marked" /\ sheetNow' = sheetNow
    BY WaitingFacts, PublishedNext, Phases, SameSheet DEF PaperInv
  <1>1. CASE log' = log
    <2>1. marksNow' = marksNow
      BY <1>0, <1>1 DEF marksNow, ItemMark, ActiveOf, ActiveIn
    <2> QED
      BY <1>0, <2>1
  <1>2. ASSUME NEW w \in Run, CommitUpheldObjection(w)
        PROVE  \E i \in Item : \A l \in LogId : l[2] # i => log'[l] = log[l]
    <2>1. At(w, "upholding") /\ log' = Recorded(w, tx[w]) /\ w \in Tx
      BY <1>2 DEF CommitUpheldObjection, RunAt, At, Tx
    <2>2. PICK i \in Item : tx[w].items = {i}
      BY <2>1 DEF PaperInv, PaperPlans
    <2>3. \A l \in tx[w].old : l[2] = i
      BY <2>1, <2>2 DEF PaperInv, IInv, PlansAreSafe, SafePlan, Recording, At
    <2> QED
      BY <2>1, <2>2, <2>3 DEF Recorded
  <1>3. ASSUME NEW w \in Run, CommitRegrade(w)
        PROVE  \E i \in Item : \A l \in LogId : l[2] # i => log'[l] = log[l]
    <2>1. At(w, "regrading") /\ \E m : log' = Regraded(tx[w].old, m)
      BY <1>3 DEF CommitRegrade, RunAt, At
    <2>2. PICK i \in Item : \A l \in tx[w].old : l[2] = i
      BY <2>1 DEF PaperInv, PaperPlans
    <2> QED
      BY <2>1, <2>2 DEF Regraded
  <1>4. \/ log' = log
        \/ \E w \in Run : CommitUpheldObjection(w) \/ CommitRegrade(w)
    <2>1. ASSUME NEW w \in Run PROVE ~CommitGradeExam(w) /\ ~FailUpholding(w)
      BY <1>0, GradingTasks DEF CommitGradeExam, RunAt, FailUpholding, WaitingExam, Published
    <2> QED
      BY <1>0, <2>1, LogSteps, ExamInserts
  <1> QED
    BY <1>0, <1>1, <1>2, <1>3, <1>4, AmendingItem

LEMMA PaperStep ==
  ASSUME PaperInv, PaperInv', WaitingExam, [Next]_vars
  PROVE  [Paper!Next]_<<phase, sheetNow, marksNow>>
  <1>1. CASE draft' # draft
    <2>1. PICK r \in Req : CommitSaveDraft(r)
      BY <1>1, DraftSteps DEF PaperInv, IInv
    <2>2. \E i \in Item, a \in Answer \cup {Blank} : Paper!Write(i, a)
      BY <1>1, <2>1, WritingRefines
    <2> QED
      BY <2>2 DEF Paper!Next
  <1>2. CASE draft' = draft
    BY <1>2, HandingInRefines, PublishingRefines, AmendingRefines
  <1> QED
    BY <1>1, <1>2

\* Exam mode implements ExamPaper for every number of items, requests and
\* tasks, under every interleaving of the requests of a client that waits with
\* the tasks of all workers: the sheet is handed in once, published once as it
\* was handed in, and amended item by item (quiz.py, submit_exam and save_draft;
\* quiz_service.py, grade_exam; objection and regrade tasks).
THEOREM ExamsImplementPaper == ASSUME WaitingExam PROVE Spec => ImplementsExamPaper
  <1>1. Init => Paper!Init
    <2> SUFFICES ASSUME Init PROVE Paper!Init
      OBVIOUS
    <2>1. phase = "open"
      BY DEF Init, phase
    <2>2. \A i \in Item : SheetAnswer(i) = Blank
      BY DEF Init, SheetAnswer, DraftRows
    <2>3. \A i \in Item : ItemMark(i) = NoMark
      BY <2>1 DEF ItemMark
    <2> QED
      BY <2>1, <2>2, <2>3 DEF Paper!Init
  <1>2. PaperInv /\ PaperInv' /\ [Next]_vars
          => [Paper!Next]_<<phase, [i \in Item |-> SheetAnswer(i)], [i \in Item |-> ItemMark(i)]>>
    BY PaperStep DEF sheetNow, marksNow
  <1>3. PaperInv /\ [Next]_vars => PaperInv'
    BY PaperNext
  <1> QED
    BY <1>1, <1>2, <1>3, PaperInit, PTL DEF Spec, ImplementsExamPaper, Paper!Spec
==============================================================================

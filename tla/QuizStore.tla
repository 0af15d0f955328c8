------------------------------ MODULE QuizStore ------------------------------
(***************************************************************************)
(* The rows of one quiz session of RetryNote, and the two kinds of actor   *)
(* that read and write them: the request handlers of the FastAPI process   *)
(* (Req) and the task executions of the Celery workers (Run).              *)
(*                                                                         *)
(* Each actor works in its own database transaction (READ COMMITTED, no    *)
(* version check on UPDATE), so a handler is split at the points where     *)
(* others may commit: it reads rows, waits for an AI answer or for another *)
(* query, and commits writes that are computed from what it read.  What it *)
(* has read and will write is its workspace tx[t]; the rows themselves     *)
(* change only at commits.  Row locks are left out: they delay a commit,   *)
(* and it writes what was computed before, as after any other delay.       *)
(*                                                                         *)
(* Every identifier in Req and Run is used once, which bounds the number   *)
(* of calls and of executions; a row inserted by an actor is named after   *)
(* it, e.g. the answer log of item i written by t is <<t, i>>.             *)
(***************************************************************************)
EXTENDS Naturals, FiniteSets, FiniteSetsExt

CONSTANTS
    Req,        \* API requests of this instance, each made once
    Run,        \* executions of Celery tasks, each used once
    NoReq,      \* "no request"
    NItems,     \* number of quiz items of the session
    Answer,     \* the non-empty answers a user may give
    Mark,       \* score_awarded of a graded answer, 0 among them
    Mode,       \* "normal" or "exam"
    Calls,      \* the API calls that clients and administrators make
    Faults,     \* the failures that may happen, see FaultKinds
    MaxOpen,    \* requests in flight at a time (1: a client that waits)
    Workers     \* tasks executed at a time

Blank    == ""          \* user_answer_raw of a skipped item
NoDraft  == "no_row"    \* no draft_answers row
Item     == 1..NItems
Tx       == Req \cup Run
LogId    == Tx \X Item

CallNames == {"submit_answer", "complete", "batch", "save_draft", "submit_exam",
              "create_objection", "regrade_item", "retry_job", "cancel_job"}

\* "request": a handler raises, or fails to reach the broker after its commit;
\* "db": a statement of a task fails, or the process of the pool it runs in is
\* killed: its transaction is rolled back and its message acknowledged;
\* "charge": a task raises when it charges the AI credits;
\* "ai": the AI call of a review fails; "verdict": the AI answers with an
\* error type that is not in the ErrorType enum; "crash": a whole worker dies.
FaultKinds == {"request", "db", "charge", "ai", "verdict", "crash"}

ASSUME StoreAssumption ==
    /\ NItems \in Nat \ {0}
    /\ IsFiniteSet(Req) /\ IsFiniteSet(Run) /\ Req \cap Run = {}
    /\ NoReq \notin Req
    /\ {Blank, NoDraft} \cap Answer = {}
    /\ Mark \subseteq Nat /\ 0 \in Mark
    /\ Mode \in {"normal", "exam"}
    /\ Calls \subseteq CallNames
    /\ Faults \subseteq FaultKinds
    /\ MaxOpen \in Nat /\ Workers \in Nat

QuizSessionStatus == {"draft", "generating", "ready", "in_progress", "submitted",
                      "grading", "graded", "objection_pending", "regraded",
                      "closed", "generation_failed"}

JobStatus == {"none", "pending", "processing", "completed", "failed"}

\* "none" is the row that does not exist yet.
AnswerLog == [st : {"none", "active", "inactive"},
              answer : Answer \cup {Blank},
              mark : Mark]

\* The states submitted (never committed by the code), partially_upheld (as
\* upheld) and "no row" ("none") included or merged.
ObjectionStatus == {"none", "under_review", "upheld", "rejected", "applied"}

VARIABLES
    status,     \* quiz_sessions.status
    total,      \* quiz_sessions.total_score and max_score
    log,        \* answer_logs, by LogId
    draft,      \* draft_answers: item -> request that inserted the row -> answer
    obj,        \* objections, named after the request that filed them
    job,        \* jobs.status, named after the request that created the job
    queue,      \* messages in the Celery broker, per job
    call,       \* what each request asks for
    works,      \* the job an execution works on
    tx,         \* the workspace of each request and execution
    tally       \* the totals an actor has loaded, and those it has computed

rows == <<status, total, log, draft, obj, job>>
vars == <<rows, queue, call, works, tx, tally>>

Blanks   == [i \in Item |-> Blank]
NoMarks  == [i \in Item |-> 0]
NoTotal  == [score |-> 0, max |-> 0]
NoTally  == [was |-> NoTotal, new |-> NoTotal]

PC == {"new", "grading", "writing", "dispatch", "done",
       "started", "failing", "upholding", "restoring", "regrading", "unacked"}

Workspace ==
    [pc      : PC,
     seen    : QuizSessionStatus,           \* session.status as it was loaded
     items   : SUBSET Item,                 \* items it inserts a log for
     answers : [Item -> Answer \cup {Blank}],
     marks   : [Item -> Mark],
     old     : SUBSET LogId,                \* active logs it has loaded
     row     : Req \cup {NoReq},            \* the draft row it writes
     others  : SUBSET Req,                  \* other pending objections it saw
     verdict : ObjectionStatus]

Idle == [pc |-> "new", seen |-> "draft", items |-> {}, answers |-> Blanks,
         marks |-> NoMarks, old |-> {}, row |-> NoReq, others |-> {},
         verdict |-> "none"]

Finished == [Idle EXCEPT !.pc = "done"]

\* A session whose generation has just finished.
Init ==
    /\ status = "ready"
    /\ total  = NoTotal
    /\ log    = [l \in LogId |-> [st |-> "none", answer |-> Blank, mark |-> 0]]
    /\ draft  = [i \in Item |-> [r \in Req |-> NoDraft]]
    /\ obj    = [r \in Req |-> [st |-> "none", logs |-> {}]]
    /\ job    = [r \in Req |-> "none"]
    /\ queue  = [r \in Req |-> 0]
    /\ call   = [r \in Req |-> [name |-> "none", item |-> 1, target |-> NoReq]]
    /\ works  = [w \in Run |-> NoReq]
    /\ tx     = [t \in Tx |-> Idle]
    /\ tally  = [t \in Tx |-> NoTally]

-----------------------------------------------------------------------------
\* Queries and writes shared by the handlers.

ActiveIn(lg) == {l \in LogId : lg[l].st = "active"}

\* The active results of item i, as is_active_result says.
ActiveOf(i) == {l \in ActiveIn(log) : l[2] = i}

RecalculateSessionTotals(lg) ==
    [score |-> MapThenSumSet(LAMBDA l : lg[l].mark, ActiveIn(lg)),
     max   |-> Cardinality(ActiveIn(lg))]

\* The gradings that _grade_single_answer may return: an exact match or an AI
\* judgement for a given answer, skipped with score 0 for a blank one.
GradeBlanksToo(items, answers) ==                               \* mutant
    {m \in [Item -> Mark] : \A i \in Item \ items : m[i] = 0}
GradeSingleAnswer(items, answers) ==
    {m \in [Item -> Mark] :
        \A i \in Item : i \notin items \/ answers[i] = Blank => m[i] = 0}

\* The answer_logs after actor t inserts one active row for each of x.items
\* and clears is_active_result of the rows x.old it had loaded.
Recorded(t, x) ==
    [l \in LogId |->
        IF l[1] = t /\ l[2] \in x.items
        THEN [st |-> "active", answer |-> x.answers[l[2]], mark |-> x.marks[l[2]]]
        ELSE IF l \in x.old THEN [log[l] EXCEPT !.st = "inactive"] ELSE log[l]]

\* The totals, computed after x is flushed and before t commits.
UnflushedTotals(t, x) == RecalculateSessionTotals(log)          \* mutant
NewTotals(t, x) == RecalculateSessionTotals(Recorded(t, x))

\* The totals after a commit: an UPDATE sets the columns whose new value is not
\* the one that was loaded, and leaves the others as they are now.
Stored(y) ==
    [c \in {"score", "max"} |-> IF y.new[c] = y.was[c] THEN total[c] ELSE y.new[c]]

Pending == {r \in Req : obj[r].st = "under_review"}

-----------------------------------------------------------------------------
\* The life of a request and of an execution.

Open(r) == tx[r].pc \notin {"new", "done"}

\* Request r makes the API call name, on item i or for the request q.
Calling(r, name, i, q) ==
    /\ name \in Calls
    /\ tx[r].pc = "new"
    /\ Cardinality({o \in Req : Open(o)}) < MaxOpen
    /\ call' = [call EXCEPT ![r] = [name |-> name, item |-> i, target |-> q]]

Step(t, x) == tx' = [tx EXCEPT ![t] = x]

At(t, pc) == tx[t].pc = pc

\* Execution w is at label pc of the task of a job created by the call name.
RunAt(w, name, pc) ==
    /\ tx[w].pc = pc
    /\ works[w] \in Req
    /\ call[works[w]].name = name

\* The job reaches st and the commit ends the work of w; its message is not
\* acknowledged yet (task_acks_late).
ConcludeDone(w, st) ==                                          \* mutant
    /\ job' = [job EXCEPT ![works[w]] = "done"]
    /\ Step(w, [Idle EXCEPT !.pc = "unacked"])
Conclude(w, st) ==
    /\ job' = [job EXCEPT ![works[w]] = st]
    /\ Step(w, [Idle EXCEPT !.pc = "unacked"])
==============================================================================

# RetryNote in TLA+

RetryNote turns a user's documents into quizzes and study material, grades the
answers with the help of an AI model, and lets the user object to a grade.  The
backend is a FastAPI application (`src/backend/app`, uvicorn with 8 worker
processes, see `src/systemd/retrynote-api.service`) on PostgreSQL, with Celery
workers (8 processes, Redis as broker) for everything slow; the frontend is a
React application (`src/frontend/src`).

No handler of the backend is one step.  It loads rows, waits for an AI answer or
for another query, and commits rows computed from what it had loaded, in a READ
COMMITTED transaction with no version check; requests of a user run side by side
in different processes, and tasks run beside them, are delivered at least once and
fail half way.  No page of the frontend is one step either: it shows what a query
read some time ago, goes on while its requests are on their way, is left and
opened again, and keeps part of its state in a store or in the browser's storage.
That is what these modules are about: what handlers do to each other's rows, and
what a page does with answers that come late, twice, out of order or never.

## 1. Inventory

The server:

| component | state | operations | interacts with | hard behaviour |
|---|---|---|---|---|
| quiz answers (`api/quiz.py`) | `quiz_sessions.status`, totals, `answer_logs` with `is_active_result` | `submit_answer`, `complete_quiz_session`, `submit_batch_answers`, `delete_quiz_session` | AI client (waits inside the handler), usage quota, weak points | status checked before the AI wait and used after it; active logs read, then cleared |
| exam (`api/quiz.py`, `services/quiz_service.py`) | `draft_answers`, `jobs` | `save_draft_answer`, `submit_exam`, task `grade_exam` | broker, AI client | double submission, double drafts, redelivery, partial failure |
| objections and regrades | `objections`, `answer_logs`, session status | `create_objection`, task `review_objection`, `regrade_item`, task `admin_regrade` | broker, AI client | write skew of two reviewers, lost totals, stale logs |
| jobs (`utils/job_runner.py`, `workers/celery_app.py`, `api/admin.py`) | `jobs.status`, broker queue | `JobRunner`, `dispatch_task`, `retry_job`, `cancel_job` | every task | commit and dispatch are two steps; late acknowledgement; what `__aexit__` commits |
| quiz generation | `quiz_sessions`, `quiz_items` | `create_quiz_session`, `stream_quiz_generation`, task `generate_quiz` | browser's EventSource, broker, quota | stream and task generate the same session; a client that goes away |
| file pipeline | `files`, `parsed_documents`, folders | upload (duplicate check, reclaiming), `process_file`, retry, move, delete, clean-up | storage quota, broker | deletion while processing, redelivery, a task that was never sent |
| study content, tutor | `study_summaries`, flashcards, mind maps, notes, chats and messages | a stream or task per kind, versions, a stream per question | files, quota, broker | disconnects, a stream against a task |
| guests | `guest_sessions`, their files and quizzes | create, upload, answer, expiry, conversion | files, quizzes | expiry against conversion; an answer that is not committed |
| accounts | `users`, `refresh_tokens`, reset and verification tokens | sign-up, login, verification, reset, rotation, deletion | the client's refresh queue | two tabs refresh one token |
| billing | `subscriptions`, `webhook_events`, `credit_purchases`, balances | Paddle's webhooks, checkout, cancellation | quota | duplicated and reordered events, two handlers of one event |
| administration | jobs, users, impersonations, audit | verify, list, change, delete, retry, cancel, act as | jobs, accounts | tokens that expire, rows merged with a poll |
| quotas, credits, weak points, rate limits | counters | check before, charge after | every AI feature | first use creates the row; lost updates |

The browser:

| component | state | hard behaviour |
|---|---|---|
| upload queue (`useMultiFileUpload.ts`, `UploadQueue.tsx`) | items, running count, queue, controllers | late settlement of an aborted upload; state of the last render |
| file list (`Files.tsx`) | rows of a polled query, selection, view, mutations | rows read before a deletion arrive after it |
| waiting for a quiz (`QuizTake.tsx`, `useSSE.ts`) | stream, retries, cached status, three flags | reconnects, a stream that ended before its quiz |
| taking a quiz (`QuizTake.tsx`, `quizStore`) | answers of the page, of the storage, of the queries | answers on their way while the user goes on, reloads or hands in |
| setting up (`QuizNew.tsx`, `Retry.tsx`, `WrongNotes.tsx`, `SavedPromptSlots.tsx`) | selections, cached lists | a selection among what was listed once |
| studying (`StudyViewer.tsx`, `StudyList.tsx`, tabs, `useStudyStreaming.ts`, `studyStore.ts`) | versions, tab state, streams, a map's layout | tabs that are left while they stream |
| client and session (`client.ts`, `authStore.ts`) | tokens in memory and in two storages, refresh flag and queue | 401 of several requests, other tabs, answers that are lost |
| account pages, billing pages (`lib/paddle.ts`), console (`Admin.tsx`) | calls on their way, dialogs, one payment window | calls that outlive their page, callbacks of an earlier checkout |
| guest pages (`TryQuiz.tsx`, `TryQuizTake.tsx`, results) | an id in memory, in the storage and in an address | a form that is left goes on; polls overlap |

What makes them correct: answers, exam and objections - an item counts exactly
once, totals are those of the counted results, a graded session is complete, an
exam is marked from the sheet that was handed in, and whatever was started is
concluded; jobs - an execution that is repeated does no harm, and a decision is
made once; files - a file that is processed for ever has a known cause, and a
deleted one leaves the list; pages - what is shown was answered, what was given is
sent or kept, and waiting ends; accounts and billing - a token is spent once, a
payment counts once, and a guest's quiz goes along.

The components with what is and what is not modelled of each are listed in
`PROJECT.json`, and so are the hazards, each with the line where it bites and the
properties that would catch it.

## 2. The modules

Sessions of a quiz on the server, composed by `QuizSession`:

| module | models |
|---|---|
| `QuizStore` | the rows of one session, the workspace of an actor, grading, recording, totals, job conclusion (`models/quiz.py`, `models/objection.py`, `utils/job_runner.py`, helpers of `services/quiz_service.py`) |
| `QuizAnswers` | normal mode and batches (`api/quiz.py`) |
| `QuizExam` | drafts, submission, `grade_exam` (`api/quiz.py`, `services/quiz_service.py`) |
| `QuizReview` | objections, regrades, retry and cancellation of jobs (`api/quiz.py`, `services/quiz_service.py`, `api/admin.py`) |
| `QuizSession` | composition, delivery of tasks, crashes, failures, fairness, the properties (`workers/celery_app.py`, `utils/job_runner.py`, `database.py`) |
| `ExamPaper` | the abstract specification: what exam mode promises (no code of its own) |

Pages with the handlers they call, each part with its own variables, composed so
that a behaviour is one of one part while the others stay at rest (they share no
state but what the initial condition of the composition says).  `Arrays` is the
operator by which they and the console filter arrays:

| composition | parts |
|---|---|
| `Library` | `UploadQueue` (the hook, its component and the upload handler), `FilesPage` (the list, the file and folder handlers, `process_file`) |
| `QuizPages` | `QuizStream` (waiting for a quiz: page, hook, generator, fallback task), `QuizTake` (taking it, handing it in, its results) |
| `Learning` | `StudyPages` (= `StudyContent`, which uses `MindmapLayout`, with `TutorChat` and `StudyStart`, which run together), `QuizSetup` (the forms that create a quiz) |
| `Accounts` | `GuestQuiz`, `AccountPages` (which extends `AuthClient`), `BillingPages`, `AdminConsole` |

`MCQuizSession`, `MCLibrary`, `MCQuizPages`, `MCLearning`, `MCAccounts` are the
instances for TLC; the modules named `...Proofs` hold the theorems.

### State and actions of `QuizSession`

One session with items `1..NItems`.  `status`, `total`, `log`, `draft`, `obj`,
`job` are its rows; `queue` counts the messages in the broker per job; `tx[t]` is
what a request or an execution of a task has loaded and will write, and `tally[t]`
the totals it has loaded and computed.  `call[r]` says what request `r` is.

A handler is an action per stretch between two points where other transactions may
commit in a way that matters: `BeginX` is everything up to the first long wait (its
checks, its early returns, the values it loads), an inner action is what it reads
after the wait, `CommitX` is the commit with every row it writes.  What a commit
writes is computed from the workspace, never from the current rows, as in the code.
Two details of SQLAlchemy matter and are kept: an UPDATE sets only the columns
whose value differs from the one that was loaded (`Stored`, the conditions on
`seen`), and `expire_on_commit=False` (`database.py:21`), so nothing is loaded again
after a commit.  What is inserted gets a name of its own: the log of item `i` that
actor `t` writes is `<<t, i>>`, so two logs for one item exist side by side as in
the table.

Tasks: `CommitSubmitExam` commits the job, `Dispatch` sends the message (a process
that dies in between is `FailRequest`), `TakeJob` is `JobRunner.__aenter__`,
`Conclude` is the commit of `__aexit__`, `Acknowledge` comes after it
(`task_acks_late`), and `Crash` puts the message back at any point before.
`__aexit__` commits what a failed body had written: `FailGradeExam`,
`FailUpholding` and the failing branch of `CommitDismissedObjection` are those
commits.  `AbortTask` is a failed statement, after which that commit fails too.

Abstracted: answers are members of a small set, a judgement is its score, every
item weighs 1 (`max_score` 1.0) and the AI may return any score of `Mark` for an
answer that is not blank; question types, rationales and timestamps are left out.
The quota check only refuses (which is the request that is never made); charging is
a failure that may happen (`"charge"`).  Row locks only delay a commit, which
writes what was computed before; the model has all such delays.

### State and actions of the pages

The variables of a part are the rows of the server that its pages read and write,
the requests on their way (a set of records, or a counter where requests of a kind
are alike), the data of the queries (with whether they are being read: an answer
shows what the server had when it was asked), the state of the components, and what
outlives them in stores and storages.  Every click, callback, effect and timer is an
action, a handler of the server is one where the order matters; what an effect does
right after a render is part of the action that caused it (for example
`KeysEffect` in `QuizSetup`, `Settled` in `TutorChat`).  React's
state and the refs of the last render are two variables where the code reads both
(`shown` and `seen` in `UploadQueue`).  A page that is left leaves its requests
behind, unless the code aborts them.

What Paddle does (`Activate`, `Fall`, `End`, `Sends`, `Note`) is the one external
part: a service that may send any of the notifications `api/billing.py` handles, in
any order, and repeats one until a handler has answered it with success.

History variables serve the properties and are read by no guard: `apart` in
`QuizTake`, `early` and `failed` in `QuizStream`, `missed` in `FilesPage`, `lost` in
`UploadQueue`, `cut` and `view.fresh` in `StudyContent`, `spoiled` in `TutorChat`,
`given` in `GuestQuiz`, `resets` in `AccountPages`.

## 3. Runs

The runs of `MCQuizSession` restrict which calls are made (`Calls`), which failures
happen (`Faults`), how many requests are open at a time (`MaxOpen`: 1 is a client
that waits for each response) and how many tasks run at a time (`Workers`).
`Answer = {"a"}`, marks `{0, 1}`; requests and executions are symmetric in the runs
without liveness.

| run | instance | shows |
|---|---|---|
| `concurrent_answers` | 3 requests, 2 at a time, 2 executions by 2 workers, 2 items; answers, completion, batches, objections, regrades; failing requests and statements | `AnsweredKeepsResult`, `GradedIsComplete`, `PlansAreSafe` hold with no restriction on concurrency |
| `one_client` | 4 requests one after the other; answers, completion, batches; failing requests | `OneActiveResult`, `TotalsAgree`, `GradedRejectsAnswers` |
| `exam` | 4 requests one after the other, 3 executions, 2 items; drafts, submission, objection, regrade, retry, cancel; failing requests, statements and AI calls | `TypeOK`, `OneFinalSubmission`, `SheetClosed`, `MarkedFromSheet`, `TotalsAgree`, `PendingHasObjection`, `DecisionIsFinal`, and `ImplementsExamPaper`: exam mode refines `ExamPaper` |
| `exam_two_tabs` | 3 requests, 2 at a time, 3 executions; drafts and submissions; crashes, charges that fail | two drafts of one item, two grading jobs, a grading that stops half way: `OneActiveResult`, `TotalsAgree`, `GradedIsComplete`, `AnsweredKeepsResult` |
| `objections` | 4 requests (completion and three objections), 3 items; failing AI calls, verdicts, charges | `PendingHasObjection`, `OneActiveResult` |
| `graded_in_the_end` | 3 requests, 3 executions, 1 item, crashes, with fairness | `ExamIsGraded`, `ObjectionIsDecided` |
| `library` | 2 copies of 2 files for one slot, expiry and refusal, one retry; 2 files, a folder, 2 mutations, crashes and tasks that are not sent | `QueueConsistent`, `NoIdleSlot` (queue); `FilesConsistent`, `StuckHasCause` (list) |
| `quiz_pages` | 2 retries of the stream, 1 broken connection, 2 visits, every fault; 2 items (one a choice), both modes, 2 answers, 2 visits, every fault | `QuizPagesConsistent`, `AnswersReachServer`, `ExamAnswersAreKept`, `WaitingEnds` |
| `learning` | 2 documents, all kinds, 2 questions, every fault; 2 files, 4 notes in pages of 2 | `LearningConsistent`, `OneGeneration`, `ThinkingHasStream`, `MapIsDrawnWhole`, `KeysAreOffered` |
| `accounts` | 2 guests, 2 quizzes; 3 pairs of tokens, 2 requests; 2 checkouts, notifications and handlers; 1 user and 2 jobs in the console | `AccountsConsistent`, `PreparingIsWatched`, `SignupKeepsQuiz`, `NoSpentToken`, `CreditsOnce` |

The largest are `library` (1.9 million distinct states, two minutes), `accounts`,
`learning` and `quiz_pages` (0.9, 0.9 and 0.5 million).  Identifiers and bounded
acts are used up, so that every run comes to rest; that is why deadlock is not
checked.

The properties named `...Consistent` are the conjunctions of a composition's type
invariants and of the smaller facts about its parts, each stated and commented in
the part's module: among those of `QuizPagesConsistent`, that a session that is
ready has its questions (`ReadyHasItems`) and, visited once and without a failure,
has them once (`OneVisitOneCopy`); of `LearningConsistent`, that content that is
generated for ever was left by its client (`StuckHasCause` of `StudyContent`) and
that the answers of two questions are not mixed (`AnswerIsWhole`); of
`AccountsConsistent`, that a link of a mail is used once (`OneLinkVerifies`) and
that the tier of a user is that of the subscription of the row (`TierIsOfTheRow`).

Why the bounds are enough.  Every hazard of the session's handlers involves two
actors that overlap and at most one that prepared the ground (a completed session, a
first draft) or observes it; the runs have three or four requests and two or three
executions, so a grading that crashes, its redelivery and a regrade fit in one
behaviour.  Two items are needed for "one item is lost while another is recorded",
three for two other pending objections, on which `scalar_one_or_none` raises.
Crashes are bounded by the executions that are left: `Crash` keeps one for each
request that may still need one, so the bound never causes a job to be lost.  A page
meets at most the request it made before, the one it makes now and one that another
tab, worker or handler makes: two files for one slot and a retry make the queue
block, free and refill; two visits make a page find what an earlier one left; a
second pair of tokens is one that is spent while a third is issued; two handlers are
what it takes for both to read a balance before either writes.

Two runs violate what the repository says of the program (`findings`):

| run | statement | what the code does |
|---|---|---|
| `submitted_twice` | the final submission of a session succeeds once (`PROMPT.md:294`) | check and commit are apart (`api/quiz.py:1020`); two requests both create a job and dispatch it |
| `guest_answers` | the results just solved are saved (`TryQuizResults.tsx:156`) | `submit_public_answer` (`api/public.py:318`) adds the log and never commits; it returns nothing, so that every answer of a guest is an error |

### Outside the restrictions

The restrictions of the passing runs, which are also hypotheses of theorems, are
not conveniences: each excludes behaviours in which the property is false.

- `MaxOpen = 1`.  With two tabs a first answer that is graded slowly commits
  `in_progress` over a session that was graded meanwhile, and a draft that was checked
  before the submission is written after it: `GradedRejectsAnswers`, `SheetClosed`
  and, in normal mode, `OneActiveResult` fail.
- `Workers = 1` for `TotalsAgree` and `PendingHasObjection`.  Two reviews side by
  side each see the other objection pending, and the session stays
  `objection_pending`; two upheld ones each store totals without the other's mark.
- `"crash"`.  A review that is delivered again after its commit decides its objection
  again and records a second active result for the item: `OneActiveResult` fails.
- `"verdict"`.  `review_objection` deactivates the old log and only then looks the
  error type up; an unknown one raises in between, `JobRunner` commits the first
  half, and the item has no result.
- `"charge"` for `ImplementsExamPaper`.  After a failed charge the logs of a session
  that is not graded exist unpublished, and an objection to one of them publishes
  the session.
- Early objections.  An objection to an answer of a session that is not finished
  is accepted (`quiz_service.py:1819`) and makes it `regraded` with items that were
  never answered.  Nothing is left to hold then; the properties about complete
  sessions speak of `graded` and `objection_pending`, the theorems about totals and
  answers ask for results to be reviewed when all are there.
- Retried jobs.  `retry_job` (`api/admin.py:1078`) sets a job to pending, but its
  type is no key of `_JOB_TYPE_TASK_MAP`, so nothing is sent: a job that is retried
  is never run.  `QuizReview` has the action as it is.
- `"request"` in `graded_in_the_end`.  A process that dies between the commit of a
  job and its dispatch leaves a session that is never graded.
- In `QuizSetup`, a list of wrong notes whose last page loses its notes says that
  there are none, although other pages have some (`WrongNotes.tsx` keeps the page
  number).

### Fairness

`FairSpec` of `QuizSession` assumes that a handler that was started runs to its end
(uvicorn does not abandon a coroutine; AI calls have timeouts), and that workers take
messages and finish tasks (systemd restarts a worker).  Nobody has to make a request
and nothing has to fail or to stop failing; `"crash"` is enabled in the run, and only
finitely many crashes happen.

`StreamFairness` of `QuizStream` assumes that queries under way are answered or
fail, that the page polls, that its timer (`GENERATING_TIMEOUT_MS`) goes off, and
that a connection is opened, broken or served.  It assumes nothing of workers:
`WaitingEnds` holds although the task that takes over may never run.  No other
property needs fairness.

## 4. Proofs

TLAPS proves for every value of the constants what the runs show on an instance.
The assumptions on constants are those of the modules (`StoreAssumption`,
`QueueAssumption`, `FilesAssumption`, ...), which TLC evaluates in the runs.

| module | theorems | hypotheses |
|---|---|---|
| `QuizSessionProofs` | `TypeCorrect`: `[]TypeOK` | none |
| | `AnsweredItemsKeepResults`, `GradedSessionsAreComplete`, `PlansStaySafe` | verdicts are valid |
| `QuizJobsProofs` | `DecisionsAreFinal` | no crash |
| | `SubmittedOnlyOnce` | one request at a time |
| | `PendingSessionsHaveObjections` | one worker |
| | `SheetStaysClosed` | one request at a time |
| | `GradedSessionsRejectAnswers` | one request at a time; an exam, no `submit_answer`, or no reviews |
| | `ExamsAreMarkedFromSheet` | one request at a time, no batch |
| `QuizTotalsProofs` | `TabsCountOnce`: `OneActiveResult` and `TotalsAgree` | an exam, one worker, no batch, no objection; any number of tabs, every fault |
| | `WaitingClientsCountOnce`: `OneActiveResult` | one request at a time, one worker, no crash; an exam, no `submit_answer`, or no reviews |
| | `WaitingClientsSeeTheirTotals`: `TotalsAgree` | the same, and verdicts are valid |
| | `ExamsImplementPaper`: `ImplementsExamPaper` | `WaitingExam`: an exam, one request at a time, no batch, no crash, charge or verdict that fails; any number of workers |
| `LibraryProofs` | `NoSlotStaysIdle`, `QueueStaysConsistent`, `StuckFilesHaveACause`, `ListFollowsServer` (`FilesConsistent`) | none |
| `QuizPagesProofs` | `AnswersAreRecorded` (`AnswersReachServer`), `ExamSurvivesReload` (`ExamAnswersAreKept`), `PagesAreConsistent` (`QuizPagesConsistent`) | none |
| `LearningProofs` | `OneAtOnce` (`OneGeneration`), `ThinkingEnds` (`ThinkingHasStream`), `RetryIsOffered` (`KeysAreOffered`), `PagesAgree` (`LearningConsistent`) | none |
| `AccountsProofs` | `PagesTellWhatIs` (`AccountsConsistent`), `TokensAreSpentOnce`, `PaymentsCountOnce`, `PreparingPagesAsk`, `QuizGoesAlong` | none |
| `ArraysProofs` | lemmas about `Picked` for `LibraryProofs` and `AccountsProofs` | none |

The hypotheses are on the constants that say how the system is used; the section
above says what goes wrong without each of them.  "An exam, no `submit_answer`, or
no reviews" keeps early objections out.

The arguments:

- *Results.*  `AnsweredKeepsResult` and `GradedIsComplete` say nothing of what an
  actor in flight is about to commit, so they are inductive only with `PlansAreSafe`:
  every log an actor will clear is of an item for which it will insert one, whoever
  will set `graded` either inserts a result for an item or has seen one, and by the
  first property nobody takes that away.
- *Jobs.*  Every action is one of twelve moves of jobs, messages and objections
  (`JobMove`), and the invariants are proved move by move.  The core is that a job has
  one message or one execution, never both, unless a worker dies (`OneDelivery`); so a
  decided objection has no task left.  With one worker the reviewer that restores the
  session sees every other objection as it is when it commits.
- *Sheet.*  A client that waits has one open request (`OneOpen`), so that what it read
  of the status still holds when it commits (`Fresh`).  `FromSheet` says of every log
  and of every plan that its answers are those of the drafts.
- *Totals.*  `OneWriter`: one actor at a time is about to write results.  From it alone
  follow one result per item and the totals (`SoleResults`, `SoleTotals`), and
  `OneWriter` is proved for a client that waits and, separately, for any number of
  tabs of an exam.
- *Refinement.*  `PaperInv` joins those invariants with three of its own: an item has
  one draft row (`OneDraft`), a grading marks every item (`PaperPlans`), and results
  are there exactly when they are published (`PublishedMarks`).  Then every action is a
  step of `ExamPaper` or a stutter; the step that publishes is the hard one.
- *Upload queue.*  `NoIdleSlot` needs that the counter is the cardinality of the set of
  uploads that have not settled (`RunningIsOpen`).  Each way out of an upload takes the
  same number off both and runs the pump.  `QueueConsistent` also needs the rows
  (`QueueInv`): an item that waits is queued once, is shown and seen as waiting, and has
  no upload but one that was aborted while the client held it back (`WaitsOnce`); an
  upload that runs has the controller of its item, and neither the list of the last
  render nor the next one offers to try the item again (`Runs`).  So the pump, which
  looks at the list of the last render only, starts no item twice.  All of it is about
  rows that are still followed: not those of a page that was left or in `lost`.
- *Files.*  `FilesInv` adds to the statements what a worker's row may look like, and
  that a view and the rows read for it leave with what they show.
- *Tokens.*  `ClientInv`: a pair this tab has spent is in use, in memory or in a
  storage, only until the answer that replaces it has arrived.
- *Payments.*  `CreditInv`: two handlers never hold one notification (the unique row of
  `webhook_events` is claimed and committed with what it grants), and the purchases are
  the paid notifications that were handled, each once.  The balance is only bounded
  by the purchases, since two handlers that read it together lose one addition.
- *Guests.*  `GuestInv`: what the page of the results shows is owned by the id in
  memory, so is the quiz the sign-up's address names, and quizzes keep owner and user;
  every answer of the page that prepares a quiz leads to an error, to a status that is
  polled, or to the items.
- *Around an account.*  `AccountsConsistent` needs five invariants beside those three
  (`AccountsInv`), one for each part that can move while the others rest (`OnePart`).
  `SessionInv`: a request that is queued has a refresh under way, and tokens in memory
  and in both storages name pairs there are; `PairsGrow` says that no step makes a pair
  valid again, so `ResetRevokes` survives whatever is signed in afterwards.
  `MailsOK`: one live link verifies, none does without an account, and a used link stays
  used (`MailsGrow`).  `PageFits` ties what a page keeps to its calls: who waits has the
  call, and a verification on its way is about the link of its page; the page of a link
  has no button that waits, hence `~e.busy`.  `ShopInv` and `RowInv`: the payment window
  is that of an open checkout, and a subscription that will end is not active again
  (`SubsGrow`), which keeps what the page said of the cancellation.  `ConsoleInv`: of
  the calls of one kind one is the last (`HooksOK`), the dialog is about one user and
  only on the tab of the users (`DialogOK`), and every list of jobs, those of answers
  that have not been read included, names a job once (`Listable`).
- *Taking a quiz.*  `Recorded` speaks of the page, the requests and the rows together:
  two requests for one item are told apart only by the history, a request carries what
  the page shows, and what the page shows is in the rows, on its way or apart.
  `Passed` adds the order: what was read as answered is answered, and an item that is
  answered has only such items before it; without that the page could resume behind an
  item nobody answered.  `ExamKept` needs that nothing is on the page before the
  session is known (`Unopened`), since the effect that resumes an exam is the one that
  reads the storage.
- *Waiting for a quiz.*  `OneRun` counts the runs: connections at work, generators left
  to themselves, tasks and copies of the questions are at most one together while the
  page was opened once and nothing failed.
- *Studying.*  `OneAtATime` counts what works at a kind of content, by a stream, by a
  generator whose client is gone or by a task, and says that the record is
  `generating` meanwhile; a new generation is refused then.  `NewestIsShown` needs
  what is to come: as long as a version may still be added, the page has read all
  versions there are and waits for one more (`FreshIsNewest`).  That a version exists
  which is shown follows from counting: each is paid for by an act of the user or by a
  connection that broke (`MadeByActs`).  The tutor's answers are whole because what the
  page has got of an answer is what was sent of it (`GotIsSent`) and every history that
  is read is whole.
- *Forms of a quiz.*  Whatever group and keys a retry form has, after both effects its
  keys are offered (`EffectsOffer`); a request that is waited for is under way and was
  not cancelled (`AwaitedIsUnderWay`).

- *Filtered arrays.*  `Picked` of `Arrays` is JavaScript's `filter` without a
  recursion: the entries at the places to keep, by the rank of a place.  The lemmas
  `PickedIs`, `PickedIsSeq` and `PickedOnce` (`ArraysProofs`) say what the queue and the
  list of jobs need of it: what is picked stands at some place that is kept, and nothing
  is picked twice.

Proving has corrected the models.  The attempts for `NewestIsShown` and `CardExists`
failed, and TLC with a larger bound than the run's showed why: a stream that breaks
connects again and has a second version generated, which need not be the one on the
screen, and somebody who goes back in a deck that was replaced by a shorter one stays
behind its end.  `view.fresh` therefore ends when a connection breaks (`Drop`), and
`deck` is the version in which `currentIndex` was last increased (`GoToPrev`); both
are history variables, and no step of the pages changed.  The attempt for
`QueueConsistent` failed as well, and with two slots and two retries TLC found thirty
steps: an item is cancelled while the client holds its upload back, retried, and the
old upload fails late and sets the row to cancelled; the item, which still waits, can
be retried once more, is queued twice and may be uploaded twice at once.  The code
does this; the history variable `lost`, which names the rows a late answer of an
older upload has overwritten, knew only of items with another upload open, and now of
those that wait, too.  The attempt for `AccountsConsistent` failed at the initial
states: an account that exists at the start has had one mail, so `MaxMails` is at least
one (`AccountAssumption`).

Only model-checked:

- liveness: `ExamIsGraded`, `ObjectionIsDecided`, `WaitingEnds`.  TLAPS does not
  reason about `ENABLED`, and so not about fairness;
- `MapIsDrawnWhole`: heights, positions and the nodes that are counted are recursions
  over the map.

## 5. Plan

1. Sessions on the server with their abstract specification, the pages and the
   handlers they call: modelled and checked (section 3).
2. Theorems about the sessions, the refinement of `ExamPaper`, and the invariants of
   `Library`, `QuizPages`, `Learning` and `Accounts`: proved (section 4).
3. To be modelled: usage windows and credit batches (section 6).

## 6. Not modelled

- Usage windows, credit batches, storage quota, weak points and rate limits:
  counters around the operations.  The modules take a refusal or a failed charge as an
  outcome of the call.
- The retry branch of `generate_quiz`, the reclaiming of an old file's row beyond what
  the upload queue sees, the clean-up task of files, soft deletion of a session.
- The next questions and the results of a guest's quiz: no answer of a guest succeeds,
  so the pages never get there.  The branch of the login that takes a guest's quiz along
  and `GuestTry.tsx`, `SignupGateModal.tsx`, `api/guest.ts` are not reached by a route.
- The AI client and the prompts (any outcome is taken), object storage and mail, the
  comparison of an answer with the solution, rendering, and queries that only read
  (dashboard, history, search, the administrator's read-only tabs).

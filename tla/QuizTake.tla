------------------------------- MODULE QuizTake -------------------------------
(***************************************************************************)
(* The page on which a quiz is taken, and the page of its results: what    *)
(* the page keeps of the answers, the requests it sends while the user     *)
(* goes on, what it restores from the answer logs or from the session      *)
(* storage when it is opened again, and how a quiz is handed in.           *)
(*                                                                         *)
(* The handlers of the server are those of QuizAnswers, coarser: an answer *)
(* is checked on arrival and recorded when it is graded; handing in is one *)
(* step.  The record of drafts equals that of submitted answers at every   *)
(* moment, so that one variable stands for both.                           *)
(***************************************************************************)
EXTENDS Naturals, FiniteSets

CONSTANTS
    N,           \* items of the quiz
    Choice,      \* items answered by choosing an option; the others are free text
    Modes,       \* the modes of a quiz: "normal", "exam"
    Others,      \* most answers to other quizzes that the session storage holds
    MaxAnswers,  \* bound on the answers and skips of a normal quiz
    MaxVisits,   \* bound on the times the page is opened
    TakeFaults   \* "credit": grading is refused; "lost": a reply is lost;
                 \* "network": the session cannot be read

ASSUME TakeAssumption ==
    /\ N \in Nat \ {0}
    /\ Choice \subseteq 1..N
    /\ Modes \subseteq {"normal", "exam"}
    /\ {Others, MaxAnswers, MaxVisits} \subseteq Nat
    /\ TakeFaults \subseteq {"credit", "lost", "network"}

Item == 1..N

\* An answer, the empty answer of an item that is skipped, and no answer.
Given   == "given"
Skipped == "skipped"
Nil    == "none"
Answer  == {Nil, Skipped, Given}
Sheet   == [Item -> Answer]
Blank   == [i \in Item |-> Nil]

VARIABLES
    mode,     \* of the quiz
    status,   \* of the session on the server
    sheet,    \* the active answer logs on the server
    place,    \* "away", "take" or "results"
    cache,    \* the queries' data: session (a status), whether there are logs, and which
    fetch,    \* the queries: session ("no", "asked", "failed"), logs ("no", "asked",
              \* "read" by the server), and the logs read
    pg,       \* the state of the component QuizTake
    finish,   \* handing in: st ("no", "batch", "complete", "refreshing"), the paper
              \* sent, and mine: the browser still waits for the reply
    requests, \* answers on their way to the server
    answers,
    store,    \* currentAnswerMap of the session storage, for this quiz
    others,   \* its entries for other quizzes
    visits,
    apart     \* history: items of which the server may not hold the page's answer:
              \* refused, its reply lost, two answers in flight at once, saved with
              \* AI grading off, or replaced by logs older than the answer

takeVars == <<mode, status, sheet, place, cache, fetch, pg, finish, requests, answers, store, others, visits, apart>>

takeServer  == <<mode, status, sheet>>
takeQueries == <<cache, fetch>>
NoFetch == [session |-> "no", logs |-> "no", read |-> Blank]

NoFinish == [st |-> "no", paper |-> Blank, mine |-> TRUE]

NoSlide == [to |-> 0, answer |-> Nil, judged |-> FALSE, saved |-> FALSE]

\* A fresh component.  shown: the item of answerResult, 0 if there is none;
\* judged: the items that have a result.
FreshTake == [at |-> 1, isSubmitted |-> FALSE, shown |-> 0, submitted |-> Blank,
          judged |-> {}, furthest |-> 1, grading |-> 0, aiOff |-> FALSE, slide |-> NoSlide]

TakeInit ==
    /\ mode \in Modes
    /\ status = "ready"
    /\ sheet = Blank
    /\ place = "away"
    /\ cache = [session |-> Nil, has |-> FALSE, logs |-> Blank]
    /\ fetch = NoFetch
    /\ pg = FreshTake
    /\ finish = NoFinish
    /\ requests = {}
    /\ store = Blank
    /\ others \in IF mode = "exam" THEN 0..Others ELSE {0}
    /\ answers = 0
    /\ visits = 0
    /\ apart = {}

Lower(a, b)  == IF a < b THEN a ELSE b
Higher(a, b) == IF a > b THEN a ELSE b

Completed == cache.session = "graded"
Answered(s) == {i \in Item : s[i] # Nil}
InFlight(i) == \E r \in requests : r.item = i

-----------------------------------------------------------------------------
(* Opening the page: the effects that restore answers *)

\* answerLogs is a query of a quiz that is over, or that is under way and no exam.
LogsEnabled(session) == session = "graded" \/ (session = "in_progress" /\ mode = "normal")

FromLogs(p, logs) == [p EXCEPT !.submitted = logs, !.judged = Answered(logs)]

\* A completed quiz: the first item's answer is put on the screen, and the
\* index stays; justCompletedRef is never set.
RestoreCompleted(p, logs) ==
    LET q == [FromLogs(p, logs) EXCEPT !.furthest = N] IN
    IF logs[1] = Given THEN [q EXCEPT !.isSubmitted = TRUE, !.shown = 1] ELSE q

\* Resume at the item after as many as there are answers.
ResumeAt(count) == Lower(count + 1, N)

\* An item is shown as submitted only if its answer is not empty.
RestoreStarted(p, logs) ==
    LET next == ResumeAt(Cardinality(Answered(logs))) IN
    [FromLogs(p, logs) EXCEPT !.furthest = next, !.at = next,
                              !.isSubmitted = (logs[next] = Given),
                              !.shown = IF logs[next] = Given THEN next ELSE 0]

RestoreExam(p) ==
    LET count == Cardinality(Answered(store)) + others
        next  == ResumeAt(count)
    IN  IF count = 0 THEN p
        ELSE [p EXCEPT !.submitted = store, !.furthest = next, !.at = next,
                       !.isSubmitted = FALSE, !.shown = 0]

\* The effects, when the session or its logs changed from c to d.
Effects(p, c, d) ==
    LET logs == IF d.has /\ (~c.has \/ d.logs # c.logs \/ (d.session = "graded") # (c.session = "graded"))
                THEN IF d.session = "graded" THEN RestoreCompleted(p, d.logs) ELSE RestoreStarted(p, d.logs)
                ELSE p
        exam == /\ mode = "exam"
                /\ c.session = Nil
                /\ d.session # "graded"
    IN  IF exam THEN RestoreExam(logs) ELSE logs

NoCache == [session |-> Nil, has |-> FALSE, logs |-> Blank]

\* What a query asks for when the page is opened or its data are invalidated.
Asked(session) == [session |-> "asked",
                   logs |-> IF LogsEnabled(session) THEN "asked" ELSE "no", read |-> Blank]

\* Items of which logs that were read earlier do not hold the last answer.
Overtaken(logs) == {i \in Item : logs[i] # sheet[i] \/ InFlight(i)}

\* The data of an earlier visit are shown while they are read again.
OpenTake ==
    /\ place # "take"
    /\ visits < MaxVisits
    /\ place' = "take"
    /\ visits' = visits + 1
    /\ fetch' = Asked(cache.session)
    /\ pg' = IF cache.session = Nil THEN FreshTake ELSE Effects(FreshTake, NoCache, cache)
    /\ apart' = IF cache.has THEN apart \cup Overtaken(cache.logs) ELSE apart
    /\ UNCHANGED <<takeServer, cache, finish, requests, answers, store, others>>

\* Requests go on without their page; no reply will reach its state.
Orphaned == {[r EXCEPT !.mine = FALSE] : r \in requests}

LeaveTake ==
    /\ place \in {"take", "results"}
    /\ place' = "away"
    /\ fetch' = NoFetch
    /\ pg' = FreshTake
    /\ requests' = Orphaned
    /\ UNCHANGED <<takeServer, cache, finish, answers, store, others, visits, apart>>

\* A reload drops the queries and the reply of handing in, not the storage.
Reload ==
    /\ place \in {"take", "results"}
    /\ place' = "away"
    /\ cache' = NoCache
    /\ fetch' = NoFetch
    /\ pg' = FreshTake
    /\ finish' = IF finish.st = "refreshing" THEN NoFinish
                 ELSE IF finish.st = "no" THEN finish ELSE [finish EXCEPT !.mine = FALSE]
    /\ requests' = Orphaned
    /\ UNCHANGED <<takeServer, answers, store, others, visits, apart>>

\* get_quiz_session.
ShowSession ==
    /\ place = "take" /\ fetch.session = "asked"
    /\ cache' = [cache EXCEPT !.session = status]
    /\ fetch' = [fetch EXCEPT !.session = "no",
                    !.logs = IF @ = "no" /\ LogsEnabled(status) /\ ~LogsEnabled(cache.session)
                             THEN "asked" ELSE @]
    /\ pg' = Effects(pg, cache, cache')
    /\ apart' = IF cache.has /\ status = "graded" THEN apart \cup Overtaken(cache.logs) ELSE apart
    /\ UNCHANGED <<takeServer, place, finish, requests, answers, store, others, visits>>

\* The page gives way to a message, with a button that reloads.
FailSession ==
    /\ "network" \in TakeFaults
    /\ place = "take" /\ fetch.session = "asked"
    /\ fetch' = [fetch EXCEPT !.session = "failed"]
    /\ UNCHANGED <<takeServer, place, cache, pg, finish, requests, answers, store, others, visits, apart>>

\* get_answer_logs, as they are when the server reads them.
ReadLogs ==
    /\ fetch.logs = "asked"
    /\ fetch' = [fetch EXCEPT !.logs = "read", !.read = sheet]
    /\ UNCHANGED <<takeServer, place, cache, pg, finish, requests, answers, store, others, visits, apart>>

\* The logs replace what the page holds, whatever was answered meanwhile.
ShowLogs ==
    /\ place = "take"
    /\ fetch.logs = "read"
    /\ cache' = [cache EXCEPT !.has = TRUE, !.logs = fetch.read]
    /\ fetch' = [fetch EXCEPT !.logs = "no", !.read = Blank]
    /\ pg' = Effects(pg, cache, cache')
    /\ apart' = apart \cup Overtaken(fetch.read)
    /\ UNCHANGED <<takeServer, place, finish, requests, answers, store, others, visits>>

-----------------------------------------------------------------------------
(* Answering *)

\* The screen of the quiz: the query has data and did not fail last time.
Loading == cache.session = Nil

Failed == fetch.session = "failed"

OnQuiz == place = "take" /\ ~Failed /\ ~Loading

\* Options and text area are disabled when the item is answered, except in an
\* exam, or the quiz is over.
Disabled == (pg.isSubmitted /\ mode = "normal") \/ Completed

CanChoose == OnQuiz /\ ~Disabled /\ pg.at \in Choice

CanType == OnQuiz /\ ~Disabled /\ pg.at \notin Choice

\* Below an answered item of a normal quiz.
Feedback ==
    IF ~pg.isSubmitted \/ mode = "exam" THEN "none"
    ELSE IF pg.grading = pg.at THEN "grading"
    ELSE IF pg.shown = 0 THEN "none" ELSE "result"

Send(i, a) ==
    /\ requests' = requests \cup {[item |-> i, answer |-> a, at |-> "sent", starts |-> FALSE, mine |-> TRUE]}
    /\ apart' = IF InFlight(i) THEN apart \cup {i} ELSE apart

\* Mutant: an empty answer is not sent.
SendGiven(i, a) ==
    IF pg.aiOff \/ a = Skipped
    THEN /\ UNCHANGED requests
         /\ apart' = IF pg.aiOff THEN apart \cup {i} ELSE apart
    ELSE Send(i, a)

\* With AI grading off no answer is sent, whatever the question is.
SendUnlessOff(i, a) ==
    IF pg.aiOff
    THEN UNCHANGED requests /\ apart' = apart \cup {i}
    ELSE Send(i, a)

Advanced(p) == [p EXCEPT !.furthest = Lower(N, Higher(@, p.at + 1))]

\* gradeLocally: exact matches are judged here, other texts wait for the AI.
PendingAi(i) == IF i \in Choice THEN {FALSE} ELSE BOOLEAN

Keep(p, a) ==
    Advanced([p EXCEPT !.submitted[p.at] = a, !.judged = @ \cup {p.at},
                       !.isSubmitted = TRUE, !.shown = p.at])

\* handleAnswerGrade: an option is graded at once, a text by a button or a key.
\* (The map of a normal quiz's answers is never read; store has those of exams.)
AnswerGrade ==
    /\ mode = "normal" /\ (CanChoose \/ CanType) /\ finish.st # "batch"
    /\ answers < MaxAnswers /\ answers' = answers + 1
    /\ \E pending \in PendingAi(pg.at) :
          pg' = [Keep(pg, Given) EXCEPT !.grading = IF pending /\ ~pg.aiOff THEN pg.at ELSE @]
    /\ SendUnlessOff(pg.at, Given)
    /\ UNCHANGED <<takeServer, place, takeQueries, finish, store, others, visits>>

\* The question fades for 150 ms before another one is shown, with the answers
\* of the moment of the click.  (A second click in this time repeats the first.)
SlideTo(p, i) ==
    [p EXCEPT !.slide = [to |-> i, answer |-> p.submitted[i], judged |-> i \in p.judged, saved |-> FALSE]]

\* After a save of an exam the next item is shown as not submitted.
SaveAndSlide(p) ==
    LET q == Advanced([p EXCEPT !.submitted[p.at] = Given]) IN
    IF p.at < N THEN [SlideTo(q, p.at + 1) EXCEPT !.slide.saved = TRUE] ELSE q

\* Mutant: an exam's answer is kept in the component only.
LocalSaveOnly ==
    /\ mode = "exam" /\ (CanChoose \/ CanType) /\ finish.st # "batch"
    /\ pg' = SaveAndSlide(pg)
    /\ UNCHANGED <<takeServer, place, takeQueries, finish, requests, answers, store, others, visits, apart>>

SetCurrentAnswer(i) == [store EXCEPT ![i] = Given]

\* applyExamLocalSave: the button of an exam says "next" on every item; an
\* option that is selected waits for it.
ExamLocalSave ==
    /\ mode = "exam" /\ (CanChoose \/ CanType) /\ finish.st # "batch"
    /\ store' = SetCurrentAnswer(pg.at)
    /\ pg' = SaveAndSlide(pg)
    /\ UNCHANGED <<takeServer, place, takeQueries, finish, requests, answers, others, visits, apart>>

CanSkip == OnQuiz /\ ~Completed /\ ~pg.isSubmitted /\ pg.at < N /\ finish.st # "batch"

Skip ==
    /\ CanSkip
    /\ \/ /\ mode = "exam"
          /\ pg' = [SlideTo(pg, pg.at + 1) EXCEPT !.furthest = Higher(@, pg.at + 1)]
          /\ UNCHANGED <<requests, answers, apart>>
       \/ /\ mode = "normal"
          /\ answers < MaxAnswers /\ answers' = answers + 1
          /\ pg' = Keep(pg, Skipped)
          /\ SendUnlessOff(pg.at, Skipped)
    /\ UNCHANGED <<takeServer, place, takeQueries, finish, store, others, visits>>

Go(i) ==
    /\ pg.slide = NoSlide
    /\ pg' = SlideTo(pg, i)
    /\ UNCHANGED <<takeServer, place, takeQueries, finish, requests, answers, store, others, visits, apart>>

\* The arrow leads as far as the user has been, the button past an answered item.
CanNext == \/ pg.at < IF Completed THEN N ELSE pg.furthest
           \/ pg.at < N /\ (Completed \/ (pg.isSubmitted /\ mode = "normal"))

NextItem == OnQuiz /\ CanNext /\ Go(pg.at + 1)

PrevItem == OnQuiz /\ pg.at > 1 /\ Go(pg.at - 1)

Slide ==
    /\ place = "take" /\ pg.slide # NoSlide
    /\ pg' = [pg EXCEPT !.at = pg.slide.to, !.slide = NoSlide,
                        !.isSubmitted = (pg.slide.answer = Given /\ ~pg.slide.saved),
                        !.shown = IF pg.slide.judged /\ ~pg.slide.saved THEN pg.slide.to ELSE 0]
    /\ UNCHANGED <<takeServer, place, takeQueries, finish, requests, answers, store, others, visits, apart>>

\* The dialog that turns AI grading off and on, offered at a text item.
CanToggleAi == OnQuiz /\ mode = "normal" /\ ~Completed /\ pg.at \notin Choice

ToggleAi ==
    /\ CanToggleAi
    /\ pg' = [pg EXCEPT !.aiOff = ~@]
    /\ UNCHANGED <<takeServer, place, takeQueries, finish, requests, answers, store, others, visits, apart>>

-----------------------------------------------------------------------------
(* submit_answer on the server, and its reply *)

Taking == {"ready", "in_progress"}

Judged(p, i) == [p EXCEPT !.judged = @ \cup {i}, !.shown = IF p.at = i THEN i ELSE @]

Ungrade(p, i) == [p EXCEPT !.grading = IF @ = i THEN 0 ELSE @]

\* Mutant: a failed request leaves "grading" on the screen.
SettledQuietly(r, good) ==
    /\ requests' = requests \ {r}
    /\ pg' = IF r.mine /\ good THEN Judged(Ungrade(pg, r.item), r.item) ELSE pg
    /\ apart' = IF good THEN apart ELSE apart \cup {r.item}

\* onSuccess and onError: a result replaces the one on the screen if its item
\* is the one on the screen.
Settled(r, good) ==
    /\ requests' = requests \ {r}
    /\ pg' = IF ~r.mine THEN pg
             ELSE IF good THEN Judged(Ungrade(pg, r.item), r.item) ELSE Ungrade(pg, r.item)
    /\ apart' = IF good THEN apart ELSE apart \cup {r.item}

CheckAnswer(r) ==
    /\ r.at = "sent" /\ status \in Taking
    /\ requests' = (requests \ {r}) \cup {[r EXCEPT !.at = "grading", !.starts = (status = "ready")]}
    /\ UNCHANGED <<takeServer, place, takeQueries, pg, finish, answers, store, others, visits, apart>>

\* The quiz is over, or there is no credit for grading.
RefuseAnswer(r) ==
    /\ r.at = "sent"
    /\ status \notin Taking \/ ("credit" \in TakeFaults /\ r.item \notin Choice)
    /\ Settled(r, FALSE)
    /\ UNCHANGED <<takeServer, place, takeQueries, finish, answers, store, others, visits>>

\* A reply that is lost counts as a failure.
Replies == IF "lost" \in TakeFaults THEN BOOLEAN ELSE {TRUE}

\* The status read on arrival decides what is written.
RecordAnswer(r) ==
    /\ r.at = "grading"
    /\ sheet' = [sheet EXCEPT ![r.item] = r.answer]
    /\ status' = IF r.starts THEN "in_progress" ELSE status
    /\ \E good \in Replies : Settled(r, good)
    /\ UNCHANGED <<mode, place, takeQueries, finish, answers, store, others, visits>>

-----------------------------------------------------------------------------
(* Handing in *)

\* The branch with "view results" is the other branch than that of an answer.
CanViewResults ==
    /\ OnQuiz
    /\ pg.at = N
    /\ ~((~pg.isSubmitted \/ mode = "exam") /\ ~Completed)
    /\ finish.st = "no"

ViewResults ==
    /\ CanViewResults
    /\ finish' = [st |-> IF mode = "exam" \/ pg.aiOff THEN "batch" ELSE "complete",
                  paper |-> IF mode = "exam" \/ pg.aiOff THEN pg.submitted ELSE Blank, mine |-> TRUE]
    /\ UNCHANGED <<takeServer, place, takeQueries, pg, requests, answers, store, others, visits, apart>>

Filled(s) == [i \in Item |-> IF s[i] = Nil THEN Skipped ELSE s[i]]

\* complete_quiz_session: items without an answer count as skipped; a graded
\* quiz is completed again.
Complete ==
    /\ finish.st = "complete" /\ mode = "normal"
    /\ status \in Taking \cup {"graded"}
    /\ status' = "graded"
    /\ sheet' = IF status = "graded" THEN sheet ELSE Filled(sheet)
    /\ UNCHANGED apart

\* Items whose answer on the page is no longer the one on the paper handed in.
NotOf(paper) == {i \in Item : InFlight(i) \/ pg.submitted[i] # paper[i]}

\* submit_batch_answers: the answers replace all that were recorded.
Batch ==
    /\ finish.st = "batch" /\ status \in Taking
    /\ status' = "graded"
    /\ sheet' = Filled(finish.paper)
    /\ apart' = NotOf(finish.paper)

Graded ==
    /\ Complete \/ Batch
    /\ finish' = IF finish.mine THEN [finish EXCEPT !.st = "refreshing"] ELSE NoFinish
    /\ fetch' = IF place = "take" /\ finish.mine THEN Asked(cache.session) ELSE fetch
    /\ UNCHANGED <<mode, place, cache, pg, requests, answers, store, others, visits>>

GradingRefused ==
    /\ \/ finish.st = "complete" /\ status \notin Taking \cup {"graded"}
       \/ finish.st = "batch" /\ (status \notin Taking \/ "credit" \in TakeFaults)
    /\ finish' = NoFinish
    /\ UNCHANGED <<takeServer, place, takeQueries, pg, requests, answers, store, others, visits, apart>>

\* onSuccess goes to the results when the queries of the page, if it is still
\* there, were read again; it does so wherever the user is by then.
ShowResults ==
    /\ finish.st = "refreshing"
    /\ place = "take" => fetch.session \in {"no", "failed"} /\ fetch.logs = "no"
    /\ finish' = NoFinish
    /\ place' = "results"
    /\ fetch' = NoFetch
    /\ pg' = FreshTake
    /\ requests' = Orphaned
    /\ UNCHANGED <<takeServer, cache, answers, store, others, visits, apart>>

OpenResults ==
    /\ place = "away"
    /\ place' = "results"
    /\ UNCHANGED <<takeServer, takeQueries, pg, finish, requests, answers, store, others, visits, apart>>

\* shouldFinalizeNormalSession: every item has a log, and the quiz is not graded.
ShouldFinalize == mode = "normal" /\ status \in Taking /\ Answered(sheet) = Item

\* The results page reads the session and the logs, and completes the session.
LoadResults ==
    /\ place = "results"
    /\ status' = IF ShouldFinalize THEN "graded" ELSE status
    /\ cache' = [cache EXCEPT !.session = status']
    /\ UNCHANGED <<mode, sheet, place, fetch, pg, finish, requests, answers, store, others, visits, apart>>

-----------------------------------------------------------------------------
TakeNext ==
    \/ OpenTake \/ LeaveTake \/ Reload \/ ShowSession \/ FailSession \/ ReadLogs \/ ShowLogs
    \/ AnswerGrade \/ ExamLocalSave \/ Skip \/ NextItem \/ PrevItem
    \/ Slide \/ ToggleAi
    \/ \E r \in requests : CheckAnswer(r) \/ RefuseAnswer(r) \/ RecordAnswer(r)
    \/ ViewResults \/ Graded \/ GradingRefused \/ ShowResults
    \/ OpenResults \/ LoadResults

TakeSpec == TakeInit /\ [][TakeNext]_takeVars
-----------------------------------------------------------------------------
TakeTypeOK ==
    /\ mode \in Modes
    /\ status \in Taking \cup {"graded"}
    /\ sheet \in Sheet
    /\ place \in {"away", "take", "results"}
    /\ cache.session \in Taking \cup {"graded", Nil}
    /\ pg.at \in Item /\ pg.furthest \in Item
    /\ pg.submitted \in Sheet
    /\ pg.grading \in Item \cup {0}
    /\ \A r \in requests : r.item \in Item /\ r.answer \in {Skipped, Given}
    /\ store \in [Item -> {Nil, Given}]
    /\ apart \subseteq Item

\* What the page shows as answered is what the server has recorded, or is on
\* its way, or the item is one of the exceptions that apart lists.
\* (QuizTake: handleAnswerGrade, handleSkip, handleViewResults, the effects)
AnswersReachServer ==
    place = "take" /\ mode = "normal" =>
        \A i \in Item : pg.submitted[i] \in {Nil, sheet[i]} \/ InFlight(i) \/ i \in apart

\* A quiz is resumed by counting its answers; no item before the one on the
\* screen is passed over unless its answer was lost.
\* (QuizTake: the effect that resumes at the next unanswered question)
NothingPassedOver ==
    place = "take" /\ mode = "normal" =>
        \A i \in Item : i < pg.at => sheet[i] # Nil \/ InFlight(i) \/ i \in apart

\* While a quiz is being taken the result on the screen is that of the item on
\* the screen, whatever replies and logs arrive, and whenever.
\* (QuizTake: currentItemIdRef, slideQuestion, the effects)
ResultOfItem == place = "take" /\ ~Completed => (Feedback = "result" => pg.shown = pg.at)

\* "Grading" is on the screen only while the answer of the item is on its way.
\* (QuizTake: gradingItemId)
GradingIsUnderWay == Feedback = "grading" => InFlight(pg.at)

\* A reload loses no answer of an exam: the session storage has what the page
\* shows.  (QuizTake: applyExamLocalSave, the effect that restores an exam)
ExamAnswersAreKept ==
    place = "take" /\ mode = "exam" /\ cache.session \in Taking => pg.submitted = store
=============================================================================

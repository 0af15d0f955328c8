------------------------------ MODULE QuizStream -----------------------------
(***************************************************************************)
(* The generation of a quiz: the page that waits for it, the event stream  *)
(* it opens and opens again, the generator on the server that stream runs, *)
(* and the task that takes over when a stream ends before its quiz.        *)
(*                                                                         *)
(* Nothing on the server keeps a second run from starting: a stream opened *)
(* again, or a task, generates the questions once more.                    *)
(***************************************************************************)
EXTENDS Naturals, FiniteSets

CONSTANTS
    MaxRetries,  \* MAX_RETRIES of useSSE
    MaxDrops,    \* bound on the connections that break
    MaxLooks,    \* bound on the times the page is opened
    StreamFaults \* "token": no stream token; "network": no connection; "error": the
                 \* AI fails; "rejected": it refuses the input; "task": a task fails

ASSUME StreamAssumption ==
    /\ MaxRetries \in Nat \ {0}
    /\ {MaxDrops, MaxLooks} \subseteq Nat
    /\ StreamFaults \subseteq {"token", "network", "error", "rejected", "task"}

VARIABLES
    made,     \* of the session on the server
    reason,   \* the session failed because the input was rejected
    copies,   \* how often the questions were written
    begun,    \* streams and tasks that began to generate
    conn,     \* the generator of the page's connection: "no", "work", "send" (the quiz
              \* is ready), "end" (done), "error"
    loose,    \* generators whose connection is gone, which they have not noticed
    queued,   \* tasks
    running,
    failed,   \* history: a generator failed
    screen,   \* "on", "away" or "new", the form of a new quiz
    seen,     \* the queries' data: session (a status, or "no"), items (copies read, or "no")
    asked,    \* the queries under way
    sse,      \* the hook: "off", "token", "connect", "open", "backoff"
    retries,
    wait,     \* the page: isStreaming, streamFailed, tooLong; early (history): data
              \* that were read closed the stream while the page was streaming
    drops,
    looks

streamVars == <<made, reason, copies, begun, conn, loose, queued, running, failed, screen, seen, asked, sse, retries, wait, drops, looks>>

streamServer == <<made, reason, copies, begun, loose, queued, running, failed>>
bounds == <<drops, looks>>

FreshWait == [isStreaming |-> FALSE, streamFailed |-> FALSE, tooLong |-> FALSE, early |-> FALSE]

StreamInit ==
    /\ made = "draft" /\ reason = FALSE /\ copies = 0 /\ begun = 0
    /\ conn = "no" /\ loose = 0 /\ queued = 0 /\ running = 0
    /\ failed = FALSE
    /\ screen = "away"
    /\ seen = [session |-> "no", items |-> "no"]
    /\ asked = {}
    /\ sse = "off" /\ retries = 0
    /\ wait = FreshWait
    /\ drops = 0 /\ looks = 0

-----------------------------------------------------------------------------
(* The screens of the page *)

NoItems(c) == c.items \in {"no", "0"}

\* Mutant: a stream that failed is wanted again.
WantsAgain(c, p) == c.session = "draft" /\ NoItems(c)

ShouldStream(c, p) == c.session = "draft" /\ NoItems(c) /\ ~p.streamFailed

IsGenerating(c, p) == c.session = "generating" \/ p.isStreaming

OnStream == (ShouldStream(seen, wait) \/ wait.isStreaming) /\ ~wait.tooLong

OnGenerating == seen.session = "generating" /\ ~wait.tooLong

OnFailed == seen.session = "generation_failed" \/ wait.tooLong

OnSkeleton == seen.items = "no" \/ (seen.session = "ready" /\ seen.items = "0")

Screen ==
    IF screen # "on" THEN "none"
    ELSE IF seen.session = "no" THEN "loading"
    ELSE IF OnStream THEN "stream"
    ELSE IF OnGenerating THEN "generating"
    ELSE IF OnFailed THEN "failed"
    ELSE IF OnSkeleton THEN "loading"
    ELSE IF seen.items = "0" THEN "empty" ELSE "quiz"

Waiting == Screen \in {"loading", "stream", "generating"}

-----------------------------------------------------------------------------
(* The hook follows what the page wants *)

\* The connection is closed; a generator that has not finished notices later.
Cut ==
    /\ conn' = "no"
    /\ loose' = IF conn = "work" THEN loose + 1 ELSE loose

KeepConn == UNCHANGED <<conn, loose>>

Closing(c, p) == sse # "off" /\ ~ShouldStream(c, p)

\* After a change of the page's state to c and p: the effects of the hook and
\* of the timer.  A stream that is no longer wanted is closed.
React(c, p) ==
    /\ seen' = c
    /\ wait' = [p EXCEPT !.tooLong = @ /\ IsGenerating(c, p), !.early = @ \/ (Closing(c, p) /\ p.isStreaming)]
    /\ IF ~ShouldStream(c, p) THEN sse' = "off" /\ retries' = 0 /\ Cut
       ELSE IF sse = "off" THEN sse' = "token" /\ retries' = 0 /\ KeepConn
       ELSE UNCHANGED <<sse, retries>> /\ KeepConn

\* The data of an earlier visit are used while they are read again.
OpenWaiting ==
    /\ screen # "on" /\ looks < MaxLooks
    /\ screen' = "on" /\ looks' = looks + 1
    /\ asked' = {"session", "items"}
    /\ wait' = FreshWait /\ retries' = 0
    /\ sse' = IF ShouldStream(seen, FreshWait) THEN "token" ELSE "off"
    /\ UNCHANGED <<streamServer, conn, seen, drops>>

LeaveStream(to) ==
    /\ screen' = to
    /\ asked' = {}
    /\ wait' = FreshWait /\ sse' = "off" /\ retries' = 0
    /\ Cut
    /\ UNCHANGED <<made, reason, copies, begun, queued, running, failed, seen, bounds>>

\* The button of the streaming screen.
CancelStream == Screen = "stream" /\ LeaveStream("new")

\* The button of the screen that waits for a task.
CancelGenerating == Screen = "generating" /\ LeaveStream("new")

NewQuizAfterFailure == Screen = "failed" /\ LeaveStream("new")

GoAway == screen = "on" /\ LeaveStream("away")

\* A failed session whose input was rejected leads back to its form.
ShowStatus ==
    /\ screen = "on" /\ "session" \in asked
    /\ LET c == [seen EXCEPT !.session = made] IN
       IF made = "generation_failed" /\ reason
       THEN /\ screen' = "new" /\ seen' = c /\ asked' = {}
            /\ wait' = FreshWait /\ sse' = "off" /\ retries' = 0 /\ Cut
       ELSE screen' = screen /\ asked' = asked \ {"session"} /\ React(c, wait)
    /\ UNCHANGED <<made, reason, copies, begun, queued, running, failed, bounds>>

Count == IF copies = 0 THEN "0" ELSE "some"

ShowItems ==
    /\ screen = "on" /\ "items" \in asked
    /\ asked' = asked \ {"items"}
    /\ React([seen EXCEPT !.items = Count], wait)
    /\ UNCHANGED <<made, reason, copies, begun, queued, running, failed, screen, bounds>>

\* Every two seconds while the session is generating.
PollSession == screen = "on" /\ seen.session = "generating" /\ "session" \notin asked

PollItems ==
    /\ screen = "on" /\ "items" \notin asked
    /\ \/ seen.session = "generating"
       \/ seen.session = "ready" /\ seen.items = "0"

Poll ==
    /\ PollSession \/ PollItems
    /\ asked' = asked \cup {q \in {"session"} : PollSession} \cup {q \in {"items"} : PollItems}
    /\ UNCHANGED <<streamServer, conn, screen, seen, sse, retries, wait, bounds>>

\* GENERATING_TIMEOUT_MS after the page began to wait.
GeneratingTooLong ==
    /\ screen = "on" /\ IsGenerating(seen, wait) /\ ~wait.tooLong
    /\ wait' = [wait EXCEPT !.tooLong = TRUE]
    /\ UNCHANGED <<streamServer, conn, screen, seen, asked, sse, retries, bounds>>

-----------------------------------------------------------------------------
(* useSSE *)

Invalidated == {"session", "items"}

\* onError of the page: the stream is given up, and the queries are read again.
OnError ==
    /\ asked' = Invalidated
    /\ React(seen, [wait EXCEPT !.isStreaming = FALSE, !.streamFailed = TRUE])

\* A late token is dropped when the hook was closed meanwhile.
GetToken ==
    /\ sse = "token"
    /\ sse' = "connect"
    /\ UNCHANGED <<streamServer, conn, screen, seen, asked, retries, wait, bounds>>

TokenRefused ==
    /\ "token" \in StreamFaults /\ sse = "token"
    /\ OnError
    /\ UNCHANGED <<made, reason, copies, begun, queued, running, failed, screen, bounds>>

\* A broken connection is tried again after 1, 2 and 4 seconds.
RetryOrGiveUp ==
    IF retries < MaxRetries
    THEN sse' = "backoff" /\ retries' = retries + 1 /\ Cut /\ UNCHANGED <<wait, seen, asked>>
    ELSE OnError

\* generate_quiz_stream takes a session that is a draft or being generated.
Streamable == made \in {"draft", "generating"}

OpenStream ==
    /\ sse = "connect" /\ Streamable
    /\ sse' = "open" /\ retries' = 0
    /\ conn' = "work"
    /\ made' = "generating" /\ begun' = begun + 1
    /\ UNCHANGED <<reason, copies, loose, queued, running, failed, screen, seen, asked, wait, bounds>>

\* The server refuses, or is not reached.
ConnectFails ==
    /\ sse = "connect"
    /\ ~Streamable \/ "network" \in StreamFaults
    /\ RetryOrGiveUp
    /\ UNCHANGED <<made, reason, copies, begun, queued, running, failed, screen, bounds>>

BackOff ==
    /\ sse = "backoff"
    /\ sse' = "token"
    /\ UNCHANGED <<streamServer, conn, screen, seen, asked, retries, wait, bounds>>

\* The stream breaks.  When the browser is online again the queries are read.
Drop ==
    /\ drops < MaxDrops /\ drops' = drops + 1
    /\ sse = "open"
    /\ sse' = "backoff" /\ retries' = 1 /\ Cut
    /\ asked' \in {asked, Invalidated}
    /\ UNCHANGED <<made, reason, copies, begun, queued, running, failed, screen, seen, wait, looks>>

\* A stage, the model's thinking, a question: the page is streaming.
OnMessage ==
    /\ sse = "open" /\ conn \in {"work", "send"} /\ ~wait.isStreaming
    /\ React(seen, [wait EXCEPT !.isStreaming = TRUE])
    /\ UNCHANGED <<made, reason, copies, begun, queued, running, failed, screen, asked, bounds>>

\* The event "error" of the server.
OnServerError ==
    /\ sse = "open" /\ conn = "error"
    /\ OnError
    /\ UNCHANGED <<made, reason, copies, begun, queued, running, failed, screen, bounds>>

\* The event "done": the hook closes, and the queries are read again.
OnDone ==
    /\ sse = "open" /\ conn = "end"
    /\ sse' = "off" /\ conn' = "no" /\ asked' = Invalidated
    /\ wait' = [wait EXCEPT !.isStreaming = FALSE,
                        !.tooLong = @ /\ seen.session = "generating"]
    /\ UNCHANGED <<streamServer, screen, seen, retries, bounds>>

-----------------------------------------------------------------------------
(* stream_quiz_generation *)

\* The questions and the status are committed together.
Persist == made' = "ready" /\ copies' = copies + 1

Finish ==
    /\ conn = "work"
    /\ Persist
    /\ conn' = "send"
    /\ UNCHANGED <<reason, begun, loose, queued, running, failed, screen, seen, asked, sse, retries, wait, bounds>>

Sent ==
    /\ conn = "send"
    /\ conn' = "end"
    /\ UNCHANGED <<streamServer, screen, seen, asked, sse, retries, wait, bounds>>

\* A JobFailure: the AI returns nothing, or refuses the input.
Reject ==
    /\ "rejected" \in StreamFaults /\ conn = "work"
    /\ made' = "generation_failed" /\ reason' = TRUE
    /\ conn' = "error"
    /\ UNCHANGED <<copies, begun, loose, queued, running, failed, screen, seen, asked, sse, retries, wait, bounds>>

\* Any other failure: the handler dispatches the task, and so does the finally
\* block, which finds the session still generating.
Fail ==
    /\ "error" \in StreamFaults /\ conn = "work"
    /\ conn' = "error" /\ queued' = queued + 2
    /\ failed' = TRUE
    /\ UNCHANGED <<made, reason, copies, begun, loose, running, screen, seen, asked, sse, retries, wait, bounds>>

\* The generator is closed: its finally block dispatches the task.
Notice ==
    /\ loose > 0
    /\ loose' = loose - 1 /\ queued' = queued + 1
    /\ UNCHANGED <<made, reason, copies, begun, conn, running, failed, screen, seen, asked, sse, retries, wait, bounds>>

\* It finishes before it notices.
FinishLoose ==
    /\ loose > 0
    /\ loose' = loose - 1
    /\ Persist
    /\ UNCHANGED <<reason, begun, conn, queued, running, failed, screen, seen, asked, sse, retries, wait, bounds>>

-----------------------------------------------------------------------------
(* The task generate_quiz *)

TaskStart ==
    /\ queued > 0
    /\ queued' = queued - 1 /\ running' = running + 1
    /\ made' = "generating" /\ begun' = begun + 1
    /\ UNCHANGED <<reason, copies, conn, loose, failed, screen, seen, asked, sse, retries, wait, bounds>>

TaskFinish ==
    /\ running > 0
    /\ running' = running - 1
    /\ Persist
    /\ UNCHANGED <<reason, begun, conn, loose, queued, failed, screen, seen, asked, sse, retries, wait, bounds>>

\* A JobFailure leaves the status; another exception sets it.
TaskFail ==
    /\ "task" \in StreamFaults /\ running > 0
    /\ running' = running - 1
    /\ made' \in {made, "generation_failed"}
    /\ UNCHANGED <<reason, copies, begun, conn, loose, queued, failed, screen, seen, asked, sse, retries, wait, bounds>>

-----------------------------------------------------------------------------
Stream == OnMessage \/ OnServerError \/ OnDone \/ Finish \/ Sent \/ Reject \/ Fail

Connecting == GetToken \/ TokenRefused \/ OpenStream \/ ConnectFails \/ BackOff

StreamNext ==
    \/ OpenWaiting \/ CancelStream \/ CancelGenerating \/ NewQuizAfterFailure \/ GoAway
    \/ ShowStatus \/ ShowItems \/ Poll \/ GeneratingTooLong
    \/ Connecting \/ Drop \/ Stream
    \/ Notice \/ FinishLoose \/ TaskStart \/ TaskFinish \/ TaskFail

\* Requests are answered, the timers of the browser run out, and the generator
\* ends: the AI is given generation_timeout seconds.  Nothing is assumed of the
\* user, of broken connections or of the worker.
StreamFairness ==
    /\ WF_streamVars(ShowStatus) /\ WF_streamVars(ShowItems) /\ WF_streamVars(Poll)
    /\ WF_streamVars(GeneratingTooLong)
    /\ WF_streamVars(Connecting) /\ WF_streamVars(Stream)

StreamSpec == StreamInit /\ [][StreamNext]_streamVars /\ StreamFairness
-----------------------------------------------------------------------------
Statuses == {"draft", "generating", "ready", "generation_failed"}

StreamTypeOK ==
    /\ made \in Statuses
    /\ conn \in {"no", "work", "send", "end", "error"}
    /\ sse \in {"off", "token", "connect", "open", "backoff"}
    /\ retries \in 0..MaxRetries
    /\ seen.session \in Statuses \cup {"no"}
    /\ {copies, begun, loose, queued, running} \subseteq Nat

\* A quiz that is ready has its questions, whichever run wrote them.
\* (stream_quiz_generation, generate_quiz: the commit of the status)
ReadyHasItems == made = "ready" => copies > 0

\* No run begins by itself: unless a connection broke, the page was opened again
\* or the generator failed, the questions are written once, even if the page is
\* left at any moment.  (stream_quiz_generation: the finally block; useSSE)
OneVisitOneCopy == drops = 0 /\ looks <= 1 /\ ~failed => copies <= 1

\* The hook is connected only while the page wants the stream: a stream that is
\* not wanted any more is closed.  (QuizTake: shouldStream; useSSE: enabled)
OpenIsWanted == sse # "off" => screen = "on" /\ ShouldStream(seen, wait)

\* Nobody waits for ever: a page that waits comes to a quiz, to a failure or to
\* the screen without questions, even if the worker is down, or it is left.
\* (QuizTake: GENERATING_TIMEOUT_MS, streamFailed; useSSE: MAX_RETRIES)
WaitingEnds == Waiting ~> ~Waiting

\* The page streams only while it has a stream, unless data it read told it that
\* the session is no draft any more.  (QuizTake: onDone, onError, shouldStream)
StreamingHasStream == wait.isStreaming /\ ~wait.early => sse # "off"
=============================================================================

------------------------------ MODULE GuestQuiz ------------------------------
(***************************************************************************)
(* A quiz for a guest: the form that makes it (upload a file, wait until   *)
(* it is parsed, create the quiz, wait until it is generated, navigate),   *)
(* the page that takes it, the page of its results, from which the guest   *)
(* signs up, and the server's handlers of guests.  Who the guest is is an  *)
(* id that the page keeps in memory and in the local storage; every        *)
(* request carries the one in memory.                                      *)
(*                                                                         *)
(* A form that is left goes on: it uploads, creates, polls and navigates.  *)
(* Another tab may put another id in the storage, which counts when the    *)
(* page is loaded again.                                                   *)
(*                                                                         *)
(* The handler of answers returns nothing and commits nothing, so a guest  *)
(* never has the result of an answer: the pages' code for one is not here. *)
(***************************************************************************)
EXTENDS Naturals, Sequences

CONSTANTS
    Ids,        \* ids of guests, in the order in which they are made
    MaxQuizzes, \* bound on the quizzes that are created
    MaxUploads, \* GUEST_MAX_FILES
    MaxTries,   \* bound on what the guest does
    GuestFaults \* "network": a request fails; "limit": too many requests; "check":
                \* the widget's token is refused; "cleanup": the guest is away for a day

ASSUME GuestAssumption ==
    /\ Ids \in Seq(STRING)
    /\ {MaxQuizzes, MaxUploads, MaxTries} \subseteq Nat
    /\ GuestFaults \subseteq {"network", "limit", "check", "cleanup"}

Guests == {Ids[i] : i \in DOMAIN Ids}
NoId   == "none"

VARIABLES
    guests,  \* the server's record of each id: "none", "live", "converted", "deleted"
    quizzes, \* the server's quizzes: owner (the guest's id), st, user (there is one)
    uploads, \* the server's files of guests: owner and st
    made,    \* how many of the ids were made
    mine,    \* guestSessionId, in memory
    stored,  \* and in the local storage
    where,   \* the page, its quiz, and the guest's id in the address
    form,    \* inputMode, whether topic, text and file are given, fileError,
             \* turnstileToken, error
    sub,     \* handleSubmit of the form on the page: what it waits for, the mode it
             \* was started in, the id its request carries, its file and its quiz
    left,    \* handleSubmit of a form that was left
    take,    \* the page that takes a quiz: session.status, items, loading, error,
             \* the requests on their way, the answer and how it fares
    shown,   \* what the page of the results shows: the quiz, or 0
    given,   \* history: the quizzes of which an answer was given
    logged,  \* the quizzes of which the server has an answer
    tries

guestServer == <<guests, quizzes, uploads, logged>>
guestPages  == <<made, mine, stored, where, form, sub, left, take, shown, given>>
guestVars   == <<guestServer, guestPages, tries>>

NewForm == [mode |-> "topic", topic |-> FALSE, text |-> FALSE, file |-> FALSE,
            bad |-> FALSE, token |-> FALSE, error |-> "none"]
NoSub   == [st |-> "no", mode |-> "topic", by |-> NoId, file |-> 0, quiz |-> 0]
NewTake == [status |-> "unread", items |-> FALSE, error |-> "none", init |-> TRUE,
            polls |-> {}, fetching |-> FALSE, answer |-> FALSE, sending |-> FALSE, message |-> FALSE]
NoTake  == [NewTake EXCEPT !.init = FALSE]

GuestInit ==
    /\ guests = [g \in Guests |-> "none"]
    /\ quizzes = <<>> /\ uploads = <<>> /\ logged = {}
    /\ made = 0 /\ mine = NoId /\ stored = NoId
    /\ where = [page |-> "away", quiz |-> 0, id |-> NoId]
    /\ form = NewForm /\ sub = NoSub /\ left = NoSub
    /\ take = NoTake /\ shown = 0 /\ given = {}
    /\ tries = 0

Try(n) == tries + n <= MaxTries /\ tries' = tries + n

-----------------------------------------------------------------------------
(* Who the guest is, for the server *)

\* get_or_create: an id whose record was cleaned up cannot be recorded again.
Known(id) == id # NoId /\ guests[id] # "deleted"

\* A handler that commits leaves the record of a new guest.
Recorded(id) == [guests EXCEPT ![id] = IF @ = "none" THEN "live" ELSE @]

\* A quiz is shown to the guest whose it is.
MayRead(id, q) == Known(id) /\ quizzes[q].owner = id

-----------------------------------------------------------------------------
(* From page to page *)

\* The page is left, with the requests it waits for; its handleSubmit goes on.
GoWith(page, q, id) ==
    /\ where' = [page |-> page, quiz |-> q, id |-> id]
    /\ form' = NewForm
    /\ take' = IF page = "take" THEN NewTake ELSE NoTake
    /\ shown' = 0

Go(page, q) == GoWith(page, q, NoId)

GoOn == left' = (IF sub.st # "no" THEN sub ELSE left) /\ sub' = NoSub

\* A form that is left while an earlier one still goes on is left out.
CanLeave == sub.st = "no" \/ left.st = "no"

VisitGuest(page, q) ==
    /\ CanLeave /\ Try(1)
    /\ Go(page, q) /\ GoOn
    /\ UNCHANGED <<guestServer, made, mine, stored, given>>

VisitTry == where.page # "try" /\ VisitGuest("try", 0)

\* The address of the quiz, or of its results.
VisitQuiz(q) ==
    /\ q \in DOMAIN quizzes
    /\ \E page \in {"take", "results"} : <<where.page, where.quiz>> # <<page, q>> /\ VisitGuest(page, q)

\* The page is loaded again: what it waits for is gone, and the id is read.
ReloadGuest ==
    /\ where.page # "away" /\ Try(1)
    /\ GoWith(where.page, where.quiz, where.id)
    /\ mine' = stored /\ sub' = NoSub /\ left' = NoSub
    /\ UNCHANGED <<guestServer, made, stored, given>>

\* Another tab, opened before there was an id, makes one of its own, and asks for a
\* quiz with it.
OtherTab ==
    /\ made < Len(Ids) /\ Try(1)
    /\ made' = made + 1
    /\ stored' = Ids[made']
    /\ guests' \in {guests, Recorded(stored')}
    /\ UNCHANGED <<quizzes, uploads, logged, mine, where, form, sub, left, take, shown, given>>

-----------------------------------------------------------------------------
(* The form *)

Edit(f) ==
    /\ where.page = "try" /\ Try(1)
    /\ form' = f
    /\ UNCHANGED <<guestServer, made, mine, stored, where, sub, left, take, shown, given>>

SelectMode(m) == form.mode # m /\ Edit([form EXCEPT !.mode = m])

TypeTopic == form.mode = "topic" /\ Edit([form EXCEPT !.topic = ~@])

TypeText == form.mode = "text" /\ Edit([form EXCEPT !.text = ~@])

\* A file that is too large is not taken, and what was there stays.
AddFiles(large) ==
    /\ form.mode = "file"
    /\ Edit(IF large THEN [form EXCEPT !.bad = TRUE] ELSE [form EXCEPT !.file = TRUE, !.bad = FALSE])

RemoveFile == form.mode = "file" /\ form.file /\ Edit([form EXCEPT !.file = FALSE, !.bad = FALSE])

\* onSuccess, onExpire and onError of the widget.
Turnstile ==
    /\ where.page = "try"
    /\ form' = [form EXCEPT !.token = ~@]
    /\ (IF form.token THEN Try(1) ELSE Try(0))
    /\ UNCHANGED <<guestServer, made, mine, stored, where, sub, left, take, shown, given>>

HasInput ==
    \/ form.mode = "topic" /\ form.topic
    \/ form.mode = "text" /\ form.text
    \/ form.mode = "file" /\ form.file

CanSubmit == HasInput /\ form.token /\ sub.st = "no"

-----------------------------------------------------------------------------
(* handleSubmit *)

Stage(st, id) == [NoSub EXCEPT !.st = st, !.mode = form.mode, !.by = id]

GetOrCreateSessionId ==
    \/ mine # NoId /\ UNCHANGED <<made, mine, stored>>
    \/ /\ mine = NoId /\ made < Len(Ids)
       /\ made' = made + 1
       /\ mine' = Ids[made'] /\ stored' = Ids[made']

Submit ==
    /\ where.page = "try" /\ CanSubmit
    /\ GetOrCreateSessionId
    /\ sub' = Stage(IF form.mode = "file" THEN "upload" ELSE "create", mine')
    /\ form' = [form EXCEPT !.error = "none"]
    /\ UNCHANGED <<guestServer, where, left, take, shown, given, tries>>

\* What becomes of s, which is sub or left; the form has moved on when it is left.
Becomes(s, t, error) ==
    \/ /\ s = "sub" /\ sub' = t
       /\ form' = IF t.st = "no" THEN [form EXCEPT !.error = error] ELSE form
       /\ UNCHANGED left
    \/ s = "left" /\ left' = t /\ UNCHANGED <<sub, form>>

Of(s) == IF s = "sub" THEN sub ELSE left

OnPage == UNCHANGED <<made, mine, stored, where, take, shown, given, tries>>

Fails(s, error) == Becomes(s, NoSub, error) /\ OnPage

Full(id) == Len(SelectSeq(uploads, LAMBDA u : u.owner = id)) >= MaxUploads

\* upload_guest_file.
UploadFile(s) ==
    /\ Of(s).st = "upload" /\ Known(Of(s).by)
    /\ ~Full(Of(s).by)
    /\ guests' = Recorded(Of(s).by)
    /\ uploads' = Append(uploads, [owner |-> Of(s).by, st |-> "uploaded"])
    /\ Becomes(s, [Of(s) EXCEPT !.st = "parse", !.file = Len(uploads')], "none")
    /\ OnPage /\ UNCHANGED <<quizzes, logged>>

Parsed(s) == uploads[Of(s).file].st

\* A file that was parsed in part will do, and one that is not in the list of the
\* guest who asks.
FilesReady(s) ==
    /\ Of(s).st = "parse" /\ Known(mine)
    /\ uploads[Of(s).file].owner = mine => Parsed(s) \in {"ready", "failed_partial"}
    /\ Becomes(s, [Of(s) EXCEPT !.st = "create", !.by = mine], "none")
    /\ OnPage /\ UNCHANGED guestServer

FilesFailed(s) ==
    /\ Of(s).st = "parse" /\ Known(mine)
    /\ uploads[Of(s).file].owner = mine /\ Parsed(s) = "failed_terminal"
    /\ Fails(s, "file") /\ UNCHANGED guestServer

\* create_public_quiz_session: its file is one of the guest's.
CreateQuiz(s) ==
    /\ Of(s).st = "create" /\ Known(Of(s).by) /\ Len(quizzes) < MaxQuizzes
    /\ Of(s).mode = "file" => uploads[Of(s).file].owner = Of(s).by
    /\ guests' = Recorded(Of(s).by)
    /\ quizzes' = Append(quizzes, [owner |-> Of(s).by, st |-> "generating", user |-> FALSE])
    /\ uploads' = IF Of(s).mode = "text" THEN Append(uploads, [owner |-> Of(s).by, st |-> "ready"]) ELSE uploads
    /\ \/ Becomes(s, [Of(s) EXCEPT !.st = "generate", !.quiz = Len(quizzes')], "none")
       \/ "network" \in GuestFaults /\ Becomes(s, NoSub, "request")
    /\ OnPage /\ UNCHANGED logged

\* It is generated: the guest is taken to it from wherever the guest is now.
QuizReady(s) ==
    /\ Of(s).st = "generate" /\ MayRead(mine, Of(s).quiz) /\ quizzes[Of(s).quiz].st = "ready"
    /\ Go("take", Of(s).quiz)
    /\ sub' = NoSub
    /\ left' = IF s = "sub" THEN left ELSE sub
    /\ UNCHANGED <<guestServer, made, mine, stored, given, tries>>

QuizFailed(s) ==
    /\ Of(s).st = "generate" /\ MayRead(mine, Of(s).quiz) /\ quizzes[Of(s).quiz].st = "generation_failed"
    /\ Fails(s, "generation") /\ UNCHANGED guestServer

\* A minute has passed.
TimeOut(s) ==
    /\ Of(s).st \in {"parse", "generate"}
    /\ Fails(s, "timeout") /\ UNCHANGED guestServer

\* A request that only asks carries the id of the moment.
Unwelcome(s) ==
    \/ ~Known(IF Of(s).st \in {"upload", "create"} THEN Of(s).by ELSE mine)
    \/ Of(s).st = "upload" /\ Full(Of(s).by)
    \/ Of(s).st = "create" /\ Of(s).mode = "file" /\ uploads[Of(s).file].owner # Of(s).by
    \/ Of(s).st = "create" /\ "check" \in GuestFaults
    \/ Of(s).st = "generate" /\ ~MayRead(mine, Of(s).quiz)

\* The server refuses, or cannot be reached.
Refused(s) ==
    /\ Of(s).st # "no"
    /\ \/ (Unwelcome(s) \/ "network" \in GuestFaults) /\ Fails(s, "request")
       \/ Of(s).st \in {"upload", "create"} /\ "limit" \in GuestFaults /\ Fails(s, "limit")
    /\ UNCHANGED guestServer

-----------------------------------------------------------------------------
(* The worker and the cleanup *)

ServerOnly == UNCHANGED <<guestPages, tries>>

ParseFile(f) ==
    /\ f \in DOMAIN uploads /\ uploads[f].st = "uploaded"
    /\ \E st \in {"ready", "failed_partial", "failed_terminal"} : uploads' = [uploads EXCEPT ![f].st = st]
    /\ ServerOnly /\ UNCHANGED <<guests, quizzes, logged>>

GenerateQuiz(q) ==
    /\ q \in DOMAIN quizzes /\ quizzes[q].st = "generating"
    /\ \E st \in {"ready", "generation_failed"} : quizzes' = [quizzes EXCEPT ![q].st = st]
    /\ ServerOnly /\ UNCHANGED <<guests, uploads, logged>>

\* cleanup_guest_data: a day without a request that left a trace.
Cleanup(g) ==
    /\ "cleanup" \in GuestFaults /\ guests[g] = "live" /\ Try(1)
    /\ guests' = [guests EXCEPT ![g] = "deleted"]
    /\ UNCHANGED <<guestPages, quizzes, uploads, logged>>

-----------------------------------------------------------------------------
(* The page that takes a quiz *)

TakeBecomes(t) ==
    /\ take' = t
    /\ UNCHANGED <<guestServer, made, mine, stored, where, form, sub, left, shown, given, tries>>

OnTake == where.page = "take"

\* What get_public_quiz_session answers.
Answer(q) == IF MayRead(mine, q) THEN quizzes[q].st ELSE IF Known(mine) THEN "missing" ELSE "broken"

\* fetchSession has its answer, which it reads from when it was asked.
Read(t, st) ==
    IF st \in {"missing", "broken"} THEN [t EXCEPT !.error = st]
    ELSE [t EXCEPT !.status = st, !.fetching = @ \/ st = "ready"]

FetchSession ==
    /\ OnTake /\ take.init
    /\ \/ TakeBecomes([Read(take, Answer(where.quiz)) EXCEPT !.init = FALSE])
       \/ "network" \in GuestFaults /\ TakeBecomes([Read(take, "broken") EXCEPT !.init = FALSE])

\* The interval of the effect asks whether or not the last answer is there.
PollSession ==
    /\ OnTake /\ take.status = "generating"
    /\ TakeBecomes([take EXCEPT !.polls = @ \cup {Answer(where.quiz)}])

\* Mutant: the answer of a poll only says what the status is.
PollForgetsItems(st) ==
    /\ OnTake /\ st \in take.polls
    /\ TakeBecomes([take EXCEPT !.polls = @ \ {st}, !.status = IF st \in {"missing", "broken"} THEN @ ELSE st,
                                !.error = IF st \in {"missing", "broken"} THEN st ELSE @])

\* Answers may overtake one another.
PollAnswered(st) ==
    /\ OnTake /\ st \in take.polls
    /\ TakeBecomes([Read(take, st) EXCEPT !.polls = @ \ {st}])

FetchItems ==
    /\ OnTake /\ take.fetching
    /\ \/ /\ MayRead(mine, where.quiz) /\ quizzes[where.quiz].st = "ready"
          /\ TakeBecomes([take EXCEPT !.fetching = FALSE, !.items = TRUE])
       \/ /\ ~MayRead(mine, where.quiz) \/ "network" \in GuestFaults
          /\ TakeBecomes([take EXCEPT !.fetching = FALSE, !.error = "broken"])

\* What it shows, in the order in which it asks.
Screen ==
    IF take.error = "missing" THEN "notFound"
    ELSE IF take.error = "broken" THEN "error"
    ELSE IF take.status = "generation_failed" THEN "failed"
    ELSE IF take.status # "ready" \/ ~take.items THEN "preparing"
    ELSE "question"

\* A text is written; an option is chosen and sent at once.
WriteAnswer ==
    /\ OnTake /\ Screen = "question" /\ ~take.sending /\ ~take.answer /\ Try(1)
    /\ take' = [take EXCEPT !.answer = TRUE]
    /\ UNCHANGED <<guestServer, made, mine, stored, where, form, sub, left, shown, given>>

SubmitAnswer ==
    /\ OnTake /\ Screen = "question" /\ ~take.sending /\ take.answer /\ Try(1)
    /\ take' = [take EXCEPT !.sending = TRUE, !.message = FALSE]
    /\ given' = given \cup {where.quiz}
    /\ UNCHANGED <<guestServer, made, mine, stored, where, form, sub, left, shown>>

\* submit_public_answer grades it and adds the log; it has nothing to return, which
\* is an error, and the transaction is not committed.
SubmitPublicAnswer ==
    /\ OnTake /\ take.sending
    /\ logged' = logged
    /\ take' = [take EXCEPT !.sending = FALSE, !.message = TRUE]
    /\ UNCHANGED <<guests, quizzes, uploads, made, mine, stored, where, form, sub, left, shown, given, tries>>

-----------------------------------------------------------------------------
(* The results, and from there to sign up *)

\* Questions without an answer count as skipped.
LoadResults ==
    /\ where.page = "results" /\ shown = 0 /\ MayRead(mine, where.quiz)
    /\ shown' = where.quiz
    /\ UNCHANGED <<guestServer, made, mine, stored, where, form, sub, left, take, given, tries>>

\* Mutant: the id of the storage.
StoredId == stored

\* The id that the link of the results hands to the page for signing up.
SignupHref == mine

FollowSignup ==
    /\ where.page = "results" /\ shown # 0 /\ CanLeave /\ Try(1)
    /\ GoWith("signup", shown, SignupHref) /\ GoOn
    /\ UNCHANGED <<guestServer, made, mine, stored, given>>

\* What the guest made is the user's.
Handover(id) == [q \in DOMAIN quizzes |-> [quizzes[q] EXCEPT !.user = @ \/ quizzes[q].owner = id]]

\* convert_guest_to_user and mark_converted.
Converted(id) ==
    /\ guests[id] = "live"
    /\ guests' = [guests EXCEPT ![id] = "converted"]
    /\ quizzes' = Handover(id)
    /\ UNCHANGED <<uploads, logged>>

\* handleSubmit of the page for signing up: clearGuestData, and on to the dashboard.
ConvertGuest ==
    /\ where.page = "signup" /\ where.id # NoId /\ CanLeave
    /\ Converted(where.id)
    /\ GoWith("dashboard", where.quiz, NoId) /\ GoOn
    /\ mine' = NoId /\ stored' = NoId
    /\ UNCHANGED <<made, given, tries>>

\* The account is made, and its guest does not hear of it.
ConvertLost ==
    /\ where.page = "signup" /\ where.id # NoId /\ "network" \in GuestFaults
    /\ Converted(where.id)
    /\ UNCHANGED <<guestPages, tries>>

GuestNext ==
    \/ VisitTry \/ (\E q \in 1..MaxQuizzes : VisitQuiz(q)) \/ ReloadGuest \/ OtherTab
    \/ (\E m \in {"topic", "text", "file"} : SelectMode(m))
    \/ TypeTopic \/ TypeText \/ (\E large \in BOOLEAN : AddFiles(large)) \/ RemoveFile \/ Turnstile
    \/ Submit
    \/ \E s \in {"sub", "left"} :
          \/ UploadFile(s) \/ FilesReady(s) \/ FilesFailed(s)
          \/ CreateQuiz(s) \/ QuizReady(s) \/ QuizFailed(s)
          \/ TimeOut(s) \/ Refused(s)
    \/ \E n \in 1..(MaxQuizzes + MaxUploads) : ParseFile(n) \/ GenerateQuiz(n)
    \/ \E g \in Guests : Cleanup(g)
    \/ FetchSession \/ PollSession \/ FetchItems
    \/ (\E st \in {"generating", "ready", "generation_failed", "missing", "broken"} : PollAnswered(st))
    \/ WriteAnswer \/ SubmitAnswer \/ SubmitPublicAnswer
    \/ LoadResults \/ FollowSignup \/ ConvertGuest \/ ConvertLost

GuestSpec == GuestInit /\ [][GuestNext]_guestVars

-----------------------------------------------------------------------------
(* Properties *)

\* The variables have the values that the code gives them.
GuestTypeOK ==
    /\ guests \in [Guests -> {"none", "live", "converted", "deleted"}]
    /\ {mine, stored, where.id} \subseteq Guests \cup {NoId}
    /\ where.page \in {"away", "try", "take", "results", "signup", "dashboard"}
    /\ where.quiz \in 0..Len(quizzes)
    /\ {sub.st, left.st} \subseteq {"no", "upload", "parse", "create", "generate"}
    /\ form.error \in {"none", "file", "timeout", "generation", "limit", "request"}
    /\ shown \in {0, where.quiz} /\ given \cup logged \subseteq DOMAIN quizzes
    /\ tries \in 0..MaxTries

\* A page that says that the quiz is being prepared still asks for it: for the session,
\* for the items, or every two seconds (TryQuizTake.tsx, init and the polling effect).
PreparingIsWatched ==
    OnTake /\ Screen = "preparing" => take.init \/ take.fetching \/ take.status = "generating"

\* The quiz whose results led to signing up is the new user's, as the page for signing
\* up promises: the id in the address, the one in the storage and the quiz's owner agree.
SignupKeepsQuiz ==
    where.page = "dashboard" /\ where.quiz # 0 => quizzes[where.quiz].user

\* An answer that was given is kept by the time the results are shown.
AnswersAreKept == shown \in given => shown \in logged
=============================================================================

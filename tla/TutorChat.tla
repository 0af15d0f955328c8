------------------------------ MODULE TutorChat ------------------------------
(***************************************************************************)
(* The tutor of a study document: a chat whose answers arrive token by     *)
(* token over an event stream, the store that holds what is on the screen, *)
(* and the history the server keeps.                                       *)
(*                                                                         *)
(* A question is named by its number, an answer is a sequence of the       *)
(* number of its question, one for each token.                             *)
(***************************************************************************)
EXTENDS Integers, Sequences

CONSTANTS
    ChatRetries,  \* MAX_RETRIES of useSSE
    MaxQuestions, \* bound on the questions asked
    MaxNewChats,  \* bound on the chats begun
    MaxBreaks,    \* bound on the open streams that break
    ChatFaults    \* "network": a connection breaks or is refused; "ai": the AI fails

ASSUME TutorAssumption ==
    /\ ChatRetries \in Nat \ {0} /\ {MaxQuestions, MaxNewChats, MaxBreaks} \subseteq Nat
    /\ ChatFaults \subseteq {"network", "ai"}

VARIABLES
    talk,    \* the messages of the newest chat on the server
    past,    \* the history the page has read, as the only element of a sequence,
             \* which is empty until then
    chat,    \* the store: chatMessages, isStreaming, streamingContent
    tutor,   \* the tab: mounted, shouldSyncHistory; reading: the history is read;
             \* url: the question of the stream; renew: "no", "post" or "read"
    line,    \* the stream: "off", "connect", "open", "backoff"
    tries,
    sent,    \* the tokens sent of the answer
    current, \* the question of the stream belongs to the newest chat
    spoiled, \* history: questions whose stream broke or whose chat was cleared
    questions, newChats, breaks

chatVars == <<talk, past, chat, tutor, line, tries, sent, current, spoiled, questions, newChats, breaks>>

Empty == [msgs |-> <<>>, streaming |-> FALSE, got |-> <<>>]

Question(q) == [role |-> "user", of |-> q, text |-> <<>>]
Reply(q, text) == [role |-> "assistant", of |-> q, text |-> text]

Answer(q) == <<q, q>>

ChatInit ==
    /\ talk = <<>> /\ past = <<>>
    /\ chat = Empty
    /\ tutor = [mounted |-> FALSE, sync |-> TRUE, reading |-> FALSE, url |-> 0, renew |-> "no"]
    /\ line = "off" /\ tries = 0 /\ sent = 0 /\ current = FALSE
    /\ spoiled = {} /\ questions = 0 /\ newChats = 0 /\ breaks = 0

\* The effect that takes the history over, once, when nothing is streaming.
Settled(c, t, history) ==
    IF t.mounted /\ t.sync /\ ~c.streaming /\ history # <<>>
    THEN chat' = [c EXCEPT !.msgs = history[1]] /\ tutor' = [t EXCEPT !.sync = FALSE]
    ELSE chat' = c /\ tutor' = t

-----------------------------------------------------------------------------
(* The tab *)

EnterChat ==
    /\ Settled(Empty, [tutor EXCEPT !.mounted = TRUE, !.sync = TRUE, !.reading = TRUE, !.url = 0], past)
    /\ UNCHANGED <<talk, past, line, tries, sent, current, spoiled, questions, newChats, breaks>>

\* The stream is closed; a new chat that was asked for goes on.
LeaveChat ==
    /\ tutor' = [tutor EXCEPT !.mounted = FALSE, !.reading = FALSE]
    /\ line' = "off" /\ tries' = 0 /\ sent' = 0 /\ current' = FALSE
    /\ UNCHANGED <<talk, past, chat, spoiled, questions, newChats, breaks>>

ReadHistory ==
    /\ tutor.reading
    /\ past' = <<talk>>
    /\ Settled(chat, [tutor EXCEPT !.reading = FALSE], <<talk>>)
    /\ UNCHANGED <<talk, line, tries, sent, current, spoiled, questions, newChats, breaks>>

AddUserMessage(q) == [chat EXCEPT !.msgs = Append(@, Question(q)), !.streaming = TRUE, !.got = <<>>]

\* sendMessage.  A stream that is still open is closed for the new one.
SendMessage ==
    /\ tutor.mounted /\ ~chat.streaming
    /\ questions < MaxQuestions /\ questions' = questions + 1
    /\ chat' = AddUserMessage(questions')
    /\ tutor' = [tutor EXCEPT !.url = questions']
    /\ line' = "connect" /\ tries' = 0 /\ sent' = 0 /\ current' = FALSE
    /\ UNCHANGED <<talk, past, spoiled, newChats, breaks>>

-----------------------------------------------------------------------------
(* The stream *)

OpenChat ==
    /\ line = "connect"
    /\ line' = "open" /\ tries' = 0
    /\ talk' = Append(talk, Question(tutor.url))
    /\ sent' = 0 /\ current' = TRUE
    /\ UNCHANGED <<past, chat, tutor, spoiled, questions, newChats, breaks>>

Token ==
    /\ line = "open" /\ sent < Len(Answer(tutor.url))
    /\ sent' = sent + 1
    /\ chat' = [chat EXCEPT !.got = Append(@, Answer(tutor.url)[sent'])]
    /\ UNCHANGED <<talk, past, tutor, line, tries, current, spoiled, questions, newChats, breaks>>

\* finalizeStreamingMessage, when the server has saved the answer.
ChatDone ==
    /\ line = "open" /\ sent = Len(Answer(tutor.url))
    /\ line' = "off" /\ sent' = 0 /\ current' = FALSE
    /\ talk' = IF current THEN Append(talk, Reply(tutor.url, Answer(tutor.url))) ELSE talk
    /\ Settled([msgs |-> Append(chat.msgs, Reply(tutor.url, chat.got)), streaming |-> FALSE, got |-> <<>>],
               [tutor EXCEPT !.reading = TRUE], past)
    /\ UNCHANGED <<past, tries, spoiled, questions, newChats, breaks>>

\* The question stays on the screen, what has arrived of the answer is hidden.
ChatError == line' = "off" /\ Settled([chat EXCEPT !.streaming = FALSE], tutor, past)

ChatFails ==
    /\ "ai" \in ChatFaults /\ line = "open" /\ sent < Len(Answer(tutor.url))
    /\ ChatError
    /\ sent' = 0 /\ current' = FALSE
    /\ UNCHANGED <<talk, past, tries, spoiled, questions, newChats, breaks>>

\* No token can be had.
ChatTokenRefused ==
    /\ "network" \in ChatFaults /\ line = "connect"
    /\ ChatError
    /\ tries' = 0
    /\ UNCHANGED <<talk, past, sent, current, spoiled, questions, newChats, breaks>>

\* The question is sent again, and its answer is added to what had arrived.
ChatBreaks ==
    /\ "network" \in ChatFaults /\ line = "open"
    /\ breaks < MaxBreaks /\ breaks' = breaks + 1
    /\ line' = "backoff" /\ tries' = 1 /\ sent' = 0 /\ current' = FALSE
    /\ spoiled' = spoiled \cup {tutor.url}
    /\ UNCHANGED <<talk, past, chat, tutor, questions, newChats>>

ChatRefused ==
    /\ "network" \in ChatFaults /\ line = "connect"
    /\ IF tries < ChatRetries THEN line' = "backoff" /\ tries' = tries + 1 /\ UNCHANGED <<chat, tutor>>
       ELSE ChatError /\ tries' = 0
    /\ UNCHANGED <<talk, past, sent, current, spoiled, questions, newChats, breaks>>

ChatReconnects ==
    /\ line = "backoff" /\ line' = "connect"
    /\ UNCHANGED <<talk, past, chat, tutor, tries, sent, current, spoiled, questions, newChats, breaks>>

-----------------------------------------------------------------------------
(* handleNewChat *)

NewChat ==
    /\ tutor.mounted /\ ~chat.streaming /\ tutor.renew = "no"
    /\ newChats < MaxNewChats /\ newChats' = newChats + 1
    /\ tutor' = [tutor EXCEPT !.renew = "post"]
    /\ UNCHANGED <<talk, past, chat, line, tries, sent, current, spoiled, questions, breaks>>

\* clearMessages, even if a question has been asked in the meantime; or the request
\* fails and nothing is said.
NewChatMade ==
    /\ tutor.renew = "post"
    /\ \/ /\ talk' = <<>> /\ current' = FALSE
          /\ Settled(Empty, [tutor EXCEPT !.renew = "read"], past)
          /\ spoiled' = spoiled \cup {tutor.url}
       \/ /\ "network" \in ChatFaults
          /\ tutor' = [tutor EXCEPT !.renew = "no"]
          /\ UNCHANGED <<talk, current, chat, spoiled>>
    /\ UNCHANGED <<past, line, tries, sent, questions, newChats, breaks>>

NewChatRead ==
    /\ tutor.renew = "read"
    /\ past' = <<talk>>
    /\ Settled([chat EXCEPT !.msgs = talk], [tutor EXCEPT !.renew = "no"], <<talk>>)
    /\ UNCHANGED <<talk, line, tries, sent, current, spoiled, questions, newChats, breaks>>

ChatNext ==
    \/ ReadHistory \/ SendMessage
    \/ OpenChat \/ Token \/ ChatDone \/ ChatFails \/ ChatTokenRefused \/ ChatRefused \/ ChatBreaks \/ ChatReconnects
    \/ NewChat \/ NewChatMade \/ NewChatRead
-----------------------------------------------------------------------------
Messages(list) ==
    \A i \in DOMAIN list : list[i].role \in {"user", "assistant"} /\ list[i].of \in 0..MaxQuestions

ChatTypeOK ==
    /\ Messages(talk) /\ Messages(chat.msgs) /\ Len(past) <= 1 /\ \A i \in DOMAIN past : Messages(past[i])
    /\ tutor.url \in 0..questions /\ tutor.renew \in {"no", "post", "read"}
    /\ line \in {"off", "connect", "open", "backoff"} /\ tries \in 0..ChatRetries
    /\ sent \in 0..2 /\ spoiled \subseteq 0..MaxQuestions

\* An answer on the screen is the answer to its question, whole and once, unless the
\* connection broke during it or the chat was cleared under it.
\* (addUserMessage, appendStreamingContent, finalizeStreamingMessage)
AnswerIsWhole ==
    \A i \in DOMAIN chat.msgs :
        LET m == chat.msgs[i]
        IN m.role = "assistant" /\ m.of \notin spoiled => m.text = Answer(m.of)

\* The composer is locked only while an answer is awaited: a stream that ended, or was
\* left by going to another tab, unlocks it.  (TutorTab: isStreaming)
ComposerUnlocks == tutor.mounted /\ chat.streaming => line # "off"
=============================================================================

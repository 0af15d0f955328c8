----------------------------- MODULE AdminConsole -----------------------------
(***************************************************************************)
(* The page of an administrator: the gate that asks for the master         *)
(* password, the tabs with the users, the jobs and the users to act as,    *)
(* and the banner that every page shows while one acts as somebody.        *)
(*                                                                         *)
(* The page keeps its own id of the session one acts in, beside the id in  *)
(* the store, which alone outlives the page.  The token of the gate is in  *)
(* memory and goes when the session is ended.  A hook knows the last call  *)
(* that was made through it; the answers of the others still do what they  *)
(* do.  The rows of the jobs are merged with what a timer fetches.         *)
(***************************************************************************)
EXTENDS Naturals, Sequences, FiniteSets, SequencesExt, Arrays

CONSTANTS
    Users,       \* users in the table, besides the administrator
    MaxJobs,     \* bound on jobs
    MaxSteps,    \* bound on calls and on steps of jobs, together
    AdminFaults  \* "network": an answer is lost; "reload"; "expiry": the token is too old

ASSUME AdminAssumption ==
    /\ {MaxJobs, MaxSteps} \subseteq Nat
    /\ AdminFaults \subseteq {"network", "reload", "expiry"}

VARIABLES
    console,   \* activeTab, or "out" or "gate"; verifyError; impersonationId, or 0
    token,     \* adminToken: "none", "live", "old"
    acting,    \* impersonationId of the store, or 0
    sessions,  \* the server's sessions: "active" or "ended"
    users,     \* the server's users: is_active and role, or gone
    listed,    \* and the users in the table
    dialog,    \* the users whom the dialog asks about: at most one
    calls,     \* each: kind, of what, what it asks for, the jobs it found, with which token,
               \* whether its hook is still there, whether it is the last one of its hook
    jobs,      \* the server's jobs: status and retry_count
    view,      \* the answer of the query, <<>> before it is there; localJobs, statusFilter,
               \* isTailMode
    steps      \* calls and steps of jobs so far

adminVars == <<console, token, acting, sessions, users, listed, dialog, calls, jobs, view, steps>>
jobVars   == <<jobs, view>>
userVars  == <<users, listed, dialog>>

Roles   == {"user", "admin", "super_admin"}
OutOfConsole == [tab |-> "out", error |-> FALSE, own |-> 0]
NoView  == [data |-> <<>>, rows |-> <<>>, filter |-> "all", tail |-> FALSE]

AdminInit ==
    /\ console = OutOfConsole /\ token = "none" /\ acting = 0 /\ sessions = <<>>
    /\ users = [u \in Users |-> [on |-> TRUE, role |-> "user", gone |-> FALSE]]
    /\ listed = users /\ dialog = {} /\ calls = {}
    /\ jobs = <<>> /\ view = NoView /\ steps = 0

Verified == console.tab \notin {"out", "gate"}
Listed   == {u \in Users : ~listed[u].gone}

\* isPending of a hook, and whether its variables name this row.
Pending(kind)    == \E c \in calls : c.kind = kind /\ c.here /\ c.last
PendingOf(k, of) == \E c \in calls : c.kind = k /\ c.of = of /\ c.here /\ c.last

\* A call through a hook takes the place of the last one.
CallFor(kind, of, asks, got) ==
    /\ steps < MaxSteps /\ steps' = steps + 1
    /\ calls' = {[c EXCEPT !.last = @ /\ c.kind # kind] : c \in calls}
                \cup {[n |-> steps, kind |-> kind, of |-> of, asks |-> asks, got |-> got,
                       token |-> token, here |-> TRUE, last |-> TRUE]}

Call(kind, of, asks) == CallFor(kind, of, asks, <<>>)

\* A tab or a page that is left takes its hooks with it.
Unhooked(kinds) == {[c EXCEPT !.here = @ /\ c.kind \notin kinds] : c \in calls}
UserHooks == {"status", "role", "delete"}
JobHooks  == {"retry", "cancel", "tail"}
PageHooks == UserHooks \cup JobHooks \cup {"verify", "start", "end"}

-----------------------------------------------------------------------------
(* The gate, the tabs, and leaving *)

VisitConsole ==
    /\ console.tab = "out"
    /\ console' = [OutOfConsole EXCEPT !.tab = "gate"]
    /\ UNCHANGED <<token, acting, sessions, userVars, calls, jobVars, steps>>

VerifyMaster ==
    /\ console.tab = "gate" /\ ~Pending("verify")
    /\ Call("verify", 0, "none")
    /\ UNCHANGED <<console, token, acting, sessions, userVars, jobVars>>

EditPassword ==
    /\ console.tab = "gate" /\ console.error
    /\ console' = [console EXCEPT !.error = FALSE]
    /\ UNCHANGED <<token, acting, sessions, userVars, calls, jobVars, steps>>

\* By a click or with Ctrl and a digit.
SetActiveTab(t) ==
    /\ Verified /\ t # console.tab
    /\ console' = [console EXCEPT !.tab = t]
    /\ calls' = Unhooked((IF console.tab = "users" THEN UserHooks ELSE {})
                         \cup (IF console.tab = "jobs" THEN JobHooks ELSE {}))
    /\ dialog' = {}
    /\ view' = NoView
    /\ UNCHANGED <<token, acting, sessions, users, listed, jobs, steps>>

Leave ==
    /\ console.tab # "out"
    /\ console' = OutOfConsole /\ calls' = Unhooked(PageHooks)
    /\ dialog' = {} /\ view' = NoView
    /\ UNCHANGED <<token, acting, sessions, users, listed, jobs, steps>>

\* The store keeps the session one acts in; the token was never stored.
ReloadConsole ==
    /\ "reload" \in AdminFaults
    /\ console' = OutOfConsole /\ token' = "none" /\ calls' = {} /\ dialog' = {} /\ view' = NoView
    /\ UNCHANGED <<acting, sessions, users, listed, jobs, steps>>

Expire ==
    /\ "expiry" \in AdminFaults /\ token = "live"
    /\ token' = "old"
    /\ UNCHANGED <<console, acting, sessions, userVars, calls, jobVars, steps>>

RefetchUsers ==
    /\ Verified /\ listed # users
    /\ listed' = users
    /\ UNCHANGED <<console, token, acting, sessions, users, dialog, calls, jobVars, steps>>

-----------------------------------------------------------------------------
(* Acting as a user *)

StartImpersonation(u) ==
    /\ console.tab = "impersonation" /\ u \in Listed
    /\ ~Pending("start") /\ console.own = 0
    /\ Call("start", 0, u)
    /\ UNCHANGED <<console, token, acting, sessions, userVars, jobVars>>

EndImpersonation ==
    /\ console.tab = "impersonation" /\ console.own # 0 /\ ~Pending("end")
    /\ Call("end", console.own, "none")
    /\ UNCHANGED <<console, token, acting, sessions, userVars, jobVars>>

\* The banner is on every page and may be pressed again.
HandleEnd ==
    /\ acting # 0
    /\ Call("banner", acting, "none")
    /\ UNCHANGED <<console, token, acting, sessions, userVars, jobVars>>

-----------------------------------------------------------------------------
(* The users *)

ToggleStatus(u) ==
    /\ console.tab = "users" /\ u \in Listed
    /\ ~PendingOf("status", u) /\ ~PendingOf("delete", u)
    /\ Call("status", u, IF listed[u].on THEN "off" ELSE "on")
    /\ UNCHANGED <<console, token, acting, sessions, userVars, jobVars>>

ChangeRole(u, role) ==
    /\ console.tab = "users" /\ u \in Listed /\ role # listed[u].role
    /\ ~PendingOf("role", u) /\ ~PendingOf("delete", u)
    /\ Call("role", u, role)
    /\ UNCHANGED <<console, token, acting, sessions, userVars, jobVars>>

AskToDelete(u) ==
    /\ console.tab = "users" /\ u \in Listed /\ dialog = {}
    /\ \A k \in UserHooks : ~PendingOf(k, u)
    /\ dialog' = {u}
    /\ UNCHANGED <<console, token, acting, sessions, users, listed, calls, jobVars, steps>>

DeleteUser(u) ==
    /\ u \in dialog /\ ~Pending("delete")
    /\ Call("delete", u, "none")
    /\ UNCHANGED <<console, token, acting, sessions, userVars, jobVars>>

\* closeDeleteModal: also what a deletion that succeeded calls, which is still pending then.
CloseDeleteModal == IF Pending("delete") THEN dialog ELSE {}

CancelDelete ==
    /\ dialog # {} /\ CloseDeleteModal # dialog
    /\ dialog' = CloseDeleteModal
    /\ UNCHANGED <<console, token, acting, sessions, users, listed, calls, jobVars, steps>>

-----------------------------------------------------------------------------
(* The jobs, newest first *)

Listing(filter) ==
    LET newest == Reverse([j \in DOMAIN jobs |-> [id |-> j, st |-> jobs[j].st, tries |-> jobs[j].tries]])
    IN  Picked(newest, {k \in DOMAIN newest : filter \in {"all", newest[k].st}})

\* The jobs change, and are made, by the workers and the other users.
JobMoves ==
    /\ steps < MaxSteps /\ steps' = steps + 1
    /\ \/ Len(jobs) < MaxJobs /\ jobs' = Append(jobs, [st |-> "pending", tries |-> 0])
       \/ \E j \in DOMAIN jobs :
             /\ jobs[j].st \in {"pending", "running"}
             /\ \E st \in {"running", "completed", "failed"} \ {jobs[j].st} :
                   jobs' = [jobs EXCEPT ![j].st = st]
    /\ UNCHANGED <<console, token, acting, sessions, userVars, calls, view>>

\* A query whose answer is the same as before gives the same object: no effect runs.
RefetchJobs ==
    /\ console.tab = "jobs" /\ view.data # <<Listing(view.filter)>>
    /\ view' = [view EXCEPT !.data = <<Listing(view.filter)>>, !.rows = Listing(view.filter)]
    /\ UNCHANGED <<console, token, acting, sessions, userVars, calls, jobs, steps>>

SetFilter(f) ==
    /\ console.tab = "jobs" /\ f # view.filter
    /\ view' = [view EXCEPT !.filter = f, !.data = <<>>]
    /\ UNCHANGED <<console, token, acting, sessions, userVars, calls, jobs, steps>>

SetTailMode ==
    /\ console.tab = "jobs"
    /\ view' = [view EXCEPT !.tail = ~@]
    /\ UNCHANGED <<console, token, acting, sessions, userVars, calls, jobs, steps>>

\* The timer does not wait for the answer of the last tick.
TailTick ==
    /\ console.tab = "jobs" /\ view.tail
    /\ CallFor("tail", 0, "none", Listing(view.filter))
    /\ UNCHANGED <<console, token, acting, sessions, userVars, jobVars>>

Merge(fresh, rows) ==
    Picked(fresh, {k \in DOMAIN fresh : \A r \in ToSet(rows) : r.id # fresh[k].id})
    \o [i \in DOMAIN rows |->
          IF \E f \in ToSet(fresh) : f.id = rows[i].id
          THEN CHOOSE f \in ToSet(fresh) : f.id = rows[i].id ELSE rows[i]]

RetryJob(r) ==
    /\ console.tab = "jobs" /\ r \in ToSet(view.rows) /\ r.st = "failed" /\ r.tries < 3
    /\ ~PendingOf("retry", r.id)
    /\ Call("retry", r.id, "none")
    /\ UNCHANGED <<console, token, acting, sessions, userVars, jobVars>>

CancelJob(r) ==
    /\ console.tab = "jobs" /\ r \in ToSet(view.rows) /\ r.st \in {"pending", "running"}
    /\ ~PendingOf("cancel", r.id)
    /\ Call("cancel", r.id, "none")
    /\ UNCHANGED <<console, token, acting, sessions, userVars, jobVars>>

-----------------------------------------------------------------------------
(* What the server does with a call, and the answer *)

Received(c, ok) == c \in calls /\ (ok \/ "network" \in AdminFaults) /\ calls' = calls \ {c} /\ UNCHANGED steps

\* require_admin_verified: without a token that is still good the call is refused.
Admitted(c) == c.token = "live"

\* The password is right or wrong, or the answer is lost.
VerifyAnswered(c) ==
    /\ c.kind = "verify" /\ c \in calls /\ calls' = calls \ {c}
    /\ \/ token' = "live" /\ console' = IF c.here THEN [console EXCEPT !.tab = "health"] ELSE console
       \/ UNCHANGED token /\ console' = IF c.here THEN [console EXCEPT !.error = TRUE] ELSE console
    /\ UNCHANGED <<acting, sessions, userVars, jobVars, steps>>

StartAnswered(c, ok) ==
    /\ c.kind = "start" /\ Received(c, ok)
    /\ IF ~Admitted(c) \/ users[c.asks].gone
       THEN UNCHANGED <<console, acting, sessions>>
       ELSE /\ sessions' = Append(sessions, "active")
            /\ acting' = IF ok THEN Len(sessions') ELSE acting
            /\ console' = IF ok /\ c.here THEN [console EXCEPT !.own = Len(sessions')] ELSE console
    /\ UNCHANGED <<token, userVars, jobVars>>

Ended(c) == IF Admitted(c) THEN [sessions EXCEPT ![c.of] = "ended"] ELSE sessions

\* endImpersonation of the store.
StoreEnd == acting' = 0 /\ token' = "none"

\* The tab believes the server, the banner ends the session whatever it answers.
EndAnswered(c, ok) ==
    /\ c.kind \in {"end", "banner"} /\ Received(c, ok)
    /\ sessions' = Ended(c)
    /\ console' = IF c.kind = "end" /\ c.here /\ ok /\ Admitted(c) THEN [console EXCEPT !.own = 0] ELSE console
    /\ IF c.kind = "banner" \/ (ok /\ Admitted(c)) THEN StoreEnd ELSE UNCHANGED <<acting, token>>
    /\ UNCHANGED <<userVars, jobVars>>

\* update_user_status and update_user_role
UserAnswered(c, ok) ==
    /\ c.kind \in {"status", "role"} /\ Received(c, ok)
    /\ users' = CASE ~Admitted(c) \/ users[c.of].gone -> users
                  [] c.kind = "status" -> [users EXCEPT ![c.of].on = c.asks = "on"]
                  [] c.kind = "role"   -> [users EXCEPT ![c.of].role = c.asks]
    /\ UNCHANGED <<console, token, acting, sessions, listed, dialog, jobVars>>

DeleteAnswered(c, ok) ==
    /\ c.kind = "delete" /\ Received(c, ok)
    /\ users' = IF Admitted(c) THEN [users EXCEPT ![c.of].gone = TRUE] ELSE users
    /\ dialog' = IF c.here /\ ok /\ Admitted(c) /\ ~users[c.of].gone THEN CloseDeleteModal ELSE dialog
    /\ UNCHANGED <<console, token, acting, sessions, listed, jobVars>>

\* retry_job and cancel_job
JobAnswered(c, ok) ==
    /\ c.kind \in {"retry", "cancel"} /\ Received(c, ok)
    /\ jobs' = CASE c.kind = "retry" /\ Admitted(c) /\ jobs[c.of].st = "failed" ->
                      [jobs EXCEPT ![c.of] = [st |-> "pending", tries |-> @.tries + 1]]
                 [] c.kind = "cancel" /\ Admitted(c) /\ jobs[c.of].st \notin {"completed", "failed"} ->
                      [jobs EXCEPT ![c.of].st = "failed"]
                 [] OTHER -> jobs
    /\ UNCHANGED <<console, token, acting, sessions, userVars, view>>

\* The rows are those of the moment of the answer.
TailAnswered(c, ok) ==
    /\ c.kind = "tail" /\ Received(c, ok)
    /\ view' = IF c.here /\ ok /\ Admitted(c) THEN [view EXCEPT !.rows = Merge(c.got, @)] ELSE view
    /\ UNCHANGED <<console, token, acting, sessions, userVars, jobs>>

AdminNext ==
    \/ VisitConsole \/ VerifyMaster \/ EditPassword \/ Leave \/ ReloadConsole \/ Expire \/ RefetchUsers
    \/ \E t \in {"health", "users", "jobs", "impersonation"} : SetActiveTab(t)
    \/ \E u \in Users : StartImpersonation(u) \/ ToggleStatus(u) \/ AskToDelete(u) \/ DeleteUser(u)
    \/ \E u \in Users, role \in Roles : ChangeRole(u, role)
    \/ EndImpersonation \/ HandleEnd \/ CancelDelete
    \/ JobMoves \/ RefetchJobs \/ SetTailMode \/ TailTick
    \/ \E f \in {"all", "failed"} : SetFilter(f)
    \/ \E r \in ToSet(view.rows) : RetryJob(r) \/ CancelJob(r)
    \/ \E c \in calls : VerifyAnswered(c)
    \/ \E c \in calls, ok \in BOOLEAN :
          \/ StartAnswered(c, ok) \/ EndAnswered(c, ok) \/ UserAnswered(c, ok)
          \/ DeleteAnswered(c, ok) \/ JobAnswered(c, ok) \/ TailAnswered(c, ok)

AdminSpec == AdminInit /\ [][AdminNext]_adminVars

-----------------------------------------------------------------------------
(* Properties *)

\* The variables hold what the page, the store and the tables can hold.
AdminTypeOK ==
    /\ console.tab \in {"out", "gate", "health", "users", "jobs", "impersonation"}
    /\ console.own \in 0 .. Len(sessions) /\ acting \in 0 .. Len(sessions)
    /\ token \in {"none", "live", "old"}
    /\ dialog \subseteq Users /\ Cardinality(dialog) <= 1
    /\ \A c \in calls : c.kind \in PageHooks \cup {"banner"}
    /\ \A k \in PageHooks : Cardinality({c \in calls : c.kind = k /\ c.here /\ c.last}) <= 1

\* While a user is being deleted the dialog that was confirmed stays (closeDeleteModal):
\* another user cannot be put into it, and the error has a place to be shown.
DialogStays == \A c \in calls : c.kind = "delete" /\ c.here => dialog = {c.of}

\* Whatever the order in which the list and the ticks of the tail mode are answered, no
\* job is listed twice (the functional update of localJobs): its key is its id.
RowsAreDistinct == \A i, k \in DOMAIN view.rows : view.rows[i].id = view.rows[k].id => i = k

=============================================================================

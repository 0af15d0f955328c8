------------------------------ MODULE AuthClient ------------------------------
(***************************************************************************)
(* Who is signed in, in one tab: the store of the tokens and the storage   *)
(* it is kept in, the client whose requests ask for new tokens when the    *)
(* old ones have expired, and the routes that depend on all this.          *)
(*                                                                         *)
(* A pair is an access token and the refresh token that came with it; it   *)
(* is known by its number.  Exchanging its refresh token spends the pair.  *)
(* Requests that are denied while new tokens are being asked for wait in   *)
(* a queue.  Other tabs share the local storage and its refresh token,     *)
(* which they may exchange; this tab reads the storage when it is loaded.  *)
(***************************************************************************)
EXTENDS Naturals, Sequences

CONSTANTS
    Requests,     \* requests of the pages
    MaxPairs,     \* bound on the pairs that are issued
    MaxActs,      \* bound on what users, tabs and clocks do
    ClientFaults  \* "network": a refresh or its answer is lost; "tab": another tab
                  \* exchanges or drops what the local storage has; "reload"

ASSUME ClientAssumption ==
    /\ {MaxPairs, MaxActs} \subseteq Nat
    /\ ClientFaults \subseteq {"network", "tab", "reload"}

VARIABLES
    pairs,    \* the server's refresh tokens: "live", "revoked", "spent", and, of those that
              \* are spent, "lost" if this tab never had the answer and "elsewhere" if
              \* another tab spent it
    fresh,    \* the pairs whose access token has not expired
    auth,     \* the store, in memory: whether there is a user, and the pair, or 0
    kept,     \* auth-storage in the local storage and in that of the tab
    remember, \* rn-remember-me
    known,    \* rn-has-account
    reqs,     \* each request: st, the pair whose access token it carries, _retry
    refresh,  \* isRefreshing: what becomes of it, the pair, the new one, and for whom
    page,     \* the page that is shown
    acts

authVars == <<pairs, fresh, auth, kept, remember, known, reqs, refresh, page, acts>>

NoAuth    == [user |-> FALSE, pair |-> 0]
Idle      == [st |-> "idle", pair |-> 0, again |-> FALSE]
NoRefresh == [st |-> "no", pair |-> 0, new |-> 0]

\* "app" stands for the pages that are for users and have nothing of their own here.
Protected   == {"app", "settings"}
OnlySignedOut == {"login"}
OpenPages        == {"signup", "reset", "verify", "landing"}

AuthInit ==
    /\ pairs = <<>> /\ fresh = {}
    /\ auth = NoAuth /\ kept = [local |-> NoAuth, session |-> NoAuth]
    /\ remember = FALSE /\ known = FALSE
    /\ reqs = [r \in Requests |-> Idle] /\ refresh = NoRefresh
    /\ page = "landing" /\ acts = 0

Act == acts < MaxActs /\ acts' = acts + 1

-----------------------------------------------------------------------------
(* The store and the routes *)

StorageOf(flag) == IF flag THEN "local" ELSE "session"

\* setItem of dynamicStorage: what is set is kept in one storage, and in no other.
Kept(a, flag) == [s \in {"local", "session"} |-> IF s = StorageOf(flag) THEN a ELSE NoAuth]

Sets(a) == auth' = a /\ kept' = Kept(a, remember)

\* Where p leads: ProtectedRoute, PublicRoute and SmartHomeRoute.
Routed(p, user, known_) ==
    IF p \in Protected THEN (IF user THEN p ELSE "login")
    ELSE IF p \in OnlySignedOut THEN (IF user THEN "app" ELSE p)
    ELSE IF p = "home" THEN (IF user THEN "app" ELSE IF known_ THEN "login" ELSE "landing")
    ELSE p

\* A component of a route is rendered again when there is a user, or no more.
Shows(p) == page' = Routed(p, auth'.user, known')

\* A page that is loaded has nothing on its way, and takes the store from the storage.
Loaded(p, a) ==
    /\ auth' = a
    /\ reqs' = [r \in Requests |-> Idle]
    /\ refresh' = NoRefresh
    /\ Shows(p)

\* The pair whose answer does not get here any more.
Forgotten == IF refresh.st = "granted" THEN [pairs EXCEPT ![refresh.pair] = "lost"] ELSE pairs

GoTo(p) ==
    /\ UNCHANGED <<pairs, fresh, auth, kept, remember, known, reqs, refresh, acts>>
    /\ Shows(p)

\* logout of the store; nobody tells the server.
SignOut ==
    /\ page \in Protected /\ auth.user /\ Act
    /\ Sets(NoAuth)
    /\ UNCHANGED <<pairs, fresh, remember, known, reqs, refresh>>
    /\ Shows(page)

SetRememberMe ==
    /\ page = "login" /\ Act
    /\ remember' = ~remember
    /\ kept' = Kept(auth, ~remember)
    /\ UNCHANGED <<pairs, fresh, auth, known, reqs, refresh, page>>

\* What signs in: setUser and setTokens.
SignIn(pair) == Sets([user |-> TRUE, pair |-> pair]) /\ known' = TRUE

Issue == Len(pairs) < MaxPairs /\ pairs' = Append(pairs, "live") /\ fresh' = fresh \cup {Len(pairs) + 1}

-----------------------------------------------------------------------------
(* The requests *)

Send(r) ==
    /\ page \in Protected /\ reqs[r] = Idle /\ Act
    /\ reqs' = [reqs EXCEPT ![r] = [st |-> "sent", pair |-> auth.pair, again |-> FALSE]]
    /\ UNCHANGED <<pairs, fresh, auth, kept, remember, known, refresh, page>>

ReqsBecome(new) == reqs' = new /\ UNCHANGED <<pairs, fresh, auth, kept, remember, known, refresh, page, acts>>

\* A request without a token is refused, but not with 401.
Answered(r) ==
    /\ reqs[r].st = "sent"
    /\ reqs[r].pair \in fresh \cup {0}
    /\ ReqsBecome([reqs EXCEPT ![r] = Idle])

Denied(r) == reqs[r].st = "sent" /\ reqs[r].pair \notin fresh \cup {0}

\* It has been tried again already.
GiveUp(r) == Denied(r) /\ reqs[r].again /\ ReqsBecome([reqs EXCEPT ![r] = Idle])

\* It waits in pendingQueue, and is not marked.
Queue(r) ==
    /\ Denied(r) /\ ~reqs[r].again /\ refresh.st # "no"
    /\ ReqsBecome([reqs EXCEPT ![r].st = "queued"])

AskRefresh(r) ==
    /\ Denied(r) /\ ~reqs[r].again /\ refresh.st = "no" /\ auth.pair # 0
    /\ reqs' = [reqs EXCEPT ![r].st = "waiting", ![r].again = TRUE]
    /\ refresh' = [st |-> "asked", pair |-> auth.pair, new |-> 0]
    /\ UNCHANGED <<pairs, fresh, auth, kept, remember, known, page, acts>>

\* logout, and the page of the login is loaded.
ToLogin ==
    /\ kept' = Kept(NoAuth, remember)
    /\ UNCHANGED <<fresh, remember, known>>
    /\ Loaded("login", NoAuth)

NoToken(r) ==
    /\ Denied(r) /\ ~reqs[r].again /\ refresh.st = "no" /\ auth.pair = 0
    /\ ToLogin
    /\ UNCHANGED <<pairs, acts>>

-----------------------------------------------------------------------------
(* The refresh *)

\* The server spends the old pair when it issues the new one.
RefreshToken ==
    /\ refresh.st = "asked"
    /\ \/ /\ pairs[refresh.pair] = "live" /\ Len(pairs) < MaxPairs
          /\ pairs' = Append([pairs EXCEPT ![refresh.pair] = "spent"], "live")
          /\ fresh' = fresh \cup {Len(pairs')}
          /\ refresh' = [refresh EXCEPT !.st = "granted", !.new = Len(pairs')]
       \/ /\ pairs[refresh.pair] # "live"
          /\ refresh' = [refresh EXCEPT !.st = "refused"]
          /\ UNCHANGED <<pairs, fresh>>
    /\ UNCHANGED <<auth, kept, remember, known, reqs, page, acts>>

\* Mutant: the access token is used, and the tokens are not stored.
Unstored(new) == auth' = auth /\ kept' = kept

\* setTokens: whoever is signed in, or nobody, has the new pair.
SetTokens(new) == Sets([auth EXCEPT !.pair = new])

\* flushQueue, and the request that asked: sent again.
Resent(r, new) ==
    IF reqs[r].st \in {"queued", "waiting"} THEN [reqs[r] EXCEPT !.st = "sent", !.pair = new] ELSE reqs[r]

Refreshed ==
    /\ refresh.st = "granted"
    /\ SetTokens(refresh.new)
    /\ reqs' = [r \in Requests |-> Resent(r, refresh.new)]
    /\ refresh' = NoRefresh
    /\ UNCHANGED <<pairs, fresh, remember, known, page, acts>>

\* It was refused, or it or its answer was lost: everything fails.
RefreshFails ==
    /\ refresh.st = "refused" \/ (refresh.st # "no" /\ "network" \in ClientFaults)
    /\ pairs' = Forgotten
    /\ ToLogin
    /\ UNCHANGED acts

-----------------------------------------------------------------------------
(* Time, other tabs, and loading *)

AccessExpires(p) ==
    /\ p \in fresh /\ Act
    /\ fresh' = fresh \ {p}
    /\ UNCHANGED <<pairs, auth, kept, remember, known, reqs, refresh, page>>

\* The tab is loaded again, or, for a browser that was closed, opened again.
ReloadTab ==
    /\ "reload" \in ClientFaults /\ Act
    /\ \E closed \in BOOLEAN :
          kept' = IF closed THEN [kept EXCEPT !.session = NoAuth] ELSE kept
    /\ pairs' = Forgotten
    /\ UNCHANGED <<fresh, remember, known>>
    /\ Loaded(IF page = "landing" THEN "home" ELSE page, kept'[StorageOf(remember)])

\* Another tab exchanges the pair of the local storage, or signs out.
AnotherTab ==
    /\ "tab" \in ClientFaults /\ remember /\ kept.local.pair # 0 /\ Act
    /\ \/ /\ pairs[kept.local.pair] = "live" /\ Len(pairs) < MaxPairs
          /\ pairs' = Append([pairs EXCEPT ![kept.local.pair] = "elsewhere"], "live")
          /\ fresh' = fresh \cup {Len(pairs')}
          /\ kept' = [kept EXCEPT !.local.pair = Len(pairs')]
       \/ /\ kept' = [kept EXCEPT !.local = NoAuth]
          /\ UNCHANGED <<pairs, fresh>>
    /\ UNCHANGED <<auth, remember, known, reqs, refresh, page>>

-----------------------------------------------------------------------------
(* Properties *)

\* The variables have the values that the code gives them.
AuthTypeOK ==
    /\ pairs \in Seq({"live", "revoked", "spent", "lost", "elsewhere"}) /\ Len(pairs) <= MaxPairs
    /\ fresh \subseteq DOMAIN pairs
    /\ auth.pair \in 0..Len(pairs) /\ {remember, known} \subseteq BOOLEAN
    /\ kept \in [{"local", "session"} -> [user : BOOLEAN, pair : 0..Len(pairs)]]
    /\ reqs \in [Requests -> [st : {"idle", "sent", "queued", "waiting"}, pair : 0..Len(pairs), again : BOOLEAN]]
    /\ refresh \in [st : {"no", "asked", "granted", "refused"}, pair : 0..Len(pairs), new : 0..Len(pairs)]
    /\ page \in Protected \cup OnlySignedOut \cup OpenPages
    /\ acts \in 0..MaxActs

\* The client never offers a refresh token that it has exchanged itself and had the
\* answer of: the server revokes it, and the user would be signed out (client.ts,
\* response interceptor; auth.py, refresh_token).
NoSpentToken == refresh.st = "asked" => pairs[refresh.pair] # "spent"

\* A request in the queue is one that a refresh under way will send again or fail.
QueueIsServed == (\E r \in Requests : reqs[r].st \in {"queued", "waiting"}) => refresh.st # "no"

\* A user has tokens, in memory and in what a page that is loaded starts from.
UserHasTokens ==
    /\ auth.user => auth.pair # 0
    /\ \A s \in {"local", "session"} : kept[s].user => kept[s].pair # 0
=============================================================================

----------------------------- MODULE AccountPages -----------------------------
(***************************************************************************)
(* The pages around an account: signing up, signing in, the links in the   *)
(* mails that verify the address and reset the password, and deleting the  *)
(* account, with the server's handlers of their calls.  The tab that shows *)
(* them is that of AuthClient.                                             *)
(*                                                                         *)
(* A page has one call on its way at a time, and one more that sends a     *)
(* mail again; its buttons are disabled meanwhile.  A call goes on when    *)
(* its page is left, and is lost when the tab is loaded again.  The server *)
(* handles it at the moment at which its answer arrives.                   *)
(***************************************************************************)
EXTENDS AuthClient

CONSTANTS
    Smtp,     \* mails can be sent, and an address is to be verified
    MaxMails  \* bound on the mails, that of an account there is among them

ASSUME AccountAssumption == Smtp \in BOOLEAN /\ MaxMails \in Nat \ {0}

VARIABLES
    acct,   \* the account: "none", "unverified", "verified"
    mails,  \* the links that were sent: kind, and st: "live", "used", "gone"
    entry,  \* what the page that is shown keeps
    call,   \* the calls on their way: kind, whether their page is still there, the link
    timer,  \* the page for a new password will go to the login
    resets  \* history: how many pairs there were at the last reset

accountVars == <<acct, mails, entry, call, timer, resets>>

\* loading, error, showUnverified, resendStatus, success, what the page of a link says,
\* its link, and whether the dialog that deletes the account is open.
NewEntry == [busy |-> FALSE, error |-> FALSE, unverified |-> FALSE, resend |-> "idle",
            done |-> FALSE, status |-> "none", mail |-> 0, modal |-> FALSE]

NoCall  == [kind |-> "none", here |-> FALSE, mail |-> 0]
Slots   == {"main", "resend"}

AccountInit ==
    /\ \/ acct = "none" /\ mails = <<>>
       \/ acct = "verified" /\ mails = <<[kind |-> "verify", st |-> "used"]>>
    /\ entry = NewEntry /\ call = [s \in Slots |-> NoCall]
    /\ timer = FALSE /\ resets = 0

server == <<acct, mails, resets>>

-----------------------------------------------------------------------------
(* Pages and calls *)

\* A page that is left loses its state; its calls go on.
Follow ==
    IF page' = page THEN UNCHANGED <<entry, call>>
    ELSE entry' = NewEntry /\ call' = [s \in Slots |-> [call[s] EXCEPT !.here = FALSE]]

\* A tab that is loaded loses its calls.
Reset == entry' = NewEntry /\ call' = [s \in Slots |-> NoCall] /\ timer' = FALSE

\* The page is one that needs nobody signed in.
Enter(p) == GoTo(p) /\ Follow /\ UNCHANGED <<server, timer>>

\* A link is opened: the page is loaded, and one that verifies does so at once.
OpenMail(m) ==
    /\ m \in DOMAIN mails /\ Act
    /\ pairs' = Forgotten
    /\ UNCHANGED <<fresh, kept, remember, known, server>>
    /\ Loaded(mails[m].kind, kept[StorageOf(remember)])
    /\ timer' = FALSE
    /\ entry' = [NewEntry EXCEPT !.mail = m, !.status = IF mails[m].kind = "verify" THEN "loading" ELSE "none"]
    /\ call' = [s \in Slots |-> IF s = "main" /\ mails[m].kind = "verify"
                                THEN [kind |-> "verify", here |-> TRUE, mail |-> m] ELSE NoCall]

Starts(slot, kind, m) ==
    /\ call[slot] = NoCall /\ Act
    /\ call' = [call EXCEPT ![slot] = [kind |-> kind, here |-> TRUE, mail |-> m]]
    /\ UNCHANGED <<pairs, fresh, auth, kept, remember, known, reqs, refresh, page, server, timer>>

\* run of useAsyncAction: no error yet, and the buttons are disabled.
Run(p, kind, m) ==
    /\ page = p /\ ~entry.busy
    /\ Starts("main", kind, m)
    /\ entry' = [entry EXCEPT !.busy = TRUE, !.error = FALSE, !.unverified = FALSE,
                            !.resend = IF p = "login" THEN "idle" ELSE @]

\* What the forms submit; the token of a reset may be any that was ever sent, or none.
SubmitSignup  == ~entry.done /\ Run("signup", "signup", 0)
SubmitLogin   == Run("login", "login", 0)
SubmitRequest == Run("reset", "ask", 0)
SubmitConfirm == \E m \in 0..Len(mails) : Run("reset", "confirm", m)
SubmitDelete  == entry.modal /\ Run("settings", "delete", 0)

\* What the page, if it is still there, makes of the answer.
Ends(slot, f) ==
    /\ call' = [call EXCEPT ![slot] = NoCall]
    /\ entry' = IF call[slot].here THEN f ELSE entry

Done   == [entry EXCEPT !.busy = FALSE, !.done = TRUE]
Failed == [entry EXCEPT !.busy = FALSE, !.error = TRUE]

Alike == UNCHANGED <<pairs, fresh, auth, kept, remember, known, reqs, refresh, page, acts>>

\* The request was refused, for its token, its domain, its rate, or never got there.
CallFails(slot) ==
    /\ call[slot].kind # "none"
    /\ Ends(slot, CASE call[slot].kind = "resend" -> [entry EXCEPT !.resend = "idle"]
                    [] call[slot].kind = "verify" -> [entry EXCEPT !.status = "error"]
                    [] OTHER -> Failed)
    /\ Alike /\ UNCHANGED <<server, timer>>

-----------------------------------------------------------------------------
(* Signing up and signing in *)

Live(kind) == {m \in DOMAIN mails : mails[m].kind = kind /\ mails[m].st = "live"}

Mailed(ms, kind) == Append(ms, [kind |-> kind, st |-> "live"])

\* Links of this kind, or of an account that is deleted, that were not used are of no use.
Withdrawn(kinds) ==
    [m \in DOMAIN mails |-> IF mails[m].kind \in kinds /\ mails[m].st = "live"
                            THEN [mails[m] EXCEPT !.st = "gone"] ELSE mails[m]]

Revoked == [p \in DOMAIN pairs |-> IF pairs[p] = "live" THEN "revoked" ELSE pairs[p]]

\* Someone who was not verified in time makes room for a new account.
MaySignUp == acct = "none" \/ (acct = "unverified" /\ Live("verify") = {})

SignedUp ==
    /\ call["main"].kind = "signup"
    /\ \/ /\ MaySignUp /\ Len(mails) < MaxMails
          /\ acct' = IF Smtp THEN "unverified" ELSE "verified"
          /\ mails' = IF Smtp THEN Mailed(Withdrawn({"reset"}), "verify") ELSE mails
          /\ Ends("main", Done)
       \/ ~MaySignUp /\ Ends("main", Failed) /\ UNCHANGED <<acct, mails>>
    /\ Alike /\ UNCHANGED <<resets, timer>>

\* Whoever signs in is taken home, from whatever page is shown by then.
LoggedIn ==
    /\ call["main"].kind = "login" /\ acct = "verified"
    /\ Issue /\ SignIn(Len(pairs'))
    /\ UNCHANGED <<remember, reqs, refresh, acts, server, timer>>
    /\ Shows("home")
    /\ entry' = NewEntry
    /\ call' = [s \in Slots |-> IF s = "main" THEN NoCall ELSE [call[s] EXCEPT !.here = FALSE]]

NotLoggedIn ==
    /\ call["main"].kind = "login"
    /\ Ends("main", [Failed EXCEPT !.unverified = (acct = "unverified")])
    /\ Alike /\ UNCHANGED <<server, timer>>

\* handleResend of the login, where the name is asked for, and of the page of a link.
AskMailAgain ==
    /\ entry.resend = "idle"
    /\ (page = "login" /\ entry.unverified) \/ (page = "verify" /\ entry.status = "error")
    /\ Starts("resend", "resend", 0)
    /\ entry' = [entry EXCEPT !.resend = "sending"]

\* resend_verification: a new link takes the place of all that were not used.
Resends == Mailed(Withdrawn({"verify"}), "verify")

MailedAgain ==
    /\ call["resend"].kind = "resend"
    /\ \/ acct = "unverified" /\ Len(mails) < MaxMails /\ mails' = Resends
       \/ acct # "unverified" /\ UNCHANGED mails
    /\ Ends("resend", [entry EXCEPT !.resend = "sent"])
    /\ Alike /\ UNCHANGED <<acct, resets, timer>>

\* verify_email uses the link and verifies the account together.
VerifyLink(m) == mails' = [mails EXCEPT ![m].st = "used"] /\ acct' = "verified"

VerifiedPage ==
    /\ call["main"].kind = "verify"
    /\ LET m == call["main"].mail IN
       \/ /\ mails[m].st = "live" /\ VerifyLink(m)
          /\ Ends("main", [entry EXCEPT !.status = "verified"])
       \/ /\ mails[m].st = "used" /\ UNCHANGED <<acct, mails>>
          /\ Ends("main", [entry EXCEPT !.status = "already_verified"])
       \/ /\ mails[m].st = "gone" /\ UNCHANGED <<acct, mails>>
          /\ Ends("main", [entry EXCEPT !.status = "error"])
    /\ Alike /\ UNCHANGED <<resets, timer>>

-----------------------------------------------------------------------------
(* A new password *)

ResetRequested ==
    /\ call["main"].kind = "ask"
    /\ \/ acct # "none" /\ Len(mails) < MaxMails /\ mails' = Mailed(mails, "reset")
       \/ acct = "none" /\ UNCHANGED mails
    /\ Ends("main", Done)
    /\ Alike /\ UNCHANGED <<acct, resets, timer>>

\* Mutant: only the password is changed.
KeepTokens == pairs

\* password_reset_confirm: whoever was signed in has to sign in again.
RevokeTokens == Revoked

\* Two seconds later the page goes to the login, if it was left or not.
PasswordReset ==
    /\ call["main"].kind = "confirm"
    /\ LET m == call["main"].mail IN
       \/ /\ m \in Live("reset")
          /\ mails' = [mails EXCEPT ![m].st = "used"]
          /\ pairs' = RevokeTokens /\ resets' = Len(pairs)
          /\ Ends("main", Done) /\ timer' = TRUE
       \/ /\ m \notin Live("reset")
          /\ Ends("main", Failed)
          /\ UNCHANGED <<mails, pairs, resets, timer>>
    /\ UNCHANGED <<fresh, auth, kept, remember, known, reqs, refresh, page, acts, acct>>

TimerFires ==
    /\ timer /\ timer' = FALSE
    /\ UNCHANGED <<pairs, fresh, auth, kept, remember, known, reqs, refresh, acts, server>>
    /\ Shows("login") /\ Follow

\* A link is no longer valid after a while.
MailExpires(m) ==
    /\ m \in DOMAIN mails /\ mails[m].st = "live" /\ Act
    /\ mails' = [mails EXCEPT ![m].st = "gone"]
    /\ UNCHANGED <<pairs, fresh, auth, kept, remember, known, reqs, refresh, page>>
    /\ UNCHANGED <<acct, entry, call, timer, resets>>

-----------------------------------------------------------------------------
(* Deleting the account *)

Dialog(f) ==
    /\ page = "settings" /\ Act
    /\ entry' = f
    /\ UNCHANGED <<pairs, fresh, auth, kept, remember, known, reqs, refresh, page, server, call, timer>>

OpenDeleteModal == ~entry.modal /\ Dialog([entry EXCEPT !.modal = TRUE, !.error = FALSE])

MayClose == ~entry.busy

CloseAccountModal == entry.modal /\ MayClose /\ Dialog([entry EXCEPT !.modal = FALSE, !.error = FALSE])

\* delete_account, and logout when it is done.  The route is one whose requests are
\* never sent again with new tokens.
AccountDeleted ==
    /\ call["main"].kind = "delete"
    /\ \/ /\ auth.pair \in fresh /\ acct # "none"
          /\ acct' = "none" /\ mails' = Withdrawn({"verify", "reset"})
          /\ pairs' = Revoked /\ fresh' = {}
          /\ Sets(NoAuth)
          /\ UNCHANGED <<remember, known, reqs, refresh, acts, resets, timer>>
          /\ Shows(page)
          /\ entry' = IF page' = page THEN entry ELSE NewEntry
          /\ call' = [s \in Slots |-> IF s = "main" THEN NoCall
                                      ELSE [call[s] EXCEPT !.here = @ /\ page' = page]]
       \/ /\ auth.pair \notin fresh \/ acct = "none"
          /\ Ends("main", Failed) /\ Alike /\ UNCHANGED <<server, timer>>

-----------------------------------------------------------------------------
(* The whole *)

Client ==
    \/ /\ \/ (\E r \in Requests : Send(r) \/ Answered(r) \/ GiveUp(r) \/ Queue(r) \/ AskRefresh(r))
          \/ SetRememberMe \/ RefreshToken \/ Refreshed \/ AnotherTab \/ (\E p \in 1..MaxPairs : AccessExpires(p))
       /\ UNCHANGED accountVars
    \/ SignOut /\ Follow /\ UNCHANGED <<server, timer>>
    \/ /\ (\E r \in Requests : NoToken(r)) \/ RefreshFails \/ ReloadTab
       /\ Reset /\ UNCHANGED server

AccountNext ==
    \/ Client
    \/ (\E p \in {"home", "app", "settings", "login", "signup", "reset"} : page # p /\ Enter(p))
    \/ (\E m \in 1..MaxMails : OpenMail(m) \/ MailExpires(m))
    \/ SubmitSignup \/ SubmitLogin \/ SubmitRequest \/ SubmitConfirm \/ SubmitDelete
    \/ (\E slot \in Slots : CallFails(slot))
    \/ SignedUp \/ LoggedIn \/ NotLoggedIn \/ AskMailAgain \/ MailedAgain \/ VerifiedPage
    \/ ResetRequested \/ PasswordReset \/ TimerFires
    \/ OpenDeleteModal \/ CloseAccountModal \/ AccountDeleted

AccountSpec == AuthInit /\ AccountInit /\ [][AccountNext]_<<authVars, accountVars>>

-----------------------------------------------------------------------------
(* Properties *)

\* The variables have the values that the code gives them.
AccountTypeOK ==
    /\ AuthTypeOK
    /\ acct \in {"none", "unverified", "verified"}
    /\ mails \in Seq([kind : {"verify", "reset"}, st : {"live", "used", "gone"}]) /\ Len(mails) <= MaxMails
    /\ entry.resend \in {"idle", "sending", "sent"} /\ entry.mail \in 0..Len(mails)
    /\ call["main"].kind \in {"none", "signup", "login", "verify", "ask", "confirm", "delete"}
    /\ call["resend"].kind \in {"none", "resend"}
    /\ timer \in BOOLEAN /\ resets \in 0..Len(pairs)

\* After a new password nobody stays signed in with a refresh token from before it
\* (auth.py, password_reset_confirm).
ResetRevokes == \A p \in 1..resets : pairs[p] # "live"

\* There is one link at a time that verifies the account, and an account is verified
\* only by one (auth.py, signup, resend_verification and verify_email).
OneLinkVerifies ==
    /\ \A m, n \in Live("verify") : m = n
    /\ Smtp /\ acct = "verified" => \E m \in DOMAIN mails : mails[m] = [kind |-> "verify", st |-> "used"]

\* What a page says of its link is so: it was used, and a page whose call is on its way
\* says so, and keeps its dialog (VerifyEmail.tsx; Settings.tsx, closeDeleteModal).
PageTellsTheTruth ==
    /\ entry.status = "verified" => mails[entry.mail].st = "used"
    /\ entry.busy => call["main"].here
    /\ entry.resend = "sending" => call["resend"].here
    /\ entry.busy /\ page = "settings" => entry.modal
=============================================================================

------------------------------- MODULE Accounts -------------------------------
(***************************************************************************)
(* Who uses the service, beside learning: a guest who tries it, the pages  *)
(* of an account and the client that keeps it signed in, the purchases,    *)
(* and the administrator.  They meet only in the rows of the user; a       *)
(* behaviour is one of one part, the others stay at rest.                  *)
(***************************************************************************)
EXTENDS GuestQuiz, AccountPages, BillingPages, AdminConsole

VARIABLE part \* "guest", "account", "billing" or "admin"

accountsVars == <<part, guestVars, authVars, accountVars, billingVars, adminVars>>

Init ==
    /\ part \in {"guest", "account", "billing", "admin"}
    /\ GuestInit /\ AuthInit /\ AccountInit /\ BillingInit /\ AdminInit
    /\ part # "account" => acct = "none"

Next ==
    \/ part = "guest" /\ GuestNext /\ UNCHANGED <<part, authVars, accountVars, billingVars, adminVars>>
    \/ part = "account" /\ AccountNext /\ UNCHANGED <<part, guestVars, billingVars, adminVars>>
    \/ part = "billing" /\ BillingNext /\ UNCHANGED <<part, guestVars, authVars, accountVars, adminVars>>
    \/ part = "admin" /\ AdminNext /\ UNCHANGED <<part, guestVars, authVars, accountVars, billingVars>>

Spec == Init /\ [][Next]_accountsVars

-----------------------------------------------------------------------------
(* Properties *)

\* What the pages say is what they and the server hold: a link verifies once, a page that
\* waits has a call under way, a row of a subscription has its tier, the dialog of a
\* deletion stays while it is carried out, and a job is listed once.
AccountsConsistent ==
    /\ GuestTypeOK
    /\ AccountTypeOK /\ QueueIsServed /\ UserHasTokens /\ ResetRevokes /\ OneLinkVerifies
    /\ PageTellsTheTruth
    /\ BillingTypeOK /\ TierIsOfTheRow /\ CancelIsScheduled /\ WaitingIsLoading
    /\ AdminTypeOK /\ DialogStays /\ RowsAreDistinct
=============================================================================

----------------------------- MODULE BillingPages -----------------------------
(***************************************************************************)
(* Buying: the pages with the plans and the packs of credits, the window   *)
(* of the payment service that they open, the notifications this service   *)
(* sends when something was paid or has ended, and the handler that grants *)
(* what was bought.                                                        *)
(*                                                                         *)
(* A checkout is a request for a transaction, then, once the script of the *)
(* service has been loaded, its window.  There is one window, and one      *)
(* callback for the moment at which it is closed: a checkout that opens    *)
(* takes the place of the one before.  A notification is delivered until   *)
(* it is answered with success, in any order, and perhaps several times.   *)
(***************************************************************************)
EXTENDS Naturals, Sequences, FiniteSets

CONSTANTS
    Plans,         \* plans that are paid for
    Packs,         \* packs of credits
    StoragePacks,  \* those whose credits are added to a balance
    Handlers,      \* deliveries that the server handles at the same time
    MaxCheckouts,  \* bound on checkouts
    MaxNotes,      \* bound on notifications
    BillingFaults  \* "network": a request fails; "crash": a handler fails or dies

ASSUME BillingAssumption ==
    /\ StoragePacks \subseteq Packs /\ Plans \cap Packs = {}
    /\ {MaxCheckouts, MaxNotes} \subseteq Nat
    /\ BillingFaults \subseteq {"network", "crash"}

VARIABLES
    screen,     \* the page that is shown
    wait,       \* loadingTier, loadingCredit and purchasingPack, checkoutError
    manage,     \* updatingPayment, cancelConfirm, canceling, cancelDone
    seen,       \* what the page knows: whether there is a subscription, and the tier
    banner,     \* bannerVisible
    prompt,     \* the dialog that offers another plan, over whatever page is shown
    checkouts,  \* each: what is bought, its step, whether its page is still there
    script,     \* initialized and initPromise: "no", "loading", "ready"
    window,     \* the window, and the callback: the checkouts they are of, or 0
    subs,       \* the subscriptions that the payment service has
    notes,      \* its notifications: kind, of which item or subscription, status, due
    events,     \* WebhookEvent: the notifications that were handled
    hooks,      \* what each handler has claimed, and the balance it read
    account     \* the row of the subscription, the tier, the balance, the purchases

buyVars == <<wait, manage, seen, banner, prompt, checkouts, script, window>>
billingVars == <<screen, wait, manage, seen, banner, prompt, checkouts, script, window,
                 subs, notes, events, hooks, account>>

Nothing  == [tier |-> "none", credit |-> "none", pack |-> "none", error |-> FALSE]
Unused   == [updating |-> FALSE, confirm |-> FALSE, canceling |-> FALSE, done |-> FALSE]
Unknown  == [sub |-> FALSE, tier |-> "free"]
Closed   == [of |-> 0, callback |-> 0]
Resting  == [note |-> 0, read |-> 0]
Items    == Plans \cup Packs

BillingInit ==
    /\ screen = "app" /\ wait = Nothing /\ manage = Unused
    /\ seen = Unknown /\ banner = FALSE /\ prompt = FALSE
    /\ checkouts = <<>> /\ script = "no" /\ window = Closed
    /\ subs = <<>> /\ notes = <<>> /\ events = {}
    /\ hooks = [h \in Handlers |-> Resting]
    /\ account = [sub |-> 0, st |-> "none", tier |-> "free", balance |-> 0, purchases |-> <<>>]

-----------------------------------------------------------------------------
(* The server's account *)

\* get_current: the subscription whose row is in force.
Current == account.sub # 0 /\ account.st \in {"active", "past_due", "trialing"}

\* provision_tier, when a subscription was created or activated.
ProvisionTier(s) == [account EXCEPT !.sub = s, !.st = "active", !.tier = subs[s].plan]

SubscriptionUpdated(s, status) == IF account.sub = s THEN [account EXCEPT !.st = status] ELSE account

\* cancel_or_downgrade finds the user by the customer, whatever subscription has ended.
CancelOrDowngrade == [account EXCEPT !.st = IF account.sub = 0 THEN @ ELSE "canceled", !.tier = "free"]

\* add_credits: the balance that was read is written back with the pack added.
AddCredits(n, read) ==
    [account EXCEPT !.balance = IF notes[n].item \in StoragePacks THEN read + 1 ELSE @,
                    !.purchases = Append(@, n)]

Handled(n, read) ==
    CASE notes[n].kind = "created"  -> ProvisionTier(notes[n].sub)
      [] notes[n].kind = "updated"  -> SubscriptionUpdated(notes[n].sub, notes[n].status)
      [] notes[n].kind = "canceled" -> CancelOrDowngrade
      [] notes[n].kind = "paid"     -> AddCredits(n, read)

\* Mutant: first the event is looked up, and inserted when all is done.
SelectFirst(n) == n \notin events

\* The event is inserted before it is handled: another delivery waits for the outcome.
Claimable(n) == n \notin events /\ \A h \in Handlers : hooks[h].note # n

Outside == UNCHANGED <<screen, buyVars, subs>>

Deliver(h, n) ==
    /\ n \in DOMAIN notes /\ notes[n].due /\ hooks[h] = Resting
    /\ \/ /\ n \in events
          /\ notes' = [notes EXCEPT ![n].due = FALSE] /\ UNCHANGED hooks
       \/ /\ Claimable(n)
          /\ hooks' = [hooks EXCEPT ![h] = [note |-> n, read |-> account.balance]] /\ UNCHANGED notes
    /\ Outside /\ UNCHANGED <<events, account>>

\* The event and what it grants are committed together; the answer may be lost.
Commit(h) ==
    /\ hooks[h] # Resting
    /\ LET n == hooks[h].note IN
       /\ account' = Handled(n, hooks[h].read)
       /\ events' = events \cup {n}
       /\ notes' = [notes EXCEPT ![n].due = FALSE] \/ UNCHANGED notes
    /\ hooks' = [hooks EXCEPT ![h] = Resting]
    /\ Outside

Rollback(h) ==
    /\ "crash" \in BillingFaults /\ hooks[h] # Resting
    /\ hooks' = [hooks EXCEPT ![h] = Resting]
    /\ Outside /\ UNCHANGED <<notes, events, account>>

-----------------------------------------------------------------------------
(* The payment service *)

Inside == UNCHANGED <<events, hooks, account>>

Note(kind, item, sub, status) == [kind |-> kind, item |-> item, sub |-> sub, status |-> status, due |-> TRUE]

Sends(n) == Len(notes) < MaxNotes /\ notes' = Append(notes, n)

\* A subscription is activated after it was created, changes its status, or ends.
Activate(s) ==
    /\ s \in DOMAIN subs /\ subs[s].st = "active"
    /\ Sends(Note("created", "none", s, "active"))
    /\ UNCHANGED <<screen, buyVars, subs>> /\ Inside

Fall(s) ==
    /\ s \in DOMAIN subs /\ subs[s].st \in {"active", "scheduled"}
    /\ Sends(Note("updated", "none", s, "past_due"))
    /\ UNCHANGED <<screen, buyVars, subs>> /\ Inside

End(s) ==
    /\ s \in DOMAIN subs /\ subs[s].st # "canceled"
    /\ subs' = [subs EXCEPT ![s].st = "canceled"]
    /\ Sends(Note("canceled", "none", s, "canceled"))
    /\ UNCHANGED <<screen, buyVars>> /\ Inside

Alone == UNCHANGED <<subs, notes>> /\ Inside

-----------------------------------------------------------------------------
(* The pages *)

\* A page that is left loses its state, and its checkouts go on without it.
Left == [c \in DOMAIN checkouts |-> [checkouts[c] EXCEPT !.here = FALSE]]

Fresh ==
    /\ wait' = Nothing /\ manage' = Unused /\ seen' = Unknown /\ banner' = FALSE
    /\ checkouts' = Left

VisitPage(p) ==
    /\ screen # p /\ screen' = p
    /\ Fresh
    /\ UNCHANGED <<prompt, script, window>> /\ Alone

\* The queries of the subscription and the usage, on mounting and when invalidated.
Refetch ==
    /\ screen # "app"
    /\ seen' = [sub |-> Current, tier |-> account.tier]
    /\ UNCHANGED <<prompt, screen, wait, manage, banner, checkouts, script, window>> /\ Alone

CloseBanner == banner /\ banner' = FALSE /\ UNCHANGED <<prompt, screen, wait, manage, seen, checkouts, script, window>> /\ Alone

\* What a button sets while it waits.
Slot(item) ==
    IF item \in Plans THEN "tier" ELSE IF screen = "pricing" THEN "credit" ELSE "pack"

\* A page of plans disables the one button; the other page, all of them.
MaySubscribe(item) == screen = "pricing" /\ item \in Plans /\ seen.tier # item /\ wait.tier # item
MayAdd(item) == screen = "pricing" /\ item \in Packs /\ wait.credit # item
MayPurchase(item) == screen = "billing" /\ item \in Packs /\ wait.pack = "none"

\* handleSubscribe, handleCreditPurchase and handlePurchasePack.
Purchase(item) ==
    /\ MaySubscribe(item) \/ MayAdd(item) \/ MayPurchase(item)
    /\ Len(checkouts) < MaxCheckouts
    /\ wait' = [wait EXCEPT ![Slot(item)] = item, !.error = FALSE]
    /\ checkouts' = Append(checkouts, [item |-> item, slot |-> Slot(item), st |-> "asked", here |-> TRUE])
    /\ UNCHANGED <<prompt, screen, manage, seen, banner, script, window>> /\ Alone

Over(cs) == [c \in DOMAIN checkouts |-> IF c \in cs THEN [checkouts[c] EXCEPT !.st = "over", !.here = FALSE] ELSE checkouts[c]]

Freed(c) == IF checkouts[c].here THEN [wait EXCEPT ![checkouts[c].slot] = "none"] ELSE wait

\* Whatever goes wrong is caught: the error is shown, and the buttons are enabled.
CheckoutFails(c) ==
    /\ "network" \in BillingFaults
    /\ c \in DOMAIN checkouts /\ checkouts[c].st = "asked"
    /\ checkouts' = Over({c})
    /\ wait' = IF checkouts[c].here THEN [Freed(c) EXCEPT !.error = TRUE] ELSE wait
    /\ UNCHANGED <<prompt, screen, manage, seen, banner, script, window>> /\ Alone

\* openPaddleCheckout: the window, and the callback, are those of the last one.
Open(c) == window' = [of |-> c, callback |-> c]

\* The transaction is there: the window opens, once the script has been loaded.
Created(c) ==
    /\ c \in DOMAIN checkouts /\ checkouts[c].st = "asked"
    /\ \/ script = "ready" /\ Open(c) /\ checkouts' = [checkouts EXCEPT ![c].st = "open"] /\ UNCHANGED script
       \/ /\ script # "ready" /\ script' = "loading"
          /\ checkouts' = [checkouts EXCEPT ![c].st = "waiting"] /\ UNCHANGED window
    /\ UNCHANGED <<prompt, screen, wait, manage, seen, banner>> /\ Alone

Waiting == {c \in DOMAIN checkouts : checkouts[c].st = "waiting"}

\* All who wait for the script go on, in the order in which they came.
ScriptLoaded ==
    /\ script = "loading" /\ script' = "ready"
    /\ checkouts' = [c \in DOMAIN checkouts |-> IF c \in Waiting THEN [checkouts[c] EXCEPT !.st = "open"] ELSE checkouts[c]]
    /\ \E c \in Waiting : (\A d \in Waiting : d <= c) /\ Open(c)
    /\ UNCHANGED <<prompt, screen, wait, manage, seen, banner>> /\ Alone

\* A failure is forgotten, so that the next checkout tries again.
AfterFailure == "no"

ScriptFails ==
    /\ "network" \in BillingFaults /\ script = "loading" /\ script' = AfterFailure
    /\ checkouts' = Over(Waiting)
    /\ LET here == {c \in Waiting : checkouts[c].here} IN
       wait' = [s \in DOMAIN wait |-> IF s = "error" THEN wait.error \/ here # {}
                                      ELSE IF \E c \in here : checkouts[c].slot = s THEN "none" ELSE wait[s]]
    /\ UNCHANGED <<prompt, screen, manage, seen, banner, window>> /\ Alone

\* The window is closed, and nothing is bought.
Dismiss ==
    /\ window.of # 0 /\ window' = Closed
    /\ checkouts' = Over({window.of})
    /\ wait' = IF window.callback # 0 THEN Freed(window.callback) ELSE wait
    /\ UNCHANGED <<prompt, screen, manage, seen, banner, script>> /\ Alone

\* It is paid: the browser goes to the page of the success URL.
Pay ==
    /\ window.of # 0
    /\ LET item == checkouts[window.of].item IN
       \/ /\ item \in Plans
          /\ subs' = Append(subs, [plan |-> item, st |-> "active"])
          /\ Sends(Note("created", "none", Len(subs'), "active"))
       \/ /\ item \in Packs
          /\ Sends(Note("paid", item, 0, "none"))
          /\ UNCHANGED subs
    /\ screen' = "billing" /\ banner' = TRUE
    /\ wait' = Nothing /\ manage' = Unused /\ seen' = Unknown
    /\ checkouts' = Over(DOMAIN checkouts)
    /\ prompt' = FALSE /\ script' = "no" /\ window' = Closed
    /\ Inside

-----------------------------------------------------------------------------
(* The dialog for whoever has reached a limit *)

\* normalizeUpgradePayload: an answer is of use if it names a limit the client knows.
Payload(limit) == limit \in {"quiz", "ocr", "storage", "model_access"}

\* A request of some page was refused with 402.
LimitReached ==
    /\ ~prompt
    /\ \E limit \in {"storage", "other"} : prompt' = Payload(limit)
    /\ UNCHANGED <<screen, wait, manage, seen, banner, checkouts, script, window>> /\ Alone

CloseUpgrade ==
    /\ prompt /\ prompt' = FALSE
    /\ UNCHANGED <<screen, wait, manage, seen, banner, checkouts, script, window>> /\ Alone

HandleUpgrade ==
    /\ prompt /\ prompt' = FALSE
    /\ screen' = "pricing"
    /\ IF screen = "pricing" THEN UNCHANGED <<wait, manage, seen, banner, checkouts>> ELSE Fresh
    /\ UNCHANGED <<script, window>> /\ Alone

-----------------------------------------------------------------------------
(* Managing the subscription, on the page of billing and in the settings *)

\* Either page has its section for who has a subscription and has not canceled it.
InBilling  == screen = "billing" /\ seen.sub /\ ~manage.done
InSettings == screen = "settings" /\ seen.sub /\ ~manage.done

Manage(m) ==
    /\ InBilling \/ InSettings
    /\ manage' = m
    /\ UNCHANGED <<prompt, screen, wait, seen, banner, checkouts, script, window>> /\ Alone

HandleUpdatePayment == ~manage.updating /\ Manage([manage EXCEPT !.updating = TRUE])
AskCancel     == ~manage.confirm /\ Manage([manage EXCEPT !.confirm = TRUE])
GoBack        == manage.confirm /\ Manage([manage EXCEPT !.confirm = FALSE])
ConfirmCancel == manage.confirm /\ ~manage.canceling /\ Manage([manage EXCEPT !.canceling = TRUE])

\* get_manage_urls: whoever has a subscription is taken to a page of the payment service,
\* and may come back.
UrlArrives ==
    /\ manage.updating /\ manage' = [manage EXCEPT !.updating = FALSE]
    /\ UNCHANGED <<prompt, screen, wait, seen, banner, checkouts, script, window>> /\ Alone

\* Not found, or the service does not answer: the button is enabled, nothing is said.
NotCanceled == [manage EXCEPT !.canceling = FALSE]

\* cancel_subscription of the server, and what the page makes of the answer.
CancelAnswered ==
    /\ manage.canceling
    /\ \/ /\ Current
          /\ subs' = [subs EXCEPT ![account.sub].st = IF @ = "active" THEN "scheduled" ELSE @]
          /\ manage' = [manage EXCEPT !.canceling = FALSE, !.done = TRUE, !.confirm = FALSE]
       \/ /\ ~Current \/ "network" \in BillingFaults
          /\ manage' = NotCanceled
          /\ UNCHANGED subs
    /\ UNCHANGED <<prompt, screen, wait, seen, banner, checkouts, script, window, notes>> /\ Inside

BillingNext ==
    \/ (\E p \in {"app", "pricing", "billing", "settings"} : VisitPage(p))
    \/ Refetch \/ CloseBanner \/ LimitReached \/ CloseUpgrade \/ HandleUpgrade
    \/ (\E item \in Items : Purchase(item))
    \/ (\E c \in 1..MaxCheckouts : CheckoutFails(c) \/ Created(c))
    \/ ScriptLoaded \/ ScriptFails \/ Dismiss \/ Pay
    \/ HandleUpdatePayment \/ AskCancel \/ GoBack \/ ConfirmCancel \/ UrlArrives \/ CancelAnswered
    \/ (\E s \in 1..MaxCheckouts : Activate(s) \/ Fall(s) \/ End(s))
    \/ (\E h \in Handlers : Commit(h) \/ Rollback(h) \/ (\E n \in 1..MaxNotes : Deliver(h, n)))

BillingSpec == BillingInit /\ [][BillingNext]_billingVars

-----------------------------------------------------------------------------
(* Properties *)

\* The variables have the values that the code gives them.
BillingTypeOK ==
    /\ screen \in {"app", "pricing", "billing", "settings"}
    /\ wait.tier \in Plans \cup {"none"} /\ {wait.credit, wait.pack} \subseteq Packs \cup {"none"}
    /\ seen.tier \in Plans \cup {"free"}
    /\ script \in {"no", "loading", "ready"}
    /\ {window.of, window.callback} \subseteq 0..Len(checkouts)
    /\ events \subseteq DOMAIN notes
    /\ account.sub \in 0..Len(subs) /\ account.tier \in Plans \cup {"free"}

\* What was paid is granted once, however often its notification is delivered and
\* wherever its handler fails: it has one purchase when it was handled, and none
\* before; and no pack counts twice in the balance (billing.py, paddle_webhook).
CreditsOnce ==
    /\ \A n \in DOMAIN notes :
          Cardinality({i \in DOMAIN account.purchases : account.purchases[i] = n})
              = IF notes[n].kind = "paid" /\ n \in events THEN 1 ELSE 0
    /\ account.balance <= Len(account.purchases)

\* The tier of a user is that of the subscription the row names (subscription_service.py).
TierIsOfTheRow == account.tier # "free" => account.sub # 0 /\ subs[account.sub].plan = account.tier

\* Who is told that the subscription will end has one that will, or that has
\* (BillingPage.tsx and Settings.tsx, handleCancelSubscription).
CancelIsScheduled == manage.done => \E s \in DOMAIN subs : subs[s].st # "active"

\* Who waits for the script waits for one that is being loaded (paddle.ts, ensureInitialized).
WaitingIsLoading == (script = "loading") <=> (Waiting # {})
=============================================================================

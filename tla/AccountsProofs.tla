---------------------------- MODULE AccountsProofs ----------------------------
(***************************************************************************)
(* The tokens of a tab, the pages around an account, what is bought, a     *)
(* guest's quiz and the administrator's console, for any number of         *)
(* requests, pairs of tokens, mails, checkouts, notifications, handlers,   *)
(* guests, users and jobs: no token is offered twice, what was paid counts *)
(* once, a page that waits still asks, the quiz that led to signing up     *)
(* goes along, and what the pages say is so.                               *)
(***************************************************************************)
EXTENDS ArraysProofs, Accounts

\* Each part is at rest while another one runs.
LEMMA OnePart ==
  ASSUME [Next]_accountsVars
  PROVE  /\ AccountNext \/ UNCHANGED <<authVars, accountVars>>
         /\ BillingNext \/ UNCHANGED billingVars
         /\ GuestNext \/ UNCHANGED guestVars
         /\ AdminNext \/ UNCHANGED adminVars
  BY DEF Next, accountsVars

-----------------------------------------------------------------------------
\* The tokens.

PairState == {"live", "revoked", "spent", "lost", "elsewhere"}

\* The pairs that this tab may still offer.
InUse(p) == p = auth.pair \/ p = kept["local"].pair \/ p = kept["session"].pair

\* A pair this tab has spent is in use only until the answer has arrived.
ClientInv ==
    /\ pairs \in Seq(PairState)
    /\ auth \in [user : BOOLEAN, pair : Nat]
    /\ kept \in [{"local", "session"} -> [user : BOOLEAN, pair : Nat]]
    /\ auth.pair <= Len(pairs) /\ \A s \in {"local", "session"} : kept[s].pair <= Len(pairs)
    /\ refresh \in [st : {"no", "asked", "granted", "refused"}, pair : Nat, new : Nat]
    /\ refresh.st # "no" => refresh.pair \in DOMAIN pairs
    /\ refresh.st = "granted" => refresh.new \in DOMAIN pairs /\ pairs[refresh.new] # "spent"
    /\ refresh.st = "asked" => pairs[refresh.pair] # "spent"
    /\ \A p \in DOMAIN pairs : pairs[p] = "spent" /\ InUse(p) =>
           refresh.st = "granted" /\ refresh.pair = p

LEMMA ClientInit == AuthInit => ClientInv
  <1> SUFFICES ASSUME AuthInit PROVE ClientInv
    OBVIOUS
  <1>1. /\ pairs = <<>> /\ auth = NoAuth /\ kept = [local |-> NoAuth, session |-> NoAuth]
        /\ refresh = NoRefresh
    BY DEF AuthInit
  <1>2. pairs \in Seq(PairState) /\ DOMAIN pairs = {} /\ Len(pairs) = 0
    BY <1>1
  <1>3. /\ NoAuth \in [user : BOOLEAN, pair : Nat] /\ NoAuth.pair = 0
        /\ NoRefresh \in [st : {"no", "asked", "granted", "refused"}, pair : Nat, new : Nat]
        /\ NoRefresh.st = "no"
    BY DEF NoAuth, NoRefresh
  <1>4. /\ kept \in [{"local", "session"} -> [user : BOOLEAN, pair : Nat]]
        /\ \A x \in {"local", "session"} : kept[x] = NoAuth
    BY <1>1, <1>3
  <1> QED
    BY <1>1, <1>2, <1>3, <1>4 DEF ClientInv

\* The tokens, with the refresh under way, are those they were.
LEMMA ClientRests ==
  ASSUME ClientInv, UNCHANGED <<pairs, auth, kept, refresh>>
  PROVE  ClientInv'
  BY DEF ClientInv, InUse

\* What the storages have after setItem.
LEMMA KeptPairs ==
  ASSUME NEW a \in [user : BOOLEAN, pair : Nat], NEW flag
  PROVE  /\ Kept(a, flag) \in [{"local", "session"} -> [user : BOOLEAN, pair : Nat]]
         /\ \A s \in {"local", "session"} : Kept(a, flag)[s] \in {a, NoAuth}
  BY DEF Kept, NoAuth, StorageOf

\* No refresh is under way, and the pairs in use are among those that were.
LEMMA ClientStops ==
  ASSUME ClientInv, pairs' = Forgotten, refresh' = NoRefresh,
         auth' \in [user : BOOLEAN, pair : Nat],
         kept' \in [{"local", "session"} -> [user : BOOLEAN, pair : Nat]],
         \A p : p # 0 /\ InUse(p)' => InUse(p)
  PROVE  ClientInv'
  <1>1. /\ pairs' \in Seq(PairState) /\ DOMAIN pairs' = DOMAIN pairs /\ Len(pairs') = Len(pairs)
        /\ DOMAIN pairs = 1..Len(pairs) /\ Len(pairs) \in Nat
        /\ \A p \in DOMAIN pairs : pairs'[p] = "spent" =>
              pairs[p] = "spent" /\ ~(refresh.st = "granted" /\ refresh.pair = p)
    <2>1. CASE refresh.st = "granted"
      <3>1. /\ pairs \in Seq(PairState) /\ refresh.pair \in DOMAIN pairs /\ "lost" \in PairState
            /\ pairs' = [pairs EXCEPT ![refresh.pair] = "lost"]
        BY <2>1 DEF ClientInv, Forgotten, PairState
      <3> QED
        BY <3>1
    <2>2. CASE refresh.st # "granted"
      BY <2>2 DEF ClientInv, Forgotten
    <2> QED
      BY <2>1, <2>2
  <1>2. \A p \in DOMAIN pairs : InUse(p)' => pairs'[p] # "spent"
    BY <1>1 DEF ClientInv
  <1>3. \A p : InUse(p) => p <= Len(pairs)
    BY DEF ClientInv, InUse
  <1>4. auth.pair' <= Len(pairs) /\ \A s \in {"local", "session"} : kept'[s].pair <= Len(pairs)
    <2>1. ASSUME NEW p \in Nat, InUse(p)' PROVE p <= Len(pairs)
      BY <1>1, <1>3, <2>1
    <2> QED
      BY <2>1 DEF InUse
  <1> QED
    BY <1>1, <1>2, <1>4 DEF ClientInv, NoRefresh

\* The tab signs out; what was under way goes on.
LEMMA ClientSignsOut ==
  ASSUME ClientInv, UNCHANGED <<pairs, refresh>>, Sets(NoAuth)
  PROVE  ClientInv'
  <1>1. NoAuth \in [user : BOOLEAN, pair : Nat] /\ NoAuth.pair = 0
    BY DEF NoAuth
  <1>2. /\ auth' = NoAuth /\ kept' \in [{"local", "session"} -> [user : BOOLEAN, pair : Nat]]
        /\ \A s \in {"local", "session"} : kept'[s] = NoAuth
    BY <1>1, KeptPairs DEF Sets
  <1>3. \A p \in DOMAIN pairs : ~InUse(p)'
    BY <1>1, <1>2 DEF ClientInv, InUse
  <1> QED
    BY <1>1, <1>2, <1>3 DEF ClientInv

\* A sequence, one in which one element changes, and the pairs with a new one.
LEMMA Counted == ASSUME NEW T, NEW s \in Seq(T) PROVE Len(s) \in Nat /\ DOMAIN s = 1 .. Len(s)
  OBVIOUS

LEMMA OneWritten ==
  ASSUME NEW S, NEW P \in Seq(S), NEW k \in DOMAIN P, NEW v \in S
  PROVE  LET Q == [P EXCEPT ![k] = v] IN
         /\ Q \in Seq(S) /\ Len(Q) = Len(P) /\ DOMAIN Q = DOMAIN P /\ Q[k] = v
         /\ \A p \in DOMAIN P : p # k => Q[p] = P[p]
  OBVIOUS

LEMMA OneIssued ==
  ASSUME NEW P \in Seq(PairState)
  PROVE  LET Q == Append(P, "live") IN
         /\ Q \in Seq(PairState) /\ Len(Q) = Len(P) + 1 /\ Len(P) \in Nat
         /\ DOMAIN P = 1..Len(P) /\ DOMAIN Q = 1..(Len(P) + 1)
         /\ Q[Len(P) + 1] = "live" /\ \A p \in DOMAIN P : Q[p] = P[p]
  BY DEF PairState

LEMMA GrantKeeps == ClientInv /\ RefreshToken => ClientInv'
  <1> SUFFICES ASSUME ClientInv, RefreshToken PROVE ClientInv'
    OBVIOUS
  <1>1. /\ refresh.st = "asked" /\ refresh.pair \in DOMAIN pairs /\ pairs \in Seq(PairState)
        /\ auth' = auth /\ kept' = kept
        /\ refresh \in [st : {"no", "asked", "granted", "refused"}, pair : Nat, new : Nat]
        /\ \A p \in DOMAIN pairs : pairs[p] = "spent" => ~InUse(p)
    BY DEF ClientInv, RefreshToken
  <1>2. \A p : InUse(p)' <=> InUse(p)
    BY <1>1 DEF InUse
  <1>3. CASE pairs' = pairs /\ refresh' = [refresh EXCEPT !.st = "refused"]
    <2>1. /\ refresh' \in [st : {"no", "asked", "granted", "refused"}, pair : Nat, new : Nat]
          /\ refresh'.st = "refused" /\ refresh'.pair = refresh.pair
      BY <1>1, <1>3
    <2> QED
      BY <1>1, <1>2, <1>3, <2>1 DEF ClientInv
  <1>4. CASE /\ pairs' = Append([pairs EXCEPT ![refresh.pair] = "spent"], "live")
             /\ refresh' = [refresh EXCEPT !.st = "granted", !.new = Len(pairs')]
    <2>1. PICK P : P = [pairs EXCEPT ![refresh.pair] = "spent"]
      OBVIOUS
    <2>2. /\ P \in Seq(PairState) /\ Len(P) = Len(pairs)
          /\ \A p \in DOMAIN pairs : p # refresh.pair => P[p] = pairs[p]
      BY <1>1, <2>1, OneWritten DEF PairState
    <2>3. /\ pairs' \in Seq(PairState) /\ Len(pairs') = Len(pairs) + 1 /\ Len(pairs) \in Nat
          /\ DOMAIN pairs = 1..Len(pairs) /\ DOMAIN pairs' = 1..(Len(pairs) + 1)
          /\ pairs'[Len(pairs) + 1] = "live"
          /\ \A p \in DOMAIN pairs : p # refresh.pair => pairs'[p] = pairs[p]
      BY <1>1, <1>4, <2>1, <2>2, OneIssued
    <2>4. /\ refresh' \in [st : {"no", "asked", "granted", "refused"}, pair : Nat, new : Nat]
          /\ refresh'.st = "granted" /\ refresh'.pair = refresh.pair
          /\ refresh'.new = Len(pairs) + 1
      <3>1. PICK n \in Nat : n = Len(pairs')
        BY <2>3
      <3>2. refresh' = [refresh EXCEPT !.st = "granted", !.new = n]
        BY <1>4, <3>1
      <3> QED
        BY <1>1, <2>3, <3>1, <3>2
    <2>5. /\ auth' \in [user : BOOLEAN, pair : Nat] /\ auth.pair' <= Len(pairs)
          /\ kept' \in [{"local", "session"} -> [user : BOOLEAN, pair : Nat]]
          /\ \A x \in {"local", "session"} : kept'[x].pair <= Len(pairs)
      BY <1>1 DEF ClientInv
    <2>6. \A p \in DOMAIN pairs' : pairs'[p] = "spent" /\ InUse(p)' => p = refresh.pair
      BY <1>1, <1>2, <2>3
    <2> QED
      BY <1>1, <2>3, <2>4, <2>5, <2>6 DEF ClientInv
  <1> QED
    BY <1>3, <1>4 DEF RefreshToken

\* A pair that has just been issued is taken, by whoever signs in.
LEMMA SignInKeeps == ClientInv /\ LoggedIn => ClientInv'
  <1> SUFFICES ASSUME ClientInv, LoggedIn PROVE ClientInv'
    OBVIOUS
  <1>1. /\ pairs \in Seq(PairState) /\ pairs' = Append(pairs, "live") /\ refresh' = refresh
        /\ Sets([user |-> TRUE, pair |-> Len(pairs')])
    BY DEF ClientInv, LoggedIn, Issue, SignIn
  <1>2. /\ pairs' \in Seq(PairState) /\ Len(pairs') = Len(pairs) + 1 /\ Len(pairs) \in Nat
        /\ DOMAIN pairs = 1..Len(pairs) /\ DOMAIN pairs' = 1..(Len(pairs) + 1)
        /\ pairs'[Len(pairs) + 1] = "live" /\ \A p \in DOMAIN pairs : pairs'[p] = pairs[p]
    BY <1>1, OneIssued
  <1> DEFINE a == [user |-> TRUE, pair |-> Len(pairs) + 1]
  <1>3. a \in [user : BOOLEAN, pair : Nat] /\ a.pair = Len(pairs) + 1 /\ NoAuth.pair = 0
    BY <1>2 DEF NoAuth
  <1>4. auth' = a /\ kept' = Kept(a, remember)
    BY <1>1, <1>2 DEF Sets
  <1> HIDE DEF a
  <1>5. /\ kept' \in [{"local", "session"} -> [user : BOOLEAN, pair : Nat]]
        /\ \A x \in {"local", "session"} : kept'[x] \in {a, NoAuth}
    BY <1>3, <1>4, KeptPairs
  <1>6. \A p : InUse(p)' => p = Len(pairs) + 1 \/ p = 0
    BY <1>3, <1>4, <1>5 DEF InUse
  <1>7. /\ auth' \in [user : BOOLEAN, pair : Nat] /\ auth.pair' <= Len(pairs')
        /\ \A x \in {"local", "session"} : kept'[x].pair <= Len(pairs')
    BY <1>2, <1>3, <1>4, <1>5
  <1> QED
    BY <1>1, <1>2, <1>5, <1>6, <1>7 DEF ClientInv

\* The answer of a refresh: the new pair is the one in use.
LEMMA RefreshedKeeps == ClientInv /\ Refreshed => ClientInv'
  <1> SUFFICES ASSUME ClientInv, Refreshed PROVE ClientInv'
    OBVIOUS
  <1>1. /\ pairs' = pairs /\ refresh' = NoRefresh /\ Sets([auth EXCEPT !.pair = refresh.new])
        /\ pairs \in Seq(PairState) /\ refresh.new \in DOMAIN pairs /\ pairs[refresh.new] # "spent"
        /\ auth \in [user : BOOLEAN, pair : Nat]
    BY DEF ClientInv, Refreshed, SetTokens
  <1> DEFINE a == [auth EXCEPT !.pair = refresh.new]
  <1>2. a \in [user : BOOLEAN, pair : Nat] /\ a.pair = refresh.new /\ NoAuth.pair = 0
    BY <1>1 DEF NoAuth
  <1>3. auth' = a /\ kept' = Kept(a, remember)
    BY <1>1 DEF Sets
  <1> HIDE DEF a
  <1>4. /\ kept' \in [{"local", "session"} -> [user : BOOLEAN, pair : Nat]]
        /\ \A x \in {"local", "session"} : kept'[x] \in {a, NoAuth}
    BY <1>2, <1>3, KeptPairs
  <1>5. \A p : InUse(p)' => p = refresh.new \/ p = 0
    BY <1>2, <1>3, <1>4 DEF InUse
  <1>6. /\ auth.pair' <= Len(pairs) /\ \A x \in {"local", "session"} : kept'[x].pair <= Len(pairs)
    BY <1>1, <1>2, <1>3, <1>4
  <1> QED
    BY <1>1, <1>2, <1>3, <1>4, <1>5, <1>6 DEF ClientInv, NoRefresh

\* Another tab takes the pair of the local storage, or drops it.
LEMMA AnotherTabKeeps == ClientInv /\ AnotherTab => ClientInv'
  <1> SUFFICES ASSUME ClientInv, AnotherTab PROVE ClientInv'
    OBVIOUS
  <1>1. /\ kept["local"].pair # 0 /\ auth' = auth /\ refresh' = refresh /\ pairs \in Seq(PairState)
        /\ kept \in [{"local", "session"} -> [user : BOOLEAN, pair : Nat]]
        /\ kept["local"].pair \in DOMAIN pairs
    BY DEF ClientInv, AnotherTab
  <1>2. CASE pairs' = pairs /\ kept' = [kept EXCEPT !["local"] = NoAuth]
    <2>1. /\ kept' \in [{"local", "session"} -> [user : BOOLEAN, pair : Nat]]
          /\ kept'["local"].pair = 0 /\ kept'["session"] = kept["session"]
      BY <1>1, <1>2 DEF NoAuth
    <2>2. \A p \in DOMAIN pairs : InUse(p)' => InUse(p)
      BY <1>1, <2>1 DEF InUse
    <2> QED
      BY <1>1, <1>2, <2>1, <2>2 DEF ClientInv
  <1>3. CASE /\ pairs[kept["local"].pair] = "live"
             /\ pairs' = Append([pairs EXCEPT ![kept["local"].pair] = "elsewhere"], "live")
             /\ kept' = [kept EXCEPT !["local"].pair = Len(pairs')]
    <2>1. PICK k \in DOMAIN pairs : k = kept["local"].pair
      BY <1>1
    <2>2. PICK P : P = [pairs EXCEPT ![k] = "elsewhere"]
      OBVIOUS
    <2>3. /\ P \in Seq(PairState) /\ Len(P) = Len(pairs) /\ P[k] = "elsewhere"
          /\ \A p \in DOMAIN pairs : p # k => P[p] = pairs[p]
      BY <1>1, <2>2, OneWritten DEF PairState
    <2>4. /\ pairs' \in Seq(PairState) /\ Len(pairs') = Len(pairs) + 1 /\ Len(pairs) \in Nat
          /\ DOMAIN pairs = 1..Len(pairs) /\ DOMAIN pairs' = 1..(Len(pairs) + 1)
          /\ pairs'[Len(pairs) + 1] = "live" /\ pairs'[k] = "elsewhere"
          /\ \A p \in DOMAIN pairs : p # k => pairs'[p] = pairs[p]
      BY <1>1, <1>3, <2>1, <2>2, <2>3, OneIssued
    <2>5. /\ kept' \in [{"local", "session"} -> [user : BOOLEAN, pair : Nat]]
          /\ kept'["local"].pair = Len(pairs) + 1 /\ kept'["session"] = kept["session"]
      BY <1>1, <1>3, <2>4
    <2>6. \A p \in DOMAIN pairs : InUse(p)' => InUse(p)
      BY <1>1, <2>4, <2>5 DEF InUse
    <2>7. \A p \in DOMAIN pairs' : pairs'[p] = "spent" => p \in DOMAIN pairs /\ pairs[p] = "spent"
      BY <2>4
    <2>8. /\ refresh.st = "granted" => refresh.new \in DOMAIN pairs' /\ pairs'[refresh.new] # "spent"
          /\ refresh.st = "asked" => pairs'[refresh.pair] # "spent"
          /\ refresh.st # "no" => refresh.pair \in DOMAIN pairs'
      BY <2>4, <2>7 DEF ClientInv
    <2>9. /\ auth.pair <= Len(pairs') /\ \A x \in {"local", "session"} : kept'[x].pair <= Len(pairs')
          /\ auth \in [user : BOOLEAN, pair : Nat]
          /\ refresh \in [st : {"no", "asked", "granted", "refused"}, pair : Nat, new : Nat]
      BY <2>4, <2>5 DEF ClientInv
    <2> QED
      BY <1>1, <2>4, <2>5, <2>6, <2>7, <2>8, <2>9 DEF ClientInv
  <1> QED
    BY <1>2, <1>3 DEF AnotherTab

LEMMA AskKeeps ==
  ASSUME ClientInv, NEW r, AskRefresh(r)
  PROVE  ClientInv'
  <1>1. /\ UNCHANGED <<pairs, auth, kept>> /\ auth.pair # 0 /\ refresh.st = "no"
        /\ refresh' = [st |-> "asked", pair |-> auth.pair, new |-> 0]
    BY DEF AskRefresh
  <1>2. auth.pair \in DOMAIN pairs /\ auth.pair \in Nat /\ InUse(auth.pair)
    BY <1>1 DEF ClientInv, InUse
  <1>3. /\ refresh' \in [st : {"no", "asked", "granted", "refused"}, pair : Nat, new : Nat]
        /\ refresh'.st = "asked" /\ refresh'.pair = auth.pair
    BY <1>1, <1>2
  <1>4. \A p \in DOMAIN pairs : InUse(p) => pairs[p] # "spent"
    BY <1>1 DEF ClientInv
  <1>5. \A p : InUse(p)' <=> InUse(p)
    BY <1>1 DEF InUse
  <1> QED
    BY <1>1, <1>2, <1>3, <1>4, <1>5 DEF ClientInv

LEMMA RememberKeeps == ClientInv /\ SetRememberMe => ClientInv'
  <1> SUFFICES ASSUME ClientInv, SetRememberMe PROVE ClientInv'
    OBVIOUS
  <1>1. /\ UNCHANGED <<pairs, auth, refresh>> /\ kept' = Kept(auth, ~remember)
        /\ auth \in [user : BOOLEAN, pair : Nat]
    BY DEF SetRememberMe, ClientInv
  <1>2. /\ kept' \in [{"local", "session"} -> [user : BOOLEAN, pair : Nat]]
        /\ \A x \in {"local", "session"} : kept'[x] \in {auth, NoAuth}
    BY <1>1, KeptPairs
  <1>3. \A p \in DOMAIN pairs : InUse(p)' => InUse(p)
    BY <1>1, <1>2 DEF InUse, NoAuth, ClientInv
  <1>4. \A x \in {"local", "session"} : kept'[x].pair <= Len(pairs)
    BY <1>2 DEF NoAuth, ClientInv
  <1> QED
    BY <1>1, <1>2, <1>3, <1>4 DEF ClientInv

\* The page of the login is loaded, or the tab is loaded again, or a link is opened.
LEMMA LoadingKeeps ==
  ASSUME ClientInv, (\E r : NoToken(r)) \/ RefreshFails \/ ReloadTab \/ \E m : OpenMail(m)
  PROVE  ClientInv'
  <1>1. /\ NoAuth \in [user : BOOLEAN, pair : Nat] /\ NoAuth.pair = 0
        /\ StorageOf(remember) \in {"local", "session"}
    BY DEF NoAuth, StorageOf
  <1>2. /\ auth \in [user : BOOLEAN, pair : Nat]
        /\ kept \in [{"local", "session"} -> [user : BOOLEAN, pair : Nat]]
    BY DEF ClientInv
  <1>3. CASE (\E r : NoToken(r)) \/ RefreshFails
    <2>1. /\ pairs' = Forgotten /\ refresh' = NoRefresh /\ auth' = NoAuth
          /\ kept' = Kept(NoAuth, remember)
      BY <1>3 DEF NoToken, RefreshFails, ToLogin, Loaded, Forgotten
    <2>2. /\ kept' \in [{"local", "session"} -> [user : BOOLEAN, pair : Nat]]
          /\ \A x \in {"local", "session"} : kept'[x] = NoAuth
      BY <1>1, <2>1, KeptPairs
    <2>3. \A p : InUse(p)' => p = 0
      BY <1>1, <2>1, <2>2 DEF InUse
    <2> QED
      BY <1>1, <2>1, <2>2, <2>3, ClientStops
  <1>4. CASE ReloadTab \/ \E m : OpenMail(m)
    <2>1. /\ pairs' = Forgotten /\ refresh' = NoRefresh /\ auth' = kept'[StorageOf(remember)]
          /\ kept' = kept \/ kept' = [kept EXCEPT !["session"] = NoAuth]
      <3>1. CASE ReloadTab
        BY <3>1 DEF ReloadTab, Loaded
      <3>2. CASE \E m : OpenMail(m)
        BY <3>2 DEF OpenMail, Loaded
      <3> QED
        BY <1>4, <3>1, <3>2
    <2>2. /\ kept' \in [{"local", "session"} -> [user : BOOLEAN, pair : Nat]]
          /\ \A x \in {"local", "session"} : kept'[x] \in {kept[x], NoAuth}
      BY <1>1, <1>2, <2>1
    <2>3. auth' \in [user : BOOLEAN, pair : Nat]
      BY <1>1, <2>1, <2>2
    <2>4. ASSUME NEW p, p # 0, InUse(p)' PROVE InUse(p)
      BY <1>1, <2>1, <2>2, <2>4 DEF InUse
    <2> QED
      BY <2>1, <2>2, <2>3, <2>4, ClientStops
  <1> QED
    BY <1>3, <1>4

LEMMA RevokingKeeps ==
  ASSUME ClientInv
  PROVE  /\ Revoked \in Seq(PairState) /\ Len(Revoked) = Len(pairs) /\ DOMAIN Revoked = DOMAIN pairs
         /\ \A p \in DOMAIN pairs : Revoked[p] = "spent" <=> pairs[p] = "spent"
  <1>1. pairs \in Seq(PairState) /\ DOMAIN pairs = 1..Len(pairs) /\ Len(pairs) \in Nat
    BY DEF ClientInv
  <1>2. \A p \in DOMAIN pairs : Revoked[p] \in PairState /\ (Revoked[p] = "spent" <=> pairs[p] = "spent")
    BY <1>1 DEF Revoked, PairState
  <1>3. DOMAIN Revoked = 1..Len(pairs) /\ Revoked = [p \in 1..Len(pairs) |-> Revoked[p]]
    BY <1>1 DEF Revoked
  <1> QED
    BY <1>1, <1>2, <1>3

LEMMA ResetKeeps == ClientInv /\ (PasswordReset \/ AccountDeleted) => ClientInv'
  <1> SUFFICES ASSUME ClientInv, PasswordReset \/ AccountDeleted PROVE ClientInv'
    OBVIOUS
  <1>1. CASE UNCHANGED <<pairs, auth, kept, refresh>>
    BY <1>1, ClientRests
  <1>2. CASE pairs' = Revoked /\ UNCHANGED <<auth, kept, refresh>>
    <2>1. \A p : InUse(p)' <=> InUse(p)
      BY <1>2 DEF InUse
    <2> QED
      BY <1>2, <2>1, RevokingKeeps DEF ClientInv
  <1>3. CASE pairs' = Revoked /\ Sets(NoAuth) /\ refresh' = refresh
    <2>1. NoAuth \in [user : BOOLEAN, pair : Nat] /\ NoAuth.pair = 0
      BY DEF NoAuth
    <2>2. /\ auth' = NoAuth /\ kept' \in [{"local", "session"} -> [user : BOOLEAN, pair : Nat]]
          /\ \A x \in {"local", "session"} : kept'[x] = NoAuth
      BY <1>3, <2>1, KeptPairs DEF Sets
    <2>3. \A p : InUse(p)' => p = 0
      BY <2>1, <2>2 DEF InUse
    <2>4. \A p \in DOMAIN pairs : p # 0
      BY DEF ClientInv
    <2> QED
      BY <1>3, <2>1, <2>2, <2>3, <2>4, RevokingKeeps DEF ClientInv
  <1>4. CASE PasswordReset
    <2>1. \/ UNCHANGED <<pairs, auth, kept, refresh>>
          \/ pairs' = Revoked /\ UNCHANGED <<auth, kept, refresh>>
      BY <1>4 DEF PasswordReset, RevokeTokens
    <2> QED
      BY <1>1, <1>2, <2>1
  <1>5. CASE AccountDeleted
    <2>1. (pairs' = Revoked /\ Sets(NoAuth) /\ refresh' = refresh) \/ Alike
      BY <1>5, Zenon DEF AccountDeleted
    <2>2. CASE Alike
      BY <1>1, <2>2 DEF Alike
    <2> QED
      BY <1>3, <2>1, <2>2
  <1> QED
    BY <1>4, <1>5

LEMMA ClientKeeps == ClientInv /\ Client => ClientInv'
  <1> SUFFICES ASSUME ClientInv, Client PROVE ClientInv'
    OBVIOUS
  <1>1. CASE \E r \in Requests : Send(r) \/ Answered(r) \/ GiveUp(r) \/ Queue(r)
    <2>1. UNCHANGED <<pairs, auth, kept, refresh>>
      BY <1>1 DEF Send, Answered, GiveUp, Queue, ReqsBecome
    <2> QED
      BY <2>1, ClientRests
  <1>2. CASE \E r \in Requests : AskRefresh(r)
    BY <1>2, AskKeeps
  <1>3. CASE SignOut
    BY <1>3, ClientSignsOut DEF SignOut
  <1>4. CASE \E p \in 1..MaxPairs : AccessExpires(p)
    <2>1. UNCHANGED <<pairs, auth, kept, refresh>>
      BY <1>4 DEF AccessExpires
    <2> QED
      BY <2>1, ClientRests
  <1>5. CASE (\E r \in Requests : NoToken(r)) \/ RefreshFails \/ ReloadTab
    BY <1>5, LoadingKeeps
  <1> QED
    BY <1>1, <1>2, <1>3, <1>4, <1>5, RememberKeeps, GrantKeeps, RefreshedKeeps, AnotherTabKeeps DEF Client

LEMMA ClientNext == ClientInv /\ [Next]_accountsVars => ClientInv'
  <1> SUFFICES ASSUME ClientInv, AccountNext \/ UNCHANGED <<authVars, accountVars>> PROVE ClientInv'
    BY OnePart
  <1>1. CASE \/ UNCHANGED <<authVars, accountVars>>
             \/ \E p \in {"home", "app", "settings", "login", "signup", "reset"} : Enter(p)
             \/ \E m \in 1..MaxMails : MailExpires(m)
             \/ \E slot \in Slots : CallFails(slot)
             \/ SubmitSignup \/ SubmitLogin \/ SubmitRequest \/ SubmitConfirm \/ SubmitDelete
             \/ SignedUp \/ NotLoggedIn \/ AskMailAgain \/ MailedAgain \/ VerifiedPage
             \/ ResetRequested \/ TimerFires \/ OpenDeleteModal \/ CloseAccountModal
    <2>1. UNCHANGED <<pairs, auth, kept, refresh>>
      <3>1. CASE \/ SubmitSignup \/ SubmitLogin \/ SubmitRequest \/ SubmitConfirm \/ SubmitDelete
                 \/ AskMailAgain
        BY <3>1 DEF SubmitSignup, SubmitLogin, SubmitRequest, SubmitConfirm, SubmitDelete, Run, Starts,
                    AskMailAgain
      <3>2. CASE \/ SignedUp \/ NotLoggedIn \/ MailedAgain \/ VerifiedPage \/ ResetRequested
                 \/ \E slot \in Slots : CallFails(slot)
        BY <3>2 DEF SignedUp, NotLoggedIn, MailedAgain, VerifiedPage, ResetRequested, CallFails, Alike
      <3>3. CASE \/ UNCHANGED <<authVars, accountVars>> \/ TimerFires
                 \/ \E p \in {"home", "app", "settings", "login", "signup", "reset"} : Enter(p)
                 \/ \E m \in 1..MaxMails : MailExpires(m)
                 \/ OpenDeleteModal \/ CloseAccountModal
        BY <3>3 DEF authVars, TimerFires, Enter, GoTo, MailExpires, OpenDeleteModal, CloseAccountModal,
                    Dialog
      <3> QED
        BY <1>1, <3>1, <3>2, <3>3
    <2> QED
      BY <2>1, ClientRests
  <1>2. CASE \E m \in 1..MaxMails : OpenMail(m)
    BY <1>2, LoadingKeeps
  <1> QED
    BY <1>1, <1>2, ClientKeeps, SignInKeeps, ResetKeeps DEF AccountNext

\* The tab never offers a refresh token whose exchange it has seen, whatever other tabs,
\* reloads, lost answers and queued requests do.
THEOREM TokensAreSpentOnce == Spec => []NoSpentToken
  <1>1. Init => ClientInv
    BY ClientInit DEF Init
  <1>2. ClientInv => NoSpentToken
    BY DEF ClientInv, NoSpentToken
  <1> QED
    BY <1>1, <1>2, ClientNext, PTL DEF Spec

-----------------------------------------------------------------------------
\* The tab: its tokens, its requests, and the page that is shown.

ReqSet  == [st : {"idle", "sent", "queued", "waiting"}, pair : Nat, again : BOOLEAN]
PageSet == Protected \cup OnlySignedOut \cup OpenPages

HasTokens(a) == a.user => a.pair # 0

\* A pair is never valid again when it was not.
PairsGrow ==
    /\ Len(pairs) <= Len(pairs') /\ Len(pairs') <= MaxPairs
    /\ \A p \in DOMAIN pairs : pairs'[p] = "live" => pairs[p] = "live"

ReqsOK ==
    /\ reqs \in [Requests -> ReqSet] /\ \A r \in Requests : reqs[r].pair <= Len(pairs)
    /\ refresh.pair <= Len(pairs) /\ refresh.new <= Len(pairs)
    /\ QueueIsServed

TabOK ==
    /\ Len(pairs) <= MaxPairs /\ fresh \subseteq DOMAIN pairs
    /\ remember \in BOOLEAN /\ known \in BOOLEAN
    /\ page \in PageSet /\ acts \in 0 .. MaxActs
    /\ HasTokens(auth) /\ HasTokens(kept["local"]) /\ HasTokens(kept["session"])

SessionInv == ReqsOK /\ TabOK

LEMMA SessionInit == AuthInit => SessionInv
  <1> SUFFICES ASSUME AuthInit PROVE SessionInv
    OBVIOUS
  <1>1. /\ pairs = <<>> /\ fresh = {} /\ remember = FALSE /\ known = FALSE /\ page = "landing" /\ acts = 0
        /\ auth = NoAuth /\ kept["local"] = NoAuth /\ kept["session"] = NoAuth
        /\ reqs = [r \in Requests |-> Idle] /\ refresh = NoRefresh /\ Len(pairs) = 0
    BY DEF AuthInit
  <1>2. Idle \in ReqSet /\ Idle.pair = 0 /\ Idle.st = "idle" /\ NoRefresh.pair = 0 /\ NoRefresh.new = 0
    BY DEF Idle, ReqSet, NoRefresh
  <1>3. ReqsOK
    BY <1>1, <1>2 DEF ReqsOK, QueueIsServed
  <1>4. MaxPairs \in Nat /\ MaxActs \in Nat
    BY ClientAssumption
  <1>6. HasTokens(NoAuth)
    BY DEF HasTokens, NoAuth
  <1>7. page \in PageSet /\ Len(pairs) <= MaxPairs /\ acts \in 0 .. MaxActs
    BY <1>1, <1>4 DEF PageSet, OpenPages
  <1>8. remember \in BOOLEAN /\ known \in BOOLEAN /\ fresh \subseteq DOMAIN pairs
    BY <1>1
  <1>9. HasTokens(auth) /\ HasTokens(kept["local"]) /\ HasTokens(kept["session"])
    BY <1>1, <1>6
  <1>5. TabOK
    BY <1>7, <1>8, <1>9 DEF TabOK
  <1> QED
    BY <1>3, <1>5 DEF SessionInv

LEMMA PairsCount == ClientInv => Len(pairs) \in Nat /\ DOMAIN pairs = 1 .. Len(pairs) /\ pairs \in Seq(PairState)
  BY DEF ClientInv

LEMMA PairsStay == ClientInv /\ SessionInv /\ pairs' = pairs => PairsGrow
  BY PairsCount DEF PairsGrow, SessionInv, TabOK

\* Where the routes lead is a page.
LEMMA RoutedIsPage ==
  ASSUME NEW p \in PageSet \cup {"home"}, NEW user, NEW known_
  PROVE  Routed(p, user, known_) \in PageSet
  BY DEF Routed, PageSet, Protected, OnlySignedOut, OpenPages

LEMMA NobodyHasTokens == HasTokens(NoAuth)
  BY DEF HasTokens, NoAuth

LEMMA KeptTokens ==
  ASSUME NEW a, HasTokens(a), NEW flag
  PROVE  HasTokens(Kept(a, flag)["local"]) /\ HasTokens(Kept(a, flag)["session"])
  <1>1. Kept(a, flag)["local"] \in {a, NoAuth} /\ Kept(a, flag)["session"] \in {a, NoAuth}
    BY DEF Kept
  <1> QED
    BY <1>1, NobodyHasTokens

LEMMA RequestsRest ==
  ASSUME ClientInv, SessionInv, PairsGrow, UNCHANGED <<reqs, refresh>>, Len(pairs') \in Nat
  PROVE  ReqsOK'
  <1>1. /\ Len(pairs) \in Nat /\ Len(pairs) <= Len(pairs') /\ refresh.pair \in Nat /\ refresh.new \in Nat
        /\ \A r \in Requests : reqs[r].pair \in Nat
    BY PairsCount DEF PairsGrow, ClientInv, SessionInv, ReqsOK, ReqSet
  <1> QED
    BY <1>1 DEF SessionInv, ReqsOK, QueueIsServed

\* The page that is loaded has nothing on its way.
LEMMA LoadedIsIdle ==
  ASSUME NEW n \in Nat, Len(pairs') = n, reqs' = [r \in Requests |-> Idle], refresh' = NoRefresh
  PROVE  ReqsOK'
  <1>1. Idle \in ReqSet /\ Idle.pair = 0 /\ Idle.st = "idle" /\ NoRefresh.pair = 0 /\ NoRefresh.new = 0
    BY DEF Idle, ReqSet, NoRefresh
  <1> QED
    BY <1>1 DEF ReqsOK, QueueIsServed

\* The tokens, the requests and the page are those they were.
LEMMA SessionRests ==
  ASSUME ClientInv, SessionInv, UNCHANGED <<pairs, fresh, auth, kept, remember, known, reqs, refresh>>,
         page' \in PageSet, acts' \in 0 .. MaxActs
  PROVE  SessionInv' /\ PairsGrow
  <1>1. PairsGrow
    BY PairsStay
  <1>2. ReqsOK'
    BY <1>1, PairsCount, RequestsRest
  <1>3. TabOK'
    BY DEF SessionInv, TabOK
  <1> QED
    BY <1>1, <1>2, <1>3 DEF SessionInv

LEMMA ActIsCounted == SessionInv /\ (Act \/ acts' = acts) => acts' \in 0 .. MaxActs
  <1> SUFFICES ASSUME SessionInv, Act \/ acts' = acts PROVE acts' \in 0 .. MaxActs
    OBVIOUS
  <1>1. acts \in 0 .. MaxActs /\ MaxActs \in Nat
    BY ClientAssumption DEF SessionInv, TabOK
  <1> QED
    BY <1>1 DEF Act

\* A request is written.
LEMMA ReqWritten ==
  ASSUME ClientInv, SessionInv, NEW r \in Requests, NEW x \in ReqSet, x.pair <= Len(pairs),
         reqs' = [reqs EXCEPT ![r] = x], UNCHANGED pairs,
         refresh'.pair <= Len(pairs), refresh'.new <= Len(pairs),
         refresh.st # "no" => refresh'.st # "no",
         x.st \in {"queued", "waiting"} => refresh'.st # "no"
  PROVE  ReqsOK'
  <1>1. /\ reqs' \in [Requests -> ReqSet] /\ reqs'[r] = x
        /\ \A s \in Requests : s # r => reqs'[s] = reqs[s]
    BY DEF SessionInv, ReqsOK
  <1>2. \A s \in Requests : reqs'[s].pair <= Len(pairs)
    BY <1>1 DEF SessionInv, ReqsOK
  <1>3. QueueIsServed'
    BY <1>1 DEF SessionInv, ReqsOK, QueueIsServed
  <1> QED
    BY <1>1, <1>2, <1>3 DEF ReqsOK

LEMMA RequestsKeep ==
  ASSUME ClientInv, SessionInv, NEW r \in Requests,
         Send(r) \/ Answered(r) \/ GiveUp(r) \/ Queue(r) \/ AskRefresh(r)
  PROVE  SessionInv' /\ PairsGrow
  <1>1. /\ UNCHANGED <<pairs, fresh, auth, kept, remember, known, page>> /\ (Act \/ acts' = acts)
    BY DEF Send, Answered, GiveUp, Queue, AskRefresh, ReqsBecome
  <1>2. PairsGrow /\ TabOK'
    BY <1>1, PairsStay, ActIsCounted DEF SessionInv, TabOK
  <1>3. /\ Len(pairs) \in Nat /\ reqs[r] \in ReqSet /\ reqs[r].pair <= Len(pairs)
        /\ auth.pair \in Nat /\ auth.pair <= Len(pairs)
        /\ refresh.pair <= Len(pairs) /\ refresh.new <= Len(pairs)
    BY PairsCount DEF ClientInv, SessionInv, ReqsOK
  <1>4. PICK old \in ReqSet : old = reqs[r]
    BY <1>3
  <1>5. CASE Send(r)
    <2>1. PICK x : x = [st |-> "sent", pair |-> auth.pair, again |-> FALSE]
      OBVIOUS
    <2>2. x \in ReqSet /\ x.pair = auth.pair /\ x.st = "sent"
      BY <1>3, <2>1 DEF ReqSet
    <2>3. reqs' = [reqs EXCEPT ![r] = x] /\ refresh' = refresh
      BY <1>5, <2>1 DEF Send
    <2> QED
      BY <1>1, <1>2, <1>3, <2>2, <2>3, ReqWritten DEF SessionInv
  <1>6. CASE Answered(r) \/ GiveUp(r)
    <2>1. Idle \in ReqSet /\ Idle.pair = 0 /\ Idle.st = "idle"
      BY DEF Idle, ReqSet
    <2>2. reqs' = [reqs EXCEPT ![r] = Idle] /\ refresh' = refresh
      BY <1>6 DEF Answered, GiveUp, ReqsBecome
    <2>3. /\ Idle.pair <= Len(pairs) /\ refresh'.pair <= Len(pairs) /\ refresh'.new <= Len(pairs)
          /\ refresh.st # "no" => refresh'.st # "no"
          /\ Idle.st \notin {"queued", "waiting"}
      BY <1>3, <2>1, <2>2
    <2>4. ReqsOK'
      BY <1>1, <2>1, <2>2, <2>3, ReqWritten
    <2> QED
      BY <1>2, <2>4 DEF SessionInv
  <1>7. CASE Queue(r)
    <2>1. PICK x : x = [old EXCEPT !.st = "queued"]
      OBVIOUS
    <2>2. x \in ReqSet /\ x.pair = old.pair
      BY <1>4, <2>1 DEF ReqSet
    <2>3. reqs' = [reqs EXCEPT ![r] = x] /\ refresh' = refresh /\ refresh.st # "no"
      BY <1>4, <1>7, <2>1 DEF Queue, ReqsBecome
    <2> QED
      BY <1>1, <1>2, <1>3, <1>4, <2>2, <2>3, ReqWritten DEF SessionInv
  <1>8. CASE AskRefresh(r)
    <2>1. PICK x : x = [old EXCEPT !.st = "waiting", !.again = TRUE]
      OBVIOUS
    <2>2. x \in ReqSet /\ x.pair = old.pair
      BY <1>4, <2>1 DEF ReqSet
    <2>3. reqs' = [reqs EXCEPT ![r] = x]
      <3>1. reqs' = [reqs EXCEPT ![r].st = "waiting", ![r].again = TRUE]
        BY <1>8 DEF AskRefresh
      <3>2. reqs \in [Requests -> ReqSet]
        BY DEF SessionInv, ReqsOK
      <3> QED
        BY <1>4, <2>1, <3>1, <3>2
    <2>4. refresh'.st = "asked" /\ refresh'.pair = auth.pair /\ refresh'.new = 0
      BY <1>8 DEF AskRefresh
    <2>5. /\ x.pair <= Len(pairs) /\ refresh'.pair <= Len(pairs) /\ refresh'.new <= Len(pairs)
          /\ refresh'.st # "no"
      BY <1>3, <1>4, <2>2, <2>4
    <2>6. ReqsOK'
      BY <1>1, <2>2, <2>3, <2>5, ReqWritten
    <2> QED
      BY <1>2, <2>6 DEF SessionInv
  <1> QED
    BY <1>5, <1>6, <1>7, <1>8

\* The pairs of the server, when a token is exchanged, forgotten or revoked.
LEMMA ForgottenPairs ==
  ASSUME ClientInv, SessionInv, pairs' = Forgotten
  PROVE  PairsGrow /\ Len(pairs') = Len(pairs) /\ DOMAIN pairs' = DOMAIN pairs
  <1>1. Len(pairs) \in Nat /\ DOMAIN pairs = 1 .. Len(pairs) /\ pairs \in Seq(PairState)
    BY PairsCount
  <1>2. CASE refresh.st = "granted"
    <2>1. PICK k \in DOMAIN pairs : k = refresh.pair
      BY <1>2 DEF ClientInv
    <2>2. PICK P : P = [pairs EXCEPT ![k] = "lost"]
      OBVIOUS
    <2>3. "lost" \in PairState
      BY DEF PairState
    <2>4. /\ P \in Seq(PairState) /\ Len(P) = Len(pairs) /\ DOMAIN P = DOMAIN pairs /\ P[k] = "lost"
          /\ \A p \in DOMAIN pairs : p # k => P[p] = pairs[p]
      BY <1>1, <2>2, <2>3, OneWritten
    <2>5. pairs' = P
      BY <1>2, <2>1, <2>2 DEF Forgotten
    <2>6. \A p \in DOMAIN pairs : pairs'[p] = "live" => pairs[p] = "live"
      BY <2>4, <2>5
    <2> QED
      BY <1>1, <2>4, <2>5, <2>6 DEF PairsGrow, SessionInv, TabOK
  <1>3. CASE refresh.st # "granted"
    BY <1>3, PairsStay DEF Forgotten
  <1> QED
    BY <1>2, <1>3

LEMMA RevokedPairs ==
  ASSUME ClientInv, SessionInv, pairs' = Revoked
  PROVE  /\ PairsGrow /\ Len(pairs') = Len(pairs) /\ DOMAIN pairs' = DOMAIN pairs
         /\ \A p \in DOMAIN pairs : pairs'[p] # "live"
  <1>1. Len(pairs) \in Nat /\ DOMAIN pairs = 1 .. Len(pairs) /\ Len(pairs) <= MaxPairs
    BY PairsCount DEF SessionInv, TabOK
  <1>2. Len(pairs') = Len(pairs) /\ DOMAIN pairs' = DOMAIN pairs
    BY RevokingKeeps
  <1>3. \A p \in DOMAIN pairs : pairs'[p] # "live"
    BY DEF Revoked
  <1> QED
    BY <1>1, <1>2, <1>3 DEF PairsGrow

\* The pair k is exchanged, or none, and a new one is issued.
LEMMA ExchangedPairs ==
  ASSUME ClientInv, SessionInv, Len(pairs) < MaxPairs, NEW P \in Seq(PairState), Len(P) = Len(pairs),
         \A p \in DOMAIN pairs : P[p] = "live" => pairs[p] = "live",
         pairs' = Append(P, "live"), fresh' = fresh \cup {Len(pairs) + 1}
  PROVE  PairsGrow /\ Len(pairs') = Len(pairs) + 1 /\ fresh' \subseteq DOMAIN pairs'
  <1>1. Len(pairs) \in Nat /\ DOMAIN pairs = 1 .. Len(pairs) /\ fresh \subseteq DOMAIN pairs
    BY PairsCount DEF SessionInv, TabOK
  <1>2. /\ Len(pairs') = Len(pairs) + 1 /\ DOMAIN pairs' = 1 .. (Len(pairs) + 1)
        /\ \A p \in DOMAIN pairs : pairs'[p] = P[p]
    BY <1>1, OneIssued
  <1>3. MaxPairs \in Nat
    BY ClientAssumption
  <1> QED
    BY <1>1, <1>2, <1>3 DEF PairsGrow

LEMMA TokensKeep ==
  ASSUME ClientInv, SessionInv,
         SetRememberMe \/ RefreshToken \/ Refreshed \/ AnotherTab \/ \E p \in 1..MaxPairs : AccessExpires(p)
  PROVE  SessionInv' /\ PairsGrow /\ page' = page
  <1>1. /\ Len(pairs) \in Nat /\ DOMAIN pairs = 1 .. Len(pairs) /\ pairs \in Seq(PairState)
        /\ TabOK /\ ReqsOK /\ HasTokens(NoAuth)
    BY PairsCount, NobodyHasTokens DEF SessionInv
  <1>2. /\ auth \in [user : BOOLEAN, pair : Nat] /\ kept \in [{"local", "session"} -> [user : BOOLEAN, pair : Nat]]
        /\ refresh \in [st : {"no", "asked", "granted", "refused"}, pair : Nat, new : Nat]
    BY DEF ClientInv
  <1>3. CASE SetRememberMe
    <2>1. /\ UNCHANGED <<pairs, fresh, auth, known, reqs, refresh, page>> /\ Act
          /\ remember' = ~remember /\ kept' = Kept(auth, ~remember)
      BY <1>3 DEF SetRememberMe
    <2>2. PairsGrow /\ ReqsOK' /\ acts' \in 0 .. MaxActs
      BY <1>1, <2>1, PairsStay, RequestsRest, ActIsCounted
    <2>3. HasTokens(kept'["local"]) /\ HasTokens(kept'["session"])
      BY <1>1, <2>1, KeptTokens DEF TabOK
    <2>4. TabOK'
      BY <1>1, <2>1, <2>2, <2>3 DEF TabOK
    <2> QED
      BY <2>1, <2>2, <2>4 DEF SessionInv
  <1>4. CASE RefreshToken
    <2>1. /\ UNCHANGED <<auth, kept, remember, known, reqs, page, acts>>
          /\ refresh.st = "asked" /\ refresh.pair \in DOMAIN pairs
      BY <1>4 DEF RefreshToken, ClientInv
    <2>2. CASE refresh' = [refresh EXCEPT !.st = "refused"] /\ UNCHANGED <<pairs, fresh>>
      <3>1. refresh'.st = "refused" /\ refresh'.pair = refresh.pair /\ refresh'.new = refresh.new
        BY <1>2, <2>2
      <3>2. ReqsOK'
        BY <1>1, <2>1, <2>2, <3>1 DEF ReqsOK, QueueIsServed
      <3>3. TabOK'
        BY <1>1, <2>1, <2>2 DEF TabOK
      <3> QED
        BY <2>1, <2>2, <3>2, <3>3, PairsStay DEF SessionInv
    <2>3. CASE /\ Len(pairs) < MaxPairs /\ pairs[refresh.pair] = "live"
               /\ pairs' = Append([pairs EXCEPT ![refresh.pair] = "spent"], "live")
               /\ fresh' = fresh \cup {Len(pairs')}
               /\ refresh' = [refresh EXCEPT !.st = "granted", !.new = Len(pairs')]
      <3>1. PICK k \in DOMAIN pairs : k = refresh.pair
        BY <2>1
      <3>2. PICK P : P = [pairs EXCEPT ![k] = "spent"]
        OBVIOUS
      <3>3. "spent" \in PairState
        BY DEF PairState
      <3>4. /\ P \in Seq(PairState) /\ Len(P) = Len(pairs) /\ P[k] = "spent"
            /\ \A p \in DOMAIN pairs : p # k => P[p] = pairs[p]
        BY <1>1, <3>2, <3>3, OneWritten
      <3>5. pairs' = Append(P, "live") /\ Len(pairs') = Len(pairs) + 1
        BY <2>3, <3>1, <3>2, <3>4, OneIssued
      <3>6. \A p \in DOMAIN pairs : P[p] = "live" => pairs[p] = "live"
        BY <3>4
      <3>7. PairsGrow /\ fresh' \subseteq DOMAIN pairs'
        BY <2>3, <3>4, <3>5, <3>6, ExchangedPairs
      <3>8. PICK n \in Nat : n = Len(pairs) + 1
        BY <1>1
      <3>9. refresh'.st = "granted" /\ refresh'.pair = refresh.pair /\ refresh'.new = n
        BY <1>2, <2>3, <3>5, <3>8
      <3>10. ReqsOK'
        <4>1. refresh'.pair <= n /\ refresh'.new <= n
          BY <1>1, <1>2, <3>8, <3>9 DEF ReqsOK
        <4>2. \A r \in Requests : reqs[r].pair <= n
          BY <1>1, <3>8 DEF ReqsOK, ReqSet
        <4> QED
          BY <1>1, <2>1, <3>5, <3>8, <3>9, <4>1, <4>2 DEF ReqsOK, QueueIsServed
      <3>11. TabOK'
        BY <1>1, <2>1, <3>7 DEF TabOK, PairsGrow
      <3> QED
        BY <2>1, <3>7, <3>10, <3>11 DEF SessionInv
    <2> QED
      BY <1>4, <2>2, <2>3 DEF RefreshToken
  <1>5. CASE Refreshed
    <2>1. /\ UNCHANGED <<pairs, fresh, remember, known, page, acts>> /\ refresh' = NoRefresh
          /\ reqs' = [r \in Requests |-> Resent(r, refresh.new)]
          /\ Sets([auth EXCEPT !.pair = refresh.new]) /\ refresh.new \in DOMAIN pairs
      BY <1>5 DEF Refreshed, SetTokens, ClientInv
    <2>2. PICK a : a = [auth EXCEPT !.pair = refresh.new]
      OBVIOUS
    <2>3. HasTokens(a)
      BY <1>1, <1>2, <2>1, <2>2 DEF HasTokens
    <2>4. HasTokens(auth') /\ HasTokens(kept'["local"]) /\ HasTokens(kept'["session"])
      BY <2>1, <2>2, <2>3, KeptTokens DEF Sets
    <2>5. TabOK'
      BY <1>1, <2>1, <2>4 DEF TabOK
    <2>6. ASSUME NEW r \in Requests
          PROVE  /\ reqs'[r] \in ReqSet /\ reqs'[r].pair <= Len(pairs)
                 /\ reqs'[r].st \notin {"queued", "waiting"}
      <3>1. PICK n \in Nat : n = refresh.new /\ n <= Len(pairs)
        BY <1>1, <2>1
      <3>2. PICK old \in ReqSet : old = reqs[r] /\ old.pair <= Len(pairs)
        BY <1>1 DEF ReqsOK
      <3>3. reqs'[r] = IF old.st \in {"queued", "waiting"} THEN [old EXCEPT !.st = "sent", !.pair = n] ELSE old
        BY <2>1, <3>1, <3>2 DEF Resent
      <3>4. PICK new : new = [old EXCEPT !.st = "sent", !.pair = n]
        OBVIOUS
      <3>5. new \in ReqSet /\ new.st = "sent" /\ new.pair = n
        BY <3>1, <3>2, <3>4 DEF ReqSet
      <3> QED
        BY <3>1, <3>2, <3>3, <3>4, <3>5
    <2>7. NoRefresh.pair = 0 /\ NoRefresh.new = 0
      BY DEF NoRefresh
    <2>8. reqs' \in [Requests -> ReqSet] /\ QueueIsServed'
      BY <2>1, <2>6 DEF QueueIsServed
    <2>9. ReqsOK'
      BY <1>1, <2>1, <2>6, <2>7, <2>8 DEF ReqsOK
    <2> QED
      BY <2>1, <2>5, <2>9, PairsStay DEF SessionInv
  <1>6. CASE AnotherTab
    <2>1. /\ UNCHANGED <<auth, remember, known, reqs, refresh, page>> /\ Act
          /\ kept["local"].pair \in DOMAIN pairs
      BY <1>1, <1>6 DEF AnotherTab, ClientInv
    <2>2. acts' \in 0 .. MaxActs
      BY <2>1, ActIsCounted
    <2>3. CASE kept' = [kept EXCEPT !["local"] = NoAuth] /\ UNCHANGED <<pairs, fresh>>
      <3>1. kept'["local"] = NoAuth /\ kept'["session"] = kept["session"]
        BY <1>2, <2>3
      <3>2. PairsGrow /\ ReqsOK'
        BY <1>1, <2>1, <2>3, PairsStay, RequestsRest
      <3>3. TabOK'
        BY <1>1, <2>1, <2>2, <2>3, <3>1 DEF TabOK
      <3> QED
        BY <2>1, <3>2, <3>3 DEF SessionInv
    <2>4. CASE /\ Len(pairs) < MaxPairs
               /\ pairs' = Append([pairs EXCEPT ![kept["local"].pair] = "elsewhere"], "live")
               /\ fresh' = fresh \cup {Len(pairs')}
               /\ kept' = [kept EXCEPT !["local"].pair = Len(pairs')]
      <3>1. PICK k \in DOMAIN pairs : k = kept["local"].pair
        BY <2>1
      <3>2. PICK P : P = [pairs EXCEPT ![k] = "elsewhere"]
        OBVIOUS
      <3>3. "elsewhere" \in PairState
        BY DEF PairState
      <3>4. /\ P \in Seq(PairState) /\ Len(P) = Len(pairs) /\ P[k] = "elsewhere"
            /\ \A p \in DOMAIN pairs : p # k => P[p] = pairs[p]
        BY <1>1, <3>2, <3>3, OneWritten
      <3>5. pairs' = Append(P, "live") /\ Len(pairs') = Len(pairs) + 1
        BY <2>4, <3>1, <3>2, <3>4, OneIssued
      <3>6. \A p \in DOMAIN pairs : P[p] = "live" => pairs[p] = "live"
        BY <3>4
      <3>7. PairsGrow /\ fresh' \subseteq DOMAIN pairs'
        BY <2>4, <3>4, <3>5, <3>6, ExchangedPairs
      <3>8. ReqsOK'
        BY <1>1, <2>1, <3>5, <3>7, RequestsRest
      <3>9. kept'["local"].pair = Len(pairs) + 1 /\ kept'["session"] = kept["session"]
        BY <1>2, <2>4, <3>5
      <3>10. HasTokens(kept'["local"])
        BY <1>1, <3>9 DEF HasTokens
      <3>11. TabOK'
        BY <1>1, <2>1, <2>2, <3>7, <3>9, <3>10 DEF TabOK, PairsGrow
      <3> QED
        BY <2>1, <3>7, <3>8, <3>11 DEF SessionInv
    <2> QED
      BY <1>6, <2>3, <2>4 DEF AnotherTab
  <1>7. ASSUME NEW p, AccessExpires(p) PROVE SessionInv' /\ PairsGrow /\ page' = page
    <2>1. UNCHANGED <<pairs, auth, kept, remember, known, reqs, refresh, page>> /\ Act /\ fresh' \subseteq fresh
      BY <1>7 DEF AccessExpires
    <2>2. PairsGrow /\ ReqsOK' /\ acts' \in 0 .. MaxActs
      BY <1>1, <2>1, PairsStay, RequestsRest, ActIsCounted
    <2>3. TabOK'
      BY <1>1, <2>1, <2>2 DEF TabOK
    <2> QED
      BY <2>1, <2>2, <2>3 DEF SessionInv
  <1> QED
    BY <1>3, <1>4, <1>5, <1>6, <1>7

\* The tab is loaded, with what the storage has.
LEMMA TabLoads ==
  ASSUME ClientInv, SessionInv, NEW p \in PageSet \cup {"home"}, NEW a, HasTokens(a), Loaded(p, a),
         pairs' = Forgotten, UNCHANGED <<fresh, remember, known>>,
         HasTokens(kept'["local"]), HasTokens(kept'["session"]), acts' \in 0 .. MaxActs
  PROVE  SessionInv' /\ PairsGrow
  <1>1. PairsGrow /\ Len(pairs') = Len(pairs) /\ DOMAIN pairs' = DOMAIN pairs /\ Len(pairs) \in Nat
    BY ForgottenPairs, PairsCount
  <1>2. ReqsOK'
    BY <1>1, LoadedIsIdle DEF Loaded
  <1>3. page' \in PageSet
    BY RoutedIsPage DEF Loaded, Shows
  <1>4. TabOK'
    BY <1>1, <1>3 DEF SessionInv, TabOK, Loaded
  <1> QED
    BY <1>1, <1>2, <1>4 DEF SessionInv

LEMMA LoadingSession ==
  ASSUME ClientInv, SessionInv,
         \/ (\E r \in Requests : NoToken(r)) \/ RefreshFails \/ ReloadTab
         \/ \E m \in DOMAIN mails : mails[m].kind \in {"verify", "reset"} /\ OpenMail(m)
  PROVE  SessionInv' /\ PairsGrow
  <1>1. /\ HasTokens(NoAuth) /\ StorageOf(remember) \in {"local", "session"}
        /\ HasTokens(kept["local"]) /\ HasTokens(kept["session"])
        /\ kept \in [{"local", "session"} -> [user : BOOLEAN, pair : Nat]]
    BY NobodyHasTokens DEF StorageOf, SessionInv, TabOK, ClientInv
  <1>2. CASE (\E r \in Requests : NoToken(r)) \/ RefreshFails
    <2>1. /\ pairs' = Forgotten /\ acts' = acts /\ ToLogin
      BY <1>2 DEF NoToken, RefreshFails, Forgotten
    <2>2. HasTokens(kept'["local"]) /\ HasTokens(kept'["session"])
      BY <1>1, <2>1, KeptTokens DEF ToLogin
    <2>3. "login" \in PageSet
      BY DEF PageSet, OnlySignedOut
    <2>4. acts' \in 0 .. MaxActs
      BY <2>1, ActIsCounted
    <2> QED
      BY <1>1, <2>1, <2>2, <2>3, <2>4, TabLoads DEF ToLogin
  <1>3. CASE ReloadTab
    <2>1. /\ pairs' = Forgotten /\ Act /\ UNCHANGED <<fresh, remember, known>>
          /\ kept' = kept \/ kept' = [kept EXCEPT !["session"] = NoAuth]
          /\ Loaded(IF page = "landing" THEN "home" ELSE page, kept'[StorageOf(remember)])
      BY <1>3 DEF ReloadTab
    <2>2. kept'["local"] = kept["local"] /\ kept'["session"] \in {kept["session"], NoAuth}
      BY <1>1, <2>1
    <2>3. /\ HasTokens(kept'["local"]) /\ HasTokens(kept'["session"])
          /\ HasTokens(kept'[StorageOf(remember)])
      BY <1>1, <2>2
    <2>4. PICK p \in PageSet \cup {"home"} : p = IF page = "landing" THEN "home" ELSE page
      BY DEF SessionInv, TabOK
    <2>5. acts' \in 0 .. MaxActs
      BY <2>1, ActIsCounted
    <2> QED
      BY <2>1, <2>3, <2>4, <2>5, TabLoads
  <1>4. CASE \E m \in DOMAIN mails : mails[m].kind \in {"verify", "reset"} /\ OpenMail(m)
    <2>1. PICK m \in DOMAIN mails : mails[m].kind \in {"verify", "reset"} /\ OpenMail(m)
      BY <1>4
    <2>2. /\ pairs' = Forgotten /\ Act /\ UNCHANGED <<fresh, kept, remember, known>>
          /\ Loaded(mails[m].kind, kept[StorageOf(remember)])
      BY <2>1 DEF OpenMail
    <2>3. mails[m].kind \in PageSet
      BY <2>1 DEF PageSet, OpenPages
    <2>4. acts' \in 0 .. MaxActs
      BY <2>2, ActIsCounted
    <2>5. HasTokens(kept[StorageOf(remember)]) /\ HasTokens(kept'["local"]) /\ HasTokens(kept'["session"])
      BY <1>1, <2>2
    <2> QED
      BY <2>2, <2>3, <2>4, <2>5, TabLoads
  <1> QED
    BY <1>2, <1>3, <1>4

LEMMA SignOutSession == ClientInv /\ SessionInv /\ SignOut => SessionInv' /\ PairsGrow
  <1> SUFFICES ASSUME ClientInv, SessionInv, SignOut PROVE SessionInv' /\ PairsGrow
    OBVIOUS
  <1>1. /\ Act /\ Sets(NoAuth) /\ UNCHANGED <<pairs, fresh, remember, known, reqs, refresh>> /\ Shows(page)
    BY DEF SignOut
  <1>2. PairsGrow /\ ReqsOK' /\ acts' \in 0 .. MaxActs
    BY <1>1, PairsStay, PairsCount, RequestsRest, ActIsCounted
  <1>3. page' \in PageSet
    BY <1>1, RoutedIsPage DEF Shows, SessionInv, TabOK
  <1>4. HasTokens(auth') /\ HasTokens(kept'["local"]) /\ HasTokens(kept'["session"])
    BY <1>1, NobodyHasTokens, KeptTokens DEF Sets
  <1>5. TabOK'
    BY <1>1, <1>2, <1>3, <1>4 DEF SessionInv, TabOK
  <1> QED
    BY <1>2, <1>5 DEF SessionInv

LEMMA LoginSession == ClientInv /\ SessionInv /\ LoggedIn => SessionInv' /\ PairsGrow
  <1> SUFFICES ASSUME ClientInv, SessionInv, LoggedIn PROVE SessionInv' /\ PairsGrow
    OBVIOUS
  <1>1. /\ Len(pairs) < MaxPairs /\ pairs' = Append(pairs, "live") /\ fresh' = fresh \cup {Len(pairs) + 1}
        /\ Sets([user |-> TRUE, pair |-> Len(pairs')]) /\ known' = TRUE
        /\ UNCHANGED <<remember, reqs, refresh, acts>> /\ Shows("home")
    BY DEF LoggedIn, Issue, SignIn
  <1>2. pairs \in Seq(PairState) /\ Len(pairs) \in Nat
    BY PairsCount
  <1>3. PairsGrow /\ Len(pairs') = Len(pairs) + 1 /\ fresh' \subseteq DOMAIN pairs'
    BY <1>1, <1>2, ExchangedPairs
  <1>4. ReqsOK'
    BY <1>1, <1>2, <1>3, RequestsRest
  <1>5. page' \in PageSet
    BY <1>1, RoutedIsPage DEF Shows
  <1>6. HasTokens([user |-> TRUE, pair |-> Len(pairs')])
    BY <1>2, <1>3 DEF HasTokens
  <1>7. HasTokens(auth') /\ HasTokens(kept'["local"]) /\ HasTokens(kept'["session"])
    BY <1>1, <1>6, KeptTokens DEF Sets
  <1>8. TabOK'
    BY <1>1, <1>3, <1>5, <1>7 DEF SessionInv, TabOK, PairsGrow
  <1> QED
    BY <1>3, <1>4, <1>8 DEF SessionInv

\* The server revokes the tokens.
LEMMA ResetSession == ClientInv /\ SessionInv /\ (PasswordReset \/ AccountDeleted) => SessionInv' /\ PairsGrow
  <1> SUFFICES ASSUME ClientInv, SessionInv, PasswordReset \/ AccountDeleted PROVE SessionInv' /\ PairsGrow
    OBVIOUS
  <1>1. CASE PasswordReset
    <2>1. /\ UNCHANGED <<fresh, auth, kept, remember, known, reqs, refresh, page, acts>>
          /\ pairs' = Revoked \/ pairs' = pairs
      BY <1>1 DEF PasswordReset, RevokeTokens
    <2>2. PairsGrow /\ Len(pairs') = Len(pairs) /\ DOMAIN pairs' = DOMAIN pairs /\ Len(pairs) \in Nat
      BY <2>1, RevokedPairs, PairsStay, PairsCount
    <2>3. ReqsOK'
      BY <2>1, <2>2, RequestsRest
    <2>4. TabOK'
      BY <2>1, <2>2 DEF SessionInv, TabOK
    <2> QED
      BY <2>2, <2>3, <2>4 DEF SessionInv
  <1>2. CASE AccountDeleted
    <2>1. CASE Alike
      <3>1. /\ UNCHANGED <<pairs, fresh, auth, kept, remember, known, reqs, refresh>>
            /\ page' \in PageSet /\ acts' \in 0 .. MaxActs
        BY <2>1 DEF Alike, SessionInv, TabOK
      <3> QED
        BY <3>1, SessionRests
    <2>2. CASE /\ pairs' = Revoked /\ fresh' = {} /\ Sets(NoAuth)
               /\ UNCHANGED <<remember, known, reqs, refresh, acts>> /\ Shows(page)
      <3>1. PairsGrow /\ Len(pairs') = Len(pairs) /\ Len(pairs) \in Nat
        BY <2>2, RevokedPairs, PairsCount
      <3>2. ReqsOK'
        BY <2>2, <3>1, RequestsRest
      <3>3. page' \in PageSet
        BY <2>2, RoutedIsPage DEF Shows, SessionInv, TabOK
      <3>4. HasTokens(auth') /\ HasTokens(kept'["local"]) /\ HasTokens(kept'["session"])
        BY <2>2, NobodyHasTokens, KeptTokens DEF Sets
      <3>5. TabOK'
        BY <2>2, <3>1, <3>3, <3>4 DEF SessionInv, TabOK
      <3> QED
        BY <3>1, <3>2, <3>5 DEF SessionInv
    <2> QED
      BY <1>2, <2>1, <2>2, Zenon DEF AccountDeleted
  <1> QED
    BY <1>1, <1>2

\* Pages come and go, users act, and the server answers: the tokens stay.
LEMMA PagesSession ==
  ASSUME ClientInv, SessionInv,
         \/ UNCHANGED <<authVars, accountVars>>
         \/ \E p \in {"home", "app", "settings", "login", "signup", "reset"} : Enter(p)
         \/ \E m \in 1..MaxMails : MailExpires(m)
         \/ \E slot \in Slots : CallFails(slot)
         \/ SubmitSignup \/ SubmitLogin \/ SubmitRequest \/ SubmitConfirm \/ SubmitDelete
         \/ SignedUp \/ NotLoggedIn \/ AskMailAgain \/ MailedAgain \/ VerifiedPage
         \/ ResetRequested \/ TimerFires \/ OpenDeleteModal \/ CloseAccountModal
  PROVE  SessionInv' /\ PairsGrow
  <1>1. UNCHANGED <<pairs, fresh, auth, kept, remember, known, reqs, refresh>>
    <2>1. CASE \/ SubmitSignup \/ SubmitLogin \/ SubmitRequest \/ SubmitConfirm \/ SubmitDelete
               \/ AskMailAgain
      BY <2>1 DEF SubmitSignup, SubmitLogin, SubmitRequest, SubmitConfirm, SubmitDelete, Run, Starts,
                  AskMailAgain
    <2>2. CASE \/ SignedUp \/ NotLoggedIn \/ MailedAgain \/ VerifiedPage \/ ResetRequested
               \/ \E slot \in Slots : CallFails(slot)
      BY <2>2 DEF SignedUp, NotLoggedIn, MailedAgain, VerifiedPage, ResetRequested, CallFails, Alike
    <2>3. CASE \/ UNCHANGED <<authVars, accountVars>> \/ TimerFires
               \/ \E p \in {"home", "app", "settings", "login", "signup", "reset"} : Enter(p)
               \/ \E m \in 1..MaxMails : MailExpires(m)
               \/ OpenDeleteModal \/ CloseAccountModal
      BY <2>3 DEF authVars, TimerFires, Enter, GoTo, MailExpires, OpenDeleteModal, CloseAccountModal,
                  Dialog
    <2> QED
      BY <2>1, <2>2, <2>3
  <1>2. Act \/ acts' = acts
    <2>1. CASE \/ SubmitSignup \/ SubmitLogin \/ SubmitRequest \/ SubmitConfirm \/ SubmitDelete
               \/ AskMailAgain
      BY <2>1 DEF SubmitSignup, SubmitLogin, SubmitRequest, SubmitConfirm, SubmitDelete, Run, Starts,
                  AskMailAgain
    <2>2. CASE \/ SignedUp \/ NotLoggedIn \/ MailedAgain \/ VerifiedPage \/ ResetRequested
               \/ \E slot \in Slots : CallFails(slot)
      BY <2>2 DEF SignedUp, NotLoggedIn, MailedAgain, VerifiedPage, ResetRequested, CallFails, Alike
    <2>3. CASE \/ UNCHANGED <<authVars, accountVars>> \/ TimerFires
               \/ \E p \in {"home", "app", "settings", "login", "signup", "reset"} : Enter(p)
               \/ \E m \in 1..MaxMails : MailExpires(m)
               \/ OpenDeleteModal \/ CloseAccountModal
      BY <2>3 DEF authVars, TimerFires, Enter, GoTo, MailExpires, OpenDeleteModal, CloseAccountModal,
                  Dialog
    <2> QED
      BY <2>1, <2>2, <2>3
  <1>3. page' \in PageSet
    <2>1. page \in PageSet
      BY DEF SessionInv, TabOK
    <2>2. CASE \E p \in {"home", "app", "settings", "login", "signup", "reset"} : Enter(p)
      <3>1. PICK p \in PageSet \cup {"home"} : Shows(p)
        BY <2>2 DEF Enter, GoTo, PageSet, Protected, OnlySignedOut, OpenPages
      <3> QED
        BY <3>1, RoutedIsPage DEF Shows
    <2>3. CASE TimerFires
      <3>1. "login" \in PageSet /\ Shows("login")
        BY <2>3 DEF TimerFires, PageSet, OnlySignedOut
      <3> QED
        BY <3>1, RoutedIsPage DEF Shows
    <2>4. CASE \/ SubmitSignup \/ SubmitLogin \/ SubmitRequest \/ SubmitConfirm \/ SubmitDelete
               \/ AskMailAgain
      BY <2>1, <2>4 DEF SubmitSignup, SubmitLogin, SubmitRequest, SubmitConfirm, SubmitDelete, Run,
                        Starts, AskMailAgain
    <2>5. CASE \/ SignedUp \/ NotLoggedIn \/ MailedAgain \/ VerifiedPage \/ ResetRequested
               \/ \E slot \in Slots : CallFails(slot)
      BY <2>1, <2>5 DEF SignedUp, NotLoggedIn, MailedAgain, VerifiedPage, ResetRequested, CallFails, Alike
    <2>6. CASE \/ UNCHANGED <<authVars, accountVars>> \/ (\E m \in 1..MaxMails : MailExpires(m))
               \/ OpenDeleteModal \/ CloseAccountModal
      BY <2>1, <2>6 DEF authVars, MailExpires, OpenDeleteModal, CloseAccountModal, Dialog
    <2> QED
      BY <2>2, <2>3, <2>4, <2>5, <2>6
  <1>4. acts' \in 0 .. MaxActs
    BY <1>2, ActIsCounted
  <1> QED
    BY <1>1, <1>3, <1>4, SessionRests

LEMMA SessionNext ==
  ASSUME ClientInv, SessionInv, \A m \in DOMAIN mails : mails[m].kind \in {"verify", "reset"},
         AccountNext \/ UNCHANGED <<authVars, accountVars>>
  PROVE  SessionInv' /\ PairsGrow
  <1>1. CASE \/ UNCHANGED <<authVars, accountVars>>
             \/ \E p \in {"home", "app", "settings", "login", "signup", "reset"} : Enter(p)
             \/ \E m \in 1..MaxMails : MailExpires(m)
             \/ \E slot \in Slots : CallFails(slot)
             \/ SubmitSignup \/ SubmitLogin \/ SubmitRequest \/ SubmitConfirm \/ SubmitDelete
             \/ SignedUp \/ NotLoggedIn \/ AskMailAgain \/ MailedAgain \/ VerifiedPage
             \/ ResetRequested \/ TimerFires \/ OpenDeleteModal \/ CloseAccountModal
    BY <1>1, PagesSession
  <1>2. CASE Client
    BY <1>2, RequestsKeep, TokensKeep, SignOutSession, LoadingSession, Zenon DEF Client
  <1>3. CASE \E m \in 1..MaxMails : OpenMail(m)
    <2>1. PICK m : OpenMail(m) /\ m \in DOMAIN mails
      BY <1>3 DEF OpenMail
    <2> QED
      BY <2>1, LoadingSession
  <1> QED
    BY <1>1, <1>2, <1>3, LoginSession, ResetSession DEF AccountNext

-----------------------------------------------------------------------------
\* The links in the mails, and who is signed in after a new password.

MailSet == [kind : {"verify", "reset"}, st : {"live", "used", "gone"}]

MailsOK ==
    /\ acct \in {"none", "unverified", "verified"}
    /\ mails \in Seq(MailSet) /\ Len(mails) <= MaxMails
    /\ acct = "none" => Live("verify") = {}
    /\ OneLinkVerifies

RevokedOK == resets \in 0 .. Len(pairs) /\ ResetRevokes

\* A link keeps its kind, and one that was used stays so.
MailsGrow ==
    /\ Len(mails) <= Len(mails')
    /\ \A m \in DOMAIN mails : /\ mails'[m].kind = mails[m].kind
                               /\ mails[m].st = "used" => mails'[m].st = "used"

\* What W, for the mails, makes of them: a link may end.
Spoils(W) ==
    /\ W \in Seq(MailSet) /\ Len(W) = Len(mails)
    /\ \A m \in DOMAIN mails : /\ W[m].kind = mails[m].kind
                               /\ mails[m].st = "used" => W[m].st = "used"
                               /\ W[m].st = "live" => mails[m].st = "live"

Verifying(m) == m.kind = "verify" /\ m.st = "live"

LEMMA MailsCount == MailsOK => Len(mails) \in Nat /\ DOMAIN mails = 1 .. Len(mails) /\ mails \in Seq(MailSet)
  BY DEF MailsOK

LEMMA LiveLinks ==
  ASSUME NEW m
  PROVE  m \in Live("verify") <=> m \in DOMAIN mails /\ Verifying(mails[m])
  BY DEF Live, Verifying

LEMMA UsedLink ==
  ASSUME NEW m \in MailSet
  PROVE  m = [kind |-> "verify", st |-> "used"] <=> m.kind = "verify" /\ m.st = "used"
  BY DEF MailSet

LEMMA MailsSpoil ==
  ASSUME MailsOK, Spoils(mails'), acct' \in {"none", "unverified", "verified"},
         acct' = "none" => acct = "none" \/ Live("verify")' = {},
         Smtp /\ acct' = "verified" =>
             \/ acct = "verified"
             \/ \E m \in DOMAIN mails : mails'[m].kind = "verify" /\ mails'[m].st = "used"
  PROVE  MailsOK' /\ MailsGrow
  <1>1. /\ Len(mails) \in Nat /\ DOMAIN mails = 1 .. Len(mails) /\ mails \in Seq(MailSet)
        /\ mails' \in Seq(MailSet) /\ Len(mails') = Len(mails) /\ DOMAIN mails' = DOMAIN mails
    BY MailsCount DEF Spoils
  <1>2. \A m \in DOMAIN mails : Verifying(mails'[m]) => Verifying(mails[m])
    BY DEF Verifying, Spoils
  <1>3. \A m : m \in Live("verify")' => m \in Live("verify")
    <2>1. \A m : m \in Live("verify")' => m \in DOMAIN mails' /\ Verifying(mails'[m])
      BY DEF Live, Verifying
    <2> QED
      BY <1>1, <1>2, <2>1, LiveLinks
  <1>4. \A m, n \in Live("verify")' : m = n
    BY <1>3 DEF MailsOK, OneLinkVerifies
  <1>5. ASSUME Smtp, acct' = "verified"
        PROVE  \E m \in DOMAIN mails' : mails'[m] = [kind |-> "verify", st |-> "used"]
    <2>1. PICK m \in DOMAIN mails : mails'[m].kind = "verify" /\ mails'[m].st = "used"
      <3>1. CASE acct = "verified"
        <4>1. PICK m \in DOMAIN mails : mails[m] = [kind |-> "verify", st |-> "used"]
          BY <1>5, <3>1 DEF MailsOK, OneLinkVerifies
        <4>2. mails[m].kind = "verify" /\ mails[m].st = "used"
          BY <4>1
        <4>3. mails'[m].kind = "verify" /\ mails'[m].st = "used"
          BY <4>2 DEF Spoils
        <4> QED
          BY <4>3
      <3> QED
        BY <1>5, <3>1
    <2>2. mails'[m] \in MailSet
      BY <1>1
    <2> QED
      BY <1>1, <2>1, <2>2, UsedLink
  <1>6. OneLinkVerifies'
    BY <1>4, <1>5 DEF OneLinkVerifies
  <1>7. acct' = "none" => Live("verify")' = {}
    BY <1>3 DEF MailsOK
  <1>8. Len(mails') <= MaxMails
    BY <1>1 DEF MailsOK
  <1>9. MailsGrow
    BY <1>1 DEF MailsGrow, Spoils
  <1> QED
    BY <1>1, <1>6, <1>7, <1>8, <1>9 DEF MailsOK

LEMMA MailsStay == MailsOK /\ UNCHANGED <<acct, mails>> => MailsOK' /\ MailsGrow
  <1> SUFFICES ASSUME MailsOK, UNCHANGED <<acct, mails>> PROVE MailsOK' /\ MailsGrow
    OBVIOUS
  <1>1. MailsGrow
    BY MailsCount DEF MailsGrow
  <1>2. MailsOK'
    BY DEF MailsOK, Live, OneLinkVerifies
  <1> QED
    BY <1>1, <1>2

\* A mail is sent, when links have ended.
LEMMA MailIsSent ==
  ASSUME MailsOK, Len(mails) < MaxMails, NEW W, Spoils(W), NEW kind \in {"verify", "reset"},
         mails' = Mailed(W, kind), acct' \in {"unverified", "verified"},
         acct' = "verified" => acct = "verified",
         kind = "verify" => \A m \in DOMAIN W : ~Verifying(W[m])
  PROVE  MailsOK' /\ MailsGrow
  <1>1. /\ Len(mails) \in Nat /\ DOMAIN mails = 1 .. Len(mails) /\ mails \in Seq(MailSet)
        /\ W \in Seq(MailSet) /\ Len(W) = Len(mails) /\ DOMAIN W = DOMAIN mails
        /\ MaxMails \in Nat
    BY MailsCount, AccountAssumption DEF Spoils
  <1>2. PICK x : x = [kind |-> kind, st |-> "live"]
    OBVIOUS
  <1>3. x \in MailSet /\ x.kind = kind /\ x.st = "live"
    BY <1>2 DEF MailSet
  <1>4. /\ mails' \in Seq(MailSet) /\ Len(mails') = Len(mails) + 1 /\ DOMAIN mails' = 1 .. (Len(mails) + 1)
        /\ mails'[Len(mails) + 1] = x /\ \A m \in DOMAIN mails : mails'[m] = W[m]
    <2>1. mails' = Append(W, x)
      BY <1>2 DEF Mailed
    <2> QED
      BY <1>1, <1>3, <2>1
  <1>5. \A m \in DOMAIN mails : Verifying(W[m]) => Verifying(mails[m])
    BY DEF Verifying, Spoils
  <1>6. \A m : m \in Live("verify")' => m \in DOMAIN mails' /\ Verifying(mails'[m])
    BY DEF Live, Verifying
  <1>7. \A m, n \in Live("verify")' : m = n
    <2>1. CASE kind = "verify"
      <3>1. \A m : m \in Live("verify")' => m = Len(mails) + 1
        BY <1>1, <1>4, <1>6, <2>1
      <3> QED
        BY <3>1
    <2>2. CASE kind # "verify"
      <3>1. ~Verifying(x)
        BY <1>3, <2>2 DEF Verifying
      <3>2. \A m : m \in Live("verify")' => m \in DOMAIN mails /\ Verifying(mails[m])
        BY <1>1, <1>4, <1>5, <1>6, <3>1
      <3>3. \A m : m \in Live("verify")' => m \in Live("verify")
        BY <3>2, LiveLinks
      <3> QED
        BY <3>3 DEF MailsOK, OneLinkVerifies
    <2> QED
      BY <2>1, <2>2
  <1>8. ASSUME Smtp, acct' = "verified"
        PROVE  \E m \in DOMAIN mails' : mails'[m] = [kind |-> "verify", st |-> "used"]
    <2>1. PICK m \in DOMAIN mails : mails[m] = [kind |-> "verify", st |-> "used"]
      BY <1>8 DEF MailsOK, OneLinkVerifies
    <2>2. mails[m].kind = "verify" /\ mails[m].st = "used"
      BY <2>1
    <2>3. W[m].kind = "verify" /\ W[m].st = "used" /\ W[m] \in MailSet
      BY <1>1, <2>2 DEF Spoils
    <2>4. mails'[m] = [kind |-> "verify", st |-> "used"] /\ m \in DOMAIN mails'
      BY <1>1, <1>4, <2>3, UsedLink
    <2> QED
      BY <2>4
  <1>9. OneLinkVerifies'
    BY <1>7, <1>8 DEF OneLinkVerifies
  <1>10. Len(mails') <= MaxMails
    BY <1>1, <1>4
  <1>11. MailsGrow
    BY <1>1, <1>4 DEF MailsGrow, Spoils
  <1> QED
    BY <1>4, <1>9, <1>10, <1>11 DEF MailsOK

LEMMA WithdrawnSpoils ==
  ASSUME MailsOK, NEW kinds
  PROVE  /\ Spoils(Withdrawn(kinds)) /\ DOMAIN Withdrawn(kinds) = DOMAIN mails
         /\ \A m \in DOMAIN mails : Withdrawn(kinds)[m].kind \in kinds => Withdrawn(kinds)[m].st # "live"
  <1>1. Len(mails) \in Nat /\ DOMAIN mails = 1 .. Len(mails) /\ mails \in Seq(MailSet)
    BY MailsCount
  <1>2. PICK W : W = Withdrawn(kinds)
    OBVIOUS
  <1>3. ASSUME NEW m \in DOMAIN mails
        PROVE  /\ W[m] \in MailSet /\ W[m].kind = mails[m].kind
               /\ mails[m].st = "used" => W[m].st = "used"
               /\ W[m].st = "live" => mails[m].st = "live"
               /\ W[m].kind \in kinds => W[m].st # "live"
    <2>1. PICK x \in MailSet : x = mails[m]
      BY <1>1
    <2>2. PICK y : y = [x EXCEPT !.st = "gone"]
      OBVIOUS
    <2>3. y \in MailSet /\ y.kind = x.kind /\ y.st = "gone"
      BY <2>2 DEF MailSet
    <2>4. W[m] = IF x.kind \in kinds /\ x.st = "live" THEN y ELSE x
      BY <1>2, <2>1, <2>2 DEF Withdrawn
    <2> QED
      BY <2>1, <2>3, <2>4
  <1>4. W = [m \in 1 .. Len(mails) |-> W[m]] /\ DOMAIN W = 1 .. Len(mails)
    BY <1>1, <1>2 DEF Withdrawn
  <1>5. W \in Seq(MailSet) /\ Len(W) = Len(mails)
    BY <1>1, <1>3, <1>4
  <1> QED
    BY <1>1, <1>2, <1>3, <1>4, <1>5 DEF Spoils

\* One link is used, or ends.
LEMMA OneLinkSpoils ==
  ASSUME MailsOK, NEW m \in DOMAIN mails, mails[m].st = "live", NEW st \in {"used", "gone"},
         NEW W, W = [mails EXCEPT ![m].st = st]
  PROVE  Spoils(W) /\ W[m].kind = mails[m].kind /\ W[m].st = st
  <1>1. Len(mails) \in Nat /\ DOMAIN mails = 1 .. Len(mails) /\ mails \in Seq(MailSet)
    BY MailsCount
  <1>2. PICK x \in MailSet : x = mails[m]
    BY <1>1
  <1>3. PICK y : y = [x EXCEPT !.st = st]
    OBVIOUS
  <1>4. y \in MailSet /\ y.kind = x.kind /\ y.st = st
    BY <1>3 DEF MailSet
  <1>5. W = [mails EXCEPT ![m] = y]
    BY <1>2, <1>3
  <1>6. /\ W \in Seq(MailSet) /\ Len(W) = Len(mails) /\ DOMAIN W = DOMAIN mails /\ W[m] = y
        /\ \A n \in DOMAIN mails : n # m => W[n] = mails[n]
    BY <1>1, <1>4, <1>5, OneWritten
  <1> QED
    BY <1>2, <1>4, <1>6 DEF Spoils

\* The links the server sends, and the pages that are verified by them.
VerifyCallOK ==
    call["main"].kind = "verify" =>
        call["main"].mail \in DOMAIN mails /\ mails[call["main"].mail].kind = "verify"

LEMMA SignedUpMails == MailsOK /\ SignedUp => MailsOK' /\ MailsGrow
  <1> SUFFICES ASSUME MailsOK, SignedUp PROVE MailsOK' /\ MailsGrow
    OBVIOUS
  <1>1. CASE UNCHANGED <<acct, mails>>
    BY <1>1, MailsStay
  <1>2. CASE /\ MaySignUp /\ Len(mails) < MaxMails
             /\ acct' = IF Smtp THEN "unverified" ELSE "verified"
             /\ mails' = IF Smtp THEN Mailed(Withdrawn({"reset"}), "verify") ELSE mails
    <2>1. Live("verify") = {} /\ Smtp \in BOOLEAN
      BY <1>2, AccountAssumption DEF MaySignUp, MailsOK
    <2>2. PICK W : W = Withdrawn({"reset"})
      OBVIOUS
    <2>3. Spoils(W) /\ DOMAIN W = DOMAIN mails
      BY <2>2, WithdrawnSpoils
    <2>4. CASE Smtp
      <3>1. \A m \in DOMAIN W : ~Verifying(W[m])
        BY <2>1, <2>3, LiveLinks DEF Spoils, Verifying
      <3> QED
        BY <1>2, <2>2, <2>3, <2>4, <3>1, MailIsSent
    <2>5. CASE ~Smtp
      <3>1. Spoils(mails)
        BY MailsCount DEF Spoils
      <3>2. mails' = mails /\ acct' = "verified"
        BY <1>2, <2>5
      <3> QED
        BY <2>5, <3>1, <3>2, MailsSpoil
    <2> QED
      BY <2>4, <2>5
  <1> QED
    BY <1>1, <1>2 DEF SignedUp

LEMMA OtherMails ==
  ASSUME MailsOK, VerifyCallOK,
         MailedAgain \/ VerifiedPage \/ ResetRequested \/ PasswordReset \/ (\E m \in 1..MaxMails : MailExpires(m))
         \/ AccountDeleted
  PROVE  MailsOK' /\ MailsGrow
  <1>1. acct \in {"none", "unverified", "verified"} /\ Spoils(mails)
    BY MailsCount DEF MailsOK, Spoils
  <1>2. CASE UNCHANGED <<acct, mails>>
    BY <1>2, MailsStay
  <1>3. CASE MailedAgain
    <2>1. CASE acct = "unverified" /\ Len(mails) < MaxMails /\ mails' = Resends /\ acct' = acct
      <3>1. PICK W : W = Withdrawn({"verify"})
        OBVIOUS
      <3>2. Spoils(W) /\ \A m \in DOMAIN W : ~Verifying(W[m])
        BY <3>1, WithdrawnSpoils DEF Verifying
      <3> QED
        BY <2>1, <3>1, <3>2, MailIsSent DEF Resends
    <2> QED
      BY <1>2, <1>3, <2>1 DEF MailedAgain
  <1>4. CASE VerifiedPage
    <2>1. PICK m \in DOMAIN mails : m = call["main"].mail /\ mails[m].kind = "verify"
      BY <1>4 DEF VerifiedPage, VerifyCallOK
    <2>2. CASE mails[m].st = "live" /\ VerifyLink(m)
      <3>1. PICK W : W = [mails EXCEPT ![m].st = "used"]
        OBVIOUS
      <3>2. Spoils(W) /\ W[m].kind = "verify" /\ W[m].st = "used"
        <4>1. W = [mails EXCEPT ![m].st = "used"] /\ mails[m].st = "live" /\ "used" \in {"used", "gone"}
          BY <2>2, <3>1
        <4>2. Spoils(W) /\ W[m].kind = mails[m].kind /\ W[m].st = "used"
          BY <4>1, OneLinkSpoils, ZenonT(30)
        <4> QED
          BY <2>1, <4>2
      <3>3. mails' = W /\ acct' = "verified"
        BY <2>2, <3>1 DEF VerifyLink
      <3> QED
        BY <2>1, <3>2, <3>3, MailsSpoil
    <2> QED
      BY <1>2, <1>4, <2>1, <2>2, Zenon DEF VerifiedPage
  <1>5. CASE ResetRequested
    <2>1. CASE acct # "none" /\ Len(mails) < MaxMails /\ mails' = Mailed(mails, "reset") /\ acct' = acct
      BY <1>1, <2>1, MailIsSent
    <2> QED
      BY <1>2, <1>5, <2>1 DEF ResetRequested
  <1>6. CASE PasswordReset
    <2>1. PICK m : m = call["main"].mail
      OBVIOUS
    <2>2. CASE m \in Live("reset") /\ mails' = [mails EXCEPT ![m].st = "used"] /\ acct' = acct
      <3>1. m \in DOMAIN mails /\ mails[m].st = "live"
        BY <2>2 DEF Live
      <3>2. Spoils(mails')
        BY <2>2, <3>1, OneLinkSpoils
      <3> QED
        BY <1>1, <2>2, <3>2, MailsSpoil
    <2> QED
      BY <1>2, <1>6, <2>1, <2>2 DEF PasswordReset
  <1>7. CASE \E m \in 1..MaxMails : MailExpires(m)
    <2>1. PICK m \in DOMAIN mails : /\ mails[m].st = "live" /\ acct' = acct
                                    /\ mails' = [mails EXCEPT ![m].st = "gone"]
      BY <1>7 DEF MailExpires
    <2>2. Spoils(mails')
      BY <2>1, OneLinkSpoils
    <2> QED
      BY <1>1, <2>1, <2>2, MailsSpoil
  <1>8. CASE AccountDeleted
    <2>1. CASE acct' = "none" /\ mails' = Withdrawn({"verify", "reset"})
      <3>1. PICK W : W = Withdrawn({"verify", "reset"})
        OBVIOUS
      <3>2. /\ Spoils(W) /\ DOMAIN W = DOMAIN mails
            /\ \A m \in DOMAIN mails : W[m].kind \in {"verify", "reset"} => W[m].st # "live"
        BY <3>1, WithdrawnSpoils
      <3>3. Live("verify")' = {}
        BY <2>1, <3>1, <3>2 DEF Live
      <3> QED
        BY <2>1, <3>1, <3>2, <3>3, MailsSpoil
    <2>2. CASE UNCHANGED server
      BY <1>2, <2>2 DEF server
    <2> QED
      BY <1>8, <2>1, <2>2, Zenon DEF AccountDeleted
  <1> QED
    BY <1>3, <1>4, <1>5, <1>6, <1>7, <1>8

\* The server's rows, when it is not asked to change them.
LEMMA ServerRests ==
  ASSUME \/ UNCHANGED <<authVars, accountVars>> \/ Client
         \/ \E p \in {"home", "app", "settings", "login", "signup", "reset"} : Enter(p)
         \/ \E m \in 1..MaxMails : OpenMail(m)
         \/ \E slot \in Slots : CallFails(slot)
         \/ SubmitSignup \/ SubmitLogin \/ SubmitRequest \/ SubmitConfirm \/ SubmitDelete
         \/ LoggedIn \/ NotLoggedIn \/ AskMailAgain \/ TimerFires
         \/ OpenDeleteModal \/ CloseAccountModal
  PROVE  UNCHANGED <<acct, mails, resets>>
  <1>1. CASE \/ SubmitSignup \/ SubmitLogin \/ SubmitRequest \/ SubmitConfirm \/ SubmitDelete
             \/ AskMailAgain
    BY <1>1 DEF SubmitSignup, SubmitLogin, SubmitRequest, SubmitConfirm, SubmitDelete, Run, Starts,
                AskMailAgain, server
  <1>2. CASE NotLoggedIn \/ LoggedIn \/ \E slot \in Slots : CallFails(slot)
    BY <1>2 DEF NotLoggedIn, LoggedIn, CallFails, server
  <1>3. CASE \/ UNCHANGED <<authVars, accountVars>> \/ TimerFires
             \/ \E p \in {"home", "app", "settings", "login", "signup", "reset"} : Enter(p)
             \/ \E m \in 1..MaxMails : OpenMail(m)
             \/ OpenDeleteModal \/ CloseAccountModal
    BY <1>3 DEF accountVars, TimerFires, Enter, OpenMail, OpenDeleteModal, CloseAccountModal, Dialog, server
  <1>4. CASE Client
    BY <1>4, Zenon DEF Client, accountVars, server
  <1> QED
    BY <1>1, <1>2, <1>3, <1>4

LEMMA MailsNext ==
  ASSUME MailsOK, VerifyCallOK, AccountNext \/ UNCHANGED <<authVars, accountVars>>
  PROVE  MailsOK' /\ MailsGrow
  <1>1. CASE UNCHANGED <<acct, mails>>
    BY <1>1, MailsStay
  <1> QED
    BY <1>1, ServerRests, SignedUpMails, OtherMails DEF AccountNext

\* Who had a pair before a new password never has a valid one again.
LEMMA RevokedNext ==
  ASSUME ClientInv, SessionInv, RevokedOK, PairsGrow, Len(pairs') \in Nat,
         AccountNext \/ UNCHANGED <<authVars, accountVars>>
  PROVE  RevokedOK'
  <1>1. Len(pairs) \in Nat /\ DOMAIN pairs = 1 .. Len(pairs) /\ Len(pairs') \in Nat
    BY PairsCount
  <1>2. CASE resets' = resets
    BY <1>1, <1>2 DEF RevokedOK, ResetRevokes, PairsGrow
  <1>3. CASE pairs' = Revoked /\ resets' = Len(pairs)
    <2>1. Len(pairs') = Len(pairs) /\ \A p \in DOMAIN pairs : pairs'[p] # "live"
      BY <1>3, RevokedPairs
    <2> QED
      BY <1>1, <1>3, <2>1 DEF RevokedOK, ResetRevokes
  <1>4. CASE PasswordReset
    BY <1>2, <1>3, <1>4 DEF PasswordReset, RevokeTokens
  <1>5. CASE SignedUp \/ MailedAgain \/ VerifiedPage \/ ResetRequested \/ \E m \in 1..MaxMails : MailExpires(m)
    BY <1>2, <1>5 DEF SignedUp, MailedAgain, VerifiedPage, ResetRequested, MailExpires
  <1>6. CASE AccountDeleted
    <2>1. resets' = resets
      BY <1>6, Zenon DEF AccountDeleted, server
    <2> QED
      BY <1>2, <2>1
  <1> QED
    BY <1>2, <1>4, <1>5, <1>6, ServerRests DEF AccountNext

-----------------------------------------------------------------------------
\* What a page keeps, and its calls.

EntrySet == [busy : BOOLEAN, error : BOOLEAN, unverified : BOOLEAN, resend : {"idle", "sending", "sent"},
             done : BOOLEAN, status : {"none", "loading", "verified", "already_verified", "error"},
             mail : Nat, modal : BOOLEAN]
CallSet == [kind : {"none", "signup", "login", "verify", "ask", "confirm", "delete", "resend"},
            here : BOOLEAN, mail : Nat]

\* What the page p keeps fits its calls and the links ms.  The page of a link waits for its
\* call without a button that is disabled, and only one page deletes the account.
PageFits(e, main, again, p, ms) ==
    /\ e \in EntrySet /\ main \in CallSet /\ again \in CallSet
    /\ e.mail <= Len(ms) /\ (e.status = "verified" => e.mail \in DOMAIN ms /\ ms[e.mail].st = "used")
    /\ main.kind # "resend" /\ again.kind \in {"none", "resend"}
    /\ main.kind = "verify" =>
           /\ main.mail \in DOMAIN ms /\ ms[main.mail].kind = "verify"
           /\ main.here => e.mail = main.mail /\ ~e.busy
    /\ main.kind = "delete" /\ main.here => p = "settings"
    /\ e.busy => main.here
    /\ e.resend = "sending" => again.here
    /\ e.busy /\ p = "settings" => e.modal

PageOK ==
    /\ call \in [Slots -> CallSet] /\ timer \in BOOLEAN
    /\ PageFits(entry, call["main"], call["resend"], page, mails)

LEMMA NothingYet ==
  /\ NewEntry \in EntrySet /\ NewEntry.mail = 0 /\ NewEntry.status = "none" /\ NewEntry.resend = "idle"
  /\ ~NewEntry.busy
  /\ NoCall \in CallSet /\ NoCall.kind = "none" /\ ~NoCall.here
  BY DEF NewEntry, NoCall, EntrySet, CallSet

LEMMA NewPageFits ==
  ASSUME MailsOK, NEW main \in CallSet, NEW again \in CallSet, ~main.here, ~again.here,
         main.kind # "resend", again.kind \in {"none", "resend"},
         main.kind = "verify" => main.mail \in DOMAIN mails /\ mails[main.mail].kind = "verify",
         NEW p
  PROVE  PageFits(NewEntry, main, again, p, mails)
  <1>1. Len(mails) \in Nat
    BY MailsCount
  <1> QED
    BY <1>1, NothingYet DEF PageFits

LEMMA PageInit == AuthInit /\ AccountInit => MailsOK /\ RevokedOK /\ PageOK
  <1> SUFFICES ASSUME AuthInit, AccountInit PROVE MailsOK /\ RevokedOK /\ PageOK
    OBVIOUS
  <1>1. PICK x : x = [kind |-> "verify", st |-> "used"]
    OBVIOUS
  <1>2. x \in MailSet /\ x.kind = "verify" /\ x.st = "used" /\ 1 \in Nat
    BY <1>1 DEF MailSet
  <1>3. /\ MaxMails \in Nat \ {0} /\ pairs = <<>> /\ resets = 0 /\ timer = FALSE
        /\ entry = NewEntry /\ call = [s \in Slots |-> NoCall]
        /\ (acct = "none" /\ mails = <<>>) \/ (acct = "verified" /\ mails = <<x>>)
    BY <1>1, AccountAssumption DEF AuthInit, AccountInit
  <1>4. Live("verify") = {} /\ mails \in Seq(MailSet)
    <2>1. CASE mails = <<>>
      BY <2>1 DEF Live
    <2>2. CASE mails = <<x>>
      <3>1. \A m \in DOMAIN mails : mails[m] = x
        BY <2>2
      <3> QED
        BY <1>2, <2>2, <3>1 DEF Live
    <2> QED
      BY <1>3, <2>1, <2>2
  <1>5. OneLinkVerifies
    <2>1. acct = "verified" => \E m \in DOMAIN mails : mails[m] = [kind |-> "verify", st |-> "used"]
      BY <1>1, <1>3
    <2> QED
      BY <1>4, <2>1 DEF OneLinkVerifies
  <1>6. RevokedOK
    BY <1>3 DEF RevokedOK, ResetRevokes
  <1>7. Len(mails) <= MaxMails
    <2>1. Len(mails) \in {0, 1}
      BY <1>3
    <2>2. MaxMails \in Nat /\ MaxMails # 0
      BY AccountAssumption
    <2> QED
      BY <2>1, <2>2
  <1>8. MailsOK
    BY <1>3, <1>4, <1>5, <1>7 DEF MailsOK
  <1>9. PageFits(entry, call["main"], call["resend"], page, mails)
    BY <1>3, <1>8, NothingYet, NewPageFits DEF Slots
  <1>10. call \in [Slots -> CallSet]
    BY <1>3, NothingYet
  <1> QED
    BY <1>3, <1>6, <1>8, <1>9, <1>10 DEF PageOK

\* Links that are sent, used or withdrawn change nothing for a page.
LEMMA FitsGrow ==
  ASSUME MailsOK, MailsOK', MailsGrow, NEW e, NEW main, NEW again, NEW p, PageFits(e, main, again, p, mails)
  PROVE  PageFits(e, main, again, p, mails')
  <1>1. /\ Len(mails) \in Nat /\ DOMAIN mails = 1 .. Len(mails)
        /\ Len(mails') \in Nat /\ DOMAIN mails' = 1 .. Len(mails') /\ Len(mails) <= Len(mails')
    BY MailsCount DEF MailsOK, MailsGrow
  <1>2. e.mail \in Nat /\ e.mail <= Len(mails')
    BY <1>1 DEF PageFits, EntrySet
  <1>3. e.status = "verified" => e.mail \in DOMAIN mails' /\ mails'[e.mail].st = "used"
    BY <1>1 DEF PageFits, MailsGrow
  <1>4. main.kind = "verify" => main.mail \in DOMAIN mails' /\ mails'[main.mail].kind = "verify"
    BY <1>1 DEF PageFits, MailsGrow
  <1> QED
    BY <1>2, <1>3, <1>4 DEF PageFits

LEMMA PageMoves ==
  ASSUME MailsOK, MailsOK', MailsGrow, call' \in [Slots -> CallSet], timer' \in BOOLEAN,
         PageFits(entry', call'["main"], call'["resend"], page', mails)
  PROVE  PageOK'
  <1>1. PageFits(entry', call'["main"], call'["resend"], page', mails')
    BY FitsGrow
  <1> QED
    BY <1>1 DEF PageOK

LEMMA PageRests ==
  ASSUME MailsOK, MailsOK', MailsGrow, PageOK, UNCHANGED <<entry, call, page, timer>>
  PROVE  PageOK'
  BY PageMoves DEF PageOK

\* A page that is left loses its state; its calls go on without it.
LEMMA CallGoesOn ==
  ASSUME NEW c \in CallSet, NEW h \in BOOLEAN, NEW d, d = [c EXCEPT !.here = h]
  PROVE  d \in CallSet /\ d.kind = c.kind /\ d.mail = c.mail /\ d.here = h
  BY DEF CallSet

LEMMA PageLeft ==
  ASSUME MailsOK, MailsOK', MailsGrow, PageOK, entry' = NewEntry, timer' \in BOOLEAN,
         call' \in [Slots -> CallSet],
         \A s \in Slots : call'[s] = NoCall \/ (call'[s].kind = call[s].kind /\ call'[s].mail = call[s].mail
                                                  /\ ~call'[s].here)
  PROVE  PageOK'
  <1>1. PICK main \in CallSet : main = call'["main"]
    BY DEF Slots
  <1>2. PICK again \in CallSet : again = call'["resend"]
    BY DEF Slots
  <1>3. /\ ~main.here /\ ~again.here /\ main.kind # "resend" /\ again.kind \in {"none", "resend"}
        /\ main.kind = "verify" => main.mail \in DOMAIN mails /\ mails[main.mail].kind = "verify"
    BY <1>1, <1>2, NothingYet DEF Slots, PageOK, PageFits
  <1>4. PageFits(NewEntry, main, again, page', mails)
    BY <1>3, NewPageFits
  <1> QED
    BY <1>1, <1>2, <1>4, PageMoves

LEMMA PageFollows ==
  ASSUME MailsOK, MailsOK', MailsGrow, PageOK, Follow, timer' \in BOOLEAN
  PROVE  PageOK'
  <1>1. CASE page' = page
    BY <1>1, PageMoves DEF Follow, PageOK
  <1>2. CASE page' # page
    <2>1. entry' = NewEntry /\ call' = [s \in Slots |-> [call[s] EXCEPT !.here = FALSE]]
      BY <1>2 DEF Follow
    <2>2. ASSUME NEW s \in Slots
          PROVE  /\ call'[s] \in CallSet /\ call'[s].kind = call[s].kind /\ call'[s].mail = call[s].mail
                 /\ ~call'[s].here
      <3>1. PICK c \in CallSet : c = call[s]
        BY DEF PageOK
      <3>2. PICK d : d = [c EXCEPT !.here = FALSE]
        OBVIOUS
      <3>3. d \in CallSet /\ d.kind = c.kind /\ d.mail = c.mail /\ ~d.here
        BY <3>2, CallGoesOn
      <3>4. call'[s] = d
        BY <2>1, <3>1, <3>2
      <3> QED
        BY <3>1, <3>3, <3>4
    <2>3. call' \in [Slots -> CallSet]
      BY <2>1, <2>2
    <2> QED
      BY <2>1, <2>2, <2>3, PageLeft
  <1> QED
    BY <1>1, <1>2

LEMMA PageIsReset ==
  ASSUME MailsOK, MailsOK', MailsGrow, PageOK, Reset
  PROVE  PageOK'
  <1>1. call' \in [Slots -> CallSet] /\ \A s \in Slots : call'[s] = NoCall
    BY NothingYet DEF Reset
  <1> QED
    BY <1>1, PageLeft DEF Reset

\* A call is over.
LEMMA MainEnds ==
  ASSUME MailsOK, MailsOK', MailsGrow, PageOK, NEW f, Ends("main", f), page' = page, timer' \in BOOLEAN,
         call["main"].here =>
            /\ f \in EntrySet /\ ~f.busy /\ f.mail = entry.mail /\ f.resend = entry.resend
            /\ f.status = "verified" =>
                  entry.status = "verified" \/ (f.mail \in DOMAIN mails /\ mails'[f.mail].st = "used")
  PROVE  PageOK'
  <1>1. /\ call' = [call EXCEPT !["main"] = NoCall] /\ call \in [Slots -> CallSet]
        /\ (call["main"].here /\ entry' = f) \/ (~call["main"].here /\ entry' = entry)
    BY DEF Ends, PageOK
  <1>2. call' \in [Slots -> CallSet] /\ call'["main"] = NoCall /\ call'["resend"] = call["resend"]
    BY <1>1, NothingYet DEF Slots
  <1>3. /\ entry \in EntrySet /\ PageFits(entry, call["main"], call["resend"], page, mails')
    <2>1. PageFits(entry, call["main"], call["resend"], page, mails)
      BY DEF PageOK
    <2>2. PageFits(entry, call["main"], call["resend"], page, mails')
      BY <2>1, FitsGrow
    <2> QED
      BY <2>1, <2>2 DEF PageFits
  <1>4. /\ entry' \in EntrySet /\ ~entry'.busy /\ entry'.mail = entry.mail /\ entry'.resend = entry.resend
        /\ entry'.status = "verified" => entry'.mail \in DOMAIN mails' /\ mails'[entry'.mail].st = "used"
    <2>1. CASE call["main"].here /\ entry' = f
      <3>1. DOMAIN mails \subseteq DOMAIN mails'
        BY MailsCount DEF MailsGrow, MailsOK
      <3> QED
        BY <1>3, <2>1, <3>1 DEF PageFits
    <2>2. CASE ~call["main"].here /\ entry' = entry
      BY <1>3, <2>2 DEF PageFits
    <2> QED
      BY <1>1, <2>1, <2>2
  <1>5. PageFits(entry', NoCall, call["resend"], page', mails')
    BY <1>3, <1>4, NothingYet DEF PageFits
  <1> QED
    BY <1>2, <1>5 DEF PageOK

LEMMA AgainEnds ==
  ASSUME MailsOK, MailsOK', MailsGrow, PageOK, NEW st \in {"idle", "sent"},
         Ends("resend", [entry EXCEPT !.resend = st]), page' = page, timer' \in BOOLEAN
  PROVE  PageOK'
  <1>1. PICK e \in EntrySet : e = entry
    BY DEF PageOK, PageFits
  <1>2. PICK f : f = [e EXCEPT !.resend = st]
    OBVIOUS
  <1>3. /\ f \in EntrySet /\ f.busy = e.busy /\ f.mail = e.mail /\ f.status = e.status /\ f.modal = e.modal
        /\ f.resend = st
    BY <1>2 DEF EntrySet
  <1>4. /\ call' = [call EXCEPT !["resend"] = NoCall] /\ call \in [Slots -> CallSet]
        /\ (call["resend"].here /\ entry' = f) \/ (~call["resend"].here /\ entry' = e)
    BY <1>1, <1>2 DEF Ends, PageOK
  <1>5. call' \in [Slots -> CallSet] /\ call'["resend"] = NoCall /\ call'["main"] = call["main"]
    BY <1>4, NothingYet DEF Slots
  <1>6. PageFits(e, call["main"], call["resend"], page, mails)
    BY <1>1 DEF PageOK
  <1>7. CASE call["resend"].here /\ entry' = f
    <2>1. PageFits(f, call["main"], NoCall, page, mails)
      BY <1>3, <1>6, NothingYet DEF PageFits
    <2> QED
      BY <1>5, <1>7, <2>1, PageMoves
  <1>8. CASE ~call["resend"].here /\ entry' = e
    <2>1. PageFits(e, call["main"], NoCall, page, mails)
      BY <1>6, <1>8, NothingYet DEF PageFits
    <2> QED
      BY <1>5, <1>8, <2>1, PageMoves
  <1> QED
    BY <1>4, <1>7, <1>8

\* A call starts.
LEMMA CallStarts ==
  ASSUME MailsOK, MailsOK', MailsGrow, PageOK, NEW slot \in Slots, NEW c \in CallSet,
         call' = [call EXCEPT ![slot] = c], timer' \in BOOLEAN,
         PageFits(entry', IF slot = "main" THEN c ELSE call["main"],
                  IF slot = "resend" THEN c ELSE call["resend"], page', mails)
  PROVE  PageOK'
  <1>1. call \in [Slots -> CallSet]
    BY DEF PageOK
  <1>2. /\ call' \in [Slots -> CallSet]
        /\ call'["main"] = IF slot = "main" THEN c ELSE call["main"]
        /\ call'["resend"] = IF slot = "resend" THEN c ELSE call["resend"]
    BY <1>1 DEF Slots
  <1>3. PageFits(entry', call'["main"], call'["resend"], page', mails)
    BY <1>2
  <1> QED
    BY <1>2, <1>3, PageMoves

LEMMA PageRuns ==
  ASSUME MailsOK, MailsOK', MailsGrow, PageOK, NEW p, NEW m \in Nat,
         NEW kind \in {"signup", "login", "ask", "confirm", "delete"}, Run(p, kind, m),
         p = "settings" => entry.modal, kind = "delete" => p = "settings"
  PROVE  PageOK'
  <1>1. PICK e \in EntrySet : e = entry
    BY DEF PageOK, PageFits
  <1>2. PICK f : f = [e EXCEPT !.busy = TRUE, !.error = FALSE, !.unverified = FALSE,
                               !.resend = IF p = "login" THEN "idle" ELSE @]
    OBVIOUS
  <1>3. /\ f \in EntrySet /\ f.mail = e.mail /\ f.status = e.status /\ f.modal = e.modal
        /\ f.resend = IF p = "login" THEN "idle" ELSE e.resend
    BY <1>2 DEF EntrySet
  <1>4. PICK c : c = [kind |-> kind, here |-> TRUE, mail |-> m]
    OBVIOUS
  <1>5. c \in CallSet /\ c.kind = kind /\ c.here
    BY <1>4 DEF CallSet
  <1>6. /\ call' = [call EXCEPT !["main"] = c] /\ entry' = f /\ page = p /\ page' = page /\ timer' = timer
    BY <1>1, <1>2, <1>4 DEF Run, Starts
  <1>7. PageFits(e, call["main"], call["resend"], page, mails) /\ timer \in BOOLEAN
    BY <1>1 DEF PageOK
  <1>8. PageFits(f, c, call["resend"], page, mails)
    BY <1>1, <1>3, <1>5, <1>6, <1>7 DEF PageFits
  <1> QED
    BY <1>5, <1>6, <1>7, <1>8, CallStarts DEF Slots

LEMMA SubmitsKeep ==
  ASSUME MailsOK, MailsOK', MailsGrow, PageOK,
         SubmitSignup \/ SubmitLogin \/ SubmitRequest \/ SubmitConfirm \/ SubmitDelete
  PROVE  PageOK'
  <1>1. CASE SubmitSignup \/ SubmitLogin \/ SubmitRequest
    <2>1. PICK p \in {"signup", "login", "reset"}, kind \in {"signup", "login", "ask"} : Run(p, kind, 0)
      BY <1>1 DEF SubmitSignup, SubmitLogin, SubmitRequest
    <2> QED
      BY <2>1, PageRuns
  <1>2. CASE SubmitConfirm
    <2>1. PICK m \in 0 .. Len(mails) : Run("reset", "confirm", m)
      BY <1>2 DEF SubmitConfirm
    <2> QED
      BY <2>1, PageRuns
  <1>3. CASE SubmitDelete
    BY <1>3, PageRuns DEF SubmitDelete
  <1> QED
    BY <1>1, <1>2, <1>3

LEMMA AskAgainKeeps ==
  ASSUME MailsOK, MailsOK', MailsGrow, PageOK, AskMailAgain
  PROVE  PageOK'
  <1>1. PICK e \in EntrySet : e = entry
    BY DEF PageOK, PageFits
  <1>2. PICK f : f = [e EXCEPT !.resend = "sending"]
    OBVIOUS
  <1>3. /\ f \in EntrySet /\ f.mail = e.mail /\ f.status = e.status /\ f.modal = e.modal /\ f.busy = e.busy
    BY <1>2 DEF EntrySet
  <1>4. PICK c : c = [kind |-> "resend", here |-> TRUE, mail |-> 0]
    OBVIOUS
  <1>5. c \in CallSet /\ c.kind = "resend" /\ c.here
    BY <1>4 DEF CallSet
  <1>6. call' = [call EXCEPT !["resend"] = c] /\ entry' = f /\ page' = page /\ timer' = timer
    BY <1>1, <1>2, <1>4 DEF AskMailAgain, Starts
  <1>7. PageFits(e, call["main"], call["resend"], page, mails) /\ timer \in BOOLEAN
    BY <1>1 DEF PageOK
  <1>8. PageFits(f, call["main"], c, page, mails)
    BY <1>1, <1>3, <1>5, <1>7 DEF PageFits
  <1> QED
    BY <1>5, <1>6, <1>7, <1>8, CallStarts DEF Slots

LEMMA DialogKeeps ==
  ASSUME MailsOK, MailsOK', MailsGrow, PageOK, OpenDeleteModal \/ CloseAccountModal
  PROVE  PageOK'
  <1>1. PICK e \in EntrySet : e = entry
    BY DEF PageOK, PageFits
  <1>2. PICK open \in BOOLEAN : /\ entry' = [e EXCEPT !.modal = open, !.error = FALSE] /\ (open \/ ~e.busy)
                                /\ UNCHANGED <<call, page, timer>>
    <2>1. CASE OpenDeleteModal
      BY <1>1, <2>1 DEF OpenDeleteModal, Dialog
    <2>2. CASE CloseAccountModal
      BY <1>1, <2>2 DEF CloseAccountModal, MayClose, Dialog
    <2> QED
      BY <2>1, <2>2
  <1>3. PICK f : f = [e EXCEPT !.modal = open, !.error = FALSE]
    OBVIOUS
  <1>4. /\ f \in EntrySet /\ f.mail = e.mail /\ f.status = e.status /\ f.busy = e.busy /\ f.resend = e.resend
        /\ (f.busy => f.modal)
    BY <1>2, <1>3 DEF EntrySet
  <1>5. PageFits(e, call["main"], call["resend"], page, mails) /\ timer \in BOOLEAN /\ call \in [Slots -> CallSet]
    BY <1>1 DEF PageOK
  <1>6. PageFits(f, call["main"], call["resend"], page, mails)
    BY <1>4, <1>5 DEF PageFits
  <1> QED
    BY <1>2, <1>3, <1>5, <1>6, PageMoves

\* The page of a link, and its call.
LEMMA MailIsOpened ==
  ASSUME MailsOK, MailsOK', MailsGrow, PageOK, NEW m, OpenMail(m)
  PROVE  PageOK'
  <1>1. /\ m \in DOMAIN mails /\ Len(mails) \in Nat /\ DOMAIN mails = 1 .. Len(mails) /\ mails[m] \in MailSet
    BY MailsCount DEF OpenMail
  <1>2. PICK st \in {"loading", "none"} : entry' = [NewEntry EXCEPT !.mail = m, !.status = st]
    BY DEF OpenMail
  <1>3. PICK f : f = [NewEntry EXCEPT !.mail = m, !.status = st]
    OBVIOUS
  <1>4. f \in EntrySet /\ f.mail = m /\ f.status = st /\ ~f.busy /\ f.resend = "idle"
    <2>1. PICK e \in EntrySet : e = NewEntry
      BY NothingYet
    <2>2. ~e.busy /\ e.resend = "idle" /\ f = [e EXCEPT !.mail = m, !.status = st]
      BY <1>3, <2>1, NothingYet
    <2>3. m \in Nat
      BY <1>1
    <2> QED
      BY <2>2, <2>3 DEF EntrySet
  <1>5. PICK c : c = [kind |-> "verify", here |-> TRUE, mail |-> m]
    OBVIOUS
  <1>6. c \in CallSet /\ c.kind = "verify" /\ c.mail = m
    BY <1>1, <1>5 DEF CallSet
  <1>7. /\ call' = [s \in Slots |-> IF s = "main" /\ mails[m].kind = "verify" THEN c ELSE NoCall]
        /\ timer' = FALSE
    BY <1>5 DEF OpenMail
  <1>8. call' \in [Slots -> CallSet] /\ call'["resend"] = NoCall
    BY <1>6, <1>7, NothingYet DEF Slots
  <1>9. PageFits(f, call'["main"], NoCall, page', mails)
    <2>1. CASE mails[m].kind = "verify"
      <3>1. call'["main"] = c
        BY <1>7, <2>1 DEF Slots
      <3>2. PageFits(f, c, NoCall, page', mails)
        BY <1>1, <1>4, <1>6, <2>1, NothingYet DEF PageFits
      <3> QED
        BY <3>1, <3>2
    <2>2. CASE mails[m].kind # "verify"
      <3>1. call'["main"] = NoCall
        BY <1>7, <2>2 DEF Slots
      <3>2. PageFits(f, NoCall, NoCall, page', mails)
        BY <1>1, <1>4, NothingYet DEF PageFits
      <3> QED
        BY <3>1, <3>2
    <2> QED
      BY <2>1, <2>2
  <1> QED
    BY <1>2, <1>3, <1>7, <1>8, <1>9, PageMoves

\* What the forms make of an answer.
LEMMA FormEnds ==
  ASSUME NEW e \in EntrySet
  PROVE  /\ LET f == [e EXCEPT !.busy = FALSE, !.done = TRUE] IN
               f \in EntrySet /\ ~f.busy /\ f.mail = e.mail /\ f.resend = e.resend /\ f.status = e.status
         /\ LET f == [e EXCEPT !.busy = FALSE, !.error = TRUE] IN
               f \in EntrySet /\ ~f.busy /\ f.mail = e.mail /\ f.resend = e.resend /\ f.status = e.status
         /\ \A u \in BOOLEAN : LET f == [[e EXCEPT !.busy = FALSE, !.error = TRUE] EXCEPT !.unverified = u] IN
               f \in EntrySet /\ ~f.busy /\ f.mail = e.mail /\ f.resend = e.resend /\ f.status = e.status
         /\ \A st \in {"error", "verified", "already_verified"} : LET f == [e EXCEPT !.status = st] IN
               f \in EntrySet /\ f.busy = e.busy /\ f.mail = e.mail /\ f.resend = e.resend /\ f.status = st
  BY DEF EntrySet

LEMMA FormsAreAnswered ==
  ASSUME MailsOK, MailsOK', MailsGrow, PageOK,
         \/ SignedUp \/ NotLoggedIn \/ ResetRequested \/ PasswordReset
         \/ (AccountDeleted /\ Ends("main", Failed) /\ Alike /\ UNCHANGED timer)
  PROVE  PageOK'
  <1>1. PICK e \in EntrySet : e = entry
    BY DEF PageOK, PageFits
  <1>2. page' = page /\ timer' \in BOOLEAN
    <2>1. timer \in BOOLEAN
      BY DEF PageOK
    <2>2. CASE SignedUp \/ NotLoggedIn \/ ResetRequested \/ PasswordReset
      BY <2>1, <2>2 DEF SignedUp, NotLoggedIn, ResetRequested, PasswordReset, Alike
    <2>3. CASE Alike /\ UNCHANGED timer
      BY <2>1, <2>3 DEF Alike
    <2> QED
      BY <2>2, <2>3
  <1>3. CASE Ends("main", Done)
    <2>1. PICK f : f = [e EXCEPT !.busy = FALSE, !.done = TRUE]
      OBVIOUS
    <2>2. f \in EntrySet /\ ~f.busy /\ f.mail = e.mail /\ f.resend = e.resend /\ f.status = e.status
      BY <2>1, FormEnds
    <2>3. Ends("main", f)
      BY <1>1, <1>3, <2>1 DEF Done
    <2> QED
      BY <1>1, <1>2, <2>2, <2>3, MainEnds
  <1>4. CASE Ends("main", Failed)
    <2>1. PICK f : f = [e EXCEPT !.busy = FALSE, !.error = TRUE]
      OBVIOUS
    <2>2. f \in EntrySet /\ ~f.busy /\ f.mail = e.mail /\ f.resend = e.resend /\ f.status = e.status
      BY <2>1, FormEnds
    <2>3. Ends("main", f)
      BY <1>1, <1>4, <2>1 DEF Failed
    <2> QED
      BY <1>1, <1>2, <2>2, <2>3, MainEnds
  <1>5. CASE NotLoggedIn
    <2>1. PICK u \in BOOLEAN : u = (acct = "unverified")
      OBVIOUS
    <2>2. PICK f : f = [[e EXCEPT !.busy = FALSE, !.error = TRUE] EXCEPT !.unverified = u]
      OBVIOUS
    <2>3. f \in EntrySet /\ ~f.busy /\ f.mail = e.mail /\ f.resend = e.resend /\ f.status = e.status
      BY <2>2, FormEnds
    <2>4. Ends("main", f)
      BY <1>1, <1>5, <2>1, <2>2 DEF NotLoggedIn, Failed
    <2> QED
      BY <1>1, <1>2, <2>3, <2>4, MainEnds
  <1> QED
    BY <1>3, <1>4, <1>5 DEF SignedUp, ResetRequested, PasswordReset

\* The answer for a link that verifies; the mails were used before the page says so.
LEMMA LinkAnswered ==
  ASSUME MailsOK, MailsOK', MailsGrow, PageOK, NEW st \in {"error", "verified", "already_verified"},
         call["main"].kind = "verify", Ends("main", [entry EXCEPT !.status = st]),
         page' = page, timer' = timer, st = "verified" => mails'[call["main"].mail].st = "used"
  PROVE  PageOK'
  <1>1. PICK e \in EntrySet : e = entry
    BY DEF PageOK, PageFits
  <1>2. PICK f : f = [e EXCEPT !.status = st]
    OBVIOUS
  <1>3. f \in EntrySet /\ f.busy = e.busy /\ f.mail = e.mail /\ f.resend = e.resend /\ f.status = st
    BY <1>2, FormEnds
  <1>4. Ends("main", f) /\ timer' \in BOOLEAN
    BY <1>1, <1>2 DEF PageOK
  <1>5. PageFits(e, call["main"], call["resend"], page, mails)
    BY <1>1 DEF PageOK
  <1>6. call["main"].here => ~e.busy /\ e.mail = call["main"].mail /\ e.mail \in DOMAIN mails
    BY <1>5 DEF PageFits
  <1> QED
    BY <1>1, <1>3, <1>4, <1>6, MainEnds

LEMMA LinkKeeps ==
  ASSUME MailsOK, MailsOK', MailsGrow, PageOK, VerifiedPage
  PROVE  PageOK'
  <1>1. PICK m \in DOMAIN mails : m = call["main"].mail /\ call["main"].kind = "verify"
    BY DEF VerifiedPage, PageOK, PageFits
  <1>2. page' = page /\ timer' = timer
    BY DEF VerifiedPage, Alike
  <1>3. CASE mails[m].st = "live" /\ VerifyLink(m) /\ Ends("main", [entry EXCEPT !.status = "verified"])
    <2>1. PICK W : W = [mails EXCEPT ![m].st = "used"]
      OBVIOUS
    <2>2. W[m].st = "used"
      BY <1>3, <2>1, OneLinkSpoils
    <2>3. mails' = W
      BY <1>3, <2>1 DEF VerifyLink
    <2> QED
      BY <1>1, <1>2, <1>3, <2>2, <2>3, LinkAnswered
  <1>4. CASE Ends("main", [entry EXCEPT !.status = "already_verified"])
    BY <1>1, <1>2, <1>4, LinkAnswered
  <1>5. CASE Ends("main", [entry EXCEPT !.status = "error"])
    BY <1>1, <1>2, <1>5, LinkAnswered
  <1> QED
    BY <1>1, <1>3, <1>4, <1>5 DEF VerifiedPage

LEMMA MailedAgainKeeps ==
  ASSUME MailsOK, MailsOK', MailsGrow, PageOK, MailedAgain
  PROVE  PageOK'
  BY AgainEnds DEF MailedAgain, Alike, PageOK

LEMMA CallFailureKeeps ==
  ASSUME MailsOK, MailsOK', MailsGrow, PageOK, NEW slot \in Slots, CallFails(slot)
  PROVE  PageOK'
  <1>1. /\ call[slot].kind # "none" /\ page' = page /\ timer' = timer /\ timer \in BOOLEAN
        /\ call["main"].kind # "resend" /\ call["resend"].kind \in {"none", "resend"}
    BY DEF CallFails, Alike, PageOK, PageFits
  <1>2. CASE slot = "resend"
    <2>1. Ends("resend", [entry EXCEPT !.resend = "idle"])
      BY <1>1, <1>2 DEF CallFails
    <2> QED
      BY <1>1, <2>1, AgainEnds
  <1>3. CASE slot = "main" /\ call["main"].kind = "verify"
    <2>1. Ends("main", [entry EXCEPT !.status = "error"])
      BY <1>3 DEF CallFails
    <2> QED
      BY <1>1, <1>3, <2>1, LinkAnswered
  <1>4. CASE slot = "main" /\ call["main"].kind # "verify"
    <2>1. Ends("main", Failed)
      BY <1>1, <1>4 DEF CallFails
    <2>2. PICK e \in EntrySet : e = entry
      BY DEF PageOK, PageFits
    <2>3. PICK f : f = [e EXCEPT !.busy = FALSE, !.error = TRUE]
      OBVIOUS
    <2>4. f \in EntrySet /\ ~f.busy /\ f.mail = e.mail /\ f.resend = e.resend /\ f.status = e.status
      BY <2>3, FormEnds
    <2>5. Ends("main", f)
      BY <2>1, <2>2, <2>3 DEF Failed
    <2> QED
      BY <1>1, <2>2, <2>4, <2>5, MainEnds
  <1> QED
    BY <1>2, <1>3, <1>4 DEF Slots

\* Whoever signs in leaves the page; its other call goes on.
LEMMA LoginKeepsPage ==
  ASSUME MailsOK, MailsOK', MailsGrow, PageOK, LoggedIn
  PROVE  PageOK'
  <1>1. /\ entry' = NewEntry /\ timer' = timer /\ timer \in BOOLEAN
        /\ call' = [s \in Slots |-> IF s = "main" THEN NoCall ELSE [call[s] EXCEPT !.here = FALSE]]
    BY DEF LoggedIn, PageOK
  <1>2. ASSUME NEW s \in Slots
        PROVE  /\ call'[s] \in CallSet
               /\ call'[s] = NoCall \/ (call'[s].kind = call[s].kind /\ call'[s].mail = call[s].mail
                                          /\ ~call'[s].here)
    <2>1. PICK c \in CallSet : c = call[s]
      BY DEF PageOK
    <2>2. PICK d : d = [c EXCEPT !.here = FALSE]
      OBVIOUS
    <2>3. d \in CallSet /\ d.kind = c.kind /\ d.mail = c.mail /\ ~d.here
      BY <2>2, CallGoesOn
    <2>4. call'[s] = IF s = "main" THEN NoCall ELSE d
      BY <1>1, <2>1, <2>2
    <2> QED
      BY <2>1, <2>3, <2>4, NothingYet
  <1>3. call' \in [Slots -> CallSet]
    BY <1>1, <1>2
  <1> QED
    BY <1>1, <1>2, <1>3, PageLeft

\* The account is deleted: whoever is on a page for users has to leave it, and no other page
\* waits for the answer.
LEMMA DeletionKeeps ==
  ASSUME MailsOK, MailsOK', MailsGrow, PageOK, AccountDeleted
  PROVE  PageOK'
  <1>1. CASE Ends("main", Failed) /\ Alike /\ UNCHANGED <<server, timer>>
    BY <1>1, FormsAreAnswered
  <1>2. CASE /\ Sets(NoAuth) /\ UNCHANGED timer /\ Shows(page)
             /\ entry' = IF page' = page THEN entry ELSE NewEntry
             /\ call' = [s \in Slots |-> IF s = "main" THEN NoCall
                                         ELSE [call[s] EXCEPT !.here = @ /\ page' = page]]
    <2>1. timer' \in BOOLEAN /\ call["main"].kind = "delete"
      BY <1>2 DEF PageOK, AccountDeleted
    <2>2. PICK c \in CallSet : c = call["resend"]
      BY DEF PageOK, Slots
    <2>3. PICK h \in BOOLEAN : h = (c.here /\ page' = page)
      BY DEF CallSet
    <2>4. PICK d : d = [c EXCEPT !.here = h]
      OBVIOUS
    <2>5. d \in CallSet /\ d.kind = c.kind /\ d.mail = c.mail /\ d.here = h
      BY <2>4, CallGoesOn
    <2>6. call'["main"] = NoCall /\ call'["resend"] = d
      <3>1. call'["resend"] = [c EXCEPT !.here = @ /\ page' = page]
        BY <1>2, <2>2 DEF Slots
      <3> QED
        BY <1>2, <2>3, <2>4, <3>1 DEF Slots
    <2>7. call' \in [Slots -> CallSet]
      <3>1. \A s \in Slots : call'[s] \in CallSet
        BY <2>5, <2>6, NothingYet DEF Slots
      <3> QED
        BY <1>2, <3>1
    <2>8. CASE page' # page
      <3>1. ~h /\ entry' = NewEntry
        BY <1>2, <2>3, <2>8
      <3>2. \A s \in Slots : call'[s] = NoCall \/ (call'[s].kind = call[s].kind
                                /\ call'[s].mail = call[s].mail /\ ~call'[s].here)
        BY <2>2, <2>5, <2>6, <3>1 DEF Slots
      <3> QED
        BY <2>1, <2>7, <3>1, <3>2, PageLeft
    <2>9. CASE page' = page
      <3>1. page # "settings"
        <4>1. ~auth'.user
          BY <1>2 DEF Sets, NoAuth
        <4>2. page = "settings" => page' = "login"
          BY <1>2, <4>1 DEF Shows, Routed, Protected
        <4> QED
          BY <2>9, <4>2
      <3>2. PageFits(entry, call["main"], c, page, mails)
        BY <2>2 DEF PageOK
      <3>3. ~entry.busy
        BY <2>1, <3>1, <3>2 DEF PageFits
      <3>4. entry' = entry /\ d.here = c.here
        BY <1>2, <2>3, <2>5, <2>9 DEF CallSet
      <3>5. PageFits(entry, NoCall, d, page, mails)
        BY <2>5, <3>2, <3>3, <3>4, NothingYet DEF PageFits
      <3> QED
        BY <2>1, <2>6, <2>7, <2>9, <3>4, <3>5, PageMoves
    <2> QED
      BY <2>8, <2>9
  <1> QED
    BY <1>1, <1>2, Zenon DEF AccountDeleted

LEMMA PageNext ==
  ASSUME MailsOK, MailsOK', MailsGrow, PageOK, AccountNext \/ UNCHANGED <<authVars, accountVars>>
  PROVE  PageOK'
  <1>1. timer \in BOOLEAN
    BY DEF PageOK
  <1>2. CASE UNCHANGED <<authVars, accountVars>> \/ \E m \in 1..MaxMails : MailExpires(m)
    <2>1. UNCHANGED <<entry, call, page, timer>>
      BY <1>2 DEF authVars, accountVars, MailExpires
    <2> QED
      BY <2>1, PageRests
  <1>3. CASE Client
    <2>1. CASE UNCHANGED accountVars /\ page' = page
      BY <2>1, PageRests DEF accountVars
    <2>2. CASE Follow /\ UNCHANGED <<server, timer>>
      BY <1>1, <2>2, PageFollows
    <2>3. CASE Reset
      BY <2>3, PageIsReset
    <2>4. \/ UNCHANGED accountVars /\ page' = page
          \/ Follow /\ UNCHANGED <<server, timer>>
          \/ Reset
      <3>1. CASE SignOut /\ Follow /\ UNCHANGED <<server, timer>>
        BY <3>1
      <3>2. CASE Reset
        BY <3>2
      <3>3. CASE /\ \/ (\E r \in Requests : Send(r) \/ Answered(r) \/ GiveUp(r) \/ Queue(r) \/ AskRefresh(r))
                    \/ SetRememberMe \/ RefreshToken \/ Refreshed \/ AnotherTab
                    \/ (\E p \in 1..MaxPairs : AccessExpires(p))
                 /\ UNCHANGED accountVars
        BY <3>3, Zenon DEF Send, Answered, GiveUp, Queue, AskRefresh, ReqsBecome, SetRememberMe, RefreshToken,
              Refreshed, AnotherTab, AccessExpires
      <3> QED
        BY <1>3, <3>1, <3>2, <3>3 DEF Client
    <2> QED
      BY <2>1, <2>2, <2>3, <2>4
  <1>4. CASE \/ TimerFires
             \/ \E p \in {"home", "app", "settings", "login", "signup", "reset"} : Enter(p)
    <2>1. Follow /\ timer' \in BOOLEAN
      BY <1>1, <1>4 DEF TimerFires, Enter
    <2> QED
      BY <2>1, PageFollows
  <1>5. CASE \E m \in 1..MaxMails : OpenMail(m)
    BY <1>5, MailIsOpened
  <1>6. CASE SubmitSignup \/ SubmitLogin \/ SubmitRequest \/ SubmitConfirm \/ SubmitDelete
    BY <1>6, SubmitsKeep
  <1>7. CASE SignedUp \/ NotLoggedIn \/ ResetRequested \/ PasswordReset
    BY <1>7, FormsAreAnswered
  <1>8. CASE (\E slot \in Slots : CallFails(slot)) \/ AskMailAgain \/ MailedAgain \/ VerifiedPage
    BY <1>8, CallFailureKeeps, AskAgainKeeps, MailedAgainKeeps, LinkKeeps
  <1>9. CASE LoggedIn \/ OpenDeleteModal \/ CloseAccountModal \/ AccountDeleted
    BY <1>9, LoginKeepsPage, DialogKeeps, DeletionKeeps
  <1> QED
    BY <1>2, <1>3, <1>4, <1>5, <1>6, <1>7, <1>8, <1>9 DEF AccountNext

-----------------------------------------------------------------------------
\* The pages around an account, together.

PagesInv == SessionInv /\ MailsOK /\ RevokedOK /\ PageOK

LEMMA PagesInit == AuthInit /\ AccountInit => PagesInv
  BY SessionInit, PageInit DEF PagesInv

LEMMA PagesNext ==
  ASSUME ClientInv, ClientInv', PagesInv, AccountNext \/ UNCHANGED <<authVars, accountVars>>
  PROVE  PagesInv'
  <1>1. \A m \in DOMAIN mails : mails[m].kind \in {"verify", "reset"}
    <2>1. mails \in Seq(MailSet)
      BY MailsCount DEF PagesInv
    <2>2. ASSUME NEW m \in DOMAIN mails PROVE mails[m] \in MailSet
      BY <2>1
    <2> QED
      BY <2>2 DEF MailSet
  <1>2. SessionInv' /\ PairsGrow
    BY <1>1, SessionNext DEF PagesInv
  <1>3. VerifyCallOK
    BY DEF PagesInv, PageOK, PageFits, VerifyCallOK
  <1>4. MailsOK' /\ MailsGrow
    BY <1>3, MailsNext DEF PagesInv
  <1>5. Len(pairs') \in Nat
    BY DEF ClientInv
  <1>6. RevokedOK'
    BY <1>2, <1>5, RevokedNext DEF PagesInv
  <1>7. PageOK'
    BY <1>4, PageNext DEF PagesInv
  <1> QED
    BY <1>2, <1>4, <1>6, <1>7 DEF PagesInv

LEMMA UpTo == ASSUME NEW n \in Nat, NEW k \in Nat, k <= n PROVE k \in 0 .. n
  OBVIOUS

LEMMA PagesPromise ==
  ASSUME ClientInv, PagesInv
  PROVE  /\ AccountTypeOK /\ QueueIsServed /\ UserHasTokens /\ ResetRevokes /\ OneLinkVerifies
         /\ PageTellsTheTruth
  <1>1. Len(pairs) \in Nat /\ pairs \in Seq(PairState)
    BY PairsCount
  <1>2. PICK n \in Nat : n = Len(pairs)
    BY <1>1
  <1>3. /\ auth.pair \in 0 .. n
        /\ kept \in [{"local", "session"} -> [user : BOOLEAN, pair : 0 .. n]]
    <2>1. /\ auth \in [user : BOOLEAN, pair : Nat] /\ auth.pair <= n
          /\ kept \in [{"local", "session"} -> [user : BOOLEAN, pair : Nat]]
          /\ \A s \in {"local", "session"} : kept[s].pair <= n
      BY <1>2 DEF ClientInv
    <2>2. \A s \in {"local", "session"} : kept[s] \in [user : BOOLEAN, pair : 0 .. n]
      <3>1. ASSUME NEW s \in {"local", "session"} PROVE kept[s] \in [user : BOOLEAN, pair : 0 .. n]
        <4>1. PICK a \in [user : BOOLEAN, pair : Nat] : a = kept[s] /\ a.pair <= n
          BY <2>1
        <4>2. a.pair \in 0 .. n
          BY <4>1
        <4> QED
          BY <4>1, <4>2
      <3> QED
        BY <3>1
    <2> QED
      BY <2>1, <2>2
  <1>4. reqs \in [Requests -> [st : {"idle", "sent", "queued", "waiting"}, pair : 0 .. n, again : BOOLEAN]]
    <2>1. reqs \in [Requests -> ReqSet] /\ \A r \in Requests : reqs[r].pair <= n
      BY <1>2 DEF PagesInv, SessionInv, ReqsOK
    <2>2. ASSUME NEW r \in Requests
          PROVE  reqs[r] \in [st : {"idle", "sent", "queued", "waiting"}, pair : 0 .. n, again : BOOLEAN]
      <3>1. PICK a \in ReqSet : a = reqs[r] /\ a.pair <= n
        BY <2>1
      <3>2. a.pair \in 0 .. n
        BY <3>1 DEF ReqSet
      <3> QED
        BY <3>1, <3>2 DEF ReqSet
    <2> QED
      BY <2>1, <2>2
  <1>5. refresh \in [st : {"no", "asked", "granted", "refused"}, pair : 0 .. n, new : 0 .. n]
    <2>1. PICK a \in [st : {"no", "asked", "granted", "refused"}, pair : Nat, new : Nat] :
             a = refresh /\ a.pair <= n /\ a.new <= n
      BY <1>2 DEF ClientInv, PagesInv, SessionInv, ReqsOK
    <2>2. a.pair \in 0 .. n /\ a.new \in 0 .. n
      BY <2>1
    <2> QED
      BY <2>1, <2>2
  <1>6. AuthTypeOK
    BY <1>1, <1>2, <1>3, <1>4, <1>5 DEF AuthTypeOK, PairState, PagesInv, SessionInv, TabOK, PageSet
  <1>7. AccountTypeOK
    <2>1. /\ acct \in {"none", "unverified", "verified"} /\ mails \in Seq(MailSet) /\ Len(mails) <= MaxMails
          /\ resets \in 0 .. Len(pairs) /\ timer \in BOOLEAN /\ Len(mails) \in Nat
      BY MailsCount DEF PagesInv, MailsOK, RevokedOK, PageOK
    <2>2. PageFits(entry, call["main"], call["resend"], page, mails)
      BY DEF PagesInv, PageOK
    <2>3. entry.resend \in {"idle", "sending", "sent"} /\ entry.mail \in Nat /\ entry.mail <= Len(mails)
      BY <2>2 DEF PageFits, EntrySet
    <2>4. /\ call["main"].kind \in {"none", "signup", "login", "verify", "ask", "confirm", "delete"}
          /\ call["resend"].kind \in {"none", "resend"}
      BY <2>2 DEF PageFits, CallSet
    <2>5. entry.mail \in 0 .. Len(mails)
      BY <2>1, <2>3, UpTo
    <2> QED
      BY <1>6, <2>1, <2>3, <2>4, <2>5 DEF AccountTypeOK, MailSet
  <1>8. QueueIsServed
    BY DEF PagesInv, SessionInv, ReqsOK
  <1>9. UserHasTokens
    BY DEF PagesInv, SessionInv, TabOK, HasTokens, UserHasTokens
  <1>10. ResetRevokes /\ OneLinkVerifies
    BY DEF PagesInv, RevokedOK, MailsOK
  <1>11. PageTellsTheTruth
    BY DEF PagesInv, PageOK, PageFits, PageTellsTheTruth
  <1> QED
    BY <1>7, <1>8, <1>9, <1>10, <1>11

-----------------------------------------------------------------------------
\* What is bought.

NoteSet == [kind : {"created", "updated", "canceled", "paid"}, item : Packs \cup {"none"}, sub : Nat,
            status : {"active", "past_due", "canceled", "none"}, due : BOOLEAN]
SubSet  == [plan : Plans, st : {"active", "scheduled", "canceled"}]
AccountSet == [sub : Nat, st : {"none", "active", "past_due", "canceled"}, tier : Plans \cup {"free"},
               balance : Nat, purchases : Seq(Nat)]
HookSet == [note : Nat, read : Nat]

Paid(n) == notes[n].kind = "paid"

BillingShape ==
    /\ notes \in Seq(NoteSet) /\ subs \in Seq(SubSet) /\ account \in AccountSet
    /\ hooks \in [Handlers -> HookSet] /\ events \subseteq DOMAIN notes
    /\ \A n \in DOMAIN notes : notes[n].kind = "created" => notes[n].sub \in DOMAIN subs

\* A handler has a notification of its own that was not handled yet, and no more credits
\* were read than there were purchases.
HooksApart ==
    /\ \A h \in Handlers : hooks[h] # Resting =>
          hooks[h].note \in DOMAIN notes \ events /\ hooks[h].read <= Len(account.purchases)
    /\ \A g, h \in Handlers : hooks[g] # Resting /\ hooks[g].note = hooks[h].note => g = h

\* The purchases are the payments that were handled, each of them once.
PurchasesOnce ==
    /\ \A i \in DOMAIN account.purchases : account.purchases[i] \in events /\ Paid(account.purchases[i])
    /\ \A i, j \in DOMAIN account.purchases : account.purchases[i] = account.purchases[j] => i = j
    /\ \A n \in events : Paid(n) => \E i \in DOMAIN account.purchases : account.purchases[i] = n
    /\ account.balance <= Len(account.purchases)

CreditInv == BillingShape /\ HooksApart /\ PurchasesOnce

LEMMA CreditInit == BillingInit => CreditInv
  <1> SUFFICES ASSUME BillingInit PROVE CreditInv
    OBVIOUS
  <1>1. /\ notes \in Seq(NoteSet) /\ subs \in Seq(SubSet) /\ DOMAIN notes = {} /\ events = {}
    BY DEF BillingInit
  <1>2. /\ account \in AccountSet /\ account.purchases = <<>> /\ account.balance = 0
    BY DEF BillingInit, AccountSet
  <1>3. hooks \in [Handlers -> HookSet] /\ \A h \in Handlers : hooks[h] = Resting
    BY DEF BillingInit, HookSet, Resting
  <1>4. DOMAIN account.purchases = {} /\ Len(account.purchases) = 0
    BY <1>2
  <1>5. BillingShape
    BY <1>1, <1>2, <1>3 DEF BillingShape
  <1>6. HooksApart /\ PurchasesOnce
    BY <1>1, <1>2, <1>3, <1>4 DEF HooksApart, PurchasesOnce
  <1> QED
    BY <1>5, <1>6 DEF CreditInv

\* The notifications keep their kind, and there may be one more.
NotesGrow ==
    /\ notes' \in Seq(NoteSet) /\ DOMAIN notes \subseteq DOMAIN notes'
    /\ \A n \in DOMAIN notes : notes'[n].kind = notes[n].kind
    /\ \A n \in DOMAIN notes' : notes'[n].kind = "created" => notes'[n].sub \in DOMAIN subs'

\* The payment service and the pages leave the handlers and the account to themselves.
LEMMA OutsideKeeps ==
  ASSUME CreditInv, NotesGrow, subs' \in Seq(SubSet), UNCHANGED <<events, hooks, account>>
  PROVE  CreditInv'
  <1>1. BillingShape'
    BY DEF CreditInv, BillingShape, NotesGrow
  <1>2. HooksApart'
    BY DEF CreditInv, HooksApart, NotesGrow
  <1>3. \A n \in events : Paid(n)' <=> Paid(n)
    BY DEF CreditInv, BillingShape, NotesGrow, Paid
  <1>4. PurchasesOnce'
    BY <1>3 DEF CreditInv, PurchasesOnce
  <1> QED
    BY <1>1, <1>2, <1>4 DEF CreditInv

LEMMA Sending ==
  ASSUME BillingShape, NEW n \in NoteSet, notes' = Append(notes, n), subs' \in Seq(SubSet),
         DOMAIN subs \subseteq DOMAIN subs', n.kind = "created" => n.sub \in DOMAIN subs'
  PROVE  NotesGrow
  <1>1. /\ notes' \in Seq(NoteSet) /\ DOMAIN notes = 1..Len(notes) /\ Len(notes) \in Nat
        /\ DOMAIN notes' = 1..(Len(notes) + 1) /\ notes'[Len(notes) + 1] = n
        /\ \A k \in DOMAIN notes : notes'[k] = notes[k]
    BY DEF BillingShape
  <1> QED
    BY <1>1 DEF BillingShape, NotesGrow

LEMMA DueChanges ==
  ASSUME BillingShape, NEW n \in DOMAIN notes, notes' = [notes EXCEPT ![n].due = FALSE], subs' = subs
  PROVE  NotesGrow /\ DOMAIN notes' = DOMAIN notes
  <1> DEFINE x == [notes[n] EXCEPT !.due = FALSE]
  <1>1. notes[n] \in NoteSet /\ notes \in Seq(NoteSet)
    BY DEF BillingShape
  <1>2. x \in NoteSet /\ x.kind = notes[n].kind /\ x.sub = notes[n].sub
    BY <1>1 DEF NoteSet
  <1>3. notes' = [notes EXCEPT ![n] = x]
    OBVIOUS
  <1> HIDE DEF x
  <1>4. /\ notes' \in Seq(NoteSet) /\ DOMAIN notes' = DOMAIN notes
        /\ \A k \in DOMAIN notes : notes'[k].kind = notes[k].kind /\ notes'[k].sub = notes[k].sub
    <2>1. /\ notes' \in Seq(NoteSet) /\ DOMAIN notes' = DOMAIN notes /\ notes'[n] = x
          /\ \A k \in DOMAIN notes : k # n => notes'[k] = notes[k]
      <3>1. PICK Q : Q = [notes EXCEPT ![n] = x]
        OBVIOUS
      <3>2. /\ Q \in Seq(NoteSet) /\ DOMAIN Q = DOMAIN notes /\ Q[n] = x
            /\ \A k \in DOMAIN notes : k # n => Q[k] = notes[k]
        BY <1>1, <1>2, <3>1, OneWritten
      <3>3. notes' = Q
        BY <1>3, <3>1
      <3> QED
        BY <3>2, <3>3
    <2> QED
      BY <1>2, <2>1
  <1> QED
    BY <1>4 DEF BillingShape, NotesGrow

LEMMA NotesStay == BillingShape /\ notes' = notes /\ DOMAIN subs \subseteq DOMAIN subs' => NotesGrow
  BY DEF BillingShape, NotesGrow

\* The payment service.
LEMMA ServiceKeeps ==
  ASSUME CreditInv, (\E s \in 1..MaxCheckouts : Activate(s) \/ Fall(s) \/ End(s)) \/ Pay
  PROVE  CreditInv'
  <1>1. BillingShape /\ subs \in Seq(SubSet) /\ UNCHANGED <<events, hooks, account>>
    BY DEF CreditInv, BillingShape, Activate, Fall, End, Pay, Inside
  <1>2. CASE \E s \in 1..MaxCheckouts : Activate(s) \/ Fall(s) \/ End(s)
    <2>1. PICK s \in 1..MaxCheckouts : Activate(s) \/ Fall(s) \/ End(s)
      BY <1>2
    <2>2. s \in DOMAIN subs /\ s \in Nat /\ DOMAIN subs = 1..Len(subs)
      BY <1>1, <2>1 DEF Activate, Fall, End
    <2>3. subs' = subs \/ subs' = [subs EXCEPT ![s].st = "canceled"]
      BY <2>1 DEF Activate, Fall, End
    <2>4. subs' \in Seq(SubSet) /\ DOMAIN subs' = DOMAIN subs
      <3>1. [subs[s] EXCEPT !.st = "canceled"] \in SubSet
        <4>1. subs[s] \in SubSet
          BY <1>1, <2>2
        <4> QED
          BY <4>1 DEF SubSet
      <3>2. CASE subs' = [subs EXCEPT ![s] = [subs[s] EXCEPT !.st = "canceled"]]
        BY <1>1, <2>2, <3>1, <3>2, OneWritten
      <3>3. subs' = subs \/ subs' = [subs EXCEPT ![s] = [subs[s] EXCEPT !.st = "canceled"]]
        BY <2>3
      <3> QED
        BY <1>1, <3>2, <3>3
    <2>5. PICK n \in NoteSet : notes' = Append(notes, n) /\ n.sub = s
      <3>1. \A k \in {"created", "updated", "canceled"}, st \in {"active", "past_due", "canceled"} :
               Note(k, "none", s, st) \in NoteSet /\ Note(k, "none", s, st).sub = s
        BY <2>2 DEF Note, NoteSet
      <3>2. \E k \in {"created", "updated", "canceled"}, st \in {"active", "past_due", "canceled"} :
               notes' = Append(notes, Note(k, "none", s, st))
        BY <2>1 DEF Activate, Fall, End, Sends
      <3> QED
        BY <3>1, <3>2
    <2>6. NotesGrow
      BY <1>1, <2>2, <2>4, <2>5, Sending
    <2> QED
      BY <1>1, <2>4, <2>6, OutsideKeeps
  <1>3. CASE Pay
    <2>1. PICK item : item = checkouts[window.of].item
      OBVIOUS
    <2>2. CASE /\ item \in Plans /\ subs' = Append(subs, [plan |-> item, st |-> "active"])
               /\ Sends(Note("created", "none", Len(subs'), "active"))
      <3>1. [plan |-> item, st |-> "active"] \in SubSet
        BY <2>2 DEF SubSet
      <3>2. /\ subs' \in Seq(SubSet) /\ Len(subs') \in Nat /\ Len(subs') \in DOMAIN subs'
            /\ DOMAIN subs \subseteq DOMAIN subs'
        BY <1>1, <2>2, <3>1
      <3>3. PICK l \in Nat : l = Len(subs')
        BY <3>2
      <3>4. /\ Note("created", "none", l, "active") \in NoteSet
            /\ Note("created", "none", l, "active").sub = l
        BY DEF Note, NoteSet
      <3>5. notes' = Append(notes, Note("created", "none", l, "active"))
        BY <2>2, <3>3 DEF Sends
      <3>6. NotesGrow
        BY <1>1, <3>2, <3>3, <3>4, <3>5, Sending
      <3> QED
        BY <1>1, <3>2, <3>6, OutsideKeeps
    <2>3. CASE item \in Packs /\ Sends(Note("paid", item, 0, "none")) /\ subs' = subs
      <3>1. /\ Note("paid", item, 0, "none") \in NoteSet
            /\ Note("paid", item, 0, "none").kind = "paid"
        BY <2>3 DEF Note, NoteSet
      <3>2. NotesGrow
        BY <1>1, <2>3, <3>1, Sending DEF Sends
      <3> QED
        BY <1>1, <2>3, <3>2, OutsideKeeps
    <2> QED
      BY <1>3, <2>1, <2>2, <2>3 DEF Pay
  <1> QED
    BY <1>2, <1>3

\* A cancellation is scheduled.
LEMMA CancelKeeps == CreditInv /\ CancelAnswered => CreditInv'
  <1> SUFFICES ASSUME CreditInv, CancelAnswered PROVE CreditInv'
    OBVIOUS
  <1>1. /\ BillingShape /\ subs \in Seq(SubSet) /\ UNCHANGED <<notes, events, hooks, account>>
        /\ account \in AccountSet
    BY DEF CreditInv, BillingShape, CancelAnswered, Inside
  <1>2. subs' \in Seq(SubSet) /\ DOMAIN subs' = DOMAIN subs
    <2>1. CASE subs' = subs
      BY <1>1, <2>1
    <2>2. CASE subs' = [subs EXCEPT ![account.sub].st = IF @ = "active" THEN "scheduled" ELSE @]
      <3>1. CASE account.sub \in DOMAIN subs
        <4>1. subs[account.sub] \in SubSet
          BY <1>1, <3>1
        <4>2. PICK x : x = [subs[account.sub] EXCEPT !.st = IF @ = "active" THEN "scheduled" ELSE @]
          OBVIOUS
        <4>3. x \in SubSet
          BY <4>1, <4>2 DEF SubSet
        <4>4. subs' = [subs EXCEPT ![account.sub] = x]
          BY <2>2, <4>2
        <4>5. PICK Q : Q = [subs EXCEPT ![account.sub] = x]
          OBVIOUS
        <4>6. Q \in Seq(SubSet) /\ DOMAIN Q = DOMAIN subs
          BY <1>1, <3>1, <4>3, <4>5, OneWritten
        <4> QED
          BY <4>4, <4>5, <4>6
      <3>2. CASE account.sub \notin DOMAIN subs
        <4>1. PICK x : x = [subs[account.sub] EXCEPT !.st = IF @ = "active" THEN "scheduled" ELSE @]
          OBVIOUS
        <4>2. subs' = [subs EXCEPT ![account.sub] = x]
          BY <2>2, <4>1
        <4>3. [subs EXCEPT ![account.sub] = x] = subs
          BY <1>1, <3>2
        <4> QED
          BY <1>1, <4>2, <4>3
      <3> QED
        BY <3>1, <3>2
    <2> QED
      BY <2>1, <2>2 DEF CancelAnswered
  <1> QED
    BY <1>1, <1>2, NotesStay, OutsideKeeps

LEMMA DeliverKeeps ==
  ASSUME CreditInv, NEW h \in Handlers, NEW n \in 1..MaxNotes, Deliver(h, n)
  PROVE  CreditInv'
  <1>1. /\ BillingShape /\ n \in DOMAIN notes /\ subs' = subs /\ subs \in Seq(SubSet)
        /\ UNCHANGED <<events, account>> /\ hooks \in [Handlers -> HookSet]
        /\ account.balance \in Nat /\ DOMAIN notes = 1..Len(notes) /\ Len(notes) \in Nat
    BY DEF CreditInv, BillingShape, Deliver, Outside, AccountSet
  <1>2. CASE notes' = [notes EXCEPT ![n].due = FALSE] /\ hooks' = hooks
    BY <1>1, <1>2, DueChanges, OutsideKeeps
  <1>3. CASE /\ Claimable(n) /\ notes' = notes
             /\ hooks' = [hooks EXCEPT ![h] = [note |-> n, read |-> account.balance]]
    <2> DEFINE x == [note |-> n, read |-> account.balance]
    <2>1. x \in HookSet /\ x.note = n /\ x.read = account.balance
      BY <1>1 DEF HookSet
    <2> HIDE DEF x
    <2>2. /\ hooks' \in [Handlers -> HookSet] /\ hooks'[h] = x
          /\ \A g \in Handlers : g # h => hooks'[g] = hooks[g]
      BY <1>1, <1>3, <2>1 DEF x
    <2>3. n \notin events /\ \A g \in Handlers : hooks[g].note # n
      BY <1>3 DEF Claimable
    <2>4. BillingShape'
      BY <1>1, <1>3, <2>2 DEF BillingShape
    <2>5. PurchasesOnce'
      BY <1>1, <1>3 DEF CreditInv, PurchasesOnce, Paid
    <2>6. HooksApart'
      BY <1>1, <1>3, <2>1, <2>2, <2>3 DEF CreditInv, HooksApart, PurchasesOnce
    <2> QED
      BY <2>4, <2>5, <2>6 DEF CreditInv
  <1> QED
    BY <1>2, <1>3 DEF Deliver

LEMMA RollbackKeeps ==
  ASSUME CreditInv, NEW h \in Handlers, Rollback(h)
  PROVE  CreditInv'
  <1>1. /\ UNCHANGED <<notes, subs, events, account>> /\ hooks' = [hooks EXCEPT ![h] = Resting]
        /\ hooks \in [Handlers -> HookSet]
    BY DEF CreditInv, BillingShape, Rollback, Outside
  <1>2. /\ Resting \in HookSet /\ Resting.note = 0
    BY DEF Resting, HookSet
  <1>3. /\ hooks' \in [Handlers -> HookSet] /\ hooks'[h] = Resting
        /\ \A g \in Handlers : g # h => hooks'[g] = hooks[g]
    BY <1>1, <1>2
  <1>4. BillingShape' /\ PurchasesOnce'
    BY <1>1, <1>3 DEF CreditInv, BillingShape, PurchasesOnce, Paid
  <1>5. \A g \in Handlers : hooks[g] # Resting => hooks[g].note # 0
    BY DEF CreditInv, HooksApart, BillingShape
  <1>6. HooksApart'
    BY <1>1, <1>2, <1>3, <1>5 DEF CreditInv, HooksApart
  <1> QED
    BY <1>4, <1>6 DEF CreditInv

\* The row of the subscription changes, and what was bought does not.
LEMMA RowChanges ==
  ASSUME BillingShape, NEW n \in DOMAIN notes, ~Paid(n), NEW read
  PROVE  /\ Handled(n, read) \in AccountSet
         /\ Handled(n, read).purchases = account.purchases
         /\ Handled(n, read).balance = account.balance
  <1>1. notes[n] \in NoteSet /\ account \in AccountSet
    BY DEF BillingShape
  <1>2. CASE notes[n].kind = "created"
    <2>1. PICK s : s = notes[n].sub
      OBVIOUS
    <2>2. s \in Nat /\ subs[s].plan \in Plans
      <3>1. s \in DOMAIN subs /\ subs \in Seq(SubSet)
        BY <1>2, <2>1 DEF BillingShape
      <3>2. subs[s] \in SubSet /\ s \in Nat
        BY <3>1
      <3> QED
        BY <3>2 DEF SubSet
    <2>3. Handled(n, read) = [account EXCEPT !.sub = s, !.st = "active", !.tier = subs[s].plan]
      BY <1>2, <2>1 DEF Handled, ProvisionTier
    <2>4. PICK p \in Plans : p = subs[s].plan
      BY <2>2
    <2>5. Handled(n, read) = [account EXCEPT !.sub = s, !.st = "active", !.tier = p]
      BY <2>3, <2>4
    <2> QED
      BY <1>1, <2>2, <2>5 DEF AccountSet
  <1>3. CASE notes[n].kind = "updated"
    <2>1. notes[n].status \in {"active", "past_due", "canceled", "none"}
      BY <1>1 DEF NoteSet
    <2>2. \/ Handled(n, read) = account
          \/ \E st \in {"active", "past_due", "canceled", "none"} :
                Handled(n, read) = [account EXCEPT !.st = st]
      BY <1>3, <2>1 DEF Handled, SubscriptionUpdated
    <2> QED
      BY <1>1, <2>2 DEF AccountSet
  <1>4. CASE notes[n].kind = "canceled"
    <2>1. \E st \in {account.st, "canceled"} :
             Handled(n, read) = [account EXCEPT !.st = st, !.tier = "free"]
      BY <1>4 DEF Handled, CancelOrDowngrade
    <2> QED
      BY <1>1, <2>1 DEF AccountSet
  <1> QED
    BY <1>1, <1>2, <1>3, <1>4 DEF NoteSet, Paid

\* A payment is added to the purchases, and to the balance that was read.
LEMMA PackIsAdded ==
  ASSUME BillingShape, NEW n \in DOMAIN notes, Paid(n), NEW read \in Nat
  PROVE  /\ Handled(n, read) \in AccountSet
         /\ Handled(n, read).purchases = Append(account.purchases, n)
         /\ Handled(n, read).balance \in {account.balance, read + 1}
  <1>1. account \in AccountSet /\ account.purchases \in Seq(Nat) /\ account.balance \in Nat
    BY DEF BillingShape, AccountSet
  <1>2. n \in Nat
    BY DEF BillingShape
  <1>3. PICK q : q = Append(account.purchases, n)
    OBVIOUS
  <1>4. q \in Seq(Nat)
    BY <1>1, <1>2, <1>3
  <1>5. PICK b \in {account.balance, read + 1} :
           Handled(n, read) = [account EXCEPT !.balance = b, !.purchases = q]
    BY <1>3 DEF Handled, AddCredits, Paid
  <1>6. b \in Nat
    BY <1>1, <1>5
  <1>7. [account EXCEPT !.balance = b, !.purchases = q] \in AccountSet
    BY <1>1, <1>4, <1>6 DEF AccountSet
  <1>8. /\ [account EXCEPT !.balance = b, !.purchases = q].purchases = q
        /\ [account EXCEPT !.balance = b, !.purchases = q].balance = b
    BY <1>1 DEF AccountSet
  <1> QED
    BY <1>3, <1>5, <1>7, <1>8

LEMMA CommitKeeps ==
  ASSUME CreditInv, NEW h \in Handlers, Commit(h)
  PROVE  CreditInv'
  <1>1. PICK n : n = hooks[h].note
    OBVIOUS
  <1>2. PICK read : read = hooks[h].read
    OBVIOUS
  <1>3. /\ account' = Handled(n, read) /\ events' = events \cup {n} /\ subs' = subs
        /\ hooks' = [hooks EXCEPT ![h] = Resting] /\ hooks[h] # Resting
        /\ notes' = notes \/ notes' = [notes EXCEPT ![n].due = FALSE]
    BY <1>1, <1>2 DEF Commit, Outside
  <1>4. /\ BillingShape /\ n \in DOMAIN notes /\ n \notin events /\ read <= Len(account.purchases)
        /\ hooks \in [Handlers -> HookSet] /\ read \in Nat
        /\ account \in AccountSet /\ account.purchases \in Seq(Nat) /\ account.balance \in Nat
        /\ events \subseteq DOMAIN notes
    BY <1>1, <1>2, <1>3 DEF CreditInv, BillingShape, HooksApart, HookSet, AccountSet
  <1>5. NotesGrow /\ DOMAIN notes' = DOMAIN notes
    BY <1>3, <1>4, NotesStay, DueChanges
  <1>6. /\ Resting \in HookSet /\ Resting.note = 0
    BY DEF Resting, HookSet
  <1>7. /\ hooks' \in [Handlers -> HookSet] /\ hooks'[h] = Resting
        /\ \A g \in Handlers : g # h => hooks'[g] = hooks[g]
    BY <1>3, <1>4, <1>6
  <1>8. /\ account' \in AccountSet
        /\ ~Paid(n) => account'.purchases = account.purchases /\ account'.balance = account.balance
        /\ Paid(n) => /\ account'.purchases = Append(account.purchases, n)
                      /\ account'.balance \in {account.balance, read + 1}
    BY <1>3, <1>4, RowChanges, PackIsAdded
  <1>9. BillingShape'
    BY <1>3, <1>4, <1>5, <1>7, <1>8 DEF BillingShape, NotesGrow
  <1>10. Len(account.purchases) <= Len(account.purchases)'
    BY <1>4, <1>8
  <1>11. HooksApart'
    <2>1. ASSUME NEW g \in Handlers, hooks'[g] # Resting
          PROVE  /\ hooks'[g].note \in DOMAIN notes' \ events'
                 /\ hooks'[g].read <= Len(account'.purchases)
      <3>1. g # h /\ hooks'[g] = hooks[g] /\ hooks[g].note # n
        BY <1>1, <1>3, <1>7, <2>1 DEF CreditInv, HooksApart
      <3>2. hooks[g].note \in DOMAIN notes \ events /\ hooks[g].read <= Len(account.purchases)
        BY <2>1, <3>1 DEF CreditInv, HooksApart
      <3>3. hooks[g].read \in Nat /\ Len(account.purchases) \in Nat /\ Len(account'.purchases) \in Nat
        BY <1>4, <1>8 DEF HookSet, AccountSet
      <3> QED
        BY <1>3, <1>5, <1>10, <3>1, <3>2, <3>3
    <2>2. ASSUME NEW f \in Handlers, NEW g \in Handlers, hooks'[f] # Resting,
                 hooks'[f].note = hooks'[g].note
          PROVE  f = g
      <3>1. f # h /\ hooks'[f] = hooks[f] /\ hooks[f].note # 0
        BY <1>4, <1>7, <2>2 DEF CreditInv, HooksApart, BillingShape
      <3>2. g # h
        BY <1>6, <1>7, <2>2, <3>1
      <3> QED
        BY <1>7, <2>2, <3>1, <3>2 DEF CreditInv, HooksApart
    <2> QED
      BY <2>1, <2>2 DEF HooksApart
  <1>12. \A k \in DOMAIN notes : Paid(k)' <=> Paid(k)
    BY <1>5 DEF NotesGrow, Paid
  <1>13. CASE ~Paid(n)
    <2>1. PurchasesOnce'
      BY <1>3, <1>4, <1>8, <1>12, <1>13 DEF CreditInv, PurchasesOnce
    <2> QED
      BY <1>9, <1>11, <2>1 DEF CreditInv
  <1>14. CASE Paid(n)
    <2>1. PICK q : q = account.purchases
      OBVIOUS
    <2>2. /\ q \in Seq(Nat) /\ account'.purchases = Append(q, n)
      BY <1>4, <1>8, <1>14, <2>1
    <2>3. /\ DOMAIN q = 1..Len(q) /\ Len(q) \in Nat /\ DOMAIN account'.purchases = 1..(Len(q) + 1)
          /\ Len(account'.purchases) = Len(q) + 1 /\ account'.purchases[Len(q) + 1] = n
          /\ \A i \in DOMAIN q : account'.purchases[i] = q[i]
      BY <1>4, <2>2
    <2>4. /\ \A i \in DOMAIN q : q[i] \in events /\ Paid(q[i])
          /\ \A i, j \in DOMAIN q : q[i] = q[j] => i = j
          /\ \A k \in events : Paid(k) => \E i \in DOMAIN q : q[i] = k
          /\ account.balance <= Len(q) /\ read <= Len(q)
      BY <1>4, <2>1 DEF CreditInv, PurchasesOnce
    <2>5. \A i \in DOMAIN account'.purchases :
             account'.purchases[i] \in events' /\ notes'[account'.purchases[i]].kind = "paid"
      <3>1. ASSUME NEW i \in DOMAIN account'.purchases
            PROVE  account'.purchases[i] \in DOMAIN notes /\ account'.purchases[i] \in events \cup {n}
                      /\ Paid(account'.purchases[i])
        BY <1>4, <1>14, <2>3, <2>4
      <3> QED
        BY <1>3, <1>12, <3>1 DEF Paid
    <2>6. \A i, j \in DOMAIN account'.purchases : account'.purchases[i] = account'.purchases[j] => i = j
      <3>1. n \notin events
        BY <1>4
      <3>2. ASSUME NEW i \in DOMAIN account'.purchases
            PROVE  (i \in DOMAIN q /\ account'.purchases[i] = q[i] /\ q[i] # n) \/ i = Len(q) + 1
        <4>1. i \in DOMAIN q \/ i = Len(q) + 1
          BY <2>3
        <4>2. i \in DOMAIN q => account'.purchases[i] = q[i] /\ q[i] # n
          BY <2>3, <2>4, <3>1
        <4> QED
          BY <4>1, <4>2
      <3>3. account'.purchases[Len(q) + 1] = n /\ \A i, j \in DOMAIN q : q[i] = q[j] => i = j
        BY <2>3, <2>4
      <3> QED
        BY <3>2, <3>3
    <2>7. \A k \in events' : Paid(k)' => \E i \in DOMAIN account'.purchases : account'.purchases[i] = k
      BY <1>3, <1>4, <1>12, <2>3, <2>4
    <2>8. account'.balance <= Len(account'.purchases)
      BY <1>4, <1>8, <1>14, <2>3, <2>4
    <2>9. PurchasesOnce'
      BY <2>5, <2>6, <2>7, <2>8 DEF PurchasesOnce, Paid
    <2> QED
      BY <1>9, <1>11, <2>9 DEF CreditInv
  <1> QED
    BY <1>13, <1>14

\* Pages and dialogs.
LEMMA PagesRest ==
  ASSUME CreditInv, UNCHANGED <<subs, notes, events, hooks, account>>
  PROVE  CreditInv'
  <1>1. BillingShape /\ subs \in Seq(SubSet)
    BY DEF CreditInv, BillingShape
  <1> QED
    BY <1>1, NotesStay, OutsideKeeps

LEMMA CreditNext == CreditInv /\ [Next]_accountsVars => CreditInv'
  <1> SUFFICES ASSUME CreditInv, BillingNext \/ UNCHANGED billingVars PROVE CreditInv'
    BY OnePart
  <1>1. CASE UNCHANGED billingVars
    BY <1>1, PagesRest DEF billingVars
  <1>2. CASE Alone
    BY <1>2, PagesRest DEF Alone, Inside
  <1>3. CASE \/ \E p \in {"app", "pricing", "billing", "settings"} : VisitPage(p)
             \/ Refetch \/ CloseBanner \/ LimitReached \/ CloseUpgrade \/ HandleUpgrade
             \/ \E item \in Items : Purchase(item)
             \/ \E c \in 1..MaxCheckouts : CheckoutFails(c) \/ Created(c)
             \/ ScriptLoaded \/ ScriptFails \/ Dismiss
    <2>1. Alone
      BY <1>3, Zenon DEF VisitPage, Refetch, CloseBanner, LimitReached, CloseUpgrade, HandleUpgrade,
               Purchase, CheckoutFails, Created, ScriptLoaded, ScriptFails, Dismiss
    <2> QED
      BY <1>2, <2>1
  <1>4. CASE HandleUpdatePayment \/ AskCancel \/ GoBack \/ ConfirmCancel \/ UrlArrives
    <2>1. Alone
      BY <1>4, Zenon DEF HandleUpdatePayment, AskCancel, GoBack, ConfirmCancel, UrlArrives, Manage
    <2> QED
      BY <1>2, <2>1
  <1>5. CASE Pay \/ CancelAnswered \/ \E s \in 1..MaxCheckouts : Activate(s) \/ Fall(s) \/ End(s)
    BY <1>5, ServiceKeeps, CancelKeeps
  <1>6. CASE \E h \in Handlers : Commit(h) \/ Rollback(h) \/ (\E n \in 1..MaxNotes : Deliver(h, n))
    BY <1>6, CommitKeeps, RollbackKeeps, DeliverKeeps
  <1> QED
    BY <1>1, <1>3, <1>4, <1>5, <1>6 DEF BillingNext

\* What was paid counts once, for any number of handlers and however often Paddle repeats
\* a notification or a handler dies.
THEOREM PaymentsCountOnce == Spec => []CreditsOnce
  <1>1. Init => CreditInv
    BY CreditInit DEF Init
  <1>2. CreditInv => CreditsOnce
    <2> SUFFICES ASSUME CreditInv PROVE CreditsOnce
      OBVIOUS
    <2>1. ASSUME NEW n \in DOMAIN notes
          PROVE  Cardinality({i \in DOMAIN account.purchases : account.purchases[i] = n})
                    = IF notes[n].kind = "paid" /\ n \in events THEN 1 ELSE 0
      <3> DEFINE I == {i \in DOMAIN account.purchases : account.purchases[i] = n}
      <3>1. CASE notes[n].kind = "paid" /\ n \in events
        <4>1. PICK i \in DOMAIN account.purchases : account.purchases[i] = n
          BY <3>1 DEF CreditInv, PurchasesOnce, Paid
        <4>3. I = {i}
          BY <4>1 DEF CreditInv, PurchasesOnce
        <4>2. Cardinality({i}) = 1
          BY FS_Singleton
        <4> QED
          BY <3>1, <4>2, <4>3
      <3>2. CASE ~(notes[n].kind = "paid" /\ n \in events)
        <4>1. I = {}
          BY <3>2 DEF CreditInv, PurchasesOnce, Paid
        <4>2. Cardinality({}) = 0
          BY FS_EmptySet
        <4> QED
          BY <3>2, <4>1, <4>2
      <3> QED
        BY <3>1, <3>2
    <2> QED
      BY <2>1 DEF CreditsOnce, CreditInv, PurchasesOnce
  <1> QED
    BY <1>1, <1>2, CreditNext, PTL DEF Spec

-----------------------------------------------------------------------------
\* The pages with what can be bought, and the window of the payment service.

CheckoutSet == [item : Items, slot : {"tier", "credit", "pack"},
                st : {"asked", "waiting", "open", "over"}, here : BOOLEAN]

WaitSet == [tier : Plans \cup {"none"}, credit : Packs \cup {"none"}, pack : Packs \cup {"none"},
            error : BOOLEAN]

\* The window is that of a checkout which is open, and its callback that of some checkout.
ShopInv ==
    /\ screen \in {"app", "pricing", "billing", "settings"} /\ wait \in WaitSet
    /\ checkouts \in Seq(CheckoutSet) /\ script \in {"no", "loading", "ready"}
    /\ window \in [of : Nat, callback : Nat]
    /\ window.of # 0 => window.of \in DOMAIN checkouts /\ checkouts[window.of].st = "open"
    /\ window.callback # 0 => window.callback \in DOMAIN checkouts
    /\ WaitingIsLoading

LEMMA NothingWaits == Nothing \in WaitSet
  BY DEF WaitSet, Nothing

LEMMA ShopInit == BillingInit => ShopInv
  <1> SUFFICES ASSUME BillingInit PROVE ShopInv
    OBVIOUS
  <1>1. /\ screen = "app" /\ wait = Nothing /\ checkouts = <<>> /\ script = "no" /\ window = Closed
    BY DEF BillingInit
  <1>2. wait \in WaitSet
    BY <1>1, NothingWaits
  <1>3. window \in [of : Nat, callback : Nat] /\ window.of = 0 /\ window.callback = 0
    BY <1>1 DEF Closed
  <1>4. checkouts \in Seq(CheckoutSet) /\ Waiting = {}
    BY <1>1 DEF Waiting
  <1> QED
    BY <1>1, <1>2, <1>3, <1>4 DEF ShopInv, WaitingIsLoading

LEMMA ShopRests ==
  ASSUME ShopInv, UNCHANGED <<screen, wait, checkouts, script, window>>
  PROVE  ShopInv'
  BY DEF ShopInv, WaitingIsLoading, Waiting

\* As many checkouts as there were.
LEMMA SameCheckouts ==
  ASSUME checkouts \in Seq(CheckoutSet), DOMAIN checkouts' = DOMAIN checkouts,
         checkouts' = [c \in DOMAIN checkouts |-> checkouts'[c]],
         \A c \in DOMAIN checkouts : checkouts'[c] \in CheckoutSet
  PROVE  checkouts' \in Seq(CheckoutSet)
  <1>1. Len(checkouts) \in Nat /\ DOMAIN checkouts = 1 .. Len(checkouts)
    BY Counted
  <1> QED
    BY <1>1

LEMMA LeftCheckouts ==
  ASSUME checkouts \in Seq(CheckoutSet), checkouts' = Left
  PROVE  /\ checkouts' \in Seq(CheckoutSet) /\ DOMAIN checkouts' = DOMAIN checkouts
         /\ \A c \in DOMAIN checkouts : checkouts'[c].st = checkouts[c].st
  <1>1. /\ DOMAIN checkouts' = DOMAIN checkouts
        /\ \A c \in DOMAIN checkouts : checkouts'[c] = [checkouts[c] EXCEPT !.here = FALSE]
        /\ checkouts' = [c \in DOMAIN checkouts |-> checkouts'[c]]
    BY DEF Left
  <1>2. \A c \in DOMAIN checkouts : checkouts[c] \in CheckoutSet
    OBVIOUS
  <1>3. ASSUME NEW c \in DOMAIN checkouts
        PROVE  checkouts'[c] \in CheckoutSet /\ checkouts'[c].st = checkouts[c].st
    <2>1. PICK x \in CheckoutSet : x = checkouts[c]
      BY <1>2
    <2>2. checkouts'[c] = [x EXCEPT !.here = FALSE]
      BY <1>1, <2>1
    <2> QED
      BY <2>1, <2>2 DEF CheckoutSet
  <1> QED
    BY <1>1, <1>3, SameCheckouts

LEMMA OverCheckouts ==
  ASSUME checkouts \in Seq(CheckoutSet), NEW cs, checkouts' = Over(cs)
  PROVE  /\ checkouts' \in Seq(CheckoutSet) /\ DOMAIN checkouts' = DOMAIN checkouts
         /\ \A c \in DOMAIN checkouts :
               checkouts'[c].st = IF c \in cs THEN "over" ELSE checkouts[c].st
  <1>1. /\ DOMAIN checkouts' = DOMAIN checkouts
        /\ \A c \in DOMAIN checkouts :
              checkouts'[c] = IF c \in cs THEN [checkouts[c] EXCEPT !.st = "over", !.here = FALSE]
                              ELSE checkouts[c]
        /\ checkouts' = [c \in DOMAIN checkouts |-> checkouts'[c]]
    BY DEF Over
  <1>2. \A c \in DOMAIN checkouts : checkouts[c] \in CheckoutSet
    OBVIOUS
  <1>3. ASSUME NEW c \in DOMAIN checkouts
        PROVE  /\ checkouts'[c] \in CheckoutSet
               /\ checkouts'[c].st = IF c \in cs THEN "over" ELSE checkouts[c].st
    <2>1. PICK x \in CheckoutSet : x = checkouts[c]
      BY <1>2
    <2>2. PICK y : y = [x EXCEPT !.st = "over", !.here = FALSE]
      OBVIOUS
    <2>3. y \in CheckoutSet /\ y.st = "over"
      BY <2>1, <2>2 DEF CheckoutSet
    <2>4. checkouts'[c] = IF c \in cs THEN y ELSE x
      BY <1>1, <2>1, <2>2
    <2> QED
      BY <2>1, <2>3, <2>4
  <1> QED
    BY <1>1, <1>3, SameCheckouts

LEMMA OneCheckout ==
  ASSUME checkouts \in Seq(CheckoutSet), NEW c \in DOMAIN checkouts,
         NEW st \in {"asked", "waiting", "open", "over"}, checkouts' = [checkouts EXCEPT ![c].st = st]
  PROVE  /\ checkouts' \in Seq(CheckoutSet) /\ DOMAIN checkouts' = DOMAIN checkouts
         /\ checkouts'[c].st = st
         /\ \A d \in DOMAIN checkouts : d # c => checkouts'[d].st = checkouts[d].st
  <1>1. PICK x : x = [checkouts[c] EXCEPT !.st = st]
    OBVIOUS
  <1>2. checkouts[c] \in CheckoutSet
    OBVIOUS
  <1>3. x \in CheckoutSet /\ x.st = st
    BY <1>1, <1>2 DEF CheckoutSet
  <1>4. PICK Q : Q = [checkouts EXCEPT ![c] = x]
    OBVIOUS
  <1>5. checkouts' = Q
    BY <1>1, <1>4
  <1>6. /\ Q \in Seq(CheckoutSet) /\ DOMAIN Q = DOMAIN checkouts /\ Q[c] = x
        /\ \A d \in DOMAIN checkouts : d # c => Q[d] = checkouts[d]
    BY <1>3, <1>4, OneWritten
  <1> QED
    BY <1>3, <1>5, <1>6

\* A button waits, or does so no more.
LEMMA WaitChanges ==
  ASSUME NEW w \in WaitSet, NEW slot \in {"tier", "credit", "pack"}, NEW item,
         slot = "tier" => item \in Plans \cup {"none"}, slot # "tier" => item \in Packs \cup {"none"}
  PROVE  [w EXCEPT ![slot] = item] \in WaitSet
  <1>1. CASE slot = "tier"
    BY <1>1 DEF WaitSet
  <1>2. CASE slot = "credit"
    BY <1>2 DEF WaitSet
  <1>3. CASE slot = "pack"
    BY <1>3 DEF WaitSet
  <1> QED
    BY <1>1, <1>2, <1>3

LEMMA ErrorChanges ==
  ASSUME NEW w \in WaitSet, NEW error \in BOOLEAN
  PROVE  [w EXCEPT !.error = error] \in WaitSet
  BY DEF WaitSet

LEMMA FreedWaits ==
  ASSUME ShopInv, NEW c \in DOMAIN checkouts
  PROVE  Freed(c) \in WaitSet
  <1>1. checkouts[c].slot \in {"tier", "credit", "pack"} /\ wait \in WaitSet
    <2>1. checkouts[c] \in CheckoutSet
      BY DEF ShopInv
    <2> QED
      BY <2>1 DEF CheckoutSet, ShopInv
  <1>2. PICK slot \in {"tier", "credit", "pack"} : slot = checkouts[c].slot
    BY <1>1
  <1>3. PICK w : w = [wait EXCEPT ![slot] = "none"]
    OBVIOUS
  <1>4. w \in WaitSet
    BY <1>1, <1>3, WaitChanges
  <1>5. Freed(c) \in {wait, w}
    BY <1>2, <1>3 DEF Freed
  <1> QED
    BY <1>1, <1>4, <1>5

\* The script and the window stay as they are, and so does who waits for them.
LEMMA ShopMoves ==
  ASSUME ShopInv, screen' \in {"app", "pricing", "billing", "settings"}, wait' \in WaitSet,
         checkouts' \in Seq(CheckoutSet), DOMAIN checkouts \subseteq DOMAIN checkouts',
         UNCHANGED <<script, window>>,
         \A c \in DOMAIN checkouts' :
            checkouts'[c].st = "waiting" <=> c \in DOMAIN checkouts /\ checkouts[c].st = "waiting",
         \A c \in DOMAIN checkouts : checkouts[c].st = "open" => checkouts'[c].st = "open"
  PROVE  ShopInv'
  <1>1. Waiting' = Waiting
    BY DEF Waiting
  <1>2. WaitingIsLoading'
    BY <1>1 DEF ShopInv, WaitingIsLoading
  <1> QED
    BY <1>2 DEF ShopInv

\* A page is left, or another one is shown.
LEMMA FreshKeeps ==
  ASSUME ShopInv, Fresh, screen' \in {"app", "pricing", "billing", "settings"}, UNCHANGED <<script, window>>
  PROVE  ShopInv'
  <1>1. checkouts' = Left /\ wait' \in WaitSet /\ checkouts \in Seq(CheckoutSet)
    BY NothingWaits DEF Fresh, ShopInv
  <1>2. /\ checkouts' \in Seq(CheckoutSet) /\ DOMAIN checkouts' = DOMAIN checkouts
        /\ \A c \in DOMAIN checkouts : checkouts'[c].st = checkouts[c].st
    BY <1>1, LeftCheckouts
  <1> QED
    BY <1>1, <1>2, ShopMoves

LEMMA PurchaseKeeps ==
  ASSUME ShopInv, NEW item \in Items, Purchase(item)
  PROVE  ShopInv'
  <1>1. PICK slot : slot = Slot(item)
    OBVIOUS
  <1>2. /\ slot \in {"tier", "credit", "pack"} /\ (slot = "tier" => item \in Plans)
        /\ (slot # "tier" => item \in Packs)
    BY <1>1 DEF Slot, Items
  <1>3. PICK w : w = [wait EXCEPT ![slot] = item]
    OBVIOUS
  <1>4. w \in WaitSet
    BY <1>2, <1>3, WaitChanges DEF ShopInv
  <1>5. [w EXCEPT !.error = FALSE] \in WaitSet
    BY <1>4, ErrorChanges
  <1>6. wait' = [wait EXCEPT ![slot] = item, !.error = FALSE]
    BY <1>1 DEF Purchase
  <1>7. [wait EXCEPT ![slot] = item, !.error = FALSE] = [w EXCEPT !.error = FALSE]
    BY <1>3
  <1>8. PICK x : x = [item |-> item, slot |-> slot, st |-> "asked", here |-> TRUE]
    OBVIOUS
  <1>9. x \in CheckoutSet /\ x.st = "asked" /\ checkouts' = Append(checkouts, x)
    BY <1>1, <1>2, <1>8 DEF CheckoutSet, Purchase
  <1>10. /\ checkouts \in Seq(CheckoutSet) /\ checkouts' \in Seq(CheckoutSet)
         /\ DOMAIN checkouts = 1 .. Len(checkouts) /\ Len(checkouts) \in Nat
         /\ DOMAIN checkouts' = 1 .. (Len(checkouts) + 1) /\ checkouts'[Len(checkouts) + 1] = x
         /\ \A c \in DOMAIN checkouts : checkouts'[c] = checkouts[c]
    BY <1>9 DEF ShopInv
  <1>11. UNCHANGED <<screen, script, window>>
    BY DEF Purchase
  <1>12. screen' \in {"app", "pricing", "billing", "settings"}
    BY <1>11 DEF ShopInv
  <1>13. DOMAIN checkouts \subseteq DOMAIN checkouts'
    BY <1>10
  <1>14. ASSUME NEW c \in DOMAIN checkouts'
         PROVE  checkouts'[c].st = "waiting" <=> c \in DOMAIN checkouts /\ checkouts[c].st = "waiting"
    <2>1. PICK n \in Nat : n = Len(checkouts)
      BY <1>10
    <2>2. DOMAIN checkouts = 1 .. n /\ c \in 1 .. (n + 1)
      BY <1>10, <2>1
    <2>3. CASE c \in DOMAIN checkouts
      BY <1>10, <2>3
    <2>4. CASE c \notin DOMAIN checkouts
      <3>1. c = n + 1
        BY <2>2, <2>4
      <3> QED
        BY <1>9, <1>10, <2>1, <2>4, <3>1
    <2> QED
      BY <2>3, <2>4
  <1> QED
    BY <1>5, <1>6, <1>7, <1>10, <1>11, <1>12, <1>13, <1>14, ShopMoves

LEMMA FailureKeeps ==
  ASSUME ShopInv, NEW c, CheckoutFails(c)
  PROVE  ShopInv'
  <1>1. /\ c \in DOMAIN checkouts /\ checkouts[c].st = "asked" /\ checkouts' = Over({c})
        /\ wait' = IF checkouts[c].here THEN [Freed(c) EXCEPT !.error = TRUE] ELSE wait
        /\ UNCHANGED <<screen, script, window>> /\ checkouts \in Seq(CheckoutSet)
    BY DEF CheckoutFails, ShopInv
  <1>2. wait' \in WaitSet
    <2>1. [Freed(c) EXCEPT !.error = TRUE] \in WaitSet
      BY <1>1, FreedWaits, ErrorChanges
    <2> QED
      BY <1>1, <2>1 DEF ShopInv
  <1>3. /\ checkouts' \in Seq(CheckoutSet) /\ DOMAIN checkouts' = DOMAIN checkouts
        /\ \A d \in DOMAIN checkouts : checkouts'[d].st = IF d \in {c} THEN "over" ELSE checkouts[d].st
    BY <1>1, OverCheckouts
  <1>4. screen' \in {"app", "pricing", "billing", "settings"}
    BY <1>1 DEF ShopInv
  <1>5. \A d \in DOMAIN checkouts : /\ checkouts'[d].st = "waiting" <=> checkouts[d].st = "waiting"
                                    /\ checkouts[d].st = "open" => checkouts'[d].st = "open"
    BY <1>1, <1>3
  <1> QED
    BY <1>1, <1>2, <1>3, <1>4, <1>5, ShopMoves

\* The transaction is there: its window opens, or it waits for the script.
LEMMA CreatedKeeps ==
  ASSUME ShopInv, NEW c, Created(c)
  PROVE  ShopInv'
  <1>1. /\ c \in DOMAIN checkouts /\ checkouts[c].st = "asked" /\ UNCHANGED <<screen, wait>>
        /\ checkouts \in Seq(CheckoutSet)
    BY DEF Created, ShopInv
  <1>2. c \in Nat /\ c # 0
    <2>1. DOMAIN checkouts = 1 .. Len(checkouts)
      BY <1>1, Counted
    <2> QED
      BY <1>1, <2>1
  <1>3. CASE script = "ready" /\ Open(c) /\ checkouts' = [checkouts EXCEPT ![c].st = "open"] /\ script' = script
    <2>1. /\ checkouts' \in Seq(CheckoutSet) /\ DOMAIN checkouts' = DOMAIN checkouts
          /\ checkouts'[c].st = "open"
          /\ \A d \in DOMAIN checkouts : d # c => checkouts'[d].st = checkouts[d].st
      BY <1>1, <1>3, OneCheckout
    <2>2. Waiting' = Waiting
      BY <1>1, <2>1 DEF Waiting
    <2>3. window' \in [of : Nat, callback : Nat] /\ window'.of = c /\ window'.callback = c
      BY <1>2, <1>3 DEF Open
    <2> QED
      BY <1>1, <1>3, <2>1, <2>2, <2>3 DEF ShopInv, WaitingIsLoading
  <1>4. CASE script' = "loading" /\ checkouts' = [checkouts EXCEPT ![c].st = "waiting"] /\ window' = window
    <2>1. /\ checkouts' \in Seq(CheckoutSet) /\ DOMAIN checkouts' = DOMAIN checkouts
          /\ checkouts'[c].st = "waiting"
          /\ \A d \in DOMAIN checkouts : d # c => checkouts'[d].st = checkouts[d].st
      BY <1>1, <1>4, OneCheckout
    <2>2. c \in Waiting'
      BY <1>1, <2>1 DEF Waiting
    <2>3. window.of # 0 => window.of # c
      BY <1>1 DEF ShopInv
    <2> QED
      BY <1>1, <1>4, <2>1, <2>2, <2>3 DEF ShopInv, WaitingIsLoading
  <1> QED
    BY <1>3, <1>4 DEF Created

LEMMA ScriptKeeps ==
  ASSUME ShopInv, ScriptLoaded \/ ScriptFails
  PROVE  ShopInv'
  <1>1. checkouts \in Seq(CheckoutSet) /\ wait \in WaitSet
    BY DEF ShopInv
  <1>2. CASE ScriptLoaded
    <2>1. /\ script' = "ready" /\ UNCHANGED <<screen, wait>>
          /\ checkouts' = [c \in DOMAIN checkouts |->
                             IF c \in Waiting THEN [checkouts[c] EXCEPT !.st = "open"] ELSE checkouts[c]]
          /\ \E c \in Waiting : Open(c)
      BY <1>2 DEF ScriptLoaded
    <2>2. /\ DOMAIN checkouts' = DOMAIN checkouts /\ checkouts' = [c \in DOMAIN checkouts |-> checkouts'[c]]
          /\ \A c \in DOMAIN checkouts :
                checkouts'[c] = IF c \in Waiting THEN [checkouts[c] EXCEPT !.st = "open"] ELSE checkouts[c]
      BY <2>1
    <2>3. ASSUME NEW c \in DOMAIN checkouts
          PROVE  /\ checkouts'[c] \in CheckoutSet
                 /\ checkouts'[c].st = IF c \in Waiting THEN "open" ELSE checkouts[c].st
      <3>1. PICK x \in CheckoutSet : x = checkouts[c]
        BY <1>1
      <3>2. PICK y : y = [x EXCEPT !.st = "open"]
        OBVIOUS
      <3>3. y \in CheckoutSet /\ y.st = "open"
        BY <3>1, <3>2 DEF CheckoutSet
      <3>4. checkouts'[c] = IF c \in Waiting THEN y ELSE x
        BY <2>2, <3>1, <3>2
      <3> QED
        BY <3>1, <3>3, <3>4
    <2>4. checkouts' \in Seq(CheckoutSet)
      BY <1>1, <2>2, <2>3, SameCheckouts
    <2>5. Waiting' = {}
      BY <2>2, <2>3 DEF Waiting
    <2>6. PICK c \in Waiting : window' = [of |-> c, callback |-> c]
      BY <2>1 DEF Open
    <2>7. c \in DOMAIN checkouts /\ c \in Nat /\ checkouts'[c].st = "open"
      <3>1. DOMAIN checkouts = 1 .. Len(checkouts) /\ c \in DOMAIN checkouts
        BY <1>1, Counted DEF Waiting
      <3> QED
        BY <2>3, <3>1
    <2>8. window' \in [of : Nat, callback : Nat] /\ window'.of = c /\ window'.callback = c
      BY <2>6, <2>7
    <2> QED
      BY <2>1, <2>2, <2>4, <2>5, <2>7, <2>8 DEF ShopInv, WaitingIsLoading
  <1>3. CASE ScriptFails
    <2>1. PICK here : here = {c \in Waiting : checkouts[c].here}
      OBVIOUS
    <2>2. /\ script' = "no" /\ checkouts' = Over(Waiting) /\ UNCHANGED <<screen, window>>
          /\ wait' = [s \in DOMAIN wait |-> IF s = "error" THEN wait.error \/ here # {}
                                            ELSE IF \E c \in here : checkouts[c].slot = s THEN "none" ELSE wait[s]]
      BY <1>3, <2>1 DEF ScriptFails, AfterFailure
    <2>3. /\ checkouts' \in Seq(CheckoutSet) /\ DOMAIN checkouts' = DOMAIN checkouts
          /\ \A c \in DOMAIN checkouts :
                checkouts'[c].st = IF c \in Waiting THEN "over" ELSE checkouts[c].st
      BY <1>1, <2>2, OverCheckouts
    <2>4. Waiting' = {}
      BY <2>3 DEF Waiting
    <2>5. wait' \in WaitSet
      BY <1>1, <2>2 DEF WaitSet
    <2>6. window.of # 0 => checkouts'[window.of].st = "open"
      BY <2>3 DEF ShopInv, Waiting
    <2> QED
      BY <2>2, <2>3, <2>4, <2>5, <2>6 DEF ShopInv, WaitingIsLoading
  <1> QED
    BY <1>2, <1>3

LEMMA WindowKeeps ==
  ASSUME ShopInv, Dismiss \/ Pay
  PROVE  ShopInv'
  <1>1. checkouts \in Seq(CheckoutSet) /\ wait \in WaitSet /\ Nothing \in WaitSet
    BY NothingWaits DEF ShopInv
  <1>2. Closed \in [of : Nat, callback : Nat] /\ Closed.of = 0 /\ Closed.callback = 0
    BY DEF Closed
  <1>3. CASE Dismiss
    <2>1. /\ window.of # 0 /\ window' = Closed /\ checkouts' = Over({window.of})
          /\ wait' = IF window.callback # 0 THEN Freed(window.callback) ELSE wait
          /\ UNCHANGED <<screen, script>>
      BY <1>3 DEF Dismiss
    <2>2. /\ checkouts' \in Seq(CheckoutSet) /\ DOMAIN checkouts' = DOMAIN checkouts
          /\ \A c \in DOMAIN checkouts :
                checkouts'[c].st = IF c \in {window.of} THEN "over" ELSE checkouts[c].st
      BY <1>1, <2>1, OverCheckouts
    <2>3. checkouts[window.of].st = "open"
      BY <2>1 DEF ShopInv
    <2>4. Waiting' = Waiting
      BY <2>2, <2>3 DEF Waiting
    <2>5. wait' \in WaitSet
      <3>1. CASE window.callback # 0
        <4>1. window.callback \in DOMAIN checkouts
          BY <3>1 DEF ShopInv
        <4> QED
          BY <2>1, <3>1, <4>1, FreedWaits
      <3>2. CASE window.callback = 0
        BY <1>1, <2>1, <3>2
      <3> QED
        BY <3>1, <3>2
    <2> QED
      BY <1>2, <2>1, <2>2, <2>4, <2>5 DEF ShopInv, WaitingIsLoading
  <1>4. CASE Pay
    <2>1. /\ window' = Closed /\ checkouts' = Over(DOMAIN checkouts) /\ wait' = Nothing
          /\ screen' = "billing" /\ script' = "no"
      BY <1>4 DEF Pay
    <2>2. /\ checkouts' \in Seq(CheckoutSet) /\ DOMAIN checkouts' = DOMAIN checkouts
          /\ \A c \in DOMAIN checkouts : checkouts'[c].st = "over"
      <3>1. PICK cs : cs = DOMAIN checkouts
        OBVIOUS
      <3> QED
        BY <1>1, <2>1, <3>1, OverCheckouts
    <2>3. Waiting' = {}
      BY <2>2 DEF Waiting
    <2> QED
      BY <1>1, <1>2, <2>1, <2>2, <2>3 DEF ShopInv, WaitingIsLoading
  <1> QED
    BY <1>3, <1>4

LEMMA ShopNext == ShopInv /\ (BillingNext \/ UNCHANGED billingVars) => ShopInv'
  <1> SUFFICES ASSUME ShopInv, BillingNext \/ UNCHANGED billingVars PROVE ShopInv'
    OBVIOUS
  <1>1. CASE UNCHANGED billingVars
    BY <1>1, ShopRests DEF billingVars
  <1>2. ASSUME NEW p \in {"app", "pricing", "billing", "settings"}, VisitPage(p) PROVE ShopInv'
    BY <1>2, FreshKeeps DEF VisitPage
  <1>3. CASE HandleUpgrade
    <2>1. /\ screen' = "pricing" /\ UNCHANGED <<script, window>>
          /\ IF screen = "pricing" THEN UNCHANGED <<wait, checkouts>> ELSE Fresh
      BY <1>3 DEF HandleUpgrade
    <2>2. CASE screen = "pricing"
      BY <2>1, <2>2, ShopRests
    <2>3. CASE screen # "pricing"
      BY <2>1, <2>3, FreshKeeps
    <2> QED
      BY <2>2, <2>3
  <1>4. CASE Refetch \/ CloseBanner \/ LimitReached \/ CloseUpgrade
    <2>1. UNCHANGED <<screen, wait, checkouts, script, window>>
      BY <1>4, Zenon DEF Refetch, CloseBanner, LimitReached, CloseUpgrade
    <2> QED
      BY <2>1, ShopRests
  <1>5. CASE HandleUpdatePayment \/ AskCancel \/ GoBack \/ ConfirmCancel \/ UrlArrives \/ CancelAnswered
    <2>1. UNCHANGED <<screen, wait, checkouts, script, window>>
      BY <1>5, Zenon DEF HandleUpdatePayment, AskCancel, GoBack, ConfirmCancel, UrlArrives, Manage, CancelAnswered
    <2> QED
      BY <2>1, ShopRests
  <1>6. CASE \E s \in 1..MaxCheckouts : Activate(s) \/ Fall(s) \/ End(s)
    <2>1. UNCHANGED <<screen, wait, checkouts, script, window>>
      BY <1>6, Zenon DEF Activate, Fall, End, buyVars
    <2> QED
      BY <2>1, ShopRests
  <1>7. CASE \E h \in Handlers : Commit(h) \/ Rollback(h) \/ (\E n \in 1..MaxNotes : Deliver(h, n))
    <2>1. UNCHANGED <<screen, wait, checkouts, script, window>>
      BY <1>7, Zenon DEF Commit, Rollback, Deliver, Outside, buyVars
    <2> QED
      BY <2>1, ShopRests
  <1>8. CASE BillingNext
    BY <1>2, <1>3, <1>4, <1>5, <1>6, <1>7, <1>8, PurchaseKeeps, FailureKeeps, CreatedKeeps, ScriptKeeps,
       WindowKeeps DEF BillingNext
  <1> QED
    BY <1>1, <1>8

-----------------------------------------------------------------------------
\* The row of the subscription.

ManageSet == [updating : BOOLEAN, confirm : BOOLEAN, canceling : BOOLEAN, done : BOOLEAN]

RowInv ==
    /\ account.sub \in 0 .. Len(subs) /\ TierIsOfTheRow
    /\ manage \in ManageSet /\ CancelIsScheduled /\ seen.tier \in Plans \cup {"free"}

LEMMA RowInit == BillingInit => RowInv
  <1> SUFFICES ASSUME BillingInit PROVE RowInv
    OBVIOUS
  <1>1. /\ account.sub = 0 /\ account.tier = "free" /\ Len(subs) = 0
        /\ manage = Unused /\ seen.tier = "free"
    BY DEF BillingInit, Unknown
  <1>2. Unused \in ManageSet /\ ~Unused.done
    BY DEF Unused, ManageSet
  <1> QED
    BY <1>1, <1>2 DEF RowInv, TierIsOfTheRow, CancelIsScheduled

\* A subscription keeps its plan, and one that will end or has ended is not active again.
SubsGrow ==
    /\ subs' \in Seq(SubSet) /\ Len(subs) <= Len(subs')
    /\ \A s \in DOMAIN subs : /\ subs'[s].plan = subs[s].plan
                              /\ subs[s].st # "active" => subs'[s].st # "active"

\* What the pages know and do about the subscription follows it.
LEMMA RowFollows ==
  ASSUME CreditInv, RowInv, SubsGrow, NEW a, account' = a,
         \/ a.sub = account.sub /\ a.tier \in {account.tier, "free"}
         \/ a.sub \in DOMAIN subs /\ a.tier = subs[a.sub].plan,
         manage' \in ManageSet, manage'.done => manage.done \/ \E s \in DOMAIN subs : subs'[s].st # "active",
         seen'.tier \in {seen.tier, account.tier, "free"}
  PROVE  RowInv'
  <1>1. /\ subs \in Seq(SubSet) /\ Len(subs) \in Nat /\ DOMAIN subs = 1 .. Len(subs)
        /\ subs' \in Seq(SubSet) /\ Len(subs') \in Nat /\ DOMAIN subs' = 1 .. Len(subs')
        /\ Len(subs) <= Len(subs') /\ account.sub \in Nat /\ account.tier \in Plans \cup {"free"}
    BY DEF CreditInv, BillingShape, SubsGrow, AccountSet
  <1>2. DOMAIN subs \subseteq DOMAIN subs'
    BY <1>1
  <1>3. a.sub \in 0 .. Len(subs)
    BY <1>1 DEF RowInv
  <1>4. a.tier # "free" => a.sub # 0 /\ subs'[a.sub].plan = a.tier
    <2>1. CASE a.sub = account.sub /\ a.tier = account.tier
      <3>1. a.tier # "free" => a.sub \in DOMAIN subs /\ subs[a.sub].plan = a.tier
        BY <1>1, <1>3, <2>1 DEF RowInv, TierIsOfTheRow
      <3> QED
        BY <1>1, <3>1 DEF SubsGrow
    <2>2. CASE a.sub \in DOMAIN subs /\ a.tier = subs[a.sub].plan
      BY <1>1, <2>2 DEF SubsGrow
    <2> QED
      BY <2>1, <2>2
  <1>5. manage'.done => \E s \in DOMAIN subs' : subs'[s].st # "active"
    BY <1>2 DEF RowInv, CancelIsScheduled, SubsGrow
  <1> QED
    BY <1>1, <1>3, <1>4, <1>5 DEF RowInv, TierIsOfTheRow, CancelIsScheduled

LEMMA SubsStay == CreditInv /\ subs' = subs => SubsGrow
  BY DEF CreditInv, BillingShape, SubsGrow

\* One subscription changes its status, and is not active.
LEMMA OneEnds ==
  ASSUME CreditInv, NEW s \in DOMAIN subs, NEW st \in {"active", "scheduled", "canceled"},
         subs[s].st # "active" => st # "active", subs' = [subs EXCEPT ![s].st = st]
  PROVE  SubsGrow /\ subs'[s].st = st
  <1>1. subs \in Seq(SubSet) /\ subs[s] \in SubSet
    BY DEF CreditInv, BillingShape
  <1>2. PICK x : x = [subs[s] EXCEPT !.st = st]
    OBVIOUS
  <1>3. x \in SubSet /\ x.st = st /\ x.plan = subs[s].plan
    BY <1>1, <1>2 DEF SubSet
  <1>4. PICK Q : Q = [subs EXCEPT ![s] = x]
    OBVIOUS
  <1>5. subs' = Q
    BY <1>2, <1>4
  <1>6. /\ Q \in Seq(SubSet) /\ Len(Q) = Len(subs) /\ Q[s] = x
        /\ \A t \in DOMAIN subs : t # s => Q[t] = subs[t]
    BY <1>1, <1>3, <1>4, OneWritten
  <1>7. Len(subs) \in Nat
    BY <1>1
  <1>8. ASSUME NEW t \in DOMAIN subs
        PROVE  Q[t].plan = subs[t].plan /\ (subs[t].st # "active" => Q[t].st # "active")
    <2>1. CASE t = s
      BY <1>3, <1>6, <2>1
    <2>2. CASE t # s
      BY <1>6, <2>2
    <2> QED
      BY <2>1, <2>2
  <1>9. subs'[s].st = st /\ subs' \in Seq(SubSet) /\ Len(subs') = Len(subs)
    BY <1>3, <1>5, <1>6
  <1>10. \A t \in DOMAIN subs : /\ subs'[t].plan = subs[t].plan
                               /\ subs[t].st # "active" => subs'[t].st # "active"
    BY <1>5, <1>8
  <1> QED
    BY <1>7, <1>9, <1>10 DEF SubsGrow

LEMMA ServiceRow ==
  ASSUME CreditInv, RowInv, (\E s \in 1..MaxCheckouts : Activate(s) \/ Fall(s) \/ End(s)) \/ Pay
  PROVE  RowInv'
  <1>1. CASE \E s \in 1..MaxCheckouts : Activate(s) \/ Fall(s)
    <2>1. UNCHANGED <<subs, account, manage, seen>>
      BY <1>1, Zenon DEF Activate, Fall, buyVars, Inside
    <2> QED
      BY <2>1, SubsStay, RowFollows DEF RowInv
  <1>2. ASSUME NEW s, End(s) PROVE RowInv'
    <2>1. /\ s \in DOMAIN subs /\ subs' = [subs EXCEPT ![s].st = "canceled"]
          /\ UNCHANGED <<account, manage, seen>>
      BY <1>2 DEF End, buyVars, Inside
    <2> QED
      BY <2>1, OneEnds, RowFollows DEF RowInv
  <1>3. CASE Pay
    <2>1. PICK item : item = checkouts[window.of].item
      OBVIOUS
    <2>2. /\ manage' = Unused /\ seen' = Unknown /\ account' = account
          /\ \/ item \in Plans /\ subs' = Append(subs, [plan |-> item, st |-> "active"])
             \/ subs' = subs
      BY <1>3, <2>1 DEF Pay, Inside
    <2>3. SubsGrow
      <3>1. CASE subs' = subs
        BY <3>1, SubsStay
      <3>2. CASE item \in Plans /\ subs' = Append(subs, [plan |-> item, st |-> "active"])
        <4>1. PICK x : x = [plan |-> item, st |-> "active"]
          OBVIOUS
        <4>2. x \in SubSet
          BY <3>2, <4>1 DEF SubSet
        <4>3. subs \in Seq(SubSet) /\ Len(subs) \in Nat /\ DOMAIN subs = 1 .. Len(subs)
          BY DEF CreditInv, BillingShape
        <4>4. /\ subs' \in Seq(SubSet) /\ Len(subs') = Len(subs) + 1
              /\ \A s \in DOMAIN subs : subs'[s] = subs[s]
          BY <3>2, <4>1, <4>2, <4>3
        <4> QED
          BY <4>3, <4>4 DEF SubsGrow
      <3> QED
        BY <2>2, <3>1, <3>2
    <2>4. Unused \in ManageSet /\ ~Unused.done /\ Unknown.tier = "free"
      BY DEF Unused, ManageSet, Unknown
    <2> QED
      BY <2>2, <2>3, <2>4, RowFollows
  <1> QED
    BY <1>1, <1>2, <1>3

\* The handler of the notifications.
LEMMA CommitRow ==
  ASSUME CreditInv, RowInv, NEW h \in Handlers, Commit(h)
  PROVE  RowInv'
  <1>1. PICK n : n = hooks[h].note
    OBVIOUS
  <1>2. PICK read : read = hooks[h].read
    OBVIOUS
  <1>3. /\ account' = Handled(n, read) /\ UNCHANGED <<subs, manage, seen>> /\ hooks[h] # Resting
    BY <1>1, <1>2 DEF Commit, Outside, buyVars
  <1>4. n \in DOMAIN notes /\ BillingShape
    BY <1>1, <1>3 DEF CreditInv, HooksApart
  <1>5. notes[n] \in NoteSet /\ account \in AccountSet
    BY <1>4 DEF BillingShape
  <1>6. PICK a : a = Handled(n, read)
    OBVIOUS
  <1>7. \/ a.sub = account.sub /\ a.tier \in {account.tier, "free"}
        \/ a.sub \in DOMAIN subs /\ a.tier = subs[a.sub].plan
    <2>1. CASE notes[n].kind = "created"
      <3>1. PICK s \in DOMAIN subs : s = notes[n].sub
        BY <1>4, <2>1 DEF BillingShape
      <3>2. a = [account EXCEPT !.sub = s, !.st = "active", !.tier = subs[s].plan]
        BY <1>6, <2>1, <3>1 DEF Handled, ProvisionTier
      <3>3. a.sub = s /\ a.tier = subs[s].plan
        BY <1>5, <3>2 DEF AccountSet
      <3> QED
        BY <3>3
    <2>2. CASE notes[n].kind = "updated"
      <3>1. a = account \/ \E st : a = [account EXCEPT !.st = st]
        BY <1>6, <2>2 DEF Handled, SubscriptionUpdated
      <3> QED
        BY <1>5, <3>1 DEF AccountSet
    <2>3. CASE notes[n].kind = "canceled"
      <3>1. \E st : a = [account EXCEPT !.st = st, !.tier = "free"]
        BY <1>6, <2>3 DEF Handled, CancelOrDowngrade
      <3> QED
        BY <1>5, <3>1 DEF AccountSet
    <2>4. CASE notes[n].kind = "paid"
      <3>1. \E b, p : a = [account EXCEPT !.balance = b, !.purchases = p]
        BY <1>6, <2>4 DEF Handled, AddCredits
      <3> QED
        BY <1>5, <3>1 DEF AccountSet
    <2> QED
      BY <1>5, <2>1, <2>2, <2>3, <2>4 DEF NoteSet
  <1> QED
    BY <1>3, <1>6, <1>7, SubsStay, RowFollows DEF RowInv

\* The pages that manage it.
LEMMA ManageRow ==
  ASSUME CreditInv, RowInv,
         HandleUpdatePayment \/ AskCancel \/ GoBack \/ ConfirmCancel \/ UrlArrives \/ CancelAnswered
  PROVE  RowInv'
  <1>1. manage \in ManageSet /\ UNCHANGED <<account, seen>> /\ DOMAIN subs = 1 .. Len(subs)
    BY DEF RowInv, HandleUpdatePayment, AskCancel, GoBack, ConfirmCancel, UrlArrives, CancelAnswered,
       Manage, Alone, Inside, CreditInv, BillingShape
  <1>2. CASE HandleUpdatePayment \/ AskCancel \/ GoBack \/ ConfirmCancel \/ UrlArrives
    <2>1. /\ subs' = subs
          /\ \/ \E v \in BOOLEAN : \/ manage' = [manage EXCEPT !.updating = v]
                                   \/ manage' = [manage EXCEPT !.confirm = v]
                                   \/ manage' = [manage EXCEPT !.canceling = v]
      BY <1>2 DEF HandleUpdatePayment, AskCancel, GoBack, ConfirmCancel, UrlArrives, Manage, Alone
    <2>2. manage' \in ManageSet /\ manage'.done = manage.done
      BY <1>1, <2>1 DEF ManageSet
    <2> QED
      BY <1>1, <2>1, <2>2, SubsStay, RowFollows DEF RowInv
  <1>3. CASE CancelAnswered
    <2>1. CASE manage' = NotCanceled /\ subs' = subs
      <3>1. manage' \in ManageSet /\ manage'.done = manage.done
        BY <1>1, <2>1 DEF ManageSet, NotCanceled
      <3> QED
        BY <1>1, <2>1, <3>1, SubsStay, RowFollows DEF RowInv
    <2>2. CASE /\ Current
               /\ subs' = [subs EXCEPT ![account.sub].st = IF @ = "active" THEN "scheduled" ELSE @]
               /\ manage' = [manage EXCEPT !.canceling = FALSE, !.done = TRUE, !.confirm = FALSE]
      <3>1. manage' \in ManageSet
        BY <1>1, <2>2 DEF ManageSet
      <3>2. PICK s \in DOMAIN subs : s = account.sub
        BY <1>1, <2>2 DEF RowInv, Current
      <3>3. subs[s] \in SubSet
        BY DEF CreditInv, BillingShape
      <3>4. PICK st : st = IF subs[s].st = "active" THEN "scheduled" ELSE subs[s].st
        OBVIOUS
      <3>5. /\ st \in {"active", "scheduled", "canceled"} /\ st # "active"
            /\ subs' = [subs EXCEPT ![s].st = st]
        BY <2>2, <3>2, <3>3, <3>4 DEF SubSet
      <3>6. SubsGrow /\ subs'[s].st = st
        BY <3>5, OneEnds
      <3> QED
        BY <1>1, <3>1, <3>5, <3>6, RowFollows DEF RowInv
    <2> QED
      BY <1>3, <2>1, <2>2 DEF CancelAnswered
  <1> QED
    BY <1>2, <1>3

LEMMA RowNext == CreditInv /\ RowInv /\ (BillingNext \/ UNCHANGED billingVars) => RowInv'
  <1> SUFFICES ASSUME CreditInv, RowInv, BillingNext \/ UNCHANGED billingVars PROVE RowInv'
    OBVIOUS
  <1>1. CASE UNCHANGED <<subs, account, manage, seen>>
    BY <1>1, SubsStay, RowFollows DEF RowInv
  <1>2. CASE UNCHANGED billingVars
    BY <1>1, <1>2 DEF billingVars
  <1>3. CASE UNCHANGED <<subs, account>> /\ manage' = Unused /\ seen' = Unknown
    <2>1. Unused \in ManageSet /\ ~Unused.done /\ Unknown.tier = "free"
      BY DEF Unused, ManageSet, Unknown
    <2> QED
      BY <1>3, <2>1, SubsStay, RowFollows
  <1>4. CASE Refetch
    <2>1. UNCHANGED <<subs, account, manage>> /\ seen'.tier = account.tier
      BY <1>4 DEF Refetch, Alone, Inside
    <2> QED
      BY <2>1, SubsStay, RowFollows DEF RowInv
  <1>5. CASE \/ CloseBanner \/ LimitReached \/ CloseUpgrade
             \/ \E item \in Items : Purchase(item)
             \/ \E c \in 1..MaxCheckouts : CheckoutFails(c) \/ Created(c)
             \/ ScriptLoaded \/ ScriptFails \/ Dismiss
    <2>1. UNCHANGED <<manage, seen>> /\ Alone
      BY <1>5, Zenon DEF CloseBanner, LimitReached, CloseUpgrade, Purchase, CheckoutFails, Created,
         ScriptLoaded, ScriptFails, Dismiss
    <2>2. UNCHANGED <<subs, account>>
      BY <2>1 DEF Alone, Inside
    <2> QED
      BY <1>1, <2>1, <2>2
  <1>6. CASE HandleUpgrade \/ \E p \in {"app", "pricing", "billing", "settings"} : VisitPage(p)
    <2>1. Alone
      BY <1>6, Zenon DEF HandleUpgrade, VisitPage
    <2>3. UNCHANGED <<manage, seen>> \/ Fresh
      <3>1. CASE HandleUpgrade
        BY <3>1 DEF HandleUpgrade
      <3>2. CASE \E p \in {"app", "pricing", "billing", "settings"} : VisitPage(p)
        BY <3>2, Zenon DEF VisitPage
      <3> QED
        BY <1>6, <3>1, <3>2
    <2>2. UNCHANGED <<subs, account>> /\ (UNCHANGED <<manage, seen>> \/ (manage' = Unused /\ seen' = Unknown))
      BY <2>1, <2>3 DEF Alone, Inside, Fresh
    <2> QED
      BY <1>1, <1>3, <2>2
  <1>7. CASE \E h \in Handlers : Rollback(h) \/ (\E n \in 1..MaxNotes : Deliver(h, n))
    <2>1. UNCHANGED <<subs, account, manage, seen>>
      BY <1>7, Zenon DEF Rollback, Deliver, Outside, buyVars
    <2> QED
      BY <1>1, <2>1
  <1>8. CASE BillingNext
    BY <1>4, <1>5, <1>6, <1>7, <1>8, CommitRow, ManageRow, ServiceRow DEF BillingNext
  <1> QED
    BY <1>2, <1>8

\* The invariants give what the pages say of what was bought.
LEMMA BillingPromises ==
  CreditInv /\ ShopInv /\ RowInv =>
    BillingTypeOK /\ TierIsOfTheRow /\ CancelIsScheduled /\ WaitingIsLoading
  <1> SUFFICES ASSUME CreditInv, ShopInv, RowInv
               PROVE  BillingTypeOK /\ TierIsOfTheRow /\ CancelIsScheduled /\ WaitingIsLoading
    OBVIOUS
  <1>1. {window.of, window.callback} \subseteq 0 .. Len(checkouts)
    <2>1. /\ window \in [of : Nat, callback : Nat] /\ Len(checkouts) \in Nat
          /\ DOMAIN checkouts = 1 .. Len(checkouts)
      BY DEF ShopInv
    <2>2. window.of # 0 => window.of \in DOMAIN checkouts
      BY DEF ShopInv
    <2>3. window.callback # 0 => window.callback \in DOMAIN checkouts
      BY DEF ShopInv
    <2> QED
      BY <2>1, <2>2, <2>3
  <1>2. wait.tier \in Plans \cup {"none"} /\ {wait.credit, wait.pack} \subseteq Packs \cup {"none"}
    BY DEF ShopInv, WaitSet
  <1>3. account.tier \in Plans \cup {"free"}
    BY DEF CreditInv, BillingShape, AccountSet
  <1> QED
    BY <1>1, <1>2, <1>3 DEF BillingTypeOK, ShopInv, RowInv, CreditInv, BillingShape

-----------------------------------------------------------------------------
\* The quiz of a guest.

QuizOf(Y) == [owner : Y, st : {"generating", "ready", "generation_failed"}, user : BOOLEAN]

IsStage(s) == {"st", "by", "file", "quiz"} \subseteq DOMAIN s

\* What is waited for has been created.
StageOK(s) == IsStage(s) /\ (s.st = "generate" => s.quiz \in DOMAIN quizzes)

\* What is shown is the guest's own, and so is what the address of the sign-up names.
PlaceOK ==
    /\ where.page \in {"take", "results"} => where.quiz \in DOMAIN quizzes
    /\ shown # 0 => shown \in DOMAIN quizzes /\ quizzes[shown].owner = mine /\ mine # NoId
    /\ where.page = "signup" /\ where.id # NoId =>
           where.quiz \in DOMAIN quizzes /\ quizzes[where.quiz].owner = where.id
    /\ where.page = "dashboard" /\ where.quiz # 0 =>
           where.quiz \in DOMAIN quizzes /\ quizzes[where.quiz].user

TakeSet == [status : {"unread", "generating", "ready", "generation_failed"},
            items : BOOLEAN, error : {"none", "missing", "broken"}, init : BOOLEAN,
            polls : SUBSET {"generating", "ready", "generation_failed", "missing", "broken"},
            fetching : BOOLEAN, answer : BOOLEAN, sending : BOOLEAN, message : BOOLEAN]

\* Every answer has led to an error, to a status that is watched, or to the items.
Followed(t) ==
    t.error = "none" => /\ t.status = "unread" => t.init
                        /\ t.status = "ready" => t.items \/ t.fetching

TakeOK == take \in TakeSet /\ (OnTake => Followed(take))

GuestInv ==
    /\ \E Y : quizzes \in Seq(QuizOf(Y))
    /\ StageOK(sub) /\ StageOK(left)
    /\ PlaceOK /\ TakeOK

\* A quiz is never lost, keeps its owner and stays with its user.
QuizzesGrow ==
    /\ \E Y : quizzes' \in Seq(QuizOf(Y))
    /\ DOMAIN quizzes \subseteq DOMAIN quizzes'
    /\ \A q \in DOMAIN quizzes : /\ quizzes'[q].owner = quizzes[q].owner
                                 /\ quizzes[q].user => quizzes'[q].user

LEMMA GuestInvInit == GuestInit => GuestInv
  <1> SUFFICES ASSUME GuestInit PROVE GuestInv
    OBVIOUS
  <1>1. quizzes \in Seq(QuizOf({}))
    BY DEF GuestInit
  <1>2. StageOK(sub) /\ StageOK(left)
    BY DEF GuestInit, StageOK, IsStage, NoSub
  <1>3. take \in TakeSet
    BY DEF GuestInit, NoTake, NewTake, TakeSet
  <1>4. where.page = "away" /\ shown = 0
    BY DEF GuestInit
  <1> QED
    BY <1>1, <1>2, <1>3, <1>4 DEF GuestInv, PlaceOK, TakeOK, OnTake

LEMMA QuizzesStay == GuestInv /\ quizzes' = quizzes => QuizzesGrow
  BY DEF GuestInv, QuizzesGrow

LEMMA SeqGrows ==
  ASSUME NEW A, NEW B, A \subseteq B, NEW s \in Seq(A)
  PROVE  s \in Seq(B)
  OBVIOUS

LEMMA QuizAdded ==
  ASSUME GuestInv, NEW id,
         quizzes' = Append(quizzes, [owner |-> id, st |-> "generating", user |-> FALSE])
  PROVE  QuizzesGrow /\ Len(quizzes') \in DOMAIN quizzes'
  <1>1. PICK Y : quizzes \in Seq(QuizOf(Y))
    BY DEF GuestInv
  <1> DEFINE Z == Y \cup {id}
  <1>2. QuizOf(Y) \subseteq QuizOf(Z)
    BY DEF QuizOf
  <1>3. [owner |-> id, st |-> "generating", user |-> FALSE] \in QuizOf(Z)
    BY DEF QuizOf
  <1>4. PICK x \in QuizOf(Z) : x = [owner |-> id, st |-> "generating", user |-> FALSE]
    BY <1>3
  <1> HIDE DEF Z
  <1>5. quizzes \in Seq(QuizOf(Z))
    BY <1>1, <1>2, SeqGrows
  <1>6. quizzes' = Append(quizzes, x)
    BY <1>4
  <1>7. quizzes' \in Seq(QuizOf(Z)) /\ Len(quizzes') \in DOMAIN quizzes'
    BY <1>5, <1>6
  <1>8. DOMAIN quizzes \subseteq DOMAIN quizzes' /\ \A q \in DOMAIN quizzes : quizzes'[q] = quizzes[q]
    BY <1>5, <1>6
  <1> QED
    BY <1>7, <1>8 DEF QuizzesGrow

LEMMA QuizGenerated ==
  ASSUME GuestInv, NEW q \in DOMAIN quizzes, NEW st \in {"ready", "generation_failed"},
         quizzes' = [quizzes EXCEPT ![q].st = st]
  PROVE  QuizzesGrow
  <1>1. PICK Y : quizzes \in Seq(QuizOf(Y))
    BY DEF GuestInv
  <1>2. quizzes[q] \in QuizOf(Y)
    BY <1>1
  <1>3. PICK x : x = [quizzes[q] EXCEPT !.st = st]
    OBVIOUS
  <1>4. x \in QuizOf(Y) /\ x.owner = quizzes[q].owner /\ x.user = quizzes[q].user
    BY <1>2, <1>3 DEF QuizOf
  <1>5. quizzes' = [quizzes EXCEPT ![q] = x]
    BY <1>3
  <1>6. PICK Q : Q = [quizzes EXCEPT ![q] = x]
    OBVIOUS
  <1>7. /\ Q \in Seq(QuizOf(Y)) /\ DOMAIN Q = DOMAIN quizzes /\ Q[q] = x
        /\ \A p \in DOMAIN quizzes : p # q => Q[p] = quizzes[p]
    BY <1>1, <1>4, <1>6, OneWritten
  <1>8. quizzes' = Q
    BY <1>5, <1>6
  <1> HIDE DEF QuizzesGrow
  <1>9. \A p \in DOMAIN quizzes : Q[p].owner = quizzes[p].owner /\ (quizzes[p].user => Q[p].user)
    BY <1>4, <1>7
  <1> QED
    BY <1>7, <1>8, <1>9 DEF QuizzesGrow

LEMMA QuizHanded ==
  ASSUME GuestInv, NEW id, quizzes' = Handover(id)
  PROVE  /\ QuizzesGrow
         /\ \A q \in DOMAIN quizzes : quizzes[q].owner = id => quizzes'[q].user
  <1>1. PICK Y : quizzes \in Seq(QuizOf(Y))
    BY DEF GuestInv
  <1> DEFINE x(q) == [quizzes[q] EXCEPT !.user = @ \/ quizzes[q].owner = id]
  <1>2. ASSUME NEW q \in DOMAIN quizzes
        PROVE  /\ x(q) \in QuizOf(Y) /\ x(q).owner = quizzes[q].owner
               /\ quizzes[q].user => x(q).user
               /\ quizzes[q].owner = id => x(q).user
    <2>1. quizzes[q] \in QuizOf(Y)
      BY <1>1
    <2>2. PICK u \in BOOLEAN : u = (quizzes[q].user \/ quizzes[q].owner = id)
      OBVIOUS
    <2>3. x(q) = [quizzes[q] EXCEPT !.user = u]
      BY <2>2
    <2>4. [quizzes[q] EXCEPT !.user = u] \in QuizOf(Y)
      BY <2>1 DEF QuizOf
    <2>5. /\ [quizzes[q] EXCEPT !.user = u].owner = quizzes[q].owner
          /\ [quizzes[q] EXCEPT !.user = u].user = u
      BY <2>1 DEF QuizOf
    <2> HIDE DEF x
    <2>6. x(q).owner = quizzes[q].owner /\ x(q).user = u
      BY <2>3, <2>5
    <2> QED
      BY <2>2, <2>3, <2>4, <2>6
  <1>3. quizzes' = [q \in DOMAIN quizzes |-> x(q)]
    BY DEF Handover
  <1> HIDE DEF x
  <1>4. DOMAIN quizzes = 1..Len(quizzes) /\ Len(quizzes) \in Nat
    BY <1>1
  <1>5. quizzes' \in Seq(QuizOf(Y)) /\ DOMAIN quizzes' = DOMAIN quizzes
    BY <1>2, <1>3, <1>4
  <1>6. \A q \in DOMAIN quizzes : quizzes'[q] = x(q)
    BY <1>3
  <1> QED
    BY <1>2, <1>5, <1>6 DEF QuizzesGrow

-----------------------------------------------------------------------------
LEMMA StageIsKept ==
  ASSUME GuestInv, QuizzesGrow, NEW s, StageOK(s)
  PROVE  IsStage(s) /\ (s.st = "generate" => s.quiz \in DOMAIN quizzes')
  BY DEF StageOK, QuizzesGrow

LEMMA StagesStay ==
  ASSUME GuestInv, QuizzesGrow, {sub', left'} \subseteq {sub, left, NoSub}
  PROVE  StageOK(sub)' /\ StageOK(left)'
  <1>1. StageOK(sub) /\ StageOK(left) /\ StageOK(NoSub)
    BY DEF GuestInv, StageOK, IsStage, NoSub
  <1>2. ASSUME NEW s \in {sub, left, NoSub}
        PROVE  IsStage(s) /\ (s.st = "generate" => s.quiz \in DOMAIN quizzes')
    BY <1>1, <1>2, StageIsKept
  <1>3. sub' \in {sub, left, NoSub} /\ left' \in {sub, left, NoSub}
    OBVIOUS
  <1> QED
    BY <1>2, <1>3 DEF StageOK, IsStage

\* A step of handleSubmit, of the form on the page or of one that was left.
LEMMA StageMoves ==
  ASSUME GuestInv, QuizzesGrow, NEW s, NEW t, NEW error, Becomes(s, t, error),
         IsStage(t), t.st = "generate" => t.quiz \in DOMAIN quizzes'
  PROVE  StageOK(sub)' /\ StageOK(left)'
  <1>1. /\ IsStage(sub) /\ (sub.st = "generate" => sub.quiz \in DOMAIN quizzes')
        /\ IsStage(left) /\ (left.st = "generate" => left.quiz \in DOMAIN quizzes')
    BY StageIsKept DEF GuestInv
  <1>2. CASE sub' = t /\ left' = left
    BY <1>1, <1>2 DEF StageOK, IsStage
  <1>3. CASE left' = t /\ sub' = sub
    BY <1>1, <1>3 DEF StageOK, IsStage
  <1> QED
    BY <1>2, <1>3 DEF Becomes

LEMMA PlaceStays ==
  ASSUME GuestInv, QuizzesGrow, UNCHANGED <<where, shown>>, mine' = mine \/ shown = 0
  PROVE  PlaceOK'
  BY DEF GuestInv, PlaceOK, QuizzesGrow

LEMMA TakeStays == GuestInv /\ UNCHANGED <<where, take>> => TakeOK'
  BY DEF GuestInv, TakeOK, OnTake

LEMMA FirstLook == NewTake \in TakeSet /\ NoTake \in TakeSet /\ NewTake.init
  BY DEF NewTake, NoTake, TakeSet

\* Another page is opened, or the same one again.
LEMMA PageOpens ==
  ASSUME NEW opened, NEW q, NEW id, GoWith(opened, q, id),
         opened \in {"take", "results"} => q \in DOMAIN quizzes',
         opened = "signup" /\ id # NoId => q \in DOMAIN quizzes' /\ quizzes'[q].owner = id,
         opened = "dashboard" /\ q # 0 => q \in DOMAIN quizzes' /\ quizzes'[q].user
  PROVE  PlaceOK' /\ TakeOK'
  <1>1. /\ where' = [page |-> opened, quiz |-> q, id |-> id] /\ shown' = 0
        /\ take' = IF opened = "take" THEN NewTake ELSE NoTake
    BY DEF GoWith
  <1>2. where'.page = opened /\ where'.quiz = q /\ where'.id = id
    BY <1>1
  <1>3. PlaceOK'
    BY <1>1, <1>2 DEF PlaceOK
  <1>4. take' \in TakeSet /\ (opened = "take" => take'.init /\ take' = NewTake)
    BY <1>1, FirstLook
  <1>5. NewTake.status # "ready"
    BY DEF NewTake
  <1>6. TakeOK'
    BY <1>2, <1>4, <1>5 DEF TakeOK, OnTake, Followed
  <1> QED
    BY <1>3, <1>6

LEMMA VisitKeeps ==
  ASSUME GuestInv, NEW opened \in {"try", "take", "results"}, NEW q, VisitGuest(opened, q),
         opened # "try" => q \in DOMAIN quizzes
  PROVE  GuestInv'
  <1>1. /\ GoWith(opened, q, NoId) /\ quizzes' = quizzes
        /\ {sub', left'} \subseteq {sub, left, NoSub}
    BY DEF VisitGuest, Go, GoOn, guestServer
  <1>2. QuizzesGrow
    BY <1>1, QuizzesStay
  <1>3. PlaceOK' /\ TakeOK'
    BY <1>1, PageOpens
  <1> QED
    BY <1>1, <1>2, <1>3, StagesStay DEF GuestInv, QuizzesGrow

LEMMA ReloadKeeps == GuestInv /\ ReloadGuest => GuestInv'
  <1> SUFFICES ASSUME GuestInv, ReloadGuest PROVE GuestInv'
    OBVIOUS
  <1>1. /\ GoWith(where.page, where.quiz, where.id) /\ quizzes' = quizzes
        /\ {sub', left'} \subseteq {sub, left, NoSub}
    BY DEF ReloadGuest, guestServer
  <1>2. QuizzesGrow
    BY <1>1, QuizzesStay
  <1>3. PlaceOK' /\ TakeOK'
    BY <1>1, PageOpens DEF GuestInv, PlaceOK
  <1> QED
    BY <1>1, <1>2, <1>3, StagesStay DEF GuestInv, QuizzesGrow

\* The quiz is generated, and the guest is taken to it.
LEMMA ReadyKeeps ==
  ASSUME GuestInv, NEW s \in {"sub", "left"}, QuizReady(s)
  PROVE  GuestInv'
  <1>1. /\ GoWith("take", Of(s).quiz, NoId) /\ quizzes' = quizzes
        /\ {sub', left'} \subseteq {sub, left, NoSub}
    BY DEF QuizReady, Go, guestServer
  <1>2. Of(s).quiz \in DOMAIN quizzes
    BY DEF QuizReady, Of, GuestInv, StageOK
  <1>3. QuizzesGrow
    BY <1>1, QuizzesStay
  <1>4. PlaceOK' /\ TakeOK'
    BY <1>1, <1>2, PageOpens
  <1> QED
    BY <1>1, <1>3, <1>4, StagesStay DEF GuestInv, QuizzesGrow

\* The form, and another tab: the page stays, and a guest who has a name keeps it.
LEMMA FormKeeps ==
  ASSUME GuestInv, UNCHANGED <<quizzes, where, take, shown>>, mine' = mine \/ shown = 0,
         {sub', left'} \subseteq {sub, left, NoSub}
  PROVE  GuestInv'
  BY QuizzesStay, StagesStay, PlaceStays, TakeStays DEF GuestInv, QuizzesGrow

LEMMA SubmitKeeps == GuestInv /\ Submit => GuestInv'
  <1> SUFFICES ASSUME GuestInv, Submit PROVE GuestInv'
    OBVIOUS
  <1>1. /\ UNCHANGED <<quizzes, where, take, shown, left>> /\ (mine' = mine \/ mine = NoId)
        /\ \E st \in {"upload", "create"} : sub' = Stage(st, mine')
    BY DEF Submit, GetOrCreateSessionId, guestServer
  <1>2. PICK m : m = mine'
    OBVIOUS
  <1>3. PICK st \in {"upload", "create"} : sub' = Stage(st, m)
    BY <1>1, <1>2
  <1>4. IsStage(sub)' /\ sub'.st # "generate"
    BY <1>3 DEF Stage, NoSub, IsStage
  <1>5. StageOK(sub)'
    BY <1>4 DEF StageOK
  <1>7. StageOK(left)'
    BY <1>1 DEF StageOK, GuestInv, IsStage
  <1>8. QuizzesGrow
    BY <1>1, QuizzesStay
  <1>6. mine' = mine \/ shown = 0
    BY <1>1 DEF GuestInv, PlaceOK
  <1>9. PlaceOK' /\ TakeOK'
    BY <1>1, <1>6, <1>8, PlaceStays, TakeStays
  <1> QED
    BY <1>5, <1>7, <1>8, <1>9 DEF GuestInv, QuizzesGrow

\* The other steps of handleSubmit leave the page where it is.
LEMMA StepKeeps ==
  ASSUME GuestInv, QuizzesGrow, OnPage, NEW s, NEW t, NEW error, Becomes(s, t, error),
         IsStage(t), t.st = "generate" => t.quiz \in DOMAIN quizzes'
  PROVE  GuestInv'
  <1>1. UNCHANGED <<mine, where, take, shown>>
    BY DEF OnPage
  <1>2. PlaceOK' /\ TakeOK'
    BY <1>1, PlaceStays, TakeStays
  <1>3. StageOK(sub)' /\ StageOK(left)'
    BY StageMoves
  <1> QED
    BY <1>2, <1>3 DEF GuestInv, QuizzesGrow

LEMMA HandleSubmitKeeps ==
  ASSUME GuestInv, NEW s \in {"sub", "left"},
         \/ UploadFile(s) \/ FilesReady(s) \/ FilesFailed(s) \/ CreateQuiz(s)
         \/ QuizFailed(s) \/ TimeOut(s) \/ Refused(s)
  PROVE  GuestInv'
  <1>1. IsStage(Of(s)) /\ IsStage(NoSub) /\ NoSub.st = "no"
    BY DEF GuestInv, StageOK, Of, IsStage, NoSub
  <1> PICK x : x = Of(s)
    OBVIOUS
  <1>2. CASE UploadFile(s)
    <2>1. PICK f : f = Len(uploads')
      OBVIOUS
    <2>2. PICK t : t = [x EXCEPT !.st = "parse", !.file = f]
      OBVIOUS
    <2>3. IsStage(t) /\ t.st = "parse"
      BY <1>1, <2>2 DEF IsStage
    <2>4. Becomes(s, t, "none") /\ OnPage /\ quizzes' = quizzes
      BY <1>2, <2>1, <2>2 DEF UploadFile
    <2> QED
      BY <2>3, <2>4, QuizzesStay, StepKeeps
  <1>3. CASE FilesReady(s)
    <2>1. PICK t : t = [x EXCEPT !.st = "create", !.by = mine]
      OBVIOUS
    <2>2. IsStage(t) /\ t.st = "create"
      BY <1>1, <2>1 DEF IsStage
    <2>3. Becomes(s, t, "none") /\ OnPage /\ quizzes' = quizzes
      BY <1>3, <2>1 DEF FilesReady, guestServer
    <2> QED
      BY <2>2, <2>3, QuizzesStay, StepKeeps
  <1>4. CASE CreateQuiz(s)
    <2>1. PICK id : id = Of(s).by
      OBVIOUS
    <2>2. quizzes' = Append(quizzes, [owner |-> id, st |-> "generating", user |-> FALSE])
      BY <1>4, <2>1 DEF CreateQuiz
    <2>3. QuizzesGrow /\ Len(quizzes') \in DOMAIN quizzes'
      BY <2>2, QuizAdded
    <2>4. PICK k : k = Len(quizzes')
      OBVIOUS
    <2>5. PICK t : t = [x EXCEPT !.st = "generate", !.quiz = k]
      OBVIOUS
    <2>6. IsStage(t) /\ t.quiz = k
      BY <1>1, <2>5 DEF IsStage
    <2>7. OnPage /\ (Becomes(s, t, "none") \/ Becomes(s, NoSub, "request"))
      BY <1>4, <2>4, <2>5 DEF CreateQuiz
    <2> QED
      BY <1>1, <2>3, <2>4, <2>6, <2>7, StepKeeps
  <1>5. CASE FilesFailed(s) \/ QuizFailed(s) \/ TimeOut(s) \/ Refused(s)
    <2>1. /\ quizzes' = quizzes /\ OnPage
          /\ \E error \in {"file", "generation", "timeout", "request", "limit"} : Becomes(s, NoSub, error)
      BY <1>5 DEF FilesFailed, QuizFailed, TimeOut, Refused, Fails, guestServer
    <2> QED
      BY <1>1, <2>1, QuizzesStay, StepKeeps
  <1> QED
    BY <1>2, <1>3, <1>4, <1>5

-----------------------------------------------------------------------------
\* The page that takes a quiz.

Told == {"generating", "ready", "generation_failed", "missing", "broken"}

LEMMA AnswerIsTold == ASSUME GuestInv, OnTake PROVE Answer(where.quiz) \in Told
  <1>1. where.quiz \in DOMAIN quizzes
    BY DEF GuestInv, PlaceOK, OnTake
  <1>2. PICK Y : quizzes \in Seq(QuizOf(Y))
    BY DEF GuestInv
  <1>3. quizzes[where.quiz] \in QuizOf(Y)
    BY <1>1, <1>2
  <1>4. quizzes[where.quiz].st \in {"generating", "ready", "generation_failed"}
    BY <1>3 DEF QuizOf
  <1> QED
    BY <1>4 DEF Answer, Told

LEMMA ReadFollows ==
  ASSUME NEW t \in TakeSet, NEW st \in Told, Followed(t) \/ t.status # "ready"
  PROVE  /\ Read(t, st) \in TakeSet
         /\ Read(t, st).error = "none" => Read(t, st).status # "unread"
         /\ Read(t, st).error = "none" /\ Read(t, st).status = "ready" => Read(t, st).fetching
  BY DEF Read, Told, TakeSet, Followed

LEMMA TakeKeeps ==
  ASSUME GuestInv, UNCHANGED <<quizzes, mine, where, sub, left, shown>>,
         take' \in TakeSet, OnTake => Followed(take')
  PROVE  GuestInv'
  <1>1. QuizzesGrow /\ StageOK(sub)' /\ StageOK(left)' /\ PlaceOK'
    BY QuizzesStay, StagesStay, PlaceStays
  <1>2. TakeOK'
    BY DEF TakeOK, OnTake, Followed
  <1> QED
    BY <1>1, <1>2 DEF GuestInv, QuizzesGrow

LEMMA TakingKeeps ==
  ASSUME GuestInv,
         \/ FetchSession \/ PollSession \/ FetchItems \/ (\E st \in Told : PollAnswered(st))
         \/ WriteAnswer \/ SubmitAnswer \/ SubmitPublicAnswer
  PROVE  GuestInv'
  <1>1. take \in TakeSet /\ (OnTake => Followed(take))
    BY DEF GuestInv, TakeOK
  <1>2. OnTake /\ UNCHANGED <<quizzes, mine, where, sub, left, shown>>
    BY Zenon DEF FetchSession, PollSession, FetchItems, PollAnswered, WriteAnswer, SubmitAnswer,
           SubmitPublicAnswer, TakeBecomes, guestServer
  <1>3. CASE FetchSession
    <2>1. PICK st \in Told : take' = [Read(take, st) EXCEPT !.init = FALSE]
      BY <1>2, <1>3, AnswerIsTold DEF FetchSession, TakeBecomes, Told
    <2>2. PICK r : r = Read(take, st)
      OBVIOUS
    <2>3. /\ r \in TakeSet /\ (r.error = "none" => r.status # "unread")
          /\ (r.error = "none" /\ r.status = "ready" => r.fetching)
      BY <1>1, <1>2, <2>2, ReadFollows
    <2>4. take' = [r EXCEPT !.init = FALSE]
      BY <2>1, <2>2
    <2>5. take' \in TakeSet /\ Followed(take')
      BY <2>3, <2>4 DEF TakeSet, Followed
    <2> QED
      BY <1>2, <2>5, TakeKeeps
  <1>4. CASE \E st \in Told : PollAnswered(st)
    <2>1. PICK st \in Told : take' = [Read(take, st) EXCEPT !.polls = @ \ {st}]
      BY <1>4 DEF PollAnswered, TakeBecomes
    <2>2. PICK r : r = Read(take, st)
      OBVIOUS
    <2>3. /\ r \in TakeSet /\ (r.error = "none" => r.status # "unread")
          /\ (r.error = "none" /\ r.status = "ready" => r.fetching)
      BY <1>1, <1>2, <2>2, ReadFollows
    <2>4. take' = [r EXCEPT !.polls = @ \ {st}]
      BY <2>1, <2>2
    <2>5. take' \in TakeSet /\ Followed(take')
      BY <2>3, <2>4 DEF TakeSet, Followed
    <2> QED
      BY <1>2, <2>5, TakeKeeps
  <1>5. CASE PollSession
    <2>1. PICK st \in Told : take' = [take EXCEPT !.polls = @ \cup {st}]
      BY <1>2, <1>5, AnswerIsTold DEF PollSession, TakeBecomes
    <2>2. take' \in TakeSet /\ Followed(take')
      BY <1>1, <1>2, <2>1 DEF TakeSet, Followed, Told
    <2> QED
      BY <1>2, <2>2, TakeKeeps
  <1>6. CASE FetchItems
    <2>1. \/ take' = [take EXCEPT !.fetching = FALSE, !.items = TRUE]
          \/ take' = [take EXCEPT !.fetching = FALSE, !.error = "broken"]
      BY <1>6 DEF FetchItems, TakeBecomes
    <2>2. take' \in TakeSet /\ Followed(take')
      BY <1>1, <1>2, <2>1 DEF TakeSet, Followed
    <2> QED
      BY <1>2, <2>2, TakeKeeps
  <1>7. CASE WriteAnswer \/ SubmitAnswer \/ SubmitPublicAnswer
    <2>1. \/ take' = [take EXCEPT !.answer = TRUE]
          \/ take' = [take EXCEPT !.sending = TRUE, !.message = FALSE]
          \/ take' = [take EXCEPT !.sending = FALSE, !.message = TRUE]
      BY <1>7 DEF WriteAnswer, SubmitAnswer, SubmitPublicAnswer
    <2>2. take' \in TakeSet /\ Followed(take')
      <3>1. CASE take' = [take EXCEPT !.answer = TRUE]
        BY <1>1, <1>2, <3>1 DEF TakeSet, Followed
      <3>2. CASE take' = [take EXCEPT !.sending = TRUE, !.message = FALSE]
        BY <1>1, <1>2, <3>2 DEF TakeSet, Followed
      <3>3. CASE take' = [take EXCEPT !.sending = FALSE, !.message = TRUE]
        BY <1>1, <1>2, <3>3 DEF TakeSet, Followed
      <3> QED
        BY <2>1, <3>1, <3>2, <3>3
    <2> QED
      BY <1>2, <2>2, TakeKeeps
  <1> QED
    BY <1>3, <1>4, <1>5, <1>6, <1>7

-----------------------------------------------------------------------------
\* The results, and from there to sign up.

LEMMA ResultsKeep == GuestInv /\ LoadResults => GuestInv'
  <1> SUFFICES ASSUME GuestInv, LoadResults PROVE GuestInv'
    OBVIOUS
  <1>1. /\ UNCHANGED <<quizzes, mine, where, take, sub, left>> /\ shown' = where.quiz
        /\ where.page = "results" /\ MayRead(mine, where.quiz)
    BY DEF LoadResults, guestServer
  <1>2. where.quiz \in DOMAIN quizzes
    BY <1>1 DEF GuestInv, PlaceOK
  <1>3. PlaceOK'
    BY <1>1, <1>2 DEF PlaceOK, MayRead, Known
  <1>4. QuizzesGrow /\ StageOK(sub)' /\ StageOK(left)' /\ TakeOK'
    BY <1>1, QuizzesStay, StagesStay, TakeStays
  <1> QED
    BY <1>3, <1>4 DEF GuestInv, QuizzesGrow

LEMMA SignupKeeps == GuestInv /\ FollowSignup => GuestInv'
  <1> SUFFICES ASSUME GuestInv, FollowSignup PROVE GuestInv'
    OBVIOUS
  <1>1. /\ GoWith("signup", shown, mine) /\ quizzes' = quizzes /\ shown # 0
        /\ {sub', left'} \subseteq {sub, left, NoSub}
    BY DEF FollowSignup, SignupHref, GoOn, guestServer
  <1>2. shown \in DOMAIN quizzes /\ quizzes[shown].owner = mine
    BY <1>1 DEF GuestInv, PlaceOK
  <1>3. QuizzesGrow /\ StageOK(sub)' /\ StageOK(left)'
    BY <1>1, QuizzesStay, StagesStay
  <1>4. PlaceOK' /\ TakeOK'
    BY <1>1, <1>2, PageOpens
  <1> QED
    BY <1>3, <1>4 DEF GuestInv, QuizzesGrow

LEMMA ConvertKeeps == GuestInv /\ (ConvertGuest \/ ConvertLost) => GuestInv'
  <1> SUFFICES ASSUME GuestInv, ConvertGuest \/ ConvertLost PROVE GuestInv'
    OBVIOUS
  <1>1. where.page = "signup" /\ where.id # NoId /\ quizzes' = Handover(where.id)
    BY DEF ConvertGuest, ConvertLost, Converted
  <1>2. where.quiz \in DOMAIN quizzes /\ quizzes[where.quiz].owner = where.id
    BY <1>1 DEF GuestInv, PlaceOK
  <1>3. QuizzesGrow /\ quizzes'[where.quiz].user /\ where.quiz \in DOMAIN quizzes'
    <2>1. /\ QuizzesGrow
          /\ \A q \in DOMAIN quizzes : quizzes[q].owner = where.id => quizzes'[q].user
      BY <1>1, QuizHanded
    <2> QED
      BY <1>2, <2>1 DEF QuizzesGrow
  <1>4. {sub', left'} \subseteq {sub, left, NoSub}
    BY DEF ConvertGuest, ConvertLost, GoOn, guestPages
  <1>5. CASE ConvertGuest
    <2>1. GoWith("dashboard", where.quiz, NoId)
      BY <1>5 DEF ConvertGuest
    <2>2. PlaceOK' /\ TakeOK'
      BY <1>3, <2>1, PageOpens
    <2> QED
      BY <1>3, <1>4, <2>2, StagesStay DEF GuestInv, QuizzesGrow
  <1>6. CASE ConvertLost
    <2>1. UNCHANGED <<where, shown, mine, take>>
      BY <1>6 DEF ConvertLost, guestPages
    <2>2. PlaceOK' /\ TakeOK'
      BY <1>3, <2>1, PlaceStays, TakeStays
    <2> QED
      BY <1>3, <1>4, <2>2, StagesStay DEF GuestInv, QuizzesGrow
  <1> QED
    BY <1>5, <1>6

LEMMA WorkerKeeps == ASSUME GuestInv, NEW q, GenerateQuiz(q) PROVE GuestInv'
  <1>1. /\ UNCHANGED <<where, take, shown, mine, sub, left>> /\ q \in DOMAIN quizzes
        /\ \E st \in {"ready", "generation_failed"} : quizzes' = [quizzes EXCEPT ![q].st = st]
    BY DEF GenerateQuiz, ServerOnly, guestPages
  <1>2. QuizzesGrow
    BY <1>1, QuizGenerated
  <1>3. PlaceOK' /\ TakeOK' /\ StageOK(sub)' /\ StageOK(left)'
    BY <1>1, <1>2, PlaceStays, TakeStays, StagesStay
  <1> QED
    BY <1>2, <1>3 DEF GuestInv, QuizzesGrow

LEMMA GuestInvNext == GuestInv /\ [Next]_accountsVars => GuestInv'
  <1> SUFFICES ASSUME GuestInv, GuestNext \/ UNCHANGED guestVars PROVE GuestInv'
    BY OnePart
  <1>1. CASE UNCHANGED guestVars
    BY <1>1, FormKeeps DEF guestVars, guestServer, guestPages
  <1>2. CASE VisitTry \/ ReloadGuest \/ \E q \in 1..MaxQuizzes : VisitQuiz(q)
    BY <1>2, VisitKeeps, ReloadKeeps DEF VisitTry, VisitQuiz
  <1>3. CASE \/ OtherTab \/ (\E m \in {"topic", "text", "file"} : SelectMode(m))
             \/ TypeTopic \/ TypeText \/ (\E large \in BOOLEAN : AddFiles(large))
             \/ RemoveFile \/ Turnstile
    <2>1. UNCHANGED <<quizzes, where, take, shown, mine, sub, left>>
      BY <1>3, Zenon DEF OtherTab, SelectMode, TypeTopic, TypeText, AddFiles, RemoveFile, Turnstile,
                  Edit, guestServer
    <2> QED
      BY <2>1, FormKeeps
  <1>4. CASE Submit \/ \E s \in {"sub", "left"} :
                \/ UploadFile(s) \/ FilesReady(s) \/ FilesFailed(s)
                \/ CreateQuiz(s) \/ QuizReady(s) \/ QuizFailed(s)
                \/ TimeOut(s) \/ Refused(s)
    BY <1>4, SubmitKeeps, ReadyKeeps, HandleSubmitKeeps
  <1>5. CASE \/ \E n \in 1..(MaxQuizzes + MaxUploads) : ParseFile(n)
             \/ \E g \in Guests : Cleanup(g)
    <2>1. UNCHANGED <<quizzes, where, take, shown, mine, sub, left>>
      BY <1>5, Zenon DEF ParseFile, Cleanup, ServerOnly, guestPages
    <2> QED
      BY <2>1, FormKeeps
  <1>6. CASE \E n \in 1..(MaxQuizzes + MaxUploads) : GenerateQuiz(n)
    BY <1>6, WorkerKeeps
  <1>7. CASE \/ FetchSession \/ PollSession \/ FetchItems
             \/ (\E st \in {"generating", "ready", "generation_failed", "missing", "broken"} : PollAnswered(st))
             \/ WriteAnswer \/ SubmitAnswer \/ SubmitPublicAnswer
    BY <1>7, TakingKeeps DEF Told
  <1>8. CASE LoadResults \/ FollowSignup \/ ConvertGuest \/ ConvertLost
    BY <1>8, ResultsKeep, SignupKeeps, ConvertKeeps
  <1> QED
    BY <1>1, <1>2, <1>3, <1>4, <1>5, <1>6, <1>7, <1>8 DEF GuestNext

LEMMA GuestInvAlways == Spec => []GuestInv
  <1>1. Init => GuestInv
    BY GuestInvInit DEF Init
  <1> QED
    BY <1>1, GuestInvNext, PTL DEF Spec

\* A page that says that a quiz is being prepared still asks for it, whatever the order in
\* which the answers of its polls arrive.
THEOREM PreparingPagesAsk == Spec => []PreparingIsWatched
  <1>1. GuestInv => PreparingIsWatched
    <2> SUFFICES ASSUME GuestInv, OnTake, Screen = "preparing"
                 PROVE  take.init \/ take.fetching \/ take.status = "generating"
      BY DEF PreparingIsWatched
    <2>1. take \in TakeSet /\ Followed(take)
      BY DEF GuestInv, TakeOK
    <2>2. /\ take.error = "none" /\ take.status # "generation_failed"
          /\ take.status # "ready" \/ ~take.items
      BY <2>1 DEF Screen, TakeSet
    <2> QED
      BY <2>1, <2>2 DEF TakeSet, Followed
  <1> QED
    BY <1>1, GuestInvAlways, PTL

\* The quiz whose results led to signing up is the new user's, for any number of guests
\* and tabs that put their own ids in the storage.
THEOREM QuizGoesAlong == Spec => []SignupKeepsQuiz
  <1>1. GuestInv => SignupKeepsQuiz
    BY DEF GuestInv, PlaceOK, SignupKeepsQuiz
  <1> QED
    BY <1>1, GuestInvAlways, PTL

-----------------------------------------------------------------------------
\* A guest's names, pages and form.

GuestSt   == {"none", "live", "converted", "deleted"}
Names     == Guests \cup {NoId}
GuestPage == {"away", "try", "take", "results", "signup", "dashboard"}
StageSt   == {"no", "upload", "parse", "create", "generate"}
FormSet   == [mode : {"topic", "text", "file"}, topic : BOOLEAN, text : BOOLEAN, file : BOOLEAN,
              bad : BOOLEAN, token : BOOLEAN,
              error : {"none", "file", "timeout", "generation", "limit", "request"}]

NamesOK == made \in 0 .. Len(Ids) /\ mine \in Names /\ stored \in Names /\ where.id \in Names

WhereOK == where.page \in GuestPage /\ where.quiz \in 0 .. Len(quizzes) /\ shown \in {0, where.quiz}

FormOK == form \in FormSet /\ sub.st \in StageSt /\ left.st \in StageSt

GivenOK == given \subseteq DOMAIN quizzes /\ logged \subseteq DOMAIN quizzes /\ tries \in 0 .. MaxTries

GuestsOK == guests \in [Guests -> GuestSt] /\ NamesOK /\ WhereOK /\ FormOK /\ GivenOK

LEMMA GuestsInit == GuestInit => GuestsOK
  <1> SUFFICES ASSUME GuestInit PROVE GuestsOK
    OBVIOUS
  <1>1. Len(Ids) \in Nat /\ MaxTries \in Nat
    BY GuestAssumption
  <1>2. /\ guests = [g \in Guests |-> "none"] /\ made = 0 /\ mine = NoId /\ stored = NoId
        /\ where.page = "away" /\ where.quiz = 0 /\ where.id = NoId /\ shown = 0 /\ quizzes = <<>>
        /\ form = NewForm /\ sub.st = "no" /\ left.st = "no" /\ given = {} /\ logged = {} /\ tries = 0
    BY DEF GuestInit, NoSub
  <1>3. guests \in [Guests -> GuestSt] /\ Len(quizzes) = 0
    BY <1>2 DEF GuestSt
  <1>4. NewForm \in FormSet
    BY DEF NewForm, FormSet
  <1>5. NamesOK /\ WhereOK
    BY <1>1, <1>2, <1>3 DEF NamesOK, Names, WhereOK, GuestPage
  <1>6. FormOK /\ GivenOK
    BY <1>1, <1>2, <1>4 DEF FormOK, StageSt, GivenOK
  <1> QED
    BY <1>3, <1>5, <1>6 DEF GuestsOK

\* The steps of handleSubmit.
HandlesSubmit(s) ==
    \/ UploadFile(s) \/ FilesReady(s) \/ FilesFailed(s) \/ CreateQuiz(s) \/ QuizReady(s) \/ QuizFailed(s)
    \/ TimeOut(s) \/ Refused(s)

Editing ==
    \/ (\E m \in {"topic", "text", "file"} : SelectMode(m)) \/ TypeTopic \/ TypeText
    \/ (\E large \in BOOLEAN : AddFiles(large)) \/ RemoveFile

Taking ==
    \/ FetchSession \/ PollSession \/ FetchItems \/ (\E st \in Told : PollAnswered(st))
    \/ WriteAnswer \/ SubmitAnswer \/ SubmitPublicAnswer

Working == \E n \in 1..(MaxQuizzes + MaxUploads) : ParseFile(n) \/ GenerateQuiz(n)

Cleaning == \E g \in Guests : Cleanup(g)

Moving == VisitTry \/ (\E q \in 1..MaxQuizzes : VisitQuiz(q)) \/ ReloadGuest \/ FollowSignup

LEMMA GuestSteps ==
  GuestNext => \/ Moving \/ OtherTab \/ Editing \/ Turnstile \/ Submit
               \/ (\E s \in {"sub", "left"} : HandlesSubmit(s))
               \/ Working \/ Cleaning \/ Taking \/ LoadResults \/ ConvertGuest \/ ConvertLost
  BY Zenon DEF GuestNext, Moving, Editing, HandlesSubmit, Working, Cleaning, Taking, Told

\* What each of them leaves alone.
LEMMA MovingLeaves ==
  Moving => UNCHANGED <<guests, quizzes, uploads, logged, made, stored, given>> /\ Try(1)
  BY Zenon DEF Moving, VisitTry, VisitQuiz, VisitGuest, ReloadGuest, FollowSignup, guestServer

LEMMA EditingLeaves ==
  Editing => /\ UNCHANGED <<guests, quizzes, uploads, logged, made, mine, stored, where, sub, left, take,
                            shown, given>>
             /\ Try(1)
  BY Zenon DEF Editing, SelectMode, TypeTopic, TypeText, AddFiles, RemoveFile, Edit, guestServer

LEMMA TakingLeaves ==
  Taking => /\ UNCHANGED <<guests, quizzes, uploads, logged, made, mine, stored, where, form, sub, left, shown>>
            /\ given' = given \/ given' = given \cup {where.quiz}
            /\ OnTake /\ (Try(1) \/ tries' = tries)
  <1> SUFFICES ASSUME Taking
               PROVE  /\ UNCHANGED <<guests, quizzes, uploads, logged, made, mine, stored, where, form, sub,
                                     left, shown>>
                      /\ given' = given \/ given' = given \cup {where.quiz}
                      /\ OnTake /\ (Try(1) \/ tries' = tries)
    OBVIOUS
  <1>1. CASE FetchSession \/ PollSession \/ FetchItems \/ (\E st \in Told : PollAnswered(st))
    BY <1>1, Zenon DEF FetchSession, PollSession, FetchItems, PollAnswered, TakeBecomes, guestServer
  <1>2. CASE WriteAnswer \/ SubmitAnswer \/ SubmitPublicAnswer
    BY <1>2, Zenon DEF WriteAnswer, SubmitAnswer, SubmitPublicAnswer, guestServer
  <1> QED
    BY <1>1, <1>2 DEF Taking

LEMMA WorkingLeaves ==
  Working => UNCHANGED <<guests, logged, guestPages, tries>>
  BY Zenon DEF Working, ParseFile, GenerateQuiz, ServerOnly

LEMMA CleaningLeaves ==
  Cleaning => UNCHANGED <<quizzes, logged, guestPages>> /\ Try(1)
  BY Zenon DEF Cleaning, Cleanup

LEMMA HandlingLeaves ==
  ASSUME NEW s, HandlesSubmit(s)
  PROVE  UNCHANGED <<logged, made, mine, stored, given, tries>>
  <1>1. CASE UploadFile(s) \/ FilesReady(s) \/ CreateQuiz(s)
    BY <1>1, Zenon DEF UploadFile, FilesReady, CreateQuiz, OnPage, guestServer
  <1>2. CASE FilesFailed(s) \/ QuizFailed(s) \/ TimeOut(s) \/ Refused(s)
    BY <1>2, Zenon DEF FilesFailed, QuizFailed, TimeOut, Refused, Fails, OnPage, guestServer
  <1>3. CASE QuizReady(s)
    BY <1>3, Zenon DEF QuizReady, guestServer
  <1> QED
    BY <1>1, <1>2, <1>3 DEF HandlesSubmit

\* A quiz is never lost.
LEMMA QuizzesStayThere ==
  ASSUME GuestInv, GuestNext \/ UNCHANGED guestVars
  PROVE  DOMAIN quizzes \subseteq DOMAIN quizzes' /\ Len(quizzes) \in Nat /\ DOMAIN quizzes = 1 .. Len(quizzes)
  <1>1. Len(quizzes) \in Nat /\ DOMAIN quizzes = 1 .. Len(quizzes)
    BY DEF GuestInv
  <1>2. CASE quizzes' = quizzes
    BY <1>1, <1>2
  <1>3. CASE \E s \in {"sub", "left"} : HandlesSubmit(s)
    <2>1. PICK s \in {"sub", "left"} : HandlesSubmit(s)
      BY <1>3
    <2>2. CASE CreateQuiz(s)
      <3>1. PICK id : id = Of(s).by
        OBVIOUS
      <3>2. quizzes' = Append(quizzes, [owner |-> id, st |-> "generating", user |-> FALSE])
        BY <2>2, <3>1 DEF CreateQuiz
      <3> QED
        BY <1>1, <3>2, QuizAdded DEF QuizzesGrow
    <2>3. CASE ~CreateQuiz(s)
      BY <1>1, <1>2, <2>1, <2>3, Zenon DEF HandlesSubmit, UploadFile, FilesReady, FilesFailed, QuizReady, QuizFailed,
         TimeOut, Refused, guestServer
    <2> QED
      BY <2>2, <2>3
  <1>4. CASE Working
    <2>1. CASE \E n : GenerateQuiz(n)
      <3>1. PICK n : GenerateQuiz(n)
        BY <2>1
      <3>2. n \in DOMAIN quizzes /\ \E st \in {"ready", "generation_failed"} : quizzes' = [quizzes EXCEPT ![n].st = st]
        BY <3>1 DEF GenerateQuiz
      <3> QED
        BY <1>1, <3>2, QuizGenerated DEF QuizzesGrow
    <2>2. CASE \E n : ParseFile(n)
      BY <1>2, <2>2, Zenon DEF ParseFile
    <2> QED
      BY <1>4, <2>1, <2>2 DEF Working
  <1>5. CASE ConvertGuest \/ ConvertLost
    <2>1. quizzes' = Handover(where.id)
      BY <1>5 DEF ConvertGuest, ConvertLost, Converted
    <2> QED
      BY <1>1, <2>1, QuizHanded DEF QuizzesGrow
  <1>6. CASE OtherTab \/ Turnstile \/ Submit \/ LoadResults \/ UNCHANGED guestVars
    BY <1>2, <1>6, Zenon DEF OtherTab, Turnstile, Submit, LoadResults, guestVars, guestServer
  <1>7. CASE Moving \/ Editing \/ Taking \/ Cleaning
    <2>1. quizzes' = quizzes
      BY <1>7, MovingLeaves, EditingLeaves, TakingLeaves, CleaningLeaves
    <2> QED
      BY <1>2, <2>1
  <1> QED
    BY <1>3, <1>4, <1>5, <1>6, <1>7, GuestSteps

\* The server's records of the guests.
LEMMA RecordsKeep ==
  ASSUME guests \in [Guests -> GuestSt], GuestNext \/ UNCHANGED guestVars
  PROVE  guests' \in [Guests -> GuestSt]
  <1>1. CASE guests' = guests
    BY <1>1
  <1>2. ASSUME NEW x, guests' = Recorded(x) PROVE guests' \in [Guests -> GuestSt]
    <2>1. \A g \in Guests : guests'[g] \in {guests[g], "live"}
      BY <1>2 DEF Recorded
    <2>2. guests' = [g \in Guests |-> guests'[g]]
      BY <1>2 DEF Recorded
    <2> QED
      BY <2>1, <2>2 DEF GuestSt
  <1>3. ASSUME NEW x, NEW st \in GuestSt, guests' = [guests EXCEPT ![x] = st] PROVE guests' \in [Guests -> GuestSt]
    BY <1>3
  <1>4. CASE \E s \in {"sub", "left"} : HandlesSubmit(s)
    <2>1. PICK s \in {"sub", "left"} : HandlesSubmit(s)
      BY <1>4
    <2>2. CASE UploadFile(s) \/ CreateQuiz(s)
      <3>1. guests' = Recorded(Of(s).by)
        BY <2>2 DEF UploadFile, CreateQuiz
      <3> QED
        BY <1>2, <3>1
    <2>3. CASE ~(UploadFile(s) \/ CreateQuiz(s))
      BY <1>1, <2>1, <2>3, Zenon DEF HandlesSubmit, FilesReady, FilesFailed, QuizReady, QuizFailed,
         TimeOut, Refused, guestServer
    <2> QED
      BY <2>2, <2>3
  <1>5. CASE OtherTab
    <2>1. guests' = guests \/ guests' = Recorded(stored')
      BY <1>5 DEF OtherTab
    <2> QED
      BY <1>1, <1>2, <2>1
  <1>6. CASE Cleaning
    <2>1. PICK g : guests' = [guests EXCEPT ![g] = "deleted"]
      BY <1>6 DEF Cleaning, Cleanup
    <2> QED
      BY <1>3, <2>1 DEF GuestSt
  <1>7. CASE ConvertGuest \/ ConvertLost
    <2>1. guests' = [guests EXCEPT ![where.id] = "converted"]
      BY <1>7 DEF ConvertGuest, ConvertLost, Converted
    <2> QED
      BY <1>3, <2>1 DEF GuestSt
  <1>8. CASE Turnstile \/ Submit \/ LoadResults \/ UNCHANGED guestVars
    BY <1>1, <1>8, Zenon DEF Turnstile, Submit, LoadResults, guestVars, guestServer
  <1>9. CASE Moving \/ Editing \/ Taking \/ Working
    <2>1. guests' = guests
      BY <1>9, MovingLeaves, EditingLeaves, TakingLeaves, WorkingLeaves
    <2> QED
      BY <1>1, <2>1
  <1> QED
    BY <1>4, <1>5, <1>6, <1>7, <1>8, <1>9, GuestSteps

\* The names that were made.
LEMMA NamesAreMade ==
  ASSUME NEW m, made \in 0 .. Len(Ids), made < Len(Ids), m = made + 1
  PROVE  m \in 0 .. Len(Ids) /\ Ids[m] \in Names
  <1>1. Len(Ids) \in Nat /\ DOMAIN Ids = 1 .. Len(Ids)
    BY GuestAssumption
  <1> QED
    BY <1>1 DEF Names, Guests

LEMMA NamesKeep ==
  ASSUME NamesOK, GuestNext \/ UNCHANGED guestVars
  PROVE  made' \in 0 .. Len(Ids) /\ mine' \in Names /\ stored' \in Names
  <1>1. CASE UNCHANGED <<made, mine, stored>>
    BY <1>1 DEF NamesOK
  <1>2. CASE OtherTab
    <2>1. made < Len(Ids) /\ made' = made + 1 /\ stored' = Ids[made'] /\ mine' = mine
      BY <1>2 DEF OtherTab
    <2> QED
      BY <2>1, NamesAreMade DEF NamesOK
  <1>3. CASE Submit
    <2>1. CASE made < Len(Ids) /\ made' = made + 1 /\ mine' = Ids[made'] /\ stored' = Ids[made']
      BY <2>1, NamesAreMade DEF NamesOK
    <2> QED
      BY <1>1, <1>3, <2>1 DEF Submit, GetOrCreateSessionId
  <1>4. CASE Moving
    <2>1. UNCHANGED <<made, stored>> /\ mine' \in {mine, stored}
      BY <1>4, Zenon DEF Moving, VisitTry, VisitQuiz, VisitGuest, ReloadGuest, FollowSignup
    <2> QED
      BY <2>1 DEF NamesOK
  <1>5. CASE ConvertGuest
    <2>1. made' = made /\ mine' = NoId /\ stored' = NoId
      BY <1>5 DEF ConvertGuest
    <2> QED
      BY <2>1 DEF NamesOK, Names
  <1>6. CASE Turnstile \/ LoadResults \/ ConvertLost \/ UNCHANGED guestVars
    BY <1>1, <1>6, Zenon DEF Turnstile, LoadResults, ConvertLost, guestVars, guestPages
  <1>7. CASE Editing \/ Taking \/ Working \/ Cleaning \/ \E s \in {"sub", "left"} : HandlesSubmit(s)
    <2>1. UNCHANGED <<made, mine, stored>>
      BY <1>7, EditingLeaves, TakingLeaves, WorkingLeaves, CleaningLeaves, HandlingLeaves DEF guestPages
    <2> QED
      BY <1>1, <2>1
  <1> QED
    BY <1>2, <1>3, <1>4, <1>5, <1>6, <1>7, GuestSteps

\* The page that is shown.
LEMMA WhereOpens ==
  ASSUME NEW opened \in GuestPage, NEW q, q \in 0 .. Len(quizzes'), NEW id \in Names,
         GoWith(opened, q, id)
  PROVE  WhereOK' /\ where'.id \in Names
  <1>1. where' = [page |-> opened, quiz |-> q, id |-> id] /\ shown' = 0
    BY DEF GoWith
  <1> QED
    BY <1>1 DEF WhereOK

LEMMA WhereKeeps ==
  ASSUME GuestInv, NamesOK, WhereOK, GuestNext \/ UNCHANGED guestVars, Len(quizzes') \in Nat,
         DOMAIN quizzes' = 1 .. Len(quizzes')
  PROVE  WhereOK' /\ where'.id \in Names
  <1>1. /\ DOMAIN quizzes \subseteq DOMAIN quizzes' /\ Len(quizzes) \in Nat /\ DOMAIN quizzes = 1 .. Len(quizzes)
        /\ NoId \in Names
    BY QuizzesStayThere DEF Names
  <1>2. Len(quizzes) <= Len(quizzes')
    BY <1>1
  <1>3. \A q : q \in 0 .. Len(quizzes) => q \in 0 .. Len(quizzes')
    BY <1>1, <1>2
  <1>4. CASE UNCHANGED <<where, shown>>
    BY <1>3, <1>4 DEF WhereOK, NamesOK
  <1>5. CASE Moving
    <2>1. CASE VisitTry \/ \E q \in 1..MaxQuizzes : VisitQuiz(q)
      <3>1. PICK opened \in {"try", "take", "results"}, q \in {0} \cup DOMAIN quizzes : GoWith(opened, q, NoId)
        BY <2>1 DEF VisitTry, VisitQuiz, VisitGuest, Go
      <3>2. opened \in GuestPage /\ q \in 0 .. Len(quizzes')
        BY <1>1, <1>3, <3>1 DEF GuestPage
      <3> QED
        BY <1>1, <3>1, <3>2, WhereOpens
    <2>2. CASE ReloadGuest
      <3>1. GoWith(where.page, where.quiz, where.id)
        BY <2>2 DEF ReloadGuest
      <3>2. where.page \in GuestPage /\ where.quiz \in 0 .. Len(quizzes') /\ where.id \in Names
        BY <1>3 DEF WhereOK, NamesOK
      <3> QED
        BY <3>1, <3>2, WhereOpens
    <2>3. CASE FollowSignup
      <3>1. GoWith("signup", shown, mine)
        BY <2>3 DEF FollowSignup, SignupHref
      <3>2. shown \in 0 .. Len(quizzes') /\ mine \in Names /\ "signup" \in GuestPage
        BY <1>1, <1>3 DEF WhereOK, NamesOK, GuestPage
      <3> QED
        BY <3>1, <3>2, WhereOpens
    <2> QED
      BY <1>5, <2>1, <2>2, <2>3 DEF Moving
  <1>6. CASE \E s \in {"sub", "left"} : HandlesSubmit(s)
    <2>1. PICK s \in {"sub", "left"} : HandlesSubmit(s)
      BY <1>6
    <2>2. CASE QuizReady(s)
      <3>1. GoWith("take", Of(s).quiz, NoId)
        BY <2>2 DEF QuizReady, Go
      <3>2. Of(s).quiz \in DOMAIN quizzes
        BY <2>2 DEF QuizReady, Of, GuestInv, StageOK
      <3>3. Of(s).quiz \in 0 .. Len(quizzes') /\ "take" \in GuestPage
        BY <1>1, <1>3, <3>2 DEF GuestPage
      <3> QED
        BY <1>1, <3>1, <3>3, WhereOpens
    <2>3. CASE ~QuizReady(s)
      <3>1. OnPage
        <4>1. CASE UploadFile(s) \/ FilesReady(s) \/ CreateQuiz(s)
          BY <4>1, Zenon DEF UploadFile, FilesReady, CreateQuiz
        <4>2. CASE FilesFailed(s) \/ QuizFailed(s) \/ TimeOut(s) \/ Refused(s)
          BY <4>2, Zenon DEF FilesFailed, QuizFailed, TimeOut, Refused, Fails
        <4> QED
          BY <2>1, <2>3, <4>1, <4>2 DEF HandlesSubmit
      <3> QED
        BY <1>4, <3>1 DEF OnPage
    <2> QED
      BY <2>2, <2>3
  <1>7. CASE LoadResults
    <2>1. where' = where /\ shown' = where.quiz
      BY <1>7 DEF LoadResults
    <2> QED
      BY <1>3, <2>1 DEF WhereOK, NamesOK
  <1>8. CASE ConvertGuest
    <2>1. GoWith("dashboard", where.quiz, NoId)
      BY <1>8 DEF ConvertGuest
    <2>2. where.quiz \in 0 .. Len(quizzes') /\ "dashboard" \in GuestPage
      BY <1>3 DEF WhereOK, GuestPage
    <2> QED
      BY <1>1, <2>1, <2>2, WhereOpens
  <1>9. CASE OtherTab \/ Turnstile \/ Submit \/ ConvertLost \/ UNCHANGED guestVars
    BY <1>4, <1>9, Zenon DEF OtherTab, Turnstile, Submit, ConvertLost, guestVars, guestPages
  <1>10. CASE Editing \/ Taking \/ Working \/ Cleaning
    <2>1. UNCHANGED <<where, shown>>
      BY <1>10, EditingLeaves, TakingLeaves, WorkingLeaves, CleaningLeaves DEF guestPages
    <2> QED
      BY <1>4, <2>1
  <1> QED
    BY <1>5, <1>6, <1>7, <1>8, <1>9, <1>10, GuestSteps

\* The form, and what its handleSubmit waits for.
LEMMA FormIsSet ==
  ASSUME NEW f \in FormSet
  PROVE  /\ \A e \in {"none", "file", "timeout", "generation", "limit", "request"} :
               [f EXCEPT !.error = e] \in FormSet
         /\ \A m \in {"topic", "text", "file"} : [f EXCEPT !.mode = m] \in FormSet
         /\ \A b \in BOOLEAN : /\ [f EXCEPT !.topic = b] \in FormSet /\ [f EXCEPT !.text = b] \in FormSet
                               /\ [f EXCEPT !.token = b] \in FormSet /\ [f EXCEPT !.bad = b] \in FormSet
                               /\ [f EXCEPT !.file = b, !.bad = FALSE] \in FormSet
  BY DEF FormSet

LEMMA NewFormFits == NewForm \in FormSet /\ NoSub.st = "no" /\ "no" \in StageSt
  BY DEF NewForm, FormSet, NoSub, StageSt

LEMMA EditsKeep == FormOK /\ (Editing \/ Turnstile) => FormOK'
  <1> SUFFICES ASSUME FormOK, Editing \/ Turnstile PROVE FormOK'
    OBVIOUS
  <1>1. UNCHANGED <<sub, left>>
    BY EditingLeaves DEF Turnstile
  <1>2. PICK f \in FormSet : f = form
    BY DEF FormOK
  <1>3. form' \in FormSet
    <2>1. CASE \E m \in {"topic", "text", "file"} : SelectMode(m)
      BY <1>2, <2>1, FormIsSet DEF SelectMode, Edit
    <2>2. CASE TypeTopic
      <3>1. PICK b \in BOOLEAN : b = ~f.topic
        OBVIOUS
      <3>2. form' = [f EXCEPT !.topic = b]
        BY <1>2, <2>2, <3>1 DEF TypeTopic, Edit
      <3> QED
        BY <3>2, FormIsSet
    <2>3. CASE TypeText
      <3>1. PICK b \in BOOLEAN : b = ~f.text
        OBVIOUS
      <3>2. form' = [f EXCEPT !.text = b]
        BY <1>2, <2>3, <3>1 DEF TypeText, Edit
      <3> QED
        BY <3>2, FormIsSet
    <2>4. CASE \E large \in BOOLEAN : AddFiles(large)
      <3>1. form' = [f EXCEPT !.bad = TRUE] \/ form' = [f EXCEPT !.file = TRUE, !.bad = FALSE]
        BY <1>2, <2>4 DEF AddFiles, Edit
      <3> QED
        BY <3>1, FormIsSet
    <2>5. CASE RemoveFile
      <3>1. form' = [f EXCEPT !.file = FALSE, !.bad = FALSE]
        BY <1>2, <2>5 DEF RemoveFile, Edit
      <3> QED
        BY <3>1, FormIsSet
    <2>6. CASE Turnstile
      <3>1. PICK b \in BOOLEAN : b = ~f.token
        OBVIOUS
      <3>2. form' = [f EXCEPT !.token = b]
        BY <1>2, <2>6, <3>1 DEF Turnstile
      <3> QED
        BY <3>2, FormIsSet
    <2> QED
      BY <2>1, <2>2, <2>3, <2>4, <2>5, <2>6 DEF Editing
  <1> QED
    BY <1>1, <1>3 DEF FormOK

LEMMA BecomesFits ==
  ASSUME FormOK, NEW s, NEW t, t.st \in StageSt,
         NEW error \in {"none", "file", "timeout", "generation", "limit", "request"}, Becomes(s, t, error)
  PROVE  FormOK'
  <1>1. PICK f \in FormSet : f = form
    BY DEF FormOK
  <1>2. CASE sub' = t /\ left' = left /\ (form' = form \/ form' = [f EXCEPT !.error = error])
    BY <1>1, <1>2, FormIsSet DEF FormOK
  <1>3. CASE left' = t /\ sub' = sub /\ form' = form
    BY <1>3 DEF FormOK
  <1> QED
    BY <1>1, <1>2, <1>3 DEF Becomes

LEMMA HandlingFits ==
  ASSUME GuestInv, FormOK, NEW s \in {"sub", "left"}, HandlesSubmit(s)
  PROVE  FormOK'
  <1>1. PICK x : x = Of(s)
    OBVIOUS
  <1>2. "st" \in DOMAIN x /\ NoSub.st = "no" /\ StageSt = {"no", "upload", "parse", "create", "generate"}
    BY <1>1 DEF GuestInv, StageOK, IsStage, Of, NoSub, StageSt
  <1>3. CASE UploadFile(s)
    <2>1. PICK n : n = Len(uploads')
      OBVIOUS
    <2>2. PICK t : t = [x EXCEPT !.st = "parse", !.file = n]
      OBVIOUS
    <2>3. t.st = "parse"
      BY <1>2, <2>2
    <2>4. Becomes(s, t, "none")
      BY <1>1, <1>3, <2>1, <2>2 DEF UploadFile
    <2> QED
      BY <1>2, <2>3, <2>4, BecomesFits
  <1>4. CASE FilesReady(s)
    <2>1. PICK t : t = [x EXCEPT !.st = "create", !.by = mine]
      OBVIOUS
    <2>2. t.st = "create"
      BY <1>2, <2>1
    <2>3. Becomes(s, t, "none")
      BY <1>1, <1>4, <2>1 DEF FilesReady
    <2> QED
      BY <1>2, <2>2, <2>3, BecomesFits
  <1>5. CASE CreateQuiz(s)
    <2>1. PICK n : n = Len(quizzes')
      OBVIOUS
    <2>2. PICK t : t = [x EXCEPT !.st = "generate", !.quiz = n]
      OBVIOUS
    <2>3. t.st = "generate"
      BY <1>2, <2>2
    <2>4. Becomes(s, t, "none") \/ Becomes(s, NoSub, "request")
      BY <1>1, <1>5, <2>1, <2>2 DEF CreateQuiz
    <2> QED
      BY <1>2, <2>3, <2>4, BecomesFits
  <1>6. CASE FilesFailed(s) \/ QuizFailed(s) \/ TimeOut(s) \/ Refused(s)
    <2>1. \E error \in {"file", "generation", "timeout", "request", "limit"} : Becomes(s, NoSub, error)
      BY <1>6 DEF FilesFailed, QuizFailed, TimeOut, Refused, Fails
    <2> QED
      BY <1>2, <2>1, BecomesFits
  <1>7. CASE QuizReady(s)
    <2>1. form' = NewForm /\ sub' = NoSub /\ left' \in {left, sub}
      BY <1>7 DEF QuizReady, Go, GoWith
    <2> QED
      BY <2>1, NewFormFits DEF FormOK
  <1> QED
    BY <1>3, <1>4, <1>5, <1>6, <1>7 DEF HandlesSubmit

LEMMA FormNext ==
  ASSUME GuestInv, FormOK, GuestNext \/ UNCHANGED guestVars
  PROVE  FormOK'
  <1>1. CASE UNCHANGED <<form, sub, left>>
    BY <1>1 DEF FormOK
  <1>2. CASE form' = NewForm /\ {sub', left'} \subseteq {sub, left, NoSub}
    BY <1>2, NewFormFits DEF FormOK
  <1>3. CASE Moving
    <2>1. form' = NewForm /\ {sub', left'} \subseteq {sub, left, NoSub}
      <3>1. CASE VisitTry \/ \E q \in 1..MaxQuizzes : VisitQuiz(q)
        BY <3>1 DEF VisitTry, VisitQuiz, VisitGuest, Go, GoWith, GoOn
      <3>2. CASE ReloadGuest \/ FollowSignup
        BY <3>2 DEF ReloadGuest, FollowSignup, GoWith, GoOn
      <3> QED
        BY <1>3, <3>1, <3>2 DEF Moving
    <2> QED
      BY <1>2, <2>1
  <1>4. CASE ConvertGuest
    <2>1. form' = NewForm /\ {sub', left'} \subseteq {sub, left, NoSub}
      BY <1>4 DEF ConvertGuest, GoWith, GoOn
    <2> QED
      BY <1>2, <2>1
  <1>5. CASE Submit
    <2>1. PICK m : m = mine'
      OBVIOUS
    <2>2. PICK st \in {"upload", "create"} : sub' = Stage(st, m)
      BY <1>5, <2>1 DEF Submit
    <2>3. sub'.st \in StageSt
      BY <2>2 DEF Stage, NoSub, StageSt
    <2>4. PICK f \in FormSet : f = form
      BY DEF FormOK
    <2>5. form' = [f EXCEPT !.error = "none"] /\ left' = left
      BY <1>5, <2>4 DEF Submit
    <2> QED
      BY <2>3, <2>5, FormIsSet DEF FormOK
  <1>6. CASE OtherTab \/ LoadResults \/ ConvertLost \/ UNCHANGED guestVars
    BY <1>1, <1>6, Zenon DEF OtherTab, LoadResults, ConvertLost, guestVars, guestPages
  <1>7. CASE Taking \/ Working \/ Cleaning
    <2>1. UNCHANGED <<form, sub, left>>
      BY <1>7, TakingLeaves, WorkingLeaves, CleaningLeaves DEF guestPages
    <2> QED
      BY <1>1, <2>1
  <1> QED
    BY <1>3, <1>4, <1>5, <1>6, <1>7, EditsKeep, HandlingFits, GuestSteps

\* The answers that were given, and what the guest did.
LEMMA TriesCount == tries \in 0 .. MaxTries /\ (Try(0) \/ Try(1) \/ tries' = tries) => tries' \in 0 .. MaxTries
  <1>1. MaxTries \in Nat
    BY GuestAssumption
  <1> QED
    BY <1>1 DEF Try

LEMMA GivenNext ==
  ASSUME GuestInv, GivenOK, GuestNext \/ UNCHANGED guestVars
  PROVE  GivenOK'
  <1>1. DOMAIN quizzes \subseteq DOMAIN quizzes'
    BY QuizzesStayThere
  <1>2. CASE UNCHANGED <<given, logged>> /\ (Try(0) \/ Try(1) \/ tries' = tries)
    BY <1>1, <1>2, TriesCount DEF GivenOK
  <1>3. CASE Taking
    <2>1. where.quiz \in DOMAIN quizzes
      BY <1>3, TakingLeaves DEF GuestInv, PlaceOK, OnTake
    <2>2. /\ given' = given \/ given' = given \cup {where.quiz}
          /\ logged' = logged /\ (Try(1) \/ tries' = tries)
      BY <1>3, TakingLeaves
    <2> QED
      BY <1>1, <2>1, <2>2, TriesCount DEF GivenOK
  <1>4. CASE OtherTab \/ Turnstile \/ Submit \/ LoadResults \/ ConvertGuest \/ ConvertLost \/ UNCHANGED guestVars
    <2>1. CASE Turnstile
      <3>1. UNCHANGED <<given, logged>> /\ (Try(0) \/ Try(1))
        BY <2>1 DEF Turnstile, guestServer
      <3> QED
        BY <1>2, <3>1
    <2>2. CASE OtherTab \/ Submit \/ LoadResults \/ ConvertGuest \/ ConvertLost \/ UNCHANGED guestVars
      <3>1. UNCHANGED <<given, logged>> /\ (Try(1) \/ tries' = tries)
        BY <2>2, Zenon DEF OtherTab, Submit, LoadResults, ConvertGuest, ConvertLost, Converted, guestVars, guestServer,
           guestPages
      <3> QED
        BY <1>2, <3>1
    <2> QED
      BY <1>4, <2>1, <2>2
  <1>5. CASE Moving \/ Editing \/ Cleaning
    <2>1. UNCHANGED <<given, logged>> /\ Try(1)
      BY <1>5, MovingLeaves, EditingLeaves, CleaningLeaves DEF guestPages
    <2> QED
      BY <1>2, <2>1
  <1>6. CASE Working \/ \E s \in {"sub", "left"} : HandlesSubmit(s)
    <2>1. UNCHANGED <<given, logged, tries>>
      BY <1>6, WorkingLeaves, HandlingLeaves DEF guestPages
    <2> QED
      BY <1>2, <2>1
  <1> QED
    BY <1>3, <1>4, <1>5, <1>6, GuestSteps

LEMMA GuestsNext ==
  ASSUME GuestInv, GuestInv', GuestsOK, GuestNext \/ UNCHANGED guestVars
  PROVE  GuestsOK'
  <1>1. Len(quizzes') \in Nat /\ DOMAIN quizzes' = 1 .. Len(quizzes')
    BY DEF GuestInv
  <1>2. guests' \in [Guests -> GuestSt]
    BY RecordsKeep DEF GuestsOK
  <1>3. WhereOK' /\ where'.id \in Names
    BY <1>1, WhereKeeps DEF GuestsOK
  <1>4. NamesOK'
    BY <1>3, NamesKeep DEF GuestsOK, NamesOK
  <1>5. FormOK' /\ GivenOK'
    BY FormNext, GivenNext DEF GuestsOK
  <1> QED
    BY <1>2, <1>3, <1>4, <1>5 DEF GuestsOK

LEMMA GuestsPromise == GuestsOK => GuestTypeOK
  <1> SUFFICES ASSUME GuestsOK PROVE GuestTypeOK
    OBVIOUS
  <1>1. form.error \in {"none", "file", "timeout", "generation", "limit", "request"}
    <2>1. form \in FormSet
      BY DEF GuestsOK, FormOK
    <2> QED
      BY <2>1 DEF FormSet
  <1> QED
    BY <1>1 DEF GuestsOK, GuestTypeOK, GuestSt, NamesOK, Names, WhereOK, GuestPage, FormOK, StageSt, GivenOK

-----------------------------------------------------------------------------
\* The console of an administrator.

Tabs   == {"out", "gate", "health", "users", "jobs", "impersonation"}
JobSet == [st : {"pending", "running", "completed", "failed"}, tries : Nat]
JobRow == [id : Nat, st : {"pending", "running", "completed", "failed"}, tries : Nat]

\* The rows of a list of jobs: an id stands in one of them.
Listable(rows) == rows \in Seq(JobRow) /\ \A i, k \in DOMAIN rows : rows[i].id = rows[k].id => i = k

IsCall(c) ==
    /\ c = [n |-> c.n, kind |-> c.kind, of |-> c.of, asks |-> c.asks, got |-> c.got,
            token |-> c.token, here |-> c.here, last |-> c.last]
    /\ c.here \in BOOLEAN /\ c.last \in BOOLEAN /\ c.kind \in PageHooks \cup {"banner"}
    /\ Listable(c.got)

ConsoleOK ==
    /\ console \in [tab : Tabs, error : BOOLEAN, own : Nat] /\ console.own <= Len(sessions)
    /\ acting \in 0 .. Len(sessions) /\ sessions \in Seq({"active", "ended"})
    /\ token \in {"none", "live", "old"}

\* A dialog is about one user, and on the tab of the users.
DialogOK == /\ dialog \subseteq Users /\ \A u, v \in dialog : u = v
            /\ dialog # {} => console.tab = "users"

\* A deletion and a password are asked for once: the button waits for the answer.
HooksOK ==
    /\ \A c \in calls : IsCall(c)
    /\ \A c \in calls : c.kind = "delete" /\ c.here => c.last /\ dialog = {c.of}
    /\ \A c \in calls : c.kind = "verify" /\ c.here => c.last /\ console.tab = "gate"
    /\ \A c, d \in calls : c.kind = d.kind /\ c.here /\ d.here /\ c.last /\ d.last => c = d

RowsOK == jobs \in Seq(JobSet) /\ "rows" \in DOMAIN view /\ Listable(view.rows)

ConsoleInv == ConsoleOK /\ DialogOK /\ HooksOK /\ RowsOK

LEMMA NothingListed == Listable(<<>>)
  <1>1. <<>> \in Seq(JobRow) /\ DOMAIN <<>> = {}
    OBVIOUS
  <1> QED
    BY <1>1 DEF Listable

LEMMA ConsoleInit == AdminInit => ConsoleInv
  <1> SUFFICES ASSUME AdminInit PROVE ConsoleInv
    OBVIOUS
  <1>1. /\ console = OutOfConsole /\ sessions = <<>> /\ acting = 0 /\ token = "none"
        /\ dialog = {} /\ calls = {} /\ jobs = <<>> /\ view = NoView
    BY DEF AdminInit
  <1>2. ConsoleOK
    BY <1>1 DEF ConsoleOK, OutOfConsole, Tabs
  <1>3. jobs \in Seq(JobSet) /\ NoView.rows = <<>> /\ "rows" \in DOMAIN NoView
    BY <1>1 DEF NoView
  <1> QED
    BY <1>1, <1>2, <1>3, NothingListed DEF ConsoleInv, DialogOK, HooksOK, RowsOK

-----------------------------------------------------------------------------
\* The calls.

\* A call is made: it takes the place of the last one of its hook.
LEMMA CallMade ==
  ASSUME HooksOK, NEW kind \in PageHooks \cup {"banner"}, NEW of, NEW asks, NEW got,
         CallFor(kind, of, asks, got), Listable(got), UNCHANGED <<console, dialog>>,
         kind = "delete" => dialog = {of} /\ ~Pending("delete"),
         kind = "verify" => console.tab = "gate" /\ ~Pending("verify")
  PROVE  HooksOK'
  <1> DEFINE new == [n |-> steps, kind |-> kind, of |-> of, asks |-> asks, got |-> got,
                     token |-> token, here |-> TRUE, last |-> TRUE]
             old(c) == [c EXCEPT !.last = @ /\ c.kind # kind]
  <1>1. calls' = {old(c) : c \in calls} \cup {new}
    BY DEF CallFor
  <1>2. /\ IsCall(new) /\ new.kind = kind /\ new.of = of /\ new.here /\ new.last
    BY DEF IsCall
  <1>3. ASSUME NEW c \in calls
        PROVE  /\ IsCall(old(c)) /\ old(c).kind = c.kind /\ old(c).of = c.of /\ old(c).here = c.here
               /\ old(c).last => c.last /\ c.kind # kind /\ old(c) = c
               /\ c.kind # kind => old(c) = c
    <2>1. IsCall(c)
      BY DEF HooksOK
    <2>2. PICK l \in BOOLEAN : l = (c.last /\ c.kind # kind)
      OBVIOUS
    <2>3. old(c) = [c EXCEPT !.last = l]
      BY <2>2
    <2>4. [c EXCEPT !.last = l] = [n |-> c.n, kind |-> c.kind, of |-> c.of, asks |-> c.asks, got |-> c.got,
                                   token |-> c.token, here |-> c.here, last |-> l]
      BY <2>1 DEF IsCall
    <2> HIDE DEF old
    <2>5. /\ old(c).n = c.n /\ old(c).kind = c.kind /\ old(c).of = c.of /\ old(c).asks = c.asks
          /\ old(c).got = c.got /\ old(c).token = c.token /\ old(c).here = c.here /\ old(c).last = l
          /\ old(c) = [n |-> c.n, kind |-> c.kind, of |-> c.of, asks |-> c.asks, got |-> c.got,
                       token |-> c.token, here |-> c.here, last |-> l]
      BY <2>3, <2>4
    <2>6. IsCall(old(c))
      BY <2>1, <2>5 DEF IsCall
    <2>7. l = c.last => old(c) = c
      BY <2>1, <2>5 DEF IsCall
    <2>8. c.last \in BOOLEAN
      BY <2>1 DEF IsCall
    <2> QED
      BY <2>2, <2>5, <2>6, <2>7, <2>8
  <1> HIDE DEF new, old
  <1>4. \A c \in calls' : c = new \/ \E d \in calls : c = old(d)
    BY <1>1
  <1>5. ASSUME NEW c \in calls'
        PROVE  /\ IsCall(c)
               /\ c.kind = "delete" /\ c.here => c.last /\ dialog = {c.of}
               /\ c.kind = "verify" /\ c.here => c.last /\ console.tab = "gate"
    <2>1. CASE c = new
      BY <1>2, <2>1
    <2>2. CASE \E d \in calls : c = old(d)
      <3>1. PICK d \in calls : c = old(d)
        BY <2>2
      <3>2. /\ d.kind = "delete" /\ d.here => d.last /\ dialog = {d.of} /\ kind # "delete"
            /\ d.kind = "verify" /\ d.here => d.last /\ console.tab = "gate" /\ kind # "verify"
        BY DEF HooksOK, Pending
      <3> QED
        BY <1>3, <3>1, <3>2
    <2> QED
      BY <1>4, <2>1, <2>2
  <1>6. ASSUME NEW c \in calls', NEW d \in calls', c.kind = d.kind, c.here, d.here, c.last, d.last
        PROVE  c = d
    <2>1. ASSUME NEW x \in calls, old(x).last PROVE x.kind # kind /\ old(x) = x /\ old(x).kind = x.kind
      BY <1>3, <2>1
    <2>2. CASE c = new /\ d = new
      BY <2>2
    <2>3. CASE \E x \in calls : c = old(x)
      <3>1. PICK x \in calls : c = old(x)
        BY <2>3
      <3>2. c = x /\ x.kind # kind
        BY <1>6, <2>1, <3>1
      <3>3. d # new
        BY <1>2, <1>6, <3>2
      <3>4. PICK y \in calls : d = old(y)
        BY <1>4, <3>3
      <3>5. d = y
        BY <1>6, <2>1, <3>4
      <3> QED
        BY <1>6, <3>2, <3>5 DEF HooksOK
    <2>4. CASE \E x \in calls : d = old(x)
      <3>1. PICK x \in calls : d = old(x)
        BY <2>4
      <3>2. d = x /\ x.kind # kind
        BY <1>6, <2>1, <3>1
      <3>3. c # new
        BY <1>2, <1>6, <3>2
      <3>4. PICK y \in calls : c = old(y)
        BY <1>4, <3>3
      <3>5. c = y
        BY <1>6, <2>1, <3>4
      <3> QED
        BY <1>6, <3>2, <3>5 DEF HooksOK
    <2> QED
      BY <1>4, <2>2, <2>3, <2>4
  <1> QED
    BY <1>5, <1>6 DEF HooksOK

\* A tab or the page is left, with its hooks.
LEMMA HooksLeave ==
  ASSUME HooksOK, NEW kinds, calls' = Unhooked(kinds),
         \A c \in calls : c.here /\ c.kind \in {"delete", "verify"} => c.kind \in kinds
  PROVE  HooksOK'
  <1> DEFINE old(c) == [c EXCEPT !.here = @ /\ c.kind \notin kinds]
  <1>1. calls' = {old(c) : c \in calls}
    BY DEF Unhooked
  <1>2. ASSUME NEW c \in calls
        PROVE  /\ IsCall(old(c)) /\ old(c).kind = c.kind
               /\ old(c).here => c.here /\ c.kind \notin kinds /\ old(c) = c
    <2>1. IsCall(c)
      BY DEF HooksOK
    <2>2. PICK l \in BOOLEAN : l = (c.here /\ c.kind \notin kinds)
      OBVIOUS
    <2>3. old(c) = [c EXCEPT !.here = l]
      BY <2>2
    <2>4. [c EXCEPT !.here = l] = [n |-> c.n, kind |-> c.kind, of |-> c.of, asks |-> c.asks, got |-> c.got,
                                   token |-> c.token, here |-> l, last |-> c.last]
      BY <2>1 DEF IsCall
    <2> HIDE DEF old
    <2>5. /\ old(c).n = c.n /\ old(c).kind = c.kind /\ old(c).of = c.of /\ old(c).asks = c.asks
          /\ old(c).got = c.got /\ old(c).token = c.token /\ old(c).here = l /\ old(c).last = c.last
          /\ old(c) = [n |-> c.n, kind |-> c.kind, of |-> c.of, asks |-> c.asks, got |-> c.got,
                       token |-> c.token, here |-> l, last |-> c.last]
      BY <2>3, <2>4
    <2>6. IsCall(old(c))
      BY <2>1, <2>5 DEF IsCall
    <2>7. l = c.here => old(c) = c
      BY <2>1, <2>5 DEF IsCall
    <2>8. c.here \in BOOLEAN
      BY <2>1 DEF IsCall
    <2> QED
      BY <2>2, <2>5, <2>6, <2>7, <2>8
  <1> HIDE DEF old
  <1>3. ASSUME NEW c \in calls'
        PROVE  IsCall(c) /\ (c.here => c \in calls /\ c.kind \notin {"delete", "verify"})
    <2>1. PICK d \in calls : c = old(d)
      BY <1>1
    <2> QED
      BY <1>2, <2>1
  <1> QED
    BY <1>3 DEF HooksOK

\* A call is answered, or the page is loaded again: the others stay as they are.
LEMMA CallsGo ==
  ASSUME HooksOK, calls' \subseteq calls,
         \A c \in calls' : c.kind = "delete" /\ c.here => dialog' = dialog,
         \A c \in calls' : c.kind = "verify" /\ c.here => console.tab' = console.tab
  PROVE  HooksOK'
  BY DEF HooksOK

-----------------------------------------------------------------------------
\* The rows of the jobs.

LEMMA PickedIsListable ==
  ASSUME NEW s \in Seq(JobRow), \A i, k \in DOMAIN s : s[i].id = s[k].id => i = k,
         NEW S \in SUBSET DOMAIN s
  PROVE  Listable(Picked(s, S))
  <1>1. PICK place \in [1 .. Cardinality(S) -> S] :
           /\ Picked(s, S) = [k \in 1 .. Cardinality(S) |-> s[place[k]]]
           /\ \A k, l \in 1 .. Cardinality(S) : place[k] = place[l] => k = l
    BY PickedIs
  <1> DEFINE D == 1 .. Cardinality(S)
             p == Picked(s, S)
  <1> HIDE DEF D, p
  <1>2. p \in Seq(JobRow)
    BY PickedIsSeq DEF p
  <1>3. /\ place \in [D -> S] /\ p = [k \in D |-> s[place[k]]]
        /\ \A k, l \in D : place[k] = place[l] => k = l
    BY <1>1 DEF D, p
  <1>4. DOMAIN p = D /\ \A k \in D : p[k] = s[place[k]] /\ place[k] \in DOMAIN s
    BY <1>3
  <1>5. ASSUME NEW k \in DOMAIN p, NEW l \in DOMAIN p, p[k].id = p[l].id PROVE k = l
    <2>1. s[place[k]].id = s[place[l]].id /\ place[k] \in DOMAIN s /\ place[l] \in DOMAIN s
      BY <1>4, <1>5
    <2>2. place[k] = place[l]
      BY <2>1
    <2> QED
      BY <1>3, <1>4, <2>2
  <1> QED
    BY <1>2, <1>5 DEF Listable, p

LEMMA Joined ==
  ASSUME NEW T, NEW s \in Seq(T), NEW t \in Seq(T)
  PROVE  /\ s \o t \in Seq(T) /\ DOMAIN (s \o t) = 1 .. (Len(s) + Len(t))
         /\ \A i \in 1 .. Len(s) : (s \o t)[i] = s[i]
         /\ \A i \in (Len(s) + 1) .. (Len(s) + Len(t)) :
               (s \o t)[i] = t[i - Len(s)] /\ i - Len(s) \in 1 .. Len(t)
  OBVIOUS

\* What is listed are jobs of the server, newest first, each once.
LEMMA ListedOnce == ASSUME jobs \in Seq(JobSet), NEW filter PROVE Listable(Listing(filter))
  <1> DEFINE n == Len(jobs)
             row(j) == [id |-> j, st |-> jobs[j].st, tries |-> jobs[j].tries]
             rows == [j \in DOMAIN jobs |-> row(j)]
             newest == Reverse(rows)
             S == {k \in DOMAIN newest : filter \in {"all", newest[k].st}}
  <1>1. n \in Nat /\ DOMAIN jobs = 1 .. n
    BY Counted
  <1>2. \A j \in 1 .. n : row(j) \in JobRow /\ row(j).id = j
    <2> SUFFICES ASSUME NEW j \in 1 .. n PROVE row(j) \in JobRow /\ row(j).id = j
      OBVIOUS
    <2>1. jobs[j] \in JobSet /\ j \in Nat
      BY <1>1
    <2> QED
      BY <2>1 DEF JobSet, JobRow
  <1> HIDE DEF row, n
  <1>3. rows = [j \in 1 .. n |-> row(j)]
    BY <1>1
  <1> HIDE DEF rows
  <1>4. rows \in Seq(JobRow) /\ Len(rows) = n
    BY <1>1, <1>2, <1>3
  <1>5. newest = [i \in 1 .. n |-> rows[(n - i) + 1]]
    BY <1>4 DEF Reverse
  <1> HIDE DEF newest
  <1>6. ASSUME NEW i \in 1 .. n PROVE (n - i) + 1 \in 1 .. n /\ newest[i] = row((n - i) + 1)
    <2>1. (n - i) + 1 \in 1 .. n
      BY <1>1
    <2> QED
      BY <1>3, <1>5, <2>1
  <1>7. newest \in Seq(JobRow) /\ DOMAIN newest = 1 .. n
    <2>1. \A i \in 1 .. n : newest[i] \in JobRow
      BY <1>2, <1>6
    <2>2. DOMAIN newest = 1 .. n /\ newest = [i \in 1 .. n |-> newest[i]]
      BY <1>5
    <2> QED
      BY <1>1, <2>1, <2>2
  <1>8. \A i, k \in 1 .. n : newest[i].id = newest[k].id => i = k
    <2> SUFFICES ASSUME NEW i \in 1 .. n, NEW k \in 1 .. n, newest[i].id = newest[k].id PROVE i = k
      OBVIOUS
    <2>1. newest[i].id = (n - i) + 1 /\ newest[k].id = (n - k) + 1
      BY <1>2, <1>6
    <2>2. (n - i) + 1 = (n - k) + 1
      BY <2>1
    <2>3. n \in Int /\ i \in Int /\ k \in Int
      BY <1>1
    <2> QED
      BY <2>2, <2>3
  <1>9. Listing(filter) = Picked(newest, S) /\ S \in SUBSET DOMAIN newest
    BY DEF Listing, newest, rows, row
  <1> HIDE DEF S
  <1> QED
    BY <1>7, <1>8, <1>9, PickedIsListable

\* Rows that are put before others, with other ids.
LEMMA RowsJoined ==
  ASSUME NEW new, Listable(new), NEW rows, Listable(rows), NEW old, old \in Seq(JobRow),
         Len(old) = Len(rows), \A i \in DOMAIN rows : old[i].id = rows[i].id,
         \A k \in DOMAIN new : \A i \in DOMAIN rows : new[k].id # rows[i].id
  PROVE  Listable(new \o old)
  <1>1. /\ new \in Seq(JobRow) /\ \A i, k \in DOMAIN new : new[i].id = new[k].id => i = k
        /\ rows \in Seq(JobRow) /\ \A i, k \in DOMAIN rows : rows[i].id = rows[k].id => i = k
    BY DEF Listable
  <1>2. PICK all, a, b : all = new \o old /\ a = Len(new) /\ b = Len(old)
    OBVIOUS
  <1>3. a \in Nat /\ b \in Nat /\ DOMAIN new = 1 .. a /\ DOMAIN rows = 1 .. b
    BY <1>1, <1>2, Counted
  <1>4. /\ new \o old \in Seq(JobRow) /\ DOMAIN (new \o old) = 1 .. (Len(new) + Len(old))
        /\ \A i \in 1 .. Len(new) : (new \o old)[i] = new[i]
        /\ \A i \in (Len(new) + 1) .. (Len(new) + Len(old)) :
              (new \o old)[i] = old[i - Len(new)] /\ i - Len(new) \in 1 .. Len(old)
    BY <1>1, Joined
  <1>5. /\ all \in Seq(JobRow) /\ DOMAIN all = 1 .. (a + b)
        /\ \A i \in 1 .. a : all[i] = new[i]
        /\ \A i \in (a + 1) .. (a + b) : all[i] = old[i - a] /\ i - a \in 1 .. b
    BY <1>2, <1>4
  <1>6. \A i, k \in DOMAIN all : all[i].id = all[k].id => i = k
    <2> SUFFICES ASSUME NEW i \in 1 .. (a + b), NEW k \in 1 .. (a + b), all[i].id = all[k].id PROVE i = k
      BY <1>5
    <2>1. ASSUME NEW j \in 1 .. (a + b)
          PROVE  \/ j \in 1 .. a /\ all[j] = new[j]
                 \/ j - a \in 1 .. b /\ all[j].id = rows[j - a].id
      <3>1. j \in 1 .. a \/ j \in (a + 1) .. (a + b)
        BY <1>3
      <3> QED
        BY <1>3, <1>5, <3>1
    <2>2. CASE i \in 1 .. a /\ all[i] = new[i]
      <3>1. k \in 1 .. a /\ all[k] = new[k]
        BY <1>3, <2>1, <2>2
      <3> QED
        BY <1>1, <1>3, <2>2, <3>1
    <2>3. CASE i - a \in 1 .. b /\ all[i].id = rows[i - a].id
      <3>1. k - a \in 1 .. b /\ all[k].id = rows[k - a].id
        BY <1>3, <2>1, <2>3
      <3>2. i - a = k - a
        BY <1>1, <1>3, <2>3, <3>1
      <3> QED
        BY <1>3, <3>2
    <2> QED
      BY <2>1, <2>2, <2>3
  <1> QED
    BY <1>2, <1>5, <1>6 DEF Listable

\* Rows that are merged with those of a later answer are still apart: what is new comes
\* first, and a row that is known stays in its place.
LEMMA MergedOnce ==
  ASSUME NEW got, Listable(got), NEW rows, Listable(rows)
  PROVE  Listable(Merge(got, rows))
  <1>1. got \in Seq(JobRow) /\ rows \in Seq(JobRow)
    BY DEF Listable
  <1>2. ToSet(got) \subseteq JobRow /\ \A i \in DOMAIN rows : rows[i] \in ToSet(rows) /\ rows[i] \in JobRow
    BY <1>1 DEF ToSet
  <1>3. PICK S : S = {k \in DOMAIN got : \A r \in ToSet(rows) : r.id # got[k].id}
    OBVIOUS
  <1>4. PICK new : new = Picked(got, S)
    OBVIOUS
  <1>5. PICK old : old = [i \in DOMAIN rows |->
                            IF \E f \in ToSet(got) : f.id = rows[i].id
                            THEN CHOOSE f \in ToSet(got) : f.id = rows[i].id ELSE rows[i]]
    OBVIOUS
  <1>6. Merge(got, rows) = new \o old
    BY <1>3, <1>4, <1>5, Zenon DEF Merge
  <1>7. S \in SUBSET DOMAIN got
    BY <1>3
  <1>8. Listable(new)
    BY <1>4, <1>7, PickedIsListable DEF Listable
  <1>9. ASSUME NEW k \in DOMAIN new, NEW i \in DOMAIN rows PROVE new[k].id # rows[i].id
    <2>1. PICK j \in S : new[k] = got[j]
      BY <1>1, <1>4, <1>7, PickedIsSeq
    <2> QED
      BY <1>2, <1>3, <2>1
  <1>10. ASSUME NEW i \in DOMAIN rows PROVE old[i] \in JobRow /\ old[i].id = rows[i].id
    <2>1. CASE \E f \in ToSet(got) : f.id = rows[i].id
      <3>1. PICK f : f = CHOOSE g \in ToSet(got) : g.id = rows[i].id
        OBVIOUS
      <3>2. f \in ToSet(got) /\ f.id = rows[i].id
        BY <2>1, <3>1
      <3>3. old[i] = f
        BY <1>5, <2>1, <3>1
      <3> QED
        BY <1>2, <3>2, <3>3
    <2>2. CASE ~\E f \in ToSet(got) : f.id = rows[i].id
      BY <1>2, <1>5, <2>2
    <2> QED
      BY <2>1, <2>2
  <1>11. old \in Seq(JobRow) /\ Len(old) = Len(rows)
    <2>1. Len(rows) \in Nat /\ DOMAIN rows = 1 .. Len(rows)
      BY <1>1, Counted
    <2>2. DOMAIN old = DOMAIN rows /\ old = [i \in DOMAIN rows |-> old[i]]
      BY <1>5
    <2> QED
      BY <1>10, <2>1, <2>2
  <1> QED
    <2>1. \A i \in DOMAIN rows : old[i].id = rows[i].id
      BY <1>10
    <2>2. \A k \in DOMAIN new : \A i \in DOMAIN rows : new[k].id # rows[i].id
      BY <1>9
    <2>3. Listable(new \o old)
      BY <1>8, <1>11, <2>1, <2>2, RowsJoined, SMTT(20)
    <2> QED
      BY <1>6, <2>3

-----------------------------------------------------------------------------
\* The steps of the console.

\* A call is made, and the page stays as it is.
LEMMA CallKeeps ==
  ASSUME ConsoleInv, NEW kind \in PageHooks \cup {"banner"}, NEW of, NEW asks, NEW got,
         CallFor(kind, of, asks, got), Listable(got),
         UNCHANGED <<console, token, acting, sessions, dialog, jobs, view>>,
         kind = "delete" => dialog = {of} /\ ~Pending("delete"),
         kind = "verify" => console.tab = "gate" /\ ~Pending("verify")
  PROVE  ConsoleInv'
  <1>1. HooksOK'
    BY CallMade DEF ConsoleInv
  <1> QED
    BY <1>1 DEF ConsoleInv, ConsoleOK, DialogOK, RowsOK

\* The calls, the tab and the dialog are those they were.
LEMMA HooksRest ==
  ASSUME HooksOK, UNCHANGED <<calls, dialog>>, console.tab' = console.tab
  PROVE  HooksOK'
  BY DEF HooksOK

LEMMA CallsKeep ==
  ASSUME ConsoleInv,
         \/ VerifyMaster \/ EndImpersonation \/ HandleEnd \/ TailTick
         \/ \E u \in Users : StartImpersonation(u) \/ ToggleStatus(u) \/ DeleteUser(u)
         \/ \E u \in Users, role \in Roles : ChangeRole(u, role)
         \/ \E r \in ToSet(view.rows) : RetryJob(r) \/ CancelJob(r)
  PROVE  ConsoleInv'
  <1> USE DEF PageHooks, UserHooks, JobHooks
  <1>1. Listable(<<>>)
    BY NothingListed
  <1>2. CASE VerifyMaster
    <2>1. /\ CallFor("verify", 0, "none", <<>>) /\ console.tab = "gate" /\ ~Pending("verify")
          /\ UNCHANGED <<console, token, acting, sessions, dialog, jobs, view>>
      BY <1>2 DEF VerifyMaster, Call, userVars, jobVars
    <2> QED
      BY <1>1, <2>1, CallKeeps
  <1>3. CASE EndImpersonation
    <2>1. /\ CallFor("end", console.own, "none", <<>>)
          /\ UNCHANGED <<console, token, acting, sessions, dialog, jobs, view>>
      BY <1>3 DEF EndImpersonation, Call, userVars, jobVars
    <2> QED
      BY <1>1, <2>1, CallKeeps
  <1>4. CASE HandleEnd
    <2>1. /\ CallFor("banner", acting, "none", <<>>)
          /\ UNCHANGED <<console, token, acting, sessions, dialog, jobs, view>>
      BY <1>4 DEF HandleEnd, Call, userVars, jobVars
    <2> QED
      BY <1>1, <2>1, CallKeeps
  <1>5. CASE TailTick
    <2>1. /\ CallFor("tail", 0, "none", Listing(view.filter))
          /\ UNCHANGED <<console, token, acting, sessions, dialog, jobs, view>>
      BY <1>5 DEF TailTick, userVars, jobVars
    <2>2. Listable(Listing(view.filter))
      BY ListedOnce DEF ConsoleInv, RowsOK
    <2> QED
      BY <2>1, <2>2, CallKeeps
  <1>6. ASSUME NEW u \in Users, StartImpersonation(u) PROVE ConsoleInv'
    <2>1. /\ CallFor("start", 0, u, <<>>)
          /\ UNCHANGED <<console, token, acting, sessions, dialog, jobs, view>>
      BY <1>6 DEF StartImpersonation, Call, userVars, jobVars
    <2> QED
      BY <1>1, <2>1, CallKeeps
  <1>7. ASSUME NEW u \in Users, ToggleStatus(u) PROVE ConsoleInv'
    <2>1. PICK asks : /\ CallFor("status", u, asks, <<>>)
                      /\ UNCHANGED <<console, token, acting, sessions, dialog, jobs, view>>
      BY <1>7 DEF ToggleStatus, Call, userVars, jobVars
    <2> QED
      BY <1>1, <2>1, CallKeeps
  <1>8. ASSUME NEW u \in Users, DeleteUser(u) PROVE ConsoleInv'
    <2>1. /\ CallFor("delete", u, "none", <<>>) /\ u \in dialog /\ ~Pending("delete")
          /\ UNCHANGED <<console, token, acting, sessions, dialog, jobs, view>>
      BY <1>8 DEF DeleteUser, Call, userVars, jobVars
    <2>2. dialog = {u}
      BY <2>1 DEF ConsoleInv, DialogOK
    <2> QED
      BY <1>1, <2>1, <2>2, CallKeeps
  <1>9. ASSUME NEW u \in Users, NEW role \in Roles, ChangeRole(u, role) PROVE ConsoleInv'
    <2>1. /\ CallFor("role", u, role, <<>>)
          /\ UNCHANGED <<console, token, acting, sessions, dialog, jobs, view>>
      BY <1>9 DEF ChangeRole, Call, userVars, jobVars
    <2> QED
      BY <1>1, <2>1, CallKeeps
  <1>10. ASSUME NEW r \in ToSet(view.rows), RetryJob(r) PROVE ConsoleInv'
    <2>1. /\ CallFor("retry", r.id, "none", <<>>)
          /\ UNCHANGED <<console, token, acting, sessions, dialog, jobs, view>>
      BY <1>10 DEF RetryJob, Call, userVars, jobVars
    <2> QED
      BY <1>1, <2>1, CallKeeps
  <1>11. ASSUME NEW r \in ToSet(view.rows), CancelJob(r) PROVE ConsoleInv'
    <2>1. /\ CallFor("cancel", r.id, "none", <<>>)
          /\ UNCHANGED <<console, token, acting, sessions, dialog, jobs, view>>
      BY <1>11 DEF CancelJob, Call, userVars, jobVars
    <2> QED
      BY <1>1, <2>1, CallKeeps
  <1> QED
    BY <1>2, <1>3, <1>4, <1>5, <1>6, <1>7, <1>8, <1>9, <1>10, <1>11

\* The page is visited, left or loaded again, and its tabs.
LEMMA TabsKeep ==
  ASSUME ConsoleInv,
         \/ VisitConsole \/ EditPassword \/ Leave \/ ReloadConsole \/ Expire \/ RefetchUsers
         \/ \E t \in {"health", "users", "jobs", "impersonation"} : SetActiveTab(t)
  PROVE  ConsoleInv'
  <1>1. /\ console \in [tab : Tabs, error : BOOLEAN, own : Nat] /\ console.own <= Len(sessions)
        /\ sessions \in Seq({"active", "ended"}) /\ Len(sessions) \in Nat
        /\ dialog # {} => console.tab = "users"
    BY DEF ConsoleInv, ConsoleOK, DialogOK
  <1>2. /\ "rows" \in DOMAIN NoView /\ NoView.rows = <<>> /\ Listable(<<>>)
        /\ OutOfConsole \in [tab : Tabs, error : BOOLEAN, own : Nat] /\ OutOfConsole.own = 0
        /\ OutOfConsole.tab = "out"
    BY NothingListed DEF NoView, OutOfConsole, Tabs
  <1>3. CASE VisitConsole
    <2>1. /\ console' = [OutOfConsole EXCEPT !.tab = "gate"] /\ console.tab = "out"
          /\ UNCHANGED <<token, acting, sessions, dialog, calls, jobs, view>>
      BY <1>3 DEF VisitConsole, userVars, jobVars
    <2>2. console' \in [tab : Tabs, error : BOOLEAN, own : Nat] /\ console'.own = 0
      BY <2>1 DEF OutOfConsole, Tabs
    <2>3. dialog = {}
      BY <1>1, <2>1
    <2>4. HooksOK'
      <3>1. \A c \in calls : c.kind = "verify" /\ c.here => FALSE
        BY <2>1 DEF ConsoleInv, HooksOK
      <3> QED
        BY <2>1, <3>1, CallsGo DEF ConsoleInv
    <2> QED
      BY <1>1, <2>1, <2>2, <2>3, <2>4 DEF ConsoleInv, ConsoleOK, DialogOK, RowsOK
  <1>4. CASE EditPassword
    <2>1. /\ console' = [console EXCEPT !.error = FALSE]
          /\ UNCHANGED <<token, acting, sessions, dialog, calls, jobs, view>>
      BY <1>4 DEF EditPassword, userVars, jobVars
    <2>2. /\ console' \in [tab : Tabs, error : BOOLEAN, own : Nat]
          /\ console'.tab = console.tab /\ console'.own = console.own
      BY <1>1, <2>1
    <2> QED
      BY <1>1, <2>1, <2>2, HooksRest DEF ConsoleInv, ConsoleOK, DialogOK, RowsOK
  <1>5. CASE Leave
    <2>1. /\ console' = OutOfConsole /\ calls' = Unhooked(PageHooks) /\ dialog' = {} /\ view' = NoView
          /\ UNCHANGED <<token, acting, sessions, jobs>>
      BY <1>5 DEF Leave
    <2>2. HooksOK'
      BY <2>1, HooksLeave DEF ConsoleInv, PageHooks, UserHooks
    <2> QED
      BY <1>1, <1>2, <2>1, <2>2 DEF ConsoleInv, ConsoleOK, DialogOK, RowsOK
  <1>6. CASE ReloadConsole
    <2>1. /\ console' = OutOfConsole /\ token' = "none" /\ calls' = {} /\ dialog' = {} /\ view' = NoView
          /\ UNCHANGED <<acting, sessions, jobs>>
      BY <1>6 DEF ReloadConsole
    <2>2. HooksOK'
      BY <2>1 DEF HooksOK
    <2> QED
      BY <1>1, <1>2, <2>1, <2>2 DEF ConsoleInv, ConsoleOK, DialogOK, RowsOK
  <1>7. CASE Expire
    <2>1. token' = "old" /\ UNCHANGED <<console, acting, sessions, dialog, calls, jobs, view>>
      BY <1>7 DEF Expire, userVars, jobVars
    <2> QED
      BY <2>1, HooksRest DEF ConsoleInv, ConsoleOK, DialogOK, RowsOK
  <1>8. CASE RefetchUsers
    <2>1. UNCHANGED <<console, token, acting, sessions, dialog, calls, jobs, view>>
      BY <1>8 DEF RefetchUsers, jobVars
    <2> QED
      BY <2>1, HooksRest DEF ConsoleInv, ConsoleOK, DialogOK, RowsOK
  <1>9. ASSUME NEW t \in {"health", "users", "jobs", "impersonation"}, SetActiveTab(t) PROVE ConsoleInv'
    <2>1. PICK kinds : kinds = (IF console.tab = "users" THEN UserHooks ELSE {})
                               \cup (IF console.tab = "jobs" THEN JobHooks ELSE {})
      OBVIOUS
    <2>2. /\ console' = [console EXCEPT !.tab = t] /\ calls' = Unhooked(kinds)
          /\ dialog' = {} /\ view' = NoView /\ console.tab \notin {"out", "gate"}
          /\ UNCHANGED <<token, acting, sessions, jobs>>
      BY <1>9, <2>1 DEF SetActiveTab, Verified
    <2>3. ASSUME NEW c \in calls, c.here, c.kind \in {"delete", "verify"} PROVE c.kind \in kinds
      <3>1. c.kind = "delete" /\ dialog = {c.of}
        BY <2>2, <2>3 DEF ConsoleInv, HooksOK
      <3>2. console.tab = "users"
        BY <1>1, <3>1
      <3> QED
        BY <2>1, <3>1, <3>2 DEF UserHooks
    <2>4. HooksOK'
      BY <2>2, <2>3, HooksLeave DEF ConsoleInv
    <2>5. console' \in [tab : Tabs, error : BOOLEAN, own : Nat] /\ console'.own = console.own
      BY <1>1, <2>2 DEF Tabs
    <2> QED
      BY <1>1, <1>2, <2>2, <2>4, <2>5 DEF ConsoleInv, ConsoleOK, DialogOK, RowsOK
  <1> QED
    BY <1>3, <1>4, <1>5, <1>6, <1>7, <1>8, <1>9

LEMMA DeletionAskedKeeps ==
  ASSUME ConsoleInv, CancelDelete \/ \E u \in Users : AskToDelete(u)
  PROVE  ConsoleInv'
  <1>1. CASE CancelDelete
    <2>1. /\ dialog # {} /\ dialog' = {} /\ ~Pending("delete")
          /\ UNCHANGED <<console, token, acting, sessions, calls, jobs, view>>
      BY <1>1 DEF CancelDelete, CloseDeleteModal, jobVars
    <2>2. \A c \in calls : c.kind = "delete" /\ c.here => FALSE
      BY <2>1 DEF ConsoleInv, HooksOK, Pending
    <2>3. HooksOK'
      BY <2>1, <2>2, CallsGo DEF ConsoleInv
    <2> QED
      BY <2>1, <2>3 DEF ConsoleInv, ConsoleOK, DialogOK, RowsOK
  <1>2. ASSUME NEW u \in Users, AskToDelete(u) PROVE ConsoleInv'
    <2>1. /\ dialog = {} /\ dialog' = {u} /\ console.tab = "users"
          /\ UNCHANGED <<console, token, acting, sessions, calls, jobs, view>>
      BY <1>2 DEF AskToDelete, jobVars
    <2>2. \A c \in calls : c.kind = "delete" /\ c.here => FALSE
      BY <2>1 DEF ConsoleInv, HooksOK
    <2>3. HooksOK'
      BY <2>1, <2>2, CallsGo DEF ConsoleInv
    <2> QED
      BY <2>1, <2>3 DEF ConsoleInv, ConsoleOK, DialogOK, RowsOK
  <1> QED
    BY <1>1, <1>2

\* The tab of the jobs, and the jobs.
LEMMA JobWritten ==
  ASSUME jobs \in Seq(JobSet), NEW j, NEW st \in {"pending", "running", "completed", "failed"},
         NEW tried \in Nat,
         jobs' = [jobs EXCEPT ![j] = [st |-> st, tries |-> tried]]
  PROVE  jobs' \in Seq(JobSet)
  <1>1. PICK v : v = [st |-> st, tries |-> tried]
    OBVIOUS
  <1>2. v \in JobSet
    BY <1>1 DEF JobSet
  <1>3. jobs' = [jobs EXCEPT ![j] = v]
    BY <1>1
  <1>4. j \notin DOMAIN jobs => jobs' = jobs
    BY <1>3
  <1>5. j \in DOMAIN jobs => jobs' \in Seq(JobSet)
    BY <1>2, <1>3, OneWritten
  <1> QED
    BY <1>4, <1>5

LEMMA JobsKeep ==
  ASSUME ConsoleInv,
         JobMoves \/ RefetchJobs \/ SetTailMode \/ \E f \in {"all", "failed"} : SetFilter(f)
  PROVE  ConsoleInv'
  <1>1. jobs \in Seq(JobSet) /\ "rows" \in DOMAIN view /\ Listable(view.rows)
    BY DEF ConsoleInv, RowsOK
  <1>2. CASE JobMoves
    <2>1. UNCHANGED <<console, token, acting, sessions, dialog, calls, view>>
      BY <1>2 DEF JobMoves, userVars
    <2>2. jobs' \in Seq(JobSet)
      <3>1. CASE jobs' = Append(jobs, [st |-> "pending", tries |-> 0])
        <4>1. [st |-> "pending", tries |-> 0] \in JobSet
          BY DEF JobSet
        <4> QED
          BY <1>1, <3>1, <4>1
      <3>2. ASSUME NEW j \in DOMAIN jobs, NEW st \in {"running", "completed", "failed"},
                   jobs' = [jobs EXCEPT ![j].st = st]
            PROVE  jobs' \in Seq(JobSet)
        <4>1. jobs[j] \in JobSet
          BY <1>1
        <4>2. [jobs[j] EXCEPT !.st = st] = [st |-> st, tries |-> jobs[j].tries] /\ jobs[j].tries \in Nat
          BY <4>1 DEF JobSet
        <4>3. jobs' = [jobs EXCEPT ![j] = [st |-> st, tries |-> jobs[j].tries]]
          BY <3>2, <4>2
        <4> QED
          BY <1>1, <4>2, <4>3, JobWritten
      <3> QED
        BY <1>2, <3>1, <3>2 DEF JobMoves
    <2> QED
      BY <1>1, <2>1, <2>2, HooksRest DEF ConsoleInv, ConsoleOK, DialogOK, RowsOK
  <1>3. ASSUME UNCHANGED <<console, token, acting, sessions, dialog, calls, jobs>>,
               "rows" \in DOMAIN view', Listable(view'.rows)
        PROVE  ConsoleInv'
    BY <1>1, <1>3, HooksRest DEF ConsoleInv, ConsoleOK, DialogOK, RowsOK
  <1>4. CASE RefetchJobs
    <2>1. PICK rows : rows = Listing(view.filter)
      OBVIOUS
    <2>2. /\ view' = [view EXCEPT !.data = <<rows>>, !.rows = rows]
          /\ UNCHANGED <<console, token, acting, sessions, dialog, calls, jobs>>
      BY <1>4, <2>1 DEF RefetchJobs, userVars
    <2>3. Listable(rows)
      BY <1>1, <2>1, ListedOnce
    <2>4. "rows" \in DOMAIN view' /\ view'.rows = rows
      BY <1>1, <2>2
    <2> QED
      BY <1>3, <2>2, <2>3, <2>4
  <1>5. CASE SetTailMode
    <2>1. /\ view' = [view EXCEPT !.tail = ~view.tail]
          /\ UNCHANGED <<console, token, acting, sessions, dialog, calls, jobs>>
      BY <1>5 DEF SetTailMode, userVars
    <2>2. "rows" \in DOMAIN view' /\ view'.rows = view.rows
      BY <1>1, <2>1
    <2> QED
      BY <1>1, <1>3, <2>1, <2>2
  <1>6. ASSUME NEW f \in {"all", "failed"}, SetFilter(f) PROVE ConsoleInv'
    <2>1. /\ view' = [view EXCEPT !.filter = f, !.data = <<>>]
          /\ UNCHANGED <<console, token, acting, sessions, dialog, calls, jobs>>
      BY <1>6 DEF SetFilter, userVars
    <2>2. "rows" \in DOMAIN view' /\ view'.rows = view.rows
      BY <1>1, <2>1
    <2> QED
      BY <1>1, <1>3, <2>1, <2>2
  <1> QED
    BY <1>2, <1>4, <1>5, <1>6

\* The answer of the gate: one password at most was asked for.
LEMMA VerifyKeeps ==
  ASSUME ConsoleInv, NEW c \in calls, VerifyAnswered(c)
  PROVE  ConsoleInv'
  <1>1. /\ c.kind = "verify" /\ calls' = calls \ {c} /\ token' \in {token, "live"}
        /\ UNCHANGED <<acting, sessions, dialog, jobs, view>>
        /\ c.here => console' = [console EXCEPT !.tab = "health"] \/ console' = [console EXCEPT !.error = TRUE]
        /\ ~c.here => console' = console
    BY DEF VerifyAnswered, userVars, jobVars
  <1>2. /\ console \in [tab : Tabs, error : BOOLEAN, own : Nat] /\ console.own <= Len(sessions)
        /\ c.here => console.tab = "gate" /\ dialog = {} /\ c.last
    BY <1>1 DEF ConsoleInv, ConsoleOK, DialogOK, HooksOK
  <1>3. /\ console' \in [tab : Tabs, error : BOOLEAN, own : Nat] /\ console'.own = console.own
        /\ console'.tab = console.tab \/ (c.here /\ console'.tab = "health")
    BY <1>1, <1>2 DEF Tabs
  <1>4. \A d \in calls' : d.kind = "verify" /\ d.here => ~c.here
    BY <1>1, <1>2 DEF ConsoleInv, HooksOK
  <1>5. HooksOK'
    BY <1>1, <1>3, <1>4, CallsGo DEF ConsoleInv
  <1> QED
    BY <1>1, <1>2, <1>3, <1>5 DEF ConsoleInv, ConsoleOK, DialogOK, RowsOK

\* Somebody begins or ends to act as a user.
LEMMA ActingKeeps ==
  ASSUME ConsoleInv, NEW c \in calls, NEW ok \in BOOLEAN, StartAnswered(c, ok) \/ EndAnswered(c, ok)
  PROVE  ConsoleInv'
  <1>1. /\ console \in [tab : Tabs, error : BOOLEAN, own : Nat] /\ console.own <= Len(sessions)
        /\ sessions \in Seq({"active", "ended"}) /\ Len(sessions) \in Nat /\ acting \in 0 .. Len(sessions)
        /\ token \in {"none", "live", "old"}
    BY DEF ConsoleInv, ConsoleOK
  <1>2. calls' \subseteq calls /\ UNCHANGED <<dialog, jobs, view>>
    BY DEF StartAnswered, EndAnswered, Received, userVars, jobVars
  <1>3. CASE StartAnswered(c, ok)
    <2>1. CASE UNCHANGED <<console, token, acting, sessions>>
      BY <1>2, <2>1, CallsGo DEF ConsoleInv, ConsoleOK, DialogOK, RowsOK
    <2>2. CASE /\ sessions' = Append(sessions, "active") /\ token' = token
               /\ acting' \in {Len(sessions'), acting}
               /\ console' \in {[console EXCEPT !.own = Len(sessions')], console}
      <3>1. /\ sessions' \in Seq({"active", "ended"}) /\ Len(sessions') = Len(sessions) + 1
        BY <1>1, <2>2
      <3>2. PICK n \in Nat : n = Len(sessions) + 1
        BY <1>1
      <3>3. /\ console' \in [tab : Tabs, error : BOOLEAN, own : Nat] /\ console'.own <= n
            /\ console'.tab = console.tab /\ acting' \in 0 .. n
        BY <1>1, <2>2, <3>1, <3>2
      <3> QED
        BY <1>1, <1>2, <2>2, <3>1, <3>2, <3>3, CallsGo DEF ConsoleInv, ConsoleOK, DialogOK, RowsOK
    <2> QED
      BY <1>3, <2>1, <2>2 DEF StartAnswered
  <1>4. CASE EndAnswered(c, ok)
    <2>1. /\ sessions' \in {sessions, [sessions EXCEPT ![c.of] = "ended"]}
          /\ console' \in {console, [console EXCEPT !.own = 0]}
          /\ acting' \in {acting, 0} /\ token' \in {token, "none"}
      BY <1>4 DEF EndAnswered, Ended, StoreEnd
    <2>2. sessions' \in Seq({"active", "ended"}) /\ Len(sessions') = Len(sessions)
      BY <1>1, <2>1
    <2>3. /\ console' \in [tab : Tabs, error : BOOLEAN, own : Nat] /\ console'.own <= Len(sessions)
          /\ console'.tab = console.tab
      BY <1>1, <2>1
    <2> QED
      BY <1>1, <1>2, <2>1, <2>2, <2>3, CallsGo DEF ConsoleInv, ConsoleOK, DialogOK, RowsOK
  <1> QED
    BY <1>3, <1>4

\* What is done to the users and the jobs.
LEMMA AnswersKeep ==
  ASSUME ConsoleInv, NEW c \in calls, NEW ok \in BOOLEAN,
         UserAnswered(c, ok) \/ DeleteAnswered(c, ok) \/ JobAnswered(c, ok) \/ TailAnswered(c, ok)
  PROVE  ConsoleInv'
  <1>1. /\ calls' \subseteq calls /\ UNCHANGED <<console, token, acting, sessions>>
    BY DEF UserAnswered, DeleteAnswered, JobAnswered, TailAnswered, Received
  <1>2. ASSUME UNCHANGED dialog, RowsOK' PROVE ConsoleInv'
    BY <1>1, <1>2, CallsGo DEF ConsoleInv, ConsoleOK, DialogOK
  <1>3. RowsOK /\ jobs \in Seq(JobSet) /\ "rows" \in DOMAIN view /\ Listable(view.rows)
    BY DEF ConsoleInv, RowsOK
  <1>4. CASE UserAnswered(c, ok)
    <2>1. UNCHANGED <<dialog, jobs, view>>
      BY <1>4 DEF UserAnswered, jobVars
    <2> QED
      BY <1>2, <1>3, <2>1 DEF RowsOK
  <1>5. CASE DeleteAnswered(c, ok)
    <2>1. /\ UNCHANGED <<jobs, view>> /\ c.kind = "delete"
          /\ c.here => dialog' \in {dialog, CloseDeleteModal}
          /\ ~c.here => dialog' = dialog
      BY <1>5 DEF DeleteAnswered, jobVars
    <2>2. c.here => Pending("delete")
      BY <2>1 DEF ConsoleInv, HooksOK, Pending
    <2>3. dialog' = dialog
      BY <2>1, <2>2 DEF CloseDeleteModal
    <2> QED
      BY <1>2, <1>3, <2>1, <2>3 DEF RowsOK
  <1>6. CASE JobAnswered(c, ok)
    <2>1. UNCHANGED <<dialog, view>>
      BY <1>6 DEF JobAnswered, userVars
    <2>2. \/ jobs' = [jobs EXCEPT ![c.of] = [st |-> "pending", tries |-> jobs[c.of].tries + 1]]
          \/ jobs' = [jobs EXCEPT ![c.of].st = "failed"]
          \/ jobs' = jobs
      BY <1>6 DEF JobAnswered
    <2>3. ASSUME c.of \notin DOMAIN jobs PROVE jobs' = jobs
      BY <1>3, <2>2, <2>3
    <2>4. ASSUME c.of \in DOMAIN jobs PROVE jobs' \in Seq(JobSet)
      <3>1. /\ jobs[c.of] \in JobSet /\ jobs[c.of].tries \in Nat /\ jobs[c.of].tries + 1 \in Nat
            /\ [jobs[c.of] EXCEPT !.st = "failed"] = [st |-> "failed", tries |-> jobs[c.of].tries]
        <4>1. jobs[c.of] \in JobSet
          BY <1>3, <2>4
        <4> QED
          BY <4>1 DEF JobSet
      <3>2. \/ jobs' = [jobs EXCEPT ![c.of] = [st |-> "pending", tries |-> jobs[c.of].tries + 1]]
            \/ jobs' = [jobs EXCEPT ![c.of] = [st |-> "failed", tries |-> jobs[c.of].tries]]
            \/ jobs' = jobs
        BY <2>2, <3>1
      <3> QED
        BY <1>3, <3>1, <3>2, JobWritten
    <2>5. jobs' \in Seq(JobSet)
      BY <1>3, <2>3, <2>4
    <2> QED
      BY <1>2, <1>3, <2>1, <2>5 DEF RowsOK
  <1>7. CASE TailAnswered(c, ok)
    <2>1. UNCHANGED <<dialog, jobs>>
      BY <1>7 DEF TailAnswered, userVars
    <2>2. PICK rows : rows = Merge(c.got, view.rows)
      OBVIOUS
    <2>3. view' = view \/ view' = [view EXCEPT !.rows = rows]
      BY <1>7, <2>2 DEF TailAnswered
    <2>4. Listable(rows)
      BY <1>3, <2>2, MergedOnce DEF ConsoleInv, HooksOK, IsCall
    <2> QED
      BY <1>2, <1>3, <2>1, <2>3, <2>4 DEF RowsOK
  <1> QED
    BY <1>4, <1>5, <1>6, <1>7

LEMMA ConsoleNext == ConsoleInv /\ (AdminNext \/ UNCHANGED adminVars) => ConsoleInv'
  <1> SUFFICES ASSUME ConsoleInv, AdminNext \/ UNCHANGED adminVars PROVE ConsoleInv'
    OBVIOUS
  <1>1. CASE UNCHANGED adminVars
    <2>1. UNCHANGED <<console, token, acting, sessions, dialog, calls, jobs, view>>
      BY <1>1 DEF adminVars
    <2> QED
      BY <2>1, HooksRest DEF ConsoleInv, ConsoleOK, DialogOK, RowsOK
  <1>2. CASE AdminNext
    BY <1>2, CallsKeep, TabsKeep, DeletionAskedKeeps, JobsKeep, VerifyKeeps, ActingKeeps, AnswersKeep
    DEF AdminNext
  <1> QED
    BY <1>1, <1>2

\* The invariant gives what the page promises.
LEMMA ConsolePromises == ConsoleInv => AdminTypeOK /\ DialogStays /\ RowsAreDistinct
  <1> SUFFICES ASSUME ConsoleInv PROVE AdminTypeOK /\ DialogStays /\ RowsAreDistinct
    OBVIOUS
  <1>1. ASSUME NEW S, \A x, y \in S : x = y PROVE Cardinality(S) <= 1
    <2>1. CASE S = {}
      <3>1. IsFiniteSet({}) /\ Cardinality({}) = 0
        BY FS_EmptySet
      <3> QED
        BY <2>1, <3>1
    <2>2. CASE S # {}
      <3>1. PICK x \in S : TRUE
        BY <2>2
      <3>2. S = {x}
        BY <1>1, <3>1
      <3>3. Cardinality({x}) = 1
        BY FS_Singleton
      <3> QED
        BY <3>2, <3>3
    <2> QED
      BY <2>1, <2>2
  <1>2. Cardinality(dialog) <= 1 /\ dialog \subseteq Users
    BY <1>1 DEF ConsoleInv, DialogOK
  <1>3. ASSUME NEW k \in PageHooks PROVE Cardinality({c \in calls : c.kind = k /\ c.here /\ c.last}) <= 1
    <2>1. PICK S : S = {c \in calls : c.kind = k /\ c.here /\ c.last}
      OBVIOUS
    <2>2. \A x, y \in S : x = y
      BY <2>1 DEF ConsoleInv, HooksOK
    <2> QED
      BY <1>1, <2>1, <2>2
  <1>4. /\ console.tab \in Tabs /\ console.own \in 0 .. Len(sessions) /\ acting \in 0 .. Len(sessions)
        /\ token \in {"none", "live", "old"}
    <2>1. console \in [tab : Tabs, error : BOOLEAN, own : Nat] /\ console.own <= Len(sessions)
      BY DEF ConsoleInv, ConsoleOK
    <2>2. Len(sessions) \in Nat
      BY DEF ConsoleInv, ConsoleOK
    <2> QED
      BY <2>1, <2>2 DEF ConsoleInv, ConsoleOK
  <1>5. \A c \in calls : c.kind \in PageHooks \cup {"banner"}
    BY DEF ConsoleInv, HooksOK, IsCall
  <1>6. DialogStays
    BY DEF ConsoleInv, HooksOK, DialogStays
  <1>7. RowsAreDistinct
    BY DEF ConsoleInv, RowsOK, Listable, RowsAreDistinct
  <1> QED
    BY <1>2, <1>3, <1>4, <1>5, <1>6, <1>7 DEF AdminTypeOK, Tabs

-----------------------------------------------------------------------------
\* The parts together: what their pages say is what they and the server hold.

AccountsInv ==
    /\ ClientInv /\ PagesInv
    /\ CreditInv /\ ShopInv /\ RowInv
    /\ GuestInv /\ GuestsOK
    /\ ConsoleInv

LEMMA AccountsInit == Init => AccountsInv
  <1> SUFFICES ASSUME Init PROVE AccountsInv
    OBVIOUS
  <1>1. GuestInit /\ AuthInit /\ AccountInit /\ BillingInit /\ AdminInit
    BY DEF Init
  <1>2. ClientInv /\ PagesInv
    BY <1>1, ClientInit, PagesInit
  <1>3. CreditInv /\ ShopInv /\ RowInv
    BY <1>1, CreditInit, ShopInit, RowInit
  <1>4. GuestInv /\ GuestsOK
    BY <1>1, GuestInvInit, GuestsInit
  <1>5. ConsoleInv
    BY <1>1, ConsoleInit
  <1> QED
    BY <1>2, <1>3, <1>4, <1>5 DEF AccountsInv

LEMMA AccountsNext == AccountsInv /\ [Next]_accountsVars => AccountsInv'
  <1> SUFFICES ASSUME AccountsInv, [Next]_accountsVars PROVE AccountsInv'
    OBVIOUS
  <1>1. /\ AccountNext \/ UNCHANGED <<authVars, accountVars>>
        /\ BillingNext \/ UNCHANGED billingVars
        /\ GuestNext \/ UNCHANGED guestVars
        /\ AdminNext \/ UNCHANGED adminVars
    BY OnePart
  <1>2. ClientInv' /\ CreditInv' /\ GuestInv'
    BY ClientNext, CreditNext, GuestInvNext DEF AccountsInv
  <1>3. PagesInv'
    BY <1>1, <1>2, PagesNext DEF AccountsInv
  <1>4. ShopInv' /\ RowInv'
    BY <1>1, ShopNext, RowNext DEF AccountsInv
  <1>5. GuestsOK'
    BY <1>1, <1>2, GuestsNext DEF AccountsInv
  <1>6. ConsoleInv'
    BY <1>1, ConsoleNext DEF AccountsInv
  <1> QED
    BY <1>2, <1>3, <1>4, <1>5, <1>6 DEF AccountsInv

\* A link verifies once, a new password ends the tokens from before it, a page that waits
\* has a call under way, a row of a subscription has its tier, the dialog of a deletion stays
\* while it is carried out, and a job is listed once: for any number of requests, tokens,
\* mails, checkouts, notifications, guests, users and jobs, whatever is lost or comes late.
THEOREM PagesTellWhatIs == Spec => []AccountsConsistent
  <1>1. AccountsInv => AccountsConsistent
    <2> SUFFICES ASSUME AccountsInv PROVE AccountsConsistent
      OBVIOUS
    <2>1. /\ AccountTypeOK /\ QueueIsServed /\ UserHasTokens /\ ResetRevokes /\ OneLinkVerifies
          /\ PageTellsTheTruth
      BY PagesPromise DEF AccountsInv
    <2>2. BillingTypeOK /\ TierIsOfTheRow /\ CancelIsScheduled /\ WaitingIsLoading
      BY BillingPromises DEF AccountsInv
    <2>3. GuestTypeOK
      BY GuestsPromise DEF AccountsInv
    <2>4. AdminTypeOK /\ DialogStays /\ RowsAreDistinct
      BY ConsolePromises DEF AccountsInv
    <2> QED
      BY <2>1, <2>2, <2>3, <2>4 DEF AccountsConsistent
  <1> QED
    BY <1>1, AccountsInit, AccountsNext, PTL DEF Spec
==============================================================================

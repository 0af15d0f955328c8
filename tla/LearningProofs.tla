---------------------------- MODULE LearningProofs ----------------------------
(***************************************************************************)
(* Theorems about the pages to learn from, for any number of documents,    *)
(* versions, questions, forms and broken connections: one generation of a  *)
(* kind at a time, a tab that thinks has a stream, a retry set asks only   *)
(* for what is offered, and the statements of LearningConsistent.          *)
(***************************************************************************)
EXTENDS Learning, TLAPS

-----------------------------------------------------------------------------
(* The study viewer: what its actions keep *)

AnyNode == {0} \cup UNION {Nodes(Maps[i]) : i \in DOMAIN Maps}

View == [vi : Int, pending : BOOLEAN, prev : Nat, streaming : BOOLEAN, old : BOOLEAN, fresh : BOOLEAN]

Ui ==
    [at : Nat, flipped : BOOLEAN, deck : Nat, collapsed : SUBSET AnyNode, selected : AnyNode,
     told : {"load", "ok", "failed", "limit"}, open : SUBSET Concepts, hide : BOOLEAN, revealed : SUBSET Concepts]

ContentShape ==
    /\ short \in BOOLEAN /\ gone \in BOOLEAN
    /\ rec \in [Types -> Statuses] /\ known \in [Types -> Statuses \cup {"unknown"}]
    /\ made \in [Types -> Nat] /\ vers \in [Types -> Nat] /\ cont \in [Types -> Nat]
    /\ loose \in [Types -> Nat] /\ tasks \in [Types -> Nat]
    /\ conn \in {"no", "work", "end", "error"}
    /\ tab \in Types \cup {"none", "tutor", "missing"}
    /\ view \in View /\ ui \in Ui
    /\ sse \in {"off", "connect", "open", "backoff"} /\ retries \in 0..MaxRetries
    /\ acts \in 0..MaxActs

\* Queries are those of the tab that is open.
AskedByTab ==
    /\ asked \subseteq {"status", "content", "versions"}
    /\ tab \notin Types => asked \subseteq {"status"}
    /\ tab \notin Types \cup {"tutor"} => asked = {}

\* A stream is one of the tab that is open.
StreamOfTab ==
    /\ view.streaming <=> sse # "off"
    /\ sse # "off" => tab \in Types
    /\ conn # "no" => sse = "open"

Working(t) == IF tab = t /\ conn = "work" THEN 1 ELSE 0

\* While a generation is under way, by whatever generator, its record says so.
OneAtATime ==
    \A t \in Types :
        /\ loose[t] + tasks[t] + Working(t) <= 1
        /\ loose[t] + tasks[t] + Working(t) > 0 => rec[t] = "generating"

\* Every version was paid for by an act of the user or by a connection that broke.
MadeByActs ==
    \A t \in Types :
        made[t] + (IF rec[t] = "generating" THEN 1 ELSE 0)
                + (IF tab = t /\ sse \in {"connect", "backoff"} THEN 1 ELSE 0) <= 2 + acts

ReadIsMade == \A t \in Types : vers[t] <= made[t] /\ cont[t] <= made[t]

ViewFits ==
    /\ tab \in Types => view.vi >= -1 /\ view.vi < vers[tab]
    /\ tab \in Types /\ ~IsShort => view.prev = vers[tab]

\* Something may still be added to the versions of the open tab.
Coming == loose[tab] + tasks[tab] > 0 \/ conn = "work" \/ sse \in {"connect", "backoff"}

\* Who asked for the newest version is on it, and on the next one as soon as it is read.
FreshIsNewest ==
    view.fresh =>
        /\ tab \in Types /\ ~IsShort
        /\ view.vi = vers[tab] - 1
        /\ made[tab] > vers[tab] => view.pending
        /\ Coming => made[tab] = vers[tab] /\ view.pending
        /\ sse \in {"connect", "backoff"} => rec[tab] # "generating"

CardReached == ui.at = 0 \/ (ui.deck \in DOMAIN Cards /\ ui.at < Cards[ui.deck])

ContentInv ==
    /\ ContentShape /\ AskedByTab /\ StreamOfTab /\ OneAtATime /\ MadeByActs /\ ReadIsMade
    /\ ViewFits /\ FreshIsNewest /\ CardReached /\ StuckHasCause


LEMMA ConstantsFit ==
  /\ MaxActs \in Nat /\ MaxRetries \in Nat /\ MaxRetries >= 1
  /\ Cards \in Seq(Nat) /\ Len(Cards) \in Nat /\ DOMAIN Cards = 1..Len(Cards)
  /\ Len(Cards) = Len(Maps) /\ Len(Cards) >= MaxActs + 2
  /\ \A i \in DOMAIN Cards : Cards[i] \in Nat
  BY StudyAssumption

LEMMA FreshRecords ==
  /\ Unopened \in View /\ Untouched \in Ui
  /\ Unopened.vi = -1 /\ Unopened.prev = 0
  /\ ~Unopened.pending /\ ~Unopened.streaming /\ ~Unopened.fresh /\ ~Unopened.old
  /\ Untouched.at = 0
  <1>1. 0 \in AnyNode /\ {} \in SUBSET AnyNode /\ {} \in SUBSET Concepts
    BY DEF AnyNode
  <1>2. Untouched \in Ui /\ Untouched.at = 0
    BY <1>1 DEF Untouched, Ui
  <1>3. /\ Unopened \in View /\ Unopened.vi = -1 /\ Unopened.prev = 0
        /\ ~Unopened.pending /\ ~Unopened.streaming /\ ~Unopened.fresh /\ ~Unopened.old
    BY DEF Unopened, View
  <1> QED
    BY <1>2, <1>3

LEMMA SettleFields ==
  ASSUME NEW w \in View, NEW n \in Nat
  PROVE  /\ Settle(w, n) \in View
         /\ Settle(w, n).vi = IF w.pending /\ n > w.prev THEN n - 1
                              ELSE IF w.vi = -1 /\ n > 0 THEN n - 1 ELSE w.vi
         /\ Settle(w, n).pending = (w.pending /\ ~(w.pending /\ n > w.prev))
         /\ Settle(w, n).prev = n
         /\ Settle(w, n).streaming = w.streaming
         /\ Settle(w, n).fresh = w.fresh
  <1> DEFINE first == IF w.vi = -1 /\ n > 0 THEN n - 1 ELSE w.vi
             newest == w.pending /\ n > w.prev
             vi == IF newest THEN n - 1 ELSE first
             old == w.old /\ vi = w.vi
             pending == w.pending /\ ~newest
  <1>1. Settle(w, n) = [w EXCEPT !.vi = vi, !.pending = pending, !.prev = n, !.old = old]
    BY DEF Settle
  <1>2. vi \in Int /\ old \in BOOLEAN /\ pending \in BOOLEAN
    BY DEF View
  <1> HIDE DEF vi, old, pending
  <1>3. /\ Settle(w, n) \in View /\ Settle(w, n).vi = vi /\ Settle(w, n).pending = pending
        /\ Settle(w, n).prev = n /\ Settle(w, n).streaming = w.streaming /\ Settle(w, n).fresh = w.fresh
    BY <1>1, <1>2 DEF View
  <1> QED
    BY <1>3 DEF vi, pending

\* What closing a stream does to its generator.
LEMMA ClosedStream ==
  ASSUME ContentShape, CloseStream
  PROVE  /\ sse' = "off" /\ conn' = "no" /\ retries' = 0
         /\ loose' \in [Types -> Nat]
         /\ \A t \in Types : loose'[t] = loose[t] + Working(t)
         /\ \A t \in Types : t \in cut \/ (tab = t /\ conn = "work") => t \in cut'
         /\ \A t \in Types : Working(t) \in Nat
  <1>1. CASE conn = "work" /\ tab \in Types
    <2>1. loose' = [loose EXCEPT ![tab] = @ + 1] /\ cut' = cut \cup {tab}
      BY <1>1 DEF CloseStream
    <2> QED
      BY <1>1, <2>1 DEF ContentShape, CloseStream, Working
  <1>2. CASE ~(conn = "work" /\ tab \in Types)
    <2>1. loose' \in [Types -> Nat] /\ \A t \in Types : loose'[t] = loose[t]
      BY <1>2 DEF CloseStream, ContentShape
    <2>2. \A t \in Types : ~(tab = t /\ conn = "work")
      BY <1>2
    <2>3. \A t \in Types : Working(t) = 0
      BY <2>2 DEF Working
    <2> QED
      BY <2>1, <2>2, <2>3 DEF CloseStream, ContentShape
  <1> QED
    BY <1>1, <1>2

\* When no stream is left, the generators and the records are as they were.
LEMMA ClosedStreamKeeps ==
  ASSUME ContentInv, CloseStream, UNCHANGED <<rec, made, tasks>>, acts' \in Nat, acts' >= acts
  PROVE  OneAtATime' /\ MadeByActs' /\ StuckHasCause'
  <1> USE ClosedStream
  <1>1. OneAtATime'
    BY DEF ContentInv, ContentShape, OneAtATime, Working
  <1>2. MadeByActs'
    BY DEF ContentInv, ContentShape, MadeByActs
  <1>3. StuckHasCause'
    BY DEF ContentInv, StuckHasCause
  <1> QED
    BY <1>1, <1>2, <1>3

LEMMA MountKeeps ==
  ASSUME ContentInv, NEW t \in Types \cup {"none", "tutor", "missing"}, Mount(t),
         UNCHANGED <<short, gone, rec, made, tasks, data>>, acts' \in 0..MaxActs, acts' >= acts
  PROVE  ContentInv'
  <1>1. /\ tab' = t /\ ui' = Untouched /\ CloseStream
        /\ UNCHANGED <<short, gone, rec, made, tasks, known, vers, cont>>
    BY DEF Mount, data
  <1>2. CASE t \in Types
    <2>1. /\ view' = Settle(Unopened, vers[t]) /\ asked' = Queries(t) /\ vers[t] \in Nat
      BY <1>2 DEF Mount, ContentInv, ContentShape
    <2>2. /\ view' \in View /\ view'.vi = IF vers[t] > 0 THEN vers[t] - 1 ELSE -1
          /\ view'.prev = vers[t] /\ ~view'.streaming /\ ~view'.fresh
      BY <2>1, SettleFields, FreshRecords
    <2> QED
      <3>0. /\ view' \in View /\ ui' \in Ui /\ conn' = "no" /\ sse' = "off"
            /\ loose' \in [Types -> Nat] /\ retries' \in 0..MaxRetries
        BY <1>1, <2>2, FreshRecords, ClosedStream, ConstantsFit DEF ContentInv
      <3>1. ContentShape'
        BY <1>1, <3>0 DEF ContentInv, ContentShape
      <3>2. AskedByTab'
        BY <1>1, <1>2, <2>1 DEF AskedByTab, Queries
      <3>3. StreamOfTab'
        BY <1>1, <2>2, ClosedStream DEF StreamOfTab, ContentInv
      <3>4. ViewFits'
        BY <1>1, <1>2, <2>1, <2>2 DEF ViewFits
      <3>5. FreshIsNewest' /\ CardReached' /\ ReadIsMade'
        BY <1>1, <2>2, FreshRecords DEF FreshIsNewest, CardReached, ReadIsMade, ContentInv
      <3> QED
        BY <1>1, <3>1, <3>2, <3>3, <3>4, <3>5, ClosedStreamKeeps DEF ContentInv, ContentShape
  <1>3. CASE t \notin Types
    <2>1. view' = Unopened /\ asked' = IF t = "tutor" THEN {"status"} ELSE {}
      BY <1>3 DEF Mount
    <2> QED
      <3>0. /\ view' \in View /\ ui' \in Ui /\ conn' = "no" /\ sse' = "off"
            /\ loose' \in [Types -> Nat] /\ retries' \in 0..MaxRetries
        BY <1>1, <2>1, FreshRecords, ClosedStream, ConstantsFit DEF ContentInv
      <3>1. ContentShape'
        <4>1. tab' \in Types \cup {"none", "tutor", "missing"} /\ acts' \in 0..MaxActs
          BY <1>1
        <4> QED
          BY <1>1, <3>0, <4>1 DEF ContentInv, ContentShape
      <3>2. AskedByTab'
        BY <1>1, <1>3, <2>1 DEF AskedByTab, Queries
      <3>3. StreamOfTab'
        BY <1>1, <2>1, FreshRecords, ClosedStream DEF StreamOfTab, ContentInv
      <3>4. ViewFits'
        BY <1>1, <1>3 DEF ViewFits
      <3>5. FreshIsNewest' /\ CardReached' /\ ReadIsMade'
        BY <1>1, <2>1, FreshRecords DEF FreshIsNewest, CardReached, ReadIsMade, ContentInv
      <3> QED
        BY <1>1, <3>1, <3>2, <3>3, <3>4, <3>5, ClosedStreamKeeps DEF ContentInv, ContentShape
  <1> QED
    BY <1>2, <1>3

LEMMA MountsKeep ==
  ASSUME ContentInv, OpenViewer \/ CloseViewer \/ ShowMissing \/ \E t \in Types \cup {"tutor"} : SelectTab(t)
  PROVE  ContentInv'
  <1>1. acts \in 0..MaxActs /\ MaxActs \in Nat
    BY ConstantsFit DEF ContentInv, ContentShape
  <1>2. PICK t \in Types \cup {"none", "tutor", "missing"} :
          Mount(t) /\ UNCHANGED <<short, gone, rec, made, tasks, data>>
          /\ (acts' = acts \/ (acts < MaxActs /\ acts' = acts + 1))
    BY DEF OpenViewer, CloseViewer, ShowMissing, SelectTab, Act, Types
  <1> QED
    BY <1>1, <1>2, MountKeeps

LEMMA PollStatusKeeps ==
  ASSUME ContentInv, PollStatus
  PROVE  ContentInv'
  <1>1. /\ UNCHANGED <<short, gone, rec, made, loose, tasks, cut, conn, known, vers, cont, tab, view, sse, retries, ui, acts>>
        /\ asked' = asked \cup {"status"} /\ tab \in Types \cup {"tutor"}
    BY DEF PollStatus, server, data
  <1>2. AskedByTab'
    BY <1>1 DEF ContentInv, AskedByTab
  <1>3. ContentShape' /\ StreamOfTab' /\ OneAtATime' /\ MadeByActs' /\ ReadIsMade' /\ CardReached' /\ StuckHasCause'
    BY <1>1 DEF ContentInv, ContentShape, StreamOfTab, OneAtATime, Working, MadeByActs, ReadIsMade, CardReached, StuckHasCause
  <1>4. ViewFits' /\ FreshIsNewest'
    BY <1>1 DEF ContentInv, ViewFits, FreshIsNewest, IsShort, Coming
  <1> QED
    BY <1>2, <1>3, <1>4 DEF ContentInv

LEMMA ShowStatusKeeps ==
  ASSUME ContentInv, ShowStatus
  PROVE  ContentInv'
  <1>1. UNCHANGED <<short, gone, rec, made, tasks, vers, cont, tab, ui, acts>> /\ known' = rec
    BY DEF ShowStatus
  <1>2. CASE short /\ tab \in Types
    <2>1. CloseStream /\ view' = Unopened /\ asked' = {}
      BY <1>2 DEF ShowStatus
    <2>2. acts \in Nat
      BY DEF ContentInv, ContentShape
    <2>3. OneAtATime' /\ MadeByActs' /\ StuckHasCause'
      BY <1>1, <2>1, <2>2, ClosedStreamKeeps
    <2>4. ContentShape'
      <3>0. conn' = "no" /\ sse' = "off" /\ retries' = 0 /\ 0 \in 0..MaxRetries /\ loose' \in [Types -> Nat]
        BY <2>1, ClosedStream, ConstantsFit DEF ContentInv
      <3>1. /\ view' \in View /\ retries' \in 0..MaxRetries
            /\ known' \in [Types -> Statuses \cup {"unknown"}]
        BY <1>1, <2>1, <3>0, FreshRecords DEF ContentInv, ContentShape
      <3>2. /\ short \in BOOLEAN /\ gone \in BOOLEAN /\ rec \in [Types -> Statuses]
            /\ made \in [Types -> Nat] /\ vers \in [Types -> Nat] /\ cont \in [Types -> Nat]
            /\ tasks \in [Types -> Nat] /\ tab \in Types \cup {"none", "tutor", "missing"}
            /\ ui \in Ui /\ acts \in 0..MaxActs
        BY DEF ContentInv, ContentShape
      <3> QED
        BY <1>1, <3>0, <3>1, <3>2 DEF ContentShape
    <2>5. IsShort'
      BY <1>1, <1>2 DEF IsShort, ContentInv, ContentShape, Types, Statuses
    <2>6. ViewFits' /\ FreshIsNewest'
      BY <1>1, <1>2, <2>1, <2>5, FreshRecords DEF ViewFits, FreshIsNewest, ContentInv, ContentShape
    <2>7. AskedByTab' /\ StreamOfTab' /\ ReadIsMade' /\ CardReached'
      BY <1>1, <1>2, <2>1, FreshRecords, ClosedStream DEF AskedByTab, StreamOfTab, ReadIsMade, CardReached, ContentInv
    <2> QED
      BY <2>3, <2>4, <2>6, <2>7 DEF ContentInv
  <1>3. CASE ~(short /\ tab \in Types)
    <2>1. /\ asked' = (asked \ {"status"}) \cup {q \in {"content", "versions"} : BecomesCompleted}
          /\ UNCHANGED <<conn, loose, cut, view, sse, retries>>
      BY <1>3 DEF ShowStatus
    <2>2. AskedByTab'
      BY <1>1, <2>1 DEF AskedByTab, BecomesCompleted, ContentInv
    <2>3. ContentShape'
      BY <1>1, <2>1 DEF ContentInv, ContentShape
    <2>4. StreamOfTab' /\ OneAtATime' /\ MadeByActs' /\ ReadIsMade' /\ CardReached' /\ StuckHasCause'
      BY <1>1, <2>1 DEF ContentInv, StreamOfTab, OneAtATime, Working, MadeByActs, ReadIsMade, CardReached, StuckHasCause
    <2>5. view.fresh => ~IsShort'
      BY <1>1, <1>3 DEF IsShort, ContentInv, FreshIsNewest
    <2>6. tab \in Types => ~IsShort
      BY <1>3 DEF IsShort
    <2>7. ViewFits' /\ FreshIsNewest'
      BY <1>1, <2>1, <2>5, <2>6 DEF ContentInv, ViewFits, FreshIsNewest, Coming
    <2> QED
      BY <2>2, <2>3, <2>4, <2>7 DEF ContentInv
  <1> QED
    BY <1>2, <1>3

LEMMA ShowContentKeeps ==
  ASSUME ContentInv, ShowContent
  PROVE  ContentInv'
  <1> DEFINE new == IF rec[tab] = "completed" /\ ~gone THEN made[tab] ELSE cont[tab]
  <1>1. /\ UNCHANGED <<short, gone, rec, made, loose, tasks, cut, conn, known, vers, tab, view, sse, retries, acts>>
        /\ asked' = asked \ {"content"} /\ cont' = [cont EXCEPT ![tab] = new] /\ ForgetNodes(new)
    BY DEF ShowContent, server
  <1>2. tab \in Types
    BY DEF ShowContent, ContentInv, AskedByTab
  <1>3. new \in Nat /\ new <= made[tab]
    BY <1>2 DEF ContentInv, ContentShape, ReadIsMade
  <1>4. ui' \in Ui /\ ui'.at = ui.at /\ ui'.deck = ui.deck
    <2>1. ui' = ui \/ ui' = [ui EXCEPT !.selected = 0, !.collapsed = {}]
      BY <1>1 DEF ForgetNodes
    <2>2. ui \in Ui /\ 0 \in AnyNode
      BY DEF ContentInv, ContentShape, AnyNode
    <2> QED
      BY <2>1, <2>2 DEF Ui
  <1> HIDE DEF new
  <1>5. cont' \in [Types -> Nat]
    BY <1>1, <1>2, <1>3 DEF ContentInv, ContentShape
  <1>6. ContentShape'
    BY <1>1, <1>4, <1>5 DEF ContentInv, ContentShape
  <1>7. AskedByTab' /\ ReadIsMade'
    BY <1>1, <1>2, <1>3 DEF ContentInv, AskedByTab, ReadIsMade, ContentShape
  <1>8. StreamOfTab' /\ OneAtATime' /\ MadeByActs' /\ CardReached' /\ StuckHasCause'
    BY <1>1, <1>4 DEF ContentInv, StreamOfTab, OneAtATime, Working, MadeByActs, CardReached, StuckHasCause
  <1>9. ViewFits' /\ FreshIsNewest'
    BY <1>1 DEF ContentInv, ViewFits, FreshIsNewest, IsShort, Coming
  <1> QED
    BY <1>6, <1>7, <1>8, <1>9 DEF ContentInv

LEMMA ShowVersionsKeeps ==
  ASSUME ContentInv, ShowVersions
  PROVE  ContentInv'
  <1> DEFINE n == IF gone THEN vers[tab] ELSE made[tab]
  <1>1. /\ UNCHANGED <<short, gone, rec, made, loose, tasks, cut, conn, known, cont, tab, sse, retries, ui, acts>>
        /\ asked' = asked \ {"versions"} /\ vers' = [vers EXCEPT ![tab] = n] /\ view' = Settle(view, n)
    BY DEF ShowVersions, server
  <1>2. tab \in Types
    BY DEF ShowVersions, ContentInv, AskedByTab
  <1>3. n \in Nat /\ n <= made[tab] /\ n >= vers[tab] /\ (n = vers[tab] \/ n = made[tab])
        /\ vers[tab] \in Nat /\ made[tab] \in Nat
    BY <1>2 DEF ContentInv, ContentShape, ReadIsMade
  <1> HIDE DEF n
  <1>4. vers' \in [Types -> Nat] /\ vers'[tab] = n
    BY <1>1, <1>2, <1>3 DEF ContentInv, ContentShape
  <1>5. view \in View
    BY DEF ContentInv, ContentShape
  <1>6. /\ view' \in View
        /\ view'.vi = IF view.pending /\ n > view.prev THEN n - 1
                      ELSE IF view.vi = -1 /\ n > 0 THEN n - 1 ELSE view.vi
        /\ view'.pending = (view.pending /\ ~(view.pending /\ n > view.prev))
        /\ view'.prev = n /\ view'.streaming = view.streaming /\ view'.fresh = view.fresh
    BY <1>1, <1>3, <1>5, SettleFields
  <1>7. view.vi \in Int /\ view.prev \in Nat /\ view.pending \in BOOLEAN /\ view.fresh \in BOOLEAN
    BY <1>5 DEF View
  <1>8. ContentShape'
    BY <1>1, <1>4, <1>6 DEF ContentInv, ContentShape
  <1>9. AskedByTab' /\ ReadIsMade'
    BY <1>1, <1>2, <1>3 DEF ContentInv, AskedByTab, ReadIsMade, ContentShape
  <1>10. StreamOfTab' /\ OneAtATime' /\ MadeByActs' /\ CardReached' /\ StuckHasCause'
    BY <1>1, <1>6 DEF ContentInv, StreamOfTab, OneAtATime, Working, MadeByActs, CardReached, StuckHasCause
  <1>11. view.vi >= -1 /\ view.vi < vers[tab]
    BY <1>2 DEF ContentInv, ViewFits
  <1>12. ViewFits'
    BY <1>1, <1>3, <1>4, <1>6, <1>7, <1>11 DEF ViewFits
  <1>13. FreshIsNewest'
    <2> SUFFICES ASSUME view'.fresh PROVE FreshIsNewest'
      BY DEF FreshIsNewest
    <2>1. /\ ~IsShort /\ view.vi = vers[tab] - 1
          /\ made[tab] > vers[tab] => view.pending
          /\ Coming => made[tab] = vers[tab] /\ view.pending
          /\ sse \in {"connect", "backoff"} => rec[tab] # "generating"
          /\ view.prev = vers[tab]
      BY <1>2, <1>6 DEF ContentInv, FreshIsNewest, ViewFits
    <2>2. ~IsShort' /\ Coming' = Coming
      BY <1>1, <2>1 DEF IsShort, Coming
    <2>3. view'.vi = n - 1
      BY <1>3, <1>6, <1>7, <2>1
    <2>4. made[tab] > n => view'.pending
      BY <1>3, <1>6, <1>7, <2>1
    <2>5. Coming => made[tab] = n /\ view'.pending
      BY <1>3, <1>6, <1>7, <2>1
    <2> QED
      BY <1>1, <1>2, <1>4, <2>1, <2>2, <2>3, <2>4, <2>5 DEF FreshIsNewest
  <1> QED
    BY <1>8, <1>9, <1>10, <1>12, <1>13 DEF ContentInv

LEMMA ShowOldVersionKeeps ==
  ASSUME ContentInv, ShowOldVersion
  PROVE  ContentInv'
  <1>1. /\ UNCHANGED <<short, gone, rec, made, loose, tasks, cut, conn, known, vers, cont, asked, tab, sse, retries, ui, acts>>
        /\ view' = [view EXCEPT !.old = TRUE]
    BY DEF ShowOldVersion, server, data
  <1>2. /\ view' \in View /\ view'.vi = view.vi /\ view'.pending = view.pending /\ view'.prev = view.prev
        /\ view'.streaming = view.streaming /\ view'.fresh = view.fresh
    BY <1>1 DEF ContentInv, ContentShape, View
  <1>3. ContentShape' /\ AskedByTab'
    BY <1>1, <1>2 DEF ContentInv, ContentShape, AskedByTab
  <1>4. StreamOfTab' /\ OneAtATime' /\ MadeByActs' /\ ReadIsMade' /\ CardReached' /\ StuckHasCause'
    BY <1>1, <1>2 DEF ContentInv, StreamOfTab, OneAtATime, Working, MadeByActs, ReadIsMade, CardReached, StuckHasCause
  <1>5. ViewFits' /\ FreshIsNewest'
    BY <1>1, <1>2 DEF ContentInv, ViewFits, FreshIsNewest, IsShort, Coming
  <1> QED
    BY <1>3, <1>4, <1>5 DEF ContentInv

\* An act of the user only adds to what can be paid for.
LEMMA ActFits ==
  ASSUME ContentInv, Act
  PROVE  acts' \in 0..MaxActs /\ acts' = acts + 1 /\ acts \in Nat
  BY ConstantsFit DEF ContentInv, ContentShape, Act

LEMMA LookAtKeeps ==
  ASSUME ContentInv, PrevVersion \/ NextVersion
  PROVE  ContentInv'
  <1>1. PICK vi \in Int : LookAt(vi) /\ tab \in Types /\ vi >= -1 /\ vi < vers[tab]
    <2>1. view.vi \in Int /\ (tab \in Types => view.vi < vers[tab] /\ vers[tab] \in Nat)
      BY DEF ContentInv, ContentShape, View, ViewFits
    <2>2. CASE PrevVersion
      BY <2>1, <2>2 DEF PrevVersion
    <2>3. CASE NextVersion
      <3>1. view.vi >= -1
        BY <2>3 DEF NextVersion, ContentInv, ViewFits
      <3> QED
        BY <2>1, <2>3, <3>1 DEF NextVersion
    <2> QED
      BY <2>2, <2>3
  <1>2. /\ UNCHANGED <<short, gone, rec, made, loose, tasks, cut, conn, known, vers, cont, asked, tab, sse, retries>>
        /\ view' = [view EXCEPT !.vi = vi, !.old = FALSE, !.fresh = FALSE]
        /\ ui' = [ui EXCEPT !.at = 0, !.flipped = FALSE, !.collapsed = {}, !.selected = 0]
        /\ Act
    BY <1>1 DEF LookAt, server, data
  <1>3. /\ view' \in View /\ view'.vi = vi /\ view'.pending = view.pending /\ view'.prev = view.prev
        /\ view'.streaming = view.streaming /\ ~view'.fresh
    BY <1>2 DEF ContentInv, ContentShape, View
  <1>4. ui' \in Ui /\ ui'.at = 0
    <2>1. ui \in Ui /\ 0 \in AnyNode
      BY DEF ContentInv, ContentShape, AnyNode
    <2> QED
      BY <1>2, <2>1 DEF Ui
  <1>5. ContentShape' /\ AskedByTab'
    BY <1>2, <1>3, <1>4, ActFits DEF ContentInv, ContentShape, AskedByTab
  <1>6. StreamOfTab' /\ OneAtATime' /\ ReadIsMade' /\ CardReached' /\ StuckHasCause'
    BY <1>2, <1>3, <1>4 DEF ContentInv, StreamOfTab, OneAtATime, Working, ReadIsMade, CardReached, StuckHasCause
  <1>7. MadeByActs'
    BY <1>2, ActFits DEF ContentInv, ContentShape, MadeByActs
  <1>8. ViewFits' /\ FreshIsNewest'
    BY <1>1, <1>2, <1>3 DEF ContentInv, ViewFits, FreshIsNewest, IsShort
  <1> QED
    BY <1>5, <1>6, <1>7, <1>8 DEF ContentInv

-----------------------------------------------------------------------------
(* A stream begins *)

LEMMA StartIsOne ==
  ASSUME Start
  PROVE  /\ tab \in Types /\ ~IsShort /\ ~view.streaming /\ Status(tab) # "generating"
         /\ Generate \/ Regenerate(ui) \/ Regenerate(FirstCard)
  <1>1. \A t \in Types, s \in {"not_generated", "failed", "completed"} :
          Idle(t, s) => tab \in Types /\ ~IsShort /\ ~view.streaming /\ Status(tab) # "generating"
    BY DEF Idle, OnTab
  <1>2. Header => tab \in Types /\ ~IsShort /\ ~view.streaming /\ Status(tab) # "generating"
    BY DEF Header, OnTab, Types
  <1>3. {"summary", "flashcards", "mindmap", "concept-notes"} = Types
    BY DEF Types
  <1>4. CASE GenerateSummary \/ RetrySummary \/ RegenerateSummary
    BY <1>1, <1>2, <1>3, <1>4 DEF GenerateSummary, RetrySummary, RegenerateSummary
  <1>5. CASE GenerateFlashcards \/ RetryFlashcards \/ RefillFlashcards \/ RegenerateFlashcards
    BY <1>1, <1>2, <1>3, <1>5 DEF GenerateFlashcards, RetryFlashcards, RefillFlashcards, RegenerateFlashcards, OnCards
  <1>6. CASE GenerateMindmap \/ RetryMindmap \/ RefillMindmap \/ RegenerateMindmap
    BY <1>1, <1>2, <1>3, <1>6 DEF GenerateMindmap, RetryMindmap, RefillMindmap, RegenerateMindmap, OnMap
  <1>7. CASE GenerateNotes \/ RetryNotes \/ RefillNotes \/ RegenerateNotes
    BY <1>1, <1>2, <1>3, <1>7 DEF GenerateNotes, RetryNotes, RefillNotes, RegenerateNotes
  <1> QED
    BY <1>4, <1>5, <1>6, <1>7 DEF Start

\* What every start has in common.
LEMMA StartStreamingKeeps ==
  ASSUME ContentInv, tab \in Types, ~IsShort, ~view.streaming,
         NEW w \in View, NEW u \in Ui, StartStreaming(w, u),
         w.vi >= -1, w.vi < vers[tab], w.prev = vers[tab], u.at = 0 \/ (u.at = ui.at /\ u.deck = ui.deck),
         w.fresh => /\ w.vi = vers[tab] - 1 /\ w.pending
                    /\ made[tab] = vers[tab] /\ rec[tab] # "generating"
  PROVE  ContentInv'
  <1>1. /\ UNCHANGED <<short, gone, rec, made, loose, tasks, cut, conn, known, vers, cont, asked, tab>>
        /\ Act /\ view' = [w EXCEPT !.streaming = TRUE] /\ sse' = "connect" /\ retries' = 0
        /\ ui' = [u EXCEPT !.selected = 0]
    BY DEF StartStreaming, server, data
  <1>2. /\ view' \in View /\ view'.vi = w.vi /\ view'.pending = w.pending /\ view'.prev = w.prev
        /\ view'.streaming /\ view'.fresh = w.fresh
    BY <1>1 DEF View
  <1>3. ui' \in Ui /\ ui'.at = u.at /\ ui'.deck = u.deck
    <2>1. 0 \in AnyNode
      BY DEF AnyNode
    <2> QED
      BY <1>1, <2>1 DEF Ui
  <1>4. sse = "off" /\ conn = "no"
    BY DEF ContentInv, StreamOfTab, ContentShape
  <1>0. acts' \in 0..MaxActs /\ retries' \in 0..MaxRetries
    BY <1>1, ActFits, ConstantsFit
  <1>5. ContentShape' /\ AskedByTab'
    <2>1. ContentShape'
      BY <1>0, <1>1, <1>2, <1>3 DEF ContentInv, ContentShape
    <2> QED
      BY <1>1, <2>1 DEF ContentInv, AskedByTab
  <1>6. StreamOfTab' /\ OneAtATime' /\ ReadIsMade' /\ CardReached' /\ StuckHasCause'
    BY <1>1, <1>2, <1>3, <1>4 DEF ContentInv, StreamOfTab, OneAtATime, Working, ReadIsMade, CardReached, StuckHasCause
  <1>7. MadeByActs'
    BY <1>1, <1>4, ActFits DEF ContentInv, ContentShape, MadeByActs
  <1>8. ViewFits'
    BY <1>1, <1>2 DEF ContentInv, ViewFits
  <1>9. FreshIsNewest'
    BY <1>1, <1>2 DEF ContentInv, FreshIsNewest, IsShort, ContentShape
  <1> QED
    BY <1>5, <1>6, <1>7, <1>8, <1>9 DEF ContentInv

LEMMA StartKeeps ==
  ASSUME ContentInv, Start
  PROVE  ContentInv'
  <1>1. /\ tab \in Types /\ ~IsShort /\ ~view.streaming /\ Status(tab) # "generating"
        /\ Generate \/ Regenerate(ui) \/ Regenerate(FirstCard)
    BY StartIsOne
  <1>2. /\ view \in View /\ ui \in Ui /\ vers[tab] \in Nat /\ made[tab] \in Nat
        /\ known[tab] \in Statuses \cup {"unknown"} /\ rec[tab] \in Statuses
    BY <1>1 DEF ContentInv, ContentShape
  <1>3. view.vi >= -1 /\ view.vi < vers[tab] /\ view.prev = vers[tab] /\ view.vi \in Int
    BY <1>1, <1>2 DEF ContentInv, ViewFits, View
  <1>4. CASE Generate
    <2> DEFINE w == [view EXCEPT !.fresh = FALSE]
    <2>1. w \in View /\ w.vi = view.vi /\ w.prev = view.prev /\ ~w.fresh
      BY <1>2 DEF View
    <2>2. StartStreaming(w, ui)
      BY <1>4 DEF Generate
    <2> HIDE DEF w
    <2> QED
      BY <1>1, <1>2, <1>3, <2>1, <2>2, StartStreamingKeeps
  <1>5. ASSUME NEW u \in Ui, u.at = 0 \/ (u.at = ui.at /\ u.deck = ui.deck), Regenerate(u)
        PROVE  ContentInv'
    <2> DEFINE up == UpToDate
               v == [view EXCEPT !.pending = TRUE, !.vi = -1, !.fresh = up]
               w == Settle(v, vers[tab])
    <2>0. up \in BOOLEAN
      BY DEF UpToDate
    <2>2. StartStreaming(w, u)
      BY <1>5 DEF Regenerate
    <2> HIDE DEF up
    <2> DEFINE none == -1
               yes == TRUE
    <2>8. v = [view EXCEPT !.pending = yes, !.vi = none, !.fresh = up]
      OBVIOUS
    <2>12. none \in Int /\ none = -1 /\ yes \in BOOLEAN /\ yes
      OBVIOUS
    <2> HIDE DEF none, yes, v
    <2>13. v \in View /\ v.vi = none /\ v.prev = view.prev /\ v.pending = yes /\ v.fresh = up
      BY <1>2, <2>0, <2>8, <2>12 DEF View
    <2>1. v \in View /\ v.vi = -1 /\ v.prev = view.prev /\ v.pending = yes /\ v.fresh = up
      BY <2>12, <2>13
    <2> HIDE DEF v
    <2>6. /\ w \in View
          /\ w.vi = IF v.pending /\ vers[tab] > v.prev THEN vers[tab] - 1
                    ELSE IF v.vi = -1 /\ vers[tab] > 0 THEN vers[tab] - 1 ELSE v.vi
          /\ w.pending = (v.pending /\ ~(v.pending /\ vers[tab] > v.prev))
          /\ w.prev = vers[tab] /\ w.fresh = v.fresh
      BY <1>2, <2>1, SettleFields
    <2>7. v.prev = vers[tab] /\ ~(vers[tab] > vers[tab])
      BY <1>2, <1>3, <2>1
    <2>9. v.pending
      BY <2>1, <2>12
    <2>10. w.vi = vers[tab] - 1
      BY <1>2, <2>1, <2>6, <2>7
    <2>11. w.pending
      BY <2>6, <2>7, <2>9
    <2>3. /\ w \in View /\ w.vi = vers[tab] - 1 /\ w.pending /\ w.prev = vers[tab] /\ w.fresh = up
      BY <2>1, <2>6, <2>10, <2>11
    <2>4. up => made[tab] = vers[tab] /\ rec[tab] # "generating"
      BY <1>1, <1>2 DEF up, UpToDate, Status, Statuses
    <2> HIDE DEF w
    <2>5. w.vi >= -1 /\ w.vi < vers[tab]
      BY <1>2, <2>3
    <2> QED
      BY <1>1, <1>2, <1>5, <2>2, <2>3, <2>4, <2>5, StartStreamingKeeps
  <1>6. FirstCard \in Ui /\ FirstCard.at = 0
    BY <1>2 DEF FirstCard, Ui
  <1> QED
    BY <1>1, <1>2, <1>4, <1>5, <1>6

-----------------------------------------------------------------------------
(* A stream goes on and ends *)

LEMMA CancelKeeps ==
  ASSUME ContentInv, CancelStreaming
  PROVE  ContentInv'
  <1>1. /\ UNCHANGED <<short, gone, rec, made, tasks, known, vers, cont, tab, ui, acts>> /\ CloseStream
        /\ view' = [view EXCEPT !.streaming = FALSE, !.fresh = FALSE] /\ asked' = asked \cup {"status"} /\ tab \in Types
    BY DEF CancelStreaming, data
  <1>2. acts \in Nat
    BY DEF ContentInv, ContentShape
  <1>3. OneAtATime' /\ MadeByActs' /\ StuckHasCause'
    BY <1>1, <1>2, ClosedStreamKeeps
  <1>4. /\ view' \in View /\ view'.vi = view.vi /\ view'.prev = view.prev /\ ~view'.streaming /\ ~view'.fresh
    BY <1>1 DEF ContentInv, ContentShape, View
  <1>5. /\ conn' = "no" /\ sse' = "off" /\ retries' \in 0..MaxRetries /\ loose' \in [Types -> Nat]
    BY <1>1, ClosedStream, ConstantsFit DEF ContentInv
  <1>6. ContentShape'
    BY <1>1, <1>4, <1>5 DEF ContentInv, ContentShape
  <1>7. AskedByTab' /\ StreamOfTab' /\ ReadIsMade' /\ CardReached'
    BY <1>1, <1>4, <1>5 DEF ContentInv, AskedByTab, StreamOfTab, ReadIsMade, CardReached
  <1>8. ViewFits' /\ FreshIsNewest'
    BY <1>1, <1>4 DEF ContentInv, ViewFits, FreshIsNewest, IsShort
  <1> QED
    BY <1>3, <1>6, <1>7, <1>8 DEF ContentInv

\* A stream that is given up has no generator that still works.
LEMMA HandleErrorKeeps ==
  ASSUME ContentInv, HandleError, sse # "off", conn # "work", conn' = "no",
         UNCHANGED <<short, gone, rec, made, loose, tasks, cut, known, vers, cont, tab, retries, ui, acts>>
  PROVE  ContentInv'
  <1>1. /\ sse' = "off" /\ view' = [view EXCEPT !.streaming = FALSE, !.fresh = FALSE]
        /\ asked' = asked \cup {"status"} /\ tab \in Types
    BY DEF HandleError, ContentInv, StreamOfTab
  <1>2. /\ view' \in View /\ view'.vi = view.vi /\ view'.prev = view.prev /\ ~view'.streaming /\ ~view'.fresh
    BY <1>1 DEF ContentInv, ContentShape, View
  <1>3. ContentShape'
    BY <1>1, <1>2 DEF ContentInv, ContentShape
  <1>4. AskedByTab' /\ StreamOfTab' /\ ReadIsMade' /\ CardReached' /\ StuckHasCause'
    BY <1>1, <1>2 DEF ContentInv, AskedByTab, StreamOfTab, ReadIsMade, CardReached, StuckHasCause
  <1>5. OneAtATime' /\ MadeByActs'
    BY <1>1 DEF ContentInv, ContentShape, OneAtATime, Working, MadeByActs
  <1>6. ViewFits' /\ FreshIsNewest'
    BY <1>1, <1>2 DEF ContentInv, ViewFits, FreshIsNewest, IsShort
  <1> QED
    BY <1>3, <1>4, <1>5, <1>6 DEF ContentInv

\* It waits to connect, or it connects: nothing of it is on the server.
LEMMA WaitingKeeps ==
  ASSUME ContentInv, sse \in {"connect", "backoff"}, sse' \in {"connect", "backoff"}, retries' \in 0..MaxRetries,
         UNCHANGED <<short, gone, rec, made, loose, tasks, cut, conn, known, vers, cont, asked, tab, view, ui, acts>>
  PROVE  ContentInv'
  <1>1. ContentShape'
    BY DEF ContentInv, ContentShape
  <1>2. AskedByTab' /\ StreamOfTab' /\ OneAtATime' /\ ReadIsMade' /\ CardReached' /\ StuckHasCause'
    BY DEF ContentInv, AskedByTab, StreamOfTab, OneAtATime, Working, ReadIsMade, CardReached, StuckHasCause
  <1>3. MadeByActs'
    BY DEF ContentInv, ContentShape, MadeByActs
  <1>4. ViewFits' /\ FreshIsNewest'
    BY DEF ContentInv, ViewFits, FreshIsNewest, IsShort, Coming
  <1> QED
    BY <1>1, <1>2, <1>3, <1>4 DEF ContentInv

LEMMA RefusedKeeps ==
  ASSUME ContentInv, TokenRefused \/ Refused \/ BackOff
  PROVE  ContentInv'
  <1>1. sse # "off" /\ conn = "no"
    BY DEF TokenRefused, Refused, BackOff, ContentInv, StreamOfTab
  <1>2. retries \in 0..MaxRetries /\ MaxRetries \in Nat
    BY ConstantsFit DEF ContentInv, ContentShape
  <1>3. CASE TokenRefused
    <2>1. HandleError /\ conn' = "no"
          /\ UNCHANGED <<short, gone, rec, made, loose, tasks, cut, known, vers, cont, tab, retries, ui, acts>>
      BY <1>1, <1>3 DEF TokenRefused, server, data
    <2> QED
      BY <1>1, <2>1, HandleErrorKeeps
  <1>4. CASE BackOff
    <2>1. /\ sse = "backoff" /\ sse' = "connect"
          /\ UNCHANGED <<short, gone, rec, made, loose, tasks, cut, conn, known, vers, cont, asked, tab, view, retries, ui, acts>>
      BY <1>4 DEF BackOff, server, data
    <2> QED
      BY <1>2, <2>1, WaitingKeeps
  <1>5. CASE Refused
    <2>1. /\ sse = "connect" /\ RetryOrGiveUp
          /\ UNCHANGED <<short, gone, rec, made, loose, tasks, cut, conn, known, vers, cont, tab, ui, acts>>
      BY <1>5 DEF Refused, server, data
    <2>2. CASE retries < MaxRetries
      <3>1. sse' = "backoff" /\ retries' = retries + 1 /\ UNCHANGED <<view, asked>>
        BY <2>1, <2>2 DEF RetryOrGiveUp
      <3>2. retries' \in 0..MaxRetries
        BY <1>2, <2>2, <3>1
      <3> QED
        BY <2>1, <3>1, <3>2, WaitingKeeps
    <2>3. CASE ~(retries < MaxRetries)
      <3>1. HandleError /\ UNCHANGED retries
        BY <2>1, <2>3 DEF RetryOrGiveUp
      <3> QED
        BY <1>1, <2>1, <3>1, HandleErrorKeeps
    <2> QED
      BY <2>2, <2>3
  <1> QED
    BY <1>3, <1>4, <1>5

LEMMA OpenStreamKeeps ==
  ASSUME ContentInv, OpenStream
  PROVE  ContentInv'
  <1>1. /\ UNCHANGED <<short, gone, made, loose, tasks, cut, known, vers, cont, asked, tab, view, ui, acts>>
        /\ sse = "connect" /\ sse' = "open" /\ retries' = 0 /\ conn' = "work"
        /\ rec[tab] # "generating" /\ rec' = [rec EXCEPT ![tab] = "generating"]
    BY DEF OpenStream, Accepts, data
  <1>2. tab \in Types /\ conn = "no"
    BY <1>1 DEF ContentInv, StreamOfTab
  <1>3. rec' \in [Types -> Statuses] /\ rec'[tab] = "generating" /\ \A t \in Types : t # tab => rec'[t] = rec[t]
    BY <1>1, <1>2 DEF ContentInv, ContentShape, Statuses
  <1>4. ContentShape'
    <2>1. retries' \in 0..MaxRetries
      BY <1>1, ConstantsFit
    <2> QED
      BY <1>1, <1>3, <2>1 DEF ContentInv, ContentShape
  <1>5. AskedByTab' /\ StreamOfTab' /\ ReadIsMade' /\ CardReached'
    BY <1>1, <1>2 DEF ContentInv, AskedByTab, StreamOfTab, ReadIsMade, CardReached
  <1>6. OneAtATime'
    <2>1. \A t \in Types : loose[t] \in Nat /\ tasks[t] \in Nat
      BY DEF ContentInv, ContentShape
    <2>2. \A t \in Types : Working(t) = 0
      BY <1>2 DEF Working
    <2>3. \A t \in Types : Working(t)' = IF t = tab THEN 1 ELSE 0
      BY <1>1 DEF Working
    <2>4. loose[tab] + tasks[tab] + 0 = 0
      BY <1>1, <1>2, <2>1, <2>2 DEF ContentInv, OneAtATime
    <2> QED
      BY <1>1, <1>2, <1>3, <2>1, <2>2, <2>3, <2>4 DEF ContentInv, OneAtATime
  <1>7. MadeByActs'
    BY <1>1, <1>2, <1>3 DEF ContentInv, ContentShape, MadeByActs
  <1>8. StuckHasCause'
    BY <1>1, <1>2, <1>3 DEF ContentInv, StuckHasCause
  <1>9. ViewFits' /\ FreshIsNewest'
    BY <1>1, <1>2, <1>3 DEF ContentInv, ViewFits, FreshIsNewest, IsShort, Coming
  <1> QED
    BY <1>4, <1>5, <1>6, <1>7, <1>8, <1>9 DEF ContentInv

LEMMA DropKeeps ==
  ASSUME ContentInv, Drop
  PROVE  ContentInv'
  <1>1. /\ UNCHANGED <<short, gone, rec, made, tasks, known, vers, cont, asked, tab, ui>>
        /\ Act /\ sse = "open" /\ sse' = "backoff" /\ retries' = 1 /\ conn' = "no"
        /\ view' = [view EXCEPT !.fresh = FALSE]
        /\ loose' = IF conn = "work" THEN [loose EXCEPT ![tab] = @ + 1] ELSE loose
        /\ cut' = IF conn = "work" THEN cut \cup {tab} ELSE cut
    BY DEF Drop, data
  <1>2. tab \in Types
    BY <1>1 DEF ContentInv, StreamOfTab
  <1>3. /\ loose' \in [Types -> Nat]
        /\ \A t \in Types : loose'[t] = loose[t] + Working(t)
        /\ \A t \in Types : t \in cut \/ (tab = t /\ conn = "work") => t \in cut'
    BY <1>1, <1>2 DEF ContentInv, ContentShape, Working
  <1>4. /\ view' \in View /\ view'.vi = view.vi /\ view'.prev = view.prev
        /\ view'.streaming = view.streaming /\ ~view'.fresh
    BY <1>1 DEF ContentInv, ContentShape, View
  <1>5. acts' \in 0..MaxActs /\ retries' \in 0..MaxRetries
    BY <1>1, ActFits, ConstantsFit
  <1>6. ContentShape'
    BY <1>1, <1>3, <1>4, <1>5 DEF ContentInv, ContentShape
  <1>7. AskedByTab' /\ StreamOfTab' /\ ReadIsMade' /\ CardReached'
    BY <1>1, <1>2, <1>4 DEF ContentInv, AskedByTab, StreamOfTab, ReadIsMade, CardReached
  <1>8. OneAtATime'
    <2>1. \A t \in Types : Working(t)' = 0 /\ loose[t] \in Nat /\ tasks[t] \in Nat /\ Working(t) \in Nat
      BY <1>1 DEF Working, ContentInv, ContentShape
    <2> QED
      BY <1>1, <1>3, <2>1 DEF ContentInv, OneAtATime
  <1>9. MadeByActs' /\ StuckHasCause'
    BY <1>1, <1>3, ActFits DEF ContentInv, ContentShape, MadeByActs, StuckHasCause
  <1>10. ViewFits' /\ FreshIsNewest'
    BY <1>1, <1>4 DEF ContentInv, ViewFits, FreshIsNewest, IsShort
  <1> QED
    BY <1>6, <1>7, <1>8, <1>9, <1>10 DEF ContentInv

LEMMA HandleDoneKeeps ==
  ASSUME ContentInv, HandleDone
  PROVE  ContentInv'
  <1>1. /\ UNCHANGED <<short, gone, rec, made, loose, tasks, cut, known, vers, cont, tab, retries, ui, acts>>
        /\ sse = "open" /\ conn = "end" /\ sse' = "off" /\ conn' = "no"
        /\ view' = [view EXCEPT !.streaming = FALSE] /\ asked' = asked \cup Queries(tab)
    BY DEF HandleDone, server, data
  <1>2. tab \in Types
    BY <1>1 DEF ContentInv, StreamOfTab
  <1>3. /\ view' \in View /\ view'.vi = view.vi /\ view'.prev = view.prev /\ view'.pending = view.pending
        /\ ~view'.streaming /\ view'.fresh = view.fresh
    BY <1>1 DEF ContentInv, ContentShape, View
  <1>4. ContentShape'
    BY <1>1, <1>3 DEF ContentInv, ContentShape
  <1>5. AskedByTab' /\ StreamOfTab' /\ ReadIsMade' /\ CardReached' /\ StuckHasCause'
    BY <1>1, <1>2, <1>3 DEF ContentInv, AskedByTab, Queries, StreamOfTab, ReadIsMade, CardReached, StuckHasCause
  <1>6. OneAtATime' /\ MadeByActs'
    BY <1>1 DEF ContentInv, ContentShape, OneAtATime, Working, MadeByActs
  <1>7. ViewFits' /\ FreshIsNewest'
    BY <1>1, <1>3 DEF ContentInv, ViewFits, FreshIsNewest, IsShort, Coming
  <1> QED
    BY <1>4, <1>5, <1>6, <1>7 DEF ContentInv

LEMMA HandleServerErrorKeeps ==
  ASSUME ContentInv, HandleServerError
  PROVE  ContentInv'
  <1>1. /\ HandleError /\ sse # "off" /\ conn # "work" /\ conn' = "no"
        /\ UNCHANGED <<short, gone, rec, made, loose, tasks, cut, known, vers, cont, tab, retries, ui, acts>>
    BY DEF HandleServerError, server, data
  <1> QED
    BY <1>1, HandleErrorKeeps

-----------------------------------------------------------------------------
(* A generation ends *)

\* Who works at a kind works alone, and its record waits for the result.
LEMMA OneWorks ==
  ASSUME ContentInv, NEW t \in Types
  PROVE  /\ loose[t] \in Nat /\ tasks[t] \in Nat /\ Working(t) \in {0, 1}
         /\ loose[t] + tasks[t] + Working(t) <= 1
         /\ loose[t] > 0 \/ tasks[t] > 0 \/ Working(t) = 1 => rec[t] = "generating"
         /\ Working(t) = 1 <=> tab = t /\ conn = "work"
  <1>1. loose[t] \in Nat /\ tasks[t] \in Nat
    BY DEF ContentInv, ContentShape
  <1>2. Working(t) \in {0, 1} /\ (Working(t) = 1 <=> tab = t /\ conn = "work")
    BY DEF Working
  <1>3. /\ loose[t] + tasks[t] + Working(t) <= 1
        /\ loose[t] + tasks[t] + Working(t) > 0 => rec[t] = "generating"
    BY DEF ContentInv, OneAtATime
  <1> QED
    BY <1>1, <1>2, <1>3

LEMMA Completed ==
  ASSUME ContentInv, NEW t \in Types, Complete(t)
  PROVE  /\ rec' \in [Types -> Statuses] /\ rec'[t] = "completed" /\ \A s \in Types : s # t => rec'[s] = rec[s]
         /\ made' \in [Types -> Nat] /\ made'[t] = made[t] + 1 /\ \A s \in Types : s # t => made'[s] = made[s]
         /\ made[t] \in Nat
  BY DEF ContentInv, ContentShape, Complete, Statuses

\* What all ends of a generation leave as it is.
LEMMA EndKeeps ==
  ASSUME ContentInv, UNCHANGED <<short, gone, cut, known, vers, cont, asked, tab, view, sse, retries, ui, acts>>,
         rec' \in [Types -> Statuses], made' \in [Types -> Nat], loose' \in [Types -> Nat], tasks' \in [Types -> Nat],
         conn' \in {"no", "work", "end", "error"}, conn' # "no" => conn # "no",
         \A t \in Types : made'[t] >= made[t]
  PROVE  ContentShape' /\ AskedByTab' /\ StreamOfTab' /\ ReadIsMade' /\ CardReached' /\ ViewFits'
  <1>1. ContentShape'
    BY DEF ContentInv, ContentShape
  <1>2. AskedByTab' /\ StreamOfTab' /\ CardReached'
    BY DEF ContentInv, AskedByTab, StreamOfTab, CardReached
  <1>3. ReadIsMade'
    BY DEF ContentInv, ContentShape, ReadIsMade
  <1>4. ViewFits'
    BY DEF ContentInv, ViewFits, IsShort
  <1> QED
    BY <1>1, <1>2, <1>3, <1>4

LEMMA FinishKeeps ==
  ASSUME ContentInv, Finish
  PROVE  ContentInv'
  <1>1. /\ UNCHANGED <<short, gone, loose, tasks, cut, known, vers, cont, asked, tab, view, sse, retries, ui, acts>>
        /\ conn = "work" /\ conn' = "end" /\ Complete(tab)
    BY DEF Finish, data
  <1>2. tab \in Types /\ sse = "open"
    BY <1>1 DEF ContentInv, StreamOfTab
  <1>3. /\ rec' \in [Types -> Statuses] /\ rec'[tab] = "completed" /\ \A s \in Types : s # tab => rec'[s] = rec[s]
        /\ made' \in [Types -> Nat] /\ made'[tab] = made[tab] + 1 /\ \A s \in Types : s # tab => made'[s] = made[s]
        /\ made[tab] \in Nat
    BY <1>1, <1>2, Completed
  <1>4. rec[tab] = "generating" /\ loose[tab] = 0 /\ tasks[tab] = 0
    BY <1>1, <1>2, OneWorks
  <1>5. ContentShape' /\ AskedByTab' /\ StreamOfTab' /\ ReadIsMade' /\ CardReached' /\ ViewFits'
    <2>1. \A t \in Types : made'[t] >= made[t]
      BY <1>3 DEF ContentInv, ContentShape
    <2>2. loose' \in [Types -> Nat] /\ tasks' \in [Types -> Nat]
      BY <1>1 DEF ContentInv, ContentShape
    <2> QED
      BY <1>1, <1>3, <2>1, <2>2, EndKeeps
  <1>6. OneAtATime'
    <2>1. \A t \in Types : Working(t)' = 0
      BY <1>1 DEF Working
    <2>2. \A t \in Types : t # tab => Working(t) = 0
      BY DEF Working
    <2> QED
      BY <1>1, <1>3, <1>4, <2>1, <2>2 DEF ContentInv, OneAtATime
  <1>7. MadeByActs'
    BY <1>1, <1>2, <1>3, <1>4 DEF ContentInv, MadeByActs, ContentShape
  <1>8. StuckHasCause'
    BY <1>1, <1>3 DEF ContentInv, StuckHasCause
  <1>9. FreshIsNewest'
    BY <1>1, <1>2, <1>3, <1>4 DEF ContentInv, FreshIsNewest, IsShort, Coming
  <1> QED
    BY <1>5, <1>6, <1>7, <1>8, <1>9 DEF ContentInv

LEMMA FailKeeps ==
  ASSUME ContentInv, Fail
  PROVE  ContentInv'
  <1>1. /\ UNCHANGED <<short, gone, made, loose, cut, known, vers, cont, asked, tab, view, sse, retries, ui, acts>>
        /\ conn = "work" /\ conn' = "error" /\ FallBack(tab)
    BY DEF Fail, data
  <1>2. tab \in Types /\ sse = "open"
    BY <1>1 DEF ContentInv, StreamOfTab
  <1>3. rec[tab] = "generating" /\ loose[tab] = 0 /\ tasks[tab] = 0
    BY <1>1, <1>2, OneWorks
  <1>4. \A t \in Types : Working(t)' = 0 /\ (t # tab => Working(t) = 0)
    BY <1>1 DEF Working
  <1>5. made' \in [Types -> Nat] /\ loose' \in [Types -> Nat] /\ \A t \in Types : made'[t] >= made[t]
    BY <1>1 DEF ContentInv, ContentShape
  <1>6. CASE tasks' = [tasks EXCEPT ![tab] = @ + 1] /\ UNCHANGED rec
    <2>1. /\ tasks' \in [Types -> Nat] /\ tasks'[tab] = 1 /\ \A t \in Types : t # tab => tasks'[t] = tasks[t]
          /\ rec' \in [Types -> Statuses]
      BY <1>2, <1>3, <1>6 DEF ContentInv, ContentShape
    <2>2. ContentShape' /\ AskedByTab' /\ StreamOfTab' /\ ReadIsMade' /\ CardReached' /\ ViewFits'
      BY <1>1, <1>5, <2>1, EndKeeps
    <2>3. OneAtATime'
      BY <1>1, <1>3, <1>4, <1>6, <2>1 DEF ContentInv, OneAtATime
    <2>4. MadeByActs'
      BY <1>1, <1>6 DEF ContentInv, MadeByActs
    <2>5. StuckHasCause'
      BY <1>1, <1>6, <2>1 DEF ContentInv, StuckHasCause
    <2>6. FreshIsNewest'
      BY <1>1, <1>2, <1>6 DEF ContentInv, FreshIsNewest, IsShort, Coming
    <2> QED
      BY <2>2, <2>3, <2>4, <2>5, <2>6 DEF ContentInv
  <1>7. CASE rec' = [rec EXCEPT ![tab] = "failed"] /\ UNCHANGED tasks
    <2>1. /\ rec' \in [Types -> Statuses] /\ rec'[tab] = "failed" /\ \A t \in Types : t # tab => rec'[t] = rec[t]
          /\ tasks' \in [Types -> Nat]
      BY <1>2, <1>7 DEF ContentInv, ContentShape, Statuses
    <2>2. ContentShape' /\ AskedByTab' /\ StreamOfTab' /\ ReadIsMade' /\ CardReached' /\ ViewFits'
      BY <1>1, <1>5, <2>1, EndKeeps
    <2>3. OneAtATime'
      BY <1>1, <1>3, <1>4, <1>7, <2>1 DEF ContentInv, OneAtATime
    <2>4. MadeByActs'
      BY <1>1, <1>2, <1>3, <2>1 DEF ContentInv, MadeByActs, ContentShape
    <2>5. StuckHasCause'
      BY <1>1, <1>7, <2>1 DEF ContentInv, StuckHasCause
    <2>6. FreshIsNewest'
      BY <1>1, <1>2, <1>7, <2>1 DEF ContentInv, FreshIsNewest, IsShort, Coming
    <2> QED
      BY <2>2, <2>3, <2>4, <2>5, <2>6 DEF ContentInv
  <1> QED
    BY <1>1, <1>6, <1>7 DEF FallBack

\* A worker of kind k, which is no stream, ends, and the record may have been completed or failed.
LEMMA WorkerEnds ==
  ASSUME ContentInv, NEW k \in Types, loose[k] > 0 \/ tasks[k] > 0,
         UNCHANGED <<short, gone, cut, conn, known, vers, cont, asked, tab, view, sse, retries, ui, acts>>,
         loose' \in [Types -> Nat], tasks' \in [Types -> Nat], rec' \in [Types -> Statuses], made' \in [Types -> Nat],
         loose'[k] = 0, tasks'[k] = 0,
         \A t \in Types : t # k => loose'[t] = loose[t] /\ tasks'[t] = tasks[t] /\ rec'[t] = rec[t] /\ made'[t] = made[t],
         \/ rec'[k] = rec[k] /\ made'[k] = made[k] /\ k \in cut
         \/ rec'[k] = "completed" /\ made'[k] = made[k] + 1
         \/ rec'[k] = "failed" /\ made'[k] = made[k]
  PROVE  ContentInv'
  <1>1. rec[k] = "generating" /\ ~(tab = k /\ conn = "work") /\ made[k] \in Nat
    BY OneWorks DEF ContentInv, ContentShape
  <1>2. ContentShape' /\ AskedByTab' /\ StreamOfTab' /\ ReadIsMade' /\ CardReached' /\ ViewFits'
    <2>1. \A t \in Types : made'[t] >= made[t]
      BY <1>1 DEF ContentInv, ContentShape
    <2>2. conn' \in {"no", "work", "end", "error"}
      BY DEF ContentInv, ContentShape
    <2> QED
      BY <2>1, <2>2, EndKeeps
  <1>3. OneAtATime'
    <2>1. \A t \in Types : Working(t)' = Working(t)
      BY DEF Working
    <2>2. Working(k) = 0
      BY <1>1 DEF Working
    <2> QED
      BY <2>1, <2>2 DEF ContentInv, OneAtATime
  <1>4. MadeByActs'
    BY <1>1 DEF ContentInv, MadeByActs, ContentShape
  <1>5. StuckHasCause'
    BY <1>1 DEF ContentInv, StuckHasCause
  <1>6. FreshIsNewest'
    <2>1. CASE tab # k
      <3>1. tab \in Types => loose'[tab] = loose[tab] /\ tasks'[tab] = tasks[tab] /\ rec'[tab] = rec[tab] /\ made'[tab] = made[tab]
        BY <2>1
      <3> QED
        BY <2>1, <3>1 DEF ContentInv, FreshIsNewest, IsShort, Coming
    <2>2. CASE tab = k
      <3>1. loose[k] + tasks[k] > 0
        BY DEF ContentInv, ContentShape
      <3>2. view.fresh => /\ ~IsShort /\ view.vi = vers[k] - 1 /\ made[k] = vers[k] /\ view.pending
                          /\ sse \notin {"connect", "backoff"}
        BY <1>1, <2>2, <3>1 DEF ContentInv, FreshIsNewest, Coming
      <3>3. view.fresh => ~IsShort' /\ ~Coming'
        BY <1>1, <2>2, <3>2 DEF IsShort, Coming
      <3> QED
        BY <1>1, <2>2, <3>2, <3>3 DEF FreshIsNewest
    <2> QED
      BY <2>1, <2>2
  <1> QED
    BY <1>2, <1>3, <1>4, <1>5, <1>6 DEF ContentInv

LEMMA EndLooseKeeps ==
  ASSUME ContentInv, NEW k \in Types, EndLoose(k)
  PROVE  ContentInv'
  <1>1. /\ UNCHANGED <<short, gone, conn, tasks, cut, known, vers, cont, asked, tab, view, sse, retries, ui, acts>>
        /\ loose[k] > 0 /\ loose' = [loose EXCEPT ![k] = @ - 1]
        /\ UNCHANGED <<rec, made>> \/ Complete(k)
    BY DEF EndLoose, data
  <1>2. /\ loose[k] = 1 /\ tasks[k] = 0 /\ ~(tab = k /\ conn = "work") /\ rec[k] = "generating"
    BY <1>1, OneWorks
  <1>3. k \in cut
    BY <1>2 DEF ContentInv, StuckHasCause
  <1>4. /\ loose' \in [Types -> Nat] /\ loose'[k] = 0 /\ \A t \in Types : t # k => loose'[t] = loose[t]
        /\ tasks' \in [Types -> Nat] /\ tasks'[k] = 0 /\ \A t \in Types : tasks'[t] = tasks[t]
    BY <1>1, <1>2 DEF ContentInv, ContentShape
  <1>5. CASE UNCHANGED <<rec, made>>
    <2>1. rec' \in [Types -> Statuses] /\ made' \in [Types -> Nat]
      BY <1>5 DEF ContentInv, ContentShape
    <2> QED
      BY <1>1, <1>3, <1>4, <1>5, <2>1, WorkerEnds
  <1>6. CASE Complete(k)
    <2>1. /\ rec' \in [Types -> Statuses] /\ rec'[k] = "completed" /\ \A s \in Types : s # k => rec'[s] = rec[s]
          /\ made' \in [Types -> Nat] /\ made'[k] = made[k] + 1 /\ \A s \in Types : s # k => made'[s] = made[s]
      BY <1>6, Completed
    <2> QED
      BY <1>1, <1>4, <2>1, WorkerEnds
  <1> QED
    BY <1>1, <1>5, <1>6

LEMMA EndTaskKeeps ==
  ASSUME ContentInv, NEW k \in Types, EndTask(k)
  PROVE  ContentInv'
  <1>1. /\ UNCHANGED <<short, gone, conn, loose, cut, known, vers, cont, asked, tab, view, sse, retries, ui, acts>>
        /\ tasks[k] > 0 /\ tasks' = [tasks EXCEPT ![k] = @ - 1]
        /\ Complete(k) \/ (rec' = [rec EXCEPT ![k] = "failed"] /\ UNCHANGED made)
    BY DEF EndTask, data
  <1>2. tasks[k] = 1 /\ loose[k] = 0
    BY <1>1, OneWorks
  <1>3. /\ tasks' \in [Types -> Nat] /\ tasks'[k] = 0 /\ \A t \in Types : t # k => tasks'[t] = tasks[t]
        /\ loose' \in [Types -> Nat] /\ loose'[k] = 0 /\ \A t \in Types : loose'[t] = loose[t]
    BY <1>1, <1>2 DEF ContentInv, ContentShape
  <1>4. CASE Complete(k)
    <2>1. /\ rec' \in [Types -> Statuses] /\ rec'[k] = "completed" /\ \A s \in Types : s # k => rec'[s] = rec[s]
          /\ made' \in [Types -> Nat] /\ made'[k] = made[k] + 1 /\ \A s \in Types : s # k => made'[s] = made[s]
      BY <1>4, Completed
    <2> QED
      BY <1>1, <1>3, <2>1, WorkerEnds
  <1>5. CASE rec' = [rec EXCEPT ![k] = "failed"] /\ UNCHANGED made
    <2>1. /\ rec' \in [Types -> Statuses] /\ rec'[k] = "failed" /\ \A s \in Types : s # k => rec'[s] = rec[s]
          /\ made' \in [Types -> Nat] /\ \A s \in Types : made'[s] = made[s]
      BY <1>5 DEF ContentInv, ContentShape, Statuses
    <2> QED
      BY <1>1, <1>3, <2>1, WorkerEnds
  <1> QED
    BY <1>1, <1>4, <1>5

LEMMA DeleteFileKeeps ==
  ASSUME ContentInv, DeleteFile
  PROVE  ContentInv'
  <1>1. /\ UNCHANGED <<short, rec, made, conn, loose, tasks, cut, known, vers, cont, asked, tab, view, sse, retries, ui>>
        /\ gone' = TRUE /\ Act
    BY DEF DeleteFile, data
  <1>2. ContentShape' /\ AskedByTab'
    BY <1>1, ActFits DEF ContentInv, ContentShape, AskedByTab
  <1>3. StreamOfTab' /\ OneAtATime' /\ ReadIsMade' /\ CardReached' /\ StuckHasCause'
    BY <1>1 DEF ContentInv, StreamOfTab, OneAtATime, Working, ReadIsMade, CardReached, StuckHasCause
  <1>4. MadeByActs'
    BY <1>1, ActFits DEF ContentInv, ContentShape, MadeByActs
  <1>5. ViewFits' /\ FreshIsNewest'
    BY <1>1 DEF ContentInv, ViewFits, FreshIsNewest, IsShort, Coming
  <1> QED
    BY <1>2, <1>3, <1>4, <1>5 DEF ContentInv

-----------------------------------------------------------------------------
(* Cards, nodes and concepts *)

\* The version on the screen is one that was made.
LEMMA VersionsExist ==
  ASSUME ContentInv, tab \in Types
  PROVE  /\ made[tab] \in Nat /\ made[tab] <= Len(Cards)
         /\ Shown \in 0..Len(Cards)
         /\ Shown # 0 => Cards[Shown] \in Nat
  <1>1. /\ made[tab] \in Nat /\ vers[tab] \in Nat /\ cont[tab] \in Nat /\ acts \in 0..MaxActs
        /\ view.vi \in Int /\ view.old \in BOOLEAN
    BY DEF ContentInv, ContentShape, View
  <1>2. made[tab] <= 2 + acts
    BY <1>1 DEF ContentInv, MadeByActs
  <1>3. made[tab] <= Len(Cards)
    BY <1>1, <1>2, ConstantsFit
  <1>4. vers[tab] <= made[tab] /\ cont[tab] <= made[tab] /\ view.vi >= -1
    BY DEF ContentInv, ReadIsMade, ViewFits
  <1>5. Shown \in 0..Len(Cards)
    <2>1. Len(Cards) \in Nat /\ cont[tab] \in 0..Len(Cards) /\ 0 \in 0..Len(Cards)
      BY <1>1, <1>3, <1>4, ConstantsFit
    <2>2. IsViewingOldVersion => view.vi + 1 \in 0..Len(Cards)
      BY <1>1, <1>3, <1>4, <2>1 DEF IsViewingOldVersion
    <2> QED
      BY <2>1, <2>2 DEF Shown
  <1> QED
    BY <1>1, <1>3, <1>5, ConstantsFit

\* An act that changes what is selected, and the card unless it exists.
LEMMA UiKeeps ==
  ASSUME ContentInv, ui' \in Ui, acts' \in 0..MaxActs, acts' >= acts,
         UNCHANGED <<short, gone, rec, made, loose, tasks, cut, conn, known, vers, cont, asked, tab, view, sse, retries>>,
         \/ ui'.at <= ui.at /\ ui'.deck = ui.deck
         \/ ui'.deck \in DOMAIN Cards /\ ui'.at < Cards[ui'.deck]
  PROVE  ContentInv'
  <1>1. ContentShape' /\ AskedByTab'
    BY DEF ContentInv, ContentShape, AskedByTab
  <1>2. StreamOfTab' /\ OneAtATime' /\ ReadIsMade' /\ StuckHasCause'
    BY DEF ContentInv, StreamOfTab, OneAtATime, Working, ReadIsMade, StuckHasCause
  <1>3. CardReached'
    <2>1. CASE ui'.at <= ui.at /\ ui'.deck = ui.deck
      <3>1. ui.at \in Nat /\ ui'.at \in Nat
        BY DEF ContentInv, ContentShape, Ui
      <3>2. ui.deck \in DOMAIN Cards => Cards[ui.deck] \in Nat
        BY ConstantsFit
      <3> QED
        BY <2>1, <3>1, <3>2 DEF ContentInv, CardReached
    <2>2. CASE ui'.deck \in DOMAIN Cards /\ ui'.at < Cards[ui'.deck]
      BY <2>2 DEF CardReached
    <2> QED
      BY <2>1, <2>2
  <1>4. MadeByActs'
    BY DEF ContentInv, ContentShape, MadeByActs
  <1>5. ViewFits' /\ FreshIsNewest'
    BY DEF ContentInv, ViewFits, FreshIsNewest, IsShort, Coming
  <1> QED
    BY <1>1, <1>2, <1>3, <1>4, <1>5 DEF ContentInv

LEMMA TouchKeeps ==
  ASSUME ContentInv, NEW u \in Ui, Touch(u), u.at = ui.at, u.deck = ui.deck
  PROVE  ContentInv'
  <1>1. /\ ui' = u /\ Act
        /\ UNCHANGED <<short, gone, rec, made, loose, tasks, cut, conn, known, vers, cont, asked, tab, view, sse, retries>>
    BY DEF Touch, server, data
  <1>2. acts' \in 0..MaxActs /\ acts' >= acts
    BY <1>1, ActFits
  <1>3. ui'.at <= ui.at
    BY <1>1 DEF ContentInv, ContentShape, Ui
  <1> QED
    BY <1>1, <1>2, <1>3, UiKeeps

LEMMA GoToKeeps ==
  ASSUME ContentInv, GoToPrev \/ GoToNext
  PROVE  ContentInv'
  <1>1. ui \in Ui /\ ui.at \in Nat /\ ui.deck \in Nat
    BY DEF ContentInv, ContentShape, Ui
  <1>2. ASSUME NEW i \in Nat, NEW d \in Nat, GoTo(i, d)
        PROVE  /\ ui' \in Ui /\ ui'.at = i /\ ui'.deck = d /\ acts' \in 0..MaxActs /\ acts' >= acts
               /\ UNCHANGED <<short, gone, rec, made, loose, tasks, cut, conn, known, vers, cont, asked, tab, view, sse, retries>>
    <2>1. ui' = [ui EXCEPT !.at = i, !.flipped = FALSE, !.deck = d] /\ Act
      BY <1>2 DEF GoTo, Touch
    <2>2. ui' \in Ui /\ ui'.at = i /\ ui'.deck = d
      BY <1>1, <2>1 DEF Ui
    <2> QED
      BY <1>2, <2>1, <2>2, ActFits DEF GoTo, Touch, server, data
  <1>3. CASE GoToPrev
    <2>1. ui.at - 1 \in Nat /\ GoTo(ui.at - 1, ui.deck)
      BY <1>1, <1>3 DEF GoToPrev
    <2>2. ui'.at <= ui.at /\ ui'.deck = ui.deck
      BY <1>1, <1>2, <2>1
    <2> QED
      BY <1>1, <1>2, <2>1, <2>2, UiKeeps
  <1>4. CASE GoToNext
    <2>1. tab \in Types /\ ui.at < Total - 1 /\ GoTo(ui.at + 1, Shown)
      BY <1>4 DEF GoToNext, OnTab, Types
    <2>2. Shown \in 0..Len(Cards) /\ (Shown # 0 => Cards[Shown] \in Nat) /\ Len(Cards) \in Nat
      BY <2>1, VersionsExist, ConstantsFit
    <2>3. Shown # 0 /\ ui.at + 1 < Cards[Shown]
      BY <1>1, <2>1, <2>2 DEF Total
    <2>4. Shown \in Nat /\ ui.at + 1 \in Nat /\ Shown \in DOMAIN Cards
      BY <1>1, <2>2, <2>3, ConstantsFit
    <2>5. ui'.deck \in DOMAIN Cards /\ ui'.at < Cards[ui'.deck]
      BY <1>2, <2>1, <2>3, <2>4
    <2> QED
      BY <1>2, <2>1, <2>4, <2>5, UiKeeps
  <1> QED
    BY <1>3, <1>4

LEMMA TouchingKeeps ==
  ASSUME ContentInv, Touching
  PROVE  ContentInv'
  <1>0. ui \in Ui /\ 0 \in AnyNode
    BY DEF ContentInv, ContentShape, AnyNode
  <1>1. CASE FlipCard
    <2>1. Touch([ui EXCEPT !.flipped = ~@])
      BY <1>1 DEF FlipCard
    <2>2. /\ [ui EXCEPT !.flipped = ~@] \in Ui
          /\ [ui EXCEPT !.flipped = ~@].at = ui.at /\ [ui EXCEPT !.flipped = ~@].deck = ui.deck
      BY <1>0 DEF Ui
    <2> QED
      BY <2>1, <2>2, TouchKeeps
  <1>2. ASSUME NEW n \in UNION {Nodes(Maps[i]) : i \in DOMAIN Maps}, ToggleNode(n) \/ ClickNode(n)
        PROVE  ContentInv'
    <2>0. n \in AnyNode
      BY DEF AnyNode
    <2>1. CASE ToggleNode(n)
      <3> DEFINE c == IF n \in ui.collapsed THEN ui.collapsed \ {n} ELSE ui.collapsed \cup {n}
                 u == [ui EXCEPT !.collapsed = c]
      <3>1. Touch(u)
        BY <2>1 DEF ToggleNode
      <3>2. c \in SUBSET AnyNode
        BY <1>0, <2>0 DEF Ui
      <3> HIDE DEF c
      <3>3. u \in Ui /\ u.at = ui.at /\ u.deck = ui.deck
        BY <1>0, <3>2 DEF Ui
      <3> QED
        BY <3>1, <3>3, TouchKeeps
    <2>2. CASE ClickNode(n)
      <3> DEFINE u == [ui EXCEPT !.selected = n, !.told = "load"]
      <3>1. Touch(u)
        BY <2>2 DEF ClickNode
      <3>3. u \in Ui /\ u.at = ui.at /\ u.deck = ui.deck
        BY <1>0, <2>0 DEF Ui
      <3> QED
        BY <3>1, <3>3, TouchKeeps
    <2> QED
      BY <1>2, <2>1, <2>2
  <1>3. CASE Explained
    <2>1. PICK told \in {"ok", "failed", "limit"} : ui' = [ui EXCEPT !.told = told]
      BY <1>3 DEF Explained
    <2>2. ui' \in Ui /\ ui'.at = ui.at /\ ui'.deck = ui.deck
      BY <1>0, <2>1 DEF Ui
    <2>3. ui'.at <= ui.at /\ acts' \in 0..MaxActs /\ acts' >= acts
      BY <1>0, <1>3, <2>2 DEF Explained, Ui, ContentInv, ContentShape
    <2>4. UNCHANGED <<short, gone, rec, made, loose, tasks, cut, conn, known, vers, cont, asked, tab, view, sse, retries>>
      BY <1>3 DEF Explained, server, data
    <2> QED
      BY <2>2, <2>3, <2>4, UiKeeps
  <1>4. CASE RetryExplanation
    <2>1. Touch([ui EXCEPT !.told = "load"])
      BY <1>4 DEF RetryExplanation
    <2>2. /\ [ui EXCEPT !.told = "load"] \in Ui
          /\ [ui EXCEPT !.told = "load"].at = ui.at /\ [ui EXCEPT !.told = "load"].deck = ui.deck
      BY <1>0 DEF Ui
    <2> QED
      BY <2>1, <2>2, TouchKeeps
  <1>5. CASE ClosePopup
    <2>1. Touch([ui EXCEPT !.selected = 0])
      BY <1>5 DEF ClosePopup
    <2>2. /\ [ui EXCEPT !.selected = 0] \in Ui
          /\ [ui EXCEPT !.selected = 0].at = ui.at /\ [ui EXCEPT !.selected = 0].deck = ui.deck
      BY <1>0 DEF Ui
    <2> QED
      BY <2>1, <2>2, TouchKeeps
  <1>6. ASSUME NEW c \in Concepts, ToggleConcept(c) \/ RevealConcept(c)
        PROVE  ContentInv'
    <2>1. CASE ToggleConcept(c)
      <3> DEFINE s == IF c \in ui.open THEN ui.open \ {c} ELSE ui.open \cup {c}
                 u == [ui EXCEPT !.open = s]
      <3>1. Touch(u)
        BY <2>1 DEF ToggleConcept
      <3>2. s \in SUBSET Concepts
        BY <1>0 DEF Ui
      <3> HIDE DEF s
      <3>3. u \in Ui /\ u.at = ui.at /\ u.deck = ui.deck
        BY <1>0, <3>2 DEF Ui
      <3> QED
        BY <3>1, <3>3, TouchKeeps
    <2>2. CASE RevealConcept(c)
      <3> DEFINE s == IF c \in ui.revealed THEN ui.revealed \ {c} ELSE ui.revealed \cup {c}
                 u == [ui EXCEPT !.revealed = s]
      <3>1. Touch(u)
        BY <2>2 DEF RevealConcept
      <3>2. s \in SUBSET Concepts
        BY <1>0 DEF Ui
      <3> HIDE DEF s
      <3>3. u \in Ui /\ u.at = ui.at /\ u.deck = ui.deck
        BY <1>0, <3>2 DEF Ui
      <3> QED
        BY <3>1, <3>3, TouchKeeps
    <2> QED
      BY <1>6, <2>1, <2>2
  <1>7. CASE ToggleHideMode
    <2> DEFINE u == [ui EXCEPT !.hide = ~@, !.revealed = {}]
    <2>1. Touch(u)
      BY <1>7 DEF ToggleHideMode
    <2>2. u \in Ui /\ u.at = ui.at /\ u.deck = ui.deck
      BY <1>0 DEF Ui
    <2> QED
      BY <2>1, <2>2, TouchKeeps
  <1> QED
    BY <1>1, <1>2, <1>3, <1>4, <1>5, <1>6, <1>7, GoToKeeps DEF Touching

-----------------------------------------------------------------------------
LEMMA ContentStarts == ContentInit => ContentInv
  <1> SUFFICES ASSUME ContentInit PROVE ContentInv
    OBVIOUS
  <1>1. /\ short \in BOOLEAN /\ gone = FALSE /\ conn = "no" /\ asked = {} /\ tab = "none"
        /\ sse = "off" /\ retries = 0 /\ acts = 0 /\ view = Unopened /\ ui = Untouched
        /\ loose = [t \in Types |-> 0] /\ tasks = [t \in Types |-> 0]
        /\ known = [t \in Types |-> "unknown"] /\ vers = [t \in Types |-> 0] /\ cont = [t \in Types |-> 0]
    BY DEF ContentInit
  <1>2. PICK before \in SUBSET Existing :
          /\ rec = [t \in Types |-> IF t \in before THEN "completed" ELSE "not_generated"]
          /\ made = [t \in Types |-> IF t \in before THEN 2 ELSE 0]
    BY DEF ContentInit
  <1>3. ContentShape
    <2>1. /\ rec \in [Types -> Statuses] /\ known \in [Types -> Statuses \cup {"unknown"}] /\ made \in [Types -> Nat]
      BY <1>1, <1>2 DEF Statuses
    <2>2. /\ vers \in [Types -> Nat] /\ cont \in [Types -> Nat] /\ loose \in [Types -> Nat] /\ tasks \in [Types -> Nat]
          /\ view \in View /\ ui \in Ui /\ retries \in 0..MaxRetries /\ acts \in 0..MaxActs
      BY <1>1, FreshRecords, ConstantsFit
    <2> QED
      BY <1>1, <2>1, <2>2 DEF ContentShape
  <1>4. AskedByTab /\ StreamOfTab /\ ReadIsMade /\ CardReached /\ StuckHasCause
    BY <1>1, <1>2, FreshRecords DEF AskedByTab, StreamOfTab, ReadIsMade, CardReached, StuckHasCause
  <1>5. OneAtATime /\ MadeByActs
    BY <1>1, <1>2 DEF OneAtATime, Working, MadeByActs
  <1>6. ViewFits /\ FreshIsNewest
    BY <1>1, FreshRecords DEF ViewFits, FreshIsNewest, Types
  <1> QED
    BY <1>3, <1>4, <1>5, <1>6 DEF ContentInv

\* Every action of the viewer of a document keeps its invariant.
LEMMA ContentSteps ==
  ASSUME ContentInv, ContentNext \/ OpenViewer \/ CloseViewer
  PROVE  ContentInv'
  <1>1. CASE Reading
    BY <1>1, PollStatusKeeps, ShowStatusKeeps, MountsKeep, ShowContentKeeps, ShowVersionsKeeps, ShowOldVersionKeeps DEF Reading
  <1>2. CASE Streaming
    BY <1>2, OpenStreamKeeps, RefusedKeeps, DropKeeps, HandleDoneKeeps, HandleServerErrorKeeps, CancelKeeps DEF Streaming
  <1>3. CASE Generation
    BY <1>3, FinishKeeps, FailKeeps, DeleteFileKeeps, EndLooseKeeps, EndTaskKeeps DEF Generation
  <1> QED
    BY <1>1, <1>2, <1>3, StartKeeps, TouchingKeeps, LookAtKeeps, MountsKeep DEF ContentNext

LEMMA ContentRests ==
  ASSUME ContentInv, UNCHANGED contentVars
  PROVE  ContentInv'
  <1>1. UNCHANGED <<short, gone, rec, made, loose, tasks, cut, conn, known, vers, cont, asked, tab, view, sse, retries, ui, acts>>
    BY DEF contentVars, server, data
  <1> QED
    <2>1. ContentShape' /\ AskedByTab' /\ StreamOfTab' /\ OneAtATime' /\ MadeByActs' /\ ReadIsMade' /\ CardReached' /\ StuckHasCause'
      BY <1>1 DEF ContentInv, ContentShape, AskedByTab, StreamOfTab, OneAtATime, Working, MadeByActs, ReadIsMade, CardReached,
         StuckHasCause
    <2>2. ViewFits' /\ FreshIsNewest'
      BY <1>1 DEF ContentInv, ViewFits, FreshIsNewest, IsShort, Coming
    <2> QED
      BY <2>1, <2>2 DEF ContentInv

-----------------------------------------------------------------------------
(* The tutor *)

Message == [role : {"user", "assistant"}, of : 0..MaxQuestions, text : Seq(0..MaxQuestions)]

Whole(msgs, except) ==
    \A i \in DOMAIN msgs :
        msgs[i].role = "assistant" /\ msgs[i].of \notin except => msgs[i].text = Answer(msgs[i].of)

ChatStore == [msgs : Seq(Message), streaming : BOOLEAN, got : Seq(0..MaxQuestions)]

Tutor == [mounted : BOOLEAN, sync : BOOLEAN, reading : BOOLEAN, url : 0..MaxQuestions, renew : {"no", "post", "read"}]

\* A history is read or it is not, and it is whole.
History(h0) == h0 = <<>> \/ \E h \in Seq(Message) : h0 = <<h>> /\ Whole(h, {})

ChatShape ==
    /\ talk \in Seq(Message) /\ chat \in ChatStore /\ tutor \in Tutor
    /\ tutor.url <= questions
    /\ line \in {"off", "connect", "open", "backoff"} /\ tries \in 0..ChatRetries
    /\ sent \in 0..2 /\ current \in BOOLEAN /\ spoiled \subseteq 0..MaxQuestions
    /\ questions \in 0..MaxQuestions /\ newChats \in 0..MaxNewChats /\ breaks \in 0..MaxBreaks

LineOfTab ==
    /\ tutor.mounted <=> tab = "tutor"
    /\ line # "off" => tutor.mounted
    /\ line # "open" => sent = 0

\* Of an answer that is not spoiled, what was sent is on the screen.
GotIsSent ==
    line # "off" /\ tutor.url \notin spoiled => Len(chat.got) = sent /\ \A i \in 1..sent : chat.got[i] = tutor.url

HistoryIsWhole == Whole(talk, {}) /\ History(past)

ChatInv == ChatShape /\ LineOfTab /\ GotIsSent /\ HistoryIsWhole /\ AnswerIsWhole /\ ComposerUnlocks


LEMMA ChatConstants ==
  /\ MaxQuestions \in Nat /\ MaxNewChats \in Nat /\ MaxBreaks \in Nat /\ ChatRetries \in Nat /\ ChatRetries >= 1
  <1>1. {MaxQuestions, MaxNewChats, MaxBreaks} \subseteq Nat /\ ChatRetries \in Nat \ {0}
    BY TutorAssumption
  <1>2. MaxQuestions \in {MaxQuestions, MaxNewChats, MaxBreaks} /\ MaxNewChats \in {MaxQuestions, MaxNewChats, MaxBreaks}
        /\ MaxBreaks \in {MaxQuestions, MaxNewChats, MaxBreaks}
    OBVIOUS
  <1> QED
    BY <1>1, <1>2

LEMMA AnswersAndQuestions ==
  ASSUME NEW q \in 0..MaxQuestions
  PROVE  /\ Question(q) \in Message /\ Question(q).role = "user"
         /\ Answer(q) \in Seq(0..MaxQuestions) /\ Len(Answer(q)) = 2 /\ Answer(q)[1] = q /\ Answer(q)[2] = q
         /\ \A t \in Seq(0..MaxQuestions) :
              Reply(q, t) \in Message /\ Reply(q, t).of = q /\ Reply(q, t).text = t
  <1>1. <<>> \in Seq(0..MaxQuestions) /\ <<q, q>> \in Seq(0..MaxQuestions)
    OBVIOUS
  <1>2. Question(q) \in Message /\ Question(q).role = "user"
    BY <1>1 DEF Question, Message
  <1>3. Answer(q) \in Seq(0..MaxQuestions) /\ Len(Answer(q)) = 2 /\ Answer(q)[1] = q /\ Answer(q)[2] = q
    BY <1>1 DEF Answer
  <1>4. \A t \in Seq(0..MaxQuestions) : Reply(q, t) \in Message /\ Reply(q, t).of = q /\ Reply(q, t).text = t
    BY DEF Reply, Message
  <1> QED
    BY <1>2, <1>3, <1>4

LEMMA EmptyChat == Empty \in ChatStore /\ ~Empty.streaming /\ Empty.msgs = <<>> /\ Empty.got = <<>> /\ \A s : Whole(Empty.msgs, s)
  BY DEF Empty, ChatStore, Whole

\* One more message leaves the others whole.
LEMMA WholeAppend ==
  ASSUME NEW msgs \in Seq(Message), NEW s, Whole(msgs, s), NEW m \in Message,
         m.role = "assistant" /\ m.of \notin s => m.text = Answer(m.of)
  PROVE  Append(msgs, m) \in Seq(Message) /\ Whole(Append(msgs, m), s)
  BY DEF Whole

LEMMA WholeMore ==
  ASSUME NEW msgs, NEW s, NEW r, s \subseteq r, Whole(msgs, s)
  PROVE  Whole(msgs, r)
  BY DEF Whole

\* The effect that takes the history over mixes nothing into it.
LEMMA SettledKeeps ==
  ASSUME NEW c \in ChatStore, NEW t \in Tutor, NEW h, History(h), NEW s, Whole(c.msgs, s), Settled(c, t, h)
  PROVE  /\ chat' \in ChatStore /\ chat'.streaming = c.streaming /\ chat'.got = c.got /\ Whole(chat'.msgs, s)
         /\ tutor' \in Tutor /\ tutor'.mounted = t.mounted /\ tutor'.url = t.url
  <1>1. CASE t.mounted /\ t.sync /\ ~c.streaming /\ h # <<>>
    <2>1. chat' = [c EXCEPT !.msgs = h[1]] /\ tutor' = [t EXCEPT !.sync = FALSE]
      BY <1>1 DEF Settled
    <2>2. PICK g \in Seq(Message) : h = <<g>> /\ Whole(g, {})
      BY <1>1 DEF History
    <2>3. h[1] = g /\ Whole(g, s)
      BY <2>2, WholeMore
    <2>4. chat' \in ChatStore /\ chat'.streaming = c.streaming /\ chat'.got = c.got /\ chat'.msgs = g
      BY <2>1, <2>2, <2>3 DEF ChatStore
    <2>5. tutor' \in Tutor /\ tutor'.mounted = t.mounted /\ tutor'.url = t.url
      BY <2>1 DEF Tutor
    <2> QED
      BY <2>3, <2>4, <2>5
  <1>2. CASE ~(t.mounted /\ t.sync /\ ~c.streaming /\ h # <<>>)
    <2>1. chat' = c /\ tutor' = t
      BY <1>2 DEF Settled
    <2> QED
      BY <2>1
  <1> QED
    BY <1>1, <1>2

LEMMA WholeIsAnswer == AnswerIsWhole <=> Whole(chat.msgs, spoiled)
  BY DEF AnswerIsWhole, Whole

LEMMA ChatParts ==
  ASSUME ChatInv
  PROVE  /\ talk \in Seq(Message) /\ chat \in ChatStore /\ tutor \in Tutor /\ tutor.url \in 0..MaxQuestions
         /\ questions \in 0..MaxQuestions /\ Whole(talk, {}) /\ History(past) /\ History(<<talk>>)
         /\ Whole(chat.msgs, spoiled) /\ sent \in 0..2
         /\ chat.msgs \in Seq(Message) /\ chat.got \in Seq(0..MaxQuestions)
         /\ tutor.mounted \in BOOLEAN /\ chat.streaming \in BOOLEAN
  BY WholeIsAnswer DEF ChatInv, ChatShape, HistoryIsWhole, History, Tutor, ChatStore

\* What an action has to show that changes the store and the tab.
LEMMA ChatIsKept ==
  ASSUME ChatInv, chat' \in ChatStore, tutor' \in Tutor, talk' \in Seq(Message), Whole(talk', {}), History(past'),
         tutor'.url <= questions', questions' \in 0..MaxQuestions, newChats' \in 0..MaxNewChats, breaks' \in 0..MaxBreaks,
         line' \in {"off", "connect", "open", "backoff"}, tries' \in 0..ChatRetries, sent' \in 0..2,
         current' \in BOOLEAN, spoiled' \subseteq 0..MaxQuestions,
         Whole(chat'.msgs, spoiled'), LineOfTab', GotIsSent', ComposerUnlocks'
  PROVE  ChatInv'
  <1>1. ChatShape'
    BY DEF ChatShape
  <1>2. HistoryIsWhole'
    BY DEF HistoryIsWhole
  <1>3. AnswerIsWhole'
    BY DEF AnswerIsWhole, Whole
  <1> QED
    BY <1>1, <1>2, <1>3 DEF ChatInv

LEMMA ChatRests ==
  ASSUME ChatInv, UNCHANGED chatVars, tab' = "tutor" <=> tab = "tutor"
  PROVE  ChatInv'
  <1>1. UNCHANGED <<talk, past, chat, tutor, line, tries, sent, current, spoiled, questions, newChats, breaks>>
    BY DEF chatVars
  <1>2. LineOfTab'
    BY <1>1 DEF ChatInv, LineOfTab
  <1>3. ChatShape' /\ GotIsSent' /\ HistoryIsWhole' /\ AnswerIsWhole' /\ ComposerUnlocks'
    BY <1>1 DEF ChatInv, ChatShape, GotIsSent, HistoryIsWhole, AnswerIsWhole, ComposerUnlocks
  <1> QED
    BY <1>2, <1>3 DEF ChatInv

LEMMA EnterChatKeeps ==
  ASSUME ChatInv, EnterChat, tab # "tutor", tab' = "tutor"
  PROVE  ChatInv'
  <1> DEFINE t == [tutor EXCEPT !.mounted = TRUE, !.sync = TRUE, !.reading = TRUE, !.url = 0]
  <1>1. /\ Settled(Empty, t, past)
        /\ UNCHANGED <<talk, past, line, tries, sent, current, spoiled, questions, newChats, breaks>>
    BY DEF EnterChat
  <1>2. t \in Tutor /\ t.mounted /\ t.url = 0
    <2> DEFINE yes == TRUE
               none == 0
    <2>1. t = [tutor EXCEPT !.mounted = yes, !.sync = yes, !.reading = yes, !.url = none]
      OBVIOUS
    <2>2. yes \in BOOLEAN /\ yes /\ none \in 0..MaxQuestions /\ none = 0 /\ tutor \in Tutor
      BY ChatParts, ChatConstants
    <2> HIDE DEF yes, none, t
    <2>3. t \in Tutor /\ t.mounted = yes /\ t.url = none
      BY <2>1, <2>2 DEF Tutor
    <2> QED
      BY <2>2, <2>3
  <1> HIDE DEF t
  <1>3. line = "off" /\ sent = 0
    BY DEF ChatInv, LineOfTab
  <1>4. /\ chat' \in ChatStore /\ ~chat'.streaming /\ Whole(chat'.msgs, spoiled)
        /\ tutor' \in Tutor /\ tutor'.mounted /\ tutor'.url = 0
    BY <1>1, <1>2, ChatParts, EmptyChat, SettledKeeps
  <1>5. LineOfTab' /\ GotIsSent' /\ ComposerUnlocks'
    BY <1>1, <1>3, <1>4 DEF LineOfTab, GotIsSent, ComposerUnlocks
  <1> QED
    <2>1. 0 <= questions
      BY ChatParts
    <2> QED
      BY <1>1, <1>4, <1>5, <2>1, ChatParts, ChatIsKept DEF ChatInv, ChatShape

LEMMA LeaveChatKeeps ==
  ASSUME ChatInv, LeaveChat, tab' # "tutor"
  PROVE  ChatInv'
  <1>1. /\ tutor' = [tutor EXCEPT !.mounted = FALSE, !.reading = FALSE]
        /\ line' = "off" /\ tries' = 0 /\ sent' = 0 /\ current' = FALSE
        /\ UNCHANGED <<talk, past, chat, spoiled, questions, newChats, breaks>>
    BY DEF LeaveChat
  <1>2. tutor' \in Tutor /\ ~tutor'.mounted /\ tutor'.url = tutor.url
    BY <1>1, ChatParts DEF Tutor
  <1>3. LineOfTab' /\ GotIsSent' /\ ComposerUnlocks'
    BY <1>1, <1>2 DEF LineOfTab, GotIsSent, ComposerUnlocks
  <1>4. 0 \in 0..2 /\ 0 \in 0..ChatRetries
    BY ChatConstants
  <1> QED
    BY <1>1, <1>2, <1>3, <1>4, ChatParts, ChatIsKept DEF ChatInv, ChatShape

LEMMA ReadHistoryKeeps ==
  ASSUME ChatInv, ReadHistory, tab' = tab
  PROVE  ChatInv'
  <1> DEFINE t == [tutor EXCEPT !.reading = FALSE]
  <1>1. /\ past' = <<talk>> /\ Settled(chat, t, <<talk>>)
        /\ UNCHANGED <<talk, line, tries, sent, current, spoiled, questions, newChats, breaks>>
    BY DEF ReadHistory
  <1>2. t \in Tutor /\ t.mounted = tutor.mounted /\ t.url = tutor.url
    BY ChatParts DEF Tutor
  <1> HIDE DEF t
  <1>3. /\ chat' \in ChatStore /\ chat'.streaming = chat.streaming /\ chat'.got = chat.got /\ Whole(chat'.msgs, spoiled)
        /\ tutor' \in Tutor /\ tutor'.mounted = tutor.mounted /\ tutor'.url = tutor.url
    BY <1>1, <1>2, ChatParts, SettledKeeps
  <1>4. LineOfTab' /\ GotIsSent' /\ ComposerUnlocks'
    BY <1>1, <1>3 DEF ChatInv, LineOfTab, GotIsSent, ComposerUnlocks
  <1> QED
    BY <1>1, <1>3, <1>4, ChatParts, ChatIsKept DEF ChatInv, ChatShape

LEMMA SendMessageKeeps ==
  ASSUME ChatInv, SendMessage, tab' = tab
  PROVE  ChatInv'
  <1>1. /\ tutor.mounted /\ questions < MaxQuestions /\ questions' = questions + 1
        /\ chat' = [chat EXCEPT !.msgs = Append(chat.msgs, Question(questions')), !.streaming = TRUE, !.got = <<>>]
        /\ tutor' = [tutor EXCEPT !.url = questions']
        /\ line' = "connect" /\ tries' = 0 /\ sent' = 0 /\ current' = FALSE
        /\ UNCHANGED <<talk, past, spoiled, newChats, breaks>>
    BY DEF SendMessage, AddUserMessage
  <1>2. questions' \in 0..MaxQuestions
    BY <1>1, ChatParts, ChatConstants
  <1>3. Append(chat.msgs, Question(questions')) \in Seq(Message)
        /\ Whole(Append(chat.msgs, Question(questions')), spoiled)
    BY <1>2, ChatParts, AnswersAndQuestions, WholeAppend
  <1>4. /\ chat' \in ChatStore /\ chat'.msgs = Append(chat.msgs, Question(questions')) /\ chat'.got = <<>>
    <2>1. <<>> \in Seq(0..MaxQuestions)
      OBVIOUS
    <2> QED
      BY <1>1, <1>3, <2>1, ChatParts DEF ChatStore
  <1>5. tutor' \in Tutor /\ tutor'.mounted = tutor.mounted /\ tutor'.url = questions'
    BY <1>1, <1>2, ChatParts DEF Tutor
  <1>6. LineOfTab' /\ GotIsSent' /\ ComposerUnlocks'
    BY <1>1, <1>4, <1>5 DEF ChatInv, LineOfTab, GotIsSent, ComposerUnlocks
  <1>7. 0 \in 0..2 /\ 0 \in 0..ChatRetries /\ tutor'.url <= questions'
    BY <1>2, <1>5, ChatConstants
  <1> QED
    BY <1>1, <1>2, <1>3, <1>4, <1>5, <1>6, <1>7, ChatParts, ChatIsKept DEF ChatInv, ChatShape

LEMMA OpenChatKeeps ==
  ASSUME ChatInv, OpenChat, tab' = tab
  PROVE  ChatInv'
  <1>1. /\ line = "connect" /\ line' = "open" /\ tries' = 0 /\ talk' = Append(talk, Question(tutor.url))
        /\ sent' = 0 /\ current' = TRUE
        /\ UNCHANGED <<past, chat, tutor, spoiled, questions, newChats, breaks>>
    BY DEF OpenChat
  <1>2. talk' \in Seq(Message) /\ Whole(talk', {})
    BY <1>1, ChatParts, AnswersAndQuestions, WholeAppend
  <1>3. LineOfTab' /\ GotIsSent' /\ ComposerUnlocks'
    BY <1>1 DEF ChatInv, LineOfTab, GotIsSent, ComposerUnlocks
  <1>4. 0 \in 0..2 /\ 0 \in 0..ChatRetries
    BY ChatConstants
  <1> QED
    BY <1>1, <1>2, <1>3, <1>4, ChatParts, ChatIsKept DEF ChatInv, ChatShape

LEMMA TokenKeeps ==
  ASSUME ChatInv, Token, tab' = tab
  PROVE  ChatInv'
  <1>1. /\ line = "open" /\ sent < Len(Answer(tutor.url)) /\ sent' = sent + 1
        /\ chat' = [chat EXCEPT !.got = Append(chat.got, Answer(tutor.url)[sent'])]
        /\ UNCHANGED <<talk, past, tutor, line, tries, current, spoiled, questions, newChats, breaks>>
    BY DEF Token
  <1>2. /\ sent' \in 0..2 /\ Answer(tutor.url)[sent'] = tutor.url
    <2>1. Len(Answer(tutor.url)) = 2 /\ Answer(tutor.url)[1] = tutor.url /\ Answer(tutor.url)[2] = tutor.url /\ sent \in 0..2
      BY ChatParts, AnswersAndQuestions
    <2>2. sent' \in {1, 2}
      BY <1>1, <2>1
    <2> QED
      BY <2>1, <2>2
  <1>3. chat' = [chat EXCEPT !.got = Append(chat.got, tutor.url)]
    BY <1>1, <1>2
  <1>4. Append(chat.got, tutor.url) \in Seq(0..MaxQuestions)
    BY ChatParts
  <1>5. /\ chat' \in ChatStore /\ chat'.msgs = chat.msgs /\ chat'.streaming = chat.streaming
        /\ chat'.got = Append(chat.got, tutor.url)
    BY <1>3, <1>4, ChatParts DEF ChatStore
  <1>6. LineOfTab' /\ ComposerUnlocks'
    BY <1>1, <1>5 DEF ChatInv, LineOfTab, ComposerUnlocks
  <1>7. GotIsSent'
    <2> SUFFICES ASSUME tutor.url \notin spoiled PROVE Len(chat'.got) = sent' /\ \A i \in 1..sent' : chat'.got[i] = tutor.url
      BY <1>1 DEF GotIsSent
    <2>1. Len(chat.got) = sent /\ (\A i \in 1..sent : chat.got[i] = tutor.url) /\ sent \in Nat
      BY <1>1, ChatParts DEF ChatInv, GotIsSent
    <2>2. Len(Append(chat.got, tutor.url)) = sent + 1
      BY <2>1, ChatParts
    <2>3. \A i \in 1..(sent + 1) : Append(chat.got, tutor.url)[i] = tutor.url
      BY <2>1, ChatParts
    <2> QED
      BY <1>1, <1>5, <2>2, <2>3
  <1> QED
    BY <1>1, <1>2, <1>5, <1>6, <1>7, ChatParts, ChatIsKept DEF ChatInv, ChatShape

LEMMA ChatDoneKeeps ==
  ASSUME ChatInv, ChatDone, tab' = tab
  PROVE  ChatInv'
  <1> DEFINE m == Reply(tutor.url, chat.got)
             c == [msgs |-> Append(chat.msgs, m), streaming |-> FALSE, got |-> <<>>]
             t == [tutor EXCEPT !.reading = TRUE]
  <1>1. /\ line = "open" /\ sent = Len(Answer(tutor.url)) /\ line' = "off" /\ sent' = 0 /\ current' = FALSE
        /\ talk' = IF current THEN Append(talk, Reply(tutor.url, Answer(tutor.url))) ELSE talk
        /\ Settled(c, t, past)
        /\ UNCHANGED <<past, tries, spoiled, questions, newChats, breaks>>
    BY DEF ChatDone
  <1>2. t \in Tutor /\ t.mounted = tutor.mounted /\ t.url = tutor.url
    BY ChatParts DEF Tutor
  <1>3. m \in Message /\ m.of = tutor.url /\ m.text = chat.got
    BY ChatParts, AnswersAndQuestions
  <1>4. tutor.url \notin spoiled => chat.got = Answer(tutor.url)
    <2> SUFFICES ASSUME tutor.url \notin spoiled PROVE chat.got = Answer(tutor.url)
      OBVIOUS
    <2>1. sent = 2
      BY <1>1, ChatParts, AnswersAndQuestions
    <2>2. Len(chat.got) = 2 /\ chat.got[1] = tutor.url /\ chat.got[2] = tutor.url
      BY <1>1, <2>1 DEF ChatInv, GotIsSent
    <2>3. chat.got \in Seq(0..MaxQuestions)
      BY ChatParts
    <2> QED
      BY <2>2, <2>3 DEF Answer
  <1>5. Append(chat.msgs, m) \in Seq(Message) /\ Whole(Append(chat.msgs, m), spoiled)
    BY <1>3, <1>4, ChatParts, WholeAppend
  <1> HIDE DEF m
  <1>6. c \in ChatStore /\ c.msgs = Append(chat.msgs, m) /\ ~c.streaming
    <2>1. <<>> \in Seq(0..MaxQuestions)
      OBVIOUS
    <2> QED
      BY <1>5, <2>1 DEF ChatStore
  <1> HIDE DEF c, t
  <1>7. /\ chat' \in ChatStore /\ ~chat'.streaming /\ Whole(chat'.msgs, spoiled)
        /\ tutor' \in Tutor /\ tutor'.mounted = tutor.mounted /\ tutor'.url = tutor.url
    BY <1>1, <1>2, <1>5, <1>6, ChatParts, SettledKeeps
  <1>8. talk' \in Seq(Message) /\ Whole(talk', {})
    <2> DEFINE r == Reply(tutor.url, Answer(tutor.url))
    <2>1. r \in Message /\ r.of = tutor.url /\ r.text = Answer(tutor.url)
      BY ChatParts, AnswersAndQuestions
    <2> HIDE DEF r
    <2>2. Append(talk, r) \in Seq(Message) /\ Whole(Append(talk, r), {})
      BY <2>1, ChatParts, WholeAppend
    <2>3. talk' = talk \/ talk' = Append(talk, r)
      BY <1>1 DEF r
    <2> QED
      BY <2>2, <2>3, ChatParts
  <1>10. sent' \in 0..2 /\ tutor'.url <= questions' /\ History(past')
    BY <1>1, <1>7, ChatParts DEF ChatInv, ChatShape
  <1>11. /\ questions' \in 0..MaxQuestions /\ newChats' \in 0..MaxNewChats /\ breaks' \in 0..MaxBreaks
         /\ line' = "off" /\ tries' \in 0..ChatRetries /\ current' \in BOOLEAN /\ spoiled' \subseteq 0..MaxQuestions
         /\ Whole(chat'.msgs, spoiled')
    BY <1>1, <1>7 DEF ChatInv, ChatShape
  <1>9. LineOfTab' /\ GotIsSent' /\ ComposerUnlocks'
    BY <1>1, <1>7 DEF ChatInv, LineOfTab, GotIsSent, ComposerUnlocks
  <1> QED
    BY <1>7, <1>8, <1>9, <1>10, <1>11, ChatIsKept

LEMMA ChatErrorKeeps ==
  ASSUME ChatInv, ChatError, tab' = tab, sent' = 0, current' \in BOOLEAN, tries' \in 0..ChatRetries,
         UNCHANGED <<talk, past, spoiled, questions, newChats, breaks>>
  PROVE  ChatInv'
  <1> DEFINE c == [chat EXCEPT !.streaming = FALSE]
  <1>1. line' = "off" /\ Settled(c, tutor, past)
    BY DEF ChatError
  <1>2. c \in ChatStore /\ ~c.streaming /\ c.msgs = chat.msgs
    BY ChatParts DEF ChatStore
  <1> HIDE DEF c
  <1>3. /\ chat' \in ChatStore /\ ~chat'.streaming /\ Whole(chat'.msgs, spoiled)
        /\ tutor' \in Tutor /\ tutor'.mounted = tutor.mounted /\ tutor'.url = tutor.url
    BY <1>1, <1>2, ChatParts, SettledKeeps
  <1>4. LineOfTab' /\ GotIsSent' /\ ComposerUnlocks'
    BY <1>1, <1>3 DEF ChatInv, LineOfTab, GotIsSent, ComposerUnlocks
  <1>5. sent' \in 0..2
    OBVIOUS
  <1> QED
    BY <1>1, <1>3, <1>4, <1>5, ChatParts, ChatIsKept DEF ChatInv, ChatShape

\* The stream waits to connect again, and nothing of the answer has been sent.
LEMMA ChatWaits ==
  ASSUME ChatInv, tab' = tab, line # "off", line' \in {"connect", "backoff"}, sent' = 0, current' \in BOOLEAN,
         tries' \in 0..ChatRetries, breaks' \in 0..MaxBreaks, UNCHANGED <<talk, past, chat, tutor, questions, newChats>>,
         spoiled' = spoiled \cup {tutor.url} \/ (spoiled' = spoiled /\ line # "open")
  PROVE  ChatInv'
  <1>1. spoiled' \subseteq 0..MaxQuestions /\ Whole(chat.msgs, spoiled')
    BY ChatParts, WholeMore DEF ChatInv, ChatShape
  <1>2. LineOfTab' /\ ComposerUnlocks'
    BY DEF ChatInv, LineOfTab, ComposerUnlocks
  <1>3. GotIsSent'
    BY DEF ChatInv, GotIsSent, LineOfTab
  <1>4. sent' \in 0..2
    OBVIOUS
  <1> QED
    BY <1>1, <1>2, <1>3, <1>4, ChatParts, ChatIsKept DEF ChatInv, ChatShape

LEMMA ChatStreamKeeps ==
  ASSUME ChatInv, tab' = tab, ChatFails \/ ChatTokenRefused \/ ChatRefused \/ ChatBreaks \/ ChatReconnects
  PROVE  ChatInv'
  <1>0. /\ tries \in 0..ChatRetries /\ 0 \in 0..ChatRetries /\ 1 \in 0..ChatRetries
        /\ breaks \in 0..MaxBreaks /\ MaxBreaks \in Nat /\ current \in BOOLEAN /\ ChatRetries \in Nat
    BY ChatConstants DEF ChatInv, ChatShape
  <1>1. line # "open" => sent = 0
    BY DEF ChatInv, LineOfTab
  <1>2. CASE ChatFails
    BY <1>0, <1>2, ChatErrorKeeps DEF ChatFails
  <1>3. CASE ChatTokenRefused
    BY <1>0, <1>1, <1>3, ChatErrorKeeps DEF ChatTokenRefused
  <1>4. CASE ChatRefused
    <2>1. line = "connect" /\ UNCHANGED <<talk, past, sent, current, spoiled, questions, newChats, breaks>>
      BY <1>4 DEF ChatRefused
    <2>2. CASE tries < ChatRetries
      <3>1. line' = "backoff" /\ tries' = tries + 1 /\ UNCHANGED <<chat, tutor>>
        BY <1>4, <2>2 DEF ChatRefused
      <3>2. tries' \in 0..ChatRetries
        BY <1>0, <2>2, <3>1
      <3> QED
        BY <1>0, <1>1, <2>1, <3>1, <3>2, ChatWaits
    <2>3. CASE ~(tries < ChatRetries)
      <3>1. ChatError /\ tries' = 0
        BY <1>4, <2>3 DEF ChatRefused
      <3> QED
        BY <1>0, <1>1, <2>1, <3>1, ChatErrorKeeps
    <2> QED
      BY <2>2, <2>3
  <1>5. CASE ChatBreaks
    <2>1. /\ line = "open" /\ breaks < MaxBreaks /\ breaks' = breaks + 1 /\ line' = "backoff" /\ tries' = 1
          /\ sent' = 0 /\ current' = FALSE /\ spoiled' = spoiled \cup {tutor.url}
          /\ UNCHANGED <<talk, past, chat, tutor, questions, newChats>>
      BY <1>5 DEF ChatBreaks
    <2>2. breaks' \in 0..MaxBreaks
      BY <1>0, <2>1
    <2> QED
      BY <1>0, <2>1, <2>2, ChatWaits
  <1>6. CASE ChatReconnects
    BY <1>0, <1>1, <1>6, ChatWaits DEF ChatReconnects
  <1> QED
    BY <1>2, <1>3, <1>4, <1>5, <1>6

LEMMA NewChatKeeps ==
  ASSUME ChatInv, tab' = tab, NewChat \/ NewChatMade \/ NewChatRead
  PROVE  ChatInv'
  <1>1. CASE NewChat
    <2>1. /\ newChats < MaxNewChats /\ newChats' = newChats + 1 /\ tutor' = [tutor EXCEPT !.renew = "post"]
          /\ UNCHANGED <<talk, past, chat, line, tries, sent, current, spoiled, questions, breaks>>
      BY <1>1 DEF NewChat
    <2>2. tutor' \in Tutor /\ tutor'.mounted = tutor.mounted /\ tutor'.url = tutor.url
      BY <2>1, ChatParts DEF Tutor
    <2>3. newChats' \in 0..MaxNewChats
      BY <2>1, ChatConstants DEF ChatInv, ChatShape
    <2>4. LineOfTab' /\ GotIsSent' /\ ComposerUnlocks'
      BY <2>1, <2>2 DEF ChatInv, LineOfTab, GotIsSent, ComposerUnlocks
    <2> QED
      BY <2>1, <2>2, <2>3, <2>4, ChatParts, ChatIsKept DEF ChatInv, ChatShape
  <1>2. CASE NewChatMade
    <2>1. UNCHANGED <<past, line, tries, sent, questions, newChats, breaks>>
      BY <1>2 DEF NewChatMade
    <2>2. CASE tutor' = [tutor EXCEPT !.renew = "no"] /\ UNCHANGED <<talk, current, chat, spoiled>>
      <3>1. tutor' \in Tutor /\ tutor'.mounted = tutor.mounted /\ tutor'.url = tutor.url
        BY <2>2, ChatParts DEF Tutor
      <3>2. LineOfTab' /\ GotIsSent' /\ ComposerUnlocks'
        BY <2>1, <2>2, <3>1 DEF ChatInv, LineOfTab, GotIsSent, ComposerUnlocks
      <3> QED
        BY <2>1, <2>2, <3>1, <3>2, ChatParts, ChatIsKept DEF ChatInv, ChatShape
    <2>3. CASE /\ talk' = <<>> /\ current' = FALSE /\ Settled(Empty, [tutor EXCEPT !.renew = "read"], past)
               /\ spoiled' = spoiled \cup {tutor.url}
      <3> DEFINE t == [tutor EXCEPT !.renew = "read"]
      <3>1. t \in Tutor /\ t.mounted = tutor.mounted /\ t.url = tutor.url
        BY ChatParts DEF Tutor
      <3>2. Settled(Empty, t, past)
        BY <2>3
      <3> HIDE DEF t
      <3>3. spoiled' \subseteq 0..MaxQuestions
        BY <2>3, ChatParts DEF ChatInv, ChatShape
      <3> DEFINE s == spoiled'
      <3>4. Whole(Empty.msgs, s)
        BY EmptyChat
      <3> HIDE DEF s
      <3>5. /\ chat' \in ChatStore /\ ~chat'.streaming /\ Whole(chat'.msgs, s)
            /\ tutor' \in Tutor /\ tutor'.mounted = tutor.mounted /\ tutor'.url = tutor.url
        BY <3>1, <3>2, <3>4, ChatParts, EmptyChat, SettledKeeps
      <3>6. LineOfTab' /\ GotIsSent' /\ ComposerUnlocks'
        BY <2>1, <2>3, <3>5 DEF ChatInv, LineOfTab, GotIsSent, ComposerUnlocks
      <3>7. talk' \in Seq(Message) /\ Whole(talk', {})
        BY <2>3 DEF Whole
      <3>8. Whole(chat'.msgs, spoiled')
        BY <3>5 DEF s
      <3>9. /\ tutor'.url <= questions' /\ questions' \in 0..MaxQuestions /\ newChats' \in 0..MaxNewChats
            /\ breaks' \in 0..MaxBreaks /\ line' \in {"off", "connect", "open", "backoff"} /\ tries' \in 0..ChatRetries
            /\ sent' \in 0..2 /\ current' \in BOOLEAN /\ History(past')
        BY <2>1, <2>3, <3>5, ChatParts DEF ChatInv, ChatShape
      <3> QED
        BY <3>3, <3>5, <3>6, <3>7, <3>8, <3>9, ChatIsKept
    <2> QED
      BY <1>2, <2>2, <2>3 DEF NewChatMade
  <1>3. CASE NewChatRead
    <2> DEFINE c == [chat EXCEPT !.msgs = talk]
               t == [tutor EXCEPT !.renew = "no"]
    <2>1. /\ past' = <<talk>> /\ Settled(c, t, <<talk>>)
          /\ UNCHANGED <<talk, line, tries, sent, current, spoiled, questions, newChats, breaks>>
      BY <1>3 DEF NewChatRead
    <2>2. t \in Tutor /\ t.mounted = tutor.mounted /\ t.url = tutor.url
      BY ChatParts DEF Tutor
    <2>3. c \in ChatStore /\ c.streaming = chat.streaming /\ c.got = chat.got /\ c.msgs = talk
      BY ChatParts DEF ChatStore
    <2>4. Whole(talk, spoiled)
      BY ChatParts, WholeMore
    <2> HIDE DEF c, t
    <2>5. /\ chat' \in ChatStore /\ chat'.streaming = chat.streaming /\ chat'.got = chat.got /\ Whole(chat'.msgs, spoiled)
          /\ tutor' \in Tutor /\ tutor'.mounted = tutor.mounted /\ tutor'.url = tutor.url
      BY <2>1, <2>2, <2>3, <2>4, ChatParts, SettledKeeps
    <2>6. LineOfTab' /\ GotIsSent' /\ ComposerUnlocks'
      BY <2>1, <2>5 DEF ChatInv, LineOfTab, GotIsSent, ComposerUnlocks
    <2> QED
      BY <2>1, <2>5, <2>6, ChatParts, ChatIsKept DEF ChatInv, ChatShape
  <1> QED
    BY <1>1, <1>2, <1>3

\* Every action of the tutor keeps its invariant, and so does the way to its tab and from it.
LEMMA ChatSteps ==
  ASSUME ChatInv, ChatNext, tab' = tab
  PROVE  ChatInv'
  BY ReadHistoryKeeps, SendMessageKeeps, OpenChatKeeps, TokenKeeps, ChatDoneKeeps, ChatStreamKeeps, NewChatKeeps DEF ChatNext

LEMMA ChatFollowsTab ==
  ASSUME ChatInv, ChatFollows
  PROVE  ChatInv'
  <1>1. CASE tab # "tutor" /\ tab' = "tutor"
    BY <1>1, EnterChatKeeps DEF ChatFollows
  <1>2. CASE tab = "tutor" /\ tab' # "tutor"
    BY <1>2, LeaveChatKeeps DEF ChatFollows
  <1>3. CASE tab = "tutor" <=> tab' = "tutor"
    BY <1>3, ChatRests DEF ChatFollows
  <1> QED
    BY <1>1, <1>2, <1>3

LEMMA ChatStarts == ChatInit /\ tab = "none" => ChatInv
  <1> SUFFICES ASSUME ChatInit, tab = "none" PROVE ChatInv
    OBVIOUS
  <1>1. /\ talk = <<>> /\ past = <<>> /\ chat = Empty
        /\ tutor = [mounted |-> FALSE, sync |-> TRUE, reading |-> FALSE, url |-> 0, renew |-> "no"]
        /\ line = "off" /\ tries = 0 /\ sent = 0 /\ current = FALSE
        /\ spoiled = {} /\ questions = 0 /\ newChats = 0 /\ breaks = 0
    BY DEF ChatInit
  <1>2. tutor \in Tutor /\ ~tutor.mounted /\ tutor.url = 0
    BY <1>1, ChatConstants DEF Tutor
  <1>3. ChatShape
    <2>1. 0 \in 0..MaxQuestions /\ 0 \in 0..MaxNewChats /\ 0 \in 0..MaxBreaks /\ 0 \in 0..ChatRetries /\ 0 \in 0..2
          /\ <<>> \in Seq(Message)
      BY ChatConstants
    <2>2. talk \in Seq(Message) /\ chat \in ChatStore /\ tutor.url <= questions
      BY <1>1, <1>2, <2>1, EmptyChat
    <2> QED
      BY <1>1, <1>2, <2>1, <2>2 DEF ChatShape
  <1>4. AnswerIsWhole
    BY <1>1, EmptyChat, WholeIsAnswer
  <1>5. HistoryIsWhole
    BY <1>1 DEF HistoryIsWhole, History, Whole
  <1>6. LineOfTab /\ GotIsSent /\ ComposerUnlocks
    BY <1>1, <1>2 DEF LineOfTab, GotIsSent, ComposerUnlocks
  <1> QED
    BY <1>3, <1>4, <1>5, <1>6 DEF ChatInv

-----------------------------------------------------------------------------
(* The page on which it begins *)

DocStatus == {"ready", "unfit", "processing", "failed"}

Form ==
    [mode : {"documents", "topic", "none"}, picked : SUBSET Docs, folder : Folders \cup {"all"},
     url : {"", "url", "text"}, topic : {"", "topic", "long"}, message : {"none", "url", "topic", "failed"}]

Panels ==
    [open : BOOLEAN, visible : BOOLEAN, entered : BOOLEAN, frames : 0..2, hide : BOOLEAN,
     list : {"unread", "empty", "items", "failed"}]

StartShape ==
    /\ docs \in [Docs -> DocStatus]
    /\ listed = NoList \/ listed \in [Docs -> DocStatus]
    /\ form \in Form
    /\ making \in {"no", "asked", "left"}
    /\ panel \in Panels
    /\ at \in Docs \cup {"list", "new", "away"}
    /\ forms \in Nat

StartInv ==
    /\ StartShape /\ PickedAreVisible /\ OneSource /\ OpenPanelIsThere
    /\ (panel.frames > 0 => panel.open)

\* What an action has to show that changes the form.
LEMMA NewStartFits ==
  /\ NewStart \in Form /\ NewStart.picked = {} /\ NewStart.url = ""
  /\ ClosedPanel \in Panels /\ ~ClosedPanel.open /\ ~ClosedPanel.entered /\ ClosedPanel.frames = 0
  BY DEF NewStart, Form, ClosedPanel, Panels

LEMMA StartRests ==
  ASSUME StartInv, UNCHANGED startVars
  PROVE  StartInv'
  <1>1. UNCHANGED <<docs, listed, form, making, panel, at, forms>>
    BY DEF startVars
  <1> QED
    BY <1>1 DEF StartInv, StartShape, PickedAreVisible, InFolder, OneSource, OpenPanelIsThere

LEMMA EnterStartKeeps ==
  ASSUME StartInv, NEW n \in {0, 1}, EnterStart(n)
  PROVE  StartInv' /\ at' = "list"
  <1>1. /\ docs' \in [Docs -> {"ready", "processing"}] /\ at' = "list" /\ forms' = forms + n
        /\ UNCHANGED <<listed, form, making, panel>>
    BY DEF EnterStart
  <1>2. docs' \in [Docs -> DocStatus] /\ forms' \in Nat
    BY <1>1 DEF DocStatus, StartInv, StartShape
  <1> QED
    BY <1>1, <1>2 DEF StartInv, StartShape, PickedAreVisible, InFolder, OneSource, OpenPanelIsThere

LEMMA DepartKeeps ==
  ASSUME StartInv, NEW to \in Docs \cup {"list", "new", "away"}, Depart(to), making' \in {"no", "asked", "left"}, UNCHANGED forms
  PROVE  StartInv' /\ at' = to
  <1>1. /\ docs' = [d \in Docs |-> "ready"] /\ listed' = NoList
        /\ form' = NewStart /\ panel' = ClosedPanel /\ at' = to
    BY DEF Depart
  <1>2. docs' \in [Docs -> DocStatus]
    BY <1>1 DEF DocStatus
  <1>3. StartShape'
    BY <1>1, <1>2, NewStartFits DEF StartInv, StartShape
  <1>4. form'.picked = {} /\ form'.url = "" /\ ~panel'.open /\ ~panel'.entered /\ panel'.frames = 0
    BY <1>1, NewStartFits
  <1>5. PickedAreVisible'
    BY <1>4 DEF PickedAreVisible
  <1>6. OneSource' /\ OpenPanelIsThere'
    BY <1>4 DEF OneSource, OpenPanelIsThere
  <1>7. ~(panel'.frames > 0)
    <2>1. panel'.frames = 0
      BY <1>4
    <2> QED
      BY <2>1
  <1> QED
    BY <1>1, <1>3, <1>5, <1>6, <1>7 DEF StartInv

LEMMA LeaveStartKeeps ==
  ASSUME StartInv, NEW to \in Docs \cup {"list", "new", "away"}, LeaveStart(to)
  PROVE  StartInv' /\ at' = to
  <1>1. making' \in {"no", "asked", "left"}
    BY DEF LeaveStart, StartInv, StartShape
  <1> QED
    BY <1>1, DepartKeeps DEF LeaveStart

\* The form changes, and with it nothing that is selected is out of sight.
LEMMA FormKeeps ==
  ASSUME StartInv, form' \in Form, making' \in {"no", "asked", "left"}, forms' \in Nat,
         PickedAreVisible', OneSource', UNCHANGED <<docs, listed, panel, at>>
  PROVE  StartInv'
  BY DEF StartInv, StartShape, OpenPanelIsThere

LEMMA Successor ==
  ASSUME NEW m \in Nat, NEW n, n = m + 1
  PROVE  n \in Nat
  OBVIOUS

LEMMA EditKeeps ==
  ASSUME StartInv, NEW f \in Form, Edit(f), \A d \in f.picked : f.folder = "all" \/ FolderOf[d] = f.folder,
         f.url = "" \/ f.topic = ""
  PROVE  StartInv' /\ at' = at
  <1>1. form' = f /\ forms' = forms + 1 /\ UNCHANGED <<docs, listed, making, panel, at>>
    BY DEF Edit
  <1>0. making \in {"no", "asked", "left"} /\ forms \in Nat
    BY DEF StartInv, StartShape
  <1>2. making' \in {"no", "asked", "left"} /\ forms' \in Nat /\ form' \in Form
    <2>1. making' \in {"no", "asked", "left"}
      BY <1>0, <1>1
    <2>2. forms' = forms + 1
      BY <1>1
    <2>3. forms' \in Nat
      BY <1>0, <2>2, Successor
    <2>4. form' \in Form
      BY <1>1
    <2> QED
      BY <2>1, <2>3, <2>4
  <1>3. f.picked \subseteq Docs
    BY DEF Form
  <1>4. PickedAreVisible'
    BY <1>1, <1>3 DEF PickedAreVisible, InFolder
  <1>5. OneSource'
    BY <1>1 DEF OneSource
  <1> QED
    BY <1>1, <1>2, <1>4, <1>5, FormKeeps

LEMMA PickedInFolder ==
  ASSUME StartInv
  PROVE  /\ form \in Form /\ (form.url = "" \/ form.topic = "")
         /\ \A d \in form.picked : form.folder = "all" \/ FolderOf[d] = form.folder
         /\ ReadyFiles \subseteq Docs
         /\ \A d \in ReadyFiles : form.folder = "all" \/ FolderOf[d] = form.folder
  <1>1. DOMAIN listed \subseteq Docs
    BY DEF StartInv, StartShape, NoList
  <1> QED
    BY <1>1 DEF StartInv, StartShape, PickedAreVisible, InFolder, OneSource, ReadyFiles

LEMMA ClearFits ==
  ASSUME NEW f \in Form
  PROVE  /\ Clear(f) \in Form /\ Clear(f).picked = f.picked /\ Clear(f).folder = f.folder
         /\ Clear(f).url = f.url /\ Clear(f).topic = f.topic
  BY DEF Clear, Form

\* A change of the form that leaves the selection alone or makes it one of what is shown.
LEMMA PickKeeps ==
  ASSUME StartInv, NEW p \in SUBSET Docs, Edit(Clear([form EXCEPT !.picked = p])),
         \A d \in p : form.folder = "all" \/ FolderOf[d] = form.folder
  PROVE  StartInv' /\ at' = at
  <1> DEFINE f == [form EXCEPT !.picked = p]
  <1>1. f \in Form /\ f.picked = p /\ f.folder = form.folder /\ f.url = form.url /\ f.topic = form.topic
    BY PickedInFolder DEF Form
  <1>2. Edit(Clear(f))
    OBVIOUS
  <1> HIDE DEF f
  <1> DEFINE g == Clear(f)
  <1>3. g \in Form /\ g.picked = p /\ g.folder = form.folder /\ g.url = form.url /\ g.topic = form.topic /\ Edit(g)
    BY <1>1, <1>2, ClearFits
  <1> HIDE DEF g
  <1> QED
    BY <1>3, PickedInFolder, EditKeeps

LEMMA SelectionKeeps ==
  ASSUME StartInv, \/ \E d \in Docs : ToggleDoc(d)
                   \/ ToggleAll
                   \/ \E f \in Folders \cup {"all"} : OpenFolder(f)
  PROVE  StartInv' /\ at' = at
  <1>0. /\ form \in Form /\ form.picked \in SUBSET Docs /\ ReadyFiles \subseteq Docs
        /\ \A d \in form.picked : form.folder = "all" \/ FolderOf[d] = form.folder
        /\ \A d \in ReadyFiles : form.folder = "all" \/ FolderOf[d] = form.folder
        /\ form.url = "" \/ form.topic = ""
    BY PickedInFolder DEF Form
  <1>1. ASSUME NEW d \in Docs, ToggleDoc(d) PROVE StartInv' /\ at' = at
    <2> DEFINE p == IF d \in form.picked THEN form.picked \ {d} ELSE form.picked \cup {d}
    <2>1. d \in ReadyFiles /\ Edit(Clear([form EXCEPT !.picked = p]))
      BY <1>1 DEF ToggleDoc
    <2>2. p \in SUBSET Docs /\ \A e \in p : form.folder = "all" \/ FolderOf[e] = form.folder
      BY <1>0, <2>1
    <2> HIDE DEF p
    <2> QED
      BY <2>1, <2>2, PickKeeps
  <1>2. CASE ToggleAll
    <2> DEFINE p == IF AllVisibleSelected THEN form.picked \ ReadyFiles ELSE form.picked \cup ReadyFiles
    <2>1. Edit(Clear([form EXCEPT !.picked = p]))
      BY <1>2 DEF ToggleAll
    <2>2. p \in SUBSET Docs /\ \A e \in p : form.folder = "all" \/ FolderOf[e] = form.folder
      BY <1>0
    <2> HIDE DEF p
    <2> QED
      BY <2>1, <2>2, PickKeeps
  <1>3. ASSUME NEW f \in Folders \cup {"all"}, OpenFolder(f) PROVE StartInv' /\ at' = at
    <2> DEFINE g == [form EXCEPT !.folder = f, !.picked = {}]
    <2>1. Edit(g)
      BY <1>3 DEF OpenFolder
    <2>2. g \in Form /\ g.picked = {} /\ g.url = form.url /\ g.topic = form.topic
      BY <1>0 DEF Form
    <2> HIDE DEF g
    <2> QED
      BY <1>0, <2>1, <2>2, EditKeeps
  <1> QED
    BY <1>1, <1>2, <1>3

LEMMA TypingKeeps ==
  ASSUME StartInv, \/ \E m \in {"documents", "topic", "none"} : SelectMode(m)
                   \/ \E u \in {"", "url", "text"} : TypeUrl(u)
                   \/ \E t \in {"", "topic", "long"} : TypeTopic(t)
  PROVE  StartInv' /\ at' = at
  <1>0. /\ form \in Form /\ (form.url = "" \/ form.topic = "")
        /\ \A d \in form.picked : form.folder = "all" \/ FolderOf[d] = form.folder
    BY PickedInFolder
  <1>1. ASSUME NEW f \in Form, Edit(Clear(f)), f.picked = form.picked, f.folder = form.folder, f.url = "" \/ f.topic = ""
        PROVE  StartInv' /\ at' = at
    <2> DEFINE g == Clear(f)
    <2>1. g \in Form /\ g.picked = form.picked /\ g.folder = form.folder /\ (g.url = "" \/ g.topic = "") /\ Edit(g)
      BY <1>1, ClearFits
    <2> HIDE DEF g
    <2> QED
      BY <1>0, <2>1, EditKeeps
  <1>2. ASSUME NEW m \in {"documents", "topic", "none"}, SelectMode(m) PROVE StartInv' /\ at' = at
    <2>1. /\ [form EXCEPT !.mode = m] \in Form /\ [form EXCEPT !.mode = m].picked = form.picked
          /\ [form EXCEPT !.mode = m].folder = form.folder /\ [form EXCEPT !.mode = m].url = form.url
          /\ [form EXCEPT !.mode = m].topic = form.topic
      BY <1>0 DEF Form
    <2> QED
      BY <1>0, <1>1, <1>2, <2>1 DEF SelectMode
  <1>3. ASSUME NEW u \in {"", "url", "text"}, TypeUrl(u) PROVE StartInv' /\ at' = at
    <2>1. /\ [form EXCEPT !.url = u] \in Form /\ [form EXCEPT !.url = u].picked = form.picked
          /\ [form EXCEPT !.url = u].folder = form.folder /\ [form EXCEPT !.url = u].topic = form.topic
      BY <1>0 DEF Form
    <2> QED
      BY <1>1, <1>3, <2>1 DEF TypeUrl
  <1>4. ASSUME NEW t \in {"", "topic", "long"}, TypeTopic(t) PROVE StartInv' /\ at' = at
    <2>1. /\ [form EXCEPT !.topic = t] \in Form /\ [form EXCEPT !.topic = t].picked = form.picked
          /\ [form EXCEPT !.topic = t].folder = form.folder /\ [form EXCEPT !.topic = t].url = form.url
      BY <1>0 DEF Form
    <2> QED
      BY <1>1, <1>4, <2>1 DEF TypeTopic
  <1> QED
    BY <1>2, <1>3, <1>4

LEMMA TopicKeeps ==
  ASSUME StartInv, StudyTopic \/ TopicFailed
  PROVE  StartInv' /\ at' = at
  <1>0. /\ form \in Form /\ making \in {"no", "asked", "left"} /\ forms \in Nat
        /\ PickedAreVisible /\ OneSource
    BY DEF StartInv, StartShape
  <1>1. /\ UNCHANGED <<docs, listed, panel, at, forms>> /\ making' \in {"no", "asked", "left"}
        /\ \E m \in {"none", "url", "topic", "failed"} : form' = [form EXCEPT !.message = m] \/ form' = form
    BY <1>0 DEF StudyTopic, TopicFailed, Refusal
  <1>2. /\ form' \in Form /\ form'.picked = form.picked /\ form'.folder = form.folder
        /\ form'.url = form.url /\ form'.topic = form.topic
    BY <1>0, <1>1 DEF Form
  <1>3. PickedAreVisible'
    BY <1>0, <1>2 DEF PickedAreVisible, InFolder
  <1>4. OneSource'
    BY <1>0, <1>2 DEF OneSource
  <1> QED
    BY <1>0, <1>1, <1>2, <1>3, <1>4, FormKeeps

\* What changes in the panel leaves it one that can be there.
LEMMA PanelKeeps ==
  ASSUME StartInv, UNCHANGED <<docs, listed, form, making, at>>, forms' \in Nat, panel' \in Panels,
         panel'.open => panel'.visible /\ ~panel'.hide, panel'.entered => panel'.open,
         panel'.frames > 0 => panel'.open
  PROVE  StartInv'
  BY DEF StartInv, StartShape, OpenPanelIsThere, PickedAreVisible, InFolder, OneSource

LEMMA PanelSteps ==
  ASSUME StartInv, OpenPanel \/ ClosePanel \/ Frame \/ HidePanel \/ ReadPanel \/ RereadPanel
  PROVE  StartInv' /\ at' = at
  <1> DEFINE yes == TRUE
             no == FALSE
  <1>t. yes \in BOOLEAN /\ no \in BOOLEAN /\ yes /\ ~no
    OBVIOUS
  <1> HIDE DEF yes, no
  <1>0. /\ panel \in Panels /\ forms \in Nat /\ panel.open \in BOOLEAN /\ panel.visible \in BOOLEAN
        /\ panel.entered \in BOOLEAN /\ panel.hide \in BOOLEAN /\ panel.frames \in 0..2
        /\ (panel.open => panel.visible /\ ~panel.hide) /\ (panel.entered => panel.open)
        /\ (panel.frames > 0 => panel.open)
    BY DEF StartInv, StartShape, OpenPanelIsThere, Panels
  <1>1. CASE OpenPanel
    <2>1. /\ ~panel.open /\ forms' = forms + 1 /\ UNCHANGED <<docs, listed, form, making, at>>
          /\ panel' = [panel EXCEPT !.open = yes, !.visible = yes, !.frames = 2, !.hide = no]
      BY <1>1, <1>t DEF OpenPanel, Opened
    <2> DEFINE two == 2
    <2>2. two \in 0..2 /\ panel' = [panel EXCEPT !.open = yes, !.visible = yes, !.frames = two, !.hide = no]
      BY <2>1
    <2> HIDE DEF two
    <2>3. panel' \in Panels
      BY <1>0, <1>t, <2>2 DEF Panels
    <2>4. panel'.open = yes /\ panel'.visible = yes /\ panel'.hide = no /\ panel'.entered = panel.entered
      BY <1>0, <1>t, <2>2 DEF Panels
    <2> QED
      BY <1>0, <1>t, <2>1, <2>3, <2>4, PanelKeeps
  <1>2. CASE ClosePanel
    <2>1. /\ UNCHANGED <<docs, listed, form, making, at, forms>>
          /\ panel' = [panel EXCEPT !.open = no, !.entered = no, !.frames = 0, !.hide = yes]
      BY <1>2, <1>t DEF ClosePanel, Panel
    <2> DEFINE zero == 0
    <2>2. zero \in 0..2 /\ panel' = [panel EXCEPT !.open = no, !.entered = no, !.frames = zero, !.hide = yes]
      BY <2>1
    <2> HIDE DEF zero
    <2>3. panel' \in Panels
      BY <1>0, <1>t, <2>2 DEF Panels
    <2>4. panel'.open = no /\ panel'.entered = no /\ panel'.frames = zero
      BY <1>0, <1>t, <2>2 DEF Panels
    <2>5. zero = 0
      BY DEF zero
    <2> QED
      BY <1>0, <1>t, <2>1, <2>3, <2>4, <2>5, PanelKeeps
  <1>3. CASE Frame
    <2>1. /\ UNCHANGED <<docs, listed, form, making, at, forms>> /\ panel.frames > 0
          /\ panel' = [panel EXCEPT !.frames = @ - 1, !.entered = @ \/ panel.frames = 1]
      BY <1>3 DEF Frame, Panel
    <2> DEFINE e == panel.entered \/ panel.frames = 1
               n == panel.frames - 1
    <2>2. e \in BOOLEAN /\ n \in 0..2 /\ panel' = [panel EXCEPT !.frames = n, !.entered = e]
      BY <1>0, <2>1
    <2> HIDE DEF e, n
    <2>3. /\ panel' \in Panels /\ panel'.open = panel.open /\ panel'.visible = panel.visible
          /\ panel'.hide = panel.hide
      BY <1>0, <2>2 DEF Panels
    <2> QED
      BY <1>0, <2>1, <2>3, PanelKeeps
  <1>4. CASE HidePanel
    <2>1. /\ UNCHANGED <<docs, listed, form, making, at, forms>> /\ panel.hide
          /\ panel' = [panel EXCEPT !.visible = no, !.hide = no]
      BY <1>4, <1>t DEF HidePanel, Panel
    <2>2. /\ panel' \in Panels /\ panel'.open = panel.open /\ panel'.entered = panel.entered
          /\ panel'.frames = panel.frames
      BY <1>0, <1>t, <2>1 DEF Panels
    <2> QED
      BY <1>0, <2>1, <2>2, PanelKeeps
  <1>5. CASE ReadPanel \/ RereadPanel
    <2>1. PICK l \in {"unread", "empty", "items", "failed"} :
            /\ UNCHANGED <<docs, listed, form, making, at, forms>>
            /\ panel' = [panel EXCEPT !.list = l]
      BY <1>5 DEF ReadPanel, RereadPanel, Panel
    <2>2. /\ panel' \in Panels /\ panel'.open = panel.open /\ panel'.entered = panel.entered
          /\ panel'.frames = panel.frames /\ panel'.visible = panel.visible /\ panel'.hide = panel.hide
      BY <1>0, <2>1 DEF Panels
    <2> QED
      BY <1>0, <2>1, <2>2, PanelKeeps
  <1> QED
    BY <1>1, <1>2, <1>3, <1>4, <1>5

LEMMA FilesListed ==
  ASSUME StartInv, ListFiles \/ \E d \in Docs : ProcessFile(d)
  PROVE  StartInv' /\ at' = at
  <1>1. UNCHANGED <<form, making, panel, at, forms>>
    BY DEF ListFiles, ProcessFile
  <1>2. docs' \in [Docs -> DocStatus] /\ (listed' = NoList \/ listed' \in [Docs -> DocStatus])
    BY DEF ListFiles, ProcessFile, StartInv, StartShape, DocStatus
  <1> QED
    BY <1>1, <1>2 DEF StartInv, StartShape, PickedAreVisible, InFolder, OneSource, OpenPanelIsThere

\* The page is left for a document only, and what is on it stays possible.
LEMMA StartSteps ==
  ASSUME StartInv, StartNext
  PROVE  StartInv' /\ (at' = at \/ at' \in Docs \cup {"new"})
  <1>1. ASSUME NEW d \in Docs, LeaveStart(d) PROVE StartInv' /\ at' \in Docs
    BY <1>1, LeaveStartKeeps
  <1>2. CASE StudyDocument
    <2>1. form.picked \subseteq Docs
      BY PickedInFolder DEF Form
    <2> QED
      BY <1>1, <1>2, <2>1 DEF StudyDocument
  <1>3. CASE \E d \in Docs : OpenItem(d)
    BY <1>1, <1>3 DEF OpenItem
  <1>4. CASE TopicMade
    <2>1. Depart("new") /\ making' \in {"no", "asked", "left"} /\ UNCHANGED forms
      BY <1>4 DEF TopicMade
    <2> QED
      BY <2>1, DepartKeeps
  <1>5. CASE (\E d \in Docs : ToggleDoc(d)) \/ ToggleAll \/ \E f \in Folders \cup {"all"} : OpenFolder(f)
    BY <1>5, SelectionKeeps
  <1>6. CASE \/ \E m \in {"documents", "topic", "none"} : SelectMode(m)
             \/ \E u \in {"", "url", "text"} : TypeUrl(u)
             \/ \E t \in {"", "topic", "long"} : TypeTopic(t)
    BY <1>6, TypingKeeps
  <1>7. CASE StudyTopic \/ TopicFailed
    BY <1>7, TopicKeeps
  <1>8. CASE OpenPanel \/ ClosePanel \/ Frame \/ HidePanel \/ ReadPanel \/ RereadPanel
    BY <1>8, PanelSteps
  <1>9. CASE ListFiles \/ \E d \in Docs : ProcessFile(d)
    BY <1>9, FilesListed
  <1> QED
    BY <1>2, <1>3, <1>4, <1>5, <1>6, <1>7, <1>8, <1>9 DEF StartNext

LEMMA StartStarts ==
  ASSUME StartInit
  PROVE  StartInv
  <1>1. /\ docs \in [Docs -> DocStatus] /\ form = NewStart /\ panel = ClosedPanel
        /\ listed = NoList /\ making = "no" /\ at = "away" /\ forms = 0
    BY DEF StartInit, DocStatus
  <1>2. StartShape
    BY <1>1, NewStartFits DEF StartShape
  <1>3. form.picked = {} /\ form.url = "" /\ ~panel.open /\ ~panel.entered /\ panel.frames = 0
    BY <1>1, NewStartFits
  <1>4. PickedAreVisible
    BY <1>3 DEF PickedAreVisible
  <1>5. OneSource /\ OpenPanelIsThere
    BY <1>3 DEF OneSource, OpenPanelIsThere
  <1>6. ~(panel.frames > 0)
    <2>1. panel.frames = 0
      BY <1>3
    <2> QED
      BY <2>1
  <1> QED
    BY <1>2, <1>4, <1>5, <1>6 DEF StartInv

-----------------------------------------------------------------------------
(* The pages for studying together *)

StudyInv == ContentInv /\ ChatInv /\ StartInv /\ (tab # "none" => at = Studied)

\* Only the viewer of a document has tabs to go to.
LEMMA TabOfViewer ==
  ASSUME ContentInv, ContentNext
  PROVE  tab' = tab \/ tab # "none"
  <1>1. tab = "none" => asked = {}
    BY DEF ContentInv, AskedByTab, Types
  <1>2. CASE Reading
    BY <1>1, <1>2 DEF Reading, PollStatus, ShowStatus, ShowMissing, ShowContent, ShowVersions, ShowOldVersion
  <1>3. CASE Start
    <2>1. \E w, u : StartStreaming(w, u)
      BY <1>3 DEF Start, Generate, Regenerate, GenerateSummary, RetrySummary, RegenerateSummary, GenerateFlashcards,
                  RetryFlashcards, RefillFlashcards, RegenerateFlashcards, GenerateMindmap, RetryMindmap, RefillMindmap,
                  RegenerateMindmap, GenerateNotes, RetryNotes, RefillNotes, RegenerateNotes
    <2> QED
      BY <2>1 DEF StartStreaming
  <1>4. CASE Streaming
    BY <1>4 DEF Streaming, OpenStream, TokenRefused, Refused, BackOff, Drop, HandleDone, HandleServerError, CancelStreaming
  <1>5. CASE Generation
    BY <1>5 DEF Generation, Finish, Fail, DeleteFile, EndLoose, EndTask
  <1>6. CASE Touching
    <2>1. UNCHANGED tab
      BY <1>6 DEF Touching, GoToPrev, GoToNext, FlipCard, GoTo, Touch, ToggleNode, ClickNode, Explained, RetryExplanation,
                  ClosePopup, ToggleConcept, RevealConcept, ToggleHideMode
    <2> QED
      BY <2>1
  <1>7. CASE PrevVersion \/ NextVersion
    BY <1>7 DEF PrevVersion, NextVersion, LookAt
  <1>8. CASE \E t \in Types \cup {"tutor"} : SelectTab(t)
    BY <1>8 DEF SelectTab, Types
  <1> QED
    BY <1>2, <1>3, <1>4, <1>5, <1>6, <1>7, <1>8 DEF ContentNext

LEMMA TabsOpenAndClose ==
  /\ OpenViewer => tab = "none" /\ tab' = "summary"
  /\ CloseViewer => tab # "none" /\ tab' = "none"
  BY DEF OpenViewer, CloseViewer, Mount

LEMMA StudySteps ==
  ASSUME StudyInv, StudyNext
  PROVE  StudyInv'
  <1>0. ContentInv /\ ChatInv /\ StartInv /\ (tab # "none" => at = Studied)
    BY DEF StudyInv
  <1>1. Studied \in Docs /\ "list" \notin Docs /\ "away" \notin Docs
    BY PagesAssumption, StartAssumption
  <1>2. CASE VisitList
    <2>1. at = "away" /\ EnterStart(0) /\ UNCHANGED <<contentVars, chatVars>>
      BY <1>2 DEF VisitList
    <2>2. tab = "none" /\ tab' = tab
      BY <1>0, <1>1, <2>1 DEF contentVars
    <2>3. StartInv' /\ ContentInv' /\ ChatInv'
      BY <1>0, <2>1, <2>2, EnterStartKeeps, ContentRests, ChatRests
    <2> QED
      BY <2>2, <2>3 DEF StudyInv
  <1>3. CASE VisitViewer
    <2>1. LeaveStart(Studied) /\ OpenViewer /\ UNCHANGED chatVars
      BY <1>3 DEF VisitViewer
    <2>2. tab = "none" /\ tab' = "summary"
      BY <2>1, TabsOpenAndClose
    <2>3. StartInv' /\ at' = Studied
      BY <1>0, <1>1, <2>1, LeaveStartKeeps
    <2>4. ContentInv' /\ ChatInv'
      BY <1>0, <2>1, <2>2, ContentSteps, ChatRests
    <2> QED
      BY <2>3, <2>4 DEF StudyInv
  <1>4. CASE BackToList
    <2>1. CloseViewer /\ EnterStart(1) /\ ChatFollows
      BY <1>4 DEF BackToList
    <2>2. tab' = "none"
      BY <2>1, TabsOpenAndClose
    <2>3. StartInv' /\ ContentInv' /\ ChatInv'
      BY <1>0, <2>1, EnterStartKeeps, ContentSteps, ChatFollowsTab
    <2> QED
      BY <2>2, <2>3 DEF StudyInv
  <1>5. CASE List
    <2>1. StartInv' /\ StartNext
      BY <1>0, <1>5, StartSteps DEF List
    <2>2. CASE UNCHANGED <<contentVars, chatVars>> /\ (at' = at \/ tab = "none")
      <3>1. tab' = tab
        BY <2>2 DEF contentVars
      <3>2. ContentInv' /\ ChatInv'
        BY <1>0, <2>2, <3>1, ContentRests, ChatRests
      <3> QED
        BY <1>0, <2>1, <2>2, <3>1, <3>2 DEF StudyInv
    <2>3. CASE at' = Studied /\ OpenViewer /\ UNCHANGED chatVars
      <3>1. tab = "none" /\ tab' = "summary"
        BY <2>3, TabsOpenAndClose
      <3>2. ContentInv' /\ ChatInv'
        BY <1>0, <2>3, <3>1, ContentSteps, ChatRests
      <3> QED
        BY <2>1, <2>3, <3>2 DEF StudyInv
    <2>4. CASE CloseViewer /\ ChatFollows
      <3>1. tab' = "none"
        BY <2>4, TabsOpenAndClose
      <3>2. ContentInv' /\ ChatInv'
        BY <1>0, <2>4, ContentSteps, ChatFollowsTab
      <3> QED
        BY <2>1, <3>1, <3>2 DEF StudyInv
    <2> QED
      BY <1>5, <2>2, <2>3, <2>4 DEF List
  <1>6. CASE Content
    <2>1. ContentNext /\ ChatFollows /\ UNCHANGED startVars
      BY <1>6 DEF Content
    <2>2. at' = at /\ (tab' = tab \/ tab # "none")
      BY <1>0, <2>1, TabOfViewer DEF startVars
    <2>3. ContentInv' /\ ChatInv' /\ StartInv'
      BY <1>0, <2>1, ContentSteps, ChatFollowsTab, StartRests
    <2> QED
      BY <1>0, <2>2, <2>3 DEF StudyInv
  <1>7. CASE Chat
    <2>1. ChatNext /\ UNCHANGED <<contentVars, startVars>>
      BY <1>7 DEF Chat
    <2>2. tab' = tab /\ at' = at
      BY <2>1 DEF contentVars, startVars
    <2>3. ContentInv' /\ ChatInv' /\ StartInv'
      BY <1>0, <2>1, <2>2, ContentRests, ChatSteps, StartRests
    <2> QED
      BY <1>0, <2>2, <2>3 DEF StudyInv
  <1> QED
    BY <1>2, <1>3, <1>4, <1>5, <1>6, <1>7 DEF StudyNext

LEMMA StudyRests ==
  ASSUME StudyInv, UNCHANGED studyVars
  PROVE  StudyInv'
  <1>1. UNCHANGED <<contentVars, chatVars, startVars>> /\ tab' = tab /\ at' = at
    BY DEF studyVars, contentVars, startVars
  <1>2. ContentInv' /\ ChatInv' /\ StartInv'
    BY <1>1, ContentRests, ChatRests, StartRests DEF StudyInv
  <1> QED
    BY <1>1, <1>2 DEF StudyInv

LEMMA StudyStarts == StudyInit => StudyInv
  <1> SUFFICES ASSUME StudyInit PROVE StudyInv
    OBVIOUS
  <1>1. tab = "none"
    BY DEF StudyInit, ContentInit
  <1> QED
    BY <1>1, ContentStarts, ChatStarts, StartStarts DEF StudyInit, StudyInv

\* What is shown of the study pages has its type, and is what was asked for.
LEMMA StudyHolds ==
  ASSUME StudyInv
  PROVE  /\ StudyTypeOK /\ StuckHasCause /\ NewestIsShown /\ CardExists /\ OneGeneration /\ ThinkingHasStream
         /\ AnswerIsWhole /\ ComposerUnlocks /\ PickedAreVisible /\ OneSource /\ OpenPanelIsThere
  <1>0. ContentInv /\ ChatInv /\ StartInv /\ (tab # "none" => at = Studied)
    BY DEF StudyInv
  <1>1. ContentTypeOK
    <2>1. \A t \in Types : made[t] <= Len(Maps)
      <3> SUFFICES ASSUME NEW t \in Types PROVE made[t] <= Len(Maps)
        OBVIOUS
      <3>1. made[t] \in Nat /\ acts \in 0..MaxActs
        BY <1>0 DEF ContentInv, ContentShape
      <3>2. made[t] <= 2 + acts
        BY <1>0, <3>1 DEF ContentInv, MadeByActs
      <3> QED
        BY <3>1, <3>2, ConstantsFit
    <2>2. \A t \in Types : vers[t] <= made[t] /\ cont[t] <= made[t]
      BY <1>0 DEF ContentInv, ReadIsMade
    <2> QED
      BY <1>0, <2>1, <2>2 DEF ContentTypeOK, ContentInv, ContentShape, AskedByTab, ViewFits
  <1>2. ChatTypeOK
    <2>1. /\ talk \in Seq(Message) /\ chat.msgs \in Seq(Message) /\ History(past)
          /\ tutor.url \in 0..MaxQuestions /\ tutor.url <= questions /\ tutor.renew \in {"no", "post", "read"}
          /\ questions \in 0..MaxQuestions /\ line \in {"off", "connect", "open", "backoff"} /\ tries \in 0..ChatRetries
          /\ sent \in 0..2 /\ spoiled \subseteq 0..MaxQuestions
      BY <1>0 DEF ChatInv, ChatShape, HistoryIsWhole, ChatStore, Tutor
    <2>2. \A s \in Seq(Message) : Messages(s)
      <3> SUFFICES ASSUME NEW s \in Seq(Message), NEW i \in DOMAIN s
                   PROVE  s[i].role \in {"user", "assistant"} /\ s[i].of \in 0..MaxQuestions
        BY DEF Messages
      <3>1. s[i] \in Message
        OBVIOUS
      <3> QED
        BY <3>1 DEF Message
    <2>3. Len(past) <= 1 /\ \A i \in DOMAIN past : past[i] \in Seq(Message)
      <3>1. CASE past = <<>>
        BY <3>1
      <3>2. CASE past # <<>>
        <4>1. PICK h \in Seq(Message) : past = <<h>>
          BY <2>1, <3>2 DEF History
        <4>2. Len(past) = 1 /\ DOMAIN past = 1..1 /\ past[1] = h
          BY <4>1
        <4> QED
          BY <4>2
      <3> QED
        BY <3>1, <3>2
    <2>4. tutor.url \in 0..questions
      BY <2>1
    <2> QED
      BY <2>1, <2>2, <2>3, <2>4 DEF ChatTypeOK
  <1>3. StartTypeOK
    <2>1. form \in Form /\ panel \in Panels /\ making \in {"no", "asked", "left"} /\ at \in Docs \cup {"list", "new", "away"}
      BY <1>0 DEF StartInv, StartShape
    <2>2. form.picked \subseteq Docs /\ form.mode \in {"documents", "topic", "none"}
      BY <2>1 DEF Form
    <2>3. panel.frames \in 0..2
      BY <2>1 DEF Panels
    <2> QED
      BY <2>1, <2>2, <2>3 DEF StartTypeOK
  <1>4. NewestIsShown
    <2>1. view.fresh => tab \in Types /\ view.vi = vers[tab] - 1
      BY <1>0 DEF ContentInv, FreshIsNewest
    <2>2. tab \in Types => vers[tab] \in Nat
      BY <1>0 DEF ContentInv, ContentShape
    <2>3. view.fresh => ~IsViewingOldVersion
      BY <2>1, <2>2 DEF IsViewingOldVersion
    <2> QED
      BY <2>3 DEF NewestIsShown
  <1>5. CardExists
    <2> SUFFICES ASSUME OnCards, ui.deck = Shown PROVE ui.at < Total
      BY DEF CardExists
    <2>1. tab = "flashcards" /\ tab \in Types /\ Total > 0
      BY DEF OnCards, Idle, OnTab, Types
    <2>2. Shown \in 0..Len(Cards) /\ (Shown # 0 => Cards[Shown] \in Nat)
      BY <1>0, <2>1, VersionsExist
    <2>3. Shown # 0 /\ Total = Cards[Shown] /\ Total \in Nat
      BY <2>1, <2>2 DEF Total
    <2>4. ui.at = 0 \/ (ui.deck \in DOMAIN Cards /\ ui.at < Cards[ui.deck])
      BY <1>0 DEF ContentInv, CardReached
    <2>5. CASE ui.at = 0
      BY <2>1, <2>3, <2>5
    <2>6. CASE ui.at < Cards[ui.deck]
      BY <2>3, <2>6
    <2> QED
      BY <2>4, <2>5, <2>6
  <1>6. OneGeneration
    <2> SUFFICES ASSUME NEW t \in Types PROVE loose[t] + tasks[t] + Working(t) <= 1
      BY DEF OneGeneration, Working
    <2> QED
      BY <1>0 DEF ContentInv, OneAtATime
  <1>7. ThinkingHasStream
    BY <1>0 DEF ThinkingHasStream, ContentInv, StreamOfTab
  <1> QED
    BY <1>0, <1>1, <1>2, <1>3, <1>4, <1>5, <1>6, <1>7 DEF StudyTypeOK, ContentInv, ChatInv, StartInv

-----------------------------------------------------------------------------
(* The forms of a quiz *)

PostStates == {"no", "sent", "made", "shown", "refused", "lost"}

Saved == [Slot -> Text \cup {None}]

PromptCache == [has : BOOLEAN, cached : Saved, reading : BOOLEAN, read : Saved, stale : BOOLEAN]

QuizForm ==
    [source : {"document", "topic", "none"}, sel : SUBSET File, folder : {None, Folder}, pre : SUBSET File,
     applied : BOOLEAN, topic : {"no", "topic", "url"}, modal : BOOLEAN, confirmed : BOOLEAN]

RetryForm == [how : {"ai", "manual"}, brought : SUBSET Concept, group : Group \cup {None}, keys : SUBSET Concept]

NoteList == [at : Nat \ {0}, incorrect : BOOLEAN, sel : SUBSET Note]

Request == [st : PostStates, form : Nat, awaited : BOOLEAN, tier : Tier \cup {None}, cancelled : BOOLEAN]

ListsShape ==
    /\ files \in [File -> {"ready", "other"}] /\ offered \in [File -> {"ready", "other"}]
    /\ notes \subseteq Note /\ shown \subseteq Note
    /\ got \in BOOLEAN
    /\ pref \in Tier \cup {None, OldTier}
    /\ list \in NoteList
    /\ text \in Text \cup {None}
    /\ edits \in Nat /\ moves \in Nat
    /\ site \in {"new", "retry", "notes", "quiz"}

\* Only a request that is under way is waited for.
AwaitedIsUnderWay ==
    \A i \in 1..MaxPosts : posts[i].awaited => posts[i].st \in {"sent", "made"} /\ ~posts[i].cancelled

FormInv == entry \in QuizForm /\ SelectedInFolder /\ NoticeStartsEmpty

KeysInv == retry \in RetryForm /\ KeysAreOffered

PostsInv == posts \in [1..MaxPosts -> Request] /\ AwaitedIsUnderWay /\ CancelledIsNotShown

PromptsInv == slots \in Saved /\ prompts \in PromptCache /\ PromptsAreSaved

SetupInv == ListsShape /\ FormInv /\ KeysInv /\ PostsInv /\ PromptsInv

\* Each part of the invariant speaks about a few of the variables only.
LEMMA FormRests ==
  ASSUME FormInv, UNCHANGED entry, site' = site \/ site' # "new"
  PROVE  FormInv'
  BY DEF FormInv, SelectedInFolder, NoticeStartsEmpty

LEMMA KeysRest ==
  ASSUME KeysInv, UNCHANGED <<retry, shown>>, site' = site \/ site' # "retry"
  PROVE  KeysInv'
  BY DEF KeysInv, KeysAreOffered, Offered, ConceptsOf

LEMMA PostsRest ==
  ASSUME PostsInv, UNCHANGED posts
  PROVE  PostsInv'
  BY DEF PostsInv, AwaitedIsUnderWay, CancelledIsNotShown

LEMMA PromptsRest ==
  ASSUME PromptsInv, UNCHANGED <<slots, prompts>>
  PROVE  PromptsInv'
  BY DEF PromptsInv, PromptsAreSaved

LEMMA SetupRests ==
  ASSUME SetupInv, UNCHANGED setupVars
  PROVE  SetupInv'
  <1>1. /\ UNCHANGED <<files, notes, slots, site, offered, shown, got, pref, prompts>>
        /\ UNCHANGED <<entry, retry, list, text, posts, edits, moves>>
    BY DEF setupVars
  <1>2. FormInv' /\ KeysInv' /\ PostsInv' /\ PromptsInv'
    BY <1>1, FormRests, KeysRest, PostsRest, PromptsRest DEF SetupInv
  <1> QED
    BY <1>1, <1>2 DEF SetupInv, ListsShape

LEMMA NewPages ==
  /\ NewForm \in QuizForm /\ NewForm.sel = {} /\ NewForm.folder = None /\ ~NewForm.confirmed
  /\ NewRetry \in RetryForm /\ NewRetry.keys = {} /\ NewRetry.brought = {}
  /\ NewList \in NoteList
  <1>1. NewForm \in QuizForm /\ NewForm.sel = {} /\ NewForm.folder = None /\ ~NewForm.confirmed
    BY DEF NewForm, QuizForm
  <1>2. NewRetry \in RetryForm /\ NewRetry.keys = {} /\ NewRetry.brought = {}
    BY DEF NewRetry, RetryForm
  <1>3. NewList \in NoteList
    BY DEF NewList, NoteList
  <1> QED
    BY <1>1, <1>2, <1>3

\* What is offered for a retry set are concepts, and groups are groups.
LEMMA OfferedConcepts ==
  ASSUME NEW r \in RetryForm, NEW ns \in SUBSET Note
  PROVE  Offered(r, ns) \subseteq Concept /\ Groups(ns) \subseteq Group
  <1>1. r.brought \subseteq Concept
    BY DEF RetryForm
  <1>2. ConceptOf \in [Note -> Concept \cup {None}] /\ GroupOf \in [Note -> Group]
    BY SetupAssumption
  <1>3. ConceptsOf(ns, r.group) \subseteq Concept
    BY <1>2 DEF ConceptsOf
  <1> QED
    BY <1>1, <1>2, <1>3 DEF Offered, Groups

LEMMA GroupEffectKeeps ==
  ASSUME NEW r \in RetryForm, NEW ns \in SUBSET Note, NEW q \in GroupEffect(r, ns)
  PROVE  /\ q \in RetryForm /\ q.brought = r.brought /\ q.keys = r.keys
         /\ r.group \in Groups(ns) => q = r
  <1>1. CASE r.group \in Groups(ns)
    BY <1>1 DEF GroupEffect
  <1>2. CASE r.group \notin Groups(ns)
    <2>1. PICK g \in Group \cup {None} : q = [r EXCEPT !.group = g]
      BY <1>2, OfferedConcepts DEF GroupEffect
    <2> QED
      BY <1>2, <2>1 DEF RetryForm
  <1> QED
    BY <1>1, <1>2

LEMMA KeysEffectKeeps ==
  ASSUME NEW r \in RetryForm, NEW ns \in SUBSET Note, NEW q \in KeysEffect(r, ns)
  PROVE  q \in RetryForm /\ q.brought = r.brought /\ q.group = r.group /\ q.keys \subseteq Offered(r, ns)
  <1> DEFINE valid == Offered(r, ns)
             left == r.keys \cap valid
  <1>1. valid \subseteq Concept /\ r.keys \subseteq Concept
    BY OfferedConcepts DEF RetryForm
  <1>2. \/ q = r /\ r.keys \subseteq valid
        \/ \E ks \in SUBSET Concept : ks \subseteq valid /\ q = [r EXCEPT !.keys = ks]
    <2>1. CASE left = r.keys
      BY <2>1 DEF KeysEffect
    <2>2. CASE left # r.keys /\ (left # {} \/ valid = {})
      BY <1>1, <2>2 DEF KeysEffect
    <2>3. CASE left # r.keys /\ ~(left # {} \/ valid = {})
      <3>1. PICK k \in valid : q = [r EXCEPT !.keys = {k}]
        BY <2>3 DEF KeysEffect
      <3>2. {k} \subseteq valid /\ {k} \in SUBSET Concept
        BY <1>1
      <3> QED
        BY <3>1, <3>2
    <2> QED
      BY <2>1, <2>2, <2>3
  <1> HIDE DEF valid
  <1>3. q \in RetryForm /\ q.brought = r.brought /\ q.group = r.group /\ q.keys \subseteq valid
    BY <1>2 DEF RetryForm
  <1> QED
    BY <1>3 DEF valid

\* After the effects no key is selected that is not on the screen.
LEMMA EffectsOffer ==
  ASSUME NEW r \in RetryForm, NEW ns \in SUBSET Note, NEW q \in RetryEffects(r, ns)
  PROVE  q \in RetryForm /\ q.keys \subseteq Offered(q, ns)
  <1>1. CASE r.brought = {} /\ r.group \notin Groups(ns)
    <2> DEFINE p == [r EXCEPT !.keys = {}]
    <2>1. p \in RetryForm /\ p.keys = {}
      BY DEF RetryForm
    <2>2. q \in GroupEffect(p, ns)
      BY <1>1 DEF RetryEffects
    <2> HIDE DEF p
    <2> QED
      BY <2>1, <2>2, GroupEffectKeeps
  <1>2. CASE ~(r.brought = {} /\ r.group \notin Groups(ns))
    <2>1. PICK p \in KeysEffect(r, ns) : q \in GroupEffect(p, ns)
      BY <1>2 DEF RetryEffects
    <2>2. p \in RetryForm /\ p.brought = r.brought /\ p.group = r.group /\ p.keys \subseteq Offered(r, ns)
      BY <2>1, KeysEffectKeeps
    <2>3. q \in RetryForm /\ q.brought = r.brought /\ q.keys = p.keys /\ (p.group \in Groups(ns) => q = p)
      BY <2>1, <2>2, GroupEffectKeeps
    <2>4. Offered(q, ns) = Offered(r, ns)
      BY <1>2, <2>2, <2>3 DEF Offered
    <2> QED
      BY <2>2, <2>3, <2>4
  <1> QED
    BY <1>1, <1>2

LEMMA FormOf ==
  ASSUME SetupInv
  PROVE  /\ entry \in QuizForm
         /\ site = "new" /\ entry.folder # None => entry.sel \subseteq FolderFiles \cup entry.pre
         /\ site = "new" /\ ~entry.modal => ~entry.confirmed
  BY DEF SetupInv, FormInv, SelectedInFolder, NoticeStartsEmpty

\* A page that is left or opened counts.
LEMMA MovesKeep ==
  ASSUME SetupInv, OpenNew \/ OpenNotes \/ BackHome \/ OpenRetry
  PROVE  SetupInv'
  <1>0. /\ moves \in Nat /\ None \in Text \cup {None} /\ slots \in Saved /\ prompts \in PromptCache /\ PromptsAreSaved
        /\ shown \in SUBSET Note /\ list \in NoteList
    BY DEF SetupInv, ListsShape, PromptsInv
  <1>1. ASSUME ReadPromptsAgain, UNCHANGED slots PROVE PromptsInv'
    <2>1. CASE prompts' = prompts
      BY <1>0, <1>1, <2>1 DEF PromptsInv, PromptsAreSaved
    <2>2. CASE prompts' # prompts
      <3> DEFINE yes == TRUE
      <3>1. prompts' = [prompts EXCEPT !.reading = yes, !.read = slots] /\ yes \in BOOLEAN
        BY <1>1, <2>2 DEF ReadPromptsAgain
      <3> HIDE DEF yes
      <3>2. /\ prompts' \in PromptCache /\ prompts'.has = prompts.has /\ prompts'.cached = prompts.cached
            /\ prompts'.stale = prompts.stale
        BY <1>0, <3>1 DEF PromptCache
      <3> QED
        BY <1>0, <1>1, <3>2 DEF PromptsInv, PromptsAreSaved
    <2> QED
      BY <2>1, <2>2
  <1>2. CASE OpenNew
    <2>1. /\ site' = "new" /\ moves' = moves + 1 /\ text' = None /\ ReadPromptsAgain /\ site = "quiz"
          /\ UNCHANGED <<files, notes, slots, offered, shown, got, pref, retry, list, posts, edits>>
          /\ \/ \E pre \in {{}} \cup {{f} : f \in File} : entry' = [NewForm EXCEPT !.pre = pre]
             \/ entry' = [NewForm EXCEPT !.source = "topic"]
      BY <1>2 DEF OpenNew, Move, setupServer, setupQueries
    <2>2. entry' \in QuizForm /\ entry'.sel = {} /\ entry'.folder = None /\ ~entry'.confirmed
      <3>1. CASE \E pre \in SUBSET File : entry' = [NewForm EXCEPT !.pre = pre]
        BY <3>1, NewPages DEF QuizForm
      <3>2. CASE entry' = [NewForm EXCEPT !.source = "topic"]
        BY <3>2, NewPages DEF QuizForm
      <3> QED
        BY <2>1, <3>1, <3>2
    <2>3. FormInv'
      BY <2>2 DEF FormInv, SelectedInFolder, NoticeStartsEmpty
    <2>4. KeysInv' /\ PostsInv' /\ PromptsInv'
      BY <1>1, <2>1, KeysRest, PostsRest DEF SetupInv
    <2>5. ListsShape'
      BY <1>0, <2>1, Successor DEF SetupInv, ListsShape
    <2> QED
      BY <2>3, <2>4, <2>5 DEF SetupInv
  <1>3. CASE OpenNotes
    <2>1. /\ site' = "notes" /\ moves' = moves + 1 /\ text' = None /\ list' = NewList /\ retry' = NewRetry
          /\ UNCHANGED <<files, notes, slots, offered, shown, got, pref, prompts, entry, posts, edits>>
      BY <1>3 DEF OpenNotes, Move, setupServer, setupQueries
    <2>2. KeysInv'
      BY <2>1, NewPages DEF KeysInv, KeysAreOffered
    <2>3. FormInv' /\ PostsInv' /\ PromptsInv'
      BY <2>1, FormRests, PostsRest, PromptsRest DEF SetupInv
    <2>4. ListsShape'
      BY <1>0, <2>1, NewPages, Successor DEF SetupInv, ListsShape
    <2> QED
      BY <2>2, <2>3, <2>4 DEF SetupInv
  <1>4. CASE BackHome
    <2>1. /\ site' = "quiz" /\ text' = None /\ entry' = NewForm /\ list' = NewList /\ retry' = NewRetry
          /\ UNCHANGED <<files, notes, slots, offered, shown, got, pref, prompts, posts, edits, moves>>
      BY <1>4 DEF BackHome, setupServer, setupQueries
    <2>2. KeysInv' /\ FormInv'
      BY <2>1, NewPages DEF KeysInv, KeysAreOffered, FormInv, SelectedInFolder, NoticeStartsEmpty
    <2>3. PostsInv' /\ PromptsInv'
      BY <2>1, PostsRest, PromptsRest DEF SetupInv
    <2>4. ListsShape'
      BY <1>0, <2>1, NewPages DEF SetupInv, ListsShape
    <2> QED
      BY <2>2, <2>3, <2>4 DEF SetupInv
  <1>5. CASE OpenRetry
    <2> DEFINE b == IF site = "notes" THEN {ConceptOf[n] : n \in list.sel} \ {None} ELSE {}
    <2>1. /\ site' = "retry" /\ moves' = moves + 1 /\ text' = None /\ list' = NewList /\ ReadPromptsAgain
          /\ retry' \in RetryEffects([NewRetry EXCEPT !.brought = b], shown)
          /\ UNCHANGED <<files, notes, slots, offered, shown, got, pref, entry, posts, edits>>
      BY <1>5 DEF OpenRetry, Move, setupServer, setupQueries
    <2>2. b \in SUBSET Concept
      <3>1. list.sel \subseteq Note
        BY <1>0 DEF NoteList
      <3>2. ConceptOf \in [Note -> Concept \cup {None}]
        BY SetupAssumption
      <3> QED
        BY <3>1, <3>2
    <2> HIDE DEF b
    <2>3. [NewRetry EXCEPT !.brought = b] \in RetryForm
      BY <2>2, NewPages DEF RetryForm
    <2>4. retry' \in RetryForm /\ retry'.keys \subseteq Offered(retry', shown)
      BY <1>0, <2>1, <2>3, EffectsOffer
    <2>5. KeysInv'
      BY <2>1, <2>4 DEF KeysInv, KeysAreOffered, Offered, ConceptsOf
    <2>6. FormInv' /\ PostsInv' /\ PromptsInv'
      BY <1>1, <2>1, FormRests, PostsRest DEF SetupInv
    <2>7. ListsShape'
      BY <1>0, <2>1, NewPages, Successor DEF SetupInv, ListsShape
    <2> QED
      BY <2>5, <2>6, <2>7 DEF SetupInv
  <1> QED
    BY <1>2, <1>3, <1>4, <1>5

LEMMA ServerChangesKeep ==
  ASSUME SetupInv, FileChanges \/ NoteGoes
  PROVE  SetupInv'
  <1>1. /\ UNCHANGED <<slots, site, entry, retry, list, text, offered, shown, got, pref, prompts, posts, moves>>
        /\ edits' = edits + 1 /\ files' \in [File -> {"ready", "other"}] /\ notes' \subseteq Note
    BY DEF FileChanges, NoteGoes, EditSetup, pages, setupQueries, SetupInv, ListsShape
  <1>2. FormInv' /\ KeysInv' /\ PostsInv' /\ PromptsInv'
    BY <1>1, FormRests, KeysRest, PostsRest, PromptsRest DEF SetupInv
  <1>3. ListsShape'
    BY <1>1, Successor DEF SetupInv, ListsShape
  <1> QED
    BY <1>2, <1>3 DEF SetupInv

\* The form changes: what an action has to show.
LEMMA SetFormKeeps ==
  ASSUME SetupInv, NEW fm \in QuizForm, SetForm(fm), fm.folder # None => fm.sel \subseteq FolderFiles \cup fm.pre,
         ~fm.modal => ~fm.confirmed
  PROVE  SetupInv'
  <1>1. /\ UNCHANGED <<files, notes, slots, site, retry, list, text, offered, shown, got, pref, prompts, posts, moves>>
        /\ edits' = edits + 1 /\ entry' = fm
    BY DEF SetForm, EditSetup, setupServer, setupQueries
  <1>2. FormInv'
    BY <1>1 DEF FormInv, SelectedInFolder, NoticeStartsEmpty
  <1>3. KeysInv' /\ PostsInv' /\ PromptsInv'
    BY <1>1, KeysRest, PostsRest, PromptsRest DEF SetupInv
  <1>4. ListsShape'
    BY <1>1, Successor DEF SetupInv, ListsShape
  <1> QED
    BY <1>2, <1>3, <1>4 DEF SetupInv

LEMMA ReadFilesKeeps ==
  ASSUME SetupInv, ReadFiles
  PROVE  SetupInv'
  <1> DEFINE yes == TRUE
  <1>1. /\ UNCHANGED <<files, notes, slots, site, retry, list, text, shown, pref, prompts, posts, edits, moves>>
        /\ offered' = files /\ got' = yes /\ site = "new"
        /\ \/ entry' = entry
           \/ entry' = [entry EXCEPT !.sel = entry.pre, !.source = "document", !.applied = yes]
    BY DEF ReadFiles, Preselect, setupServer
  <1>2. yes \in BOOLEAN
    OBVIOUS
  <1> HIDE DEF yes
  <1>3. FormInv'
    <2>1. CASE entry' = entry
      BY <1>1, <2>1, FormRests DEF SetupInv
    <2>2. CASE entry' = [entry EXCEPT !.sel = entry.pre, !.source = "document", !.applied = yes]
      <3>1. entry \in QuizForm /\ entry.pre \in SUBSET File
        BY FormOf DEF QuizForm
      <3>2. /\ entry' \in QuizForm /\ entry'.sel = entry.pre /\ entry'.pre = entry.pre
            /\ entry'.modal = entry.modal /\ entry'.confirmed = entry.confirmed
        BY <1>2, <2>2, <3>1 DEF QuizForm
      <3> QED
        BY <1>1, <3>2, FormOf DEF FormInv, SelectedInFolder, NoticeStartsEmpty
    <2> QED
      BY <1>1, <2>1, <2>2
  <1>4. KeysInv' /\ PostsInv' /\ PromptsInv'
    BY <1>1, KeysRest, PostsRest, PromptsRest DEF SetupInv
  <1>5. ListsShape'
    BY <1>1, <1>2 DEF SetupInv, ListsShape
  <1> QED
    BY <1>3, <1>4, <1>5 DEF SetupInv

LEMMA FormChangesKeep ==
  ASSUME SetupInv, SourceModeChange \/ FileToggle \/ SelectAllToggle \/ FolderChange \/ TypeSubject \/ TickBox
  PROVE  SetupInv'
  <1>0. /\ entry \in QuizForm /\ entry.sel \in SUBSET File /\ entry.confirmed \in BOOLEAN
        /\ site = "new" /\ entry.folder # None => entry.sel \subseteq FolderFiles \cup entry.pre
        /\ site = "new" /\ ~entry.modal => ~entry.confirmed
    BY FormOf DEF QuizForm
  <1>1. CASE SourceModeChange
    <2>1. PICK s \in {"document", "topic", "none"} : site = "new" /\ SetForm([entry EXCEPT !.source = s])
      BY <1>1 DEF SourceModeChange, CanChooseSource, OnNew
    <2> DEFINE fm == [entry EXCEPT !.source = s]
    <2>2. /\ fm \in QuizForm /\ fm.sel = entry.sel /\ fm.folder = entry.folder /\ fm.pre = entry.pre
          /\ fm.modal = entry.modal /\ fm.confirmed = entry.confirmed
      BY <1>0 DEF QuizForm
    <2>3. SetForm(fm)
      BY <2>1
    <2> HIDE DEF fm
    <2> QED
      BY <1>0, <2>1, <2>2, <2>3, SetFormKeeps
  <1>2. ASSUME NEW sel \in SUBSET File, site = "new", SetForm([entry EXCEPT !.sel = sel]),
               entry.folder # None => sel \subseteq FolderFiles \cup entry.pre
        PROVE  SetupInv'
    <2> DEFINE fm == [entry EXCEPT !.sel = sel]
    <2>2. /\ fm \in QuizForm /\ fm.sel = sel /\ fm.folder = entry.folder /\ fm.pre = entry.pre
          /\ fm.modal = entry.modal /\ fm.confirmed = entry.confirmed
      BY <1>0 DEF QuizForm
    <2>3. SetForm(fm)
      BY <1>2
    <2> HIDE DEF fm
    <2> QED
      BY <1>0, <1>2, <2>2, <2>3, SetFormKeeps
  <1>v. VisibleReady \subseteq File /\ (entry.folder # None => VisibleReady \subseteq FolderFiles)
    BY DEF VisibleReady
  <1>3. CASE FileToggle
    <2>1. PICK f \in VisibleReady : site = "new" /\ SetForm([entry EXCEPT !.sel = Toggled(@, f)])
      BY <1>3 DEF FileToggle, CanToggleFile, OnFiles, OnNew
    <2> DEFINE sel == Toggled(entry.sel, f)
    <2>2. sel \in SUBSET File /\ sel \subseteq entry.sel \cup {f}
      BY <1>0, <1>v DEF Toggled
    <2>3. SetForm([entry EXCEPT !.sel = sel])
      BY <2>1
    <2> HIDE DEF sel
    <2> QED
      BY <1>0, <1>2, <1>v, <2>1, <2>2, <2>3
  <1>4. CASE SelectAllToggle
    <2> DEFINE sel == IF AllShownSelected THEN entry.sel \ VisibleReady ELSE entry.sel \cup VisibleReady
    <2>1. site = "new" /\ SetForm([entry EXCEPT !.sel = sel])
      BY <1>4 DEF SelectAllToggle, CanSelectAll, OnFiles, OnNew
    <2>2. sel \in SUBSET File /\ sel \subseteq entry.sel \cup VisibleReady
      BY <1>0, <1>v
    <2> HIDE DEF sel
    <2> QED
      BY <1>0, <1>2, <1>v, <2>1, <2>2
  <1>5. CASE FolderChange
    <2> DEFINE none == {}
    <2>1. PICK d \in {None, Folder} : site = "new" /\ SetForm([entry EXCEPT !.folder = d, !.sel = none])
      BY <1>5 DEF FolderChange, OnFiles, OnNew
    <2>t. none \in SUBSET File /\ none \subseteq FolderFiles
      OBVIOUS
    <2> HIDE DEF none
    <2> DEFINE fm == [entry EXCEPT !.folder = d, !.sel = none]
    <2>2. fm \in QuizForm /\ fm.sel = none /\ fm.modal = entry.modal /\ fm.confirmed = entry.confirmed
      BY <1>0, <2>t DEF QuizForm
    <2>3. SetForm(fm)
      BY <2>1
    <2> HIDE DEF fm
    <2> QED
      BY <1>0, <2>1, <2>2, <2>3, <2>t, SetFormKeeps
  <1>6. CASE TypeSubject
    <2>1. PICK s \in {"no", "topic", "url"} : site = "new" /\ SetForm([entry EXCEPT !.topic = s])
      BY <1>6 DEF TypeSubject, OnNew
    <2> DEFINE fm == [entry EXCEPT !.topic = s]
    <2>2. /\ fm \in QuizForm /\ fm.sel = entry.sel /\ fm.folder = entry.folder /\ fm.pre = entry.pre
          /\ fm.modal = entry.modal /\ fm.confirmed = entry.confirmed
      BY <1>0 DEF QuizForm
    <2>3. SetForm(fm)
      BY <2>1
    <2> HIDE DEF fm
    <2> QED
      BY <1>0, <2>1, <2>2, <2>3, SetFormKeeps
  <1>7. CASE TickBox
    <2> DEFINE c == ~entry.confirmed
    <2>1. site = "new" /\ entry.modal /\ SetForm([entry EXCEPT !.confirmed = c]) /\ c \in BOOLEAN
      BY <1>7 DEF TickBox, OnNew
    <2> HIDE DEF c
    <2> DEFINE fm == [entry EXCEPT !.confirmed = c]
    <2>2. /\ fm \in QuizForm /\ fm.sel = entry.sel /\ fm.folder = entry.folder /\ fm.pre = entry.pre
          /\ fm.modal = entry.modal
      BY <1>0, <2>1 DEF QuizForm
    <2>3. SetForm(fm)
      BY <2>1
    <2> HIDE DEF fm
    <2> QED
      BY <1>0, <2>1, <2>2, <2>3, SetFormKeeps
  <1> QED
    BY <1>1, <1>3, <1>4, <1>5, <1>6, <1>7

\* One request changes: what a step has to show about it.
LEMMA PostKeeps ==
  ASSUME SetupInv, NEW i \in 1..MaxPosts, NEW p \in Request, posts' = [posts EXCEPT ![i] = p],
         p.awaited => p.st \in {"sent", "made"} /\ ~p.cancelled, p.cancelled => p.st # "shown"
  PROVE  PostsInv'
  <1>1. posts \in [1..MaxPosts -> Request] /\ AwaitedIsUnderWay /\ CancelledIsNotShown
    BY DEF SetupInv, PostsInv
  <1>2. posts' \in [1..MaxPosts -> Request]
    BY <1>1
  <1>3. posts'[i] = p /\ \A j \in 1..MaxPosts : j # i => posts'[j] = posts[j]
    BY <1>1
  <1> HIDE DEF AwaitedIsUnderWay, CancelledIsNotShown
  <1>4. AwaitedIsUnderWay'
    BY <1>1, <1>3 DEF AwaitedIsUnderWay
  <1>5. CancelledIsNotShown'
    BY <1>1, <1>3 DEF CancelledIsNotShown
  <1> QED
    BY <1>2, <1>4, <1>5 DEF PostsInv

LEMMA RequestOf ==
  ASSUME SetupInv, NEW i \in 1..MaxPosts
  PROVE  /\ posts[i] \in Request /\ posts \in [1..MaxPosts -> Request]
         /\ posts[i].awaited => posts[i].st \in {"sent", "made"} /\ ~posts[i].cancelled
         /\ posts[i].cancelled => posts[i].st # "shown"
  BY DEF SetupInv, PostsInv, AwaitedIsUnderWay, CancelledIsNotShown

LEMMA Posted ==
  ASSUME SetupInv, Post
  PROVE  PostsInv'
  <1>0. moves \in Nat /\ pref \in Tier \cup {None, OldTier}
    BY DEF SetupInv, ListsShape
  <1>1. PICK i \in 1..MaxPosts, known_ \in BOOLEAN :
          posts' = [posts EXCEPT ![i] = [st |-> "sent", form |-> moves, awaited |-> TRUE,
                                         tier |-> ActiveTier(known_), cancelled |-> FALSE]]
    BY DEF Post
  <1> DEFINE p == [st |-> "sent", form |-> moves, awaited |-> TRUE, tier |-> ActiveTier(known_), cancelled |-> FALSE]
  <1>2. ActiveTier(known_) \in Tier \cup {None}
    <2>1. DefaultTier \in Tier
      BY SetupAssumption DEF DefaultTier
    <2> QED
      BY <2>1 DEF ActiveTier
  <1>3. p \in Request /\ p.st = "sent" /\ p.awaited /\ ~p.cancelled
    BY <1>0, <1>2 DEF Request, PostStates
  <1>4. posts' = [posts EXCEPT ![i] = p]
    BY <1>1
  <1> HIDE DEF p
  <1> QED
    BY <1>3, <1>4, PostKeeps

LEMMA ModalReset ==
  ASSUME SetupInv, entry' = ResetNoSourceModal(entry), UNCHANGED site
  PROVE  FormInv'
  <1> DEFINE no == FALSE
  <1>1. entry' = [entry EXCEPT !.modal = no, !.confirmed = no] /\ no \in BOOLEAN /\ ~no
    BY DEF ResetNoSourceModal
  <1> HIDE DEF no
  <1>2. /\ entry' \in QuizForm /\ entry'.sel = entry.sel /\ entry'.folder = entry.folder
        /\ entry'.pre = entry.pre /\ entry'.confirmed = no
    BY <1>1, FormOf DEF QuizForm
  <1> QED
    BY <1>1, <1>2, FormOf DEF FormInv, SelectedInFolder, NoticeStartsEmpty

LEMMA AskingKeeps ==
  ASSUME SetupInv, Submit \/ ConfirmNoSource \/ CloseModal \/ CancelGeneration \/ CreateRetry
  PROVE  SetupInv'
  <1>1. /\ UNCHANGED <<files, notes, slots, site, retry, list, text, offered, shown, got, pref, prompts, edits, moves>>
        /\ \/ entry' = entry /\ Post
           \/ entry' = [entry EXCEPT !.modal = TRUE] /\ UNCHANGED posts
           \/ entry' = ResetNoSourceModal(entry) /\ UNCHANGED posts
           \/ CancelGeneration
    BY DEF Submit, ConfirmNoSource, CloseModal, CancelGeneration, CreateRetry, setupServer, setupQueries, pages
  <1>2. ListsShape' /\ KeysInv' /\ PromptsInv'
    BY <1>1, KeysRest, PromptsRest DEF SetupInv, ListsShape
  <1>3. CASE entry' = entry /\ Post
    <2>1. FormInv'
      BY <1>1, <1>3, FormRests DEF SetupInv
    <2> QED
      BY <1>2, <1>3, <2>1, Posted DEF SetupInv
  <1>4. CASE entry' = [entry EXCEPT !.modal = TRUE] /\ UNCHANGED posts
    <2> DEFINE yes == TRUE
    <2>1. entry' = [entry EXCEPT !.modal = yes] /\ yes \in BOOLEAN /\ yes
      BY <1>4
    <2> HIDE DEF yes
    <2>2. /\ entry' \in QuizForm /\ entry'.sel = entry.sel /\ entry'.folder = entry.folder
          /\ entry'.pre = entry.pre /\ entry'.modal = yes
      BY <2>1, FormOf DEF QuizForm
    <2>3. FormInv'
      BY <1>1, <2>1, <2>2, FormOf DEF FormInv, SelectedInFolder, NoticeStartsEmpty
    <2>4. PostsInv'
      BY <1>4, PostsRest DEF SetupInv
    <2> QED
      BY <1>2, <2>3, <2>4 DEF SetupInv
  <1>5. CASE entry' = ResetNoSourceModal(entry) /\ UNCHANGED posts
    <2>1. FormInv' /\ PostsInv'
      BY <1>1, <1>5, ModalReset, PostsRest DEF SetupInv
    <2> QED
      BY <1>2, <2>1 DEF SetupInv
  <1>6. CASE CancelGeneration
    <2>1. /\ entry' = ResetNoSourceModal(entry)
          /\ posts' = [i \in 1..MaxPosts |-> IF i \in Awaited THEN Abort(posts[i]) ELSE posts[i]]
      BY <1>6 DEF CancelGeneration
    <2>2. FormInv'
      BY <1>1, <2>1, ModalReset
    <2>3. ASSUME NEW i \in 1..MaxPosts
          PROVE  /\ posts'[i] \in Request
                 /\ posts'[i].awaited => posts'[i].st \in {"sent", "made"} /\ ~posts'[i].cancelled
                 /\ posts'[i].cancelled => posts'[i].st # "shown"
      <3>1. CASE i \in Awaited
        <4> DEFINE yes == TRUE
                   no == FALSE
        <4>1. posts'[i] = [posts[i] EXCEPT !.awaited = no, !.cancelled = yes]
          BY <2>1, <3>1 DEF Abort
        <4>2. posts[i].awaited /\ yes \in BOOLEAN /\ no \in BOOLEAN /\ ~no
          BY <3>1 DEF Awaited
        <4> HIDE DEF yes, no
        <4>3. posts'[i] \in Request /\ posts'[i].st = posts[i].st /\ posts'[i].awaited = no
          BY <4>1, <4>2, RequestOf, ZenonT(30) DEF Request
        <4> QED
          BY <4>2, <4>3, RequestOf
      <3>2. CASE i \notin Awaited
        BY <2>1, <3>2, RequestOf
      <3> QED
        BY <3>1, <3>2
    <2>4. posts' \in [1..MaxPosts -> Request]
      <3>1. posts' = [i \in 1..MaxPosts |-> posts'[i]]
        BY <2>1
      <3> QED
        BY <2>3, <3>1
    <2>5. PostsInv'
      BY <2>3, <2>4 DEF PostsInv, AwaitedIsUnderWay, CancelledIsNotShown
    <2> QED
      BY <1>2, <2>2, <2>5 DEF SetupInv
  <1> QED
    BY <1>1, <1>3, <1>4, <1>5, <1>6

LEMMA RepliesKeep ==
  ASSUME SetupInv, NEW i \in 1..MaxPosts, Create(i) \/ QuizRefused(i) \/ ReplyLost(i) \/ GoToQuiz(i)
  PROVE  SetupInv'
  <1>0. /\ posts[i] \in Request /\ posts \in [1..MaxPosts -> Request]
        /\ posts[i].awaited => posts[i].st \in {"sent", "made"} /\ ~posts[i].cancelled
    BY RequestOf
  <1> DEFINE no == FALSE
  <1>t. no \in BOOLEAN /\ ~no
    OBVIOUS
  <1>1. ASSUME NEW st \in PostStates, posts' = [posts EXCEPT ![i].st = st, ![i].awaited = no],
               st = "shown" => ~posts[i].cancelled
        PROVE  PostsInv'
    <2> DEFINE p == [posts[i] EXCEPT !.st = st, !.awaited = no]
    <2>1. posts' = [posts EXCEPT ![i] = p]
      BY <1>0, <1>1
    <2> HIDE DEF no
    <2>2. p \in Request /\ p.st = st /\ p.awaited = no /\ p.cancelled = posts[i].cancelled
      BY <1>0, <1>t DEF Request
    <2> HIDE DEF p
    <2> QED
      BY <1>1, <1>t, <2>1, <2>2, PostKeeps
  <1>2. CASE GoToQuiz(i)
    <2>1. /\ posts[i].awaited /\ posts' = [posts EXCEPT ![i].st = "shown", ![i].awaited = no]
          /\ site' = "quiz" /\ text' = None /\ entry' = NewForm /\ list' = NewList /\ retry' = NewRetry
          /\ UNCHANGED <<files, notes, slots, offered, shown, got, pref, prompts, edits, moves>>
      BY <1>2 DEF GoToQuiz, setupServer, setupQueries
    <2>2. PostsInv'
      BY <1>0, <1>1, <2>1 DEF PostStates
    <2>3. KeysInv' /\ FormInv'
      BY <2>1, NewPages DEF KeysInv, KeysAreOffered, FormInv, SelectedInFolder, NoticeStartsEmpty
    <2>4. PromptsInv'
      BY <2>1, PromptsRest DEF SetupInv
    <2>5. ListsShape'
      BY <2>1, NewPages DEF SetupInv, ListsShape
    <2> QED
      BY <2>2, <2>3, <2>4, <2>5 DEF SetupInv
  <1>3. CASE Create(i) \/ QuizRefused(i) \/ ReplyLost(i)
    <2>1. UNCHANGED <<files, notes, slots, site, entry, retry, list, text, offered, shown, got, pref, prompts, edits, moves>>
      BY <1>3 DEF Create, QuizRefused, ReplyLost, setupServer, setupQueries, pages
    <2>2. PostsInv'
      <3>1. CASE QuizRefused(i) \/ ReplyLost(i)
        <4>1. PICK st \in {"refused", "lost"} : posts' = [posts EXCEPT ![i].st = st, ![i].awaited = no]
          BY <3>1 DEF QuizRefused, ReplyLost
        <4> QED
          BY <1>1, <4>1 DEF PostStates
      <3>2. CASE Create(i)
        <4> DEFINE p == [posts[i] EXCEPT !.st = "made"]
        <4>1. posts' = [posts EXCEPT ![i] = p]
          BY <1>0, <3>2 DEF Create
        <4>2. p \in Request /\ p.st = "made" /\ p.awaited = posts[i].awaited /\ p.cancelled = posts[i].cancelled
          BY <1>0 DEF Request, PostStates
        <4> HIDE DEF p
        <4> QED
          BY <1>0, <4>1, <4>2, PostKeeps
      <3> QED
        BY <1>3, <3>1, <3>2
    <2>3. FormInv' /\ KeysInv' /\ PromptsInv'
      BY <2>1, FormRests, KeysRest, PromptsRest DEF SetupInv
    <2>4. ListsShape'
      BY <2>1 DEF SetupInv, ListsShape
    <2> QED
      BY <2>2, <2>3, <2>4 DEF SetupInv
  <1> QED
    BY <1>2, <1>3

LEMMA SetListKeeps ==
  ASSUME SetupInv, NEW l \in NoteList, SetList(l)
  PROVE  SetupInv'
  <1>1. /\ UNCHANGED <<files, notes, slots, site, entry, retry, text, offered, shown, got, pref, prompts, posts, moves>>
        /\ edits' = edits + 1 /\ list' = l
    BY DEF SetList, EditSetup, setupServer, setupQueries
  <1>2. FormInv' /\ KeysInv' /\ PostsInv' /\ PromptsInv'
    BY <1>1, FormRests, KeysRest, PostsRest, PromptsRest DEF SetupInv
  <1>3. ListsShape'
    BY <1>1, Successor DEF SetupInv, ListsShape
  <1> QED
    BY <1>2, <1>3 DEF SetupInv

LEMMA NotesKeep ==
  ASSUME SetupInv, NoteToggle \/ ClearNotes \/ FilterChange \/ PageChange
  PROVE  SetupInv'
  <1>0. list \in NoteList /\ list.sel \subseteq Note /\ list.incorrect \in BOOLEAN
    BY DEF SetupInv, ListsShape, NoteList
  <1>1. ASSUME NEW sel \in SUBSET Note, SetList([list EXCEPT !.sel = sel]) PROVE SetupInv'
    <2>1. [list EXCEPT !.sel = sel] \in NoteList
      BY <1>0 DEF NoteList
    <2> QED
      BY <1>1, <2>1, SetListKeeps
  <1>2. CASE NoteToggle
    <2>1. PICK n \in Note : SetList([list EXCEPT !.sel = Toggled(@, n)])
      BY <1>2 DEF NoteToggle
    <2> DEFINE sel == Toggled(list.sel, n)
    <2>2. sel \in SUBSET Note
      BY <1>0 DEF Toggled
    <2>3. SetList([list EXCEPT !.sel = sel])
      BY <2>1
    <2> HIDE DEF sel
    <2> QED
      BY <1>1, <2>2, <2>3
  <1>3. CASE ClearNotes
    <2>1. SetList([list EXCEPT !.sel = {}]) /\ {} \in SUBSET Note
      BY <1>3 DEF ClearNotes
    <2> QED
      BY <1>1, <2>1
  <1>4. CASE FilterChange
    <2> DEFINE c == ~list.incorrect
    <2>1. SetList([list EXCEPT !.incorrect = c]) /\ c \in BOOLEAN
      BY <1>4 DEF FilterChange
    <2> HIDE DEF c
    <2>2. [list EXCEPT !.incorrect = c] \in NoteList
      BY <1>0, <2>1 DEF NoteList
    <2> QED
      BY <2>1, <2>2, SetListKeeps
  <1>5. CASE PageChange
    <2>1. PICK k \in 1..Pages : SetList([list EXCEPT !.at = k])
      BY <1>5 DEF PageChange
    <2>2. k \in Nat \ {0}
      OBVIOUS
    <2>3. [list EXCEPT !.at = k] \in NoteList
      BY <1>0, <2>2 DEF NoteList
    <2> QED
      BY <2>1, <2>3, SetListKeeps
  <1> QED
    BY <1>2, <1>3, <1>4, <1>5

LEMMA ReadNotesKeeps ==
  ASSUME SetupInv, ReadNotesForRetry
  PROVE  SetupInv'
  <1>1. /\ UNCHANGED <<files, notes, slots, site, offered, got, pref, prompts, entry, list, text, posts, edits, moves>>
        /\ shown' = notes /\ notes \in SUBSET Note /\ retry \in RetryForm
        /\ retry' \in IF site = "retry" THEN RetryEffects(retry, notes) ELSE {retry}
    BY DEF ReadNotesForRetry, ReadNotes, setupServer, SetupInv, ListsShape, KeysInv
  <1>2. KeysInv'
    <2>1. CASE site = "retry"
      <3>1. retry' \in RetryForm /\ retry'.keys \subseteq Offered(retry', notes)
        BY <1>1, <2>1, EffectsOffer
      <3> QED
        BY <1>1, <3>1 DEF KeysInv, KeysAreOffered, Offered, ConceptsOf
    <2>2. CASE site # "retry"
      BY <1>1, <2>2 DEF KeysInv, KeysAreOffered
    <2> QED
      BY <2>1, <2>2
  <1>3. FormInv' /\ PostsInv' /\ PromptsInv'
    BY <1>1, FormRests, PostsRest, PromptsRest DEF SetupInv
  <1>4. ListsShape'
    BY <1>1 DEF SetupInv, ListsShape
  <1> QED
    BY <1>2, <1>3, <1>4 DEF SetupInv

LEMMA SetRetryKeeps ==
  ASSUME SetupInv, NEW r \in RetryForm, SetRetry(r), r.keys \subseteq Offered(r, shown)
  PROVE  SetupInv'
  <1>1. /\ UNCHANGED <<files, notes, slots, site, entry, list, text, offered, shown, got, pref, prompts, posts, moves>>
        /\ edits' = edits + 1 /\ retry' = r
    BY DEF SetRetry, EditSetup, setupServer, setupQueries
  <1>2. KeysInv'
    BY <1>1 DEF KeysInv, KeysAreOffered, Offered, ConceptsOf
  <1>3. FormInv' /\ PostsInv' /\ PromptsInv'
    BY <1>1, FormRests, PostsRest, PromptsRest DEF SetupInv
  <1>4. ListsShape'
    BY <1>1, Successor DEF SetupInv, ListsShape
  <1> QED
    BY <1>2, <1>3, <1>4 DEF SetupInv

LEMMA RetryChangesKeep ==
  ASSUME SetupInv, ConceptModeChange \/ GroupChange \/ ConceptToggle
  PROVE  SetupInv'
  <1>0. /\ retry \in RetryForm /\ retry.keys \subseteq Concept /\ shown \in SUBSET Note
        /\ site = "retry" => retry.keys \subseteq Offered(retry, shown)
    BY DEF SetupInv, ListsShape, KeysInv, KeysAreOffered, RetryForm
  <1>1. CASE ConceptModeChange
    <2>1. PICK h \in {"ai", "manual"} : site = "retry" /\ SetRetry([retry EXCEPT !.how = h])
      BY <1>1 DEF ConceptModeChange, CanChooseMode
    <2> DEFINE r == [retry EXCEPT !.how = h]
    <2>2. r \in RetryForm /\ r.keys = retry.keys /\ r.brought = retry.brought /\ r.group = retry.group
      BY <1>0 DEF RetryForm
    <2>3. SetRetry(r)
      BY <2>1
    <2> HIDE DEF r
    <2>4. r.keys \subseteq Offered(r, shown)
      BY <1>0, <2>1, <2>2 DEF Offered
    <2> QED
      BY <2>2, <2>3, <2>4, SetRetryKeeps
  <1>2. CASE GroupChange
    <2> DEFINE none == {}
    <2>1. PICK g \in Groups(shown) : SetRetry([retry EXCEPT !.group = g, !.keys = none])
      BY <1>2 DEF GroupChange
    <2>2. g \in Group \cup {None} /\ none \in SUBSET Concept /\ \A S : none \subseteq S
      BY <1>0, OfferedConcepts
    <2> HIDE DEF none
    <2> DEFINE r == [retry EXCEPT !.group = g, !.keys = none]
    <2>3. r \in RetryForm /\ r.keys = none
      BY <1>0, <2>2 DEF RetryForm
    <2>4. SetRetry(r)
      BY <2>1
    <2> HIDE DEF r
    <2> QED
      BY <2>2, <2>3, <2>4, SetRetryKeeps
  <1>3. CASE ConceptToggle
    <2>1. PICK k \in Offered(retry, shown) : site = "retry" /\ SetRetry([retry EXCEPT !.keys = Toggled(@, k)])
      BY <1>3 DEF ConceptToggle, Manual
    <2> DEFINE ks == Toggled(retry.keys, k)
    <2>2. ks \in SUBSET Concept /\ ks \subseteq Offered(retry, shown)
      BY <1>0, <2>1, OfferedConcepts DEF Toggled
    <2>3. SetRetry([retry EXCEPT !.keys = ks])
      BY <2>1
    <2> HIDE DEF ks
    <2> DEFINE r == [retry EXCEPT !.keys = ks]
    <2>4. r \in RetryForm /\ r.keys = ks /\ r.brought = retry.brought /\ r.group = retry.group
      BY <1>0, <2>2 DEF RetryForm
    <2>5. SetRetry(r)
      BY <2>3
    <2> HIDE DEF r
    <2>6. Offered(r, shown) = Offered(retry, shown)
      BY <2>4 DEF Offered
    <2> QED
      BY <2>2, <2>4, <2>5, <2>6, SetRetryKeeps
  <1> QED
    BY <1>1, <1>2, <1>3

LEMMA SettingsKeep ==
  ASSUME SetupInv, PickTier \/ TypeInstruction \/ LoadPrompt
  PROVE  SetupInv'
  <1>0. prompts \in PromptCache /\ prompts.cached \in Saved
    BY DEF SetupInv, PromptsInv, PromptCache
  <1>1. /\ UNCHANGED <<files, notes, slots, site, entry, retry, list, offered, shown, got, prompts, posts, moves>>
        /\ edits' = edits + 1
    BY DEF PickTier, TypeInstruction, LoadPrompt, EditSetup, setupServer, setupQueries, pages
  <1>2. pref' \in Tier \cup {None, OldTier} /\ text' \in Text \cup {None}
    <2>0. pref \in Tier \cup {None, OldTier} /\ text \in Text \cup {None}
      BY DEF SetupInv, ListsShape
    <2>1. CASE PickTier
      BY <2>0, <2>1 DEF PickTier, pages
    <2>2. CASE TypeInstruction
      BY <2>0, <2>2 DEF TypeInstruction
    <2>3. CASE LoadPrompt
      BY <1>0, <2>0, <2>3 DEF LoadPrompt, Saved
    <2> QED
      BY <2>1, <2>2, <2>3
  <1>3. FormInv' /\ KeysInv' /\ PostsInv' /\ PromptsInv'
    BY <1>1, FormRests, KeysRest, PostsRest, PromptsRest DEF SetupInv
  <1>4. ListsShape'
    BY <1>1, <1>2, Successor DEF SetupInv, ListsShape
  <1> QED
    BY <1>3, <1>4 DEF SetupInv

LEMMA PromptsKeep ==
  ASSUME SetupInv, ShowPrompts \/ SavePrompt \/ OverwritePrompt \/ DeletePrompt
  PROVE  SetupInv'
  <1>0. /\ prompts \in PromptCache /\ slots \in Saved /\ prompts.cached \in Saved /\ prompts.read \in Saved
        /\ (prompts.has /\ ~prompts.stale => \A s \in Slot : prompts.cached[s] = slots[s])
        /\ text \in Text \cup {None}
    BY DEF SetupInv, ListsShape, PromptsInv, PromptsAreSaved, PromptCache
  <1>1. /\ UNCHANGED <<files, notes, site, entry, retry, list, text, offered, shown, got, pref, posts, moves>>
        /\ edits' = edits \/ edits' = edits + 1
    BY DEF ShowPrompts, SavePrompt, OverwritePrompt, DeletePrompt, Upsert, EditSetup, setupServer, setupQueries, pages
  <1>2. ListsShape' /\ FormInv' /\ KeysInv' /\ PostsInv'
    <2>1. ListsShape'
      BY <1>1, Successor DEF SetupInv, ListsShape
    <2> QED
      BY <1>1, <2>1, FormRests, KeysRest, PostsRest DEF SetupInv
  <1>3. PromptsInv'
    <2>1. CASE ShowPrompts
      <3> DEFINE yes == TRUE
                 no == FALSE
                 none == [s \in Slot |-> None]
                 old == (prompts.read # slots)
      <3>1. /\ slots' = slots
            /\ prompts' = [prompts EXCEPT !.has = yes, !.cached = prompts.read, !.reading = no, !.read = none, !.stale = old]
        BY <2>1 DEF ShowPrompts, setupServer
      <3>2. yes \in BOOLEAN /\ no \in BOOLEAN /\ old \in BOOLEAN /\ none \in Saved
        BY DEF Saved
      <3>3. ~old => prompts.read = slots
        OBVIOUS
      <3> HIDE DEF yes, no, none, old
      <3>4. prompts' \in PromptCache /\ prompts'.cached = prompts.read /\ prompts'.stale = old
        BY <1>0, <3>1, <3>2 DEF PromptCache
      <3> QED
        BY <1>0, <3>1, <3>3, <3>4 DEF PromptsInv, PromptsAreSaved
    <2>2. CASE SavePrompt \/ OverwritePrompt \/ DeletePrompt
      <3>1. PICK s \in Slot, t \in Text \cup {None} : Upsert(s, t)
        BY <1>0, <2>2 DEF SavePrompt, OverwritePrompt, DeletePrompt
      <3> DEFINE cs == [prompts.cached EXCEPT ![s] = t]
      <3>2. slots' = [slots EXCEPT ![s] = t] /\ prompts' = [prompts EXCEPT !.cached = cs]
        BY <1>0, <3>1 DEF Upsert, WriteToCache, PromptCache
      <3>3. slots' \in Saved /\ cs \in Saved /\ \A x \in Slot : cs[x] = IF x = s THEN t ELSE prompts.cached[x]
        BY <1>0, <3>2 DEF Saved
      <3>4. \A x \in Slot : slots'[x] = IF x = s THEN t ELSE slots[x]
        BY <1>0, <3>2 DEF Saved
      <3> HIDE DEF cs
      <3>5. /\ prompts' \in PromptCache /\ prompts'.cached = cs /\ prompts'.stale = prompts.stale
            /\ prompts'.has = prompts.has
        BY <1>0, <3>2, <3>3 DEF PromptCache
      <3>6. PromptsAreSaved'
        BY <1>0, <3>3, <3>4, <3>5 DEF PromptsAreSaved
      <3> QED
        BY <3>3, <3>5, <3>6 DEF PromptsInv
    <2> QED
      BY <2>1, <2>2
  <1> QED
    BY <1>2, <1>3 DEF SetupInv

LEMMA SetupSteps ==
  ASSUME SetupInv, SetupNext
  PROVE  SetupInv'
  <1>1. CASE OpenNew \/ OpenNotes \/ BackHome \/ OpenRetry
    BY <1>1, MovesKeep
  <1>2. CASE FileChanges \/ NoteGoes
    BY <1>2, ServerChangesKeep
  <1>3. CASE ReadFiles
    BY <1>3, ReadFilesKeeps
  <1>4. CASE SourceModeChange \/ FileToggle \/ SelectAllToggle \/ FolderChange \/ TypeSubject \/ TickBox
    BY <1>4, FormChangesKeep
  <1>5. CASE Submit \/ ConfirmNoSource \/ CloseModal \/ CancelGeneration \/ CreateRetry
    BY <1>5, AskingKeeps
  <1>6. CASE \E i \in 1..MaxPosts : Create(i) \/ QuizRefused(i) \/ ReplyLost(i) \/ GoToQuiz(i)
    BY <1>6, RepliesKeep
  <1>7. CASE NoteToggle \/ ClearNotes \/ FilterChange \/ PageChange
    BY <1>7, NotesKeep
  <1>8. CASE ReadNotesForRetry
    BY <1>8, ReadNotesKeeps
  <1>9. CASE ConceptModeChange \/ GroupChange \/ ConceptToggle
    BY <1>9, RetryChangesKeep
  <1>10. CASE PickTier \/ TypeInstruction \/ LoadPrompt
    BY <1>10, SettingsKeep
  <1>11. CASE ShowPrompts \/ SavePrompt \/ OverwritePrompt \/ DeletePrompt
    BY <1>11, PromptsKeep
  <1> QED
    BY <1>1, <1>2, <1>3, <1>4, <1>5, <1>6, <1>7, <1>8, <1>9, <1>10, <1>11 DEF SetupNext

LEMMA SetupStarts == SetupInit => SetupInv
  <1> SUFFICES ASSUME SetupInit PROVE SetupInv
    OBVIOUS
  <1> DEFINE empty == [s \in Slot |-> None]
             no == FALSE
  <1>1. /\ files \in [File -> {"ready", "other"}] /\ notes = Note /\ slots = empty /\ site = "quiz"
        /\ offered = [f \in File |-> "other"] /\ shown = {} /\ got = no /\ pref \in Stored
        /\ prompts = [has |-> no, cached |-> slots, reading |-> no, read |-> slots, stale |-> no]
        /\ entry = NewForm /\ retry = NewRetry /\ list = NewList /\ text = None
        /\ posts = [i \in 1..MaxPosts |-> NoPost] /\ edits = 0 /\ moves = 0
    BY DEF SetupInit
  <1>2. empty \in Saved /\ no \in BOOLEAN /\ ~no
    BY DEF Saved
  <1> HIDE DEF empty, no
  <1>3. ListsShape
    <2>1. Stored \subseteq {None, OldTier}
      BY SetupAssumption
    <2>2. offered \in [File -> {"ready", "other"}]
      BY <1>1
    <2> QED
      BY <1>1, <1>2, <2>1, <2>2, NewPages DEF ListsShape
  <1>4. FormInv /\ KeysInv
    BY <1>1, NewPages DEF FormInv, SelectedInFolder, NoticeStartsEmpty, KeysInv, KeysAreOffered
  <1>5. PostsInv
    <2>1. NoPost \in Request /\ ~NoPost.awaited /\ ~NoPost.cancelled
      BY DEF NoPost, Request, PostStates
    <2>2. posts \in [1..MaxPosts -> Request] /\ \A i \in 1..MaxPosts : posts[i] = NoPost
      BY <1>1, <2>1
    <2> QED
      BY <2>1, <2>2 DEF PostsInv, AwaitedIsUnderWay, CancelledIsNotShown
  <1>6. PromptsInv
    <2>1. prompts \in PromptCache /\ ~prompts.has
      BY <1>1, <1>2 DEF PromptCache
    <2> QED
      BY <1>1, <1>2, <2>1 DEF PromptsInv, PromptsAreSaved
  <1> QED
    BY <1>3, <1>4, <1>5, <1>6 DEF SetupInv

LEMMA SetupHolds ==
  ASSUME SetupInv
  PROVE  /\ SetupTypeOK /\ SelectedInFolder /\ NoticeStartsEmpty /\ CancelledIsNotShown
         /\ TierIsOffered /\ PromptsAreSaved /\ KeysAreOffered
  <1>1. SetupTypeOK
    <2>1. entry.sel \subseteq File /\ entry.folder \in {None, Folder}
      BY DEF SetupInv, FormInv, QuizForm
    <2>2. retry.keys \subseteq Concept /\ retry.group \in Group \cup {None}
      BY DEF SetupInv, KeysInv, RetryForm
    <2>3. list.sel \subseteq Note /\ list.at \in Nat \ {0}
      BY DEF SetupInv, ListsShape, NoteList
    <2>4. site \in {"new", "retry", "notes", "quiz"} /\ pref \in Tier \cup {None, OldTier}
      BY DEF SetupInv, ListsShape
    <2>5. \A i \in 1..MaxPosts : posts[i].st \in {"no", "sent", "made", "shown", "refused", "lost"}
      BY RequestOf DEF Request, PostStates
    <2> QED
      BY <2>1, <2>2, <2>3, <2>4, <2>5 DEF SetupTypeOK
  <1>2. TierIsOffered
    BY RequestOf DEF TierIsOffered, Request
  <1>3. SelectedInFolder /\ NoticeStartsEmpty
    BY DEF SetupInv, FormInv
  <1>4. CancelledIsNotShown /\ PromptsAreSaved /\ KeysAreOffered
    BY DEF SetupInv, PostsInv, PromptsInv, KeysInv
  <1> QED
    BY <1>1, <1>2, <1>3, <1>4

-----------------------------------------------------------------------------
(* Both parts *)

LearningInv == StudyInv /\ SetupInv

LEMMA LearningInvariant == Spec => []LearningInv
  <1>1. Init => LearningInv
    BY StudyStarts, SetupStarts DEF Init, LearningInv
  <1>2. LearningInv /\ [Next]_learningVars => LearningInv'
    <2> SUFFICES ASSUME LearningInv, [Next]_learningVars PROVE LearningInv'
      OBVIOUS
    <2>0. StudyInv /\ SetupInv
      BY DEF LearningInv
    <2>1. CASE StudyNext /\ UNCHANGED setupVars
      BY <2>0, <2>1, StudySteps, SetupRests DEF LearningInv
    <2>2. CASE SetupNext /\ UNCHANGED studyVars
      BY <2>0, <2>2, SetupSteps, StudyRests DEF LearningInv
    <2>3. CASE UNCHANGED learningVars
      <3>1. UNCHANGED studyVars /\ UNCHANGED setupVars
        BY <2>3 DEF learningVars
      <3> QED
        BY <2>0, <3>1, SetupRests, StudyRests DEF LearningInv
    <2> QED
      BY <2>1, <2>2, <2>3 DEF Next
  <1> QED
    BY <1>1, <1>2, PTL DEF Spec

\* However often streams break, are cancelled or left, and whatever tasks take over: no
\* kind of study content is generated twice at once.  (stream_summary_generation: 409)
THEOREM OneAtOnce == Spec => []OneGeneration
  <1>1. LearningInv => OneGeneration
    BY StudyHolds DEF LearningInv
  <1> QED
    BY <1>1, LearningInvariant, PTL

\* A tab thinks exactly while it has a stream: no order of replies, refusals, broken
\* connections and clicks leaves it thinking for ever.  (useStudyStreaming)
THEOREM ThinkingEnds == Spec => []ThinkingHasStream
  <1>1. LearningInv => ThinkingHasStream
    BY StudyHolds DEF LearningInv
  <1> QED
    BY <1>1, LearningInvariant, PTL

\* A retry set is asked only for concepts on the screen, whatever becomes of the notes
\* while they are selected.  (Retry: the effects)
THEOREM RetryIsOffered == Spec => []KeysAreOffered
  <1>1. LearningInv => KeysAreOffered
    BY SetupHolds DEF LearningInv
  <1> QED
    BY <1>1, LearningInvariant, PTL

\* The pages show what was chosen, asked for and read, for any documents, versions,
\* questions, notes and prompts.
THEOREM PagesAgree == Spec => []LearningConsistent
  <1>1. LearningInv => LearningConsistent
    BY StudyHolds, SetupHolds DEF LearningInv, LearningConsistent
  <1> QED
    BY <1>1, LearningInvariant, PTL
=============================================================================

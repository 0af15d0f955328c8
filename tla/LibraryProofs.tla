---------------------------- MODULE LibraryProofs ----------------------------
(***************************************************************************)
(* The upload queue and the list of files, for any number of files, slots  *)
(* and retries: the counter of running uploads is the number of uploads    *)
(* that have not settled, so that no slot stays free while a file waits,   *)
(* every row of the queue tells what becomes of its file, and a file that  *)
(* is processed for ever has a cause that the code knows.                  *)
(***************************************************************************)
EXTENDS ArraysProofs, Library

-----------------------------------------------------------------------------
\* The counter of the queue.  It depends neither on what waits nor on which items the
\* uploads are of: those of some set Y.

AnyUpload(Y) == [item : Y, at : Place, open : BOOLEAN, renewed : BOOLEAN, old : Nat]

QueueShape == /\ \E Y : uploads \in Seq(AnyUpload(Y))
              /\ running \in Nat /\ pumping \in {"no", "click", "later"}

SlotInv == QueueShape /\ RunningIsOpen /\ NoIdleSlot

LEMMA OpenIsFinite == QueueShape => Open \subseteq Id /\ IsFiniteSet(Open)
  <1> SUFFICES ASSUME QueueShape PROVE Open \subseteq Id /\ IsFiniteSet(Open)
    OBVIOUS
  <1>1. Id = 1..Len(uploads) /\ Len(uploads) \in Nat
    BY DEF QueueShape, Id
  <1>2. IsFiniteSet(1..Len(uploads))
    BY <1>1, FS_Interval
  <1>3. Open \in SUBSET Id
    BY DEF Open
  <1> QED
    BY <1>1, <1>2, <1>3, FS_Subset

\* Uploads that settle leave the set and are taken off the counter.
LEMMA Leaving ==
  ASSUME SlotInv, NEW S \in SUBSET Open
  PROVE  /\ Cardinality(S) \in Nat /\ Cardinality(S) <= running
         /\ Cardinality(Open \ S) = running - Cardinality(S)
         /\ running - Cardinality(S) \in Nat /\ running - Cardinality(S) <= Concurrency
  <1>1. IsFiniteSet(Open) /\ IsFiniteSet(S) /\ IsFiniteSet(Open \ S)
    BY OpenIsFinite, FS_Subset DEF SlotInv
  <1>2. Cardinality(S) \in Nat /\ Cardinality(Open) \in Nat /\ Cardinality(Open \ S) \in Nat
    BY <1>1, FS_CardinalityType
  <1>3. Cardinality((Open \ S) \cup S) =
           Cardinality(Open \ S) + Cardinality(S) - Cardinality((Open \ S) \cap S)
    BY <1>1, FS_Union
  <1>4. (Open \ S) \cup S = Open /\ (Open \ S) \cap S = {}
    OBVIOUS
  <1>5. Cardinality((Open \ S) \cap S) = 0
    BY <1>4, FS_EmptySet
  <1>6. Cardinality((Open \ S) \cup S) = Cardinality(Open)
    BY <1>4
  <1>7. Cardinality(Open) = Cardinality(Open \ S) + Cardinality(S)
    BY <1>2, <1>3, <1>5, <1>6
  <1>8. running = Cardinality(Open) /\ running <= Concurrency /\ Concurrency \in Nat
    BY QueueAssumption DEF SlotInv, RunningIsOpen
  <1> QED
    BY <1>2, <1>7, <1>8

LEMMA Releasing ==
  ASSUME SlotInv, QueueShape', NEW S \in SUBSET Open,
         running' = running - Cardinality(S), ~Idle', Open' = Open \ S
  PROVE  SlotInv'
  <1>1. Cardinality(Open)' = Cardinality(Open \ S)
    OBVIOUS
  <1> QED
    BY <1>1, Leaving DEF SlotInv, RunningIsOpen, NoIdleSlot

\* Release changes the counter as Releasing asks for, whatever it does to the controllers.
LEMMA ReleaseCounts ==
  ASSUME SlotInv, NEW S \in SUBSET Open, NEW context \in {"click", "later"}, Release(S, context)
  PROVE  /\ running' = running - Cardinality(S) /\ running' \in Nat
         /\ pumping' \in {"no", "click", "later"} /\ ~Idle'
  <1>1. Cardinality(S) \in Nat /\ running \in Nat /\ Cardinality(S) <= running
    BY Leaving DEF SlotInv, QueueShape
  <1>2. running' = running - Cardinality(S) /\ pumping' = context
    BY <1>1 DEF Release
  <1> QED
    BY <1>2, Leaving DEF Idle

\* Nothing settles.
LEMMA Keeping ==
  ASSUME SlotInv, QueueShape', Open' = Open, running' = running,
         pumping' = "no" /\ queue' # <<>> => running = Concurrency
  PROVE  SlotInv'
  <1>1. Cardinality(Open)' = Cardinality(Open)
    OBVIOUS
  <1> QED
    BY <1>1 DEF SlotInv, RunningIsOpen, NoIdleSlot, Idle

\* A request moves on, with its upload open as before.
LEMMA MovesOn ==
  ASSUME NEW Y, uploads \in Seq(AnyUpload(Y)), NEW u \in Id, NEW x \in AnyUpload(Y),
         x.open = uploads[u].open, uploads' = [uploads EXCEPT ![u] = x]
  PROVE  uploads' \in Seq(AnyUpload(Y)) /\ Open' = Open
  <1> USE DEF Id
  <1>1. uploads' \in Seq(AnyUpload(Y)) /\ DOMAIN uploads' = DOMAIN uploads
    OBVIOUS
  <1> QED
    BY <1>1 DEF Open

LEMMA Closing ==
  ASSUME SlotInv, NEW u \in Open, Close(u), Release({u}, "later")
  PROVE  SlotInv'
  <1>1. PICK Y : uploads \in Seq(AnyUpload(Y))
    BY DEF SlotInv, QueueShape
  <1>2. u \in DOMAIN uploads /\ uploads[u] \in AnyUpload(Y)
    BY <1>1 DEF Open, Id
  <1> DEFINE x == [uploads[u] EXCEPT !.open = FALSE, !.at = IF @ = "dropped" THEN "gone" ELSE @]
  <1>3. x \in AnyUpload(Y) /\ x.open = FALSE /\ uploads' = [uploads EXCEPT ![u] = x]
    BY <1>2 DEF Close, AnyUpload, Place
  <1> HIDE DEF x
  <1>4. uploads' \in Seq(AnyUpload(Y)) /\ DOMAIN uploads' = DOMAIN uploads
    BY <1>1, <1>2, <1>3
  <1>5. Open' = Open \ {u}
    BY <1>2, <1>3, <1>4 DEF Open, Id
  <1>6. {u} \in SUBSET Open
    OBVIOUS
  <1>7. running' = running - Cardinality({u}) /\ running' \in Nat /\ ~Idle'
           /\ pumping' \in {"no", "click", "later"}
    BY <1>6, ReleaseCounts
  <1>8. QueueShape'
    BY <1>4, <1>7 DEF QueueShape
  <1> QED
    BY <1>5, <1>6, <1>7, <1>8, Releasing

LEMMA Aborting ==
  ASSUME SlotInv, NEW S \in SUBSET Open, AbortAll(S)
  PROVE  /\ \E Y : uploads' \in Seq(AnyUpload(Y))
         /\ Open' = Open \ Settling(S) /\ Settling(S) \in SUBSET Open
  <1>1. PICK Y : uploads \in Seq(AnyUpload(Y))
    BY DEF SlotInv, QueueShape
  <1> DEFINE f(u) == IF u \notin S \/ uploads[u].at = "dropped" THEN uploads[u]
        ELSE IF uploads[u].at = "held" THEN [uploads[u] EXCEPT !.at = "dropped"]
        ELSE [uploads[u] EXCEPT !.open = FALSE, !.at = IF @ = "sending" THEN "gone" ELSE @]
  <1>2. Id = 1..Len(uploads) /\ Len(uploads) \in Nat /\ \A u \in Id : uploads[u] \in AnyUpload(Y)
    BY <1>1 DEF Id
  <1>3. uploads' = [u \in Id |-> f(u)]
    BY DEF AbortAll
  <1>4. ASSUME NEW u \in Id
        PROVE f(u) \in AnyUpload(Y) /\ f(u).open = (uploads[u].open /\ u \notin Settling(S))
    BY <1>2, <1>4 DEF AnyUpload, Place, Settling, Open
  <1> HIDE DEF f
  <1>5. uploads' \in Seq(AnyUpload(Y)) /\ DOMAIN uploads' = Id
    BY <1>2, <1>3, <1>4
  <1>6. Open' = Open \ Settling(S)
    BY <1>3, <1>4, <1>5 DEF Open, Id
  <1> QED
    BY <1>5, <1>6 DEF Settling

\* What the three buttons share that abort uploads and release them.
LEMMA AbortedByClick ==
  ASSUME SlotInv, NEW S \in SUBSET Open, AbortAll(S), Release(Settling(S), "click")
  PROVE  SlotInv'
  <1>1. /\ \E Y : uploads' \in Seq(AnyUpload(Y))
        /\ Open' = Open \ Settling(S) /\ Settling(S) \in SUBSET Open
    BY Aborting
  <1>2. running' = running - Cardinality(Settling(S)) /\ running' \in Nat /\ ~Idle'
           /\ pumping' \in {"no", "click", "later"}
    BY <1>1, ReleaseCounts
  <1>3. QueueShape'
    BY <1>1, <1>2 DEF QueueShape
  <1> QED
    BY <1>1, <1>2, <1>3, Releasing

LEMMA ControlledIsOpen ==
  /\ \A i \in Item : Controlled(i) \in SUBSET Open
  /\ UNION {Controlled(i) : i \in Item} \in SUBSET Open
  BY DEF Controlled

LEMMA SlotInit == QueueInit => SlotInv
  <1> SUFFICES ASSUME QueueInit PROVE SlotInv
    OBVIOUS
  <1>1. uploads \in Seq(AnyUpload({})) /\ Open = {}
    BY DEF QueueInit, Open, Id
  <1>2. Cardinality(Open) = 0
    BY <1>1, FS_EmptySet
  <1> QED
    BY <1>1, <1>2, QueueAssumption
       DEF QueueInit, SlotInv, QueueShape, RunningIsOpen, NoIdleSlot, Idle

LEMMA SeqGrows ==
  ASSUME NEW A, NEW B, A \subseteq B, NEW s \in Seq(A)
  PROVE  s \in Seq(B)
  OBVIOUS

LEMMA PumpKeepsSlots == SlotInv /\ Pump => SlotInv'
  <1> SUFFICES ASSUME SlotInv, Pump PROVE SlotInv'
    OBVIOUS
  <1>1. PICK Y : uploads \in Seq(AnyUpload(Y))
    BY DEF SlotInv, QueueShape
  <1>2. ~Idle /\ running < Concurrency /\ pumping' = pumping /\ running \in Nat
           /\ pumping \in {"no", "click", "later"} /\ Concurrency \in Nat
    BY QueueAssumption DEF Pump, SlotInv, QueueShape
  <1>3. PICK i : i = Head(queue)
    OBVIOUS
  <1>4. CASE seen[i] # "queued"
    <2>1. running' = running /\ uploads' = uploads
      BY <1>3, <1>4 DEF Pump
    <2>2. Open' = Open
      BY <2>1 DEF Open, Id
    <2> QED
      BY <1>1, <1>2, <2>1, <2>2, Keeping DEF QueueShape, Idle
  <1>5. CASE seen[i] = "queued"
    <2>1. running' = running + 1 /\ uploads' = Append(uploads, NewUpload(i))
      BY <1>3, <1>5 DEF Pump
    <2> DEFINE Z == Y \cup {i}
    <2>2. NewUpload(i) \in AnyUpload(Z) /\ NewUpload(i).open = TRUE
      BY DEF NewUpload, AnyUpload, Place
    <2>3. uploads \in Seq(AnyUpload(Z))
      <3>1. AnyUpload(Y) \subseteq AnyUpload(Z)
        BY DEF AnyUpload
      <3> QED
        BY <1>1, <3>1, SeqGrows
    <2> HIDE DEF Z
    <2> DEFINE x == NewUpload(i)
    <2> HIDE DEF x
    <2>4. x \in AnyUpload(Z) /\ x.open = TRUE /\ uploads' = Append(uploads, x)
      BY <2>1, <2>2 DEF x
    <2>5. /\ uploads' \in Seq(AnyUpload(Z)) /\ DOMAIN uploads' = 1..(Len(uploads) + 1)
          /\ uploads'[Len(uploads) + 1] = x /\ Len(uploads) \in Nat
          /\ DOMAIN uploads = 1..Len(uploads)
          /\ \A u \in 1..Len(uploads) : uploads'[u] = uploads[u]
      BY <2>3, <2>4
    <2>6. Open' = Open \cup {Len(uploads) + 1} /\ Len(uploads) + 1 \notin Open
      BY <2>4, <2>5 DEF Open, Id
    <2>7. IsFiniteSet(Open)
      BY OpenIsFinite DEF SlotInv
    <2>8. Cardinality(Open \cup {Len(uploads) + 1}) = Cardinality(Open) + 1
      BY <2>6, <2>7, FS_AddElement
    <2>9. Cardinality(Open)' = Cardinality(Open \cup {Len(uploads) + 1})
      BY <2>6
    <2>10. running = Cardinality(Open) /\ running' <= Concurrency /\ running' \in Nat
      BY <1>2, <2>1 DEF SlotInv, RunningIsOpen
    <2>11. RunningIsOpen'
      BY <2>1, <2>8, <2>9, <2>10 DEF RunningIsOpen
    <2>12. QueueShape' /\ NoIdleSlot'
      BY <1>2, <2>5, <2>10 DEF QueueShape, NoIdleSlot, Idle
    <2> QED
      BY <2>11, <2>12 DEF SlotInv
  <1> QED
    BY <1>4, <1>5

\* The pump stops only when no slot is free or nothing waits.
LEMMA PumpEndsKeepsSlots == SlotInv /\ PumpEnds => SlotInv'
  <1> SUFFICES ASSUME SlotInv, PumpEnds PROVE SlotInv'
    OBVIOUS
  <1>1. running' = running /\ uploads' = uploads /\ queue' = queue /\ pumping' = "no"
           /\ (running >= Concurrency \/ queue = <<>>)
    BY DEF PumpEnds
  <1>2. Open' = Open
    BY <1>1 DEF Open, Id
  <1>3. running \in Nat /\ Concurrency \in Nat /\ running <= Concurrency
    BY QueueAssumption DEF SlotInv, QueueShape, RunningIsOpen
  <1>4. queue' # <<>> => running = Concurrency
    BY <1>1, <1>3
  <1>5. QueueShape'
    BY <1>1 DEF SlotInv, QueueShape
  <1> QED
    BY <1>1, <1>2, <1>4, <1>5, Keeping

\* Clicks that add to the queue or to the list only start the pump.
LEMMA ClickKeepsSlots ==
  ASSUME SlotInv, uploads' = uploads, running' = running, pumping' = "click"
  PROVE  SlotInv'
  <1>1. Open' = Open
    BY DEF Open, Id
  <1>2. QueueShape'
    BY DEF SlotInv, QueueShape
  <1> QED
    BY <1>1, <1>2, Keeping

LEMMA LeaveKeepsSlots == SlotInv /\ Leave => SlotInv'
  <1> SUFFICES ASSUME SlotInv, Leave PROVE SlotInv'
    OBVIOUS
  <1>1. PICK S : S = UNION {Controlled(i) : i \in Item}
    OBVIOUS
  <1>2. S \in SUBSET Open
    BY <1>1, ControlledIsOpen
  <1>3. AbortAll(S) /\ running' = running - Cardinality(Settling(S)) /\ pumping' = "later"
    BY <1>1 DEF Leave
  <1>4. /\ \E Y : uploads' \in Seq(AnyUpload(Y))
        /\ Open' = Open \ Settling(S) /\ Settling(S) \in SUBSET Open
    BY <1>2, <1>3, Aborting
  <1>5. running' \in Nat
    BY <1>3, <1>4, Leaving
  <1>6. QueueShape' /\ ~Idle'
    BY <1>3, <1>4, <1>5 DEF QueueShape, Idle
  <1> QED
    BY <1>3, <1>4, <1>6, Releasing

\* A step of a request that does not settle it.
LEMMA RequestKeepsSlots ==
  ASSUME SlotInv, NEW u \in Id, Progress(u) \/ Expire(u) \/ Resend(u) \/ Check(u) \/ Store(u)
  PROVE  SlotInv'
  <1>1. PICK Y : uploads \in Seq(AnyUpload(Y))
    BY DEF SlotInv, QueueShape
  <1>2. running' = running /\ queue' = queue /\ pumping' = pumping
    BY DEF Progress, Expire, Resend, Check, Store
  <1>3. uploads[u] \in AnyUpload(Y) /\ u \in DOMAIN uploads
    BY <1>1 DEF Id
  <1>4. \A v \in Id : v \in Nat
    BY <1>1 DEF Id
  <1>5. uploads' = uploads \/ \E x \in AnyUpload(Y) :
            x.open = uploads[u].open /\ uploads' = [uploads EXCEPT ![u] = x]
    <2>1. CASE Progress(u) \/ Expire(u)
      <3>1. uploads' = uploads \/ \E p \in Place : uploads' = [uploads EXCEPT ![u].at = p]
        BY <2>1 DEF Progress, Expire, Place
      <3> QED
        BY <1>3, <3>1 DEF AnyUpload
    <2>2. CASE Resend(u)
      <3>1. uploads' = [uploads EXCEPT ![u] = [@ EXCEPT !.at = "sending", !.renewed = TRUE]]
        BY <2>2 DEF Resend
      <3> QED
        BY <1>3, <3>1 DEF AnyUpload, Place
    <2>3. CASE Check(u)
      <3>1. \/ \E p \in Place : uploads' = [uploads EXCEPT ![u].at = p]
            \/ \E v \in Nat : uploads' = [uploads EXCEPT ![u] = [@ EXCEPT !.at = "checked", !.old = v]]
        <4>1. CASE \E v \in Same(u) : uploads' = [uploads EXCEPT ![u].at = "checked", ![u].old = v]
          <5>1. PICK v \in Same(u) :
                   uploads' = [uploads EXCEPT ![u].at = "checked", ![u].old = v]
            BY <4>1
          <5>2. v \in Nat
            BY <1>4 DEF Same
          <5>3. uploads' = [uploads EXCEPT ![u] = [@ EXCEPT !.at = "checked", !.old = v]]
            BY <1>3, <5>1 DEF AnyUpload
          <5> QED
            BY <5>2, <5>3
        <4>2. CASE \E p \in {"checked", "refused"} : uploads' = [uploads EXCEPT ![u].at = p]
          BY <4>2 DEF Place
        <4> QED
          BY <2>3, <4>1, <4>2 DEF Check
      <3> QED
        BY <1>3, <3>1 DEF AnyUpload, Place
    <2>4. CASE Store(u)
      <3>1. \E p \in Place : uploads' = [uploads EXCEPT ![u] = [@ EXCEPT !.at = p, !.old = 0]]
        BY <2>4 DEF Store, Place
      <3> QED
        BY <1>3, <3>1 DEF AnyUpload
    <2> QED
      BY <2>1, <2>2, <2>3, <2>4
  <1>6. QueueShape' /\ Open' = Open
    <2>1. CASE uploads' = uploads
      BY <1>2, <2>1 DEF SlotInv, QueueShape, Open, Id
    <2>2. CASE \E x \in AnyUpload(Y) :
                 x.open = uploads[u].open /\ uploads' = [uploads EXCEPT ![u] = x]
      <3>1. uploads' \in Seq(AnyUpload(Y)) /\ Open' = Open
        BY <1>1, <2>2, MovesOn
      <3> QED
        BY <1>2, <3>1 DEF SlotInv, QueueShape
    <2> QED
      BY <1>5, <2>1, <2>2
  <1> QED
    BY <1>2, <1>6, Keeping DEF SlotInv, NoIdleSlot, Idle

LEMMA SlotNext == SlotInv /\ QueueNext => SlotInv'
  <1> SUFFICES ASSUME SlotInv, QueueNext PROVE SlotInv'
    OBVIOUS
  <1>1. CASE Pump
    BY <1>1, PumpKeepsSlots
  <1>2. CASE PumpEnds
    BY <1>2, PumpEndsKeepsSlots
  <1>3. CASE Render
    <2>1. uploads' = uploads /\ queue' = queue /\ running' = running /\ pumping' = pumping
      BY <1>3 DEF Render
    <2> QED
      BY <2>1 DEF SlotInv, QueueShape, RunningIsOpen, NoIdleSlot, Idle, Open, Id
  <1>4. CASE \/ \E d \in Drops : Enqueue(d)
             \/ \E i \in Item : RetryItem(i)
             \/ ClearFinished
    <2>1. uploads' = uploads /\ running' = running /\ pumping' = "click"
      BY <1>4 DEF Enqueue, RetryItem, ClearFinished
    <2> QED
      BY <2>1, ClickKeepsSlots
  <1>5. CASE \E i \in Item : CancelItem(i) \/ RemoveItem(i)
    <2>1. PICK i \in Item : AbortAll(Controlled(i)) /\ Release(Settling(Controlled(i)), "click")
      BY <1>5 DEF CancelItem, RemoveItem
    <2> QED
      BY <2>1, ControlledIsOpen, AbortedByClick
  <1>6. CASE CancelAll
    <2>1. PICK S : S = UNION {Controlled(i) : i \in Item}
      OBVIOUS
    <2>2. AbortAll(S) /\ Release(Settling(S), "click") /\ S \in SUBSET Open
      BY <1>6, <2>1, ControlledIsOpen DEF CancelAll
    <2> QED
      BY <2>2, AbortedByClick
  <1>7. CASE Leave
    BY <1>7, LeaveKeepsSlots
  <1>8. CASE \E u \in Id : Progress(u) \/ Expire(u) \/ Resend(u) \/ Check(u) \/ Store(u)
    BY <1>8, RequestKeepsSlots
  <1>9. CASE \E u \in Id : Succeed(u) \/ Fail(u)
    <2>1. PICK u \in Id : uploads[u].open /\ Close(u) /\ Release({u}, "later")
      BY <1>9 DEF Succeed, Fail
    <2> QED
      BY <2>1, Closing DEF Open
  <1> QED
    BY <1>1, <1>2, <1>3, <1>4, <1>5, <1>6, <1>7, <1>8, <1>9 DEF QueueNext, QueueUser, Request

\* No slot of the queue stays free while a file waits: every path that ends an upload
\* (an answer, an error, an abort, the end of the page, a click) looks for the next one.
THEOREM NoSlotStaysIdle == Spec => []NoIdleSlot
  <1>1. Init => SlotInv
    BY SlotInit DEF Init
  <1>2. SlotInv /\ [Next]_libraryVars => SlotInv'
    <2> SUFFICES ASSUME SlotInv, [Next]_libraryVars PROVE SlotInv'
      OBVIOUS
    <2>1. CASE QueueNext
      BY <2>1, SlotNext
    <2>2. CASE UNCHANGED queueVars
      BY <2>2 DEF queueVars, SlotInv, QueueShape, RunningIsOpen, NoIdleSlot, Idle, Open, Id
    <2> QED
      BY <2>1, <2>2 DEF Next, libraryVars
  <1> QED
    BY <1>1, <1>2, PTL DEF Spec, SlotInv

-----------------------------------------------------------------------------
\* The rows of the queue.

\* What waits, what is shown and what is uploaded was added: a new entry has nothing.
ItemsAreAdded ==
    /\ \A i \in Waiting : i \in added
    /\ \A u \in Id : uploads[u].item \in added
    /\ \A i \in Item : shown[i] # "none" \/ seen[i] # "none" => i \in added

\* The controller of an item aborts an upload of that item.
ControlIsOwn == \A i \in Item : ctl[i] # 0 => ctl[i] \in Id /\ uploads[ctl[i]].item = i

\* A request that can still be sent belongs to an upload that has not settled.
SentIsOpen == \A u \in Id : uploads[u].at \in {"sending", "held", "dropped"} => uploads[u].open

\* The row of an item stands for its upload.
Followed(i) == mounted /\ i \notin lost

\* An item that waits is shown and seen as waiting, once; it may have an upload that was
\* aborted while the API client held it back, and no other.  This is what the pump relies
\* on, which looks at seen only, before it starts an upload.
WaitsOnce(i) ==
    /\ shown[i] = "queued" /\ seen[i] = "queued"
    /\ \A k, l \in DOMAIN queue : queue[k] = i /\ queue[l] = i => k = l
    /\ \A u \in Open : uploads[u].item = i => At(u, "dropped")

\* An upload that runs can be aborted, and neither list offers to try it again.
Runs(u) ==
    LET i == uploads[u].item
    IN  ctl[i] = u /\ shown[i] \in Active /\ seen[i] \in Active

WaitingInv == \A i \in Waiting : Followed(i) => WaitsOnce(i)
RunningInv == \A u \in Open : Followed(uploads[u].item) /\ ~At(u, "dropped") => Runs(u)
ActiveInv  == \A i \in Item : Followed(i) /\ shown[i] \in Active =>
                  i \in Waiting \/ \E u \in Open : uploads[u].item = i
DoneInv    == \A i \in Item : shown[i] = "done" \/ seen[i] = "done" =>
                  \E u \in Id : uploads[u].item = i /\ At(u, "stored")

QueueInv ==
    /\ QueueTypeOK /\ ItemsAreAdded /\ ControlIsOwn /\ SentIsOpen
    /\ WaitingInv /\ RunningInv /\ ActiveInv /\ DoneInv

\* What every step but the start of an upload leaves to the uploads there are.
Following ==
    /\ uploads' \in Seq(Upload) /\ DOMAIN uploads' = DOMAIN uploads
    /\ \A u \in Id : /\ uploads'[u].item = uploads[u].item
                     /\ uploads'[u].open => uploads[u].open
                     /\ uploads[u].at = "stored" => uploads'[u].at = "stored"
                     /\ uploads[u].at = "dropped" /\ uploads'[u].open => uploads'[u].at = "dropped"
                     /\ uploads'[u].at \in {"sending", "held", "dropped"} => uploads'[u].open

LEMMA UploadIsTyped ==
  ASSUME QueueTypeOK
  PROVE  /\ Upload = AnyUpload(Item) /\ Id = 1 .. Len(uploads) /\ Len(uploads) \in Nat
         /\ \A u \in Id : u \in Nat /\ u # 0 /\ uploads[u] \in Upload /\ uploads[u].item \in Item
                          /\ uploads[u].open \in BOOLEAN /\ uploads[u].at \in Place
                          /\ uploads[u].old \in Nat
  <1>1. uploads \in Seq(Upload) /\ Upload = AnyUpload(Item)
    BY DEF QueueTypeOK, Upload, AnyUpload
  <1>2. Id = 1 .. Len(uploads) /\ Len(uploads) \in Nat /\ \A u \in Id : uploads[u] \in Upload
    BY <1>1 DEF Id
  <1> QED
    BY <1>1, <1>2 DEF Upload

LEMMA UploadsRest == QueueTypeOK /\ SentIsOpen /\ uploads' = uploads => Following
  BY DEF QueueTypeOK, SentIsOpen, Following, Id

\* One request takes a step.
LEMMA OneFollows ==
  ASSUME QueueTypeOK, SentIsOpen, NEW u \in Id, NEW x \in Upload,
         uploads' = [uploads EXCEPT ![u] = x],
         x.item = uploads[u].item, x.open => uploads[u].open,
         uploads[u].at = "stored" => x.at = "stored",
         uploads[u].at = "dropped" /\ x.open => x.at = "dropped",
         x.at \in {"sending", "held", "dropped"} => x.open
  PROVE  Following
  <1>1. uploads \in Seq(Upload) /\ DOMAIN uploads = Id
    BY DEF QueueTypeOK, Id
  <1>2. uploads' \in Seq(Upload) /\ DOMAIN uploads' = Id
    BY <1>1
  <1>3. uploads'[u] = x /\ \A v \in Id : v # u => uploads'[v] = uploads[v]
    BY <1>1
  <1> QED
    BY <1>1, <1>2, <1>3 DEF Following, SentIsOpen

LEMMA AbortFollows ==
  ASSUME QueueTypeOK, SentIsOpen, NEW S \in SUBSET Open, AbortAll(S)
  PROVE  /\ Following
         /\ \A u \in S : uploads'[u].open => uploads'[u].at = "dropped"
         /\ \A u \in Id \ S : uploads'[u] = uploads[u]
         /\ \A u \in S : uploads'[u].open \/ u \in Settling(S)
  <1> DEFINE f(u) == IF u \notin S \/ uploads[u].at = "dropped" THEN uploads[u]
        ELSE IF uploads[u].at = "held" THEN [uploads[u] EXCEPT !.at = "dropped"]
        ELSE [uploads[u] EXCEPT !.open = FALSE, !.at = IF @ = "sending" THEN "gone" ELSE @]
  <1>1. Id = 1 .. Len(uploads) /\ Len(uploads) \in Nat /\ \A u \in Id : uploads[u] \in Upload
    BY UploadIsTyped
  <1>2. uploads' = [u \in Id |-> f(u)]
    BY DEF AbortAll
  <1>3. ASSUME NEW u \in Id
        PROVE  /\ f(u) \in Upload /\ f(u).item = uploads[u].item
               /\ f(u).open => uploads[u].open
               /\ uploads[u].at = "stored" => f(u).at = "stored"
               /\ uploads[u].at = "dropped" /\ f(u).open => f(u).at = "dropped"
               /\ f(u).at \in {"sending", "held", "dropped"} => f(u).open
               /\ u \in S => (f(u).open => f(u).at = "dropped") /\ (f(u).open \/ u \in Settling(S))
               /\ u \notin S => f(u) = uploads[u]
    BY <1>1 DEF Upload, Place, SentIsOpen, Settling, Open
  <1> HIDE DEF f
  <1>4. DOMAIN uploads' = Id /\ \A u \in Id : uploads'[u] = f(u)
    BY <1>2
  <1>5. uploads' \in Seq(Upload)
    <2>1. \A u \in 1 .. Len(uploads) : f(u) \in Upload
      BY <1>1, <1>3
    <2>2. uploads' = [u \in 1 .. Len(uploads) |-> f(u)]
      BY <1>1, <1>2
    <2> HIDE DEF Id
    <2> QED
      BY <1>1, <2>1, <2>2
  <1>6. DOMAIN uploads = Id /\ S \subseteq Id
    BY DEF Id, Open
  <1>7. Following
    BY <1>3, <1>4, <1>5, <1>6 DEF Following
  <1>8. \A u \in S : (uploads'[u].open => uploads'[u].at = "dropped")
                     /\ (uploads'[u].open \/ u \in Settling(S))
    BY <1>3, <1>4, <1>6
  <1>9. \A u \in Id \ S : uploads'[u] = uploads[u]
    BY <1>3, <1>4
  <1> QED
    BY <1>7, <1>8, <1>9

\* What follows from the uploads going on, for every step that starts none.
LEMMA BookKept ==
  ASSUME QueueInv, Following, \A i \in Waiting' : i \in added', added \subseteq added',
         \A i \in Item : ctl'[i] \in {0, ctl[i]},
         \A i \in Item : shown'[i] # "none" \/ seen'[i] # "none" =>
             shown[i] # "none" \/ seen[i] # "none" \/ i \in added',
         \A i \in Item : shown'[i] = "done" \/ seen'[i] = "done" =>
             \/ shown[i] = "done" \/ seen[i] = "done"
             \/ \E u \in Id : uploads[u].item = i /\ At(u, "stored")
  PROVE  ItemsAreAdded' /\ ControlIsOwn' /\ SentIsOpen' /\ DoneInv'
  <1>1. Id' = Id /\ \A u \in Id : uploads'[u].item = uploads[u].item
    BY DEF Following, Id
  <1>2. ItemsAreAdded'
    BY <1>1 DEF QueueInv, ItemsAreAdded
  <1>3. ControlIsOwn'
    BY <1>1 DEF QueueInv, ControlIsOwn
  <1>4. SentIsOpen'
    BY <1>1 DEF Following, SentIsOpen
  <1>5. DoneInv'
    <2>1. \A u \in Id : At(u, "stored") => At(u, "stored")'
      BY DEF Following, At
    <2>2. ASSUME NEW i \in Item, shown'[i] = "done" \/ seen'[i] = "done"
          PROVE  \E u \in Id : uploads[u].item = i /\ At(u, "stored")
      BY <2>2 DEF QueueInv, DoneInv
    <2> QED
      BY <1>1, <2>1, <2>2 DEF DoneInv
  <1> QED
    BY <1>2, <1>3, <1>4, <1>5

\* The rows: an item that keeps its place, its row and its uploads keeps what is said of it.
Untouched(i) ==
    /\ mounted' => mounted
    /\ i \in lost => i \in lost'
    /\ shown'[i] = shown[i] /\ seen'[i] = seen[i] /\ ctl'[i] = ctl[i]
    /\ \A u \in Id : uploads[u].item = i /\ uploads[u].open => uploads'[u].open

WaitOK(i) == i \in Waiting /\ Followed(i) => WaitsOnce(i)
RunOK(i)  == \A u \in Open : uploads[u].item = i /\ Followed(i) /\ ~At(u, "dropped") => Runs(u)
ActOK(i)  == Followed(i) /\ shown[i] \in Active => i \in Waiting \/ \E u \in Open : uploads[u].item = i
RowOK(i)  == WaitOK(i) /\ RunOK(i) /\ ActOK(i)

LEMMA RowsAre == QueueInv => \A i \in Item : RowOK(i)
  BY DEF QueueInv, RowOK, WaitOK, RunOK, ActOK, WaitingInv, RunningInv, ActiveInv

LEMMA RowsStay ==
  ASSUME QueueTypeOK, Following, NEW i \in Item, RowOK(i), Untouched(i),
         i \in Waiting' <=> i \in Waiting,
         (\A k, l \in DOMAIN queue : queue[k] = i /\ queue[l] = i => k = l) =>
             \A k, l \in DOMAIN queue' : queue'[k] = i /\ queue'[l] = i => k = l
  PROVE  RowOK(i)'
  <1>1. Id' = Id /\ \A u \in Id : uploads'[u].item = uploads[u].item
    BY DEF Following, Id
  <1>2. \A u \in Open' : u \in Open /\ (At(u, "dropped") => At(u, "dropped")')
    BY <1>1 DEF Following, Open, At
  <1>3. Followed(i)' => Followed(i)
    BY DEF Followed, Untouched
  <1>4. \A u \in Open : uploads[u].item = i => u \in Open'
    BY <1>1 DEF Open, Untouched
  <1>5. ASSUME (i \in Waiting)', Followed(i)' PROVE WaitsOnce(i)'
    <2>1. WaitsOnce(i)
      BY <1>3, <1>5 DEF RowOK, WaitOK
    <2>2. \A u \in Open' : uploads'[u].item = i => At(u, "dropped")'
      BY <1>1, <1>2, <2>1 DEF WaitsOnce, Open
    <2> QED
      BY <2>1, <2>2 DEF WaitsOnce, Untouched
  <1>6. ASSUME NEW u \in Open', uploads'[u].item = i, Followed(i)', ~At(u, "dropped")'
        PROVE  Runs(u)'
    <2>1. u \in Open /\ uploads[u].item = i /\ ~At(u, "dropped")
      BY <1>1, <1>2, <1>6 DEF Open
    <2>2. Runs(u)
      BY <1>3, <1>6, <2>1 DEF RowOK, RunOK
    <2> QED
      BY <1>6, <2>1, <2>2 DEF Runs, Untouched
  <1>7. ActOK(i)'
    BY <1>1, <1>3, <1>4 DEF RowOK, ActOK, Untouched, Open
  <1> QED
    BY <1>5, <1>6, <1>7 DEF RowOK, WaitOK, RunOK

LEMMA QueueInvFrom ==
  ASSUME QueueTypeOK', ItemsAreAdded', ControlIsOwn', SentIsOpen', DoneInv',
         \A i \in Item : RowOK(i)'
  PROVE  QueueInv'
  <1>1. \A i \in Waiting' : i \in Item
    BY DEF QueueTypeOK, Waiting
  <1>2. \A u \in Open' : uploads'[u].item \in Item
    <2>1. \A u \in Id' : uploads'[u] \in Upload
      BY DEF QueueTypeOK, Id
    <2> QED
      BY <2>1 DEF Open, Upload
  <1>3. WaitingInv'
    BY <1>1 DEF RowOK, WaitOK, WaitingInv
  <1>4. RunningInv'
    BY <1>2 DEF RowOK, RunOK, RunningInv
  <1>5. ActiveInv'
    BY DEF RowOK, ActOK, ActiveInv
  <1> QED
    BY <1>3, <1>4, <1>5 DEF QueueInv

-----------------------------------------------------------------------------
\* A request on its way.

LEMMA OneMoves ==
  ASSUME QueueTypeOK, SentIsOpen, NEW u \in Id, NEW p \in Place \ {"dropped"}, NEW b \in BOOLEAN, NEW n \in Nat,
         uploads' = [uploads EXCEPT ![u] = [@ EXCEPT !.at = p, !.renewed = b, !.old = n]],
         uploads[u].at \notin {"stored", "dropped"}, p \in {"sending", "held"} => uploads[u].open
  PROVE  Following /\ \A v \in Id : uploads'[v].open = uploads[v].open
  <1> DEFINE x == [uploads[u] EXCEPT !.at = p, !.renewed = b, !.old = n]
  <1>1. uploads[u] \in Upload /\ uploads \in Seq(Upload) /\ DOMAIN uploads = Id
    BY UploadIsTyped DEF QueueTypeOK, Id
  <1>2. /\ x \in Upload /\ x.item = uploads[u].item /\ x.open = uploads[u].open /\ x.at = p
        /\ uploads' = [uploads EXCEPT ![u] = x]
    BY <1>1 DEF Upload
  <1> HIDE DEF x
  <1>3. Following
    <2>1. x.at \in {"sending", "held", "dropped"} => x.open
      BY <1>2
    <2>2. (uploads[u].at = "stored" => x.at = "stored") /\ (x.open => uploads[u].open)
            /\ (uploads[u].at = "dropped" /\ x.open => x.at = "dropped")
      BY <1>2
    <2> QED
      BY <1>2, <2>1, <2>2, OneFollows
  <1>4. \A v \in Id : uploads'[v].open = uploads[v].open
    BY <1>1, <1>2
  <1> QED
    BY <1>3, <1>4

LEMMA RequestMoves ==
  ASSUME QueueInv, NEW u \in Id, Progress(u) \/ Expire(u) \/ Resend(u) \/ Check(u) \/ Store(u)
  PROVE  Following /\ \A v \in Id : uploads[v].open => uploads'[v].open
  <1>1. /\ QueueTypeOK /\ SentIsOpen /\ uploads[u] \in Upload /\ uploads \in Seq(Upload)
        /\ DOMAIN uploads = Id /\ uploads[u].renewed \in BOOLEAN /\ uploads[u].old \in Nat
        /\ \A v \in Id : v \in Nat
    BY UploadIsTyped DEF QueueInv, QueueTypeOK, Id, Upload
  <1>2. CASE uploads' = uploads
    BY <1>1, <1>2, UploadsRest
  <1>3. ASSUME NEW p \in Place \ {"dropped"}, NEW b \in BOOLEAN, NEW n \in Nat,
               uploads' = [uploads EXCEPT ![u] = [@ EXCEPT !.at = p, !.renewed = b, !.old = n]],
               uploads[u].at \notin {"stored", "dropped"}, p \in {"sending", "held"} => uploads[u].open
        PROVE  Following /\ \A v \in Id : uploads[v].open => uploads'[v].open
    BY <1>1, <1>3, OneMoves
  <1>p. /\ "received" \in Place \ {"dropped"} /\ "checked" \in Place \ {"dropped"}
        /\ "stored" \in Place \ {"dropped"} /\ "refused" \in Place \ {"dropped"}
        /\ "held" \in Place \ {"dropped"} /\ "sending" \in Place \ {"dropped"}
    BY DEF Place
  <1> DEFINE b == uploads[u].renewed
             n == uploads[u].old
  <1>4. CASE Progress(u)
    <2>1. uploads[u].at = "sending"
             /\ (uploads' = uploads \/ uploads' = [uploads EXCEPT ![u].at = "received"])
      BY <1>4 DEF Progress, At
    <2>2. CASE uploads' = [uploads EXCEPT ![u].at = "received"]
      <3>1. uploads' = [uploads EXCEPT ![u] = [@ EXCEPT !.at = "received", !.renewed = b, !.old = n]]
        BY <1>1, <2>2 DEF Upload
      <3> QED
        BY <1>1, <1>p, <1>3, <2>1, <3>1
    <2> QED
      BY <1>2, <2>1, <2>2
  <1>5. CASE Expire(u)
    <2>1. PICK p \in {"refused", "held"} : uploads' = [uploads EXCEPT ![u].at = p]
      BY <1>5 DEF Expire
    <2>2. uploads' = [uploads EXCEPT ![u] = [@ EXCEPT !.at = p, !.renewed = b, !.old = n]]
      BY <1>1, <2>1 DEF Upload
    <2>3. uploads[u].at = "received" /\ uploads[u].open
      BY <1>5 DEF Expire, At
    <2> QED
      BY <1>1, <1>p, <1>3, <2>2, <2>3
  <1>6. CASE Resend(u)
    <2>1. uploads[u].at = "held" /\ uploads[u].open
      BY <1>1, <1>6 DEF Resend, At, SentIsOpen
    <2>2. uploads' = [uploads EXCEPT ![u] = [@ EXCEPT !.at = "sending", !.renewed = TRUE, !.old = n]]
      BY <1>1, <1>6 DEF Resend, Upload
    <2> QED
      BY <1>1, <1>p, <1>3, <2>1, <2>2
  <1>7. CASE Check(u)
    <2>1. uploads[u].at = "received"
      BY <1>7 DEF Check, At
    <2>2. CASE \E v \in Same(u) : uploads' = [uploads EXCEPT ![u].at = "checked", ![u].old = v]
      <3>1. PICK v \in Same(u) : uploads' = [uploads EXCEPT ![u].at = "checked", ![u].old = v]
        BY <2>2
      <3>2. v \in Nat
        BY <1>1 DEF Same
      <3>3. uploads' = [uploads EXCEPT ![u] = [@ EXCEPT !.at = "checked", !.renewed = b, !.old = v]]
        BY <1>1, <3>1 DEF Upload
      <3> QED
        BY <1>1, <1>p, <1>3, <2>1, <3>2, <3>3
    <2>3. CASE \E p \in {"checked", "refused"} : uploads' = [uploads EXCEPT ![u].at = p]
      <3>1. PICK p \in {"checked", "refused"} : uploads' = [uploads EXCEPT ![u].at = p]
        BY <2>3
      <3>2. uploads' = [uploads EXCEPT ![u] = [@ EXCEPT !.at = p, !.renewed = b, !.old = n]]
        BY <1>1, <3>1 DEF Upload
      <3> QED
        BY <1>1, <1>p, <1>3, <2>1, <3>2
    <2> QED
      BY <1>7, <2>2, <2>3 DEF Check
  <1>8. CASE Store(u)
    <2>1. PICK p \in {"stored", "refused"} : uploads' = [uploads EXCEPT ![u].at = p, ![u].old = 0]
      BY <1>8 DEF Store
    <2>2. uploads' = [uploads EXCEPT ![u] = [@ EXCEPT !.at = p, !.renewed = b, !.old = 0]]
      BY <1>1, <2>1 DEF Upload
    <2>3. uploads[u].at = "checked"
      BY <1>8 DEF Store, At
    <2> QED
      BY <1>1, <1>p, <1>3, <2>2, <2>3
  <1> QED
    BY <1>4, <1>5, <1>6, <1>7, <1>8

\* Nothing but the rows and the requests: neither the queue nor what the controllers are for.
LEMMA SamePlaces ==
  ASSUME queue' = queue
  PROVE  /\ Waiting' = Waiting
         /\ \A i : (i \in Waiting' <=> i \in Waiting)
              /\ ((\A k, l \in DOMAIN queue : queue[k] = i /\ queue[l] = i => k = l) =>
                   \A k, l \in DOMAIN queue' : queue'[k] = i /\ queue'[l] = i => k = l)
  BY DEF Waiting

LEMMA RequestKeeps ==
  ASSUME QueueInv, NEW u \in Id, Progress(u) \/ Expire(u) \/ Resend(u) \/ Check(u) \/ Store(u)
  PROVE  QueueInv'
  <1> DEFINE i == uploads[u].item
  <1>1. QueueTypeOK /\ SentIsOpen /\ i \in Item /\ u \in Id
    BY UploadIsTyped DEF QueueInv
  <1>2. Following /\ \A v \in Id : uploads[v].open => uploads'[v].open
    BY RequestMoves
  <1>3. UNCHANGED <<seen, added, queue, running, ctl, pumping, mounted, retries, lost>>
    BY DEF Progress, Expire, Resend, Check, Store
  <1>4. \/ shown' = shown
        \/ /\ Progress(u) /\ mounted
           /\ \E st \in {"processing", "uploading"} :
                 shown' = [shown EXCEPT ![i] = IF @ \in Terminal \cup {"none"} THEN @ ELSE st]
    BY DEF Progress, Expire, Resend, Check, Store, Progressed, Set
  <1>5. /\ shown' \in [Item -> UploadItemStatus \cup {"none"}]
        /\ \A j \in Item : j # i => shown'[j] = shown[j]
        /\ shown'[i] # shown[i] => shown'[i] \in {"processing", "uploading"} /\ Progress(u)
                                     /\ shown[i] \in Active
        /\ \A j \in Item : shown'[j] = "done" => shown[j] = "done"
        /\ \A j \in Item : shown'[j] # "none" => shown[j] # "none"
    <2>1. shown \in [Item -> UploadItemStatus \cup {"none"}]
      BY <1>1 DEF QueueTypeOK
    <2> QED
      BY <1>1, <1>4, <2>1 DEF UploadItemStatus, Active, Terminal
  <1>6. row' \in [1..MaxUploads -> RecordStatus]
    <2>1. row \in [1..MaxUploads -> RecordStatus]
      BY <1>1 DEF QueueTypeOK
    <2>2. row' = row \/ row' = [v \in DOMAIN row |-> IF v = u THEN "live"
                                   ELSE IF v = uploads[u].old THEN "deleted" ELSE row[v]]
      BY DEF Progress, Expire, Resend, Check, Store
    <2> QED
      BY <2>1, <2>2 DEF RecordStatus
  <1>7. QueueTypeOK'
    BY <1>1, <1>2, <1>3, <1>5, <1>6 DEF QueueTypeOK, Following
  <1>8. ItemsAreAdded' /\ ControlIsOwn' /\ SentIsOpen' /\ DoneInv'
    <2>1. \A j \in Waiting' : j \in added'
      BY <1>3, SamePlaces DEF QueueInv, ItemsAreAdded
    <2> QED
      BY <1>2, <1>3, <1>5, <2>1, BookKept
  <1>9. ASSUME NEW j \in Item PROVE RowOK(j)'
    <2>1. RowOK(j)
      BY RowsAre
    <2>2. CASE shown'[j] = shown[j]
      <3>1. Untouched(j)
        BY <1>2, <1>3, <2>2 DEF Untouched
      <3> QED
        BY <1>1, <1>2, <1>3, <2>1, <3>1, RowsStay, SamePlaces
    <2>3. CASE shown'[j] # shown[j]
      <3>1. /\ j = i /\ shown'[j] \in {"processing", "uploading"} /\ shown[j] \in Active
            /\ uploads[u].at = "sending" /\ u \in Open /\ u \in Open' /\ uploads'[u].item = j
        BY <1>1, <1>2, <1>5, <2>3 DEF Progress, At, SentIsOpen, Open, Following, Id
      <3>2. Followed(j)' = Followed(j) /\ Waiting' = Waiting
        BY <1>3, SamePlaces DEF Followed
      <3>3. ~(j \in Waiting /\ Followed(j))
        BY <2>1, <3>1 DEF RowOK, WaitOK, WaitsOnce, At
      <3>4. ASSUME NEW v \in Open', uploads'[v].item = j, Followed(j), ~At(v, "dropped")'
            PROVE  Runs(v)'
        <4>1. v \in Open /\ uploads[v].item = j /\ ~At(v, "dropped")
          BY <1>2, <3>4 DEF Open, Id, Following, At
        <4>2. Runs(v)
          BY <2>1, <3>1, <3>4, <4>1 DEF RowOK, RunOK
        <4> QED
          BY <1>3, <3>1, <3>4, <4>1, <4>2 DEF Runs, Active
      <3> QED
        BY <3>1, <3>2, <3>3, <3>4 DEF RowOK, WaitOK, RunOK, ActOK
    <2> QED
      BY <2>2, <2>3
  <1> QED
    BY <1>7, <1>8, <1>9, QueueInvFrom

-----------------------------------------------------------------------------
\* An upload settles.

LEMMA ReleaseIs ==
  ASSUME QueueTypeOK, NEW S \in SUBSET Open, NEW context, Release(S, context)
  PROVE  /\ ctl' \in [Item -> Nat] /\ lost \subseteq lost' /\ lost' \subseteq Item
         /\ \A i \in Item : IF \E u \in S : uploads[u].item = i THEN ctl'[i] = 0 ELSE ctl'[i] = ctl[i]
         /\ \A i \in Item : (\E u \in S : uploads[u].item = i) /\ i \notin lost' =>
               i \notin Waiting /\ \A u \in Open \ S : uploads[u].item # i
  <1> DEFINE items == {uploads[u].item : u \in S}
  <1>1. \A u \in S : uploads[u].item \in Item
    BY UploadIsTyped DEF Open
  <1>2. items \subseteq Item /\ \A i : i \in items <=> \E u \in S : uploads[u].item = i
    BY <1>1
  <1>3. ctl' = [i \in Item |-> IF i \in items THEN 0 ELSE ctl[i]]
    BY DEF Release
  <1>4. lost' = lost \cup {i \in items : i \in Waiting \/ \E u \in Open \ S : uploads[u].item = i}
    BY DEF Release
  <1> HIDE DEF items
  <1>5. ctl' \in [Item -> Nat]
    BY <1>3 DEF QueueTypeOK
  <1> QED
    BY <1>2, <1>3, <1>4, <1>5 DEF QueueTypeOK

LEMMA SettledFollows ==
  ASSUME QueueInv, NEW u \in Open, Close(u), uploads[u].at \notin {"sending", "held"}
  PROVE  Following /\ ~uploads'[u].open /\ \A v \in Id \ {u} : uploads'[v] = uploads[v]
  <1> DEFINE x == [uploads[u] EXCEPT !.open = FALSE, !.at = IF @ = "dropped" THEN "gone" ELSE @]
  <1>1. u \in Id /\ uploads[u] \in Upload /\ uploads \in Seq(Upload) /\ DOMAIN uploads = Id
           /\ QueueTypeOK /\ SentIsOpen
    BY UploadIsTyped DEF QueueInv, QueueTypeOK, Id, Open
  <1>2. /\ x \in Upload /\ x.item = uploads[u].item /\ x.open = FALSE
        /\ x.at = (IF uploads[u].at = "dropped" THEN "gone" ELSE uploads[u].at)
        /\ uploads' = [uploads EXCEPT ![u] = x]
    BY <1>1 DEF Close, Upload, Place
  <1> HIDE DEF x
  <1>3. uploads'[u] = x /\ \A v \in Id \ {u} : uploads'[v] = uploads[v]
    BY <1>1, <1>2
  <1>4. Following
    <2>1. /\ x.open => uploads[u].open
          /\ uploads[u].at = "stored" => x.at = "stored"
          /\ uploads[u].at = "dropped" /\ x.open => x.at = "dropped"
          /\ x.at \in {"sending", "held", "dropped"} => x.open
      BY <1>2
    <2> QED
      BY <1>1, <1>2, <2>1, OneFollows
  <1> QED
    BY <1>2, <1>3, <1>4

LEMMA SettleKeepsQueue ==
  ASSUME QueueInv, SlotInv', NEW u \in Id, Succeed(u) \/ Fail(u)
  PROVE  QueueInv'
  <1>1. QueueTypeOK /\ u \in Open /\ {u} \in SUBSET Open /\ SentIsOpen
    BY DEF QueueInv, Succeed, Fail, Open
  <1>2. PICK i \in Item : i = uploads[u].item
    BY <1>1, UploadIsTyped
  <1>3. Close(u) /\ Release({u}, "later") /\ uploads[u].at \in {"stored", "refused", "dropped"}
          /\ UNCHANGED <<seen, added, queue, mounted, retries, row>>
    BY DEF Succeed, Fail, At
  <1>4. Following /\ ~uploads'[u].open /\ \A v \in Id \ {u} : uploads'[v] = uploads[v]
    BY <1>1, <1>3, SettledFollows
  <1>5. /\ ctl' \in [Item -> Nat] /\ lost \subseteq lost' /\ lost' \subseteq Item
        /\ ctl'[i] = 0 /\ \A j \in Item \ {i} : ctl'[j] = ctl[j]
        /\ i \notin lost' => i \notin Waiting /\ \A v \in Open \ {u} : uploads[v].item # i
    <2> DEFINE S == {u}
    <2>1. \A v : v \in S <=> v = u
      OBVIOUS
    <2>2. S \in SUBSET Open /\ Release(S, "later")
      BY <1>1, <1>3
    <2> HIDE DEF S
    <2>3. /\ ctl' \in [Item -> Nat] /\ lost \subseteq lost' /\ lost' \subseteq Item
          /\ \A j \in Item : IF \E v \in S : uploads[v].item = j THEN ctl'[j] = 0 ELSE ctl'[j] = ctl[j]
          /\ \A j \in Item : (\E v \in S : uploads[v].item = j) /\ j \notin lost' =>
               j \notin Waiting /\ \A v \in Open \ S : uploads[v].item # j
      BY <1>1, <2>2, ReleaseIs
    <2>4. \A j \in Item : (\E v \in S : uploads[v].item = j) <=> j = i
      BY <1>2, <2>1
    <2>5. \A v \in Open \ {u} : v \in Open \ S
      BY <2>1
    <2> QED
      BY <2>3, <2>4, <2>5
  <1>6. /\ shown' \in [Item -> UploadItemStatus \cup {"none"}]
        /\ \A j \in Item \ {i} : shown'[j] = shown[j]
        /\ mounted => shown'[i] \notin Active
        /\ shown'[i] = "done" => shown[i] = "done" \/ At(u, "stored")
        /\ shown'[i] # "none" => shown[i] # "none"
    <2>1. \/ shown' = shown /\ ~mounted
          \/ \E st \in {"none", "done", "canceled", "failed"} :
                /\ shown' = [shown EXCEPT ![i] = st]
                /\ st = "done" => shown[i] = "done" \/ At(u, "stored")
                /\ st # "none" => shown[i] # "none"
      <3>1. CASE Succeed(u)
        BY <1>2, <3>1 DEF Succeed, Set
      <3>2. CASE Fail(u)
        BY <1>2, <3>2 DEF Fail, Set
      <3> QED
        BY <3>1, <3>2
    <2>2. shown \in [Item -> UploadItemStatus \cup {"none"}]
      BY <1>1 DEF QueueTypeOK
    <2> QED
      BY <2>1, <2>2 DEF UploadItemStatus, Active, Terminal
  <1>7. QueueTypeOK'
    <2>1. running' \in Nat /\ pumping' \in {"no", "click", "later"}
      BY DEF SlotInv, QueueShape
    <2> QED
      BY <1>1, <1>3, <1>4, <1>5, <1>6, <2>1 DEF QueueTypeOK, Following
  <1>8. ItemsAreAdded' /\ ControlIsOwn' /\ SentIsOpen' /\ DoneInv'
    <2>1. \A j \in Waiting' : j \in added'
      BY <1>3, SamePlaces DEF QueueInv, ItemsAreAdded
    <2>2. \A j \in Item : ctl'[j] \in {0, ctl[j]}
      BY <1>5
    <2>3. \A j \in Item : shown'[j] = "done" \/ seen'[j] = "done" =>
             \/ shown[j] = "done" \/ seen[j] = "done"
             \/ \E v \in Id : uploads[v].item = j /\ At(v, "stored")
      BY <1>2, <1>3, <1>6
    <2>4. \A j \in Item : shown'[j] # "none" \/ seen'[j] # "none" =>
             shown[j] # "none" \/ seen[j] # "none" \/ j \in added'
      BY <1>3, <1>6
    <2> QED
      BY <1>3, <1>4, <2>1, <2>2, <2>3, <2>4, BookKept
  <1>9. ASSUME NEW j \in Item PROVE RowOK(j)'
    <2>1. RowOK(j)
      BY RowsAre
    <2>2. CASE j # i
      <3>1. Untouched(j)
        BY <1>2, <1>3, <1>4, <1>5, <1>6, <2>2 DEF Untouched
      <3> QED
        BY <1>1, <1>3, <1>4, <2>1, <3>1, RowsStay, SamePlaces
    <2>3. CASE j = i
      <3>1. SUFFICES ASSUME Followed(j)' PROVE RowOK(j)'
        BY DEF RowOK, WaitOK, RunOK, ActOK
      <3>2. j \notin Waiting' /\ shown'[j] \notin Active
        BY <1>3, <1>5, <1>6, <2>3, <3>1, SamePlaces DEF Followed
      <3>3. \A v \in Open' : uploads'[v].item # j
        BY <1>2, <1>4, <1>5, <2>3, <3>1 DEF Open, Id, Following, Followed
      <3> QED
        BY <3>2, <3>3 DEF RowOK, WaitOK, RunOK, ActOK
    <2> QED
      BY <2>2, <2>3
  <1> QED
    BY <1>7, <1>8, <1>9, QueueInvFrom

-----------------------------------------------------------------------------
\* The loop of the pump, and the render.

LEMMA TailOf ==
  ASSUME NEW T, NEW s \in Seq(T), s # <<>>
  PROVE  /\ Tail(s) \in Seq(T) /\ Head(s) \in T /\ Head(s) = s[1] /\ 1 \in DOMAIN s
         /\ \A k \in DOMAIN Tail(s) : k + 1 \in DOMAIN s /\ Tail(s)[k] = s[k + 1]
         /\ \A k \in DOMAIN s : k = 1 \/ (k - 1 \in DOMAIN Tail(s) /\ Tail(s)[k - 1] = s[k])
  OBVIOUS

\* Only the head leaves.
LEMMA HeadLeaves ==
  ASSUME QueueTypeOK, queue # <<>>, queue' = Tail(queue)
  PROVE  /\ queue' \in Seq(Item) /\ Head(queue) \in Item /\ Head(queue) \in Waiting
         /\ Waiting' \subseteq Waiting
         /\ \A i \in Waiting : i # Head(queue) => i \in Waiting'
         /\ \A i : (\A k, l \in DOMAIN queue : queue[k] = i /\ queue[l] = i => k = l) =>
                /\ \A k, l \in DOMAIN queue' : queue'[k] = i /\ queue'[l] = i => k = l
                /\ i = Head(queue) => i \notin Waiting'
  <1> DEFINE t == Tail(queue)
  <1>1. queue \in Seq(Item)
    BY DEF QueueTypeOK
  <1>2. /\ t \in Seq(Item) /\ Head(queue) \in Item /\ Head(queue) = queue[1] /\ 1 \in DOMAIN queue
        /\ \A k \in DOMAIN t : k + 1 \in DOMAIN queue /\ t[k] = queue[k + 1]
        /\ \A k \in DOMAIN queue : k = 1 \/ (k - 1 \in DOMAIN t /\ t[k - 1] = queue[k])
    BY <1>1, TailOf
  <1>3. DOMAIN t \subseteq Nat \ {0}
    BY <1>2
  <1> HIDE DEF t
  <1>4. queue' = t
    BY DEF t
  <1>5. Waiting' \subseteq Waiting /\ Head(queue) \in Waiting
    BY <1>2, <1>4 DEF Waiting
  <1>6. \A i \in Waiting : i # Head(queue) => i \in Waiting'
    BY <1>2, <1>4 DEF Waiting
  <1>7. ASSUME NEW i, \A k, l \in DOMAIN queue : queue[k] = i /\ queue[l] = i => k = l
        PROVE  /\ \A k, l \in DOMAIN t : t[k] = i /\ t[l] = i => k = l
               /\ i = Head(queue) => i \notin Waiting'
    <2>1. ASSUME NEW k \in DOMAIN t, NEW l \in DOMAIN t, t[k] = i, t[l] = i PROVE k = l
      <3>1. k + 1 = l + 1
        BY <1>2, <1>7, <2>1
      <3> QED
        BY <1>3, <3>1
    <2>2. ASSUME NEW k \in DOMAIN t, t[k] = i, i = Head(queue) PROVE FALSE
      <3>1. k + 1 = 1
        BY <1>2, <1>7, <2>2
      <3> QED
        BY <1>3, <3>1
    <2> QED
      BY <1>4, <2>1, <2>2 DEF Waiting
  <1>8. \A i : (\A k, l \in DOMAIN queue : queue[k] = i /\ queue[l] = i => k = l) =>
                /\ \A k, l \in DOMAIN queue' : queue'[k] = i /\ queue'[l] = i => k = l
                /\ i = Head(queue) => i \notin Waiting'
    BY <1>4, <1>7
  <1>9. queue' \in Seq(Item) /\ Head(queue) \in Item
    BY <1>2, <1>4
  <1> QED
    BY <1>5, <1>6, <1>8, <1>9

LEMMA PumpKeepsQueue == QueueInv /\ SlotInv' /\ Pump => QueueInv'
  <1> SUFFICES ASSUME QueueInv, SlotInv', Pump PROVE QueueInv'
    OBVIOUS
  <1>1. QueueTypeOK /\ SentIsOpen /\ queue # <<>> /\ queue' = Tail(queue)
          /\ UNCHANGED <<seen, added, pumping, mounted, retries, row, lost>>
    BY DEF QueueInv, Pump
  <1>2. PICK i \in Item : i = Head(queue) /\ i \in Waiting
    BY <1>1, HeadLeaves
  <1>3. /\ queue' \in Seq(Item) /\ Waiting' \subseteq Waiting
        /\ \A j \in Waiting : j # i => j \in Waiting'
        /\ \A j : (\A k, l \in DOMAIN queue : queue[k] = j /\ queue[l] = j => k = l) =>
                \A k, l \in DOMAIN queue' : queue'[k] = j /\ queue'[l] = j => k = l
        /\ (\A k, l \in DOMAIN queue : queue[k] = i /\ queue[l] = i => k = l) => i \notin Waiting'
    BY <1>1, <1>2, HeadLeaves
  <1>4. running' \in Nat /\ pumping' \in {"no", "click", "later"}
    BY DEF SlotInv, QueueShape
  <1>5. \A j \in Item : RowOK(j) /\ (Followed(j)' <=> Followed(j))
    BY <1>1, RowsAre DEF Followed
  <1>6. \A j \in Waiting' : j \in added'
    BY <1>1, <1>3 DEF QueueInv, ItemsAreAdded
  <1>7. CASE seen[i] # "queued"
    <2>1. UNCHANGED <<shown, ctl, uploads>>
      BY <1>2, <1>7 DEF Pump
    <2>2. Following
      BY <1>1, <2>1, UploadsRest
    <2>3. QueueTypeOK'
      BY <1>1, <1>3, <1>4, <2>1 DEF QueueTypeOK
    <2>4. ItemsAreAdded' /\ ControlIsOwn' /\ SentIsOpen' /\ DoneInv'
      BY <1>1, <1>6, <2>1, <2>2, BookKept
    <2>5. ASSUME NEW j \in Item PROVE RowOK(j)'
      <3>1. CASE j = i
        <4>1. ~Followed(i)
          BY <1>2, <1>5, <1>7 DEF RowOK, WaitOK, WaitsOnce
        <4> QED
          BY <1>5, <3>1, <4>1 DEF RowOK, WaitOK, RunOK, ActOK, Followed
      <3>2. CASE j # i
        <4>1. Untouched(j)
          BY <1>1, <2>1 DEF Untouched
        <4>2. j \in Waiting' <=> j \in Waiting
          BY <1>3, <3>2
        <4> QED
          BY <1>1, <1>3, <1>5, <2>2, <4>1, <4>2, RowsStay
      <3> QED
        BY <3>1, <3>2
    <2> QED
      BY <2>3, <2>4, <2>5, QueueInvFrom
  <1>8. CASE seen[i] = "queued"
    <2> DEFINE n == Len(uploads) + 1
               x == NewUpload(i)
    <2>1. /\ ctl' = [ctl EXCEPT ![i] = n] /\ uploads' = Append(uploads, x)
          /\ Set([shown EXCEPT ![i] = IF @ = "none" THEN @ ELSE "uploading"])
      BY <1>2, <1>8 DEF Pump
    <2>2. x \in Upload /\ x.item = i /\ x.open = TRUE /\ x.at = "sending"
      BY DEF NewUpload, Upload, Place
    <2> HIDE DEF x
    <2>3. Len(uploads) \in Nat /\ Id = 1 .. Len(uploads) /\ uploads \in Seq(Upload)
      BY <1>1, UploadIsTyped DEF QueueTypeOK
    <2>4. /\ uploads' \in Seq(Upload) /\ Id' = Id \cup {n} /\ n \notin Id /\ n \in Nat /\ n # 0
          /\ uploads'[n] = x /\ \A u \in Id : uploads'[u] = uploads[u]
      BY <2>1, <2>2, <2>3 DEF Id
    <2> HIDE DEF n
    <2>5. Open' = Open \cup {n} /\ n \notin Open
      BY <2>2, <2>4 DEF Open
    <2>6. /\ shown' \in [Item -> UploadItemStatus \cup {"none"}]
          /\ \A j \in Item : j # i => shown'[j] = shown[j]
          /\ shown'[i] \in {shown[i], "uploading"}
          /\ mounted /\ shown[i] # "none" => shown'[i] = "uploading"
      BY <1>1, <2>1 DEF QueueTypeOK, Set, UploadItemStatus, Active
    <2>7. ctl' \in [Item -> Nat] /\ ctl'[i] = n /\ \A j \in Item : j # i => ctl'[j] = ctl[j]
      BY <1>1, <2>1, <2>4 DEF QueueTypeOK
    <2>8. QueueTypeOK'
      BY <1>1, <1>3, <1>4, <2>4, <2>6, <2>7 DEF QueueTypeOK
    <2>9. ItemsAreAdded'
      <3>1. \A j \in Item : shown'[j] # "none" => shown[j] # "none" \/ j = i
        BY <2>6
      <3> QED
        BY <1>1, <1>2, <1>6, <2>2, <2>4, <3>1 DEF QueueInv, ItemsAreAdded
    <2>10. ControlIsOwn'
      BY <2>2, <2>4, <2>7 DEF QueueInv, ControlIsOwn
    <2>11. SentIsOpen'
      BY <2>2, <2>4 DEF QueueInv, SentIsOpen
    <2>12. DoneInv'
      <3>1. \A j \in Item : shown'[j] = "done" => shown[j] = "done"
        BY <2>6
      <3>2. \A j \in Item : shown'[j] = "done" \/ seen'[j] = "done" =>
                \E u \in Id : uploads[u].item = j /\ At(u, "stored")
        BY <1>1, <3>1 DEF QueueInv, DoneInv
      <3> QED
        BY <2>4, <3>2 DEF DoneInv, At
    <2>13. ASSUME NEW j \in Item PROVE RowOK(j)'
      <3>1. SUFFICES ASSUME Followed(j) PROVE RowOK(j)'
        BY <1>5 DEF RowOK, WaitOK, RunOK, ActOK
      <3>2. CASE j = i
        <4>1. WaitsOnce(i)
          BY <1>2, <1>5, <3>1, <3>2 DEF RowOK, WaitOK
        <4>2. i \notin Waiting' /\ shown'[i] = "uploading" /\ seen'[i] = "queued"
          BY <1>1, <1>3, <1>8, <2>6, <3>1, <3>2, <4>1 DEF WaitsOnce, Followed
        <4>3. ASSUME NEW u \in Open', uploads'[u].item = i, ~At(u, "dropped")' PROVE Runs(u)'
          <5>1. u = n
            BY <2>4, <2>5, <4>1, <4>3 DEF WaitsOnce, At, Open
          <5> QED
            BY <2>7, <4>2, <4>3, <5>1 DEF Runs, Active
        <4>4. n \in Open' /\ uploads'[n].item = i
          BY <2>2, <2>4, <2>5
        <4> QED
          BY <3>2, <4>2, <4>3, <4>4 DEF RowOK, WaitOK, RunOK, ActOK
      <3>3. CASE j # i
        <4>1. \A u \in Open' : uploads'[u].item = j => u \in Open /\ uploads[u] = uploads'[u]
          BY <2>2, <2>4, <2>5, <3>3 DEF Open
        <4>2. \A u \in Open : u \in Open' /\ uploads[u] = uploads'[u]
          BY <2>4, <2>5 DEF Open
        <4>3. shown'[j] = shown[j] /\ seen'[j] = seen[j] /\ ctl'[j] = ctl[j]
          BY <1>1, <2>6, <2>7, <3>3
        <4>4. WaitOK(j)'
          <5>1. SUFFICES ASSUME j \in Waiting' PROVE WaitsOnce(j)'
            BY DEF WaitOK
          <5>2. WaitsOnce(j)
            BY <1>3, <1>5, <3>1, <5>1 DEF RowOK, WaitOK
          <5> QED
            BY <1>3, <4>1, <4>3, <5>2 DEF WaitsOnce, At
        <4>5. RunOK(j)'
          <5>1. RunOK(j)
            BY <1>5 DEF RowOK
          <5> QED
            BY <3>1, <4>1, <4>3, <5>1 DEF RunOK, Runs, At
        <4>6. ActOK(j)'
          BY <1>3, <1>5, <3>1, <3>3, <4>2, <4>3 DEF RowOK, ActOK
        <4> QED
          BY <4>4, <4>5, <4>6 DEF RowOK
      <3> QED
        BY <3>2, <3>3
    <2> QED
      BY <2>8, <2>9, <2>10, <2>11, <2>12, <2>13, QueueInvFrom
  <1> QED
    BY <1>7, <1>8

LEMMA PumpEndsKeepsQueue == QueueInv /\ (PumpEnds \/ Render) => QueueInv'
  <1> SUFFICES ASSUME QueueInv, PumpEnds \/ Render PROVE QueueInv'
    OBVIOUS
  <1>1. UNCHANGED <<shown, added, queue, running, ctl, uploads, mounted, retries, row, lost>>
    BY DEF PumpEnds, Render
  <1>2. seen' = seen \/ seen' = shown
    BY DEF PumpEnds, Render
  <1>3. pumping' \in {"no", "click", "later"} /\ QueueTypeOK /\ SentIsOpen
    BY DEF PumpEnds, Render, QueueInv, QueueTypeOK
  <1>4. QueueTypeOK'
    BY <1>1, <1>2, <1>3 DEF QueueTypeOK
  <1>5. Following
    BY <1>1, <1>3, UploadsRest
  <1>6. ItemsAreAdded' /\ ControlIsOwn' /\ SentIsOpen' /\ DoneInv'
    <2>1. \A j \in Waiting' : j \in added'
      BY <1>1, SamePlaces DEF QueueInv, ItemsAreAdded
    <2> QED
      BY <1>1, <1>2, <1>5, <2>1, BookKept
  <1>7. ASSUME NEW j \in Item PROVE RowOK(j)'
    <2>1. RowOK(j) /\ Open' = Open /\ Waiting' = Waiting
      BY <1>1, RowsAre, SamePlaces DEF Open, Id
    <2>2. WaitOK(j)'
      BY <1>1, <1>2, <2>1 DEF RowOK, WaitOK, WaitsOnce, Followed, At
    <2>3. RunOK(j)'
      BY <1>1, <1>2, <2>1 DEF RowOK, RunOK, Runs, Followed, At
    <2>4. ActOK(j)'
      BY <1>1, <2>1 DEF RowOK, ActOK, Followed
    <2> QED
      BY <2>2, <2>3, <2>4 DEF RowOK
  <1> QED
    BY <1>4, <1>6, <1>7, QueueInvFrom

-----------------------------------------------------------------------------
\* The buttons that take an item out of the queue and abort its upload.

LEMMA WithoutIs ==
  ASSUME QueueTypeOK, NEW i \in Item, queue' = Without(i)
  PROVE  /\ queue' \in Seq(Item) /\ i \notin Waiting'
         /\ \A j : j # i => (j \in Waiting' <=> j \in Waiting)
         /\ \A j : (\A k, l \in DOMAIN queue : queue[k] = j /\ queue[l] = j => k = l) =>
                \A k, l \in DOMAIN queue' : queue'[k] = j /\ queue'[l] = j => k = l
  <1> DEFINE S == {k \in DOMAIN queue : queue[k] # i}
             p == Picked(queue, S)
  <1>1. queue \in Seq(Item) /\ S \in SUBSET DOMAIN queue
    BY DEF QueueTypeOK
  <1>2. \A k : k \in S <=> k \in DOMAIN queue /\ queue[k] # i
    OBVIOUS
  <1>3. queue' = p
    BY DEF Without
  <1> HIDE DEF S
  <1>4. /\ p \in Seq(Item)
        /\ \A k \in DOMAIN p : \E j \in S : p[k] = queue[j]
        /\ \A j \in S : \E k \in DOMAIN p : p[k] = queue[j]
    BY <1>1, PickedIsSeq
  <1>5. PICK place \in [1 .. Cardinality(S) -> S] :
           /\ p = [k \in 1 .. Cardinality(S) |-> queue[place[k]]]
           /\ \A k, l \in 1 .. Cardinality(S) : place[k] = place[l] => k = l
    BY <1>1, PickedIs
  <1> DEFINE D == 1 .. Cardinality(S)
  <1> HIDE DEF D
  <1>6. /\ DOMAIN p = D /\ \A k \in D : p[k] = queue[place[k]] /\ place[k] \in S
        /\ \A k, l \in D : place[k] = place[l] => k = l
    BY <1>5 DEF D
  <1> HIDE DEF p
  <1>7. ASSUME NEW j, \A k, l \in DOMAIN queue : queue[k] = j /\ queue[l] = j => k = l,
               NEW k \in DOMAIN p, NEW l \in DOMAIN p, p[k] = j, p[l] = j
        PROVE  k = l
    <2>1. place[k] \in DOMAIN queue /\ place[l] \in DOMAIN queue
      BY <1>2, <1>6
    <2>2. place[k] = place[l]
      BY <1>6, <1>7, <2>1
    <2> QED
      BY <1>6, <2>2
  <1>8. \A j : j \in Waiting' <=> \E k \in DOMAIN p : p[k] = j
    BY <1>3 DEF Waiting
  <1>9. \A j : j \in Waiting <=> \E k \in DOMAIN queue : queue[k] = j
    BY DEF Waiting
  <1>10. i \notin Waiting' /\ \A j : j # i => (j \in Waiting' <=> j \in Waiting)
    BY <1>2, <1>4, <1>8, <1>9
  <1> QED
    BY <1>3, <1>4, <1>7, <1>10

LEMMA ControlledAre ==
  ASSUME QueueInv, NEW i \in Item
  PROVE  /\ Controlled(i) \in SUBSET Open /\ Settling(Controlled(i)) \in SUBSET Open
         /\ \A u \in Controlled(i) : uploads[u].item = i
         /\ \A u \in Open : uploads[u].item = i /\ Followed(i) /\ ~At(u, "dropped") => u \in Controlled(i)
  <1>1. \A u \in Open : u # 0 /\ u \in Id
    BY UploadIsTyped DEF QueueInv, Open
  <1>2. \A u \in Controlled(i) : uploads[u].item = i
    BY <1>1 DEF QueueInv, ControlIsOwn, Controlled
  <1>3. \A u \in Open : uploads[u].item = i /\ Followed(i) /\ ~At(u, "dropped") => u \in Controlled(i)
    BY DEF QueueInv, RunningInv, Runs, Controlled
  <1> QED
    BY <1>2, <1>3 DEF Controlled, Settling

\* What is left of the uploads of an item that was cancelled or removed was held back.
LEMMA NoneRuns ==
  ASSUME QueueInv, Following, NEW i \in Item, NEW S, Controlled(i) \subseteq S,
         lost \subseteq lost', mounted' => mounted,
         \A u \in S : uploads'[u].open => uploads'[u].at = "dropped"
  PROVE  RunOK(i)'
  <1>1. SUFFICES ASSUME NEW u \in Open', uploads'[u].item = i, Followed(i)', ~At(u, "dropped")'
                 PROVE  FALSE
    BY DEF RunOK
  <1>2. u \in Open /\ uploads[u].item = i /\ ~At(u, "dropped") /\ uploads'[u].open
    BY <1>1 DEF Open, Id, Following, At
  <1>3. Followed(i)
    BY <1>1 DEF Followed
  <1>4. u \in S
    BY <1>2, <1>3, ControlledAre
  <1> QED
    BY <1>1, <1>2, <1>4 DEF At

LEMMA OutOfQueueKeeps ==
  ASSUME QueueInv, SlotInv', NEW i \in Item, CancelItem(i) \/ RemoveItem(i)
  PROVE  QueueInv'
  <1>1. QueueTypeOK /\ SentIsOpen
    BY DEF QueueInv
  <1>2. /\ queue' = Without(i) /\ AbortAll(Controlled(i)) /\ Release(Settling(Controlled(i)), "click")
        /\ UNCHANGED <<seen, added, mounted, retries, row>>
    BY DEF CancelItem, RemoveItem
  <1>3. \E st \in {Cancel(shown[i]), "none"} : shown' = [shown EXCEPT ![i] = st]
    BY DEF CancelItem, RemoveItem
  <1>4. /\ shown' \in [Item -> UploadItemStatus \cup {"none"}]
        /\ shown'[i] \notin Active /\ (shown'[i] = "done" => shown[i] = "done")
        /\ shown'[i] # "none" => shown[i] # "none"
        /\ \A j \in Item : j # i => shown'[j] = shown[j]
    BY <1>1, <1>3 DEF QueueTypeOK, Cancel, UploadItemStatus, Active, Terminal
  <1>5. /\ queue' \in Seq(Item) /\ i \notin Waiting'
        /\ \A j : j # i => (j \in Waiting' <=> j \in Waiting)
        /\ \A j : (\A k, l \in DOMAIN queue : queue[k] = j /\ queue[l] = j => k = l) =>
                \A k, l \in DOMAIN queue' : queue'[k] = j /\ queue'[l] = j => k = l
    BY <1>1, <1>2, WithoutIs
  <1>6. PICK S \in SUBSET Open : S = Controlled(i) /\ \A u \in S : uploads[u].item = i
    BY ControlledAre
  <1>7. /\ Following
        /\ \A u \in S : uploads'[u].open => uploads'[u].at = "dropped"
        /\ \A u \in Id \ S : uploads'[u] = uploads[u]
    BY <1>1, <1>2, <1>6, AbortFollows
  <1>8. PICK T \in SUBSET S : T = Settling(S)
    BY DEF Settling
  <1>9. /\ ctl' \in [Item -> Nat] /\ lost \subseteq lost' /\ lost' \subseteq Item
        /\ \A j \in Item : IF \E u \in T : uploads[u].item = j THEN ctl'[j] = 0 ELSE ctl'[j] = ctl[j]
    <2>1. T \in SUBSET Open /\ Release(T, "click")
      BY <1>2, <1>6, <1>8
    <2> QED
      BY <1>1, <2>1, ReleaseIs
  <1>10. ctl'[i] \in {0, ctl[i]} /\ \A j \in Item : j # i => ctl'[j] = ctl[j]
    BY <1>6, <1>9
  <1>11. QueueTypeOK'
    <2>1. running' \in Nat /\ pumping' \in {"no", "click", "later"}
      BY DEF SlotInv, QueueShape
    <2> QED
      BY <1>1, <1>2, <1>4, <1>5, <1>7, <1>9, <2>1 DEF QueueTypeOK, Following
  <1>12. ItemsAreAdded' /\ ControlIsOwn' /\ SentIsOpen' /\ DoneInv'
    <2>1. \A j \in Waiting' : j \in added'
      BY <1>2, <1>5 DEF QueueInv, ItemsAreAdded
    <2>2. \A j \in Item : ctl'[j] \in {0, ctl[j]}
      BY <1>10
    <2>3. \A j \in Item : /\ shown'[j] = "done" => shown[j] = "done"
                          /\ shown'[j] # "none" => shown[j] # "none"
      BY <1>4
    <2>4. seen' = seen /\ added' = added
      BY <1>2
    <2> QED
      <3>1. \A j \in Item : shown'[j] # "none" \/ seen'[j] # "none" =>
               shown[j] # "none" \/ seen[j] # "none" \/ j \in added'
        BY <2>3, <2>4
      <3>2. \A j \in Item : shown'[j] = "done" \/ seen'[j] = "done" =>
               \/ shown[j] = "done" \/ seen[j] = "done"
               \/ \E u \in Id : uploads[u].item = j /\ At(u, "stored")
        BY <2>3, <2>4
      <3>3. added \subseteq added'
        BY <2>4
      <3> QED
        BY <1>7, <2>1, <2>2, <3>1, <3>2, <3>3, BookKept
  <1>13. ASSUME NEW j \in Item PROVE RowOK(j)'
    <2>1. CASE j # i
      <3>1. Untouched(j)
        BY <1>2, <1>4, <1>6, <1>7, <1>9, <1>10, <2>1 DEF Untouched
      <3>2. RowOK(j)
        BY RowsAre
      <3> QED
        BY <1>1, <1>5, <1>7, <2>1, <3>1, <3>2, RowsStay
    <2>2. CASE j = i
      <3>1. RunOK(i)'
        BY <1>2, <1>6, <1>7, <1>9, NoneRuns
      <3>2. WaitOK(i)' /\ ActOK(i)'
        BY <1>4, <1>5 DEF WaitOK, ActOK
      <3> QED
        BY <2>2, <3>1, <3>2 DEF RowOK
    <2> QED
      BY <2>1, <2>2
  <1> QED
    BY <1>11, <1>12, <1>13, QueueInvFrom

LEMMA CancelAllKeeps == QueueInv /\ SlotInv' /\ CancelAll => QueueInv'
  <1> SUFFICES ASSUME QueueInv, SlotInv', CancelAll PROVE QueueInv'
    OBVIOUS
  <1>1. QueueTypeOK /\ SentIsOpen
    BY DEF QueueInv
  <1>2. PICK S : S = UNION {Controlled(i) : i \in Item}
    OBVIOUS
  <1>3. /\ queue' = <<>> /\ AbortAll(S) /\ Release(Settling(S), "click")
        /\ shown' = [i \in Item |-> Cancel(shown[i])]
        /\ UNCHANGED <<seen, added, mounted, retries, row>>
    BY <1>2 DEF CancelAll
  <1>4. S \in SUBSET Open /\ \A i \in Item : Controlled(i) \subseteq S
    BY <1>2, ControlledIsOpen
  <1>5. /\ Following
        /\ \A u \in S : uploads'[u].open => uploads'[u].at = "dropped"
    BY <1>1, <1>3, <1>4, AbortFollows
  <1>6. /\ shown' \in [Item -> UploadItemStatus \cup {"none"}]
        /\ \A i \in Item : /\ shown'[i] \notin Active
                           /\ shown'[i] = "done" => shown[i] = "done"
                           /\ shown'[i] # "none" => shown[i] # "none"
    BY <1>1, <1>3 DEF QueueTypeOK, Cancel, UploadItemStatus, Active, Terminal
  <1>7. /\ ctl' \in [Item -> Nat] /\ lost \subseteq lost' /\ lost' \subseteq Item
        /\ \A i \in Item : ctl'[i] \in {0, ctl[i]}
    <2>1. PICK T \in SUBSET Open : T = Settling(S)
      BY <1>4 DEF Settling
    <2>2. Release(T, "click")
      BY <1>3, <2>1
    <2>3. /\ ctl' \in [Item -> Nat] /\ lost \subseteq lost' /\ lost' \subseteq Item
          /\ \A j \in Item : IF \E u \in T : uploads[u].item = j THEN ctl'[j] = 0 ELSE ctl'[j] = ctl[j]
      BY <1>1, <2>2, ReleaseIs
    <2> QED
      BY <2>3
  <1>8. queue' \in Seq(Item) /\ Waiting' = {}
    BY <1>3 DEF Waiting
  <1>9. QueueTypeOK'
    <2>1. running' \in Nat /\ pumping' \in {"no", "click", "later"}
      BY DEF SlotInv, QueueShape
    <2> QED
      BY <1>1, <1>3, <1>5, <1>6, <1>7, <1>8, <2>1 DEF QueueTypeOK, Following
  <1>10. ItemsAreAdded' /\ ControlIsOwn' /\ SentIsOpen' /\ DoneInv'
    BY <1>3, <1>5, <1>6, <1>7, <1>8, BookKept
  <1>11. ASSUME NEW i \in Item PROVE RowOK(i)'
    <2>1. RunOK(i)'
      BY <1>3, <1>4, <1>5, <1>7, NoneRuns
    <2> QED
      BY <1>6, <1>8, <2>1 DEF RowOK, WaitOK, ActOK
  <1> QED
    BY <1>9, <1>10, <1>11, QueueInvFrom

LEMMA LeaveKeepsQueue == QueueInv /\ SlotInv' /\ (Leave \/ ClearFinished) => QueueInv'
  <1> SUFFICES ASSUME QueueInv, SlotInv', Leave \/ ClearFinished PROVE QueueInv'
    OBVIOUS
  <1>1. QueueTypeOK /\ SentIsOpen /\ UNCHANGED <<seen, added, queue, retries, row, lost>>
    BY DEF QueueInv, Leave, ClearFinished
  <1>2. running' \in Nat /\ pumping' \in {"no", "click", "later"}
    BY DEF SlotInv, QueueShape
  <1>3. \A j \in Waiting' : j \in added'
    BY <1>1, SamePlaces DEF QueueInv, ItemsAreAdded
  <1>4. CASE Leave
    <2>1. PICK S : S = UNION {Controlled(i) : i \in Item}
      OBVIOUS
    <2>2. AbortAll(S) /\ S \in SUBSET Open
      BY <1>4, <2>1, ControlledIsOpen DEF Leave
    <2>3. Following
      BY <1>1, <2>2, AbortFollows
    <2>4. shown' = shown /\ mounted' = FALSE /\ ctl' = [i \in Item |-> 0]
      BY <1>4 DEF Leave
    <2>5. ctl' \in [Item -> Nat] /\ \A i \in Item : ctl'[i] \in {0, ctl[i]}
      BY <2>4
    <2>6. QueueTypeOK'
      BY <1>1, <1>2, <2>3, <2>4, <2>5 DEF QueueTypeOK, Following
    <2>7. ItemsAreAdded' /\ ControlIsOwn' /\ SentIsOpen' /\ DoneInv'
      BY <1>1, <1>3, <2>3, <2>4, <2>5, BookKept
    <2>8. \A i \in Item : RowOK(i)'
      BY <2>4 DEF RowOK, WaitOK, RunOK, ActOK, Followed
    <2> QED
      BY <2>6, <2>7, <2>8, QueueInvFrom
  <1>5. CASE ClearFinished
    <2>1. UNCHANGED <<mounted, ctl, uploads>>
            /\ shown' = [i \in Item |-> IF shown[i] \in Terminal THEN "none" ELSE shown[i]]
      BY <1>5 DEF ClearFinished
    <2>2. Following
      BY <1>1, <2>1, UploadsRest
    <2>3. /\ shown' \in [Item -> UploadItemStatus \cup {"none"}]
          /\ \A i \in Item : /\ shown[i] \notin Terminal => shown'[i] = shown[i]
                             /\ shown[i] \in Terminal => shown'[i] = "none"
                             /\ shown'[i] # "done"
      BY <1>1, <2>1 DEF QueueTypeOK, UploadItemStatus, Terminal
    <2>4. QueueTypeOK'
      BY <1>1, <1>2, <2>1, <2>3 DEF QueueTypeOK
    <2>5. ItemsAreAdded' /\ ControlIsOwn' /\ SentIsOpen' /\ DoneInv'
      BY <1>1, <1>3, <2>1, <2>2, <2>3, BookKept
    <2>6. ASSUME NEW i \in Item PROVE RowOK(i)'
      <3>1. RowOK(i)
        BY RowsAre
      <3>2. CASE shown[i] \notin Terminal
        <4>1. Untouched(i)
          BY <1>1, <2>1, <2>3, <3>2 DEF Untouched
        <4> QED
          BY <1>1, <2>2, <3>1, <4>1, RowsStay, SamePlaces
      <3>3. CASE shown[i] \in Terminal
        <4>1. Open' = Open /\ Waiting' = Waiting
          BY <1>1, <2>1, SamePlaces DEF Open, Id
        <4>2. ~(i \in Waiting /\ Followed(i))
          BY <3>1, <3>3 DEF RowOK, WaitOK, WaitsOnce, Terminal
        <4>3. \A u \in Open : uploads[u].item = i /\ Followed(i) => At(u, "dropped")
          BY <3>1, <3>3 DEF RowOK, RunOK, Runs, Terminal, Active
        <4>4. shown'[i] \notin Active /\ (Followed(i)' <=> Followed(i))
          BY <1>1, <2>1, <2>3, <3>3 DEF Active, Followed
        <4> QED
          BY <2>1, <4>1, <4>2, <4>3, <4>4 DEF RowOK, WaitOK, RunOK, ActOK, At
      <3> QED
        BY <3>2, <3>3
    <2> QED
      BY <2>4, <2>5, <2>6, QueueInvFrom
  <1> QED
    BY <1>4, <1>5

-----------------------------------------------------------------------------
\* The clicks that put items into the queue.

\* The queue and some new entries, none of which is in it.
LEMMA Joined ==
  ASSUME QueueTypeOK, NEW s \in Seq(Item), queue' = queue \o s
  PROVE  /\ queue' \in Seq(Item)
         /\ \A j : j \in Waiting' <=> j \in Waiting \/ \E k \in DOMAIN s : s[k] = j
         /\ \A j : /\ \A k \in DOMAIN s : s[k] # j
                   /\ \A k, l \in DOMAIN queue : queue[k] = j /\ queue[l] = j => k = l
                   => \A k, l \in DOMAIN queue' : queue'[k] = j /\ queue'[l] = j => k = l
         /\ \A j : /\ j \notin Waiting
                   /\ \A k, l \in DOMAIN s : s[k] = j /\ s[l] = j => k = l
                   => \A k, l \in DOMAIN queue' : queue'[k] = j /\ queue'[l] = j => k = l
  <1> DEFINE n == Len(queue)
             m == Len(s)
             q == queue \o s
  <1>1. queue \in Seq(Item)
    BY DEF QueueTypeOK
  <1>2. /\ n \in Nat /\ m \in Nat /\ DOMAIN queue = 1 .. n /\ DOMAIN s = 1 .. m
        /\ q \in Seq(Item) /\ DOMAIN q = 1 .. (n + m)
        /\ \A k \in 1 .. n : q[k] = queue[k]
        /\ \A k \in 1 .. m : q[n + k] = s[k]
    BY <1>1
  <1>3. queue' = q
    OBVIOUS
  <1> HIDE DEF n, m, q
  <1>4. \A k \in DOMAIN q : k \in 1 .. n \/ (k - n \in 1 .. m /\ q[k] = s[k - n] /\ k \notin 1 .. n)
    BY <1>2
  <1>5. \A j : j \in Waiting' <=> j \in Waiting \/ \E k \in DOMAIN s : s[k] = j
    <2>1. \A k \in 1 .. n : k \in DOMAIN q
      BY <1>2
    <2>2. \A k \in 1 .. m : n + k \in DOMAIN q
      BY <1>2
    <2>3. \A j : j \in Waiting' <=> \E k \in DOMAIN q : q[k] = j
      BY <1>3 DEF Waiting
    <2>4. \A j : j \in Waiting <=> \E k \in 1 .. n : queue[k] = j
      BY <1>2 DEF Waiting
    <2>5. ASSUME NEW k \in DOMAIN q
          PROVE  (\E l \in 1 .. n : queue[l] = q[k]) \/ \E l \in DOMAIN s : s[l] = q[k]
      BY <1>2, <1>4
    <2>6. ASSUME NEW k \in 1 .. n PROVE \E l \in DOMAIN q : q[l] = queue[k]
      BY <1>2, <2>1
    <2>7. ASSUME NEW k \in DOMAIN s PROVE \E l \in DOMAIN q : q[l] = s[k]
      BY <1>2, <2>2
    <2> QED
      BY <2>3, <2>4, <2>5, <2>6, <2>7
  <1>6. ASSUME NEW j, \A k \in DOMAIN s : s[k] # j,
               \A k, l \in DOMAIN queue : queue[k] = j /\ queue[l] = j => k = l,
               NEW k \in DOMAIN q, NEW l \in DOMAIN q, q[k] = j, q[l] = j
        PROVE  k = l
    <2>1. k \in 1 .. n /\ l \in 1 .. n
      BY <1>2, <1>4, <1>6
    <2> QED
      BY <1>2, <1>6, <2>1
  <1>7. ASSUME NEW j, j \notin Waiting, \A k, l \in DOMAIN s : s[k] = j /\ s[l] = j => k = l,
               NEW k \in DOMAIN q, NEW l \in DOMAIN q, q[k] = j, q[l] = j
        PROVE  k = l
    <2>1. k \notin 1 .. n /\ l \notin 1 .. n
      BY <1>2, <1>7 DEF Waiting
    <2>2. k - n = l - n
      BY <1>2, <1>4, <1>7, <2>1
    <2> QED
      BY <1>2, <2>2
  <1> QED
    BY <1>2, <1>3, <1>5, <1>6, <1>7

LEMMA RetryKeepsQueue ==
  ASSUME QueueInv, SlotInv', NEW i \in Item, RetryItem(i)
  PROVE  QueueInv'
  <1>1. /\ QueueTypeOK /\ SentIsOpen /\ seen[i] \in {"failed", "canceled"} /\ retries \in Nat
        /\ UNCHANGED <<added, ctl, uploads, mounted, row>> /\ retries' = retries + 1
    BY DEF QueueInv, QueueTypeOK, RetryItem, CanRetry
  <1>2. running' \in Nat /\ pumping' \in {"no", "click", "later"}
    BY DEF SlotInv, QueueShape
  <1>3. Following /\ Open' = Open /\ Id' = Id
    BY <1>1, UploadsRest DEF Open, Id
  <1>4. i \in added
    BY <1>1 DEF QueueInv, ItemsAreAdded
  <1>5. Followed(i) => i \notin Waiting /\ \A u \in Open : uploads[u].item = i => At(u, "dropped")
    <2>1. RowOK(i)
      BY RowsAre
    <2> QED
      BY <1>1, <2>1 DEF RowOK, WaitOK, WaitsOnce, RunOK, Runs, Active
  <1>6. CASE i[1] \in Invalid
    <2>1. /\ shown' = [shown EXCEPT ![i] = IF @ = "none" THEN @ ELSE "failed"]
          /\ UNCHANGED <<seen, queue, lost>>
      BY <1>6 DEF RetryItem
    <2>2. /\ shown' \in [Item -> UploadItemStatus \cup {"none"}]
          /\ \A j \in Item : j # i => shown'[j] = shown[j]
          /\ shown'[i] \in {"none", "failed"}
      BY <1>1, <2>1 DEF QueueTypeOK, UploadItemStatus, Terminal
    <2>3. QueueTypeOK'
      BY <1>1, <1>2, <2>1, <2>2 DEF QueueTypeOK
    <2>4. ItemsAreAdded' /\ ControlIsOwn' /\ SentIsOpen' /\ DoneInv'
      <3>1. \A j \in Waiting' : j \in added'
        BY <1>1, <2>1, SamePlaces DEF QueueInv, ItemsAreAdded
      <3>2. \A j \in Item : /\ shown'[j] = "done" => shown[j] = "done"
                            /\ shown'[j] # "none" => shown[j] # "none"
        BY <1>1, <2>1, <2>2 DEF QueueTypeOK
      <3> QED
        BY <1>1, <1>3, <2>1, <3>1, <3>2, BookKept
    <2>5. ASSUME NEW j \in Item PROVE RowOK(j)'
      <3>1. CASE j # i
        <4>1. Untouched(j)
          BY <1>1, <2>1, <2>2, <3>1 DEF Untouched
        <4>2. RowOK(j)
          BY RowsAre
        <4> QED
          BY <1>1, <1>3, <2>1, <4>1, <4>2, RowsStay, SamePlaces
      <3>2. CASE j = i
        <4>1. Followed(i)' <=> Followed(i)
          BY <1>1, <2>1 DEF Followed
        <4>2. i \in Waiting' <=> i \in Waiting
          BY <2>1, SamePlaces
        <4> QED
          BY <1>1, <1>3, <1>5, <2>2, <3>2, <4>1, <4>2 DEF RowOK, WaitOK, RunOK, ActOK, Active, At
      <3> QED
        BY <3>1, <3>2
    <2> QED
      BY <2>3, <2>4, <2>5, QueueInvFrom
  <1>7. CASE i[1] \notin Invalid
    <2>1. /\ seen' = [seen EXCEPT ![i] = "queued"] /\ shown' = seen' /\ queue' = queue \o <<i>>
          /\ lost' = lost \cup {j \in Item : shown[j] # seen[j]}
      <3>1. queue' = Append(queue, i) /\ queue \in Seq(Item)
        BY <1>1, <1>7 DEF RetryItem, QueueTypeOK
      <3> QED
        BY <1>7, <3>1 DEF RetryItem
    <2>2. /\ seen' \in [Item -> UploadItemStatus \cup {"none"}] /\ seen'[i] = "queued"
          /\ \A j \in Item : j # i => seen'[j] = seen[j]
      BY <1>1, <2>1 DEF QueueTypeOK, UploadItemStatus, Active
    <2> DEFINE s == <<i>>
    <2>3. s \in Seq(Item) /\ DOMAIN s = {1} /\ s[1] = i
      OBVIOUS
    <2>4. queue' = queue \o s
      BY <2>1
    <2> HIDE DEF s
    <2>5. /\ queue' \in Seq(Item)
          /\ \A j : j \in Waiting' <=> j \in Waiting \/ j = i
          /\ \A j : /\ j # i
                    /\ \A k, l \in DOMAIN queue : queue[k] = j /\ queue[l] = j => k = l
                    => \A k, l \in DOMAIN queue' : queue'[k] = j /\ queue'[l] = j => k = l
          /\ \A j : j \notin Waiting => \A k, l \in DOMAIN queue' : queue'[k] = j /\ queue'[l] = j => k = l
      <3>1. /\ queue' \in Seq(Item)
            /\ \A j : j \in Waiting' <=> j \in Waiting \/ \E k \in DOMAIN s : s[k] = j
            /\ \A j : /\ \A k \in DOMAIN s : s[k] # j
                      /\ \A k, l \in DOMAIN queue : queue[k] = j /\ queue[l] = j => k = l
                      => \A k, l \in DOMAIN queue' : queue'[k] = j /\ queue'[l] = j => k = l
            /\ \A j : /\ j \notin Waiting
                      /\ \A k, l \in DOMAIN s : s[k] = j /\ s[l] = j => k = l
                      => \A k, l \in DOMAIN queue' : queue'[k] = j /\ queue'[l] = j => k = l
        BY <1>1, <2>3, <2>4, Joined
      <3>2. \A j : (\E k \in DOMAIN s : s[k] = j) <=> j = i
        BY <2>3
      <3>3. \A j : \A k, l \in DOMAIN s : s[k] = j /\ s[l] = j => k = l
        BY <2>3
      <3>4. ASSUME NEW j PROVE j \in Waiting' <=> j \in Waiting \/ j = i
        <4>1. j \in Waiting' <=> j \in Waiting \/ \E k \in DOMAIN s : s[k] = j
          BY <3>1
        <4> QED
          BY <3>2, <4>1
      <3>5. ASSUME NEW j, j \notin Waiting
            PROVE  \A k, l \in DOMAIN queue' : queue'[k] = j /\ queue'[l] = j => k = l
        <4>1. \A k, l \in DOMAIN s : s[k] = j /\ s[l] = j => k = l
          BY <3>3
        <4> QED
          BY <3>1, <3>5, <4>1
      <3>6. ASSUME NEW j, j # i, \A k, l \in DOMAIN queue : queue[k] = j /\ queue[l] = j => k = l
            PROVE  \A k, l \in DOMAIN queue' : queue'[k] = j /\ queue'[l] = j => k = l
        <4>1. \A k \in DOMAIN s : s[k] # j
          BY <3>2, <3>6
        <4> QED
          BY <3>1, <3>6, <4>1
      <3> QED
        BY <3>1, <3>4, <3>5, <3>6
    <2>6. QueueTypeOK'
      BY <1>1, <1>2, <2>1, <2>2, <2>5 DEF QueueTypeOK
    <2>7. ItemsAreAdded' /\ ControlIsOwn' /\ SentIsOpen' /\ DoneInv'
      <3>1. \A j \in Waiting' : j \in added'
        BY <1>1, <1>4, <2>5 DEF QueueInv, ItemsAreAdded
      <3>2. \A j \in Item : shown'[j] = seen'[j] /\ (seen'[j] # seen[j] => j = i)
        BY <2>1, <2>2
      <3> QED
        BY <1>1, <1>3, <1>4, <2>2, <3>1, <3>2, BookKept
    <2>8. ASSUME NEW j \in Item PROVE RowOK(j)'
      <3>1. SUFFICES ASSUME Followed(j)' PROVE RowOK(j)'
        BY DEF RowOK, WaitOK, RunOK, ActOK
      <3>2. Followed(j) /\ shown[j] = seen[j] /\ shown'[j] = seen'[j]
        BY <1>1, <2>1, <3>1 DEF Followed
      <3>3. CASE j # i
        <4>1. Untouched(j)
          BY <1>1, <2>1, <2>2, <3>2, <3>3 DEF Untouched
        <4>2. RowOK(j)
          BY RowsAre
        <4> QED
          BY <1>1, <1>3, <2>5, <3>3, <4>1, <4>2, RowsStay
      <3>4. CASE j = i
        <4>1. i \notin Waiting /\ \A u \in Open : uploads[u].item = i => At(u, "dropped")
          BY <1>5, <3>2, <3>4
        <4>2. \A k, l \in DOMAIN queue' : queue'[k] = i /\ queue'[l] = i => k = l
          BY <2>5, <4>1
        <4>3. i \in Waiting'
          BY <2>5
        <4> QED
          BY <1>1, <1>3, <2>2, <3>2, <3>4, <4>1, <4>2, <4>3
             DEF RowOK, WaitOK, WaitsOnce, RunOK, ActOK, At
      <3> QED
        BY <3>3, <3>4
    <2> QED
      BY <2>6, <2>7, <2>8, QueueInvFrom
  <1> QED
    BY <1>6, <1>7

LEMMA DropsAre ==
  ASSUME NEW d \in Drops
  PROVE  /\ d \in Seq(Item) /\ DOMAIN d \subseteq Nat
         /\ \A k, l \in DOMAIN d : d[k] = d[l] => k = l
  <1>1. CASE \E i \in Item : d = <<i>>
    BY <1>1
  <1>2. CASE d \in Item \X Item /\ d[1] # d[2]
    <2>1. PICK x \in Item, y \in Item : d = <<x, y>>
      BY <1>2
    <2>2. d \in Seq(Item) /\ DOMAIN d = 1 .. 2
      BY <2>1
    <2>3. \A k \in DOMAIN d : k = 1 \/ k = 2
      BY <2>2
    <2> QED
      BY <1>2, <2>2, <2>3
  <1> QED
    BY <1>1, <1>2 DEF Drops

LEMMA EnqueueKeepsQueue ==
  ASSUME QueueInv, SlotInv', NEW new \in Drops, Enqueue(new)
  PROVE  QueueInv'
  <1> DEFINE at(i)  == CHOOSE k \in DOMAIN new : new[k] = i
             chosen == {new[k] : k \in DOMAIN new}
             kept   == {k \in DOMAIN new : FirstStatus(new, k) = "queued"}
             s      == Picked(new, kept)
  <1>1. /\ QueueTypeOK /\ SentIsOpen /\ new \in Seq(Item) /\ kept \in SUBSET DOMAIN new
        /\ \A k, l \in DOMAIN new : new[k] = new[l] => k = l
    BY DropsAre DEF QueueInv
  <1>2. /\ chosen \cap added = {} /\ added' = added \cup chosen
        /\ shown' = [i \in Item |-> IF i \in chosen THEN FirstStatus(new, at(i)) ELSE seen[i]]
        /\ seen' = shown' /\ queue' = queue \o s
        /\ lost' = lost \cup {i \in Item : shown[i] # seen[i]}
        /\ UNCHANGED <<running, ctl, uploads, mounted, retries, row>>
    BY DEF Enqueue, NewlyQueued
  <1>3. /\ s \in Seq(Item)
        /\ \A k \in DOMAIN s : \E j \in kept : s[k] = new[j]
        /\ \A j \in kept : \E k \in DOMAIN s : s[k] = new[j]
        /\ \A k, l \in DOMAIN s : s[k] = s[l] => k = l
    <2> HIDE DEF kept
    <2>1. \A k, l \in kept : new[k] = new[l] => k = l
      BY <1>1
    <2>2. \A k, l \in DOMAIN s : s[k] = s[l] => k = l
      BY <1>1, <2>1, PickedOnce
    <2> QED
      BY <1>1, <2>2, PickedIsSeq
  <1> HIDE DEF s
  <1>4. /\ queue' \in Seq(Item)
        /\ \A j : j \in Waiting' <=> j \in Waiting \/ \E k \in DOMAIN s : s[k] = j
        /\ \A j : /\ \A k \in DOMAIN s : s[k] # j
                  /\ \A k, l \in DOMAIN queue : queue[k] = j /\ queue[l] = j => k = l
                  => \A k, l \in DOMAIN queue' : queue'[k] = j /\ queue'[l] = j => k = l
        /\ \A j : /\ j \notin Waiting
                  /\ \A k, l \in DOMAIN s : s[k] = j /\ s[l] = j => k = l
                  => \A k, l \in DOMAIN queue' : queue'[k] = j /\ queue'[l] = j => k = l
    BY <1>1, <1>2, <1>3, Joined
  <1>5. \A k \in DOMAIN new : FirstStatus(new, k) \in {"failed", "queued"}
    BY DEF FirstStatus
  <1>6. ASSUME NEW i \in chosen PROVE at(i) \in DOMAIN new /\ new[at(i)] = i
    OBVIOUS
  <1>7. chosen \subseteq Item /\ \A k \in DOMAIN new : new[k] \in chosen
    BY <1>1
  <1> HIDE DEF chosen, at
  <1>8. /\ \A i \in chosen : shown'[i] = FirstStatus(new, at(i)) /\ shown'[i] \in {"failed", "queued"}
        /\ \A i \in Item \ chosen : shown'[i] = seen[i]
        /\ shown' \in [Item -> UploadItemStatus \cup {"none"}]
    <2>1. seen \in [Item -> UploadItemStatus \cup {"none"}]
      BY <1>1 DEF QueueTypeOK
    <2> QED
      BY <1>2, <1>5, <1>6, <1>7, <2>1 DEF UploadItemStatus, Active, Terminal
  <1>9. \A i \in Item : (\E k \in DOMAIN s : s[k] = i) <=> i \in chosen /\ shown'[i] = "queued"
    <2>1. ASSUME NEW k \in DOMAIN s PROVE s[k] \in chosen /\ shown'[s[k]] = "queued"
      <3>1. PICK j \in kept : s[k] = new[j]
        BY <1>3
      <3>2. s[k] \in chosen /\ at(s[k]) = j
        BY <1>1, <1>6, <1>7, <3>1
      <3> QED
        BY <1>8, <3>1, <3>2
    <2>2. ASSUME NEW i \in chosen, shown'[i] = "queued" PROVE \E k \in DOMAIN s : s[k] = i
      <3>1. at(i) \in kept /\ new[at(i)] = i
        BY <1>6, <1>8, <2>2
      <3> QED
        BY <1>3, <3>1
    <2> QED
      BY <2>1, <2>2
  <1> HIDE DEF kept
  <1>10. Following /\ Open' = Open /\ Id' = Id
    BY <1>1, <1>2, UploadsRest DEF Open, Id
  <1>11. QueueTypeOK'
    <2>1. running' \in Nat /\ pumping' \in {"no", "click", "later"}
      BY DEF SlotInv, QueueShape
    <2> QED
      BY <1>1, <1>2, <1>4, <1>7, <1>8, <2>1 DEF QueueTypeOK
  <1>12. ItemsAreAdded' /\ ControlIsOwn' /\ SentIsOpen' /\ DoneInv'
    <2>1. ASSUME NEW j \in Waiting' PROVE j \in added'
      <3>1. Waiting' \subseteq Item
        BY <1>4 DEF Waiting
      <3>2. j \in Waiting \/ j \in chosen
        BY <1>4, <1>9, <3>1
      <3> QED
        BY <1>2, <3>2 DEF QueueInv, ItemsAreAdded
    <2>2. \A i \in Item : shown'[i] = "done" \/ seen'[i] = "done" => seen[i] = "done"
      BY <1>2, <1>8
    <2>3. \A i \in Item : shown'[i] # "none" \/ seen'[i] # "none" => seen[i] # "none" \/ i \in added'
      BY <1>2, <1>8
    <2> QED
      BY <1>2, <1>10, <2>1, <2>2, <2>3, BookKept
  <1>13. ASSUME NEW j \in Item PROVE RowOK(j)'
    <2>1. SUFFICES ASSUME Followed(j)' PROVE RowOK(j)'
      BY DEF RowOK, WaitOK, RunOK, ActOK
    <2>2. Followed(j) /\ shown[j] = seen[j] /\ shown'[j] = seen'[j]
      BY <1>2, <2>1 DEF Followed
    <2>3. CASE j \notin chosen
      <3>1. Untouched(j)
        BY <1>2, <1>8, <2>2, <2>3 DEF Untouched
      <3>2. RowOK(j) /\ \A k \in DOMAIN s : s[k] # j
        BY <1>9, <2>3, RowsAre
      <3>3. j \in Waiting' <=> j \in Waiting
        BY <1>4, <3>2
      <3> QED
        BY <1>1, <1>4, <1>10, <3>1, <3>2, <3>3, RowsStay
    <2>4. CASE j \in chosen
      <3>1. j \notin Waiting /\ \A u \in Id : uploads[u].item # j
        BY <1>2, <2>4 DEF QueueInv, ItemsAreAdded
      <3>2. /\ \A k, l \in DOMAIN queue' : queue'[k] = j /\ queue'[l] = j => k = l
            /\ j \in Waiting' <=> shown'[j] = "queued"
        BY <1>3, <1>4, <1>9, <2>4, <3>1
      <3>3. \A u \in Open' : uploads'[u].item # j
        BY <1>2, <1>10, <3>1 DEF Open
      <3>4. shown'[j] \in Active => shown'[j] = "queued"
        BY <1>8, <2>4 DEF Active
      <3> QED
        BY <2>2, <3>2, <3>3, <3>4 DEF RowOK, WaitOK, WaitsOnce, RunOK, ActOK
    <2> QED
      BY <2>3, <2>4
  <1> QED
    BY <1>11, <1>12, <1>13, QueueInvFrom

-----------------------------------------------------------------------------
LEMMA QueueInvInit == QueueInit => QueueInv
  <1> SUFFICES ASSUME QueueInit PROVE QueueInv
    OBVIOUS
  <1>1. Id = {} /\ Waiting = {} /\ Open = {}
    BY DEF QueueInit, Id, Waiting, Open
  <1>2. QueueTypeOK
    BY DEF QueueInit, QueueTypeOK, UploadItemStatus, Active, Terminal, RecordStatus
  <1>3. \A i \in Item : shown[i] = "none" /\ seen[i] = "none" /\ ctl[i] = 0
    BY DEF QueueInit
  <1>4. ItemsAreAdded /\ ControlIsOwn /\ SentIsOpen /\ DoneInv
    BY <1>1, <1>3 DEF ItemsAreAdded, ControlIsOwn, SentIsOpen, DoneInv
  <1>5. WaitingInv /\ RunningInv /\ ActiveInv
    BY <1>1, <1>3 DEF WaitingInv, RunningInv, ActiveInv, Active
  <1> QED
    BY <1>2, <1>4, <1>5 DEF QueueInv

LEMMA QueueInvNext == QueueInv /\ SlotInv' /\ QueueNext => QueueInv'
  BY PumpKeepsQueue, PumpEndsKeepsQueue, EnqueueKeepsQueue, OutOfQueueKeeps, RetryKeepsQueue,
     CancelAllKeeps, LeaveKeepsQueue, RequestKeeps, SettleKeepsQueue
     DEF QueueNext, QueueUser, Request

\* The counts, the rows and the requests of the queue stay in step for any number of files,
\* slots and retries: a row that says an item waits or is uploaded is right, the upload can
\* be cancelled from it, and a file is called done only when the server has it.
THEOREM QueueStaysConsistent == Spec => []QueueConsistent
  <1>1. Init => SlotInv /\ QueueInv
    BY SlotInit, QueueInvInit DEF Init
  <1>2. SlotInv /\ QueueInv /\ [Next]_libraryVars => (SlotInv /\ QueueInv)'
    <2> SUFFICES ASSUME SlotInv, QueueInv, [Next]_libraryVars PROVE (SlotInv /\ QueueInv)'
      OBVIOUS
    <2>1. CASE QueueNext
      BY <2>1, SlotNext, QueueInvNext
    <2>2. CASE UNCHANGED queueVars
      <3>1. SlotInv'
        BY <2>2 DEF queueVars, SlotInv, QueueShape, RunningIsOpen, NoIdleSlot, Idle, Open, Id
      <3>2. UNCHANGED <<shown, seen, added, queue, running, ctl, uploads, pumping, mounted,
                        retries, row, lost>>
        BY <2>2 DEF queueVars
      <3>3. QueueInv'
        BY <3>2 DEF QueueInv, QueueTypeOK, ItemsAreAdded, ControlIsOwn, SentIsOpen, WaitingInv,
                    RunningInv, ActiveInv, DoneInv, WaitsOnce, Runs, Followed, Waiting, Open, Id, At
      <3> QED
        BY <3>1, <3>3
    <2> QED
      BY <2>1, <2>2 DEF Next, libraryVars
  <1>3. SlotInv /\ QueueInv => QueueConsistent
    <2> SUFFICES ASSUME SlotInv, QueueInv PROVE QueueConsistent
      OBVIOUS
    <2>1. ActiveIsReal
      <3>1. \A i : i \in Waiting => \E k \in DOMAIN queue : queue[k] = i
        BY DEF Waiting
      <3> QED
        BY <3>1 DEF QueueInv, ActiveInv, ActiveIsReal, Followed
    <2>2. RunningIsCancellable
      BY DEF QueueInv, RunningInv, Runs, Followed, RunningIsCancellable
    <2>3. DoneIsStored
      BY DEF QueueInv, DoneInv, DoneIsStored
    <2> QED
      BY <2>1, <2>2, <2>3 DEF QueueInv, SlotInv, QueueConsistent
  <1> QED
    BY <1>1, <1>2, <1>3, PTL DEF Spec

-----------------------------------------------------------------------------
\* The list of files.

FileRecord == [st : FileStatus, folder : Folder \cup {Root}, gone : BOOLEAN,
               doc : BOOLEAN, tries : 0..MaxRetries]
WorkerState == {"idle", "queued", "parsing", "embedding"}

RowList  == [File -> {None, "processing", "ready", "failed"}]
FetchSet == [st : {"no", "asked", "answered"}, rows : RowList]

FolderOps == {"create_folder", "delete_folder"}
FileOps   == {"delete", "delete_selected", "move", "rename", "retry"}
Mutation  == [n : Nat, op : FolderOps \cup FileOps, files : SUBSET (File \cup Folder \cup {Root}),
              todo : SUBSET File, ok : BOOLEAN, folder : Folder \cup {Root, None}]

\* A mutation of a folder sends no request for a file, and the button of a row names one file.
MutationShape ==
    \A m \in mut : /\ m \in Mutation /\ m.todo \subseteq m.files
                   /\ m.op \in FolderOps => m.todo = {} /\ m.ok /\ m.folder # Root
                   /\ m.op = "delete" => (m.todo = {} \/ m.ok) /\ \E f \in File : m.files = {f}

FilesShape ==
    /\ FilesTypeOK /\ fetch \in FetchSet /\ MutationShape
    /\ \A f \in File : file[f].st = "deleted" => file[f].gone

\* A row of a deleted file that the list shows, or is about to show, has a deletion that
\* will read the list again, or that failed in part.
WillLeave(f) ==
    f \in missed \/ \E m \in mut : /\ m.op \in {"delete", "delete_selected"}
                                   /\ m.ok /\ f \in m.files \ m.todo

RowsLeave ==
    \A f \in File : file[f].gone =>
        /\ fetch = NoFetch /\ Listed(f) => WillLeave(f)
        /\ fetch.st = "answered" /\ fetch.rows[f] # None => WillLeave(f)

\* The deletion that will take the page out of a folder that is gone.
ViewLeaves ==
    view \in folders \cup {All} \/ \E m \in mut : /\ m.op = "delete_folder"
                                                  /\ m.folder = None /\ view \in m.files

FilesInv == FilesShape /\ StuckHasCause /\ FolderOfFileExists /\ ViewLeaves /\ RowsLeave

LEMMA FilesInvInit == FilesInit => FilesInv
  <1> SUFFICES ASSUME FilesInit PROVE FilesInv
    OBVIOUS
  <1>1. FilesShape
    BY FilesAssumption
       DEF FilesInit, FilesShape, FilesTypeOK, FetchSet, MutationShape, FileStatus, Processing,
           Failed, Views, Asked, NoRows, RowList
  <1>2. StuckHasCause /\ FolderOfFileExists /\ ViewLeaves /\ RowsLeave
    BY DEF FilesInit, StuckHasCause, FolderOfFileExists, ViewLeaves, RowsLeave, Processing,
           NoFetch, Asked, NoRows
  <1> QED
    BY <1>1, <1>2 DEF FilesInv

-----------------------------------------------------------------------------
\* The worker.

\* A worker writes the record of one file and leaves folders and deletion as they are.
LEMMA PutKeeps ==
  ASSUME FilesInv, NEW f \in File, NEW r \in FileRecord, NEW w \in WorkerState, Put(f, r, w),
         r.folder = file[f].folder, r.gone = file[f].gone, r.st = "deleted" => r.gone,
         r.st \in Processing /\ w = "idle" => r.st = "uploaded" \/ r.doc
  PROVE  FilesInv'
  <1>1. /\ file' = [file EXCEPT ![f] = r] /\ worker' = [worker EXCEPT ![f] = w]
        /\ UNCHANGED <<folders, view, rows, fetch, sel, mut, ops, missed>>
    BY DEF Put, listing
  <1>2. /\ file \in [File -> FileRecord] /\ worker \in [File -> WorkerState]
    BY DEF FilesInv, FilesShape, FilesTypeOK, FileRecord, WorkerState
  <1>3. file' \in [File -> FileRecord] /\ worker' \in [File -> WorkerState]
    BY <1>1, <1>2
  <1>4. \A g \in File : file'[g].folder = file[g].folder /\ file'[g].gone = file[g].gone
    BY <1>1, <1>2
  <1>5. FilesTypeOK'
    BY <1>1, <1>3 DEF FilesInv, FilesShape, FilesTypeOK, FileRecord, WorkerState
  <1>6. MutationShape'
    BY <1>1 DEF FilesInv, FilesShape, MutationShape
  <1>7. \A g \in File : file'[g].st = "deleted" => file'[g].gone
    BY <1>1, <1>2 DEF FilesInv, FilesShape
  <1>8. FilesShape'
    BY <1>1, <1>5, <1>6, <1>7 DEF FilesInv, FilesShape
  <1>9. StuckHasCause'
    BY <1>1, <1>2 DEF FilesInv, StuckHasCause
  <1>10. FolderOfFileExists'
    BY <1>1, <1>4 DEF FilesInv, FolderOfFileExists
  <1>11. ViewLeaves'
    BY <1>1 DEF FilesInv, ViewLeaves
  <1>12. RowsLeave'
    BY <1>1, <1>4 DEF FilesInv, RowsLeave, WillLeave, Listed
  <1> QED
    BY <1>8, <1>9, <1>10, <1>11, <1>12 DEF FilesInv

LEMMA WorkerKeeps == FilesInv /\ Worker => FilesInv'
  <1> SUFFICES ASSUME FilesInv, NEW f \in File,
                      StartParsing(f) \/ Parse(f) \/ FinishParsing(f)
                        \/ CrashWorker(f) \/ LoseTask(f)
               PROVE  FilesInv'
    BY DEF Worker
  <1>1. /\ file[f] \in FileRecord /\ (file[f].st = "deleted" => file[f].gone)
    BY DEF FilesInv, FilesShape, FilesTypeOK, FileRecord
  <1>2. ASSUME NEW st \in {"parsing", "ready", "failed"}
        PROVE  LET r == [file[f] EXCEPT !.st = st] IN
               r \in FileRecord /\ r.st = st /\ r.folder = file[f].folder /\ r.gone = file[f].gone
    BY <1>1 DEF FileRecord, FileStatus, Processing, Failed
  <1> USE DEF WorkerState, Processing
  <1>3. CASE StartParsing(f)
    BY <1>2, <1>3, PutKeeps DEF StartParsing
  <1>4. CASE Parse(f)
    <2>1. CASE Put(f, [file[f] EXCEPT !.st = "failed"], "idle")
      BY <1>2, <2>1, PutKeeps
    <2>2. CASE Put(f, [file[f] EXCEPT !.doc = TRUE], "embedding")
      <3>1. LET r == [file[f] EXCEPT !.doc = TRUE] IN
            /\ r \in FileRecord /\ r.st = file[f].st /\ r.folder = file[f].folder
            /\ r.gone = file[f].gone
        BY <1>1 DEF FileRecord
      <3> QED
        BY <1>1, <2>2, <3>1, PutKeeps
    <2>3. CASE file[f].doc /\ Put(f, file[f], "idle")
      BY <1>1, <2>3, PutKeeps
    <2> QED
      BY <1>4, <2>1, <2>2, <2>3 DEF Parse
  <1>5. CASE FinishParsing(f)
    <2>1. PICK st \in {"ready", "failed"} : Put(f, [file[f] EXCEPT !.st = st], "idle")
      BY <1>5 DEF FinishParsing
    <2> QED
      BY <1>2, <2>1, PutKeeps
  <1>6. CASE CrashWorker(f)
    BY <1>1, <1>6, PutKeeps DEF CrashWorker
  <1>7. CASE LoseTask(f)
    BY <1>1, <1>7, PutKeeps DEF LoseTask
  <1> QED
    BY <1>3, <1>4, <1>5, <1>6, <1>7

-----------------------------------------------------------------------------
\* The query and the user.

\* A step that only asks for the list again, or changes the view or the selection.
LEMMA AskingKeeps ==
  ASSUME FilesInv, UNCHANGED <<file, worker, folders, mut, ops, missed>>, rows' \in RowList,
         fetch' \in FetchSet, view' \in Views, sel' \subseteq File, ViewLeaves', RowsLeave'
  PROVE  FilesInv'
  <1>1. FilesShape'
    BY DEF FilesInv, FilesShape, FilesTypeOK, MutationShape, RowList
  <1>2. StuckHasCause' /\ FolderOfFileExists'
    BY DEF FilesInv, StuckHasCause, FolderOfFileExists
  <1> QED
    BY <1>1, <1>2 DEF FilesInv

LEMMA AskedIsFetch == Asked \in FetchSet /\ NoFetch \in FetchSet /\ Asked # NoFetch /\ Asked.st = "asked"
  BY DEF Asked, NoFetch, FetchSet, RowList, NoRows

LEMMA QueryKeeps == FilesInv /\ (ReadList \/ ShowList \/ Poll) => FilesInv'
  <1> SUFFICES ASSUME FilesInv, ReadList \/ ShowList \/ Poll PROVE FilesInv'
    OBVIOUS
  <1>1. /\ rows \in RowList /\ fetch \in FetchSet /\ view \in Views /\ sel \subseteq File
        /\ file \in [File -> FileRecord] /\ ViewLeaves /\ RowsLeave
        /\ \A f \in File : file[f].st = "deleted" => file[f].gone
    BY DEF FilesInv, FilesShape, FilesTypeOK, RowList, FileRecord
  <1>2. UNCHANGED <<file, worker, folders, view, sel, mut, ops, missed>>
    BY DEF ReadList, ShowList, Poll, server
  <1>3. ViewLeaves'
    BY <1>1, <1>2 DEF ViewLeaves
  <1>4. CASE ReadList
    <2> DEFINE R == [f \in File |-> IF Matches(f, view) THEN Badge(f) ELSE None]
    <2>1. R \in RowList
      BY <1>1 DEF RowList, Matches, Badge, FileRecord, FileStatus, Processing, Failed
    <2>2. fetch' = [st |-> "answered", rows |-> R] /\ rows' = rows
      BY <1>4 DEF ReadList
    <2>3. \A f \in File : file[f].gone => R[f] = None
      BY DEF Matches
    <2> HIDE DEF R
    <2>4. fetch' \in FetchSet /\ fetch'.st = "answered" /\ fetch'.rows = R
      BY <2>1, <2>2 DEF FetchSet
    <2>5. RowsLeave'
      BY <1>2, <2>3, <2>4 DEF RowsLeave, NoFetch
    <2> QED
      BY <1>1, <1>2, <1>3, <2>2, <2>4, <2>5, AskingKeeps
  <1>5. CASE ShowList
    <2>1. fetch.st = "answered" /\ rows' = fetch.rows /\ fetch' = NoFetch /\ fetch.rows \in RowList
      BY <1>1, <1>5 DEF ShowList, FetchSet
    <2>2. RowsLeave'
      BY <1>1, <1>2, <2>1 DEF RowsLeave, WillLeave, Listed, NoFetch
    <2> QED
      BY <1>1, <1>2, <1>3, <2>1, <2>2, AskedIsFetch, AskingKeeps
  <1>6. CASE Poll
    <2>1. fetch' = Asked /\ rows' = rows
      BY <1>6 DEF Poll
    <2>2. RowsLeave'
      BY <2>1, AskedIsFetch DEF RowsLeave
    <2> QED
      BY <1>1, <1>2, <1>3, <2>1, <2>2, AskedIsFetch, AskingKeeps
  <1> QED
    BY <1>4, <1>5, <1>6

\* A new mutation adds to what the rows and the view wait for.
LEMMA StartKeeps ==
  ASSUME FilesInv, NEW op \in FolderOps \cup FileOps, NEW S \in SUBSET File,
         NEW d \in Folder \cup {Root, None}, op \in FolderOps => S = {} /\ d # Root,
         op = "delete" => \E f \in File : S = {f}, Start(op, S, d),
         UNCHANGED <<server, listing, sel, missed>>
  PROVE  FilesInv'
  <1> DEFINE m0 == [n |-> IF Pending(op) THEN ops ELSE 0, op |-> op,
                 files |-> S, todo |-> S, ok |-> TRUE, folder |-> d]
  <1>1. ops \in 0..MaxOps /\ ops' = ops + 1 /\ ops < MaxOps /\ MaxOps \in Nat /\ mut' = mut \cup {m0}
    BY FilesAssumption DEF Start, FilesInv, FilesShape, FilesTypeOK
  <1>2. /\ m0 \in Mutation /\ m0.files = S /\ m0.todo = S /\ m0.ok /\ m0.op = op
        /\ m0.folder = d
    BY <1>1 DEF Mutation
  <1> HIDE DEF m0
  <1>3. UNCHANGED <<file, worker, folders, view, rows, fetch, sel, missed>>
    BY DEF server, listing
  <1>4. MutationShape'
    BY <1>1, <1>2 DEF MutationShape, FilesInv, FilesShape
  <1>5. ops' \in 0..MaxOps
    BY <1>1
  <1>6. FilesTypeOK'
    BY <1>1, <1>2, <1>3, <1>5 DEF FilesInv, FilesShape, FilesTypeOK
  <1>7. FilesShape'
    BY <1>3, <1>4, <1>6 DEF FilesInv, FilesShape
  <1>8. StuckHasCause' /\ FolderOfFileExists'
    BY <1>3 DEF FilesInv, StuckHasCause, FolderOfFileExists
  <1>9. ViewLeaves'
    BY <1>1, <1>3 DEF FilesInv, ViewLeaves
  <1>10. RowsLeave'
    BY <1>1, <1>3 DEF FilesInv, RowsLeave, WillLeave, Listed
  <1> QED
    BY <1>7, <1>8, <1>9, <1>10 DEF FilesInv

LEMMA UserKeeps == FilesInv /\ FilesUser => FilesInv'
  <1> SUFFICES ASSUME FilesInv, FilesUser PROVE FilesInv'
    OBVIOUS
  <1>1. /\ rows \in RowList /\ fetch \in FetchSet /\ view \in Views /\ sel \subseteq File
        /\ folders \subseteq Folder /\ ViewLeaves /\ RowsLeave
    BY DEF FilesInv, FilesShape, FilesTypeOK, RowList
  <1>2. Visible \subseteq File
    BY DEF Visible
  <1>3. CASE (\E v \in Views : ChooseView(v)) \/ ResetFilters
    <2>1. /\ UNCHANGED <<file, worker, folders, rows, mut, ops, missed>> /\ fetch' = Asked
          /\ view' \in folders \cup {All} /\ sel' \subseteq File
      BY <1>1, <1>3 DEF ChooseView, ResetFilters, server
    <2>2. ViewLeaves' /\ view' \in Views
      BY <1>1, <2>1 DEF ViewLeaves, Views
    <2>3. RowsLeave'
      BY <2>1, AskedIsFetch DEF RowsLeave
    <2> QED
      BY <1>1, <2>1, <2>2, <2>3, AskedIsFetch, AskingKeeps
  <1>4. CASE SelectAllToggle \/ \E f \in File : ToggleFileSelection(f)
    <2>1. UNCHANGED <<file, worker, folders, view, rows, fetch, mut, ops, missed>> /\ sel' \subseteq File
      BY <1>1, <1>2, <1>4 DEF SelectAllToggle, ToggleFileSelection, server, listing
    <2>2. ViewLeaves' /\ RowsLeave'
      BY <1>1, <2>1 DEF ViewLeaves, RowsLeave, WillLeave, Listed
    <2> QED
      BY <1>1, <2>1, <2>2, AskingKeeps
  <1>5. CASE StartMutation
    <2> USE DEF FolderOps, FileOps
    <2>1. UNCHANGED <<server, listing, sel, missed>>
      BY <1>5 DEF StartMutation
    <2>2. CASE \E f \in Visible : \/ Start("delete", {f}, None) \/ Start("rename", {f}, None)
                                  \/ Start("retry", {f}, None)
      <3>1. PICK f \in File : \E op \in {"delete", "rename", "retry"} : Start(op, {f}, None)
        BY <1>2, <2>2
      <3> QED
        BY <2>1, <3>1, StartKeeps
    <2>3. CASE \E d \in Folder : Start("delete_folder", {}, d) \/ Start("create_folder", {}, d)
      BY <2>1, <2>3, StartKeeps, FilesAssumption
    <2>4. CASE \/ \E d \in Folder \cup {Root} : Start("move", sel, d)
               \/ Start("delete_selected", sel, None)
      BY <1>1, <2>1, <2>4, StartKeeps
    <2> QED
      BY <1>1, <1>5, <2>2, <2>3, <2>4 DEF StartMutation
  <1> QED
    BY <1>3, <1>4, <1>5 DEF FilesUser

-----------------------------------------------------------------------------
\* The handlers.

LEMMA ServeKeeps ==
  ASSUME FilesInv, NEW m \in mut, NEW f \in File, Serve(m, f)
  PROVE  FilesInv'
  <1> DEFINE r == CASE m.op \in {"delete", "delete_selected"} ->
                             [file[f] EXCEPT !.st = "deleted", !.gone = TRUE]
                    [] m.op = "move"   -> [file[f] EXCEPT !.folder = m.folder]
                    [] m.op = "rename" -> file[f]
                    [] m.op = "retry"  -> [file[f] EXCEPT !.st = "uploaded", !.tries = @ + 1]
             m2 == [m EXCEPT !.todo = @ \ {f}, !.ok = @ /\ TRUE]
             Deletes == m.op \in {"delete", "delete_selected"}
  <1>1. /\ m \in Mutation /\ m.todo \subseteq m.files /\ f \in m.todo /\ m.op \in FileOps
        /\ m.op = "delete" => m.ok /\ \E g \in File : m.files = {g}
    BY DEF FilesInv, FilesShape, MutationShape, Serve, Mutation
  <1>2. /\ file[f] \in FileRecord /\ file \in [File -> FileRecord]
        /\ worker \in [File -> WorkerState] /\ folders \subseteq Folder
        /\ file[f].st = "deleted" => file[f].gone
    BY DEF FilesInv, FilesShape, FilesTypeOK, FileRecord, WorkerState
  <1>3. /\ ~file[f].gone /\ m.op = "move" => m.folder \in folders \cup {Root}
        /\ ~file[f].gone
        /\ m.op = "retry" => file[f].tries < MaxRetries
    BY <1>2, FilesAssumption DEF Serve, Refuses, Owned, FileRecord
  <1>4. /\ r \in FileRecord /\ r.folder \in folders \cup {Root}
        /\ r.gone => Deletes
        /\ r.st = "deleted" => r.gone
        /\ Deletes => r.st = "deleted"
        /\ m.op = "retry" => r.st = "uploaded"
        /\ ~Deletes /\ m.op # "retry" => r.st = file[f].st /\ r.doc = file[f].doc
    <2> USE DEF FileRecord, FileStatus, Processing, Failed
    <2>1. file[f].folder \in folders \cup {Root}
      BY DEF FilesInv, FolderOfFileExists
    <2>2. CASE Deletes
      BY <1>1, <1>2, <2>1, <2>2
    <2>3. CASE m.op = "move"
      BY <1>1, <1>2, <1>3, <2>1, <2>3
    <2>4. CASE m.op = "rename"
      BY <1>1, <1>2, <1>3, <2>1, <2>4
    <2>5. CASE m.op = "retry"
      <3>1. file[f].tries + 1 \in 0..MaxRetries
        BY <1>2, <1>3, <2>5, FilesAssumption
      <3> QED
        BY <1>1, <1>2, <1>3, <2>1, <2>5, <3>1
    <2> QED
      BY <1>1, <2>2, <2>3, <2>4, <2>5 DEF FileOps
  <1>5. /\ m2 \in Mutation /\ m2.files = m.files /\ m2.todo = m.todo \ {f} /\ m2.ok = m.ok
        /\ m2.op = m.op
    BY <1>1 DEF Mutation
  <1>6. /\ file' = [file EXCEPT ![f] = r] /\ mut' = (mut \ {m}) \cup {m2}
        /\ worker' = IF m.op = "retry" THEN [worker EXCEPT ![f] = "queued"] ELSE worker
        /\ missed' = IF m.op = "delete_selected" /\ ~m.ok THEN missed \cup {f} ELSE missed
        /\ UNCHANGED <<folders, view, rows, fetch, sel, ops>>
    BY DEF Serve, Handled, listing
  <1> HIDE DEF r, m2
  <1>7. file' \in [File -> FileRecord] /\ worker' \in [File -> WorkerState]
    BY <1>2, <1>4, <1>6 DEF WorkerState
  <1>8. MutationShape'
    BY <1>1, <1>5, <1>6 DEF FilesInv, FilesShape, MutationShape, FolderOps, FileOps
  <1>9. FilesTypeOK'
    BY <1>6, <1>7, <1>8 DEF FilesInv, FilesShape, FilesTypeOK, FileRecord, WorkerState, MutationShape
  <1>10. \A g \in File : file'[g].st = "deleted" => file'[g].gone
    BY <1>2, <1>4, <1>6 DEF FilesInv, FilesShape
  <1>11. FilesShape'
    BY <1>6, <1>8, <1>9, <1>10 DEF FilesInv, FilesShape
  <1>12. StuckHasCause'
    <2> SUFFICES ASSUME NEW g \in File, file'[g].st \in Processing, worker'[g] = "idle"
                 PROVE  file'[g].st = "uploaded" \/ file'[g].doc
      BY DEF StuckHasCause
    <2>1. CASE g # f
      BY <1>2, <1>6, <2>1 DEF FilesInv, StuckHasCause
    <2>2. CASE g = f /\ m.op = "retry"
      BY <1>2, <1>4, <1>6, <2>2
    <2>3. CASE g = f /\ m.op # "retry"
      BY <1>2, <1>4, <1>6, <2>3 DEF FilesInv, StuckHasCause, Processing
    <2> QED
      BY <2>1, <2>2, <2>3
  <1>13. FolderOfFileExists'
    BY <1>2, <1>4, <1>6 DEF FilesInv, FolderOfFileExists
  <1>14. ViewLeaves'
    BY <1>1, <1>6 DEF FilesInv, ViewLeaves, FileOps
  <1>15. \A g \in File : WillLeave(g) => WillLeave(g)'
    BY <1>1, <1>5, <1>6 DEF WillLeave
  <1>16. file'[f].gone => WillLeave(f)'
    BY <1>1, <1>2, <1>4, <1>5, <1>6 DEF WillLeave
  <1>17. \A g \in File : file'[g].gone => g = f \/ file[g].gone
    BY <1>2, <1>6
  <1>18. RowsLeave'
    BY <1>6, <1>15, <1>16, <1>17 DEF FilesInv, RowsLeave, Listed
  <1> QED
    BY <1>11, <1>12, <1>13, <1>14, <1>18 DEF FilesInv

\* A deletion that a refusal turns into a failure has told which files are gone.
LEMMA RefuseKeeps ==
  ASSUME FilesInv, NEW m \in mut, NEW f \in File, Refuse(m, f)
  PROVE  FilesInv'
  <1> DEFINE m2 == [m EXCEPT !.todo = @ \ {f}, !.ok = @ /\ FALSE]
  <1>1. /\ m \in Mutation /\ m.todo \subseteq m.files /\ f \in m.todo /\ m.op \in FileOps
        /\ m.op = "delete" => \E g \in File : m.files = {g}
    BY DEF FilesInv, FilesShape, MutationShape, Refuse, Mutation
  <1>2. /\ m2 \in Mutation /\ m2.files = m.files /\ m2.todo = m.todo \ {f} /\ m2.ok = FALSE
        /\ m2.op = m.op
    BY <1>1 DEF Mutation
  <1>3. /\ mut' = (mut \ {m}) \cup {m2}
        /\ missed' = IF m.op = "delete_selected" THEN missed \cup {g \in m.files : file[g].gone}
                                                 ELSE missed
        /\ UNCHANGED <<file, worker, folders, view, rows, fetch, sel, ops>>
    BY DEF Refuse, Handled, listing, server
  <1> HIDE DEF m2
  <1>4. MutationShape'
    <2>1. m.op = "delete" => m2.todo = {}
      BY <1>1, <1>2
    <2> QED
      BY <1>1, <1>2, <1>3, <2>1 DEF FilesInv, FilesShape, MutationShape, FolderOps, FileOps
  <1>5. FilesTypeOK'
    BY <1>3, <1>4 DEF FilesInv, FilesShape, FilesTypeOK, MutationShape
  <1>6. FilesShape'
    BY <1>3, <1>4, <1>5 DEF FilesInv, FilesShape
  <1>7. StuckHasCause' /\ FolderOfFileExists'
    BY <1>3 DEF FilesInv, StuckHasCause, FolderOfFileExists
  <1>8. ViewLeaves'
    BY <1>1, <1>3 DEF FilesInv, ViewLeaves, FileOps
  <1>9. ASSUME NEW g \in File, file[g].gone, WillLeave(g) PROVE WillLeave(g)'
    BY <1>1, <1>2, <1>3, <1>9 DEF WillLeave
  <1>10. RowsLeave'
    BY <1>3, <1>9 DEF FilesInv, RowsLeave, Listed
  <1> QED
    BY <1>6, <1>7, <1>8, <1>10 DEF FilesInv

LEMMA ServeFolderKeeps ==
  ASSUME FilesInv, NEW m \in mut, ServeFolder(m)
  PROVE  FilesInv'
  <1> DEFINE m2 == [m EXCEPT !.folder = None, !.files = {m.folder}]
  <1>1. /\ m \in Mutation /\ m.op \in FolderOps /\ m.todo = {} /\ m.ok /\ m.folder # None
        /\ m.folder \in Folder
    BY DEF FilesInv, FilesShape, MutationShape, ServeFolder, Mutation, FolderOps
  <1>2. /\ m2 \in Mutation /\ m2.files = {m.folder} /\ m2.todo = {} /\ m2.ok /\ m2.op = m.op
        /\ m2.folder = None /\ m2.folder # Root
    BY <1>1 DEF Mutation, None, Root
  <1>3. /\ mut' = (mut \ {m}) \cup {m2}
        /\ UNCHANGED <<worker, view, rows, fetch, sel, ops, missed>>
    BY DEF ServeFolder, listing
  <1> HIDE DEF m2
  <1>4. file \in [File -> FileRecord] /\ folders \subseteq Folder
    BY DEF FilesInv, FilesShape, FilesTypeOK, FileRecord
  <1>5. /\ file' \in [File -> FileRecord]
        /\ \A g \in File : /\ file'[g].st = file[g].st /\ file'[g].gone = file[g].gone
                           /\ file'[g].doc = file[g].doc
    <2>1. CASE m.op = "create_folder"
      BY <1>4, <2>1 DEF ServeFolder
    <2>2. CASE m.op = "delete_folder"
      <3>1. file' = [g \in File |-> IF file[g].folder = m.folder
                                   THEN [file[g] EXCEPT !.folder = Root] ELSE file[g]]
        BY <2>2 DEF ServeFolder
      <3>2. ASSUME NEW g \in File
            PROVE  LET x == [file[g] EXCEPT !.folder = Root] IN
                   /\ x \in FileRecord /\ x.st = file[g].st /\ x.gone = file[g].gone
                   /\ x.doc = file[g].doc
        BY <1>4 DEF FileRecord
      <3> QED
        BY <1>4, <3>1, <3>2
    <2> QED
      BY <1>1, <2>1, <2>2 DEF FolderOps
  <1>6. folders' \subseteq Folder
    BY <1>1, <1>4 DEF ServeFolder
  <1>7. MutationShape'
    BY <1>1, <1>2, <1>3 DEF FilesInv, FilesShape, MutationShape, FolderOps
  <1>8. FilesTypeOK'
    BY <1>3, <1>5, <1>6, <1>7 DEF FilesInv, FilesShape, FilesTypeOK, FileRecord, MutationShape
  <1>9. FilesShape'
    BY <1>3, <1>5, <1>7, <1>8 DEF FilesInv, FilesShape
  <1>10. StuckHasCause'
    BY <1>3, <1>5 DEF FilesInv, StuckHasCause
  <1>11. FolderOfFileExists'
    <2>1. CASE m.op = "create_folder"
      BY <2>1 DEF ServeFolder, FilesInv, FolderOfFileExists
    <2>2. CASE m.op = "delete_folder"
      <3>1. /\ file' = [g \in File |-> IF file[g].folder = m.folder
                                   THEN [file[g] EXCEPT !.folder = Root] ELSE file[g]]
            /\ folders' = folders \ {m.folder}
        BY <2>2 DEF ServeFolder
      <3>2. ASSUME NEW g \in File PROVE [file[g] EXCEPT !.folder = Root].folder = Root
        BY <1>4 DEF FileRecord
      <3> QED
        BY <3>1, <3>2 DEF FilesInv, FolderOfFileExists
    <2> QED
      BY <1>1, <2>1, <2>2 DEF FolderOps
  <1>12. ViewLeaves'
    <2>1. CASE view \notin folders \cup {All}
      BY <1>1, <1>3, <2>1 DEF FilesInv, ViewLeaves
    <2>2. CASE view \in folders \cup {All} /\ view # m.folder
      BY <1>3, <2>2 DEF ServeFolder, ViewLeaves
    <2>3. CASE view \in folders /\ view = m.folder
      BY <1>1, <1>2, <1>3, <2>3 DEF ServeFolder, ViewLeaves, FolderOps
    <2>4. CASE view = All
      BY <1>3, <2>4 DEF ViewLeaves
    <2> QED
      BY <2>1, <2>2, <2>3, <2>4
  <1>13. RowsLeave'
    BY <1>1, <1>3, <1>5 DEF FilesInv, RowsLeave, WillLeave, Listed, FolderOps
  <1> QED
    BY <1>9, <1>10, <1>11, <1>12, <1>13 DEF FilesInv

\* A mutation settles: it reads the list again, or no row and no view waits for it.
LEMMA SettleKeeps ==
  ASSUME FilesInv, NEW m \in mut, Settle(m)
  PROVE  FilesInv'
  <1>1. /\ UNCHANGED <<file, worker, folders, rows, ops, missed>> /\ mut' = mut \ {m}
        /\ sel' \subseteq File /\ (fetch' = fetch \/ fetch' = Asked)
        /\ view' \in Views
    BY DEF FilesInv, FilesShape, FilesTypeOK, Settle, Deleted, BatchDone, RowChanged, FolderCreated,
           FolderDeleted, MutationFailed, Invalidate, server, listing, Views
  <1>2. m \in Mutation /\ (m.op \in FolderOps => m.ok)
    BY DEF FilesInv, FilesShape, MutationShape
  <1>3. FilesShape'
    BY <1>1, AskedIsFetch DEF FilesInv, FilesShape, FilesTypeOK, MutationShape
  <1>4. StuckHasCause' /\ FolderOfFileExists'
    BY <1>1 DEF FilesInv, StuckHasCause, FolderOfFileExists
  <1>5. ViewLeaves'
    <2>1. CASE FolderDeleted(m)
      BY <1>1, <2>1 DEF FilesInv, ViewLeaves, FolderDeleted
    <2>2. CASE ~FolderDeleted(m)
      <3>1. m.op # "delete_folder" /\ view' = view
        BY <1>2, <2>2 DEF Settle, Deleted, BatchDone, RowChanged, FolderCreated, MutationFailed,
                          listing, FolderOps
      <3> QED
        BY <1>1, <3>1 DEF FilesInv, ViewLeaves
    <2> QED
      BY <2>1, <2>2
  <1>6. RowsLeave'
    <2>1. CASE fetch' = Asked
      BY <2>1, AskedIsFetch DEF RowsLeave
    <2>2. CASE fetch' # Asked
      <3>1. fetch' = fetch /\ (FolderCreated(m) \/ MutationFailed(m))
        BY <1>1, <2>2 DEF Settle, Deleted, BatchDone, RowChanged, FolderDeleted, Invalidate
      <3>2. m.op \notin {"delete", "delete_selected"} \/ ~m.ok
        BY <3>1 DEF FolderCreated, MutationFailed
      <3> QED
        BY <1>1, <3>1, <3>2 DEF FilesInv, RowsLeave, WillLeave, Listed
    <2> QED
      BY <2>1, <2>2
  <1> QED
    BY <1>3, <1>4, <1>5, <1>6 DEF FilesInv

LEMMA FilesInvNext == FilesInv /\ [FilesNext]_filesVars => FilesInv'
  <1>1. ASSUME FilesInv, UNCHANGED filesVars PROVE FilesInv'
    BY <1>1 DEF filesVars, FilesInv, FilesShape, FilesTypeOK, MutationShape, StuckHasCause,
             FolderOfFileExists, ViewLeaves, RowsLeave, WillLeave, Listed
  <1> QED
    BY <1>1, WorkerKeeps, QueryKeeps, UserKeeps, ServeKeeps, RefuseKeeps, ServeFolderKeeps,
       SettleKeeps DEF FilesNext

LEMMA FilesInvAlways == Spec => []FilesInv
  <1>1. Init => FilesInv
    BY FilesInvInit DEF Init
  <1>2. FilesInv /\ [Next]_libraryVars => FilesInv'
    BY FilesInvNext DEF Next, libraryVars, filesVars
  <1> QED
    BY <1>1, <1>2, PTL DEF Spec

\* A file that is shown as processing with no worker on it lost its task, or a former run
\* has stored its document: no order of crashes, retries and deletions makes another case.
THEOREM StuckFilesHaveACause == Spec => []StuckHasCause
  <1>1. FilesInv => StuckHasCause
    BY DEF FilesInv
  <1> QED
    BY <1>1, FilesInvAlways, PTL

\* Every deletion that is reported as done reaches the list, whatever answers were on their
\* way, and neither the view nor a file stays in a folder that is gone.
THEOREM ListFollowsServer == Spec => []FilesConsistent
  <1>1. FilesInv => FilesConsistent
    BY DEF FilesInv, FilesShape, FilesConsistent, ViewLeaves, ViewFolderExists, RowsLeave,
           WillLeave, DeletedLeavesList
  <1> QED
    BY <1>1, FilesInvAlways, PTL
==============================================================================

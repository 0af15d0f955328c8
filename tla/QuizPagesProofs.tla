--------------------------- MODULE QuizPagesProofs ---------------------------
(***************************************************************************)
(* Theorems about the page on which a quiz is taken, for quizzes of any    *)
(* length and any number of answers, visits, streams and broken            *)
(* connections: what the page shows was recorded, is on its way or is      *)
(* known to be apart, an exam's answers are in the storage of the session, *)
(* and the statements of QuizPagesConsistent.                              *)
(***************************************************************************)
EXTENDS QuizPages, FiniteSetTheorems, TLAPS

-----------------------------------------------------------------------------
\* Types of the part that takes a quiz

Slides == {NoSlide} \cup [to : Item, answer : Answer, judged : BOOLEAN, saved : BOOLEAN]

Page == [at : Item, isSubmitted : BOOLEAN, shown : Item \cup {0}, submitted : Sheet,
         judged : SUBSET Item, furthest : Item, grading : Item \cup {0},
         aiOff : BOOLEAN, slide : Slides]

Request == [item : Item, answer : {Skipped, Given}, at : {"sent", "grading"},
            starts : BOOLEAN, mine : BOOLEAN]

Session == Taking \cup {"graded"}

Cache == [session : Session \cup {Nil}, has : BOOLEAN, logs : Sheet]

Fetch == [session : {"no", "asked", "failed"}, logs : {"no", "asked", "read"}, read : Sheet]

TakeShape ==
    /\ mode \in Modes
    /\ status \in Session
    /\ sheet \in Sheet
    /\ place \in {"away", "take", "results"}
    /\ cache \in Cache
    /\ fetch \in Fetch
    /\ pg \in Page
    /\ finish \in [st : {"no", "batch", "complete", "refreshing"}, paper : Sheet, mine : BOOLEAN]
    /\ requests \in SUBSET Request
    /\ answers \in Nat /\ others \in Nat
    /\ store \in [Item -> {Nil, Given}]
    /\ apart \in SUBSET Item

LEMMA ShapeIsType == TakeShape => TakeTypeOK
  BY DEF TakeShape, TakeTypeOK, Cache, Page, Request, Session, Sheet, Answer

LEMMA ItemFacts ==
  /\ 1 \in Item /\ N \in Item
  /\ \A i \in Item : i \in Nat /\ i >= 1 /\ i <= N
  /\ \A i \in Item : i < N => i + 1 \in Item
  /\ \A i \in Item : i > 1 => i - 1 \in Item
  /\ 0 \notin Item
  BY TakeAssumption DEF Item

LEMMA BlankType == /\ Blank \in Sheet /\ FreshTake \in Page /\ NoCache \in Cache /\ NoFetch \in Fetch
                   /\ FreshTake.submitted = Blank /\ NoSlide \in Slides
  BY ItemFacts DEF Blank, Sheet, Answer, FreshTake, Page, Slides, NoSlide, NoCache, Cache,
     NoFetch, Fetch, Session

LEMMA ItemsFinite == IsFiniteSet(Item)
  <1>1. 1 \in Int /\ N \in Int
    BY TakeAssumption
  <1>2. IsFiniteSet(1..N)
    BY <1>1, FS_Interval
  <1> QED
    BY <1>2 DEF Item

\* What the effects and the handlers make of the page's state has its type.
LEMMA RestoreType ==
  ASSUME NEW p \in Page, NEW logs \in Sheet, store \in Sheet, others \in Nat
  PROVE  /\ RestoreCompleted(p, logs) \in Page
         /\ RestoreStarted(p, logs) \in Page
         /\ RestoreExam(p) \in Page
  <1>1. Answered(logs) \in SUBSET Item /\ IsFiniteSet(Item)
    BY ItemsFinite DEF Answered
  <1>2. \A S \in SUBSET Item : Cardinality(S) \in Nat
    BY <1>1, FS_Subset, FS_CardinalityType
  <1>3. \A k \in Nat : ResumeAt(k) \in Item
    BY ItemFacts, TakeAssumption DEF ResumeAt, Lower, Item
  <1>4. FromLogs(p, logs) \in Page
    BY <1>1 DEF FromLogs, Page
  <1>5. RestoreCompleted(p, logs) \in Page
    BY <1>4, ItemFacts DEF RestoreCompleted, Page
  <1>6. RestoreStarted(p, logs) \in Page
    <2> DEFINE next == ResumeAt(Cardinality(Answered(logs)))
    <2>1. next \in Item
      BY <1>1, <1>2, <1>3
    <2> HIDE DEF next
    <2> QED
      BY <1>4, <2>1 DEF RestoreStarted, Page, next
  <1>7. RestoreExam(p) \in Page
    <2> DEFINE count == Cardinality(Answered(store)) + others
               next == ResumeAt(count)
    <2>1. count \in Nat
      BY <1>2 DEF Answered
    <2>2. next \in Item
      BY <2>1, <1>3
    <2> HIDE DEF count, next
    <2> QED
      BY <2>2 DEF RestoreExam, Page, next, count
  <1> QED
    BY <1>5, <1>6, <1>7

LEMMA EffectsType ==
  ASSUME NEW p \in Page, NEW c \in Cache, NEW d \in Cache, store \in Sheet, others \in Nat
  PROVE  Effects(p, c, d) \in Page
  <1> DEFINE logs == IF d.has /\ (~c.has \/ d.logs # c.logs \/ (d.session = "graded") # (c.session = "graded"))
                     THEN IF d.session = "graded" THEN RestoreCompleted(p, d.logs) ELSE RestoreStarted(p, d.logs)
                     ELSE p
  <1>1. d.logs \in Sheet
    BY DEF Cache
  <1>2. logs \in Page
    BY <1>1, RestoreType
  <1>3. RestoreExam(logs) \in Page
    BY <1>1, <1>2, RestoreType
  <1> QED
    BY <1>2, <1>3 DEF Effects

LEMMA HandlerType ==
  ASSUME NEW p \in Page
  PROVE  /\ Advanced(p) \in Page
         /\ \A a \in Answer : Keep(p, a) \in Page
         /\ \A i \in Item : SlideTo(p, i) \in Page
         /\ SaveAndSlide(p) \in Page
         /\ \A i \in Item : Judged(p, i) \in Page /\ Ungrade(p, i) \in Page
  <1>1. \A q \in Page : Advanced(q) \in Page
    BY ItemFacts DEF Advanced, Page, Lower, Higher, Item
  <1>2. ASSUME NEW a \in Answer PROVE Keep(p, a) \in Page
    <2>1. [p.submitted EXCEPT ![p.at] = a] \in Sheet /\ p.at \in Item
      BY DEF Page, Sheet
    <2>2. [p EXCEPT !.submitted = [@ EXCEPT ![p.at] = a], !.judged = @ \cup {p.at},
                    !.isSubmitted = TRUE, !.shown = p.at] \in Page
      BY <2>1 DEF Page
    <2> QED
      BY <1>1, <2>2 DEF Keep
  <1>3. ASSUME NEW q \in Page, NEW i \in Item PROVE SlideTo(q, i) \in Page
    <2>1. q.submitted[i] \in Answer /\ (i \in q.judged) \in BOOLEAN
      BY DEF Page, Sheet
    <2>2. [to |-> i, answer |-> q.submitted[i], judged |-> i \in q.judged, saved |-> FALSE] \in Slides
      BY <2>1 DEF Slides
    <2> QED
      BY <2>2 DEF SlideTo, Page
  <1>4. SaveAndSlide(p) \in Page
    <2> DEFINE q == Advanced([p EXCEPT !.submitted[p.at] = Given])
    <2>1. [p EXCEPT !.submitted[p.at] = Given] \in Page
      BY DEF Page, Sheet, Answer
    <2>2. q \in Page
      BY <2>1, <1>1
    <2> HIDE DEF q
    <2>3. p.at < N => p.at + 1 \in Item
      BY ItemFacts DEF Page
    <2>4. ASSUME p.at < N PROVE [SlideTo(q, p.at + 1) EXCEPT !.slide.saved = TRUE] \in Page
      <3> DEFINE i == p.at + 1
                 u == [to |-> i, answer |-> q.submitted[i], judged |-> i \in q.judged, saved |-> FALSE]
      <3>1. i \in Item
        BY <2>3, <2>4
      <3>2. q.submitted[i] \in Answer /\ (i \in q.judged) \in BOOLEAN
        BY <2>2, <3>1 DEF Page, Sheet
      <3>3. u \in [to : Item, answer : Answer, judged : BOOLEAN, saved : BOOLEAN]
        BY <3>1, <3>2
      <3> HIDE DEF u, i
      <3>4. [u EXCEPT !.saved = TRUE] \in Slides
        BY <3>3 DEF Slides
      <3>5. [q EXCEPT !.slide = u].slide = u
        BY <2>2 DEF Page
      <3>6. [[q EXCEPT !.slide = u] EXCEPT !.slide = [u EXCEPT !.saved = TRUE]] \in Page
        BY <2>2, <3>4 DEF Page
      <3> QED
        BY <3>5, <3>6 DEF SlideTo, u, i
    <2> QED
      BY <2>2, <2>4 DEF SaveAndSlide, q
  <1>5. ASSUME NEW i \in Item PROVE Judged(p, i) \in Page /\ Ungrade(p, i) \in Page
    BY DEF Judged, Ungrade, Page
  <1> QED
    BY <1>1, <1>2, <1>3, <1>4, <1>5

LEMMA SheetTypes ==
  /\ \A s \in Sheet : Filled(s) \in Sheet
  /\ \A s \in Sheet, i \in Item, a \in Answer : [s EXCEPT ![i] = a] \in Sheet
  /\ \A s \in Sheet : Overtaken(s) \in SUBSET Item /\ NotOf(s) \in SUBSET Item
  /\ \A t : Asked(t) \in Fetch
  BY DEF Filled, Sheet, Answer, Overtaken, NotOf, Asked, Fetch, Blank

LEMMA OrphansType == requests \in SUBSET Request => Orphaned \in SUBSET Request
  BY DEF Orphaned, Request

LEMMA SettledType ==
  ASSUME TakeShape, NEW r \in requests, NEW good \in BOOLEAN, Settled(r, good)
  PROVE  requests' \in SUBSET Request /\ pg' \in Page /\ apart' \in SUBSET Item
  <1>1. r.item \in Item
    BY DEF TakeShape, Request
  <1>2. Ungrade(pg, r.item) \in Page
    BY <1>1, HandlerType DEF TakeShape
  <1>3. Judged(Ungrade(pg, r.item), r.item) \in Page
    BY <1>1, <1>2, HandlerType
  <1> QED
    BY <1>1, <1>2, <1>3 DEF Settled, TakeShape

LEMMA SendType ==
  ASSUME TakeShape, NEW i \in Item, NEW a \in {Skipped, Given}, SendUnlessOff(i, a)
  PROVE  requests' \in SUBSET Request /\ apart' \in SUBSET Item
  <1>1. [item |-> i, answer |-> a, at |-> "sent", starts |-> FALSE, mine |-> TRUE] \in Request
    BY DEF Request
  <1> QED
    BY <1>1 DEF SendUnlessOff, Send, TakeShape

LEMMA TakeShapeInit == TakeInit => TakeShape
  <1> SUFFICES ASSUME TakeInit PROVE TakeShape
    OBVIOUS
  <1>1. store \in [Item -> {Nil, Given}] /\ NoFinish \in [st : {"no", "batch", "complete", "refreshing"}, paper : Sheet, mine : BOOLEAN]
    BY BlankType DEF TakeInit, Blank, NoFinish
  <1>2. others \in Nat
    BY TakeAssumption DEF TakeInit
  <1> QED
    BY <1>1, <1>2, BlankType DEF TakeInit, TakeShape, NoCache, Session, Taking

LEMMA TakeShapeNext == TakeShape /\ TakeNext => TakeShape'
  <1> SUFFICES ASSUME TakeShape, TakeNext PROVE TakeShape'
    OBVIOUS
  <1>1. store \in Sheet /\ others \in Nat /\ cache \in Cache /\ pg \in Page /\ sheet \in Sheet
        /\ fetch \in Fetch /\ pg.at \in Item /\ pg.submitted \in Sheet /\ cache.logs \in Sheet
        /\ fetch.read \in Sheet
    BY DEF TakeShape, Sheet, Answer, Page, Cache, Fetch
  <1>2. CASE OpenTake
    <2>1. pg' \in Page
      BY <1>1, <1>2, BlankType, EffectsType DEF OpenTake
    <2>2. apart' \in SUBSET Item
      BY <1>1, <1>2, SheetTypes DEF OpenTake, TakeShape
    <2> QED
      BY <1>2, <2>1, <2>2, SheetTypes DEF OpenTake, TakeShape, takeServer
  <1>3. CASE LeaveTake
    BY <1>3, BlankType, OrphansType DEF LeaveTake, TakeShape, takeServer
  <1>4. CASE Reload
    <2>1. finish' \in [st : {"no", "batch", "complete", "refreshing"}, paper : Sheet, mine : BOOLEAN]
      BY <1>4, BlankType DEF Reload, TakeShape, NoFinish
    <2> QED
      BY <1>4, <2>1, BlankType, OrphansType DEF Reload, TakeShape, takeServer
  <1>5. CASE ShowSession
    <2>1. cache' \in Cache /\ fetch' \in Fetch
      BY <1>1, <1>5 DEF ShowSession, TakeShape, Cache, Fetch, Session
    <2>2. pg' \in Page
      BY <1>1, <1>5, <2>1, EffectsType DEF ShowSession
    <2>3. apart' \in SUBSET Item
      BY <1>1, <1>5, SheetTypes DEF ShowSession, TakeShape
    <2> QED
      BY <1>5, <2>1, <2>2, <2>3 DEF ShowSession, TakeShape, takeServer
  <1>6. CASE FailSession
    BY <1>6 DEF FailSession, TakeShape, takeServer, Fetch
  <1>7. CASE ReadLogs
    BY <1>1, <1>7 DEF ReadLogs, TakeShape, takeServer, Fetch
  <1>8. CASE ShowLogs
    <2>1. cache' \in Cache /\ fetch' \in Fetch
      BY <1>1, <1>8, BlankType DEF ShowLogs, Cache, Fetch
    <2>2. pg' \in Page
      BY <1>1, <1>8, <2>1, EffectsType DEF ShowLogs
    <2>3. apart' \in SUBSET Item
      BY <1>1, <1>8, SheetTypes DEF ShowLogs, TakeShape
    <2> QED
      BY <1>8, <2>1, <2>2, <2>3 DEF ShowLogs, TakeShape, takeServer
  <1>9. CASE AnswerGrade
    <2>1. Keep(pg, Given) \in Page
      BY <1>1, HandlerType DEF Answer
    <2>2. pg' \in Page
      BY <1>1, <1>9, <2>1 DEF AnswerGrade, Page
    <2>3. requests' \in SUBSET Request /\ apart' \in SUBSET Item
      BY <1>1, <1>9, SendType DEF AnswerGrade
    <2> QED
      BY <1>9, <2>2, <2>3 DEF AnswerGrade, TakeShape, takeServer, takeQueries
  <1>10. CASE ExamLocalSave
    <2>1. pg' \in Page
      BY <1>1, <1>10, HandlerType DEF ExamLocalSave
    <2>2. store' \in [Item -> {Nil, Given}]
      BY <1>1, <1>10 DEF ExamLocalSave, SetCurrentAnswer, TakeShape
    <2> QED
      BY <1>10, <2>1, <2>2 DEF ExamLocalSave, TakeShape, takeServer, takeQueries
  <1>11. CASE Skip
    <2>1. pg.at + 1 \in Item
      BY <1>1, <1>11, ItemFacts DEF Skip, CanSkip
    <2>2. SlideTo(pg, pg.at + 1) \in Page /\ Keep(pg, Skipped) \in Page
      BY <1>1, <2>1, HandlerType DEF Answer
    <2>3. pg' \in Page
      BY <1>1, <1>11, <2>1, <2>2, ItemFacts DEF Skip, Page, Higher
    <2>4. requests' \in SUBSET Request /\ apart' \in SUBSET Item
      BY <1>1, <1>11, SendType DEF Skip, TakeShape
    <2> QED
      BY <1>11, <2>3, <2>4 DEF Skip, TakeShape, takeServer, takeQueries
  <1>12. CASE NextItem \/ PrevItem
    <2>1. PICK i \in Item : Go(i)
      BY <1>1, <1>12, ItemFacts DEF NextItem, PrevItem, CanNext, Page
    <2>2. pg' \in Page
      BY <1>1, <2>1, HandlerType DEF Go
    <2> QED
      BY <2>1, <2>2 DEF Go, TakeShape, takeServer, takeQueries
  <1>13. CASE Slide
    <2>1. pg.slide \in [to : Item, answer : Answer, judged : BOOLEAN, saved : BOOLEAN]
      BY <1>1, <1>13 DEF Slide, Page, Slides
    <2>2. pg.slide.to \in Item /\ (pg.slide.answer = Given /\ ~pg.slide.saved) \in BOOLEAN
      BY <2>1
    <2>3. \A i \in Item, b \in BOOLEAN, k \in Item \cup {0} :
             [pg EXCEPT !.at = i, !.slide = NoSlide, !.isSubmitted = b, !.shown = k] \in Page
      BY <1>1 DEF Page, Slides
    <2>4. pg' \in Page
      BY <1>13, <2>2, <2>3 DEF Slide
    <2> QED
      BY <1>13, <2>4 DEF Slide, TakeShape, takeServer, takeQueries
  <1>14. CASE ToggleAi
    BY <1>1, <1>14 DEF ToggleAi, TakeShape, takeServer, takeQueries, Page
  <1>15. ASSUME NEW r \in requests, CheckAnswer(r) PROVE TakeShape'
    <2>1. [r EXCEPT !.at = "grading", !.starts = (status = "ready")] \in Request
      BY <1>15 DEF TakeShape, Request
    <2> QED
      BY <1>15, <2>1 DEF CheckAnswer, TakeShape, takeServer, takeQueries
  <1>16. ASSUME NEW r \in requests, RefuseAnswer(r) PROVE TakeShape'
    BY <1>16, SettledType DEF RefuseAnswer, TakeShape, takeServer, takeQueries
  <1>17. ASSUME NEW r \in requests, RecordAnswer(r) PROVE TakeShape'
    <2>1. requests' \in SUBSET Request /\ pg' \in Page /\ apart' \in SUBSET Item
      BY <1>17, SettledType DEF RecordAnswer, Replies
    <2>2. sheet' \in Sheet
      BY <1>1, <1>17, SheetTypes DEF RecordAnswer, TakeShape, Request, Answer
    <2> QED
      BY <1>17, <2>1, <2>2 DEF RecordAnswer, TakeShape, takeQueries, Session, Taking
  <1>18. CASE ViewResults
    BY <1>1, <1>18, BlankType DEF ViewResults, TakeShape, takeServer, takeQueries
  <1>19. CASE Graded
    <2>1. status' \in Session /\ sheet' \in Sheet /\ apart' \in SUBSET Item
      BY <1>1, <1>19, SheetTypes DEF Graded, Complete, Batch, TakeShape, Session
    <2>2. finish' \in [st : {"no", "batch", "complete", "refreshing"}, paper : Sheet, mine : BOOLEAN]
      BY <1>19, BlankType DEF Graded, NoFinish, TakeShape
    <2> QED
      BY <1>19, <2>1, <2>2, SheetTypes DEF Graded, TakeShape
  <1>20. CASE GradingRefused
    BY <1>20, BlankType DEF GradingRefused, NoFinish, TakeShape, takeServer, takeQueries
  <1>21. CASE ShowResults
    BY <1>21, BlankType, OrphansType DEF ShowResults, NoFinish, TakeShape, takeServer
  <1>22. CASE OpenResults
    BY <1>22 DEF OpenResults, TakeShape, takeServer, takeQueries
  <1>23. CASE LoadResults
    BY <1>1, <1>23 DEF LoadResults, TakeShape, Cache, Session
  <1> QED
    BY <1>2, <1>3, <1>4, <1>5, <1>6, <1>7, <1>8, <1>9, <1>10, <1>11, <1>12, <1>13, <1>14, <1>15,
       <1>16, <1>17, <1>18, <1>19, <1>20, <1>21, <1>22, <1>23 DEF TakeNext

-----------------------------------------------------------------------------
\* What the handlers change of the page's state, field by field

LEMMA RestoredFields ==
  ASSUME NEW p \in Page, NEW logs \in Sheet
  PROVE  LET c == RestoreCompleted(p, logs)
             s == RestoreStarted(p, logs)
             next == ResumeAt(Cardinality(Answered(logs)))
         IN  /\ c.submitted = logs /\ c.at = p.at /\ c.furthest = N /\ c.slide = p.slide
             /\ c.grading = p.grading /\ c.shown \in {p.shown, 1}
             /\ s.submitted = logs /\ s.at = next /\ s.furthest = next /\ s.slide = p.slide
             /\ s.grading = p.grading /\ s.shown \in {0, next}
             /\ s.isSubmitted => logs[next] = Given
  <1> DEFINE next == ResumeAt(Cardinality(Answered(logs)))
  <1> HIDE DEF next
  <1> DEFINE f == FromLogs(p, logs)
  <1>1. f.submitted = logs /\ f.at = p.at /\ f.slide = p.slide /\ f.grading = p.grading
        /\ f.shown = p.shown /\ f.isSubmitted = p.isSubmitted
    BY DEF FromLogs, Page
  <1>2. f \in [{"at", "isSubmitted", "shown", "submitted", "judged", "furthest", "grading",
               "aiOff", "slide"} -> {f[x] : x \in {"at", "isSubmitted", "shown", "submitted",
               "judged", "furthest", "grading", "aiOff", "slide"}}]
    BY DEF FromLogs, Page
  <1> HIDE DEF f
  <1>5. LET c == RestoreCompleted(p, logs) IN
             /\ c.submitted = logs /\ c.at = p.at /\ c.furthest = N /\ c.slide = p.slide
             /\ c.grading = p.grading /\ c.shown \in {p.shown, 1}
    BY <1>1, <1>2 DEF RestoreCompleted, f
  <1>6. LET s == RestoreStarted(p, logs) IN
             /\ s.submitted = logs /\ s.at = next /\ s.furthest = next /\ s.slide = p.slide
             /\ s.grading = p.grading /\ s.shown \in {0, next}
             /\ s.isSubmitted => logs[next] = Given
    <2> DEFINE b == logs[next] = Given
               k == IF logs[next] = Given THEN next ELSE 0
               s == [f EXCEPT !.furthest = next, !.at = next, !.isSubmitted = b, !.shown = k]
    <2>1. k \in {0, next} /\ b \in BOOLEAN /\ (b => logs[next] = Given)
      OBVIOUS
    <2>2. RestoreStarted(p, logs) = s
      BY DEF RestoreStarted, next, f
    <2> HIDE DEF b, k
    <2>3. s.isSubmitted = b /\ s.shown = k /\ s.at = next /\ s.furthest = next
          /\ s.submitted = f.submitted /\ s.slide = f.slide /\ s.grading = f.grading
      BY <1>2
    <2> QED
      BY <1>1, <2>1, <2>2, <2>3
  <1> QED
    BY <1>5, <1>6 DEF next

LEMMA RestoredExamFields ==
  ASSUME NEW p \in Page
  PROVE  LET q == RestoreExam(p)
             count == Cardinality(Answered(store)) + others
         IN  /\ q.submitted = IF count = 0 THEN p.submitted ELSE store
             /\ q.slide = p.slide /\ q.grading = p.grading
             /\ q.shown \in {0, p.shown} /\ (q.shown # 0 => q.at = p.at)
  <1> DEFINE count == Cardinality(Answered(store)) + others
  <1> HIDE DEF count
  <1> QED
    BY DEF RestoreExam, Page, count

LEMMA KeepFields ==
  ASSUME NEW p \in Page, NEW a \in Answer
  PROVE  /\ Keep(p, a).submitted = [p.submitted EXCEPT ![p.at] = a]
         /\ Keep(p, a).at = p.at /\ Keep(p, a).isSubmitted = TRUE /\ Keep(p, a).shown = p.at
         /\ Keep(p, a).slide = p.slide /\ Keep(p, a).grading = p.grading
         /\ \A i \in Item : i < Keep(p, a).furthest => i < p.furthest \/ i < p.at \/ i = p.at
         /\ Keep(p, a).aiOff = p.aiOff
  <1> DEFINE u == [p.submitted EXCEPT ![p.at] = a]
  <1> HIDE DEF u
  <1>1. [p EXCEPT !.submitted[p.at] = a] = [p EXCEPT !.submitted = u]
    BY DEF u, Page
  <1>2. Keep(p, a).furthest = Lower(N, Higher(p.furthest, p.at + 1))
    BY <1>1 DEF Keep, Advanced, Page
  <1>3. \A i \in Item : i < Keep(p, a).furthest => i < p.furthest \/ i < p.at \/ i = p.at
    BY <1>2, TakeAssumption DEF Lower, Higher, Page, Item
  <1> QED
    BY <1>1, <1>3 DEF Keep, Advanced, Page, u

LEMMA SlideFields ==
  ASSUME NEW p \in Page, NEW i \in Item
  PROVE  /\ SlideTo(p, i).submitted = p.submitted /\ SlideTo(p, i).at = p.at
         /\ SlideTo(p, i).isSubmitted = p.isSubmitted /\ SlideTo(p, i).shown = p.shown
         /\ SlideTo(p, i).grading = p.grading /\ SlideTo(p, i).furthest = p.furthest
         /\ SlideTo(p, i).slide.to = i /\ SlideTo(p, i).slide.answer = p.submitted[i]
  BY DEF SlideTo, Page

LEMMA SaveFields ==
  ASSUME NEW p \in Page
  PROVE  /\ SaveAndSlide(p).submitted = [p.submitted EXCEPT ![p.at] = Given]
         /\ SaveAndSlide(p).at = p.at /\ SaveAndSlide(p).shown = p.shown
         /\ SaveAndSlide(p).grading = p.grading
  <1> DEFINE u == [p.submitted EXCEPT ![p.at] = Given]
             v == [p EXCEPT !.submitted[p.at] = Given]
             q == Advanced(v)
             t == SlideTo(q, p.at + 1)
  <1>1. v.submitted = u /\ v.at = p.at /\ v.shown = p.shown /\ v.grading = p.grading /\ v \in Page
    BY DEF Page, Sheet, Answer
  <1> HIDE DEF v, u
  <1>2. q.submitted = u /\ q.at = p.at /\ q.shown = p.shown /\ q.grading = p.grading /\ q \in Page
    BY <1>1, HandlerType DEF Advanced, Page
  <1> HIDE DEF q
  <1>3. t.submitted = u /\ t.at = p.at /\ t.shown = p.shown /\ t.grading = p.grading
    BY <1>2 DEF SlideTo, Page
  <1>4. DOMAIN t = DOMAIN q /\ \A w : LET z == [t EXCEPT !.slide.saved = w] IN
           z.submitted = t.submitted /\ z.at = t.at /\ z.shown = t.shown /\ z.grading = t.grading
    BY <1>2 DEF SlideTo, Page
  <1> HIDE DEF t
  <1> QED
    BY <1>2, <1>3, <1>4 DEF SaveAndSlide, q, v, u, t

LEMMA SettleFields ==
  ASSUME NEW p \in Page, NEW i \in Item, NEW q \in {Judged(Ungrade(p, i), i), Ungrade(p, i)}
  PROVE  /\ q.submitted = p.submitted /\ q.at = p.at /\ q.isSubmitted = p.isSubmitted
         /\ q.shown \in {p.shown, p.at} /\ q.slide = p.slide /\ q.furthest = p.furthest
         /\ q.grading = IF p.grading = i THEN 0 ELSE p.grading
  <1>1. CASE q = Judged(Ungrade(p, i), i)
    BY <1>1 DEF Judged, Ungrade, Page
  <1>2. CASE q = Ungrade(p, i)
    BY <1>2 DEF Ungrade, Page
  <1> QED
    BY <1>1, <1>2

-----------------------------------------------------------------------------
\* A page that is not open, or has no session yet, holds nothing and waits for
\* no logs; only an open page waits for the replies of its requests.
Unopened == place # "take" \/ cache.session = Nil => pg = FreshTake /\ fetch.logs = "no"

MineIsHere == \A r \in requests : r.mine => place = "take" /\ cache.session # Nil

LEMMA OpenKept == TakeShape /\ Unopened /\ MineIsHere /\ TakeNext => Unopened' /\ MineIsHere'
  <1> SUFFICES ASSUME TakeShape, Unopened, MineIsHere, TakeNext PROVE Unopened' /\ MineIsHere'
    OBVIOUS
  <1>1. /\ pg \in Page /\ cache \in Cache /\ fetch \in Fetch /\ status # Nil /\ FreshTake.slide = NoSlide
        /\ NoFetch.logs = "no" /\ Asked(Nil).logs = "no"
    BY DEF TakeShape, Session, Taking, Nil, FreshTake, NoFetch, Asked, LogsEnabled
  <1>2. \A r \in Orphaned : ~r.mine
    BY DEF Orphaned, TakeShape, Request
  <1>3. CASE OpenTake
    BY <1>1, <1>3 DEF OpenTake, Unopened, MineIsHere
  <1>4. CASE LeaveTake \/ Reload \/ ShowResults
    BY <1>1, <1>2, <1>4 DEF LeaveTake, Reload, ShowResults, Unopened, MineIsHere
  <1>5. CASE ShowSession \/ LoadResults
    <2>1. cache'.session # Nil /\ place' = place /\ (place # "take" => UNCHANGED <<pg, fetch>>)
      BY <1>1, <1>5 DEF ShowSession, LoadResults, Cache, Nil, takeServer
    <2> QED
      BY <1>1, <1>5, <2>1 DEF ShowSession, LoadResults, Unopened, MineIsHere
  <1>6. CASE FailSession
    BY <1>1, <1>6 DEF FailSession, Fetch, Unopened, MineIsHere
  <1>7. CASE ReadLogs \/ ShowLogs
    <2>1. fetch.logs # "no" /\ place' = place /\ cache'.session = cache.session /\ requests' = requests
      BY <1>1, <1>7 DEF ReadLogs, ShowLogs, Cache
    <2> QED
      BY <2>1 DEF Unopened, MineIsHere
  <1>8. CASE AnswerGrade \/ ExamLocalSave \/ Skip \/ NextItem \/ PrevItem \/ Slide \/ ToggleAi
    <2>1. place = "take" /\ cache.session # Nil /\ UNCHANGED <<place, cache, fetch>>
      BY <1>1, <1>8 DEF AnswerGrade, ExamLocalSave, Skip, NextItem, PrevItem, Go, Slide, ToggleAi,
         CanChoose, CanType, CanSkip, CanToggleAi, OnQuiz, Loading, Unopened, takeQueries
    <2> QED
      BY <2>1 DEF Unopened, MineIsHere
  <1>9. ASSUME NEW r \in requests, CheckAnswer(r) \/ RefuseAnswer(r) \/ RecordAnswer(r)
        PROVE  Unopened' /\ MineIsHere'
    <2>1. UNCHANGED <<place, cache, fetch>>
      BY <1>9 DEF CheckAnswer, RefuseAnswer, RecordAnswer, takeQueries
    <2>2. ~r.mine => pg' = pg
      BY <1>9 DEF CheckAnswer, RefuseAnswer, RecordAnswer, Settled
    <2>3. \A q \in requests' : q \in requests \/ q.mine = r.mine
      <3>1. [r EXCEPT !.at = "grading", !.starts = (status = "ready")].mine = r.mine
        BY DEF TakeShape, Request
      <3> QED
        BY <1>9, <3>1 DEF CheckAnswer, RefuseAnswer, RecordAnswer, Settled
    <2> QED
      BY <2>1, <2>2, <2>3 DEF Unopened, MineIsHere
  <1>10. CASE ViewResults \/ GradingRefused \/ OpenResults
    BY <1>1, <1>10 DEF ViewResults, GradingRefused, OpenResults, OnQuiz, CanViewResults, Unopened, MineIsHere, takeQueries
  <1>11. CASE Graded
    BY <1>1, <1>11 DEF Graded, Unopened, MineIsHere
  <1> QED
    BY <1>3, <1>4, <1>5, <1>6, <1>7, <1>8, <1>9, <1>10, <1>11 DEF TakeNext

\* In an exam nothing is sent while it is taken, no logs are read before it is graded,
\* and the page holds what the session storage holds.
ExamKept == mode = "exam" =>
    /\ requests = {}
    /\ cache.has \/ fetch.logs # "no" => cache.session = "graded"
    /\ cache.session = "graded" => status = "graded"
    /\ place = "take" /\ cache.session \in Taking => pg.submitted = store

\* What the effect that restores an exam puts on a fresh page is the storage.
LEMMA ExamRestored ==
  ASSUME store \in [Item -> {Nil, Given}], others \in Nat,
         NEW c \in Cache, NEW d \in Cache, mode = "exam",
         c.session = Nil, ~d.has, d.session \in Taking
  PROVE  Effects(FreshTake, c, d).submitted = store
  <1>1. Effects(FreshTake, c, d) = RestoreExam(FreshTake)
    BY DEF Effects, Taking
  <1>2. Answered(store) \in SUBSET Item /\ IsFiniteSet(Answered(store)) /\ Cardinality(Answered(store)) \in Nat
    BY ItemsFinite, FS_Subset, FS_CardinalityType DEF Answered
  <1>3. ASSUME Cardinality(Answered(store)) + others = 0 PROVE store = Blank
    <2>1. Cardinality(Answered(store)) = 0
      BY <1>2, <1>3
    <2>2. Answered(store) = {}
      BY <1>2, <2>1, FS_EmptySet
    <2> QED
      BY <2>2 DEF Answered, Blank
  <1> QED
    BY <1>1, <1>3, BlankType, RestoredExamFields

LEMMA ExamStays ==
  TakeShape /\ Unopened /\ ExamKept /\ TakeNext => ExamKept'
  <1> SUFFICES ASSUME TakeShape, Unopened, ExamKept, TakeNext, mode = "exam" PROVE ExamKept'
    BY DEF TakeNext, ExamKept, OpenTake, LeaveTake, Reload, ShowSession, FailSession, ReadLogs, ShowLogs,
       AnswerGrade, ExamLocalSave, Skip, NextItem, PrevItem, Slide, ToggleAi, CheckAnswer, RefuseAnswer,
       RecordAnswer, ViewResults, Graded, GradingRefused, ShowResults, OpenResults, LoadResults, Go, takeServer
  <1>1. /\ pg \in Page /\ cache \in Cache /\ fetch \in Fetch /\ NoFetch.logs = "no"
        /\ requests = {} /\ "normal" # "exam" /\ Taking \cap {"graded", Nil} = {}
        /\ store \in [Item -> {Nil, Given}] /\ others \in Nat /\ NoCache \in Cache
    BY BlankType DEF TakeShape, ExamKept, Taking, Nil, NoFetch
  <1>2. \A t : Asked(t).logs # "no" => t = "graded"
    BY <1>1 DEF Asked, LogsEnabled
  <1>3. Orphaned = {}
    BY <1>1 DEF Orphaned
  <1>4. CASE OpenTake
    <2>1. ASSUME cache.session \in Taking PROVE pg'.submitted = store
      <3>1. ~cache.has
        BY <1>1, <2>1 DEF ExamKept
      <3>2. pg' = Effects(FreshTake, NoCache, cache) /\ NoCache.session = Nil
        BY <1>1, <1>4, <2>1 DEF OpenTake, NoCache
      <3> QED
        BY <1>1, <2>1, <3>1, <3>2, ExamRestored
    <2> QED
      BY <1>1, <1>2, <1>4, <2>1 DEF OpenTake, ExamKept, takeServer
  <1>5. CASE LeaveTake \/ Reload \/ ShowResults
    BY <1>1, <1>3, <1>5 DEF LeaveTake, Reload, ShowResults, ExamKept, takeServer, NoCache, Nil
  <1>6. CASE ShowSession
    <2>1. /\ cache'.session = status /\ cache'.has = cache.has /\ cache' \in Cache
          /\ place = "take" /\ fetch' \in Fetch
          /\ fetch'.logs # "no" => fetch.logs # "no" \/ status = "graded"
      BY <1>1, <1>6 DEF ShowSession, Cache, Fetch, LogsEnabled, TakeShape
    <2>2. ASSUME status \in Taking PROVE pg'.submitted = store
      <3>1. ~cache.has /\ cache.session # "graded" /\ pg' = Effects(pg, cache, cache')
        BY <1>1, <1>6, <2>2 DEF ExamKept, ShowSession
      <3>2. CASE cache.session = Nil
        BY <1>1, <2>1, <2>2, <3>1, <3>2, ExamRestored DEF Unopened
      <3>3. CASE cache.session # Nil
        <4>1. pg' = pg /\ cache.session \in Taking
          BY <1>1, <2>1, <3>1, <3>3 DEF Effects, Cache, Session
        <4> QED
          BY <2>1, <4>1 DEF ExamKept
      <3> QED
        BY <3>2, <3>3
    <2> QED
      BY <1>1, <1>6, <2>1, <2>2 DEF ShowSession, ExamKept, takeServer
  <1>7. CASE FailSession \/ ReadLogs
    BY <1>1, <1>7 DEF FailSession, ReadLogs, ExamKept, takeServer, Fetch
  <1>8. CASE ShowLogs
    <2>1. cache.session = "graded" /\ cache'.session = "graded"
      BY <1>1, <1>8 DEF ShowLogs, ExamKept, Cache
    <2> QED
      BY <1>1, <1>8, <2>1 DEF ShowLogs, ExamKept, takeServer
  <1>9. CASE ExamLocalSave
    <2>1. pg'.submitted = [pg.submitted EXCEPT ![pg.at] = Given] /\ cache.session # "graded"
          /\ cache.session # Nil /\ place = "take" /\ store' = [store EXCEPT ![pg.at] = Given]
      BY <1>1, <1>9, SaveFields DEF ExamLocalSave, CanChoose, CanType, OnQuiz, Loading, Disabled,
         Completed, SetCurrentAnswer
    <2>2. cache.session \in Taking
      BY <1>1, <2>1 DEF Cache, Session
    <2> QED
      BY <1>1, <1>9, <2>1, <2>2 DEF ExamLocalSave, ExamKept, takeServer, takeQueries
  <1>10. CASE Skip \/ NextItem \/ PrevItem \/ Slide \/ ToggleAi
    <2>1. pg'.submitted = pg.submitted /\ requests' = requests
      <3>1. CASE Skip
        <4>1. pg.at + 1 \in Item
          BY <1>1, <3>1, ItemFacts DEF Skip, CanSkip, Page
        <4>2. SlideTo(pg, pg.at + 1) \in Page
          BY <1>1, <4>1, HandlerType
        <4>3. \A v : [SlideTo(pg, pg.at + 1) EXCEPT !.furthest = v].submitted = SlideTo(pg, pg.at + 1).submitted
          BY <4>2 DEF Page
        <4>4. SlideTo(pg, pg.at + 1).submitted = pg.submitted
          BY <1>1, <4>1, SlideFields
        <4>5. /\ pg' = [SlideTo(pg, pg.at + 1) EXCEPT !.furthest = Higher(@, pg.at + 1)]
              /\ requests' = requests
          BY <1>1, <3>1 DEF Skip
        <4> QED
          BY <4>3, <4>4, <4>5
      <3>2. CASE NextItem \/ PrevItem
        BY <1>1, <3>2 DEF NextItem, PrevItem, Go, SlideTo, Page
      <3>3. CASE Slide \/ ToggleAi
        BY <1>1, <3>3 DEF Slide, ToggleAi, Page
      <3> QED
        BY <1>10, <3>1, <3>2, <3>3
    <2> QED
      BY <1>1, <1>10, <2>1 DEF Skip, NextItem, PrevItem, Go, Slide, ToggleAi, ExamKept, takeServer, takeQueries
  <1>11. CASE AnswerGrade \/ \E r \in requests : CheckAnswer(r) \/ RefuseAnswer(r) \/ RecordAnswer(r)
    BY <1>1, <1>11 DEF AnswerGrade
  <1>12. CASE ViewResults \/ GradingRefused \/ OpenResults
    BY <1>1, <1>12 DEF ViewResults, GradingRefused, OpenResults, ExamKept, takeServer, takeQueries
  <1>13. CASE Graded
    <2>1. status' = "graded" /\ mode' = mode /\ (fetch'.logs # "no" => fetch.logs # "no" \/ cache.session = "graded")
      BY <1>2, <1>13 DEF Graded, Complete, Batch
    <2> QED
      BY <1>1, <1>13, <2>1 DEF Graded, ExamKept
  <1>14. CASE LoadResults
    BY <1>1, <1>14 DEF LoadResults, ExamKept, ShouldFinalize, Cache
  <1> QED
    BY <1>4, <1>5, <1>6, <1>7, <1>8, <1>9, <1>10, <1>11, <1>12, <1>13, <1>14 DEF TakeNext

-----------------------------------------------------------------------------
\* A quiz that is no exam.  Two requests for an item are told apart only by the history;
\* a request carries what the page shows; what the page shows is in the sheet, on its way
\* or apart; a quiz that is over is shown as its logs have it.
OneRequest == \A r, s \in requests : r.item = s.item => r = s \/ r.item \in apart

RequestsFit == \A r \in requests : pg.submitted[r.item] \in {Nil, r.answer} \/ r.item \in apart

SheetShown == \A i \in Item : pg.submitted[i] \in {Nil, sheet[i]} \/ InFlight(i) \/ i \in apart

GradedShown == place = "take" /\ cache.has /\ cache.session = "graded" => pg.submitted = cache.logs

Recorded == mode = "normal" => OneRequest /\ RequestsFit /\ SheetShown /\ GradedShown

\* The effects leave the page as it is or put the logs on it; they do the latter when the
\* quiz turns out to be over, or no longer over, or the logs are new.
LEMMA EffectsNormal ==
  ASSUME mode = "normal", NEW p \in Page, NEW c \in Cache, NEW d \in Cache
  PROVE  /\ Effects(p, c, d) \in {p, RestoreCompleted(p, d.logs), RestoreStarted(p, d.logs)}
         /\ Effects(p, c, d).submitted \in {p.submitted, d.logs}
         /\ Effects(p, c, d) # p =>
               d.has /\ (~c.has \/ d.logs # c.logs \/ (d.session = "graded") # (c.session = "graded"))
         /\ d.has /\ (~c.has \/ d.logs # c.logs \/ (d.session = "graded") # (c.session = "graded"))
               => /\ Effects(p, c, d).submitted = d.logs
                  /\ Effects(p, c, d) = IF d.session = "graded" THEN RestoreCompleted(p, d.logs)
                                        ELSE RestoreStarted(p, d.logs)
  <1>1. d.logs \in Sheet /\ "exam" # "normal"
    BY DEF Cache
  <1>2. RestoreCompleted(p, d.logs).submitted = d.logs /\ RestoreStarted(p, d.logs).submitted = d.logs
    BY <1>1, RestoredFields
  <1> QED
    BY <1>1, <1>2 DEF Effects

\* An answer that is sent, or kept because AI grading is off.
LEMMA SentRecorded ==
  ASSUME TakeShape, OneRequest, RequestsFit, SheetShown, NEW i \in Item, NEW a \in {Skipped, Given},
         SendUnlessOff(i, a), pg'.submitted = [pg.submitted EXCEPT ![i] = a], sheet' = sheet
  PROVE  OneRequest' /\ RequestsFit' /\ SheetShown'
  <1>1. pg.submitted \in Sheet /\ apart \subseteq apart' /\ requests \subseteq requests'
    BY DEF TakeShape, Page, SendUnlessOff, Send
  <1>2. CASE pg.aiOff
    <2>1. requests' = requests /\ apart' = apart \cup {i}
      BY <1>2 DEF SendUnlessOff
    <2> QED
      BY <1>1, <2>1 DEF OneRequest, RequestsFit, SheetShown, InFlight, TakeShape, Request, Sheet
  <1>3. CASE ~pg.aiOff
    <2> DEFINE n == [item |-> i, answer |-> a, at |-> "sent", starts |-> FALSE, mine |-> TRUE]
    <2>1. requests' = requests \cup {n} /\ n.item = i /\ n.answer = a
          /\ (InFlight(i) => i \in apart')
      BY <1>3 DEF SendUnlessOff, Send
    <2> HIDE DEF n
    <2>2. OneRequest'
      BY <1>1, <2>1 DEF OneRequest, InFlight
    <2>3. RequestsFit'
      BY <1>1, <2>1 DEF RequestsFit, InFlight, TakeShape, Request, Sheet
    <2>4. SheetShown'
      BY <1>1, <2>1 DEF SheetShown, InFlight, Sheet
    <2> QED
      BY <2>2, <2>3, <2>4
  <1> QED
    BY <1>2, <1>3

\* A request that is settled: refused, or recorded in the sheet.
LEMMA SettledRecorded ==
  ASSUME TakeShape, OneRequest, RequestsFit, SheetShown, NEW r \in requests, NEW good \in BOOLEAN,
         Settled(r, good),
         sheet' = [sheet EXCEPT ![r.item] = r.answer] \/ (~good /\ sheet' = sheet)
  PROVE  OneRequest' /\ RequestsFit' /\ SheetShown' /\ pg'.submitted = pg.submitted
  <1>1. /\ pg \in Page /\ r.item \in Item /\ sheet \in Sheet /\ apart \subseteq apart'
        /\ requests' = requests \ {r} /\ (~good => r.item \in apart')
    BY DEF TakeShape, Request, Settled
  <1>2. pg'.submitted = pg.submitted
    BY <1>1, SettleFields DEF Settled
  <1>3. OneRequest' /\ RequestsFit'
    BY <1>1, <1>2 DEF OneRequest, RequestsFit
  <1>4. SheetShown'
    <2> SUFFICES ASSUME NEW i \in Item, i \notin apart', pg.submitted[i] # Nil, ~InFlight(i)'
                 PROVE  pg.submitted[i] = sheet'[i]
      BY <1>2 DEF SheetShown
    <2>1. i \notin apart
      BY <1>1
    <2>2. CASE i = r.item
      BY <1>1, <2>1, <2>2 DEF RequestsFit, Sheet
    <2>3. CASE i # r.item
      <3>1. ~InFlight(i) /\ sheet'[i] = sheet[i]
        BY <1>1, <2>3 DEF InFlight, Sheet
      <3> QED
        BY <2>1, <3>1 DEF SheetShown
    <2> QED
      BY <2>2, <2>3
  <1> QED
    BY <1>2, <1>3, <1>4

\* Logs that replace what the page holds, with those that were overtaken apart.
LEMMA LogsRecorded ==
  ASSUME TakeShape, OneRequest, RequestsFit, SheetShown, NEW logs \in Sheet,
         UNCHANGED <<requests, sheet>>, pg'.submitted \in {Blank, pg.submitted, logs},
         apart \subseteq apart', Overtaken(logs) \subseteq apart'
  PROVE  OneRequest' /\ RequestsFit' /\ SheetShown'
  <1>1. \A r \in requests : r.item \in Item /\ InFlight(r.item)
    BY DEF TakeShape, Request, InFlight
  <1>2. \A i \in Item : logs[i] # sheet[i] \/ InFlight(i) => i \in apart'
    BY DEF Overtaken
  <1>3. OneRequest' /\ RequestsFit'
    BY <1>1, <1>2 DEF OneRequest, RequestsFit, InFlight
  <1>4. SheetShown'
    BY <1>2 DEF SheetShown, InFlight, Blank
  <1> QED
    BY <1>3, <1>4

LEMMA ModeKept == TakeNext => mode' = mode
  BY DEF TakeNext, OpenTake, LeaveTake, Reload, ShowSession, FailSession, ReadLogs, ShowLogs,
     AnswerGrade, ExamLocalSave, Skip, NextItem, PrevItem, Slide, ToggleAi, CheckAnswer, RefuseAnswer,
     RecordAnswer, ViewResults, Graded, GradingRefused, ShowResults, OpenResults, LoadResults, Go, takeServer

LEMMA RecordedKept ==
  TakeShape /\ Unopened /\ MineIsHere /\ Recorded /\ TakeNext => Recorded'
  <1> SUFFICES ASSUME TakeShape, Unopened, MineIsHere, Recorded, TakeNext, mode = "normal"
               PROVE  OneRequest' /\ RequestsFit' /\ SheetShown' /\ GradedShown'
    BY ModeKept DEF Recorded
  <1>0. pg \in Page
    BY DEF TakeShape
  <1>1. /\ pg \in Page /\ cache \in Cache /\ fetch \in Fetch /\ cache.logs \in Sheet /\ fetch.read \in Sheet
        /\ pg.at \in Item /\ pg.submitted \in Sheet /\ sheet \in Sheet /\ "normal" # "exam"
        /\ FreshTake \in Page /\ FreshTake.submitted = Blank /\ NoCache \in Cache /\ NoCache.has = FALSE
        /\ \A i \in Item : Blank[i] = Nil
    BY BlankType DEF TakeShape, Cache, Fetch, Page, NoCache, Blank
  <1>2. OneRequest /\ RequestsFit /\ SheetShown /\ GradedShown
    BY DEF Recorded
  <1>3. CASE OpenTake
    <2>1. CASE cache.has
      <3>1. pg' = FreshTake \/ pg' = Effects(FreshTake, NoCache, cache)
        BY <1>3 DEF OpenTake
      <3>2. pg'.submitted \in {Blank, cache.logs}
        BY <1>1, <3>1, EffectsNormal
      <3>3. cache.session = "graded" => pg'.submitted = cache.logs
        BY <1>1, <1>3, <2>1, EffectsNormal DEF OpenTake, Nil
      <3>4. OneRequest' /\ RequestsFit' /\ SheetShown'
        BY <1>1, <1>2, <1>3, <2>1, <3>2, LogsRecorded DEF OpenTake, takeServer
      <3> QED
        BY <1>3, <3>3, <3>4 DEF OpenTake, GradedShown
    <2>2. CASE ~cache.has
      <3>1. pg' = FreshTake
        BY <1>1, <1>3, <2>2, EffectsNormal DEF OpenTake
      <3> QED
        BY <1>1, <1>2, <1>3, <2>2, <3>1 DEF OpenTake, takeServer, OneRequest, RequestsFit, SheetShown,
           GradedShown, InFlight, TakeShape, Request
    <2> QED
      BY <2>1, <2>2
  <1>4. CASE LeaveTake \/ Reload \/ ShowResults
    <2>1. /\ requests' = Orphaned /\ pg' = FreshTake /\ sheet' = sheet /\ apart' = apart
          /\ place' # "take"
      BY <1>4 DEF LeaveTake, Reload, ShowResults, takeServer
    <2>2. \A q \in Orphaned : \E r \in requests : q.item = r.item /\ q = [r EXCEPT !.mine = FALSE]
      BY DEF Orphaned, TakeShape, Request
    <2>3. OneRequest'
      <3> SUFFICES ASSUME NEW q \in Orphaned, NEW u \in Orphaned, q.item = u.item, q.item \notin apart
                   PROVE  q = u
        BY <2>1 DEF OneRequest
      <3>1. PICK r \in requests : q.item = r.item /\ q = [r EXCEPT !.mine = FALSE]
        BY <2>2
      <3>2. PICK t \in requests : u.item = t.item /\ u = [t EXCEPT !.mine = FALSE]
        BY <2>2
      <3>3. r = t
        BY <1>2, <3>1, <3>2 DEF OneRequest
      <3> QED
        BY <3>1, <3>2, <3>3
    <2> QED
      <3>1. \A q \in Orphaned : q.item \in Item
        BY OrphansType DEF TakeShape, Request
      <3> QED
        BY <1>1, <2>1, <2>3, <3>1 DEF RequestsFit, SheetShown, GradedShown
  <1>5. CASE ShowSession
    <2>1. /\ cache' \in Cache /\ cache'.has = cache.has
          /\ cache'.logs = cache.logs /\ cache'.session = status
          /\ pg' = Effects(pg, cache, cache') /\ place = "take"
          /\ UNCHANGED <<requests, sheet>> /\ apart \subseteq apart'
          /\ cache.has /\ status = "graded" => apart' = apart \cup Overtaken(cache.logs)
      BY <1>1, <1>5 DEF ShowSession, Cache, takeServer, TakeShape
    <2> DEFINE turned == cache.has /\ (status = "graded") # (cache.session = "graded")
    <2>2. /\ pg'.submitted \in {pg.submitted, cache.logs}
          /\ pg' # pg => turned
          /\ turned => pg'.submitted = cache.logs
      <3> DEFINE d == cache'
      <3>1. d \in Cache /\ d.has = cache.has /\ d.logs = cache.logs /\ d.session = status
            /\ pg' = Effects(pg, cache, d)
        BY <2>1
      <3> HIDE DEF d
      <3> QED
        BY <1>1, <3>1, EffectsNormal
    <2>3. GradedShown'
      <3> SUFFICES ASSUME cache.has, status = "graded" PROVE pg'.submitted = cache.logs
        BY <2>1 DEF GradedShown
      <3>1. CASE cache.session = "graded"
        BY <1>2, <2>1, <2>2, <3>1 DEF GradedShown
      <3>2. CASE cache.session # "graded"
        BY <2>2, <3>2
      <3> QED
        BY <3>1, <3>2
    <2>4. CASE cache.has /\ status = "graded"
      <3>1. pg'.submitted \in {Blank, pg.submitted, cache.logs}
        BY <2>2
      <3> QED
        BY <1>1, <1>2, <2>1, <2>3, <2>4, <3>1, LogsRecorded
    <2>5. CASE ~(cache.has /\ status = "graded")
      <3>1. pg'.submitted = pg.submitted
        <4>1. CASE pg' = pg
          BY <4>1
        <4>2. CASE pg' # pg
          <5>1. cache.has /\ cache.session = "graded"
            BY <2>5, <2>2, <4>2
          <5>2. pg.submitted = cache.logs
            BY <1>2, <2>1, <5>1 DEF GradedShown
          <5> QED
            BY <2>2, <5>2
        <4> QED
          BY <4>1, <4>2
      <3> QED
        BY <1>2, <2>1, <2>3, <3>1 DEF OneRequest, RequestsFit, SheetShown, InFlight
    <2> QED
      BY <2>4, <2>5
  <1>6. CASE ShowLogs
    <2>1. /\ cache' \in Cache /\ cache'.has /\ cache'.logs = fetch.read /\ cache'.session = cache.session
          /\ pg' = Effects(pg, cache, cache') /\ place = "take"
          /\ UNCHANGED <<requests, sheet>> /\ apart' = apart \cup Overtaken(fetch.read)
      BY <1>1, <1>6 DEF ShowLogs, Cache, takeServer
    <2> DEFINE news == ~cache.has \/ fetch.read # cache.logs
    <2>2. /\ pg'.submitted \in {pg.submitted, fetch.read}
          /\ news => pg'.submitted = fetch.read
      <3> DEFINE d == cache'
      <3>1. d \in Cache /\ d.has /\ d.logs = fetch.read /\ pg' = Effects(pg, cache, d)
        BY <2>1
      <3> HIDE DEF d
      <3> QED
        BY <1>1, <3>1, EffectsNormal
    <2>3. GradedShown'
      <3> SUFFICES ASSUME cache.session = "graded" PROVE pg'.submitted = fetch.read
        BY <2>1 DEF GradedShown
      <3>1. CASE ~news
        BY <1>2, <2>1, <2>2, <3>1 DEF GradedShown
      <3> QED
        BY <2>2, <3>1
    <2>4. pg'.submitted \in {Blank, pg.submitted, fetch.read}
      BY <2>2
    <2> QED
      BY <1>1, <1>2, <2>1, <2>3, <2>4, LogsRecorded
  <1>7. CASE AnswerGrade
    <2>1. PICK v : pg' = [Keep(pg, Given) EXCEPT !.grading = v]
      BY <1>7 DEF AnswerGrade
    <2>2. Given \in Answer /\ Given \in {Skipped, Given} /\ Keep(pg, Given) \in Page
      BY <1>1, HandlerType DEF Answer
    <2>3. pg'.submitted = [pg.submitted EXCEPT ![pg.at] = Given]
      <3>1. pg'.submitted = Keep(pg, Given).submitted
        BY <2>1, <2>2 DEF Page
      <3> QED
        BY <1>0, <2>2, <3>1, KeepFields
    <2>4. SendUnlessOff(pg.at, Given) /\ sheet' = sheet /\ place' = place /\ cache' = cache /\ cache.session # "graded"
      BY <1>7 DEF AnswerGrade, takeServer, takeQueries, CanChoose, CanType, Disabled, Completed
    <2> QED
      BY <1>1, <1>2, <2>2, <2>3, <2>4, SentRecorded DEF GradedShown
  <1>8. CASE Skip
    <2>1. Skipped \in Answer /\ Skipped \in {Skipped, Given} /\ pg' = Keep(pg, Skipped)
      BY <1>8 DEF Skip, Answer
    <2>2. pg'.submitted = [pg.submitted EXCEPT ![pg.at] = Skipped]
      BY <1>0, <2>1, KeepFields
    <2>3. SendUnlessOff(pg.at, Skipped) /\ sheet' = sheet /\ place' = place /\ cache' = cache /\ cache.session # "graded"
      BY <1>8 DEF Skip, takeServer, takeQueries, CanSkip, Completed
    <2> QED
      BY <1>1, <1>2, <2>1, <2>2, <2>3, SentRecorded DEF GradedShown
  <1>9. CASE FailSession \/ ReadLogs \/ NextItem \/ PrevItem \/ Slide \/ ToggleAi \/ ViewResults
             \/ GradingRefused \/ OpenResults
    <2>1. pg'.submitted = pg.submitted
      BY <1>1, <1>9 DEF FailSession, ReadLogs, NextItem, PrevItem, Go, SlideTo, Slide, ToggleAi, ViewResults,
         GradingRefused, OpenResults, Page
    <2>2. UNCHANGED <<requests, sheet, apart, cache>> /\ (place' = place \/ place' # "take")
      BY <1>9 DEF FailSession, ReadLogs, NextItem, PrevItem, Go, Slide, ToggleAi, ViewResults, GradingRefused,
         OpenResults, takeServer, takeQueries
    <2> QED
      BY <1>2, <2>1, <2>2 DEF OneRequest, RequestsFit, SheetShown, GradedShown, InFlight
  <1>10. CASE LoadResults
    <2>1. UNCHANGED <<requests, sheet, apart, pg>> /\ place' # "take"
      BY <1>10 DEF LoadResults
    <2> QED
      BY <1>2, <2>1 DEF OneRequest, RequestsFit, SheetShown, GradedShown, InFlight
  <1>11. CASE ExamLocalSave
    BY <1>1, <1>11 DEF ExamLocalSave
  <1>12. ASSUME NEW r \in requests, CheckAnswer(r)
         PROVE  OneRequest' /\ RequestsFit' /\ SheetShown' /\ GradedShown'
    <2> DEFINE n == [r EXCEPT !.at = "grading", !.starts = (status = "ready")]
    <2>1. n.item = r.item /\ n.answer = r.answer /\ requests' = (requests \ {r}) \cup {n}
      BY <1>12 DEF CheckAnswer, TakeShape, Request
    <2>2. UNCHANGED <<pg, sheet, apart, place, cache>>
      BY <1>12 DEF CheckAnswer, takeServer, takeQueries
    <2> HIDE DEF n
    <2>3. \A i : InFlight(i)' <=> InFlight(i)
      BY <2>1 DEF InFlight
    <2>4. OneRequest' /\ RequestsFit'
      BY <1>2, <2>1, <2>2 DEF OneRequest, RequestsFit
    <2> QED
      BY <1>2, <2>2, <2>3, <2>4 DEF SheetShown, GradedShown
  <1>13. ASSUME NEW r \in requests, RefuseAnswer(r) \/ RecordAnswer(r)
         PROVE  OneRequest' /\ RequestsFit' /\ SheetShown' /\ GradedShown'
    <2>1. PICK good \in BOOLEAN : Settled(r, good)
             /\ (sheet' = [sheet EXCEPT ![r.item] = r.answer] \/ (~good /\ sheet' = sheet))
      BY <1>13 DEF RefuseAnswer, RecordAnswer, Replies, takeServer
    <2>2. UNCHANGED <<place, cache>>
      BY <1>13 DEF RefuseAnswer, RecordAnswer, takeQueries
    <2>3. OneRequest' /\ RequestsFit' /\ SheetShown' /\ pg'.submitted = pg.submitted
      BY <1>2, <2>1, SettledRecorded
    <2> QED
      BY <1>2, <2>2, <2>3 DEF GradedShown
  <1>14. CASE Graded
    <2>1. UNCHANGED <<place, cache, pg, requests>>
      BY <1>14 DEF Graded
    <2>2. CASE Complete
      <3>1. apart' = apart /\ \A i \in Item : sheet[i] # Nil => sheet'[i] = sheet[i]
        BY <2>2 DEF Complete, Filled
      <3> QED
        BY <1>2, <2>1, <3>1 DEF OneRequest, RequestsFit, SheetShown, GradedShown, InFlight
    <2>3. CASE Batch
      <3>1. apart' = NotOf(finish.paper) /\ sheet' = Filled(finish.paper)
        BY <2>3 DEF Batch
      <3>2. \A r \in requests : r.item \in Item /\ InFlight(r.item)
        BY DEF TakeShape, Request, InFlight
      <3>3. \A r \in requests : r.item \in apart'
        BY <3>1, <3>2 DEF NotOf
      <3>4. \A i \in Item : i \notin apart' => pg.submitted[i] = finish.paper[i]
        BY <3>1 DEF NotOf
      <3>5. SheetShown'
        BY <2>1, <3>1, <3>4 DEF SheetShown, Filled
      <3> QED
        BY <1>2, <2>1, <3>3, <3>5 DEF OneRequest, RequestsFit, GradedShown
    <2> QED
      BY <1>14, <2>2, <2>3 DEF Graded
  <1> QED
    BY <1>3, <1>4, <1>5, <1>6, <1>7, <1>8, <1>9, <1>10, <1>11, <1>12, <1>13, <1>14 DEF TakeNext

-----------------------------------------------------------------------------
\* The items that were answered: recorded, on their way or apart.
DoneItems == {i \in Item : sheet[i] # Nil \/ InFlight(i) \/ i \in apart}

\* A page has passed only over items of D.
PassedOver(p, D) ==
    /\ \A i \in Item : i < p.at \/ i < p.furthest \/ i < p.slide.to => i \in D
    /\ p.isSubmitted => p.at \in D
    /\ p.slide.answer = Given => p.slide.to \in D

\* Items are answered in their order.
InOrder == \A j \in Item : sheet[j] # Nil \/ InFlight(j) => \A i \in Item : i < j => i \in DoneItems

\* Logs that were read hold no answer that the server lacks.
LogsBehind == \A i \in Item : cache.logs[i] # Nil \/ fetch.read[i] # Nil => sheet[i] # Nil

\* A quiz that is over, or was, has an answer or a skip for every item.
OverIsFull == status = "graded" \/ cache.session = "graded" => \A i \in Item : sheet[i] # Nil

Passed == mode = "normal" => PassedOver(pg, DoneItems) /\ InOrder /\ LogsBehind /\ OverIsFull

LEMMA DoneStays ==
  ASSUME TakeShape, TakeNext, mode = "normal"
  PROVE  DoneItems \subseteq DoneItems' /\ \A i \in Item : sheet[i] # Nil => sheet'[i] # Nil
  <1>1. sheet \in Sheet /\ Skipped # Nil /\ Given # Nil
    BY DEF TakeShape, Skipped, Given, Nil
  <1>2. ASSUME sheet' = sheet, apart \subseteq apart', \A i \in Item : InFlight(i) => InFlight(i)'
        PROVE  DoneItems \subseteq DoneItems' /\ \A i \in Item : sheet[i] # Nil => sheet'[i] # Nil
    BY <1>2 DEF DoneItems
  <1>3. CASE OpenTake \/ ShowSession \/ FailSession \/ ReadLogs \/ ShowLogs \/ ExamLocalSave
             \/ NextItem \/ PrevItem \/ Slide \/ ToggleAi \/ ViewResults \/ GradingRefused
             \/ OpenResults \/ LoadResults
    <2>1. requests' = requests
      BY <1>3 DEF OpenTake, ShowSession, FailSession, ReadLogs, ShowLogs, ExamLocalSave, NextItem, PrevItem,
         Go, Slide, ToggleAi, ViewResults, GradingRefused, OpenResults, LoadResults
    <2>2. sheet' = sheet /\ apart \subseteq apart'
      BY <1>3 DEF OpenTake, ShowSession, FailSession, ReadLogs, ShowLogs, ExamLocalSave, NextItem, PrevItem,
         Go, Slide, ToggleAi, ViewResults, GradingRefused, OpenResults, LoadResults, takeServer
    <2> QED
      BY <1>2, <2>1, <2>2 DEF InFlight
  <1>4. CASE LeaveTake \/ Reload \/ ShowResults
    <2>1. requests' = Orphaned /\ sheet' = sheet /\ apart' = apart
      BY <1>4 DEF LeaveTake, Reload, ShowResults, takeServer
    <2>2. \A r \in requests : \E q \in Orphaned : q.item = r.item
      <3> TAKE r \in requests
      <3>1. [r EXCEPT !.mine = FALSE].item = r.item /\ [r EXCEPT !.mine = FALSE] \in Orphaned
        BY DEF TakeShape, Request, Orphaned
      <3> QED
        BY <3>1
    <2> QED
      BY <1>2, <2>1, <2>2 DEF InFlight
  <1>5. CASE AnswerGrade \/ Skip
    <2>1. sheet' = sheet /\ apart \subseteq apart' /\ requests \subseteq requests'
      BY <1>5 DEF AnswerGrade, Skip, SendUnlessOff, Send, takeServer
    <2> QED
      BY <1>2, <2>1 DEF InFlight
  <1>6. ASSUME NEW r \in requests, CheckAnswer(r)
        PROVE  DoneItems \subseteq DoneItems' /\ \A i \in Item : sheet[i] # Nil => sheet'[i] # Nil
    <2> DEFINE n == [r EXCEPT !.at = "grading", !.starts = (status = "ready")]
    <2>1. n.item = r.item /\ requests' = (requests \ {r}) \cup {n} /\ sheet' = sheet /\ apart' = apart
      BY <1>6 DEF CheckAnswer, TakeShape, Request, takeServer
    <2> HIDE DEF n
    <2> QED
      BY <1>2, <2>1 DEF InFlight
  <1>7. ASSUME NEW r \in requests, RefuseAnswer(r) \/ RecordAnswer(r)
        PROVE  DoneItems \subseteq DoneItems' /\ \A i \in Item : sheet[i] # Nil => sheet'[i] # Nil
    <2>1. requests' = requests \ {r} /\ apart \subseteq apart' /\ r.item \in Item /\ r.answer # Nil
      BY <1>1, <1>7 DEF RefuseAnswer, RecordAnswer, Settled, TakeShape, Request
    <2>2. \A i \in Item : InFlight(i) => i = r.item \/ InFlight(i)'
      BY <2>1 DEF InFlight
    <2>3. CASE RefuseAnswer(r)
      <3>1. r.item \in apart' /\ sheet' = sheet
        BY <2>3 DEF RefuseAnswer, Settled, takeServer
      <3> QED
        BY <2>1, <2>2, <3>1 DEF DoneItems
    <2>4. CASE RecordAnswer(r)
      <3>1. sheet' = [sheet EXCEPT ![r.item] = r.answer]
        BY <2>4 DEF RecordAnswer
      <3>2. \A i \in Item : sheet'[i] = IF i = r.item THEN r.answer ELSE sheet[i]
        BY <1>1, <3>1 DEF Sheet
      <3> QED
        BY <2>1, <2>2, <3>2 DEF DoneItems
    <2> QED
      BY <1>7, <2>3, <2>4
  <1>8. CASE Graded
    <2>1. (sheet' = sheet /\ apart' = apart) \/ \A i \in Item : sheet'[i] # Nil
      BY <1>1, <1>8 DEF Graded, Complete, Batch, Filled
    <2>2. requests' = requests
      BY <1>8 DEF Graded
    <2> QED
      BY <1>2, <2>1, <2>2 DEF DoneItems, InFlight
  <1> QED
    BY <1>3, <1>4, <1>5, <1>6, <1>7, <1>8 DEF TakeNext

\* If fewer answers than items before i were counted, one of them was skipped over: if the
\* page resumes after an item without an answer then a later item has one.
LEMMA ResumedPast ==
  ASSUME NEW logs \in Sheet, NEW i \in Item,
         i < ResumeAt(Cardinality(Answered(logs))), logs[i] = Nil
  PROVE  \E j \in Item : i < j /\ logs[j] # Nil
  <1> SUFFICES ASSUME \A j \in Item : i < j => logs[j] = Nil PROVE FALSE
    OBVIOUS
  <1>1. i \in Int /\ i >= 1 /\ i - 1 \in Int /\ 1 \in Int /\ \A j \in Item : j \in Int /\ j >= 1
    BY ItemFacts
  <1>2. Answered(logs) \subseteq 1..(i - 1)
    <2> SUFFICES ASSUME NEW j \in Item, logs[j] # Nil PROVE j \in 1..(i - 1)
      BY DEF Answered
    <2>1. ~(i < j) /\ j # i /\ j \in Int /\ j >= 1
      BY <1>1
    <2> QED
      BY <1>1, <2>1
  <1>3. IsFiniteSet(1..(i - 1)) /\ Cardinality(1..(i - 1)) = i - 1
    BY <1>1, FS_Interval
  <1>4. Cardinality(Answered(logs)) <= i - 1 /\ Cardinality(Answered(logs)) \in Nat
    BY <1>2, <1>3, FS_Subset, FS_CardinalityType
  <1> QED
    BY <1>1, <1>4, TakeAssumption DEF ResumeAt, Lower

LEMMA RestoredPassed ==
  ASSUME TakeShape, InOrder, NEW p \in Page, PassedOver(p, DoneItems), NEW logs \in Sheet,
         \A i \in Item : logs[i] # Nil => sheet[i] # Nil
  PROVE  /\ PassedOver(RestoreStarted(p, logs), DoneItems)
         /\ DoneItems = Item => PassedOver(RestoreCompleted(p, logs), DoneItems)
  <1> DEFINE next == ResumeAt(Cardinality(Answered(logs)))
             s == RestoreStarted(p, logs)
             c == RestoreCompleted(p, logs)
  <1>0. s \in Page /\ c \in Page
    BY RestoreType DEF TakeShape, Sheet, Answer
  <1>1. s.at = next /\ s.furthest = next /\ s.slide = p.slide /\ (s.isSubmitted => logs[next] = Given)
    BY RestoredFields
  <1>2. c.at = p.at /\ c.furthest = N /\ c.slide = p.slide
    BY RestoredFields
  <1>3. ASSUME NEW i \in Item, i < next PROVE i \in DoneItems
    <2>1. CASE logs[i] # Nil
      BY <2>1 DEF DoneItems
    <2>2. CASE logs[i] = Nil
      <3>1. PICK j \in Item : i < j /\ logs[j] # Nil
        BY <1>3, <2>2, ResumedPast
      <3> QED
        BY <3>1 DEF InOrder
    <2> QED
      BY <2>1, <2>2
  <1>4. s.isSubmitted => next \in DoneItems
    <2>1. next \in Item
      BY <1>0, <1>1 DEF Page
    <2> QED
      BY <1>1, <2>1 DEF DoneItems, Given, Nil
  <1> HIDE DEF next, s, c
  <1>5. PassedOver(s, DoneItems)
    BY <1>1, <1>3, <1>4 DEF PassedOver
  <1>6. DoneItems = Item => PassedOver(c, DoneItems)
    BY <1>0, <1>2 DEF PassedOver, Page
  <1> QED
    BY <1>5, <1>6 DEF s, c

LEMMA OrderKept ==
  ASSUME TakeShape, Passed, TakeNext, mode = "normal"
  PROVE  InOrder' /\ LogsBehind' /\ OverIsFull'
  <1>1. /\ sheet \in Sheet /\ pg \in Page /\ pg.at \in Item /\ cache \in Cache /\ fetch \in Fetch
        /\ cache.logs \in Sheet /\ fetch.read \in Sheet /\ "exam" # "normal" /\ "graded" # "in_progress"
        /\ Blank \in Sheet /\ \A i \in Item : Blank[i] = Nil
    BY BlankType DEF TakeShape, Cache, Fetch, Page, Blank
  <1>2. PassedOver(pg, DoneItems) /\ InOrder /\ LogsBehind /\ OverIsFull
    BY DEF Passed
  <1>3. DoneItems \subseteq DoneItems' /\ \A i \in Item : sheet[i] # Nil => sheet'[i] # Nil
    BY DoneStays
  <1>4. InOrder'
    <2>1. \/ \A i \in Item : sheet'[i] # Nil
          \/ \A j \in Item : sheet'[j] # Nil \/ InFlight(j)' => sheet[j] # Nil \/ InFlight(j) \/ j = pg.at
      <3>1. CASE OpenTake \/ ShowSession \/ FailSession \/ ReadLogs \/ ShowLogs \/ ExamLocalSave
                 \/ NextItem \/ PrevItem \/ Slide \/ ToggleAi \/ ViewResults \/ GradingRefused
                 \/ OpenResults \/ LoadResults
        <4>1. requests' = requests /\ sheet' = sheet
          BY <3>1 DEF OpenTake, ShowSession, FailSession, ReadLogs, ShowLogs, ExamLocalSave, NextItem, PrevItem,
             Go, Slide, ToggleAi, ViewResults, GradingRefused, OpenResults, LoadResults, takeServer
        <4> QED
          BY <4>1 DEF InFlight
      <3>2. CASE LeaveTake \/ Reload \/ ShowResults
        <4>1. requests' = Orphaned /\ sheet' = sheet
          BY <3>2 DEF LeaveTake, Reload, ShowResults, takeServer
        <4>2. \A q \in Orphaned : \E r \in requests : q.item = r.item
          BY DEF Orphaned, TakeShape, Request
        <4> QED
          BY <4>1, <4>2 DEF InFlight
      <3>3. CASE AnswerGrade \/ Skip
        <4>1. sheet' = sheet /\ \A r \in requests' : r \in requests \/ r.item = pg.at
          BY <1>1, <3>3 DEF AnswerGrade, Skip, SendUnlessOff, Send, takeServer
        <4> QED
          BY <4>1 DEF InFlight
      <3>4. ASSUME NEW r \in requests, CheckAnswer(r)
            PROVE  \A j \in Item : sheet'[j] # Nil \/ InFlight(j)' => sheet[j] # Nil \/ InFlight(j) \/ j = pg.at
        <4> DEFINE n == [r EXCEPT !.at = "grading", !.starts = (status = "ready")]
        <4>1. n.item = r.item /\ requests' = (requests \ {r}) \cup {n} /\ sheet' = sheet
          BY <3>4 DEF CheckAnswer, TakeShape, Request, takeServer
        <4> HIDE DEF n
        <4> QED
          BY <4>1 DEF InFlight
      <3>5. ASSUME NEW r \in requests, RefuseAnswer(r) \/ RecordAnswer(r)
            PROVE  \A j \in Item : sheet'[j] # Nil \/ InFlight(j)' => sheet[j] # Nil \/ InFlight(j) \/ j = pg.at
        <4>1. requests' \subseteq requests /\ r.item \in Item
          BY <3>5 DEF RefuseAnswer, RecordAnswer, Settled, TakeShape, Request
        <4>2. \A j \in Item : sheet'[j] # sheet[j] => j = r.item
          BY <1>1, <3>5 DEF RefuseAnswer, RecordAnswer, Sheet, takeServer
        <4> QED
          BY <4>1, <4>2 DEF InFlight
      <3>6. CASE Graded
        <4>1. sheet' = sheet \/ \A i \in Item : sheet'[i] # Nil
          BY <1>1, <3>6 DEF Graded, Complete, Batch, Filled, Skipped, Nil
        <4>2. requests' = requests
          BY <3>6 DEF Graded
        <4> QED
          BY <4>1, <4>2 DEF InFlight
      <3> QED
        BY <3>1, <3>2, <3>3, <3>4, <3>5, <3>6 DEF TakeNext
    <2>2. CASE \A i \in Item : sheet'[i] # Nil
      BY <2>2 DEF InOrder, DoneItems
    <2>3. CASE \A j \in Item : sheet'[j] # Nil \/ InFlight(j)' => sheet[j] # Nil \/ InFlight(j) \/ j = pg.at
      <3>1. \A i \in Item : i < pg.at => i \in DoneItems
        BY <1>2 DEF PassedOver
      <3> QED
        BY <1>2, <1>3, <2>3, <3>1 DEF InOrder
    <2> QED
      BY <2>1, <2>2, <2>3
  <1>5. LogsBehind'
    <2>1. /\ cache'.logs \in {Blank, cache.logs, fetch.read}
          /\ fetch'.read \in {Blank, fetch.read, sheet}
      <3>1. CASE OpenTake \/ LeaveTake \/ Reload \/ ShowResults \/ OpenResults \/ Graded \/ GradingRefused
        BY <3>1 DEF OpenTake, LeaveTake, Reload, ShowResults, OpenResults, Graded, GradingRefused, Asked,
           NoFetch, NoCache, takeQueries
      <3>5. CASE LoadResults \/ FailSession \/ ReadLogs
        BY <1>1, <3>5 DEF LoadResults, FailSession, ReadLogs, Cache, Fetch
      <3>2. CASE ShowSession
        BY <1>1, <3>2 DEF ShowSession, Cache, Fetch
      <3>3. CASE ShowLogs
        BY <1>1, <3>3 DEF ShowLogs, Cache, Fetch
      <3>4. CASE ExamLocalSave \/ AnswerGrade \/ Skip \/ NextItem \/ PrevItem \/ Slide \/ ToggleAi \/ ViewResults
                 \/ \E r \in requests : CheckAnswer(r) \/ RefuseAnswer(r) \/ RecordAnswer(r)
        BY <3>4 DEF ExamLocalSave, AnswerGrade, Skip, NextItem, PrevItem, Go, Slide, ToggleAi, ViewResults,
           CheckAnswer, RefuseAnswer, RecordAnswer, takeQueries
      <3> QED
        BY <3>1, <3>2, <3>3, <3>4, <3>5 DEF TakeNext
    <2> QED
      BY <1>1, <1>2, <1>3, <2>1 DEF LogsBehind
  <1>6. OverIsFull'
    <2>1. \/ status' = "graded" \/ cache'.session = "graded" => status = "graded" \/ cache.session = "graded"
          \/ \A i \in Item : sheet'[i] # Nil
      <3>1. CASE OpenTake \/ LeaveTake \/ Reload \/ ShowResults \/ FailSession \/ ReadLogs
                 \/ OpenResults \/ GradingRefused
        BY <1>1, <3>1 DEF OpenTake, LeaveTake, Reload, ShowResults, FailSession, ReadLogs,
           OpenResults, GradingRefused, NoCache, Nil, takeServer, takeQueries
      <3>2. CASE ShowSession \/ ShowLogs
        BY <1>1, <3>2 DEF ShowSession, ShowLogs, Cache, takeServer
      <3>3. CASE ExamLocalSave \/ AnswerGrade \/ Skip \/ NextItem \/ PrevItem \/ Slide \/ ToggleAi \/ ViewResults
                 \/ \E r \in requests : CheckAnswer(r) \/ RefuseAnswer(r) \/ RecordAnswer(r)
        BY <1>1, <3>3 DEF ExamLocalSave, AnswerGrade, Skip, NextItem, PrevItem, Go, Slide, ToggleAi, ViewResults,
           CheckAnswer, RefuseAnswer, RecordAnswer, takeServer, takeQueries
      <3>4. CASE Graded
        <4>1. \/ \A i \in Item : sheet'[i] # Nil
              \/ status = "graded"
          BY <1>1, <3>4 DEF Graded, Complete, Batch, Filled, Skipped, Nil
        <4> QED
          BY <4>1
      <3>5. CASE LoadResults
        <4>1. sheet' = sheet /\ cache'.session = status' /\ (status' = status \/ Answered(sheet) = Item)
          BY <1>1, <3>5 DEF LoadResults, ShouldFinalize, Cache
        <4> QED
          BY <4>1 DEF Answered
      <3> QED
        BY <3>1, <3>2, <3>3, <3>4, <3>5 DEF TakeNext
    <2> QED
      BY <1>2, <1>3, <2>1 DEF OverIsFull
  <1> QED
    BY <1>4, <1>5, <1>6

LEMMA PageKept ==
  ASSUME TakeShape, Unopened, Recorded, Passed, TakeNext, mode = "normal"
  PROVE  PassedOver(pg', DoneItems')
  <1>1. /\ sheet \in Sheet /\ pg \in Page /\ pg.at \in Item /\ cache \in Cache /\ "exam" # "normal"
        /\ cache.logs \in Sheet /\ fetch.read \in Sheet /\ FreshTake \in Page /\ NoCache \in Cache
        /\ Given \in Answer /\ Skipped \in Answer /\ Given # Nil
    BY BlankType DEF TakeShape, Cache, Fetch, Page, Answer, Given, Nil
  <1>2. PassedOver(pg, DoneItems) /\ InOrder /\ LogsBehind /\ OverIsFull /\ SheetShown
    BY DEF Passed, Recorded
  <1>3. DoneItems \subseteq DoneItems'
    BY DoneStays
  <1>4. PassedOver(FreshTake, DoneItems)
    BY ItemFacts DEF PassedOver, FreshTake, NoSlide, Nil, Given
  <1>5. ASSUME NEW p \in Page, PassedOver(p, DoneItems) PROVE PassedOver(p, DoneItems')
    BY <1>3, <1>5 DEF PassedOver
  <1>6. status = "graded" \/ cache.session = "graded" => DoneItems = Item
    BY <1>2 DEF OverIsFull, DoneItems
  <1>7. ASSUME NEW p \in Page, PassedOver(p, DoneItems), NEW c \in Cache, NEW d \in Cache,
               \A i \in Item : d.logs[i] # Nil => sheet[i] # Nil,
               d.session = "graded" => DoneItems = Item
        PROVE  PassedOver(Effects(p, c, d), DoneItems)
    <2>1. /\ PassedOver(RestoreStarted(p, d.logs), DoneItems)
          /\ d.session = "graded" => PassedOver(RestoreCompleted(p, d.logs), DoneItems)
      BY <1>2, <1>7, RestoredPassed DEF Cache
    <2> QED
      BY <1>1, <1>7, <2>1 DEF Effects
  <1>8. pg' \in Page
    BY TakeShapeNext DEF TakeShape
  <1>9. CASE OpenTake
    <2>1. pg' = FreshTake \/ pg' = Effects(FreshTake, NoCache, cache)
      BY <1>9 DEF OpenTake
    <2> QED
      BY <1>1, <1>2, <1>4, <1>5, <1>6, <1>7, <1>8, <2>1 DEF LogsBehind
  <1>10. CASE LeaveTake \/ Reload \/ ShowResults
    BY <1>1, <1>4, <1>5, <1>10 DEF LeaveTake, Reload, ShowResults
  <1>11. CASE ShowSession \/ ShowLogs
    <2> DEFINE d == cache'
    <2>1. /\ d \in Cache /\ pg' = Effects(pg, cache, d)
          /\ d.logs \in {cache.logs, fetch.read} /\ d.session \in {status, cache.session}
      BY <1>1, <1>11, ZenonT(30) DEF ShowSession, ShowLogs, Cache, TakeShape
    <2> HIDE DEF d
    <2>2. /\ \A i \in Item : d.logs[i] # Nil => sheet[i] # Nil
          /\ d.session = "graded" => DoneItems = Item
      BY <1>2, <1>6, <2>1 DEF LogsBehind
    <2>3. PassedOver(Effects(pg, cache, d), DoneItems)
      BY <1>1, <1>2, <1>7, <2>1, <2>2
    <2> QED
      BY <1>5, <1>8, <2>1, <2>3
  <1>12. CASE AnswerGrade \/ Skip
    <2>1. pg.at \in DoneItems'
      <3>1. PICK x : SendUnlessOff(pg.at, x)
        BY <1>1, <1>12 DEF AnswerGrade, Skip
      <3>2. CASE pg.aiOff
        BY <1>1, <3>1, <3>2 DEF SendUnlessOff, DoneItems
      <3>3. CASE ~pg.aiOff
        <4> DEFINE n == [item |-> pg.at, answer |-> x, at |-> "sent", starts |-> FALSE, mine |-> TRUE]
        <4>1. n \in requests' /\ n.item = pg.at
          BY <3>1, <3>3 DEF SendUnlessOff, Send
        <4> QED
          BY <1>1, <4>1 DEF DoneItems, InFlight
      <3> QED
        BY <3>2, <3>3
    <2>2. PICK a \in {Given, Skipped} : (\E v : pg' = [Keep(pg, a) EXCEPT !.grading = v]) \/ pg' = Keep(pg, a)
      BY <1>1, <1>12 DEF AnswerGrade, Skip
    <2>3. Keep(pg, a) \in Page /\ a \in Answer
      BY <1>1, HandlerType
    <2>4. pg'.at = Keep(pg, a).at /\ pg'.slide = Keep(pg, a).slide /\ pg'.furthest = Keep(pg, a).furthest
      BY <2>2, <2>3 DEF Page
    <2>5. /\ pg'.at = pg.at /\ pg'.slide = pg.slide
          /\ \A i \in Item : i < pg'.furthest => i < pg.furthest \/ i < pg.at \/ i = pg.at
      BY <1>1, <2>3, <2>4, KeepFields
    <2> QED
      BY <1>2, <1>3, <2>1, <2>5 DEF PassedOver
  <1>13. CASE NextItem \/ PrevItem
    <2>1. PICK i \in Item : pg' = SlideTo(pg, i) /\ \A j \in Item : j < i => j \in DoneItems
      <3>1. CASE NextItem
        <4>1. pg.at < N /\ pg' = SlideTo(pg, pg.at + 1)
          BY <1>1, <3>1, ItemFacts DEF NextItem, CanNext, Go, Page
        <4>2. pg.at + 1 \in Item /\ \A j \in Item : j < pg.at + 1 => j < pg.at \/ j = pg.at
          BY <1>1, <4>1, ItemFacts
        <4>3. pg.at \in DoneItems
          BY <1>1, <1>2, <1>6, <3>1 DEF NextItem, CanNext, Completed, PassedOver
        <4> QED
          BY <1>2, <4>1, <4>2, <4>3 DEF PassedOver
      <3>2. CASE PrevItem
        <4>1. pg.at - 1 \in Item /\ pg' = SlideTo(pg, pg.at - 1)
          BY <1>1, <3>2, ItemFacts DEF PrevItem, Go
        <4>2. \A j \in Item : j < pg.at - 1 => j < pg.at
          BY <1>1, ItemFacts
        <4> QED
          BY <1>2, <4>1, <4>2 DEF PassedOver
      <3> QED
        BY <1>13, <3>1, <3>2
    <2>2. /\ pg'.at = pg.at /\ pg'.isSubmitted = pg.isSubmitted /\ pg'.furthest = pg.furthest
          /\ pg'.slide.to = i /\ pg'.slide.answer = pg.submitted[i]
      BY <1>1, <2>1, SlideFields
    <2>3. pg.submitted[i] = Given => i \in DoneItems
      BY <1>1, <1>2 DEF SheetShown, DoneItems
    <2>4. PassedOver(pg', DoneItems)
      BY <1>2, <2>1, <2>2, <2>3 DEF PassedOver
    <2> QED
      BY <1>5, <1>8, <2>4
  <1>14. CASE Slide \/ ToggleAi
    <2>1. CASE Slide
      <3>1. /\ pg'.at = pg.slide.to /\ pg'.slide = NoSlide /\ pg'.furthest = pg.furthest
            /\ pg'.isSubmitted => pg.slide.answer = Given
        BY <1>1, <2>1 DEF Slide, Page
      <3>2. NoSlide.to = 0 /\ NoSlide.answer # Given /\ \A i \in Item : ~(i < 0)
        BY ItemFacts DEF NoSlide, Nil, Given
      <3>3. PassedOver(pg', DoneItems)
        BY <1>2, <3>1, <3>2 DEF PassedOver
      <3> QED
        BY <1>5, <1>8, <3>3
    <2>2. CASE ToggleAi
      <3>1. pg'.at = pg.at /\ pg'.slide = pg.slide /\ pg'.furthest = pg.furthest /\ pg'.isSubmitted = pg.isSubmitted
        BY <1>1, <2>2 DEF ToggleAi, Page
      <3> QED
        BY <1>2, <1>3, <3>1 DEF PassedOver
    <2> QED
      BY <1>14, <2>1, <2>2
  <1>15. ASSUME NEW r \in requests, RefuseAnswer(r) \/ RecordAnswer(r) PROVE PassedOver(pg', DoneItems')
    <2>1. r.item \in Item /\ pg' \in {pg, Judged(Ungrade(pg, r.item), r.item), Ungrade(pg, r.item)}
      BY <1>15 DEF RefuseAnswer, RecordAnswer, Settled, TakeShape, Request
    <2>2. pg'.at = pg.at /\ pg'.slide = pg.slide /\ pg'.furthest = pg.furthest /\ pg'.isSubmitted = pg.isSubmitted
      BY <1>1, <2>1, SettleFields
    <2> QED
      BY <1>2, <1>3, <2>2 DEF PassedOver
  <1>16. CASE \/ FailSession \/ ReadLogs \/ ViewResults \/ Graded \/ GradingRefused \/ OpenResults \/ LoadResults
             \/ \E r \in requests : CheckAnswer(r)
    <2>1. pg' = pg
      BY <1>16 DEF FailSession, ReadLogs, ViewResults, Graded, GradingRefused, OpenResults, LoadResults, CheckAnswer
    <2> QED
      BY <1>1, <1>2, <1>5, <2>1
  <1>17. CASE ExamLocalSave
    BY <1>1, <1>17 DEF ExamLocalSave
  <1> QED
    BY <1>9, <1>10, <1>11, <1>12, <1>13, <1>14, <1>15, <1>16, <1>17 DEF TakeNext

-----------------------------------------------------------------------------
\* A result of another item than the one on the screen is that of a quiz that is over.
ShownFits == pg.shown \notin {0, pg.at} => cache.has /\ cache.session = "graded"

\* The page waits for a grade only while the request of that item may still be answered.
GradingHasRequest == pg.grading # 0 => \E r \in requests : r.item = pg.grading /\ r.mine

LEMMA EffectsShown ==
  ASSUME NEW p \in Page, NEW c \in Cache, NEW d \in Cache, store \in Sheet, others \in Nat
  PROVE  /\ \/ Effects(p, c, d).shown \in {0, Effects(p, c, d).at}
            \/ d.has /\ d.session = "graded"
            \/ /\ Effects(p, c, d).shown = p.shown /\ Effects(p, c, d).at = p.at
               /\ d.has /\ c.has => (d.session = "graded" <=> c.session = "graded")
         /\ Effects(p, c, d).grading = p.grading
  <1> DEFINE turned == d.has /\ (~c.has \/ d.logs # c.logs \/ (d.session = "graded") # (c.session = "graded"))
             q == IF turned
                  THEN IF d.session = "graded" THEN RestoreCompleted(p, d.logs) ELSE RestoreStarted(p, d.logs)
                  ELSE p
  <1>1. d.logs \in Sheet
    BY DEF Cache
  <1>2. q \in Page
    BY <1>1, RestoreType
  <1>3. /\ RestoreCompleted(p, d.logs).grading = p.grading
        /\ RestoreStarted(p, d.logs).grading = p.grading
        /\ RestoreStarted(p, d.logs).shown \in {0, RestoreStarted(p, d.logs).at}
    BY <1>1, RestoredFields
  <1>4. /\ q.grading = p.grading
        /\ q.shown \in {0, q.at} \/ (d.has /\ d.session = "graded") \/ (q = p /\ ~turned)
    BY <1>3
  <1>5. ~turned => (d.has /\ c.has => (d.session = "graded" <=> c.session = "graded"))
    OBVIOUS
  <1>6. Effects(p, c, d) \in {q, RestoreExam(q)}
    BY DEF Effects
  <1> HIDE DEF q, turned
  <1>7. RestoreExam(q).grading = q.grading /\ RestoreExam(q).shown \in {0, q.shown}
        /\ (RestoreExam(q).shown # 0 => RestoreExam(q).at = q.at)
    BY <1>2, RestoredExamFields
  <1>8. Effects(p, c, d).grading = p.grading
    BY <1>4, <1>6, <1>7
  <1>9. Effects(p, c, d).shown = 0 \/ (Effects(p, c, d).shown = q.shown /\ Effects(p, c, d).at = q.at)
    BY <1>6, <1>7
  <1> QED
    BY <1>4, <1>5, <1>8, <1>9

LEMMA ShownKept ==
  TakeShape /\ Unopened /\ ShownFits /\ TakeNext => ShownFits'
  <1> SUFFICES ASSUME TakeShape, Unopened, ShownFits, TakeNext PROVE ShownFits'
    OBVIOUS
  <1>1. /\ pg \in Page /\ pg.at \in Item /\ cache \in Cache /\ store \in Sheet /\ others \in Nat
        /\ FreshTake \in Page /\ FreshTake.shown = 0 /\ NoCache \in Cache /\ NoCache.has = FALSE
        /\ Given \in Answer /\ Skipped \in Answer
    BY BlankType DEF TakeShape, Cache, Page, Sheet, Answer, FreshTake, NoCache
  <1>2. CASE OpenTake
    <2>1. pg' = FreshTake \/ pg' = Effects(FreshTake, NoCache, cache)
      BY <1>2 DEF OpenTake
    <2>2. /\ \/ Effects(FreshTake, NoCache, cache).shown \in {0, Effects(FreshTake, NoCache, cache).at}
             \/ cache.has /\ cache.session = "graded"
             \/ Effects(FreshTake, NoCache, cache).shown = FreshTake.shown
      BY <1>1, EffectsShown
    <2> QED
      BY <1>1, <1>2, <2>1, <2>2 DEF OpenTake, ShownFits
  <1>3. CASE LeaveTake \/ Reload \/ ShowResults
    BY <1>1, <1>3 DEF LeaveTake, Reload, ShowResults, ShownFits
  <1>4. CASE ShowSession
    <2> DEFINE d == cache'
    <2>1. d \in Cache /\ pg' = Effects(pg, cache, d) /\ d.has = cache.has
      BY <1>1, <1>4 DEF ShowSession, Cache, TakeShape
    <2> HIDE DEF d
    <2>2. \/ pg'.shown \in {0, pg'.at}
          \/ d.has /\ d.session = "graded"
          \/ /\ pg'.shown = pg.shown /\ pg'.at = pg.at
             /\ d.has /\ cache.has => (d.session = "graded" <=> cache.session = "graded")
      BY <1>1, <2>1, EffectsShown
    <2> QED
      BY <2>1, <2>2 DEF ShownFits, d
  <1>5. CASE ShowLogs
    <2> DEFINE d == cache'
    <2>1. d \in Cache /\ pg' = Effects(pg, cache, d) /\ d.has /\ d.session = cache.session
      BY <1>1, <1>5 DEF ShowLogs, Cache, Fetch, TakeShape
    <2> HIDE DEF d
    <2>2. \/ pg'.shown \in {0, pg'.at}
          \/ d.has /\ d.session = "graded"
          \/ pg'.shown = pg.shown /\ pg'.at = pg.at
      BY <1>1, <2>1, EffectsShown
    <2> QED
      BY <2>1, <2>2 DEF ShownFits, d
  <1>6. CASE AnswerGrade \/ (Skip /\ mode = "normal")
    <2>1. PICK a \in {Given, Skipped} : (\E v : pg' = [Keep(pg, a) EXCEPT !.grading = v]) \/ pg' = Keep(pg, a)
      BY <1>1, <1>6 DEF AnswerGrade, Skip
    <2>2. Keep(pg, a) \in Page /\ a \in Answer
      BY <1>1, HandlerType
    <2>3. pg'.at = Keep(pg, a).at /\ pg'.shown = Keep(pg, a).shown
      BY <2>1, <2>2 DEF Page
    <2>4. Keep(pg, a).at = pg.at /\ Keep(pg, a).shown = pg.at
      BY <1>1, <2>2, KeepFields
    <2> QED
      BY <2>3, <2>4 DEF ShownFits
  <1>7. CASE ExamLocalSave
    <2>1. pg'.shown = pg.shown /\ pg'.at = pg.at /\ cache' = cache
      BY <1>1, <1>7, SaveFields DEF ExamLocalSave, takeQueries
    <2> QED
      BY <2>1 DEF ShownFits
  <1>8. CASE (Skip /\ mode # "normal") \/ NextItem \/ PrevItem
    <2>1. PICK i : i \in Item /\ (pg' = SlideTo(pg, i) \/ \E v : pg' = [SlideTo(pg, i) EXCEPT !.furthest = v])
      <3>1. CASE Skip /\ mode # "normal"
        <4>1. pg.at + 1 \in Item
          BY <1>1, <3>1, ItemFacts DEF Skip, CanSkip
        <4> QED
          BY <3>1, <4>1 DEF Skip
      <3>2. CASE NextItem \/ PrevItem
        BY <1>1, <3>2, ItemFacts DEF NextItem, CanNext, PrevItem, Go, Page
      <3> QED
        BY <1>8, <3>1, <3>2
    <2>2. SlideTo(pg, i) \in Page /\ SlideTo(pg, i).shown = pg.shown /\ SlideTo(pg, i).at = pg.at
      BY <1>1, <2>1, HandlerType, SlideFields
    <2>3. pg'.shown = pg.shown /\ pg'.at = pg.at
      BY <2>1, <2>2 DEF Page
    <2>4. cache' = cache
      BY <1>8 DEF Skip, NextItem, PrevItem, Go, takeQueries
    <2> QED
      BY <2>3, <2>4 DEF ShownFits
  <1>9. CASE Slide
    <2>1. pg'.shown \in {0, pg'.at}
      BY <1>1, <1>9 DEF Slide, Page
    <2> QED
      BY <2>1 DEF ShownFits
  <1>10. CASE ToggleAi
    <2>1. pg'.shown = pg.shown /\ pg'.at = pg.at /\ cache' = cache
      BY <1>1, <1>10 DEF ToggleAi, Page, takeQueries
    <2> QED
      BY <2>1 DEF ShownFits
  <1>11. ASSUME NEW r \in requests, RefuseAnswer(r) \/ RecordAnswer(r) PROVE ShownFits'
    <2>1. r.item \in Item /\ pg' \in {pg, Judged(Ungrade(pg, r.item), r.item), Ungrade(pg, r.item)}
          /\ cache' = cache
      BY <1>11 DEF RefuseAnswer, RecordAnswer, Settled, TakeShape, Request, takeQueries
    <2>2. pg'.at = pg.at /\ pg'.shown \in {pg.shown, pg.at}
      BY <1>1, <2>1, SettleFields
    <2> QED
      BY <2>1, <2>2 DEF ShownFits
  <1>12. CASE \/ FailSession \/ ReadLogs \/ ViewResults \/ Graded \/ GradingRefused \/ OpenResults
              \/ \E r \in requests : CheckAnswer(r)
    <2>1. pg' = pg /\ cache' = cache
      BY <1>12 DEF FailSession, ReadLogs, ViewResults, Graded, GradingRefused, OpenResults, CheckAnswer, takeQueries
    <2> QED
      BY <2>1 DEF ShownFits
  <1>13. CASE LoadResults
    BY <1>1, <1>13 DEF LoadResults, Unopened, ShownFits
  <1> QED
    BY <1>2, <1>3, <1>4, <1>5, <1>6, <1>7, <1>8, <1>9, <1>10, <1>11, <1>12, <1>13 DEF TakeNext

LEMMA GradingKept ==
  TakeShape /\ Unopened /\ GradingHasRequest /\ TakeNext => GradingHasRequest'
  <1> SUFFICES ASSUME TakeShape, Unopened, GradingHasRequest, TakeNext PROVE GradingHasRequest'
    OBVIOUS
  <1>1. /\ pg \in Page /\ pg.at \in Item /\ cache \in Cache /\ store \in Sheet /\ others \in Nat
        /\ FreshTake \in Page /\ FreshTake.grading = 0 /\ NoCache \in Cache
        /\ Given \in Answer /\ Skipped \in Answer
    BY BlankType DEF TakeShape, Cache, Page, Sheet, Answer, FreshTake
  <1>2. CASE OpenTake \/ LeaveTake \/ Reload \/ ShowResults
    <2>1. pg' = FreshTake \/ pg' = Effects(FreshTake, NoCache, cache)
      BY <1>2 DEF OpenTake, LeaveTake, Reload, ShowResults
    <2>2. pg'.grading = 0
      BY <1>1, <2>1, EffectsShown
    <2> QED
      BY <2>2 DEF GradingHasRequest
  <1>3. CASE ShowSession \/ ShowLogs
    <2> DEFINE d == cache'
    <2>1. d \in Cache /\ pg' = Effects(pg, cache, d) /\ requests' = requests
      <3>1. CASE ShowSession
        BY <1>1, <3>1 DEF ShowSession, Cache, TakeShape
      <3>2. CASE ShowLogs
        BY <1>1, <3>2 DEF ShowLogs, Cache, Fetch, TakeShape
      <3> QED
        BY <1>3, <3>1, <3>2
    <2> HIDE DEF d
    <2>2. pg'.grading = pg.grading
      BY <1>1, <2>1, EffectsShown
    <2> QED
      BY <2>1, <2>2 DEF GradingHasRequest
  <1>4. CASE AnswerGrade
    <2>1. PICK v : pg' = [Keep(pg, Given) EXCEPT !.grading = v]
             /\ (v = Keep(pg, Given).grading \/ (v = pg.at /\ ~pg.aiOff))
      BY <1>4 DEF AnswerGrade
    <2>2. Keep(pg, Given) \in Page /\ Keep(pg, Given).grading = pg.grading
      BY <1>1, HandlerType, KeepFields
    <2>3. pg'.grading = v
      BY <2>1, <2>2 DEF Page
    <2>4. requests \subseteq requests'
      BY <1>4 DEF AnswerGrade, SendUnlessOff, Send
    <2>5. CASE v = pg.grading
      BY <2>3, <2>4, <2>5 DEF GradingHasRequest
    <2>6. CASE v = pg.at /\ ~pg.aiOff
      <3> DEFINE n == [item |-> pg.at, answer |-> Given, at |-> "sent", starts |-> FALSE, mine |-> TRUE]
      <3>1. n \in requests' /\ n.item = pg.at /\ n.mine
        BY <1>4, <2>6 DEF AnswerGrade, SendUnlessOff, Send
      <3> HIDE DEF n
      <3> QED
        BY <2>3, <2>6, <3>1 DEF GradingHasRequest
    <2> QED
      BY <2>1, <2>2, <2>5, <2>6
  <1>5. CASE Skip
    <2>1. requests \subseteq requests'
      BY <1>5 DEF Skip, SendUnlessOff, Send
    <2>2. pg.at + 1 \in Item
      BY <1>1, <1>5, ItemFacts DEF Skip, CanSkip
    <2>3. /\ SlideTo(pg, pg.at + 1) \in Page /\ SlideTo(pg, pg.at + 1).grading = pg.grading
          /\ Keep(pg, Skipped).grading = pg.grading
      <3>1. Keep(pg, Skipped).grading = pg.grading
        BY <1>1, KeepFields
      <3>2. SlideTo(pg, pg.at + 1) \in Page
        BY <1>1, <2>2, HandlerType
      <3>3. SlideTo(pg, pg.at + 1).grading = pg.grading
        BY <1>1, <2>2, SlideFields
      <3> QED
        BY <3>1, <3>2, <3>3
    <2>4. pg' = Keep(pg, Skipped) \/ \E v : pg' = [SlideTo(pg, pg.at + 1) EXCEPT !.furthest = v]
      BY <1>5 DEF Skip
    <2>5. pg'.grading = pg.grading
      BY <2>3, <2>4 DEF Page
    <2> QED
      BY <2>1, <2>5 DEF GradingHasRequest
  <1>6. CASE ExamLocalSave \/ NextItem \/ PrevItem \/ Slide \/ ToggleAi
    <2>1. pg'.grading = pg.grading
      <3>1. CASE ExamLocalSave
        BY <1>1, <3>1, SaveFields DEF ExamLocalSave
      <3>2. CASE NextItem \/ PrevItem \/ Slide \/ ToggleAi
        BY <1>1, <3>2 DEF NextItem, PrevItem, Go, SlideTo, Slide, ToggleAi, Page
      <3> QED
        BY <1>6, <3>1, <3>2
    <2>2. requests' = requests
      BY <1>6 DEF ExamLocalSave, NextItem, PrevItem, Go, Slide, ToggleAi
    <2> QED
      BY <2>1, <2>2 DEF GradingHasRequest
  <1>7. ASSUME NEW r \in requests, CheckAnswer(r) PROVE GradingHasRequest'
    <2> DEFINE n == [r EXCEPT !.at = "grading", !.starts = (status = "ready")]
    <2>1. n.item = r.item /\ n.mine = r.mine /\ requests' = (requests \ {r}) \cup {n} /\ pg' = pg
      BY <1>7 DEF CheckAnswer, TakeShape, Request
    <2> HIDE DEF n
    <2> QED
      BY <2>1 DEF GradingHasRequest
  <1>8. ASSUME NEW r \in requests, RefuseAnswer(r) \/ RecordAnswer(r) PROVE GradingHasRequest'
    <2>1. /\ r.item \in Item /\ requests' = requests \ {r}
          /\ IF r.mine THEN pg' \in {Judged(Ungrade(pg, r.item), r.item), Ungrade(pg, r.item)} ELSE pg' = pg
      BY <1>8 DEF RefuseAnswer, RecordAnswer, Settled, TakeShape, Request
    <2>2. r.mine => pg'.grading = IF pg.grading = r.item THEN 0 ELSE pg.grading
      BY <1>1, <2>1, SettleFields
    <2> QED
      BY <2>1, <2>2 DEF GradingHasRequest
  <1>9. CASE \/ FailSession \/ ReadLogs \/ ViewResults \/ Graded \/ GradingRefused \/ OpenResults \/ LoadResults
    <2>1. pg' = pg /\ requests' = requests
      BY <1>9 DEF FailSession, ReadLogs, ViewResults, Graded, GradingRefused, OpenResults, LoadResults
    <2> QED
      BY <2>1 DEF GradingHasRequest
  <1> QED
    BY <1>2, <1>3, <1>4, <1>5, <1>6, <1>7, <1>8, <1>9 DEF TakeNext

-----------------------------------------------------------------------------
\* The part that waits for the questions

Waits == [isStreaming : BOOLEAN, streamFailed : BOOLEAN, tooLong : BOOLEAN, early : BOOLEAN]

Queries == [session : Statuses \cup {"no"}, items : {"no", "0", "some"}]

StreamShape ==
    /\ StreamTypeOK
    /\ seen \in Queries /\ wait \in Waits /\ failed \in BOOLEAN
    /\ {drops, looks} \subseteq Nat

\* The runs that may still write the questions, and those that wrote them.
Working == IF conn = "work" THEN 1 ELSE 0

Runs == Working + loose + queued + running + copies

\* A session is a draft until the first run; a connection has its generator; a quiz that is
\* done, ready or was seen has questions; before the first look nothing happens.
RunsFit ==
    /\ made = "draft" => conn = "no" /\ Runs = 0
    /\ conn # "no" <=> sse = "open"
    /\ conn \in {"send", "end"} \/ seen.items = "some" \/ made = "ready" => copies > 0
    /\ looks = 0 => seen.session = "no" /\ made = "draft" /\ screen # "on"

\* One visit without breaks and failures: there is one run at most, none before the stream
\* is open, and a page that has no stream and wants one has questions to read.
OneRun ==
    drops = 0 /\ looks <= 1 /\ ~failed =>
        /\ Runs <= 1
        /\ sse \in {"token", "connect", "backoff"} => Runs = 0
        /\ screen = "on" /\ sse = "off" /\ ShouldStream(seen, wait) => copies > 0

StreamInv == StreamShape /\ RunsFit /\ OpenIsWanted /\ StreamingHasStream /\ OneRun

LEMMA FiveNats == \A a, b, c, d, e : {a, b, c, d, e} \subseteq Nat <=>
                     a \in Nat /\ b \in Nat /\ c \in Nat /\ d \in Nat /\ e \in Nat
  OBVIOUS

LEMMA StreamInvInit == StreamInit => StreamInv
  <1> SUFFICES ASSUME StreamInit PROVE StreamInv
    OBVIOUS
  <1>1. seen \in Queries /\ seen.session = "no" /\ wait \in Waits /\ wait.isStreaming = FALSE
    BY DEF StreamInit, Queries, Waits, FreshWait
  <1>2. StreamShape
    <2>1. 0 \in 0..MaxRetries
      BY StreamAssumption
    <2>2. StreamTypeOK
      <3>1. {copies, begun, loose, queued, running} \subseteq Nat
        <4>1. copies \in Nat /\ begun \in Nat /\ loose \in Nat /\ queued \in Nat /\ running \in Nat
          BY DEF StreamInit
        <4> QED
          BY <4>1
      <3> QED
        BY <1>1, <2>1, <3>1 DEF StreamInit, StreamTypeOK, Statuses
    <2>3. failed \in BOOLEAN
      BY DEF StreamInit
    <2>4. {drops, looks} \subseteq Nat
      <3>1. drops \in Nat /\ looks \in Nat
        BY DEF StreamInit
      <3> QED
        BY <3>1
    <2> QED
      BY <1>1, <2>2, <2>3, <2>4 DEF StreamShape
  <1>3. RunsFit
    BY DEF StreamInit, RunsFit, Runs, Working
  <1>4. OpenIsWanted /\ StreamingHasStream
    BY <1>1 DEF StreamInit, OpenIsWanted, StreamingHasStream
  <1>5. OneRun
    BY DEF StreamInit, OneRun, Runs, Working
  <1> QED
    BY <1>2, <1>3, <1>4, <1>5 DEF StreamInv

\* What follows a change of the page's data to c and of its flags to p.
LEMMA ReactFacts ==
  ASSUME StreamShape, NEW c \in Queries, NEW p \in Waits, React(c, p)
  PROVE  /\ seen' = c /\ wait' \in Waits
         /\ ShouldStream(seen, wait)' <=> ShouldStream(c, p)
         /\ wait'.isStreaming = p.isStreaming
         /\ ~wait'.early => ~p.early /\ ~(sse # "off" /\ ~ShouldStream(c, p) /\ p.isStreaming)
         /\ \/ ~ShouldStream(c, p) /\ sse' = "off" /\ retries' = 0 /\ Cut
            \/ ShouldStream(c, p) /\ sse = "off" /\ sse' = "token" /\ retries' = 0 /\ KeepConn
            \/ ShouldStream(c, p) /\ sse # "off" /\ UNCHANGED <<sse, retries>> /\ KeepConn
  <1> DEFINE t == p.tooLong /\ IsGenerating(c, p)
             e == p.early \/ (Closing(c, p) /\ p.isStreaming)
  <1>1. wait' = [p EXCEPT !.tooLong = t, !.early = e]
    BY DEF React
  <1>2. t \in BOOLEAN /\ e \in BOOLEAN
    BY DEF Waits
  <1> HIDE DEF t
  <1>3. /\ wait' \in Waits /\ wait'.streamFailed = p.streamFailed /\ wait'.isStreaming = p.isStreaming
        /\ wait'.early = e
    <2> HIDE DEF e
    <2> QED
      BY <1>1, <1>2 DEF Waits
  <1>4. seen' = c
    BY DEF React
  <1>5. ShouldStream(seen, wait)' <=> ShouldStream(c, p)
    BY <1>3, <1>4 DEF ShouldStream, NoItems
  <1> QED
    BY <1>3, <1>4, <1>5 DEF React, Closing

\* A connection that is cut leaves its generator to itself: the runs are the same.
LEMMA CutFacts ==
  ASSUME StreamShape, Cut, UNCHANGED <<queued, running, copies>>
  PROVE  Runs' = Runs /\ loose' \in Nat /\ conn' = "no"
  BY DEF Cut, Runs, Working, StreamShape, StreamTypeOK

LEMMA RunsType == StreamShape => Runs \in Nat /\ (Runs = 0 => loose = 0 /\ queued = 0 /\ running = 0 /\ copies = 0)
  <1> SUFFICES ASSUME StreamShape
               PROVE  Runs \in Nat /\ (Runs = 0 => loose = 0 /\ queued = 0 /\ running = 0 /\ copies = 0)
    OBVIOUS
  <1>1. Working \in Nat /\ loose \in Nat /\ queued \in Nat /\ running \in Nat /\ copies \in Nat
    BY DEF Working, StreamShape, StreamTypeOK
  <1> QED
    BY <1>1 DEF Runs

\* A step of the page that ends in React.
LEMMA ReactKeeps ==
  ASSUME StreamInv, NEW c \in Queries, NEW p \in Waits, React(c, p), screen = "on", screen' = screen,
         UNCHANGED <<made, copies, begun, queued, running, failed, drops, looks>>,
         p.isStreaming => wait.isStreaming \/ sse # "off",
         ~p.early => ~wait.early,
         c.items = "some" => copies > 0,
         sse = "off" /\ ShouldStream(c, p) =>
            \/ made = "draft"
            \/ copies = 0 /\ ShouldStream(seen, wait)
  PROVE  StreamInv'
  <1>1. StreamShape /\ RunsFit /\ OpenIsWanted /\ StreamingHasStream /\ OneRun
    BY DEF StreamInv
  <1>2. /\ seen' = c /\ wait' \in Waits
        /\ ShouldStream(seen, wait)' <=> ShouldStream(c, p)
        /\ wait'.isStreaming = p.isStreaming
        /\ ~wait'.early => ~p.early /\ ~(sse # "off" /\ ~ShouldStream(c, p) /\ p.isStreaming)
        /\ \/ ~ShouldStream(c, p) /\ sse' = "off" /\ retries' = 0 /\ Cut
           \/ ShouldStream(c, p) /\ sse = "off" /\ sse' = "token" /\ retries' = 0 /\ KeepConn
           \/ ShouldStream(c, p) /\ sse # "off" /\ UNCHANGED <<sse, retries>> /\ KeepConn
    BY <1>1, ReactFacts
  <1>3. /\ Runs' = Runs /\ loose' \in Nat /\ conn' \in {conn, "no"}
        /\ sse' = "off" => conn' = "no"
        /\ sse' # "off" => conn' = conn
    <2>1. CASE Cut /\ sse' = "off"
      BY <1>1, <2>1, CutFacts
    <2>2. CASE KeepConn /\ sse' # "off"
      BY <1>1, <2>2 DEF KeepConn, Runs, Working, StreamShape, StreamTypeOK
    <2> QED
      BY <1>2, <2>1, <2>2
  <1>4. StreamShape'
    <2>1. /\ conn' \in {"no", "work", "send", "end", "error"} /\ retries' \in 0..MaxRetries
          /\ sse' \in {"off", "token", "connect", "open", "backoff"}
      BY <1>1, <1>2, <1>3, StreamAssumption DEF StreamShape, StreamTypeOK
    <2>2. {copies, begun, loose', queued, running} \subseteq Nat
      BY <1>1, <1>3, FiveNats DEF StreamShape, StreamTypeOK
    <2> QED
      BY <1>1, <1>2, <2>1, <2>2 DEF StreamShape, StreamTypeOK, Queries
  <1>5. RunsFit'
    BY <1>1, <1>2, <1>3 DEF RunsFit
  <1>6. OpenIsWanted' /\ StreamingHasStream'
    BY <1>1, <1>2 DEF OpenIsWanted, StreamingHasStream
  <1>7. OneRun'
    BY <1>1, <1>2, <1>3 DEF OneRun, RunsFit
  <1> QED
    BY <1>4, <1>5, <1>6, <1>7 DEF StreamInv

\* A step after which the page is not on the screen.
LEMMA LeavingKeeps ==
  ASSUME StreamInv, NEW c \in Queries, seen' = c, c.items = seen.items, screen = "on", screen' # "on",
         wait' = FreshWait, sse' = "off", retries' = 0, Cut,
         UNCHANGED <<made, copies, begun, queued, running, failed, drops, looks>>
  PROVE  StreamInv'
  <1>1. StreamShape /\ RunsFit /\ OpenIsWanted /\ StreamingHasStream /\ OneRun
    BY DEF StreamInv
  <1>2. FreshWait \in Waits /\ FreshWait.isStreaming = FALSE
    BY DEF FreshWait, Waits
  <1>3. Runs' = Runs /\ loose' \in Nat /\ conn' = "no"
    BY <1>1, CutFacts
  <1>4. StreamShape'
    BY <1>1, <1>2, <1>3, StreamAssumption DEF StreamShape, StreamTypeOK, Queries
  <1>5. RunsFit'
    BY <1>1, <1>3 DEF RunsFit
  <1>6. OpenIsWanted' /\ StreamingHasStream'
    BY <1>2 DEF OpenIsWanted, StreamingHasStream
  <1>7. OneRun'
    BY <1>1, <1>3 DEF OneRun
  <1> QED
    BY <1>4, <1>5, <1>6, <1>7 DEF StreamInv

LEMMA ErrorKeeps ==
  ASSUME StreamInv, OnError, sse # "off", screen' = screen,
         UNCHANGED <<made, copies, begun, queued, running, failed, drops, looks>>
  PROVE  StreamInv'
  <1> DEFINE p == [wait EXCEPT !.isStreaming = FALSE, !.streamFailed = TRUE]
  <1>1. p \in Waits /\ p.isStreaming = FALSE /\ p.early = wait.early
    BY DEF StreamInv, StreamShape, Waits
  <1>2. React(seen, p) /\ seen \in Queries /\ screen = "on" /\ (seen.items = "some" => copies > 0)
    BY DEF OnError, StreamInv, OpenIsWanted, StreamShape, RunsFit
  <1> HIDE DEF p
  <1> QED
    BY <1>1, <1>2, ReactKeeps

LEMMA StreamKept == StreamInv /\ StreamNext => StreamInv'
  <1> SUFFICES ASSUME StreamInv, StreamNext PROVE StreamInv'
    OBVIOUS
  <1>1. /\ StreamShape /\ RunsFit /\ OpenIsWanted /\ StreamingHasStream /\ OneRun
        /\ seen \in Queries /\ wait \in Waits /\ Runs \in Nat
        /\ Runs = 0 => loose = 0 /\ queued = 0 /\ running = 0 /\ copies = 0
    BY RunsType DEF StreamInv, StreamShape
  <1>2. CASE OpenWaiting
    <2>1. /\ FreshWait \in Waits /\ FreshWait.isStreaming = FALSE /\ screen # "on" /\ sse = "off" /\ conn = "no"
          /\ seen' = seen /\ wait' = FreshWait /\ conn' = conn /\ retries' = 0 /\ looks' = looks + 1 /\ drops' = drops
          /\ UNCHANGED <<made, copies, begun, loose, queued, running, failed>>
          /\ screen' = "on" /\ looks \in Nat
          /\ sse' = IF ShouldStream(seen, FreshWait) THEN "token" ELSE "off"
      BY <1>1, <1>2 DEF OpenWaiting, OpenIsWanted, RunsFit, FreshWait, Waits, streamServer, StreamShape
    <2>2. Runs' = Runs /\ (ShouldStream(seen, wait)' <=> ShouldStream(seen, FreshWait))
      BY <2>1 DEF Runs, Working, ShouldStream
    <2>3. StreamShape'
      BY <1>1, <2>1, StreamAssumption DEF StreamShape, StreamTypeOK
    <2>4. RunsFit'
      BY <1>1, <2>1, <2>2 DEF RunsFit
    <2>5. OpenIsWanted' /\ StreamingHasStream'
      BY <2>1, <2>2 DEF OpenIsWanted, StreamingHasStream
    <2>6. OneRun'
      <3>1. looks + 1 <= 1 => looks = 0 /\ ~ShouldStream(seen, FreshWait)
        BY <1>1, <2>1 DEF RunsFit, ShouldStream
      <3> QED
        BY <1>1, <2>1, <2>2, <3>1 DEF OneRun
    <2> QED
      BY <2>3, <2>4, <2>5, <2>6 DEF StreamInv
  <1>3. CASE CancelStream \/ CancelGenerating \/ NewQuizAfterFailure \/ GoAway
    <2>1. PICK to \in {"new", "away"} : LeaveStream(to) /\ screen = "on"
      BY <1>3 DEF CancelStream, CancelGenerating, NewQuizAfterFailure, GoAway, Screen
    <2> QED
      BY <1>1, <2>1, LeavingKeeps DEF LeaveStream, bounds
  <1>4. CASE ShowStatus
    <2> DEFINE c == [seen EXCEPT !.session = made]
    <2>1. c \in Queries /\ c.items = seen.items /\ c.session = made
      BY <1>1 DEF Queries, StreamShape, StreamTypeOK
    <2> HIDE DEF c
    <2>2. CASE made = "generation_failed" /\ reason
      BY <1>1, <1>4, <2>1, <2>2, LeavingKeeps DEF ShowStatus, bounds, c
    <2>3. CASE ~(made = "generation_failed" /\ reason)
      <3>1. React(c, wait) /\ screen = "on" /\ screen' = screen
            /\ UNCHANGED <<made, copies, begun, queued, running, failed, drops, looks>>
        BY <1>4, <2>3 DEF ShowStatus, bounds, c
      <3>2. c.items = "some" => copies > 0
        BY <1>1, <2>1 DEF RunsFit
      <3>3. ShouldStream(c, wait) => made = "draft"
        BY <2>1 DEF ShouldStream
      <3> QED
        BY <1>1, <2>1, <3>1, <3>2, <3>3, ReactKeeps
    <2> QED
      BY <2>2, <2>3
  <1>5. CASE ShowItems
    <2> DEFINE c == [seen EXCEPT !.items = Count]
    <2>1. c \in Queries /\ c.items = Count /\ c.session = seen.session
      BY <1>1 DEF Queries, Count
    <2> HIDE DEF c
    <2>2. React(c, wait) /\ screen = "on" /\ screen' = screen
          /\ UNCHANGED <<made, copies, begun, queued, running, failed, drops, looks>>
      BY <1>5 DEF ShowItems, bounds, c
    <2>3. copies \in Nat /\ (c.items = "some" => copies > 0)
      BY <1>1, <2>1 DEF Count, StreamShape, StreamTypeOK
    <2>4. ShouldStream(c, wait) => copies = 0 /\ ShouldStream(seen, wait)
      BY <1>1, <2>1, <2>3 DEF ShouldStream, NoItems, Count, RunsFit, Queries
    <2> QED
      BY <1>1, <2>1, <2>2, <2>3, <2>4, ReactKeeps
  <1>6. CASE OnMessage
    <2> DEFINE p == [wait EXCEPT !.isStreaming = TRUE]
    <2>1. p \in Waits /\ p.early = wait.early /\ sse # "off" /\ screen = "on"
      BY <1>1, <1>6 DEF OnMessage, OpenIsWanted, Waits
    <2>2. React(seen, p) /\ screen' = screen /\ UNCHANGED <<made, copies, begun, queued, running, failed, drops, looks>>
      BY <1>6 DEF OnMessage, bounds
    <2> HIDE DEF p
    <2>3. seen.items = "some" => copies > 0
      BY <1>1 DEF RunsFit
    <2> QED
      BY <1>1, <2>1, <2>2, <2>3, ReactKeeps
  <1>7. CASE TokenRefused \/ OnServerError
    BY <1>7, ErrorKeeps DEF TokenRefused, OnServerError, bounds
  <1>8. CASE ConnectFails
    <2>1. CASE OnError
      BY <1>8, <2>1, ErrorKeeps DEF ConnectFails, bounds
    <2>2. CASE ~OnError
      <3>1. /\ sse = "connect" /\ sse' = "backoff" /\ retries' = retries + 1 /\ retries < MaxRetries /\ Cut
            /\ UNCHANGED <<wait, seen, made, copies, begun, queued, running, failed, screen, drops, looks>>
        BY <1>8, <2>2 DEF ConnectFails, RetryOrGiveUp, bounds
      <3>2. Runs' = Runs /\ loose' \in Nat /\ conn' = "no"
        BY <1>1, <3>1, CutFacts
      <3>3. StreamShape'
        BY <1>1, <3>1, <3>2, StreamAssumption DEF StreamShape, StreamTypeOK
      <3>4. RunsFit'
        BY <1>1, <3>1, <3>2 DEF RunsFit
      <3>5. OpenIsWanted' /\ StreamingHasStream' /\ OneRun'
        BY <1>1, <3>1, <3>2 DEF OpenIsWanted, StreamingHasStream, OneRun, ShouldStream
      <3> QED
        BY <3>3, <3>4, <3>5 DEF StreamInv
    <2> QED
      BY <2>1, <2>2
  <1>9. CASE GetToken \/ BackOff
    <2>1. /\ sse \in {"token", "backoff"} /\ sse' \in {"token", "connect"}
          /\ UNCHANGED <<made, copies, begun, loose, queued, running, failed, conn, screen, seen, retries, wait, drops, looks>>
      BY <1>9 DEF GetToken, BackOff, streamServer, bounds
    <2>2. Runs' = Runs
      BY <2>1 DEF Runs, Working
    <2>3. StreamShape' /\ RunsFit'
      BY <1>1, <2>1, <2>2 DEF StreamShape, StreamTypeOK, RunsFit
    <2>4. OpenIsWanted' /\ StreamingHasStream' /\ OneRun'
      BY <1>1, <2>1, <2>2 DEF OpenIsWanted, StreamingHasStream, OneRun, ShouldStream
    <2> QED
      BY <2>3, <2>4 DEF StreamInv
  <1>10. CASE Drop
    <2>1. /\ drops' = drops + 1 /\ sse = "open" /\ sse' = "backoff" /\ retries' = 1 /\ Cut
          /\ UNCHANGED <<made, copies, begun, queued, running, failed, screen, seen, wait, looks>>
      BY <1>10 DEF Drop
    <2>2. Runs' = Runs /\ loose' \in Nat /\ conn' = "no"
      BY <1>1, <2>1, CutFacts
    <2>3. StreamShape' /\ RunsFit'
      BY <1>1, <2>1, <2>2, StreamAssumption DEF StreamShape, StreamTypeOK, RunsFit
    <2>4. OpenIsWanted' /\ StreamingHasStream' /\ OneRun'
      BY <1>1, <2>1, <2>2 DEF OpenIsWanted, StreamingHasStream, OneRun, ShouldStream, StreamShape
    <2> QED
      BY <2>3, <2>4 DEF StreamInv
  <1>11. CASE OpenStream
    <2>1. /\ sse = "connect" /\ sse' = "open" /\ retries' = 0 /\ conn' = "work" /\ made' = "generating"
          /\ begun' = begun + 1
          /\ UNCHANGED <<copies, loose, queued, running, failed, screen, seen, wait, drops, looks>>
      BY <1>11 DEF OpenStream, bounds
    <2>2. conn = "no" /\ Runs' = Runs + 1
      BY <1>1, <2>1 DEF RunsFit, Runs, Working, StreamShape, StreamTypeOK
    <2>3. StreamShape'
      BY <1>1, <2>1, StreamAssumption DEF StreamShape, StreamTypeOK, Statuses
    <2>4. RunsFit'
      BY <1>1, <2>1 DEF RunsFit, OpenIsWanted
    <2>5. OpenIsWanted' /\ StreamingHasStream' /\ OneRun'
      BY <1>1, <2>1, <2>2 DEF OpenIsWanted, StreamingHasStream, OneRun, ShouldStream
    <2> QED
      BY <2>3, <2>4, <2>5 DEF StreamInv
  <1>12. CASE OnDone
    <2> DEFINE t == wait.tooLong /\ seen.session = "generating"
    <2>1. /\ sse = "open" /\ conn = "end" /\ sse' = "off" /\ conn' = "no"
          /\ wait' = [wait EXCEPT !.isStreaming = FALSE, !.tooLong = t]
          /\ UNCHANGED <<made, copies, begun, loose, queued, running, failed, screen, seen, retries, drops, looks>>
      BY <1>12 DEF OnDone, streamServer, bounds
    <2>2. t \in BOOLEAN
      BY <1>1 DEF Waits
    <2> HIDE DEF t
    <2>3. wait' \in Waits /\ wait'.isStreaming = FALSE
      BY <1>1, <2>1, <2>2 DEF Waits
    <2>4. Runs' = Runs /\ copies > 0
      BY <1>1, <2>1 DEF Runs, Working, RunsFit
    <2>5. StreamShape' /\ RunsFit'
      BY <1>1, <2>1, <2>3, <2>4 DEF StreamShape, StreamTypeOK, RunsFit
    <2>6. OpenIsWanted' /\ StreamingHasStream' /\ OneRun'
      BY <1>1, <2>1, <2>3, <2>4 DEF OpenIsWanted, StreamingHasStream, OneRun
    <2> QED
      BY <2>5, <2>6 DEF StreamInv
  <1>13. CASE Poll \/ GeneratingTooLong
    <2>1. /\ UNCHANGED <<made, copies, begun, loose, queued, running, failed, conn, screen, seen, retries, sse, drops, looks>>
          /\ wait' \in {wait, [wait EXCEPT !.tooLong = TRUE]}
      BY <1>13 DEF Poll, GeneratingTooLong, streamServer, bounds
    <2>2. wait' \in Waits /\ wait'.isStreaming = wait.isStreaming /\ wait'.early = wait.early
          /\ wait'.streamFailed = wait.streamFailed
      BY <1>1, <2>1 DEF Waits
    <2>3. Runs' = Runs /\ (ShouldStream(seen, wait)' <=> ShouldStream(seen, wait))
      BY <2>1, <2>2 DEF Runs, Working, ShouldStream
    <2>4. StreamShape' /\ RunsFit'
      BY <1>1, <2>1, <2>2, <2>3 DEF StreamShape, StreamTypeOK, RunsFit
    <2>5. OpenIsWanted' /\ StreamingHasStream' /\ OneRun'
      BY <1>1, <2>1, <2>2, <2>3 DEF OpenIsWanted, StreamingHasStream, OneRun
    <2> QED
      BY <2>4, <2>5 DEF StreamInv
  <1>14. CASE Finish \/ Sent \/ Reject \/ Fail
    <2>1. /\ UNCHANGED <<loose, running, begun, screen, seen, sse, retries, wait, drops, looks>>
          /\ conn # "no" /\ conn' # "no" /\ conn' \in {"send", "end", "error"}
      BY <1>14 DEF Finish, Sent, Reject, Fail, streamServer, bounds
    <2>2. sse = "open" /\ looks # 0 /\ made # "draft"
      BY <1>1, <2>1 DEF RunsFit, OpenIsWanted
    <2>3. StreamShape'
      <3>1. made' \in Statuses /\ failed' \in BOOLEAN /\ copies' \in Nat /\ queued' \in Nat
        <4>1. copies \in Nat /\ queued \in Nat /\ made \in Statuses /\ failed \in BOOLEAN
          BY <1>1, FiveNats DEF StreamShape, StreamTypeOK
        <4>2. CASE Finish \/ Sent
          BY <4>1, <4>2 DEF Finish, Sent, Persist, Statuses, streamServer
        <4>3. CASE Reject \/ Fail
          <5>1. failed' \in BOOLEAN
            BY <4>1, <4>3 DEF Reject, Fail
          <5>2. queued' \in {queued, queued + 2} /\ copies' = copies /\ made' \in {made, "generation_failed"}
            BY <4>3 DEF Reject, Fail
          <5> QED
            BY <4>1, <5>1, <5>2 DEF Statuses
        <4> QED
          BY <1>14, <4>2, <4>3
      <3> QED
        BY <1>1, <2>1, <3>1 DEF StreamShape, StreamTypeOK
    <2>4. RunsFit'
      BY <1>1, <1>14, <2>1, <2>2 DEF RunsFit, Finish, Sent, Reject, Fail, Persist, StreamShape, StreamTypeOK, streamServer, bounds
    <2>5. OpenIsWanted' /\ StreamingHasStream'
      BY <1>1, <2>1 DEF OpenIsWanted, StreamingHasStream, ShouldStream
    <2>6. OneRun'
      <3>1. failed' \/ (Runs' <= Runs /\ failed' = failed)
        BY <1>1, <1>14 DEF Finish, Sent, Reject, Fail, Persist, Runs, Working, StreamShape, StreamTypeOK, streamServer
      <3>2. Runs' \in Nat
        BY <2>3, RunsType DEF StreamShape, StreamTypeOK, Runs, Working
      <3> QED
        BY <1>1, <2>1, <2>2, <3>1, <3>2 DEF OneRun
    <2> QED
      BY <2>3, <2>4, <2>5, <2>6 DEF StreamInv
  <1>15. CASE Notice \/ FinishLoose \/ TaskStart \/ TaskFinish \/ TaskFail
    <2>1. /\ UNCHANGED <<conn, failed, screen, seen, sse, retries, wait, drops, looks>>
          /\ loose > 0 \/ queued > 0 \/ running > 0
      BY <1>15 DEF Notice, FinishLoose, TaskStart, TaskFinish, TaskFail, bounds
    <2>2. Runs # 0 /\ made # "draft" /\ looks # 0
      BY <1>1, <2>1 DEF RunsFit, StreamShape, StreamTypeOK
    <2>3. StreamShape'
      BY <1>1, <1>15, <2>1 DEF Notice, FinishLoose, TaskStart, TaskFinish, TaskFail, Persist, StreamShape, StreamTypeOK,
         Statuses, bounds
    <2>4. copies' >= copies /\ (made' = "ready" => made = "ready" \/ copies' > copies) /\ made' # "draft"
      BY <1>1, <1>15, <2>2 DEF Notice, FinishLoose, TaskStart, TaskFinish, TaskFail, Persist, StreamShape, StreamTypeOK
    <2>5. RunsFit'
      BY <1>1, <2>1, <2>2, <2>3, <2>4 DEF RunsFit, StreamShape, StreamTypeOK
    <2>6. OpenIsWanted' /\ StreamingHasStream'
      BY <1>1, <2>1 DEF OpenIsWanted, StreamingHasStream, ShouldStream
    <2>7. OneRun'
      <3>1. Runs' <= Runs
        BY <1>1, <1>15 DEF Notice, FinishLoose, TaskStart, TaskFinish, TaskFail, Persist, Runs, Working, StreamShape,
           StreamTypeOK
      <3>2. ShouldStream(seen, wait)' <=> ShouldStream(seen, wait)
        BY <2>1 DEF ShouldStream
      <3>3. copies \in Nat /\ copies' \in Nat /\ Runs' \in Nat
        BY <1>1, <2>3 DEF StreamShape, StreamTypeOK, Runs, Working
      <3> QED
        BY <1>1, <2>1, <2>2, <2>4, <3>1, <3>2, <3>3 DEF OneRun
    <2> QED
      BY <2>3, <2>5, <2>6, <2>7 DEF StreamInv
  <1> QED
    BY <1>2, <1>3, <1>4, <1>5, <1>6, <1>7, <1>8, <1>9, <1>10, <1>11, <1>12, <1>13, <1>14, <1>15
       DEF StreamNext, Connecting, Stream

\* One visit without breaks and failures writes the questions once, as few runs write them.
LEMMA StreamImplies == StreamInv => StreamTypeOK /\ ReadyHasItems /\ OneVisitOneCopy /\ OpenIsWanted /\ StreamingHasStream
  <1> SUFFICES ASSUME StreamInv
               PROVE  StreamTypeOK /\ ReadyHasItems /\ OneVisitOneCopy /\ OpenIsWanted /\ StreamingHasStream
    OBVIOUS
  <1>1. Runs <= 1 => copies <= 1
    BY DEF StreamInv, StreamShape, StreamTypeOK, Runs, Working
  <1> QED
    BY <1>1 DEF StreamInv, StreamShape, RunsFit, OneRun, ReadyHasItems, OneVisitOneCopy

-----------------------------------------------------------------------------
\* The two parts together

TakeInv == /\ TakeShape /\ Unopened /\ MineIsHere /\ ExamKept /\ Recorded /\ Passed
           /\ ShownFits /\ GradingHasRequest

PagesInv == StreamInv /\ TakeInv

LEMMA TakeInvInit == TakeInit => TakeInv
  <1> SUFFICES ASSUME TakeInit PROVE TakeInv
    OBVIOUS
  <1>1. /\ requests = {} /\ apart = {} /\ sheet = Blank /\ pg = FreshTake /\ place = "away" /\ fetch = NoFetch
        /\ cache = NoCache /\ status = "ready" /\ \A i \in Item : Blank[i] = Nil
        /\ FreshTake.submitted = Blank
    BY BlankType DEF TakeInit, NoCache, Blank
  <1>2. /\ NoFetch.logs = "no" /\ NoFetch.read = Blank /\ FreshTake.shown = 0 /\ FreshTake.grading = 0
        /\ NoCache.has = FALSE /\ NoCache.session = Nil /\ NoCache.logs = Blank
    BY DEF NoFetch, FreshTake, NoCache
  <1>3. TakeShape
    BY TakeShapeInit
  <1>4. Unopened /\ MineIsHere
    BY <1>1, <1>2 DEF Unopened, MineIsHere
  <1>5. ExamKept
    BY <1>1, <1>2 DEF ExamKept, Nil
  <1>6. Recorded
    BY <1>1 DEF Recorded, OneRequest, RequestsFit, SheetShown, GradedShown
  <1>7. Passed
    <2>1. PassedOver(pg, DoneItems)
      BY <1>1, ItemFacts DEF PassedOver, FreshTake, NoSlide, Nil, Given
    <2>2. InOrder /\ LogsBehind /\ OverIsFull
      BY <1>1, <1>2 DEF InOrder, LogsBehind, OverIsFull, InFlight, Nil
    <2> QED
      BY <2>1, <2>2 DEF Passed
  <1>8. ShownFits /\ GradingHasRequest
    BY <1>1, <1>2 DEF ShownFits, GradingHasRequest
  <1> QED
    BY <1>3, <1>4, <1>5, <1>6, <1>7, <1>8 DEF TakeInv

LEMMA TakeInvNext == TakeInv /\ TakeNext => TakeInv'
  <1> SUFFICES ASSUME TakeInv, TakeNext PROVE TakeInv'
    OBVIOUS
  <1>1. /\ TakeShape /\ Unopened /\ MineIsHere /\ ExamKept /\ Recorded /\ Passed
        /\ ShownFits /\ GradingHasRequest
    BY DEF TakeInv
  <1>2. Passed'
    BY <1>1, ModeKept, OrderKept, PageKept DEF Passed
  <1> QED
    BY <1>1, <1>2, TakeShapeNext, OpenKept, ExamStays, RecordedKept, ShownKept, GradingKept DEF TakeInv

LEMMA TakeInvStutters == TakeInv /\ UNCHANGED takeVars => TakeInv'
  <1> SUFFICES ASSUME TakeInv, UNCHANGED takeVars PROVE TakeInv'
    OBVIOUS
  <1>1. /\ UNCHANGED <<mode, status, sheet, place, cache, fetch, pg>>
        /\ UNCHANGED <<finish, requests, answers, store, others, visits, apart>>
    BY DEF takeVars
  <1>2. TakeShape'
    BY <1>1 DEF TakeInv, TakeShape
  <1>3. Unopened' /\ MineIsHere' /\ ExamKept'
    BY <1>1 DEF TakeInv, Unopened, MineIsHere, ExamKept
  <1>4. Recorded'
    BY <1>1 DEF TakeInv, Recorded, OneRequest, RequestsFit, SheetShown, GradedShown, InFlight
  <1>5. DoneItems' = DoneItems
    BY <1>1 DEF DoneItems, InFlight
  <1>6. Passed'
    BY <1>1, <1>5 DEF TakeInv, Passed, PassedOver, InOrder, LogsBehind, OverIsFull, InFlight
  <1>7. ShownFits' /\ GradingHasRequest'
    BY <1>1 DEF TakeInv, ShownFits, GradingHasRequest
  <1> QED
    BY <1>2, <1>3, <1>4, <1>6, <1>7 DEF TakeInv

LEMMA StreamInvStutters == StreamInv /\ UNCHANGED streamVars => StreamInv'
  <1> SUFFICES ASSUME StreamInv, UNCHANGED streamVars PROVE StreamInv'
    OBVIOUS
  <1>1. /\ UNCHANGED <<made, reason, copies, begun, conn, loose, queued, running, failed>>
        /\ UNCHANGED <<screen, seen, asked, sse, retries, wait, drops, looks>>
    BY DEF streamVars
  <1>2. Runs' = Runs /\ (ShouldStream(seen, wait)' <=> ShouldStream(seen, wait))
    BY <1>1 DEF Runs, Working, ShouldStream
  <1> QED
    BY <1>1, <1>2 DEF StreamInv, StreamShape, StreamTypeOK, RunsFit, OpenIsWanted, StreamingHasStream, OneRun

\* The invariant of the page from which its theorems follow.
LEMMA PagesInvariant == Spec => []PagesInv
  <1>1. Init => PagesInv
    BY StreamInvInit, TakeInvInit DEF Init, PagesInv
  <1>2. PagesInv /\ [Next]_pagesVars => PagesInv'
    <2> SUFFICES ASSUME PagesInv, [Next]_pagesVars PROVE PagesInv'
      OBVIOUS
    <2>1. CASE StreamNext /\ UNCHANGED takeVars
      BY <2>1, StreamKept, TakeInvStutters DEF PagesInv
    <2>2. CASE TakeNext /\ UNCHANGED streamVars
      BY <2>2, TakeInvNext, StreamInvStutters DEF PagesInv
    <2>3. CASE UNCHANGED pagesVars
      BY <2>3, TakeInvStutters, StreamInvStutters DEF PagesInv, pagesVars
    <2>4. Next => (StreamNext /\ UNCHANGED takeVars) \/ (TakeNext /\ UNCHANGED streamVars)
      <3>1. part = "stream" /\ StreamNext /\ UNCHANGED <<part, takeVars>> => StreamNext /\ UNCHANGED takeVars
        OBVIOUS
      <3>2. part = "take" /\ TakeNext /\ UNCHANGED <<part, streamVars>> => TakeNext /\ UNCHANGED streamVars
        OBVIOUS
      <3> QED
        BY <3>1, <3>2 DEF Next
    <2> QED
      BY <2>1, <2>2, <2>3, <2>4
  <1> QED
    BY <1>1, <1>2, PTL DEF Spec

\* What an invariant of the page that takes a quiz says of it.
LEMMA TakeImplies ==
  TakeInv => /\ AnswersReachServer /\ ExamAnswersAreKept
             /\ TakeTypeOK /\ NothingPassedOver /\ ResultOfItem /\ GradingIsUnderWay
  <1> SUFFICES ASSUME TakeInv
               PROVE  /\ AnswersReachServer /\ ExamAnswersAreKept
                      /\ TakeTypeOK /\ NothingPassedOver /\ ResultOfItem /\ GradingIsUnderWay
    OBVIOUS
  <1>1. AnswersReachServer /\ ExamAnswersAreKept
    BY DEF TakeInv, Recorded, SheetShown, ExamKept, AnswersReachServer, ExamAnswersAreKept
  <1>2. TakeTypeOK
    BY ShapeIsType DEF TakeInv
  <1>3. NothingPassedOver
    BY DEF TakeInv, Passed, PassedOver, DoneItems, NothingPassedOver
  <1>4. ResultOfItem
    <2>1. Feedback = "result" => pg.shown # 0
      BY DEF Feedback
    <2> QED
      BY <2>1 DEF TakeInv, ShownFits, ResultOfItem, Completed
  <1>5. GradingIsUnderWay
    <2>1. Feedback = "grading" => pg.grading = pg.at /\ pg.at # 0
      BY ItemFacts DEF Feedback, TakeInv, TakeShape, Page
    <2> QED
      BY <2>1 DEF TakeInv, GradingHasRequest, GradingIsUnderWay, InFlight
  <1> QED
    BY <1>1, <1>2, <1>3, <1>4, <1>5

\* What the page shows as answered is recorded on the server, on its way to it, or one of
\* the answers that are known to be apart: refused, lost, overtaken by another one, kept
\* back with AI grading off, or replaced by older logs.
THEOREM AnswersAreRecorded == Spec => []AnswersReachServer
  <1>1. PagesInv => AnswersReachServer
    BY TakeImplies DEF PagesInv
  <1> QED
    BY <1>1, PagesInvariant, PTL

\* The session storage holds all that an exam's page shows: a reload loses no answer.
THEOREM ExamSurvivesReload == Spec => []ExamAnswersAreKept
  <1>1. PagesInv => ExamAnswersAreKept
    BY TakeImplies DEF PagesInv
  <1> QED
    BY <1>1, PagesInvariant, PTL

\* The page passes over no item, shows the result of the item on the screen, waits for a
\* grade only while its request is under way, and while it waits for the questions it has a
\* stream, which alone writes them unless a connection broke or a generator failed.
THEOREM PagesAreConsistent == Spec => []QuizPagesConsistent
  <1>1. PagesInv => QuizPagesConsistent
    BY StreamImplies, TakeImplies DEF PagesInv, QuizPagesConsistent
  <1> QED
    BY <1>1, PagesInvariant, PTL
==============================================================================

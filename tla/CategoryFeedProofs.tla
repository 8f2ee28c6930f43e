-------------------------- MODULE CategoryFeedProofs --------------------------
(***************************************************************************)
(* Proofs about CategoryFeed, for every set of categories and every bound: *)
(* types, that the table catches up with the list, and, for a reader who   *)
(* waits, that list, rows, images and flags are those of what is shown and *)
(* that nothing traps.                                                     *)
(***************************************************************************)
EXTENDS CategoryFeed, FiniteSetTheorems, TLAPS

-----------------------------------------------------------------------------
(* The invariant.                                                          *)

Waiting(v) == visits[v].asked + visits[v].reloads

\* A table that was not pulled has asked once.
RequestsBounded ==
  \A v \in 1..Len(visits) :
    Waiting(v) <= 2 /\ (v = shown /\ ~table.spinning => Waiting(v) <= 1)

ListInPlace == \A i \in 1..Len(categoryNews) : categoryNews[i].place = i

OneCell == \A x, y \in table.shows : x = y

\* Nothing is left to come to a controller that is not shown.
NoneLeftWaiting ==
  patient => \A v \in 1..Len(visits) : v # shown => Waiting(v) = 0

\* For a reader who waits the one controller alive is the one shown, the list
\* is its, and a call that runs is one for the article in the cell.
CalmScreen ==
  calm =>
    /\ patient
    /\ alive \subseteq {shown}
    /\ shown = 0 => categoryNews = <<>> /\ table.shows = {}
    /\ shown # 0 => /\ ~unseen
                    /\ \A x \in table.shows : x.category = visits[shown].category
    /\ \A c \in calls : table.shows \subseteq {c.article}

Typed == TypeOK /\ RequestsBounded /\ IsFiniteSet(calls)

-----------------------------------------------------------------------------
(* Types.                                                                  *)

LEMMA OneVisitChanges ==
  ASSUME NEW s \in Seq(Visit), NEW v \in 1..Len(s), NEW x \in Visit
  PROVE  /\ [s EXCEPT ![v] = x] \in Seq(Visit)
         /\ Len([s EXCEPT ![v] = x]) = Len(s)
         /\ \A w \in 1..Len(s) : [s EXCEPT ![v] = x][w] = IF w = v THEN x ELSE s[w]
OBVIOUS

LEMMA InitTyped == Init => Typed
<1> SUFFICES ASSUME Init PROVE Typed
  OBVIOUS
<1>1. categoryNews \in Seq(Article) /\ visits \in Seq(Visit) /\ Len(visits) = 0
  BY DEF Init
<1>2. table \in Table
  BY DEF Init, NewTable, Table
<1>3. IsFiniteSet(calls)
  BY FS_EmptySet DEF Init
<1>4. RequestsBounded
  BY <1>1 DEF RequestsBounded
<1>5. /\ shown \in 0..Len(visits) /\ alive \subseteq 1..Len(visits)
      /\ shown = 0 /\ calls = {} /\ savedUrls = {}
      /\ trapped = "no" /\ unseen = FALSE /\ calm = TRUE /\ patient = TRUE
  BY <1>1 DEF Init
<1>6. TypeOK
  BY <1>1, <1>2, <1>5 DEF TypeOK
<1> QED
  BY <1>3, <1>4, <1>6 DEF Typed

LEMMA FreshTable == ASSUME NEW n \in Nat PROVE NewTable(n) \in Table
BY DEF NewTable, Table

\* A deinit leaves the types alone.
LEMMA ReleaseTyped ==
  ASSUME Typed, Release, shown' \in alive \/ shown' = 0,
         calls' \subseteq calls
  PROVE  /\ categoryNews' \in Seq(Article)
         /\ alive' \subseteq alive
         /\ shown' # 0 => shown' \in alive'
         /\ unseen' \in BOOLEAN
         /\ \A c \in calls' : c.visit \in alive'
<1>1. <<>> \in Seq(Article)
  OBVIOUS
<1> QED
  BY <1>1 DEF Release, Typed, TypeOK

LEMMA OpenTyped ==
  ASSUME Typed, NEW c \in Category, Open(c), calm' \in BOOLEAN
  PROVE  Typed'
<1> DEFINE x == [category |-> c, asked |-> 1, reloads |-> 0]
           n == Len(visits) + 1
<1>1. x \in Visit /\ x.asked + x.reloads = 1
  BY DEF Visit
<1>2. /\ visits' \in Seq(Visit) /\ Len(visits') = n
      /\ \A w \in 1..n : visits'[w] = IF w = n THEN x ELSE visits[w]
  BY <1>1 DEF Open, Typed, TypeOK
<1>3. table' \in Table /\ ~table'.spinning
  <2>1. Len(categoryNews) \in Nat
    BY DEF Typed, TypeOK
  <2> QED
    BY <2>1, FreshTable DEF Open, NewTable
<1>4. RequestsBounded'
  <2> SUFFICES ASSUME NEW w \in 1..n
               PROVE  /\ Waiting(w)' <= 2
                      /\ (w = shown' /\ ~table'.spinning => Waiting(w)' <= 1)
    BY <1>2 DEF RequestsBounded
  <2>1. CASE w = n
    BY <1>1, <1>2, <2>1 DEF Waiting
  <2>2. CASE w # n
    <3>1. w \in 1..Len(visits) /\ Waiting(w)' = Waiting(w)
      BY <1>2, <2>2 DEF Waiting, Typed, TypeOK
    <3>2. Waiting(w) <= 2
      BY <3>1 DEF Typed, RequestsBounded
    <3> QED
      BY <3>1, <3>2, <2>2 DEF Open
  <2> QED
    BY <2>1, <2>2
<1>5. /\ n \in Nat /\ n # 0 /\ n \in 1..n /\ n \in 0..n
      /\ 1..Len(visits) \subseteq 1..n
  BY DEF Typed, TypeOK
<1>6. shown' = n /\ alive' = alive \union {n} /\ calls' = calls
  BY DEF Open
<1>7. /\ shown' \in 0..Len(visits') /\ alive' \subseteq 1..Len(visits')
      /\ shown' \in alive' /\ \A d \in calls' : d.visit \in alive'
  BY <1>2, <1>5, <1>6 DEF Typed, TypeOK
<1>8. UNCHANGED <<categoryNews, savedUrls, calls, trapped, patient>> /\ unseen' = FALSE
  BY DEF Open, lists
<1> HIDE DEF n, x
<1>9. TypeOK'
  BY <1>2, <1>3, <1>7, <1>8 DEF Typed, TypeOK
<1> QED
  BY <1>4, <1>8, <1>9 DEF Typed

LEMMA LeaveTyped ==
  ASSUME Typed, Leave, calm' \in BOOLEAN
  PROVE  Typed'
<1>1. /\ categoryNews' \in Seq(Article) /\ alive' \subseteq alive
      /\ unseen' \in BOOLEAN /\ \A c \in calls' : c.visit \in alive'
  BY ReleaseTyped DEF Leave
<1>2. table' \in Table
  BY FreshTable DEF Leave
<1>3. RequestsBounded'
  BY DEF Leave, Typed, TypeOK, RequestsBounded, Waiting
<1>4. shown' \in 0..Len(visits')
  BY DEF Leave, Typed, TypeOK
<1> QED
  BY <1>1, <1>2, <1>3, <1>4 DEF Leave, Typed, TypeOK

\* The requests and blocks of one visit change.
LEMMA WaitingChanges ==
  ASSUME Typed, NEW v \in 1..Len(visits), NEW x \in Visit,
         visits' = [visits EXCEPT ![v] = x],
         shown' = shown, table'.spinning = table.spinning \/ v = shown,
         x.asked + x.reloads <=
           IF v = shown /\ ~table'.spinning THEN 1 ELSE 2
  PROVE  visits' \in Seq(Visit) /\ Len(visits') = Len(visits) /\ RequestsBounded'
<1>1. /\ visits' \in Seq(Visit) /\ Len(visits') = Len(visits)
      /\ \A w \in 1..Len(visits) : visits'[w] = IF w = v THEN x ELSE visits[w]
  BY OneVisitChanges DEF Typed, TypeOK
<1>2. ASSUME NEW w \in 1..Len(visits)
      PROVE  /\ Waiting(w)' <= 2
             /\ (w = shown' /\ ~table'.spinning => Waiting(w)' <= 1)
  <2>1. CASE w = v
    BY <1>1, <2>1 DEF Waiting, Visit
  <2>2. CASE w # v
    <3>1. Waiting(w)' = Waiting(w)
      BY <1>1, <2>2 DEF Waiting
    <3> QED
      BY <3>1, <2>2 DEF Typed, RequestsBounded
  <2> QED
    BY <2>1, <2>2
<1> QED
  BY <1>1, <1>2 DEF RequestsBounded

LEMMA PullTyped ==
  ASSUME Typed, Pull, calm' \in BOOLEAN
  PROVE  Typed'
<1> DEFINE x == [visits[shown] EXCEPT !.asked = @ + 1]
<1>1. shown \in 1..Len(visits) /\ visits[shown] \in Visit
  BY DEF Pull, Typed, TypeOK
<1>2. visits[shown].asked + visits[shown].reloads <= 1
  BY <1>1 DEF Pull, Typed, RequestsBounded, Waiting
<1>3. x \in Visit /\ x.asked + x.reloads <= 2
  BY <1>1, <1>2 DEF Visit
<1>4. visits' = [visits EXCEPT ![shown] = x]
  BY DEF Pull
<1>5. table' \in Table /\ table'.spinning
  BY DEF Pull, Typed, TypeOK, Table
<1>6. visits' \in Seq(Visit) /\ Len(visits') = Len(visits) /\ RequestsBounded'
  <2>1. shown' = shown
    BY DEF Pull
  <2> HIDE DEF x
  <2> QED
    BY <1>1, <1>3, <1>4, <1>5, <2>1, WaitingChanges
<1> QED
  BY <1>5, <1>6 DEF Pull, Typed, TypeOK, lists

LEMMA StartTyped ==
  ASSUME Typed, NEW kind \in {"image", "save", "unsave"}, NEW x \in Article,
         StartCall(kind, x), shown # 0
  PROVE  /\ calls' \subseteq Call /\ IsFiniteSet(calls')
         /\ \A d \in calls' : d.visit \in alive
<1> DEFINE c == [kind |-> kind, visit |-> shown, article |-> x]
           d == [kind |-> kind, visit |-> shown, article |-> x,
                 nr |-> Cardinality(Alike(c)) + 1]
<1>1. calls' = calls \union {d}
  BY DEF StartCall
<1>2. IsFiniteSet(Alike(c))
  BY FS_Subset DEF Alike, Typed
<1>3. Cardinality(Alike(c)) \in Nat
  BY <1>2, FS_CardinalityType
<1>4. d \in Call /\ d.visit = shown
  BY <1>3 DEF Call, Typed, TypeOK
<1> HIDE DEF d
<1>5. IsFiniteSet(calls')
  BY <1>1, FS_AddElement DEF Typed
<1> QED
  BY <1>1, <1>4, <1>5 DEF Typed, TypeOK

\* The row that is drawn shows an article of the list.
LEMMA RowsHaveArticles ==
  ASSUME Typed, NEW r \in RowsThere
  PROVE  shown # 0 /\ r \in 1..Len(categoryNews) /\ categoryNews[r] \in Article
BY DEF RowsThere, Typed, TypeOK, Table

LEMMA CellType ==
  ASSUME NEW t \in Table, NEW x \in Article, NEW b \in BOOLEAN
  PROVE  LET u == [t EXCEPT !.shows = {x}, !.saved = b]
         IN  u \in Table /\ u.spinning = t.spinning
BY DEF Table

LEMMA DrawTyped ==
  ASSUME Typed, NEW r \in RowsThere, Draw(r), calm' \in BOOLEAN
  PROVE  Typed'
<1> DEFINE x == categoryNews[r]
           cell == [table EXCEPT !.shows = {x}, !.saved = x \in savedUrls]
<1>1. shown # 0 /\ x \in Article
  BY RowsHaveArticles
<1>2. cell \in Table /\ cell.spinning = table.spinning
  <2>1. (x \in savedUrls) \in BOOLEAN /\ table \in Table
    BY DEF Typed, TypeOK
  <2> QED
    BY <1>1, <2>1, CellType
<1>3. table' \in Table /\ table'.spinning = table.spinning
  <2>1. PICK image \in {{}, {x}} : table' = [cell EXCEPT !.image = image]
    BY DEF Draw, ShowImage
  <2> HIDE DEF cell
  <2> QED
    BY <1>1, <1>2, <2>1 DEF Table
<1>4. /\ calls' \subseteq Call /\ IsFiniteSet(calls')
      /\ \A d \in calls' : d.visit \in alive
  <2>1. CASE UNCHANGED calls
    BY <2>1 DEF Typed, TypeOK
  <2>2. CASE StartCall("image", x)
    BY <1>1, <2>2, StartTyped
  <2> QED
    BY <2>1, <2>2 DEF Draw, ShowImage
<1>5. RequestsBounded'
  BY <1>3 DEF Draw, Typed, RequestsBounded, Waiting
<1> QED
  BY <1>3, <1>4, <1>5 DEF Draw, Typed, TypeOK, lists

LEMMA SwipeTyped ==
  ASSUME Typed, NEW r \in RowsThere, Swipe(r), calm' \in BOOLEAN
  PROVE  Typed'
<1>1. shown # 0 /\ categoryNews[r] \in Article
  BY RowsHaveArticles
<1>2. /\ calls' \subseteq Call /\ IsFiniteSet(calls')
      /\ \A d \in calls' : d.visit \in alive
  BY <1>1, StartTyped DEF Swipe
<1>3. RequestsBounded'
  BY DEF Swipe, Typed, RequestsBounded, Waiting
<1> QED
  BY <1>2, <1>3 DEF Swipe, Typed, TypeOK, lists

LEMMA TrapTyped ==
  ASSUME Typed, TouchMissing \/ MemoryWarning \/ \E v \in DOMAIN visits : ReloadNothing(v),
         calm' \in BOOLEAN
  PROVE  Typed'
<1>1. <<>> \in Seq(Article)
  OBVIOUS
<1> QED
  BY <1>1 DEF TouchMissing, MemoryWarning, ReloadNothing, Typed, TypeOK, RequestsBounded,
              Waiting, lists, screen

\* An answer is a list of articles of its category, each in its place.
LEMMA AnswerType ==
  ASSUME NEW c \in Category, NEW n \in Sizes
  PROVE  LET news == [i \in 1..n |-> [category |-> c, place |-> i]]
         IN  /\ news \in Seq(Article) /\ Len(news) = n
             /\ \A i \in 1..n : news[i].category = c /\ news[i].place = i
<1>1. n \in Nat
  BY CategoryAssumption
<1>2. \A i \in 1..n : [category |-> c, place |-> i] \in Article
  BY <1>1 DEF Article
<1> QED
  BY <1>1, <1>2

LEMMA ArrivesTyped ==
  ASSUME Typed, NEW v \in DOMAIN visits, NEW n \in Sizes, Arrives(v, n), calm' \in BOOLEAN
  PROVE  Typed'
<1> DEFINE x == [visits[v] EXCEPT !.asked = @ - 1, !.reloads = @ + 1]
<1>1. v \in 1..Len(visits) /\ visits[v] \in Visit
  BY DEF Typed, TypeOK
<1>2. visits[v].asked + visits[v].reloads <= 2
  BY <1>1 DEF Typed, RequestsBounded, Waiting
<1>3. x \in Visit /\ x.asked + x.reloads = visits[v].asked + visits[v].reloads
  BY <1>1, <1>2 DEF Arrives, Visit
<1>4. visits' = [visits EXCEPT ![v] = x]
  BY DEF Arrives
<1>5. visits' \in Seq(Visit) /\ Len(visits') = Len(visits) /\ RequestsBounded'
  <2>1. shown' = shown /\ table' = table
    BY DEF Arrives
  <2>2. x.asked + x.reloads <= IF v = shown /\ ~table.spinning THEN 1 ELSE 2
    BY <1>1, <1>3 DEF Typed, RequestsBounded, Waiting
  <2> HIDE DEF x
  <2> QED
    BY <1>1, <1>3, <1>4, <2>1, <2>2, WaitingChanges
<1>6. categoryNews' \in Seq(Article)
  <2>1. visits[v].category \in Category
    BY <1>1 DEF Visit
  <2> QED
    BY <2>1, AnswerType DEF Arrives
<1> QED
  BY <1>5, <1>6 DEF Arrives, Typed, TypeOK

LEMMA ReloadTyped ==
  ASSUME Typed, NEW v \in DOMAIN visits, ReloadTable(v), calm' \in BOOLEAN
  PROVE  Typed'
<1> DEFINE x == [visits[v] EXCEPT !.reloads = @ - 1]
<1>1. v \in 1..Len(visits) /\ visits[v] \in Visit
  BY DEF Typed, TypeOK
<1>2. x \in Visit /\ x.asked + x.reloads < visits[v].asked + visits[v].reloads
  BY <1>1 DEF ReloadTable, Visit
<1>3. visits' = [visits EXCEPT ![v] = x]
  BY DEF ReloadTable
<1>4. table' \in Table /\ table'.spinning = table.spinning /\ unseen' \in BOOLEAN
  <2>1. Len(categoryNews) \in Nat
    BY DEF Typed, TypeOK
  <2>2. NewTable(Len(categoryNews)) \in Table
    BY <2>1, FreshTable
  <2> QED
    BY <2>2 DEF ReloadTable, Typed, TypeOK, Table
<1>5. visits' \in Seq(Visit) /\ Len(visits') = Len(visits) /\ RequestsBounded'
  <2>1. shown' = shown
    BY DEF ReloadTable
  <2>2. x.asked + x.reloads <= IF v = shown /\ ~table.spinning THEN 1 ELSE 2
    BY <1>1, <1>2 DEF Typed, RequestsBounded, Waiting, Visit
  <2> HIDE DEF x
  <2> QED
    BY <1>1, <1>2, <1>3, <1>4, <2>1, <2>2, WaitingChanges
<1> QED
  BY <1>4, <1>5 DEF ReloadTable, Typed, TypeOK, lists

LEMMA FlagType ==
  ASSUME NEW t \in Table, NEW b \in BOOLEAN
  PROVE  LET u == [t EXCEPT !.saved = b]
         IN  u \in Table /\ u.spinning = t.spinning
BY DEF Table

LEMMA CallEndsTyped ==
  ASSUME Typed, NEW c \in calls, CallEnds(c), calm' \in BOOLEAN
  PROVE  Typed'
<1>1. c \in Call /\ c.article \in Article
  BY DEF Typed, TypeOK, Call
<1>2. calls' = calls \ {c} /\ Release /\ shown' = shown /\ visits' = visits
  BY DEF CallEnds, ImageArrives, BookmarkDone, CallFails, End
<1>3. /\ categoryNews' \in Seq(Article) /\ alive' \subseteq alive
      /\ shown' # 0 => shown' \in alive'
      /\ unseen' \in BOOLEAN /\ \A d \in calls' : d.visit \in alive'
  <2>1. shown' \in alive \/ shown' = 0
    BY <1>2 DEF Typed, TypeOK
  <2> QED
    BY <1>2, <2>1, ReleaseTyped
<1>4. table' \in Table /\ table'.spinning = table.spinning
  <2>1. table \in Table
    BY DEF Typed, TypeOK
  <2>2. CASE ImageArrives(c)
    <3>1. {x \in {c.article} : table.shows # {}} \subseteq Article
      BY <1>1
    <3> QED
      BY <2>1, <2>2, <3>1 DEF ImageArrives, Table
  <2>3. CASE BookmarkDone(c)
    <3>1. (table.shows # {} /\ c.kind = "save") \in BOOLEAN
      OBVIOUS
    <3> QED
      BY <2>1, <2>3, <3>1, FlagType DEF BookmarkDone
  <2>4. CASE CallFails(c)
    BY <2>1, <2>4 DEF CallFails
  <2> QED
    BY <2>2, <2>3, <2>4 DEF CallEnds
<1>5. savedUrls' \subseteq Article /\ UNCHANGED <<trapped, patient>>
  BY <1>1 DEF CallEnds, ImageArrives, BookmarkDone, CallFails, Typed, TypeOK
<1>6. IsFiniteSet(calls')
  BY <1>2, FS_RemoveElement DEF Typed
<1>7. RequestsBounded'
  BY <1>2, <1>4 DEF Typed, RequestsBounded, Waiting
<1> QED
  BY <1>2, <1>3, <1>4, <1>5, <1>6, <1>7 DEF Typed, TypeOK

LEMMA VisitHere ==
  ASSUME Typed, NEW v \in DOMAIN visits
  PROVE  /\ v \in 1..Len(visits) /\ visits[v] \in Visit
         /\ visits[v].category \in Category
         /\ visits[v].asked \in Nat /\ visits[v].reloads \in Nat
<1>1. v \in 1..Len(visits) /\ visits[v] \in Visit
  BY DEF Typed, TypeOK
<1> QED
  BY <1>1 DEF Visit

LEMMA TypedStep == Typed /\ [Next]_vars => Typed'
<1> SUFFICES ASSUME Typed, [Next]_vars PROVE Typed'
  OBVIOUS
<1>1. CASE Ask /\ calm' = (calm /\ Settled)
  <2>0. calm' \in BOOLEAN
    BY <1>1
  <2>1. ASSUME NEW c \in Category, Open(c) PROVE Typed'
    BY <2>0, <2>1, OpenTyped
  <2>2. CASE Leave
    BY <2>0, <2>2, LeaveTyped
  <2>3. CASE Pull
    BY <2>0, <2>3, PullTyped
  <2>4. ASSUME NEW r \in RowsThere, Draw(r) PROVE Typed'
    BY <2>0, <2>4, DrawTyped
  <2>5. ASSUME NEW r \in RowsThere, Swipe(r) PROVE Typed'
    BY <2>0, <2>5, SwipeTyped
  <2>6. CASE TouchMissing
    BY <2>0, <2>6, TrapTyped
  <2> QED
    BY <1>1, <2>1, <2>2, <2>3, <2>4, <2>5, <2>6 DEF Ask
<1>2. CASE MemoryWarning /\ calm' = FALSE
  BY <1>2, TrapTyped
<1>3. CASE Answer /\ UNCHANGED calm
  <2>0. calm' \in BOOLEAN
    BY <1>3 DEF Typed, TypeOK
  <2>1. ASSUME NEW v \in DOMAIN visits, NEW n \in Sizes, Arrives(v, n) PROVE Typed'
    BY <2>0, <2>1, ArrivesTyped
  <2>2. ASSUME NEW v \in DOMAIN visits, ReloadTable(v) PROVE Typed'
    BY <2>0, <2>2, ReloadTyped
  <2>3. ASSUME NEW v \in DOMAIN visits, ReloadNothing(v) PROVE Typed'
    BY <2>0, <2>3, TrapTyped
  <2>4. ASSUME NEW c \in calls, CallEnds(c) PROVE Typed'
    BY <2>0, <2>4, CallEndsTyped
  <2> QED
    BY <1>3, <2>1, <2>2, <2>3, <2>4 DEF Answer
<1>4. CASE UNCHANGED vars
  BY <1>4 DEF vars, lists, screen, Typed, TypeOK, RequestsBounded, Waiting
<1> QED
  BY <1>1, <1>2, <1>3, <1>4 DEF Next

(***************************************************************************)
(* CategoryTypes: every state is well typed; in particular a visit has at  *)
(* most two requests and blocks under way.                                 *)
(***************************************************************************)
THEOREM CategoryTypes == Spec => []TypeOK
<1>1. Typed => TypeOK
  BY DEF Typed
<1> QED
  BY <1>1, InitTyped, TypedStep, PTL DEF Spec

-----------------------------------------------------------------------------
(* The table.                                                              *)

\* A deinit changes the list only where the history says so.
LEMMA ReleaseTells ==
  ASSUME Release PROVE UNCHANGED <<categoryNews, unseen>> \/ unseen'
BY DEF Release

LEMMA CatchUpStep ==
  Typed /\ CategoryCatchesUp /\ [Next]_vars => CategoryCatchesUp'
<1> SUFFICES ASSUME Typed, CategoryCatchesUp, [Next]_vars PROVE CategoryCatchesUp'
  OBVIOUS
<1>1. CASE Ask
  <2>1. ASSUME NEW c \in Category, Open(c) PROVE CategoryCatchesUp'
    BY <2>1 DEF Open, lists, NewTable, CategoryCatchesUp
  <2>2. CASE Leave
    BY <2>2 DEF Leave, CategoryCatchesUp
  <2>3. CASE Pull
    <3>1. table'.rows = table.rows
      BY <2>3 DEF Pull, Typed, TypeOK, Table
    <3>2. visits'[shown].reloads = visits[shown].reloads
      BY <2>3 DEF Pull, Typed, TypeOK, Visit
    <3> QED
      BY <2>3, <3>1, <3>2 DEF Pull, lists, CategoryCatchesUp
  <2>4. ASSUME NEW r \in RowsThere, Draw(r) PROVE CategoryCatchesUp'
    <3>1. table'.rows = table.rows
      BY <2>4 DEF Draw, ShowImage, Typed, TypeOK, Table
    <3> QED
      BY <2>4, <3>1 DEF Draw, lists, CategoryCatchesUp
  <2>5. ASSUME NEW r \in RowsThere, Swipe(r) PROVE CategoryCatchesUp'
    BY <2>5 DEF Swipe, lists, CategoryCatchesUp
  <2>6. CASE TouchMissing
    BY <2>6 DEF TouchMissing, lists, screen, CategoryCatchesUp
  <2> QED
    BY <1>1, <2>1, <2>2, <2>3, <2>4, <2>5, <2>6 DEF Ask
<1>2. CASE MemoryWarning
  BY <1>2 DEF MemoryWarning, CategoryCatchesUp
<1>3. CASE Answer
  <2>1. ASSUME NEW v \in DOMAIN visits, NEW n \in Sizes, Arrives(v, n)
        PROVE  CategoryCatchesUp'
    <3>1. CASE v = shown
      <4>1. visits[v].reloads \in Nat /\ visits[v] \in Visit
        BY VisitHere
      <4>2. visits'[shown].reloads = visits[v].reloads + 1
        BY <2>1, <3>1, <4>1 DEF Arrives, Visit
      <4>3. visits'[shown].reloads # 0
        BY <4>1, <4>2
      <4> QED
        BY <2>1, <4>3 DEF Arrives, CategoryCatchesUp
    <3>2. CASE v # shown
      BY <2>1, <3>2 DEF Arrives, CategoryCatchesUp
    <3> QED
      BY <3>1, <3>2
  <2>2. ASSUME NEW v \in DOMAIN visits, ReloadTable(v) PROVE CategoryCatchesUp'
    <3>1. CASE v = shown
      BY <2>2, <3>1 DEF ReloadTable, NewTable, lists, CategoryCatchesUp
    <3>2. CASE v # shown
      <4>1. shown # 0 => visits'[shown] = visits[shown]
        BY <2>2, <3>2 DEF ReloadTable, Typed, TypeOK
      <4> QED
        BY <2>2, <3>2, <4>1 DEF ReloadTable, lists, CategoryCatchesUp
    <3> QED
      BY <3>1, <3>2
  <2>3. ASSUME NEW v \in DOMAIN visits, ReloadNothing(v) PROVE CategoryCatchesUp'
    BY <2>3 DEF ReloadNothing, lists, screen, CategoryCatchesUp
  <2>4. ASSUME NEW c \in calls, CallEnds(c) PROVE CategoryCatchesUp'
    <3>1. table'.rows = table.rows
      BY <2>4 DEF CallEnds, ImageArrives, BookmarkDone, CallFails, Typed, TypeOK, Table
    <3>2. Release /\ UNCHANGED <<visits, shown>>
      BY <2>4 DEF CallEnds, ImageArrives, BookmarkDone, CallFails
    <3> QED
      BY <3>1, <3>2, ReleaseTells DEF CategoryCatchesUp
  <2> QED
    BY <1>3, <2>1, <2>2, <2>3, <2>4 DEF Answer
<1>4. CASE UNCHANGED vars
  BY <1>4 DEF vars, lists, screen, CategoryCatchesUp
<1> QED
  BY <1>1, <1>2, <1>3, <1>4 DEF Next

(***************************************************************************)
(* TableShowsCategory: whatever the reader does, without a reload on its   *)
(* way the table shown has a row for each article of the list, unless the  *)
(* list was changed behind it (CategoryViewController.swift:61-66).        *)
(***************************************************************************)
THEOREM TableShowsCategory == Spec => []CategoryCatchesUp
<1>1. Init => CategoryCatchesUp
  BY DEF Init, CategoryCatchesUp
<1> QED
  BY <1>1, InitTyped, TypedStep, CatchUpStep, PTL DEF Spec

-----------------------------------------------------------------------------
(* A reader who waits.                                                     *)

Shape == ListInPlace /\ OneCell

LEMMA ShapeStep == Typed /\ Shape /\ [Next]_vars => Shape'
<1> SUFFICES ASSUME Typed, Shape, [Next]_vars PROVE Shape'
  OBVIOUS
<1>1. ListInPlace'
  <2>1. CASE UNCHANGED categoryNews \/ categoryNews' = <<>>
    BY <2>1 DEF Shape, ListInPlace
  <2>2. ASSUME NEW v \in DOMAIN visits, NEW n \in Sizes, Arrives(v, n)
        PROVE  ListInPlace'
    <3>1. visits[v].category \in Category
      BY VisitHere
    <3> QED
      BY <2>2, <3>1, AnswerType DEF Arrives, ListInPlace
  <2>3. CASE Release
    BY <2>1, <2>3 DEF Release
  <2> QED
    BY <2>1, <2>2, <2>3 DEF Next, Ask, Answer, Open, Leave, Pull, Draw, Swipe,
       TouchMissing, MemoryWarning, ReloadTable, ReloadNothing, CallEnds,
       ImageArrives, BookmarkDone, CallFails, vars, lists
<1>2. OneCell'
  <2>1. CASE table'.shows = table.shows
    BY <2>1 DEF Shape, OneCell
  <2>2. ASSUME NEW n \in Nat, NEW b \in BOOLEAN, table' = [NewTable(n) EXCEPT !.spinning = b]
        PROVE  OneCell'
    BY <2>2 DEF NewTable, OneCell
  <2>3. ASSUME NEW n \in Nat, table' = NewTable(n) PROVE OneCell'
    BY <2>3 DEF NewTable, OneCell
  <2>4. ASSUME NEW r \in RowsThere, Draw(r) PROVE OneCell'
    BY <2>4 DEF Draw, ShowImage, OneCell, Typed, TypeOK, Table
  <2>5. Len(categoryNews) \in Nat /\ table.spinning \in BOOLEAN /\ table \in Table
    BY DEF Typed, TypeOK, Table
  <2>6. CASE Ask
    <3>1. CASE Pull
      BY <2>1, <2>5, <3>1 DEF Pull, Table
    <3>2. ASSUME NEW c \in Category, Open(c) PROVE OneCell'
      BY <2>3, <2>5, <3>2 DEF Open
    <3>3. CASE Leave
      BY <2>3, <3>3 DEF Leave
    <3> QED
      BY <2>1, <2>4, <2>6, <3>1, <3>2, <3>3 DEF Ask, Swipe, TouchMissing, screen
  <2>7. CASE Answer
    <3>1. ASSUME NEW v \in DOMAIN visits, ReloadTable(v) PROVE OneCell'
      BY <2>1, <2>2, <2>5, <3>1 DEF ReloadTable
    <3>2. ASSUME NEW c \in calls, CallEnds(c) PROVE OneCell'
      BY <2>1, <2>5, <3>2 DEF CallEnds, ImageArrives, BookmarkDone, CallFails, Table
    <3> QED
      BY <2>1, <2>7, <3>1, <3>2 DEF Answer, Arrives, ReloadNothing, screen
  <2> QED
    BY <2>1, <2>6, <2>7 DEF Next, MemoryWarning, vars, screen
<1> QED
  BY <1>1, <1>2 DEF Shape

LEMMA WaitingHere ==
  ASSUME Typed, NEW v \in DOMAIN visits
  PROVE  /\ Waiting(v) \in Nat
         /\ Waiting(v) = 0 <=> visits[v].asked = 0 /\ visits[v].reloads = 0
BY VisitHere DEF Waiting

LEMMA LeftStep ==
  ASSUME Typed, NoneLeftWaiting, [Next]_vars
  PROVE  NoneLeftWaiting'
<1>1. CASE UNCHANGED <<visits, shown, patient>>
  BY <1>1 DEF NoneLeftWaiting, Waiting
<1>2. ASSUME NEW c \in Category, Open(c) PROVE NoneLeftWaiting'
  <2> SUFFICES ASSUME patient, NEW v \in 1..Len(visits'), v # shown'
               PROVE  Waiting(v)' = 0
    BY <1>2 DEF Open, NoneLeftWaiting
  <2>1. v \in 1..Len(visits) /\ visits'[v] = visits[v] /\ v # shown
    BY <1>2 DEF Open, Typed, TypeOK
  <2> QED
    BY <2>1 DEF NoneLeftWaiting, Waiting
<1>3. CASE Leave
  BY <1>3 DEF Leave, NoneLeftWaiting, Waiting
<1>4. ASSUME NEW v \in DOMAIN visits, NEW x \in Visit,
             visits' = [visits EXCEPT ![v] = x], UNCHANGED <<shown, patient>>,
             Waiting(v) # 0 \/ v = shown
      PROVE  NoneLeftWaiting'
  <2> SUFFICES ASSUME patient, NEW w \in 1..Len(visits'), w # shown
               PROVE  Waiting(w)' = 0
    BY <1>4 DEF NoneLeftWaiting
  <2>1. w \in 1..Len(visits) /\ Len(visits') = Len(visits)
    BY <1>4, VisitHere, OneVisitChanges DEF Typed, TypeOK
  <2>2. Waiting(w) = 0
    BY <2>1 DEF NoneLeftWaiting
  <2>3. visits'[w] = visits[w]
    BY <1>4, <2>1, <2>2
  <2> QED
    BY <2>2, <2>3 DEF Waiting
<1>5. CASE Pull
  <2>1. shown \in DOMAIN visits
    BY <1>5 DEF Pull, Typed, TypeOK
  <2>2. [visits[shown] EXCEPT !.asked = @ + 1] \in Visit
    <3>1. visits[shown].asked + visits[shown].reloads <= 1
      BY <1>5, <2>1, VisitHere DEF Pull, Typed, RequestsBounded, Waiting
    <3> QED
      BY <2>1, <3>1, VisitHere DEF Visit
  <2> QED
    BY <1>4, <1>5, <2>1, <2>2 DEF Pull
<1>6. ASSUME NEW v \in DOMAIN visits, NEW n \in Sizes, Arrives(v, n)
      PROVE  NoneLeftWaiting'
  <2>1. visits[v].asked + visits[v].reloads <= 2
    BY VisitHere DEF Typed, RequestsBounded, Waiting
  <2>2. [visits[v] EXCEPT !.asked = @ - 1, !.reloads = @ + 1] \in Visit
    <3>1. visits[v] \in Visit
      BY VisitHere
    <3> QED
      BY <1>6, <2>1, <3>1 DEF Arrives, Visit
  <2>3. Waiting(v) # 0
    BY <1>6, WaitingHere, VisitHere DEF Arrives
  <2> QED
    BY <1>4, <1>6, <2>2, <2>3 DEF Arrives
<1>7. ASSUME NEW v \in DOMAIN visits, ReloadTable(v)
      PROVE  NoneLeftWaiting'
  <2>1. [visits[v] EXCEPT !.reloads = @ - 1] \in Visit
    <3>1. visits[v] \in Visit
      BY VisitHere
    <3> QED
      BY <1>7, <3>1 DEF ReloadTable, Visit
  <2>2. Waiting(v) # 0
    BY <1>7, WaitingHere, VisitHere DEF ReloadTable
  <2> QED
    BY <1>4, <1>7, <2>1, <2>2 DEF ReloadTable
<1> QED
  BY <1>1, <1>2, <1>3, <1>5, <1>6, <1>7 DEF Next, Ask, Answer, Draw, Swipe,
     TouchMissing, MemoryWarning, ReloadNothing, CallEnds, ImageArrives,
     BookmarkDone, CallFails, vars, screen

-----------------------------------------------------------------------------

CalmInv ==
  /\ NoneLeftWaiting
  /\ CalmScreen
  /\ ListOfShown
  /\ CategoryNeverTraps
  /\ CellOfArticle

LEMMA InitCalm == Init => CalmInv /\ Shape /\ CategoryCatchesUp
BY DEF Init, CalmInv, NoneLeftWaiting, CalmScreen, ListOfShown, CategoryNeverTraps,
       CellOfArticle, Shape, ListInPlace, OneCell, CategoryCatchesUp, NewTable

LEMMA WaitsForNothing ==
  ASSUME Typed, Settled
  PROVE  calls = {} /\ \A v \in 1..Len(visits) : Waiting(v) = 0
BY DEF Settled, Waiting

\* Once all is answered the rows are the list.
LEMMA SettledRows ==
  ASSUME Typed, CategoryCatchesUp, shown # 0, ~unseen, Settled
  PROVE  table.rows = Len(categoryNews)
<1>1. shown \in DOMAIN visits /\ shown \in 1..Len(visits)
  BY DEF Typed, TypeOK
<1>2. visits[shown].reloads = 0
  BY <1>1, WaitsForNothing, WaitingHere
<1> QED
  BY <1>2 DEF CategoryCatchesUp

\* What remains of the invariant, when the list and the cell are right.
LEMMA CalmFollows ==
  ASSUME Typed', CategoryCatchesUp', CalmScreen',
         NoneLeftWaiting',
         calm' /\ shown' # 0 =>
           \A i \in 1..Len(categoryNews') :
             categoryNews'[i].category = visits'[shown'].category,
         CategoryNeverTraps', CellOfArticle'
  PROVE  CalmInv'
<1>1. ASSUME calm', shown' # 0, Settled' PROVE table'.rows = Len(categoryNews')
  <2>1. ~unseen'
    BY <1>1 DEF CalmScreen
  <2>2. shown' \in 1..Len(visits') /\ visits'[shown'] \in Visit
    BY <1>1 DEF Typed, TypeOK
  <2>3. visits'[shown'].asked + visits'[shown'].reloads = 0
    BY <1>1, <2>2 DEF Settled
  <2>4. visits'[shown'].reloads = 0
    BY <2>2, <2>3 DEF Visit
  <2> QED
    BY <1>1, <2>1, <2>4 DEF CategoryCatchesUp
<1> QED
  BY <1>1 DEF CalmInv, ListOfShown

Invariants == Typed /\ Shape /\ CategoryCatchesUp /\ CalmInv

LEMMA OpenCalm ==
  ASSUME Invariants, Typed', NoneLeftWaiting', CategoryCatchesUp', trapped = "no",
         NEW c \in Category, Open(c), calm' = (calm /\ Settled)
  PROVE  CalmInv'
<1>1. calm => categoryNews = <<>> /\ alive = {} /\ patient
  BY DEF Invariants, CalmInv, CalmScreen, Open, Typed, TypeOK
<1>2. calm' => calm /\ calls = {}
  BY DEF Settled
<1>3. table'.shows = {} /\ shown' # 0
  BY DEF Open, NewTable, Typed, TypeOK, Invariants
<1>4. CalmScreen'
  BY <1>1, <1>2, <1>3 DEF Open, CalmScreen
<1>5. CategoryNeverTraps' /\ CellOfArticle'
  BY <1>3 DEF Open, CategoryNeverTraps, CellOfArticle
<1>6. calm' => categoryNews' = <<>>
  BY <1>1, <1>2 DEF Open, lists
<1> QED
  BY <1>4, <1>5, <1>6, CalmFollows

LEMMA LeaveCalm ==
  ASSUME Invariants, Typed', NoneLeftWaiting', CategoryCatchesUp', trapped = "no",
         Leave, calm' = (calm /\ Settled)
  PROVE  CalmInv'
<1>1. ASSUME calm' PROVE alive' = {} /\ categoryNews' = <<>> /\ patient'
  <2>1. calls' = {} /\ shown' = 0 /\ patient
    BY <1>1 DEF Settled, Leave, Invariants, CalmInv, CalmScreen
  <2>2. alive' = {}
    <3>1. 0 \notin alive
      BY DEF Invariants, Typed, TypeOK
    <3> QED
      BY <2>1, <3>1 DEF Leave, Release
  <2>3. alive # {}
    BY DEF Leave, Invariants, Typed, TypeOK
  <2>4. visits[shown].asked + visits[shown].reloads = 0
    BY <1>1 DEF Settled, Leave, Invariants, Typed, TypeOK
  <2> QED
    BY <2>1, <2>2, <2>3, <2>4 DEF Leave, Release
<1>2. shown' = 0 /\ table'.shows = {} /\ UNCHANGED trapped
  BY DEF Leave, NewTable
<1>3. CalmScreen'
  BY <1>1, <1>2 DEF CalmScreen
<1>4. CategoryNeverTraps' /\ CellOfArticle'
  BY <1>2 DEF CategoryNeverTraps, CellOfArticle
<1> QED
  BY <1>2, <1>3, <1>4, CalmFollows

LEMMA PullCalm ==
  ASSUME Invariants, Typed', NoneLeftWaiting', CategoryCatchesUp', trapped = "no",
         Pull, calm' = (calm /\ Settled)
  PROVE  CalmInv'
<1>1. /\ table'.shows = table.shows /\ table'.image = table.image
      /\ table'.saved = table.saved
  BY DEF Pull, Invariants, Typed, TypeOK, Table
<1>2. visits'[shown].category = visits[shown].category
  BY DEF Pull, Invariants, Typed, TypeOK
<1>3. UNCHANGED <<categoryNews, savedUrls, shown, alive, calls, trapped, unseen, patient>>
  BY DEF Pull, lists
<1>4. CalmScreen'
  <2>1. shown # 0 /\ shown' # 0
    BY <1>3 DEF Pull
  <2>2. calm' => /\ patient' /\ alive' \subseteq {shown'} /\ ~unseen'
                 /\ \A d \in calls' : table'.shows \subseteq {d.article}
    BY <1>1, <1>3, <2>1 DEF Invariants, CalmInv, CalmScreen
  <2>3. calm' => \A z \in table'.shows : z.category = visits'[shown'].category
    BY <1>1, <1>2, <1>3, <2>1 DEF Invariants, CalmInv, CalmScreen
  <2> QED
    BY <2>1, <2>2, <2>3 DEF CalmScreen
<1>5. CategoryNeverTraps' /\ CellOfArticle'
  BY <1>1, <1>3 DEF Invariants, CalmInv, CategoryNeverTraps, CellOfArticle
<1> QED
  BY <1>2, <1>3, <1>4, <1>5, CalmFollows DEF Invariants, CalmInv, ListOfShown

LEMMA DrawCalm ==
  ASSUME Invariants, Typed', NoneLeftWaiting', CategoryCatchesUp', trapped = "no",
         NEW r \in RowsThere, Draw(r), calm' = (calm /\ Settled)
  PROVE  CalmInv'
<1> DEFINE x == categoryNews[r]
<1>1. shown # 0 /\ r \in 1..Len(categoryNews)
  BY RowsHaveArticles DEF Invariants
<1>2. /\ table'.shows = {x} /\ table'.image \subseteq {x}
      /\ table'.saved = (x \in savedUrls)
  BY DEF Draw, ShowImage, Invariants, Typed, TypeOK, Table
<1>3. UNCHANGED <<categoryNews, savedUrls, visits, shown, alive, trapped, unseen, patient>>
  BY DEF Draw, lists
<1>4. ASSUME calm' PROVE \A d \in calls' : d.article = x
  <2>1. calls = {}
    BY <1>4 DEF Settled
  <2>2. UNCHANGED calls \/ StartCall("image", x)
    BY DEF Draw, ShowImage
  <2> HIDE DEF x
  <2> QED
    BY <2>1, <2>2 DEF StartCall
<1>5. calm' => x.category = visits[shown].category
  BY <1>1 DEF Invariants, CalmInv, ListOfShown
<1> HIDE DEF x
<1>6. CalmScreen'
  BY <1>1, <1>2, <1>3, <1>4, <1>5 DEF Invariants, CalmInv, CalmScreen
<1>7. CategoryNeverTraps' /\ CellOfArticle'
  BY <1>2, <1>3 DEF CategoryNeverTraps, CellOfArticle
<1> QED
  BY <1>3, <1>6, <1>7, CalmFollows DEF Invariants, CalmInv, ListOfShown

LEMMA SwipeCalm ==
  ASSUME Invariants, Typed', NoneLeftWaiting', CategoryCatchesUp', trapped = "no",
         NEW r \in RowsThere, Swipe(r), calm' = (calm /\ Settled)
  PROVE  CalmInv'
<1>1. shown # 0 /\ r \in 1..Len(categoryNews) /\ categoryNews[r] \in Article
  BY RowsHaveArticles DEF Invariants
<1>2. PICK x \in table.shows : x.place = r
  BY DEF Swipe
<1>3. table.shows = {x} /\ x \in Article
  <2>1. x \in Article
    BY DEF Invariants, Typed, TypeOK, Table
  <2> QED
    BY <2>1 DEF Invariants, Shape, OneCell
<1>4. UNCHANGED <<categoryNews, savedUrls, visits, shown, table, alive, trapped, unseen, patient>>
  BY DEF Swipe, lists
<1>5. ASSUME calm' PROVE categoryNews[r] = x
  <2>1. /\ categoryNews[r].category = visits[shown].category
        /\ x.category = visits[shown].category
    BY <1>1, <1>5 DEF Invariants, CalmInv, ListOfShown, CalmScreen
  <2>2. categoryNews[r].place = r
    BY <1>1 DEF Invariants, Shape, ListInPlace
  <2> QED
    BY <1>1, <1>2, <1>3, <2>1, <2>2 DEF Article
<1>6. ASSUME calm' PROVE \A d \in calls' : d.article = x
  <2>1. calls = {}
    BY <1>6 DEF Settled
  <2>2. StartCall("save", x) \/ StartCall("unsave", x)
    BY <1>5, <1>6 DEF Swipe
  <2> QED
    BY <2>1, <2>2 DEF StartCall
<1>7. CalmScreen'
  BY <1>3, <1>4, <1>6 DEF Invariants, CalmInv, CalmScreen
<1>8. CategoryNeverTraps' /\ CellOfArticle'
  BY <1>4 DEF Invariants, CalmInv, CategoryNeverTraps, CellOfArticle
<1> QED
  BY <1>4, <1>7, <1>8, CalmFollows DEF Invariants, CalmInv, ListOfShown

LEMMA TrapCalm ==
  ASSUME Invariants, Typed', NoneLeftWaiting', CategoryCatchesUp', trapped = "no",
         \/ TouchMissing /\ calm' = (calm /\ Settled)
         \/ (\E v \in DOMAIN visits : ReloadNothing(v)) /\ UNCHANGED calm
  PROVE  CalmInv'
<1>1. UNCHANGED <<lists, screen, unseen, patient>>
  BY DEF TouchMissing, ReloadNothing
<1>2. CategoryNeverTraps' /\ (calm' => calm)
  <2>1. CASE TouchMissing /\ calm' = (calm /\ Settled)
    <3>1. ~(calm /\ Settled)
      <4> SUFFICES ASSUME calm, Settled PROVE FALSE
        OBVIOUS
      <4>1. ~unseen /\ shown # 0
        BY <2>1 DEF TouchMissing, Invariants, CalmInv, CalmScreen
      <4>2. table.rows = Len(categoryNews)
        BY <4>1, SettledRows DEF Invariants
      <4> QED
        BY <2>1, <4>2 DEF TouchMissing, Invariants, Typed, TypeOK, Table
    <3> QED
      BY <2>1, <3>1 DEF TouchMissing, CategoryNeverTraps
  <2>2. ASSUME NEW v \in DOMAIN visits, ReloadNothing(v), UNCHANGED calm
        PROVE  CategoryNeverTraps'
    <3>1. v # shown
      BY <2>2, VisitHere DEF ReloadNothing, Invariants, Typed, TypeOK
    <3>2. Waiting(v) # 0
      BY <2>2, VisitHere, WaitingHere DEF ReloadNothing, Invariants
    <3>3. ~patient
      BY <3>1, <3>2, VisitHere DEF Invariants, CalmInv, NoneLeftWaiting
    <3>4. ~calm
      BY <3>3 DEF Invariants, CalmInv, CalmScreen
    <3> QED
      BY <1>1, <2>2, <3>3, <3>4 DEF CategoryNeverTraps
  <2> QED
    BY <2>1, <2>2
<1>3. CalmScreen' /\ CellOfArticle'
  BY <1>1, <1>2 DEF lists, screen, Invariants, CalmInv, CalmScreen, CellOfArticle
<1> QED
  BY <1>1, <1>2, <1>3, CalmFollows DEF lists, screen, Invariants, CalmInv, ListOfShown

LEMMA MemoryCalm ==
  ASSUME Invariants, Typed', NoneLeftWaiting', CategoryCatchesUp', trapped = "no",
         MemoryWarning, calm' = FALSE
  PROVE  CalmInv'
BY CalmFollows DEF MemoryWarning, CalmScreen, CategoryNeverTraps, CellOfArticle

LEMMA ArrivesCalm ==
  ASSUME Invariants, Typed', NoneLeftWaiting', CategoryCatchesUp', trapped = "no",
         NEW v \in DOMAIN visits, NEW n \in Sizes, Arrives(v, n), UNCHANGED calm
  PROVE  CalmInv'
<1>1. calm => v = shown
  <2>1. Waiting(v) # 0
    BY VisitHere, WaitingHere DEF Arrives, Invariants
  <2> QED
    BY <2>1, VisitHere DEF Invariants, CalmInv, CalmScreen, NoneLeftWaiting
<1>2. visits[v].category \in Category /\ visits'[v].category = visits[v].category
  <2>1. visits[v] \in Visit /\ v \in DOMAIN visits
    BY VisitHere DEF Invariants
  <2>2. visits'[v] = [visits[v] EXCEPT !.asked = @ - 1, !.reloads = @ + 1]
    BY <2>1 DEF Arrives
  <2> QED
    BY <2>1, <2>2 DEF Visit
<1>3. UNCHANGED <<savedUrls, shown, table, alive, calls, trapped, patient>>
  BY DEF Arrives
<1>4. CalmScreen'
  <2>1. calm => ~unseen' /\ shown # 0
    <3>1. v # 0
      BY VisitHere DEF Invariants
    <3>2. calm /\ shown # 0 => ~unseen
      BY DEF Invariants, CalmInv, CalmScreen
    <3>3. unseen' = (unseen \/ v # shown)
      BY DEF Arrives
    <3>4. unseen \in BOOLEAN /\ unseen' \in BOOLEAN
      BY DEF Invariants, Typed, TypeOK
    <3> QED
      BY <1>1, <3>1, <3>2, <3>3, <3>4
  <2> QED
    BY <1>1, <1>2, <1>3, <2>1 DEF Invariants, CalmInv, CalmScreen
<1>5. CategoryNeverTraps' /\ CellOfArticle'
  BY <1>3 DEF Invariants, CalmInv, CategoryNeverTraps, CellOfArticle
<1>6. calm => \A i \in 1..Len(categoryNews') :
                categoryNews'[i].category = visits'[shown'].category
  BY <1>1, <1>2, <1>3, AnswerType DEF Arrives
<1> QED
  BY <1>4, <1>5, <1>6, CalmFollows

LEMMA ReloadCalm ==
  ASSUME Invariants, Typed', NoneLeftWaiting', CategoryCatchesUp', trapped = "no",
         NEW v \in DOMAIN visits, ReloadTable(v), UNCHANGED calm
  PROVE  CalmInv'
<1>1. UNCHANGED <<categoryNews, savedUrls, shown, alive, calls, trapped, patient>>
  BY DEF ReloadTable, lists
<1>2. table'.shows = {} \/ UNCHANGED table
  BY DEF ReloadTable, NewTable
<1>3. unseen' => unseen
  BY DEF ReloadTable
<1>4. shown # 0 => visits'[shown].category = visits[shown].category
  BY VisitHere DEF ReloadTable, Invariants, Typed, TypeOK
<1>5. CalmScreen'
  BY <1>1, <1>2, <1>3, <1>4 DEF Invariants, CalmInv, CalmScreen
<1>6. CategoryNeverTraps' /\ CellOfArticle'
  BY <1>1, <1>2 DEF Invariants, CalmInv, CategoryNeverTraps, CellOfArticle
<1> QED
  BY <1>1, <1>4, <1>5, <1>6, CalmFollows DEF Invariants, CalmInv, ListOfShown

LEMMA CallCalm ==
  ASSUME Invariants, Typed', NoneLeftWaiting', CategoryCatchesUp', trapped = "no",
         NEW c \in calls, CallEnds(c), UNCHANGED calm
  PROVE  CalmInv'
<1>1. /\ calls' = calls \ {c} /\ Release
      /\ UNCHANGED <<visits, shown, trapped, patient>>
  BY DEF CallEnds, ImageArrives, BookmarkDone, CallFails, End
<1>2. table'.shows = table.shows
  BY DEF CallEnds, ImageArrives, BookmarkDone, CallFails, Invariants, Typed, TypeOK, Table
<1>3. calm => c.visit = shown /\ table.shows \subseteq {c.article}
  BY DEF Invariants, CalmInv, CalmScreen, Typed, TypeOK
<1>4. calm => UNCHANGED <<categoryNews, unseen, alive>>
  <2> SUFFICES ASSUME calm PROVE UNCHANGED <<categoryNews, unseen, alive>>
    OBVIOUS
  <2>1. \A v \in alive : v = shown'
    BY <1>1 DEF Invariants, CalmInv, CalmScreen
  <2>2. alive' = alive
    BY <1>1, <2>1 DEF Release
  <2> QED
    BY <1>1, <2>2 DEF Release
<1>5. CalmScreen'
  BY <1>1, <1>2, <1>4 DEF Invariants, CalmInv, CalmScreen
<1>6. CategoryNeverTraps'
  BY <1>1 DEF CategoryNeverTraps
<1>7. CellOfArticle'
  <2> SUFFICES ASSUME calm, NEW x \in table.shows
               PROVE  table'.image \subseteq {x} /\ (table'.saved <=> x \in savedUrls')
    BY <1>2 DEF CellOfArticle
  <2>1. x = c.article /\ c.visit = shown
    BY <1>3
  <2>2. table.image \subseteq {x} /\ (table.saved <=> x \in savedUrls)
    BY DEF Invariants, CalmInv, CellOfArticle
  <2>3. CASE ImageArrives(c)
    BY <2>1, <2>2, <2>3 DEF ImageArrives, Invariants, Typed, TypeOK, Table
  <2>4. CASE BookmarkDone(c)
    BY <2>1, <2>2, <2>4 DEF BookmarkDone, Invariants, Typed, TypeOK, Table, Call
  <2>5. CASE CallFails(c)
    BY <2>2, <2>5 DEF CallFails
  <2> QED
    BY <2>3, <2>4, <2>5 DEF CallEnds
<1> QED
  BY <1>1, <1>4, <1>5, <1>6, <1>7, CalmFollows DEF Invariants, CalmInv, ListOfShown

LEMMA CalmStutters ==
  ASSUME Invariants, UNCHANGED vars
  PROVE  CalmInv'
<1>1. UNCHANGED <<categoryNews, savedUrls, visits, shown, table, alive, calls,
                  trapped, unseen, calm, patient>>
  BY DEF vars, lists, screen
<1>2. NoneLeftWaiting' /\ CalmScreen' /\ CategoryNeverTraps' /\ CellOfArticle'
  BY <1>1 DEF Invariants, CalmInv, NoneLeftWaiting, Waiting, CalmScreen,
     CategoryNeverTraps, CellOfArticle
<1>3. ListOfShown'
  <2>1. Settled' = Settled
    BY <1>1 DEF Settled
  <2> QED
    BY <1>1, <2>1 DEF Invariants, CalmInv, ListOfShown
<1> QED
  BY <1>2, <1>3 DEF CalmInv

LEMMA InvariantsStep == Invariants /\ [Next]_vars => Invariants'
<1> SUFFICES ASSUME Invariants, [Next]_vars PROVE Invariants'
  OBVIOUS
<1>1. Typed' /\ Shape' /\ CategoryCatchesUp' /\ NoneLeftWaiting'
  BY TypedStep, ShapeStep, CatchUpStep, LeftStep DEF Invariants, CalmInv
<1>2. CalmInv'
  <2>1. CASE UNCHANGED vars
    BY <2>1, CalmStutters
  <2>2. CASE Next /\ Ask /\ calm' = (calm /\ Settled)
    <3>1. trapped = "no"
      BY <2>2 DEF Next
    <3>2. ASSUME NEW c \in Category, Open(c) PROVE CalmInv'
      BY <1>1, <2>2, <3>1, <3>2, OpenCalm
    <3>3. CASE Leave
      BY <1>1, <2>2, <3>1, <3>3, LeaveCalm
    <3>4. CASE Pull
      BY <1>1, <2>2, <3>1, <3>4, PullCalm
    <3>5. ASSUME NEW r \in RowsThere, Draw(r) PROVE CalmInv'
      BY <1>1, <2>2, <3>1, <3>5, DrawCalm
    <3>6. ASSUME NEW r \in RowsThere, Swipe(r) PROVE CalmInv'
      BY <1>1, <2>2, <3>1, <3>6, SwipeCalm
    <3>7. CASE TouchMissing
      BY <1>1, <2>2, <3>1, <3>7, TrapCalm
    <3> QED
      BY <2>2, <3>2, <3>3, <3>4, <3>5, <3>6, <3>7 DEF Ask
  <2>3. CASE Next /\ MemoryWarning /\ calm' = FALSE
    BY <1>1, <2>3, MemoryCalm DEF Next
  <2>4. CASE Next /\ Answer /\ UNCHANGED calm
    <3>1. trapped = "no"
      BY <2>4 DEF Next
    <3>2. ASSUME NEW v \in DOMAIN visits, NEW n \in Sizes, Arrives(v, n) PROVE CalmInv'
      BY <1>1, <2>4, <3>1, <3>2, ArrivesCalm
    <3>3. ASSUME NEW v \in DOMAIN visits, ReloadTable(v) PROVE CalmInv'
      BY <1>1, <2>4, <3>1, <3>3, ReloadCalm
    <3>4. ASSUME NEW v \in DOMAIN visits, ReloadNothing(v) PROVE CalmInv'
      BY <1>1, <2>4, <3>1, <3>4, TrapCalm
    <3>5. ASSUME NEW c \in calls, CallEnds(c) PROVE CalmInv'
      BY <1>1, <2>4, <3>1, <3>5, CallCalm
    <3> QED
      BY <2>4, <3>2, <3>3, <3>4, <3>5 DEF Answer
  <2> QED
    BY <2>1, <2>2, <2>3, <2>4 DEF Next
<1> QED
  BY <1>1, <1>2 DEF Invariants

LEMMA InvariantsHold == Spec => []Invariants
<1>1. Init => Invariants
  BY InitTyped, InitCalm DEF Invariants
<1> QED
  BY <1>1, InvariantsStep, PTL DEF Spec

(***************************************************************************)
(* For a reader who waits for each answer, whatever the categories and     *)
(* however many articles they have, the list under a title is that         *)
(* category's and its table counts it once all is answered.                *)
(***************************************************************************)
THEOREM ListIsOfCategoryShown == Spec => []ListOfShown
<1>1. Invariants => ListOfShown
  BY DEF Invariants, CalmInv
<1> QED
  BY <1>1, InvariantsHold, PTL

(***************************************************************************)
(* No index traps for a reader who waits, and no closure finds its         *)
(* controller gone for one who leaves no category before its answers.      *)
(***************************************************************************)
THEOREM CategoryDoesNotTrap == Spec => []CategoryNeverTraps
<1>1. Invariants => CategoryNeverTraps
  BY DEF Invariants, CalmInv
<1> QED
  BY <1>1, InvariantsHold, PTL

(***************************************************************************)
(* For a reader who waits, the image and the flag in a cell are those of   *)
(* the article it shows.                                                   *)
(***************************************************************************)
THEOREM CellShowsItsArticle == Spec => []CellOfArticle
<1>1. Invariants => CellOfArticle
  BY DEF Invariants, CalmInv
<1> QED
  BY <1>1, InvariantsHold, PTL

===============================================================================

------------------------------ MODULE CategoryFeed ------------------------------
(***************************************************************************)
(* Reading one category: ExploreViewController, CategoryViewController,    *)
(* News.shared.categoryNews, Networking.getNewsByCategory and              *)
(* UIImageView.load.                                                       *)
(*                                                                         *)
(* Every visit to a category is a controller of its own; all of them share *)
(* categoryNews.  The closure of a request holds its controller unowned,   *)
(* the closures of image loads and of bookmark calls hold it strongly: a   *)
(* controller the reader has left lives until the last of them ends, and   *)
(* its deinit empties categoryNews then.                                   *)
(*                                                                         *)
(* An article is its category and its place in the answer.  Of the table   *)
(* on the screen one reusable cell is followed; what it shows and the      *)
(* image in it are sets of at most one article.  What is drawn in a table  *)
(* that was left nobody sees or taps, and it is not followed.              *)
(***************************************************************************)
EXTENDS Naturals, Sequences, FiniteSets

CONSTANTS
  Category,      \* the titles of the Explore screen
  Sizes,         \* bound: how many articles an answer may have
  MaxVisits,     \* bound: categories ever opened
  MaxCalls,      \* bound: image loads and bookmark calls in flight
  MaxSaved       \* bound: articles saved at a time

ASSUME CategoryAssumption ==
  /\ Sizes \subseteq Nat /\ MaxVisits \in Nat
  /\ MaxCalls \in Nat /\ MaxSaved \in Nat

Article == [category : Category, place : Nat]
Visit   == [category : Category, asked : 0..2, reloads : 0..2]
Table   == [rows : Nat, spinning : BOOLEAN,
            shows : SUBSET Article, image : SUBSET Article, saved : BOOLEAN]
Call    == [kind : {"image", "save", "unsave"}, visit : Nat,
            article : Article, nr : Nat]

VARIABLES
  categoryNews,  \* News.shared.categoryNews
  savedUrls,     \* the articles whose urls are in News.shared.savedUrls
  visits,        \* the visits so far: requests without an answer, reloadData
                 \* blocks posted
  shown,         \* the visit on the screen, 0 at the list of categories
  table,         \* its table: rows counted, whether it refreshes, its cell
  alive,         \* the visits whose controllers were not deallocated
  calls,         \* image loads and bookmark calls without an answer
  trapped,       \* what ended the app: an index out of range, or a closure
                 \* whose controller was gone
  unseen,        \* history: the list changed behind the table shown
  calm,          \* history: the reader waited for each answer, and the system
                 \* had memory enough
  patient        \* history: no controller was left before its requests ended

lists  == <<categoryNews, savedUrls>>
screen == <<visits, shown, table, alive, calls>>
vars   == <<lists, screen, trapped, unseen, calm, patient>>

NewTable(n) ==
  [rows |-> n, spinning |-> FALSE,
   shows |-> {}, image |-> {}, saved |-> FALSE]

Settled ==
  calls = {} /\ \A v \in 1..Len(visits) : visits[v].asked + visits[v].reloads = 0

\* Calls that are alike are told apart by their number, the last ends first.
Alike(c) == {d \in calls : d.kind = c.kind /\ d.visit = c.visit /\ d.article = c.article}

StartCall(kind, a) ==
  LET c == [kind |-> kind, visit |-> shown, article |-> a] IN
    /\ Cardinality(calls) < MaxCalls
    /\ calls' = calls \union {[kind |-> kind, visit |-> shown, article |-> a,
                               nr |-> Cardinality(Alike(c)) + 1]}

End(c) ==
  /\ \A d \in Alike(c) : d.nr <= c.nr
  /\ calls' = calls \ {c}

-----------------------------------------------------------------------------
(* Mutant: deinit leaves the list.                                         *)

ReleaseSilently ==
  /\ alive' = {v \in alive : v = shown' \/ \E c \in calls' : c.visit = v}
  /\ UNCHANGED <<categoryNews, unseen>>

\* A controller that nothing holds any more is deallocated: its deinit.
Release ==
  /\ alive' = {v \in alive : v = shown' \/ \E c \in calls' : c.visit = v}
  /\ IF alive' = alive
     THEN UNCHANGED <<categoryNews, unseen>>
     ELSE categoryNews' = <<>> /\ unseen' = TRUE

-----------------------------------------------------------------------------
Init ==
  /\ categoryNews = <<>> /\ savedUrls = {}
  /\ visits = <<>> /\ shown = 0 /\ table = NewTable(0)
  /\ alive = {} /\ calls = {}
  /\ trapped = "no"
  /\ unseen = FALSE /\ calm = TRUE /\ patient = TRUE

\* ExploreViewController.didSelectRowAt: the request is sent, the controller
\* is pushed and its table counts the list as it is.
Open(c) ==
  /\ shown = 0 /\ Len(visits) < MaxVisits
  /\ visits' = Append(visits, [category |-> c, asked |-> 1, reloads |-> 0])
  /\ shown' = Len(visits) + 1
  /\ table' = NewTable(Len(categoryNews))
  /\ alive' = alive \union {Len(visits) + 1}
  /\ unseen' = FALSE
  /\ UNCHANGED <<lists, calls, trapped, patient>>

\* The back button.
Leave ==
  /\ shown # 0
  /\ shown' = 0
  /\ table' = NewTable(0)
  /\ UNCHANGED <<savedUrls, visits, calls, trapped>>
  /\ Release
  /\ patient' = (patient /\ visits[shown].asked + visits[shown].reloads = 0)

\* Mutant: a table that is being refreshed can be pulled again.
PullAgain ==
  /\ shown # 0
  /\ visits' = [visits EXCEPT ![shown].asked = @ + 1]
  /\ table' = [table EXCEPT !.spinning = TRUE]
  /\ UNCHANGED <<lists, shown, alive, calls, trapped, unseen, patient>>

\* handleRefresh: nothing ends the refreshing, so a visit is pulled once.
Pull ==
  /\ shown # 0 /\ ~table.spinning
  /\ visits' = [visits EXCEPT ![shown].asked = @ + 1]
  /\ table' = [table EXCEPT !.spinning = TRUE]
  /\ UNCHANGED <<lists, shown, alive, calls, trapped, unseen, patient>>

RowsThere ==
  {r \in 1..table.rows : shown # 0 /\ r <= Len(categoryNews)}

\* The image of a in the cell: none if a names no image, the one in the cache,
\* or none yet and a load of it.  The cache forgets whatever it likes.
ShowImage(a, cell) ==
  \/ \E image \in {{}, {a}} : table' = [cell EXCEPT !.image = image]
     /\ UNCHANGED calls
  \/ table' = [cell EXCEPT !.image = {}] /\ StartCall("image", a)

\* Mutant: the flag of the row before stays.
DrawUnmarked(r) ==
  LET a == categoryNews[r] IN
    /\ ShowImage(a, [table EXCEPT !.shows = {a}])
    /\ UNCHANGED <<lists, visits, shown, alive, trapped, unseen, patient>>

\* cellForRowAt.
Draw(r) ==
  LET a == categoryNews[r] IN
    /\ ShowImage(a, [table EXCEPT !.shows = {a}, !.saved = a \in savedUrls])
    /\ UNCHANGED <<lists, visits, shown, alive, trapped, unseen, patient>>

MaySave == savedUrls \union {c.article : c \in {d \in calls : d.kind = "save"}}

\* The leading swipe on the row in the cell: the flag of the cell chooses, the
\* article is read from the list.
Swipe(r) ==
  /\ \E a \in table.shows : a.place = r
  /\ table.saved \/ Cardinality(MaySave \union {categoryNews[r]}) <= MaxSaved
  /\ StartCall(IF table.saved THEN "unsave" ELSE "save", categoryNews[r])
  /\ UNCHANGED <<lists, visits, shown, table, alive, trapped, unseen, patient>>

\* Any of these, or didSelectRowAt, at a row that is counted but not there.
TouchMissing ==
  /\ shown # 0 /\ Len(categoryNews) < table.rows
  /\ trapped' = "index"
  /\ UNCHANGED <<lists, screen, unseen, patient>>

\* Every controller that lives is told.
MemoryWarning ==
  /\ alive # {}
  /\ categoryNews' = <<>> /\ unseen' = TRUE
  /\ UNCHANGED <<savedUrls, visits, shown, table, alive, calls, trapped, patient>>

-----------------------------------------------------------------------------
(* The answers.                                                            *)

\* Mutant: no block is posted.
ArrivesUnseen(v, n) ==
  /\ visits[v].asked > 0
  /\ categoryNews' = [i \in 1..n |-> [category |-> visits[v].category, place |-> i]]
  /\ visits' = [visits EXCEPT ![v].asked = @ - 1]
  /\ unseen' = (unseen \/ v # shown)
  /\ UNCHANGED <<savedUrls, shown, table, alive, calls, trapped, patient>>

\* The completion of loadNewsByCategory, on a background queue, with n
\* articles; with none when the request failed.
Arrives(v, n) ==
  /\ visits[v].asked > 0
  /\ categoryNews' = [i \in 1..n |-> [category |-> visits[v].category, place |-> i]]
  /\ visits' = [visits EXCEPT ![v].asked = @ - 1, ![v].reloads = @ + 1]
  /\ unseen' = (unseen \/ v # shown)
  /\ UNCHANGED <<savedUrls, shown, table, alive, calls, trapped, patient>>

\* Mutant: a loading row is counted, as in the other feeds.
ReloadTableAndLoading(v) ==
  /\ visits[v].reloads > 0 /\ v \in alive
  /\ visits' = [visits EXCEPT ![v].reloads = @ - 1]
  /\ IF v = shown
     THEN /\ table' = [NewTable(Len(categoryNews) + 1) EXCEPT
                        !.spinning = table.spinning]
          /\ unseen' = FALSE
     ELSE UNCHANGED <<table, unseen>>
  /\ UNCHANGED <<lists, shown, alive, calls, trapped, patient>>

\* The block it posts.
ReloadTable(v) ==
  /\ visits[v].reloads > 0 /\ v \in alive
  /\ visits' = [visits EXCEPT ![v].reloads = @ - 1]
  /\ IF v = shown
     THEN /\ table' = [NewTable(Len(categoryNews)) EXCEPT
                        !.spinning = table.spinning]
          /\ unseen' = FALSE
     ELSE UNCHANGED <<table, unseen>>
  /\ UNCHANGED <<lists, shown, alive, calls, trapped, patient>>

\* It finds its controller gone.
ReloadNothing(v) ==
  /\ visits[v].reloads > 0 /\ v \notin alive
  /\ trapped' = "gone"
  /\ UNCHANGED <<lists, screen, unseen, patient>>

\* UIImageView.load, on the main queue: the image goes into the cell, whatever
\* it shows by now.
ImageArrives(c) ==
  /\ c.kind = "image"
  /\ End(c)
  /\ table' = IF c.visit = shown
              THEN [table EXCEPT !.image = {a \in {c.article} : table.shows # {}}]
              ELSE table
  /\ UNCHANGED <<savedUrls, visits, shown, trapped, patient>>
  /\ Release

\* The completions of saveArticle and unsaveArticle set the flag of the cell.
BookmarkDone(c) ==
  /\ c.kind # "image"
  /\ End(c)
  /\ savedUrls' = IF c.kind = "save" THEN savedUrls \union {c.article}
                                     ELSE savedUrls \ {c.article}
  /\ table' = IF c.visit = shown
              THEN [table EXCEPT !.saved = table.shows # {} /\ c.kind = "save"]
              ELSE table
  /\ UNCHANGED <<visits, shown, trapped, patient>>
  /\ Release

\* A load without an image drops its closure; a refused call leaves the cell.
CallFails(c) ==
  /\ End(c)
  /\ UNCHANGED <<savedUrls, visits, shown, table, trapped, patient>>
  /\ Release

-----------------------------------------------------------------------------
Ask ==
  \/ \E c \in Category : Open(c)
  \/ Leave
  \/ Pull
  \/ \E r \in RowsThere : Draw(r) \/ Swipe(r)
  \/ TouchMissing

CallEnds(c) == ImageArrives(c) \/ BookmarkDone(c) \/ CallFails(c)

Answer ==
  \/ \E v \in DOMAIN visits :
       \/ \E n \in Sizes : Arrives(v, n)
       \/ ReloadTable(v)
       \/ ReloadNothing(v)
  \/ \E c \in calls : CallEnds(c)

Next ==
  /\ trapped = "no"
  /\ \/ Ask /\ calm' = (calm /\ Settled)
     \/ MemoryWarning /\ calm' = FALSE
     \/ Answer /\ UNCHANGED calm

Spec == Init /\ [][Next]_vars

-----------------------------------------------------------------------------
(* The properties.                                                         *)

TypeOK ==
  /\ categoryNews \in Seq(Article) /\ savedUrls \subseteq Article
  /\ visits \in Seq(Visit)
  /\ shown \in 0..Len(visits)
  /\ table \in Table
  /\ alive \subseteq 1..Len(visits)
  /\ shown # 0 => shown \in alive
  /\ calls \subseteq Call
  /\ \A c \in calls : c.visit \in alive
  /\ trapped \in {"no", "index", "gone"}
  /\ unseen \in BOOLEAN /\ calm \in BOOLEAN /\ patient \in BOOLEAN

(***************************************************************************)
(* ListOfShown: for a reader who waits for each answer, the articles under *)
(* a category's title are of that category, those of the visits before are *)
(* gone when it opens, and its table counts them once they are there: late *)
(* answers and late deinits of other controllers, which share the list,    *)
(* break it (CategoryViewController.swift:40-43, 61-66).                   *)
(***************************************************************************)
ListOfShown ==
  calm /\ shown # 0 =>
    /\ \A i \in 1..Len(categoryNews) :
         categoryNews[i].category = visits[shown].category
    /\ Settled => table.rows = Len(categoryNews)

(***************************************************************************)
(* CategoryNeverTraps: for such a reader no row is drawn, tapped or swiped *)
(* that has no article; and a block finds its controller gone only if the  *)
(* reader left a category before its request was answered                  *)
(* (CategoryViewController.swift:61-65, 93-114, 134).                      *)
(***************************************************************************)
CategoryNeverTraps ==
  /\ calm => trapped = "no"
  /\ patient => trapped # "gone"

(***************************************************************************)
(* CategoryCatchesUp: whatever the reader does, when no reload is on its   *)
(* way the table shown has a row for each article, or the list was changed *)
(* behind it by a controller left before or for want of memory             *)
(* (CategoryViewController.swift:36, 41, 62-65, 80).                       *)
(***************************************************************************)
CategoryCatchesUp ==
  shown # 0 /\ ~unseen /\ visits[shown].reloads = 0 =>
    table.rows = Len(categoryNews)

(***************************************************************************)
(* CellOfArticle: for a reader who waits, the image in a cell is that of   *)
(* the article it shows and its flag says whether that article is saved: a *)
(* cell reused while an image or an answer is under way gets that of the   *)
(* article before (Extensions.swift:15-20, CategoryViewController.swift:   *)
(* 88-108, 140, 150).                                                      *)
(***************************************************************************)
CellOfArticle ==
  calm => \A a \in table.shows :
    /\ table.image \subseteq {a}
    /\ table.saved <=> a \in savedUrls

=============================================================================

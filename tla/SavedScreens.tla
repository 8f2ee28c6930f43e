----------------------------- MODULE SavedScreens -----------------------------
(***************************************************************************)
(* The screens over SavedArticles: SavedNewsViewController, whose table    *)
(* has a row for each article of savedNews, the cards of FlashCards that   *)
(* Koloda shows, each with its bookmark button, and the rows of the other  *)
(* feeds, which save and unsave too.                                       *)
(*                                                                         *)
(* Each call of Networking carries the closure of the screen that made it. *)
(* A step here is a step of SavedArticles with what that closure does, or  *)
(* a step of the screens alone.  The controller of the Saved tab loads its *)
(* view when the tab is first opened and lives as long as the process.     *)
(* UIKit keeps the number of rows it counted last; deleteRows raises an    *)
(* exception unless the list is shorter by just the row deleted.           *)
(***************************************************************************)
EXTENDS SavedArticles, SequencesExt

CONSTANTS TopUrl,    \* the urls of the top news, which the cards show
          Visible    \* how many cards Koloda shows at once: 3

\* Nothing was saved twice before, and calls can be made.
ASSUME ScreensAssumption ==
  /\ TopUrl \subseteq Url
  /\ \A d, e \in Initial : d.url = e.url => d = e
  /\ MaxInFlight > 0
  /\ Visible \in Nat \ {0}

Closure == [by : {"load", "refresh", "card", "other"}, row : {0}]
             \union [by : {"row"}, row : Nat \ {0}]

By(name) == [by |-> name, row |-> 0]

VARIABLES
  opened,      \* whether the Saved screen's view is loaded
  rows,        \* the rows its table counted, each with the article it shows
  cards,       \* the cards shown, top first, each with its url and flag
  asked,       \* the closure of the query in each slot
  posted,      \* the closures of the completions in mainQueue
  cardSaves,   \* documents whose completion toggles the card's flag
  reloads,     \* the reloadData block of a refresh: completions ahead of it
  crashed,     \* an index out of range, or rows that do not add up
  unseen,      \* history: savedNews changed and the table was not told
  calm         \* history: the reader waited for each answer, saved nothing
               \* twice, touched no row of a table that was not told and no
               \* card whose list was replaced, changed no bookmark of a card
               \* shown but by its button; the cards' urls differ; memory
               \* sufficed

closures == <<asked, posted, cardSaves, reloads>>
screens  == <<opened, rows, cards>>
ssvars   == <<vars, screens, closures, crashed, unseen, calm>>

Settled ==
  awaiting = {} /\ queries = {} /\ mainQueue = <<>> /\ reloads = {}

NewSlot == CHOOSE n \in 1..MaxInFlight : FreeSlot(n)

AskBy(kind, u, c) ==
  /\ Ask(kind, u)
  /\ asked' = [asked EXCEPT ![NewSlot] = c]
  /\ UNCHANGED <<posted, cardSaves, reloads>>

\* A condition of calm, and the cards then shown.  They are followed as long
\* as the reader is calm; what a hasty one taps is a row of another feed,
\* whose flag may be any.
WatchCards(condition, window) ==
  /\ calm' = (calm /\ condition)
  /\ cards' = IF calm' THEN window ELSE <<>>

Watch(condition) == WatchCards(condition, cards)

Cards == ToSet(cards)

\* A card, on top or below, shows an article with url u.
OnCard(u) == \E c \in Cards : c.url = u

Saved(u) == u \in Urls(local \union remote)

-----------------------------------------------------------------------------
InitScreens ==
  /\ opened = FALSE /\ rows = <<>> /\ cards = <<>>
  /\ asked = [n \in 1..MaxInFlight |-> By("other")]
  /\ posted = <<>> /\ cardSaves = {} /\ reloads = {}
  /\ crashed = FALSE /\ unseen = FALSE /\ calm = TRUE

SInit == Init /\ InitScreens

-----------------------------------------------------------------------------
(* What the reader does.                                                   *)

\* The Saved tab for the first time: viewDidLoad, and the table counts.
OpenSaved ==
  /\ ~opened
  /\ AskBy("news", NoUrl, By("load"))
  /\ opened' = TRUE /\ rows' = savedNews /\ unseen' = FALSE
  /\ Watch(Settled)
  /\ UNCHANGED crashed

\* handleRefresh: the control fires again only after endRefreshing.
Refresh ==
  /\ opened
  /\ reloads = {}
  /\ \A q \in queries : asked[q.slot] # By("refresh")
  /\ By("refresh") \notin ToSet(posted)
  /\ AskBy("news", NoUrl, By("refresh"))
  /\ Watch(Settled)
  /\ UNCHANGED <<opened, rows, crashed, unseen>>

\* Unsave, on row r: the article is read from savedNews.
SwipeRow(r) ==
  /\ opened /\ r \in DOMAIN savedNews
  /\ AskBy("unsave", savedNews[r].url, [by |-> "row", row |-> r])
  /\ Watch(Settled /\ ~unseen /\ ~OnCard(savedNews[r].url))
  /\ UNCHANGED <<opened, rows, crashed, unseen>>

\* A row is drawn, tapped or swiped that savedNews does not have.
TouchMissing ==
  /\ opened /\ Len(savedNews) < Len(rows)
  /\ crashed' = TRUE
  /\ Watch(Settled /\ ~unseen)
  /\ UNCHANGED <<vars, opened, rows, closures, unseen>>

\* viewForCardAt, for the cards that enter the window: each reads its flag
\* now, and never again.
Fresh(urls) == [i \in DOMAIN urls |-> [url |-> urls[i], saved |-> urls[i] \in savedUrls]]

\* Nothing to follow once the reader is hasty.
ShowCards(window) ==
  /\ calm
  /\ Len(window) <= Visible
  /\ WatchCards(Settled /\ \A i, j \in DOMAIN window :
                             window[i].url = window[j].url => i = j, window)
  /\ UNCHANGED <<vars, opened, rows, closures, crashed, unseen>>

\* setupDeck: a list was loaded, and the deck is built anew.
DealCards(urls) == ShowCards(Fresh(urls))

\* swipedAction: the top card leaves; loadNextCard adds one below the others.
SwipeCard(urls) ==
  /\ cards # <<>> /\ Len(urls) <= 1
  /\ ShowCards(Tail(cards) \o Fresh(urls))

\* revertAction: if the window is full the lowest card leaves.
BringBack(u) ==
  /\ cards # <<>>
  /\ ShowCards(Fresh(<<u>>) \o (IF Len(cards) = Visible THEN Front(cards) ELSE cards))

\* A card is touched whose list was replaced: the article at its index is
\* another's.
TouchReplaced ==
  /\ cards # <<>>
  /\ Watch(FALSE)
  /\ UNCHANGED <<vars, opened, rows, closures, crashed, unseen>>

\* toggleSaved, of the card on top.
TapCard(c) ==
  /\ \/ c.saved /\ AskBy("unsave", c.url, By("card"))
     \/ /\ ~c.saved /\ SaveArticle(c.url)
        /\ cardSaves' = cardSaves \union (awaiting' \ awaiting)
        /\ UNCHANGED <<asked, posted, reloads>>
  /\ Watch(Settled /\ (c.saved \/ ~Saved(c.url)))
  /\ UNCHANGED <<opened, rows, crashed, unseen>>

\* From a row of another feed.
SaveElsewhere(u) ==
  /\ SaveArticle(u)
  /\ Watch(Settled /\ ~Saved(u) /\ ~OnCard(u))
  /\ UNCHANGED <<opened, rows, closures, crashed, unseen>>

UnsaveElsewhere(u) ==
  /\ AskBy("unsave", u, By("other"))
  /\ Watch(Settled /\ ~OnCard(u))
  /\ UNCHANGED <<opened, rows, crashed, unseen>>

SMemoryWarning ==
  /\ MemoryWarning
  /\ unseen' = TRUE
  /\ Watch(FALSE)
  /\ UNCHANGED <<opened, rows, closures, crashed>>

-----------------------------------------------------------------------------
(* The client: a completion is posted with the closure of its call.        *)

PostsSave ==
  /\ CreateAcknowledged \/ CreateRejected
  /\ posted' = IF mainQueue' = mainQueue THEN posted
               ELSE Append(posted, By(IF Head(creates) \in cardSaves
                                      THEN "card" ELSE "other"))
  /\ UNCHANGED <<screens, asked, cardSaves, reloads, crashed, unseen, calm>>

\* Mutant: the answer finds no closure.
PostsAnswerBare(q) ==
  /\ ServerAnswers(q) \/ CacheAnswers(q) \/ QueryFails(q)
  /\ asked' = [asked EXCEPT ![q.slot] = By("other")]
  /\ UNCHANGED <<screens, posted, cardSaves, reloads, crashed, unseen, calm>>

PostsAnswer(q) ==
  /\ ServerAnswers(q) \/ CacheAnswers(q) \/ QueryFails(q)
  /\ posted' = Append(posted, asked[q.slot])
  /\ asked' = [asked EXCEPT ![q.slot] = By("other")]
  /\ UNCHANGED <<screens, cardSaves, reloads, crashed, unseen, calm>>

Silent ==
  /\ \/ Connect \/ Disconnect
     \/ \E d \in deletes : DeleteAcknowledged(d) \/ DeleteRejected(d)
  /\ UNCHANGED <<screens, closures, crashed, unseen, calm>>

-----------------------------------------------------------------------------
(* The closures, run with the completion that calls them.                  *)

\* One completion less is ahead of a reload block.
Advance == reloads' = {n - 1 : n \in reloads}

\* The button that made the call is the one of the card with its url.
Toggled(u) ==
  [i \in DOMAIN cards |-> IF cards[i].url = u THEN [cards[i] EXCEPT !.saved = ~@]
                                              ELSE cards[i]]

\* No load changes the mark of a card.
SameMark == \A c \in Cards : c.url \in savedUrls' <=> c.url \in savedUrls

\* Mutant: the flag is toggled whatever the answer.
RunElsewhereToggling(m, c) ==
  /\ RunSaved(m) \/ RunSaveFailed(m) \/ RunUnsave(m) \/ RunOtherFailed(m)
  /\ c.by \in {"card", "other"}
  /\ cards' = IF c.by = "card" THEN Toggled(m.url) ELSE cards
  /\ unseen' = (opened /\ (unseen \/ savedNews' # savedNews))
  /\ Advance
  /\ UNCHANGED <<opened, rows, crashed, calm>>

\* A save or unsave of the card, or of another feed's row: the Saved table,
\* if there is one, is not told.
RunElsewhere(m, c) ==
  /\ RunSaved(m) \/ RunSaveFailed(m) \/ RunUnsave(m) \/ RunOtherFailed(m)
  /\ c.by \in {"card", "other"}
  /\ cards' = IF c.by = "card" /\ m.kind \in {"saved", "unsave"}
              THEN Toggled(m.url) ELSE cards
  /\ unseen' = (opened /\ (unseen \/ savedNews' # savedNews))
  /\ Advance
  /\ UNCHANGED <<opened, rows, crashed, calm>>

\* updateSavedUrls.
RunLaunchUrls(m) ==
  /\ RunUrls(m)
  /\ Watch(SameMark)
  /\ Advance
  /\ UNCHANGED <<opened, rows, crashed, unseen>>

\* Mutant: the table is not reloaded.
RunLoadUnshown(m, c) ==
  /\ c.by = "load"
  /\ RunNews(m) \/ RunNewsFailed(m)
  /\ unseen' = FALSE
  /\ Watch(SameMark)
  /\ Advance
  /\ UNCHANGED <<opened, rows, crashed>>

\* viewDidLoad's closure reloads the table.
RunLoad(m, c) ==
  /\ c.by = "load"
  /\ RunNews(m) \/ RunNewsFailed(m)
  /\ rows' = savedNews' /\ unseen' = FALSE
  /\ Watch(SameMark)
  /\ Advance
  /\ UNCHANGED <<opened, crashed>>

\* handleRefresh's closure posts a block that does.
RunRefresh(m, c) ==
  /\ c.by = "refresh"
  /\ RunNews(m) \/ RunNewsFailed(m)
  /\ reloads' = {Len(mainQueue) - 1}
  /\ unseen' = TRUE
  /\ Watch(SameMark)
  /\ UNCHANGED <<opened, rows, crashed>>

\* Mutant: the row on top is deleted.
RunSwipeAtTop(m, c) ==
  /\ c.by = "row"
  /\ \/ /\ RunOtherFailed(m)
        /\ UNCHANGED <<rows, crashed, unseen>>
     \/ /\ RunUnsave(m)
        /\ IF Len(savedNews') = Len(rows) - 1 /\ c.row <= Len(rows)
           THEN rows' = Tail(rows) /\ unseen' = FALSE /\ UNCHANGED crashed
           ELSE crashed' = TRUE /\ UNCHANGED <<rows, unseen>>
  /\ Advance
  /\ UNCHANGED <<opened, cards, calm>>

\* The swipe's closure deletes the row at the index path it was made with.
RunSwipe(m, c) ==
  /\ c.by = "row"
  /\ \/ /\ RunOtherFailed(m)
        /\ UNCHANGED <<rows, crashed, unseen>>
     \/ /\ RunUnsave(m)
        /\ IF Len(savedNews') = Len(rows) - 1 /\ c.row <= Len(rows)
           THEN rows' = RemoveAt(rows, c.row) /\ unseen' = FALSE /\ UNCHANGED crashed
           ELSE crashed' = TRUE /\ UNCHANGED <<rows, unseen>>
  /\ Advance
  /\ UNCHANGED <<opened, cards, calm>>

SRunCompletion ==
  /\ mainQueue # <<>> /\ 0 \notin reloads
  /\ mainQueue' = Tail(mainQueue)
  /\ posted' = Tail(posted)
  /\ LET m == Head(mainQueue)
         c == Head(posted)
     IN  \/ RunElsewhere(m, c)
         \/ RunLaunchUrls(m)
         \/ RunLoad(m, c)
         \/ RunRefresh(m, c)
         \/ RunSwipe(m, c)
  /\ cardSaves' = cardSaves \intersect awaiting'
  /\ UNCHANGED <<remote, online, creates, queries, clock, launches, asked>>

RunReload ==
  /\ 0 \in reloads
  /\ reloads' = {}
  /\ rows' = savedNews /\ unseen' = FALSE
  /\ UNCHANGED <<vars, opened, cards, asked, posted, cardSaves, crashed, calm>>

-----------------------------------------------------------------------------
Reader ==
  \/ OpenSaved \/ Refresh \/ TouchMissing
  \/ \E r \in 1..Len(rows) : SwipeRow(r)
  \/ \E urls \in BoundedSeq(TopUrl, Visible) : DealCards(urls) \/ SwipeCard(urls)
  \/ \E u \in TopUrl : BringBack(u)
  \/ cards # <<>> /\ TapCard(Head(cards))
  \/ TouchReplaced
  \/ \E u \in Url : SaveElsewhere(u) \/ UnsaveElsewhere(u)

SNext ==
  /\ ~crashed
  /\ \/ SMemoryWarning
     \/ Reader
     \/ PostsSave \/ Silent
     \/ \E q \in queries : PostsAnswer(q)
     \/ SRunCompletion \/ RunReload

SSpec == SInit /\ [][SNext]_ssvars

-----------------------------------------------------------------------------
(* The properties.                                                         *)

ScreensTypeOK ==
  /\ opened \in BOOLEAN /\ rows \in Seq(Doc)
  /\ cards \in Seq([url : Url, saved : BOOLEAN]) /\ Len(cards) <= Visible
  /\ asked \in [1..MaxInFlight -> Closure]
  /\ posted \in Seq(Closure) /\ Len(posted) = Len(mainQueue)
  /\ cardSaves \subseteq awaiting
  /\ reloads \subseteq 0..Len(mainQueue) /\ Cardinality(reloads) <= 1
  /\ crashed \in BOOLEAN /\ unseen \in BOOLEAN /\ calm \in BOOLEAN

(***************************************************************************)
(* CalmNoPhantom, CalmNewestFirst: what SavedArticles states of one call   *)
(* at a time holds here for a reader who waits, on whichever of the        *)
(* screens, while the server refuses what it likes (Networking.swift:      *)
(* 158-159, 178-179, 192-211).                                             *)
(***************************************************************************)
CalmNoPhantom == calm => NoPhantom

CalmNewestFirst == calm => SavedNewsNewestFirst

(***************************************************************************)
(* SavedTableCatchesUp: whatever the reader does, the Saved table has a    *)
(* row for each article of savedNews unless the list was changed and the   *)
(* table not told, by another screen or by a refresh whose block is on its *)
(* way (SavedNewsViewController.swift:32-41, 116, 170-184).                *)
(***************************************************************************)
SavedTableCatchesUp ==
  opened /\ ~unseen /\ ~crashed => Len(rows) = Len(savedNews)

(***************************************************************************)
(* SavedRowsCurrent: for a reader who waits, and unsaves from no table     *)
(* that was not told, deleteRows finds the rows UIKit expects and takes    *)
(* out the row of the article unsaved: each row shows the article that a   *)
(* tap or a swipe on it reads from savedNews.  A second swipe before the   *)
(* first answer, or a url saved twice, breaks it                           *)
(* (SavedNewsViewController.swift:71-72, 111-125).                         *)
(***************************************************************************)
SavedRowsCurrent ==
  calm => /\ ~crashed
          /\ opened /\ ~unseen => rows = savedNews

(***************************************************************************)
(* CardMarked: for a reader who waits, the bookmark button of every card   *)
(* shown, a flag read from savedUrls when the card enters the window, up   *)
(* to two swipes before it is on top, and toggled from then on, says       *)
(* whether savedUrls has its url.  A second tap before the first answer,   *)
(* or a bookmark of a card shown changed on another screen, breaks it      *)
(* (NewsArticleCardView.swift:270-284, FlashCardsViewController.swift:     *)
(* 126-128).                                                               *)
(***************************************************************************)
CardMarked ==
  calm => \A c \in Cards : c.saved <=> c.url \in savedUrls

=============================================================================

-------------------------- MODULE SavedScreensProofs --------------------------
(***************************************************************************)
(* Proofs about SavedScreens, for every set of urls, every content of the  *)
(* server and every bound.  The screens use the bookmarks as SavedArticles *)
(* says, so its theorems hold of them; the Saved table catches up with its *)
(* list; and for a reader who waits the lists hold what exists, in order,  *)
(* the rows are the list and the buttons of the cards tell the truth.      *)
(***************************************************************************)
EXTENDS SavedScreens, SavedArticlesProofs, SequenceTheorems

-----------------------------------------------------------------------------
(* Types, and the step of SavedArticles that a step of the screens is.     *)

OneOf(S) == \A x, y \in S : x = y

Card == [url : Url, saved : BOOLEAN]

\* The slots in use, and what ScreensTypeOK says of the cardinalities.
Basis ==
  /\ TypeOK
  /\ \A q \in queries : q.slot \in 1..MaxInFlight
  /\ opened \in BOOLEAN /\ rows \in Seq(Doc)
  /\ cards \in Seq(Card) /\ Len(cards) <= Visible
  /\ asked \in [1..MaxInFlight -> Closure]
  /\ posted \in Seq(Closure) /\ Len(posted) = Len(mainQueue)
  /\ cardSaves \subseteq awaiting
  /\ reloads \subseteq 0..Len(mainQueue) /\ OneOf(reloads)
  /\ crashed \in BOOLEAN /\ unseen \in BOOLEAN /\ calm \in BOOLEAN

LEMMA OneOfCardinality ==
  ASSUME NEW S, OneOf(S)
  PROVE  Cardinality(S) <= 1
<1>1. CASE S = {}
  <2>1. Cardinality(S) = 0
    BY <1>1, FS_EmptySet
  <2> QED
    BY <2>1
<1>2. ASSUME NEW x \in S PROVE Cardinality(S) <= 1
  <2>1. S = {x}
    BY DEF OneOf
  <2>2. Cardinality(S) = 1
    BY <2>1, FS_Singleton
  <2> QED
    BY <2>2
<1> QED
  BY <1>1, <1>2

LEMMA BasisTypes == Basis => ScreensTypeOK
BY OneOfCardinality DEF Basis, ScreensTypeOK, Card

LEMMA RowUrl ==
  ASSUME TypeOK, NEW r \in DOMAIN savedNews
  PROVE  r \in Nat \ {0} /\ savedNews[r].url \in Url
<1>1. r \in 1..Len(savedNews) /\ savedNews[r] \in Doc
  BY DEF TypeOK
<1> QED
  BY <1>1 DEF Doc

\* The deck moves, or a card is touched that stands for another article.
MovesDeck ==
  \/ \E urls \in BoundedSeq(TopUrl, Visible) : DealCards(urls) \/ SwipeCard(urls)
  \/ \E u \in TopUrl : BringBack(u)
  \/ TouchReplaced

LEMMA DeckAlone ==
  ASSUME MovesDeck
  PROVE  UNCHANGED <<vars, opened, rows, closures, crashed, unseen>>
BY DEF MovesDeck, DealCards, SwipeCard, BringBack, TouchReplaced, ShowCards

LEMMA TopCard ==
  ASSUME Basis, cards # <<>>
  PROVE  Head(cards) \in Cards /\ Head(cards).url \in Url /\ Head(cards).saved \in BOOLEAN
<1>1. 1 \in DOMAIN cards /\ Head(cards) = cards[1] /\ cards[1] \in Card
  BY DEF Basis
<1> QED
  BY <1>1 DEF Cards, ToSet, Card

LEMMA ReaderImplements ==
  ASSUME Basis, Reader
  PROVE  Next \/ UNCHANGED vars
<1>1. CASE OpenSaved \/ Refresh
  BY <1>1 DEF OpenSaved, Refresh, AskBy, Next, GetSavedNews
<1>2. CASE TouchMissing
  BY <1>2 DEF TouchMissing
<1>3. ASSUME NEW r \in 1..Len(rows), SwipeRow(r) PROVE Next
  BY <1>3, RowUrl DEF SwipeRow, AskBy, Next, UnsaveArticle, Basis
<1>4. CASE cards # <<>> /\ TapCard(Head(cards))
  <2>1. PICK c : c = Head(cards)
    OBVIOUS
  <2>2. c.url \in Url /\ TapCard(c)
    BY <1>4, <2>1, TopCard
  <2> QED
    BY <2>2 DEF TapCard, AskBy, Next, UnsaveArticle
<1>5. CASE MovesDeck
  BY <1>5, DeckAlone
<1>6. ASSUME NEW u \in Url, SaveElsewhere(u) \/ UnsaveElsewhere(u) PROVE Next
  BY <1>6 DEF SaveElsewhere, UnsaveElsewhere, AskBy, Next, UnsaveArticle
<1> QED
  BY <1>1, <1>2, <1>3, <1>4, <1>5, <1>6 DEF Reader, MovesDeck

LEMMA CompletionImplements ==
  ASSUME SRunCompletion
  PROVE  RunCompletion
BY DEF SRunCompletion, RunCompletion, RunElsewhere, RunLaunchUrls, RunLoad,
       RunRefresh, RunSwipe

LEMMA ScreensImplement == Basis /\ [SNext]_ssvars => [Next]_vars
<1> SUFFICES ASSUME Basis, [SNext]_ssvars PROVE Next \/ UNCHANGED vars
  OBVIOUS
<1>1. CASE UNCHANGED ssvars
  BY <1>1 DEF ssvars
<1>2. CASE SMemoryWarning
  BY <1>2 DEF SMemoryWarning, Next
<1>3. CASE Reader
  BY <1>3, ReaderImplements
<1>4. CASE PostsSave
  BY <1>4 DEF PostsSave, Next
<1>5. CASE Silent
  BY <1>5 DEF Silent, Next
<1>6. ASSUME NEW q \in queries, PostsAnswer(q) PROVE Next
  BY <1>6 DEF PostsAnswer, Next
<1>7. CASE SRunCompletion
  BY <1>7, CompletionImplements DEF Next
<1>8. CASE RunReload
  BY <1>8 DEF RunReload
<1> QED
  BY <1>1, <1>2, <1>3, <1>4, <1>5, <1>6, <1>7, <1>8 DEF SNext

LEMMA InitBasis == SInit => Basis
<1> SUFFICES ASSUME SInit PROVE Basis
  OBVIOUS
<1>1. TypeOK
  BY InitType DEF SInit
<1>2. By("other") \in Closure
  BY DEF By, Closure
<1>3. queries = {LaunchQuery} /\ mainQueue = <<>> /\ awaiting = {}
  BY DEF SInit, Init
<1>4. \A q \in queries : q.slot \in 1..MaxInFlight
  BY <1>3, ConstantsAssumption, ScreensAssumption DEF LaunchQuery
<1>5. /\ opened = FALSE /\ rows = <<>> /\ cards = <<>> /\ posted = <<>>
      /\ asked = [n \in 1..MaxInFlight |-> By("other")]
      /\ cardSaves = {} /\ reloads = {}
      /\ crashed = FALSE /\ unseen = FALSE /\ calm = TRUE
  BY DEF SInit, InitScreens
<1>6. asked \in [1..MaxInFlight -> Closure]
  BY <1>2, <1>5
<1>7. /\ rows \in Seq(Doc) /\ posted \in Seq(Closure)
      /\ Len(posted) = Len(mainQueue) /\ cardSaves \subseteq awaiting
      /\ cards \in Seq(Card) /\ Len(cards) <= Visible
  BY <1>3, <1>5, ScreensAssumption
<1> QED
  BY <1>1, <1>4, <1>5, <1>6, <1>7 DEF Basis, OneOf

\* A condition watched only takes the cards away.
LEMMA WatchTypes ==
  ASSUME Basis, NEW condition, Watch(condition)
  PROVE  /\ cards' \in Seq(Card) /\ Len(cards') <= Visible
         /\ calm' \in BOOLEAN
<1>1. /\ calm' = (calm /\ condition)
      /\ cards' = cards \/ cards' = <<>>
  BY DEF Watch, WatchCards
<1>2. calm' \in BOOLEAN
  BY <1>1
<1>3. CASE cards' = <<>>
  <2>1. Len(cards') = 0 /\ cards' \in Seq(Card)
    BY <1>3
  <2>2. Len(cards') <= Visible
    BY <2>1, ScreensAssumption
  <2> QED
    BY <1>2, <2>1, <2>2
<1>4. CASE cards' = cards
  BY <1>2, <1>4 DEF Basis
<1> QED
  BY <1>1, <1>3, <1>4

\* A card that enters the window says what savedUrls says.
True(window) == \A c \in ToSet(window) : c.saved <=> c.url \in savedUrls

LEMMA FreshCards ==
  ASSUME NEW urls \in Seq(TopUrl)
  PROVE  /\ Fresh(urls) \in Seq(Card) /\ Len(Fresh(urls)) = Len(urls)
         /\ True(Fresh(urls))
<1>1. \A i \in 1..Len(urls) : urls[i] \in Url
  BY ScreensAssumption
<1>2. DOMAIN urls = 1..Len(urls) /\ Len(urls) \in Nat
  OBVIOUS
<1>3. \A i \in 1..Len(urls) : [url |-> urls[i], saved |-> urls[i] \in savedUrls] \in Card
  BY <1>1 DEF Card
<1>4. Fresh(urls) \in [1..Len(urls) -> Card]
  BY <1>2, <1>3 DEF Fresh
<1>5. Fresh(urls) \in Seq(Card) /\ Len(Fresh(urls)) = Len(urls)
  BY <1>2, <1>4
<1>6. ASSUME NEW c \in ToSet(Fresh(urls)) PROVE c.saved <=> c.url \in savedUrls
  <2>1. PICK i \in DOMAIN urls : c = [url |-> urls[i], saved |-> urls[i] \in savedUrls]
    BY DEF ToSet, Fresh
  <2> QED
    BY <2>1, Zenon
<1> QED
  BY <1>5, <1>6 DEF True

\* The other cards of the next window are of the one shown.
LEMMA OtherCards ==
  ASSUME NEW s \in Seq(Card), s # <<>>
  PROVE  /\ Tail(s) \in Seq(Card) /\ ToSet(Tail(s)) \subseteq ToSet(s)
         /\ Front(s) \in Seq(Card) /\ ToSet(Front(s)) \subseteq ToSet(s)
<1>1. /\ Tail(s) \in Seq(Card) /\ DOMAIN Tail(s) = 1..(Len(s) - 1)
      /\ \A i \in DOMAIN Tail(s) : Tail(s)[i] = s[i + 1] /\ i + 1 \in DOMAIN s
  OBVIOUS
<1>2. /\ Front(s) \in Seq(Card) /\ DOMAIN Front(s) = 1..(Len(s) - 1)
      /\ \A i \in DOMAIN Front(s) : Front(s)[i] = s[i] /\ i \in DOMAIN s
  BY DEF Front
<1> QED
  BY <1>1, <1>2 DEF ToSet

LEMMA JoinedCards ==
  ASSUME NEW s \in Seq(Card), NEW t \in Seq(Card)
  PROVE  s \o t \in Seq(Card) /\ ToSet(s \o t) \subseteq ToSet(s) \union ToSet(t)
<1>1. ASSUME NEW i \in DOMAIN (s \o t)
      PROVE  (s \o t)[i] \in ToSet(s) \union ToSet(t)
  <2>1. CASE i <= Len(s)
    BY <2>1 DEF ToSet
  <2>2. CASE i > Len(s)
    <3>1. (s \o t)[i] = t[i - Len(s)] /\ i - Len(s) \in DOMAIN t
      BY <2>2
    <3> QED
      BY <3>1 DEF ToSet
  <2> QED
    BY <2>1, <2>2
<1> QED
  BY <1>1 DEF ToSet

\* What is shown after the deck moved: cards that were, or say the truth.
LEMMA DeckTypes ==
  ASSUME Basis, MovesDeck
  PROVE  /\ cards' \in Seq(Card) /\ Len(cards') <= Visible
         /\ calm' \in BOOLEAN
         /\ calm' => /\ calm /\ Settled
                     /\ \A c \in ToSet(cards') :
                          c \in Cards \/ (c.saved <=> c.url \in savedUrls)
<1>1. ASSUME NEW window \in Seq(Card), ShowCards(window),
             \A c \in ToSet(window) : c \in Cards \/ (c.saved <=> c.url \in savedUrls)
      PROVE  /\ cards' \in Seq(Card) /\ Len(cards') <= Visible
             /\ calm' \in BOOLEAN
             /\ calm' => /\ calm /\ Settled
                         /\ \A c \in ToSet(cards') :
                              c \in Cards \/ (c.saved <=> c.url \in savedUrls)
  <2>1. PICK distinct \in BOOLEAN :
          /\ calm' = (calm /\ Settled /\ distinct)
          /\ cards' = IF calm' THEN window ELSE <<>>
    BY <1>1, Zenon DEF ShowCards, WatchCards
  <2>2. Len(window) <= Visible
    BY <1>1 DEF ShowCards
  <2>3. calm' \in BOOLEAN /\ (calm' => calm /\ Settled)
    BY <2>1 DEF Basis
  <2>4. CASE calm'
    BY <1>1, <2>1, <2>2, <2>3, <2>4
  <2>5. CASE ~calm'
    BY <2>1, <2>3, <2>5, ScreensAssumption
  <2> QED
    BY <2>4, <2>5
<1>2. ASSUME NEW urls \in BoundedSeq(TopUrl, Visible) PROVE urls \in Seq(TopUrl)
  BY ScreensAssumption DEF BoundedSeq, SeqOf
<1>3. ASSUME NEW urls \in BoundedSeq(TopUrl, Visible), DealCards(urls)
      PROVE  /\ Fresh(urls) \in Seq(Card) /\ ShowCards(Fresh(urls)) /\ True(Fresh(urls))
  BY <1>2, <1>3, FreshCards DEF DealCards
<1>4. ASSUME NEW urls \in BoundedSeq(TopUrl, Visible), SwipeCard(urls)
      PROVE  \E window \in Seq(Card) :
               /\ ShowCards(window)
               /\ \A c \in ToSet(window) : c \in Cards \/ (c.saved <=> c.url \in savedUrls)
  <2>1. /\ Fresh(urls) \in Seq(Card) /\ True(Fresh(urls))
        /\ Tail(cards) \in Seq(Card) /\ ToSet(Tail(cards)) \subseteq Cards
    BY <1>2, <1>4, FreshCards, OtherCards DEF SwipeCard, Basis, Cards
  <2>2. PICK window : window = Tail(cards) \o Fresh(urls)
    OBVIOUS
  <2>3. window \in Seq(Card) /\ ToSet(window) \subseteq Cards \union ToSet(Fresh(urls))
    BY <2>1, <2>2, JoinedCards
  <2>4. \A c \in ToSet(window) : c \in Cards \/ (c.saved <=> c.url \in savedUrls)
    BY <2>1, <2>3 DEF True
  <2> QED
    BY <1>4, <2>2, <2>3, <2>4 DEF SwipeCard
<1>5. ASSUME NEW u \in TopUrl, BringBack(u)
      PROVE  \E window \in Seq(Card) :
               /\ ShowCards(window)
               /\ \A c \in ToSet(window) : c \in Cards \/ (c.saved <=> c.url \in savedUrls)
  <2>1. PICK rest : rest = IF Len(cards) = Visible THEN Front(cards) ELSE cards
    OBVIOUS
  <2>2. /\ Fresh(<<u>>) \in Seq(Card) /\ True(Fresh(<<u>>))
        /\ rest \in Seq(Card) /\ ToSet(rest) \subseteq Cards
    <3>1. <<u>> \in Seq(TopUrl)
      OBVIOUS
    <3>2. cards \in Seq(Card) /\ cards # <<>>
      BY <1>5 DEF BringBack, Basis
    <3>3. rest \in Seq(Card) /\ ToSet(rest) \subseteq Cards
      BY <2>1, <3>2, OtherCards DEF Cards
    <3> QED
      BY <3>1, <3>3, FreshCards
  <2>3. PICK window : window = Fresh(<<u>>) \o rest
    OBVIOUS
  <2>4. window \in Seq(Card) /\ ToSet(window) \subseteq Cards \union ToSet(Fresh(<<u>>))
    BY <2>2, <2>3, JoinedCards
  <2>5. \A c \in ToSet(window) : c \in Cards \/ (c.saved <=> c.url \in savedUrls)
    BY <2>2, <2>4 DEF True
  <2> QED
    BY <1>5, <2>1, <2>3, <2>4, <2>5 DEF BringBack
<1>6. CASE TouchReplaced
  <2>1. calm' = FALSE
    BY <1>6 DEF TouchReplaced, Watch, WatchCards
  <2> QED
    BY <1>6, <2>1, WatchTypes DEF TouchReplaced
<1>7. CASE \E urls \in BoundedSeq(TopUrl, Visible) : DealCards(urls)
  <2>1. PICK window \in Seq(Card) : ShowCards(window) /\ True(window)
    BY <1>3, <1>7
  <2>2. \A c \in ToSet(window) : c \in Cards \/ (c.saved <=> c.url \in savedUrls)
    BY <2>1 DEF True
  <2> QED
    BY <1>1, <2>1, <2>2
<1>8. CASE (\E urls \in BoundedSeq(TopUrl, Visible) : SwipeCard(urls))
             \/ \E u \in TopUrl : BringBack(u)
  <2>1. PICK window \in Seq(Card) :
               /\ ShowCards(window)
               /\ \A c \in ToSet(window) : c \in Cards \/ (c.saved <=> c.url \in savedUrls)
    BY <1>4, <1>5, <1>8
  <2> QED
    BY <1>1, <2>1
<1> QED
  BY <1>6, <1>7, <1>8 DEF MovesDeck

\* A call from a screen keeps the slots in range.
LEMMA AskTypes ==
  ASSUME Basis, NEW kind, NEW u, NEW c \in Closure, AskBy(kind, u, c)
  PROVE  /\ \A q \in queries' : q.slot \in 1..MaxInFlight
         /\ asked' \in [1..MaxInFlight -> Closure]
         /\ UNCHANGED <<posted, cardSaves, reloads, mainQueue, awaiting>>
<1>1. PICK n \in 1..MaxInFlight :
        queries' = queries \union {[kind |-> kind, url |-> u, slot |-> n]}
  BY DEF AskBy, Ask
<1>2. asked' = [asked EXCEPT ![NewSlot] = c]
  BY DEF AskBy
<1>3. asked' \in [1..MaxInFlight -> Closure]
  BY <1>2 DEF Basis
<1>4. \A q \in queries' : q.slot \in 1..MaxInFlight
  BY <1>1 DEF Basis
<1> QED
  BY <1>3, <1>4 DEF AskBy, Ask

LEMMA Named ==
  ASSUME NEW name \in {"load", "refresh", "card", "other"}
  PROVE  By(name) \in Closure /\ By(name).by = name
BY DEF By, Closure

LEMMA ReaderTypes ==
  ASSUME Basis, TypeOK', Reader
  PROVE  Basis'
<1>0. TypeOK'
  OBVIOUS
<1>1. CASE OpenSaved
  BY <1>1, AskTypes, WatchTypes, Named DEF OpenSaved, Basis, TypeOK
<1>2. CASE Refresh
  BY <1>2, AskTypes, WatchTypes, Named DEF Refresh, Basis
<1>3. CASE TouchMissing
  BY <1>3, WatchTypes DEF TouchMissing, Basis, vars, calls, closures
<1>4. ASSUME NEW r \in 1..Len(rows), SwipeRow(r) PROVE Basis'
  <2>1. [by |-> "row", row |-> r] \in Closure
    BY <1>4, RowUrl DEF SwipeRow, Closure, Basis
  <2> QED
    BY <1>4, <2>1, AskTypes, WatchTypes DEF SwipeRow, Basis
<1>5. CASE cards # <<>> /\ TapCard(Head(cards))
  <2>0. PICK c : TapCard(c)
    BY <1>5
  <2>1. CASE c.saved /\ AskBy("unsave", c.url, By("card"))
    BY <2>0, <2>1, AskTypes, WatchTypes, Named DEF TapCard, Basis
  <2>2. CASE /\ SaveArticle(c.url)
             /\ cardSaves' = cardSaves \union (awaiting' \ awaiting)
             /\ UNCHANGED <<asked, posted, reloads>>
    <3>1. UNCHANGED <<queries, mainQueue>> /\ awaiting \subseteq awaiting'
      BY <2>2 DEF SaveArticle
    <3>2. Watch(Settled /\ (c.saved \/ ~Saved(c.url)))
          /\ UNCHANGED <<opened, rows, crashed, unseen>>
      BY <2>0 DEF TapCard
    <3> QED
      BY <1>0, <2>2, <3>1, <3>2, WatchTypes DEF Basis
  <2> QED
    BY <2>0, <2>1, <2>2 DEF TapCard
<1>6. CASE MovesDeck
  BY <1>6, DeckAlone, DeckTypes DEF Basis, vars, calls, closures
<1>7. ASSUME NEW u \in Url, SaveElsewhere(u) PROVE Basis'
  BY <1>7, WatchTypes DEF SaveElsewhere, SaveArticle, Basis, closures
<1>8. ASSUME NEW u \in Url, UnsaveElsewhere(u) PROVE Basis'
  BY <1>8, AskTypes, WatchTypes, Named DEF UnsaveElsewhere, Basis
<1> QED
  BY <1>1, <1>2, <1>3, <1>4, <1>5, <1>6, <1>7, <1>8 DEF Reader, MovesDeck

\* Just the cards with the url change, and their flag alone.
LEMMA ToggledCards ==
  ASSUME Basis, NEW u, cards' = Toggled(u)
  PROVE  \A x \in Cards' :
           \/ x \in Cards /\ x.url # u
           \/ x.url = u /\ \E c \in Cards : c.url = u /\ (x.saved <=> ~c.saved)
<1> SUFFICES ASSUME NEW x \in Cards'
             PROVE  \/ x \in Cards /\ x.url # u
                    \/ x.url = u /\ \E c \in Cards : c.url = u /\ (x.saved <=> ~c.saved)
  OBVIOUS
<1>1. PICK i \in DOMAIN cards :
        x = IF cards[i].url = u THEN [cards[i] EXCEPT !.saved = ~@] ELSE cards[i]
  BY DEF Cards, ToSet, Toggled
<1>2. PICK c : c = cards[i]
  OBVIOUS
<1>3. c \in Card /\ c \in Cards
  BY <1>2 DEF Basis, Cards, ToSet
<1> QED
  BY <1>1, <1>2, <1>3 DEF Card

LEMMA PostTypes ==
  ASSUME Basis, PostsSave \/ (\E q \in queries : PostsAnswer(q))
  PROVE  /\ \A q \in queries' : q.slot \in 1..MaxInFlight
         /\ asked' \in [1..MaxInFlight -> Closure]
         /\ posted' \in Seq(Closure) /\ Len(posted') = Len(mainQueue')
         /\ Len(mainQueue) <= Len(mainQueue')
         /\ UNCHANGED <<screens, cardSaves, reloads, crashed, unseen, calm, awaiting>>
<1>1. CASE PostsSave
  <2>1. /\ UNCHANGED <<queries, asked, awaiting, screens, cardSaves, reloads,
                       crashed, unseen, calm>>
        /\ \/ UNCHANGED mainQueue
           \/ Len(mainQueue') = Len(mainQueue) + 1 /\ mainQueue' # mainQueue
    BY <1>1 DEF PostsSave, CreateAcknowledged, CreateRejected, NotifyUser, Post, Basis, TypeOK
  <2>2. /\ mainQueue' = mainQueue => posted' = posted
        /\ mainQueue' # mainQueue =>
             \E c \in Closure : posted' = Append(posted, c)
    BY <1>1, Named DEF PostsSave
  <2>3. Len(mainQueue) \in Nat /\ posted \in Seq(Closure) /\ Len(posted) = Len(mainQueue)
    BY DEF Basis, TypeOK
  <2>4. /\ posted' \in Seq(Closure) /\ Len(posted') = Len(mainQueue')
        /\ Len(mainQueue) <= Len(mainQueue')
    <3>1. CASE mainQueue' = mainQueue
      BY <2>2, <2>3, <3>1
    <3>2. CASE mainQueue' # mainQueue
      <4>1. PICK c \in Closure : posted' = Append(posted, c)
        BY <2>2, <3>2
      <4> QED
        BY <2>1, <2>3, <3>2, <4>1
    <3> QED
      BY <3>1, <3>2
  <2> QED
    BY <2>1, <2>4 DEF Basis
<1>2. ASSUME NEW q \in queries, PostsAnswer(q)
      PROVE  /\ \A p \in queries' : p.slot \in 1..MaxInFlight
             /\ asked' \in [1..MaxInFlight -> Closure]
             /\ posted' \in Seq(Closure) /\ Len(posted') = Len(mainQueue')
             /\ Len(mainQueue) <= Len(mainQueue')
             /\ UNCHANGED <<screens, cardSaves, reloads, crashed, unseen, calm, awaiting>>
  <2>1. /\ queries' = queries \ {q} /\ UNCHANGED awaiting
        /\ Len(mainQueue') = Len(mainQueue) + 1
    BY <1>2 DEF PostsAnswer, ServerAnswers, CacheAnswers, QueryFails, Post, Basis, TypeOK
  <2>2. asked[q.slot] \in Closure /\ By("other") \in Closure
    BY Named DEF Basis
  <2> QED
    BY <1>2, <2>1, <2>2 DEF PostsAnswer, Basis, TypeOK
<1> QED
  BY <1>1, <1>2

LEMMA ToggledTypes ==
  ASSUME Basis, NEW u
  PROVE  Toggled(u) \in Seq(Card) /\ Len(Toggled(u)) = Len(cards)
<1>1. ASSUME NEW i \in DOMAIN cards
      PROVE  (IF cards[i].url = u THEN [cards[i] EXCEPT !.saved = ~@] ELSE cards[i]) \in Card
  <2>1. cards[i] \in Card
    BY DEF Basis
  <2> QED
    BY <2>1 DEF Card
<1>2. DOMAIN cards = 1..Len(cards) /\ Len(cards) \in Nat
  BY DEF Basis
<1>3. Toggled(u) \in [1..Len(cards) -> Card]
  BY <1>1, <1>2 DEF Toggled
<1> QED
  BY <1>2, <1>3

\* The queues after a completion has run.
LEMMA RunTypes ==
  ASSUME Basis, SRunCompletion
  PROVE  /\ queries' = queries /\ asked' = asked
         /\ mainQueue # <<>> /\ Len(mainQueue') = Len(mainQueue) - 1
         /\ posted' \in Seq(Closure) /\ Len(posted') = Len(mainQueue')
         /\ Head(posted) \in Closure /\ Head(mainQueue) \in Completion
         /\ cardSaves' \subseteq awaiting'
         /\ Len(mainQueue) \in Nat \ {0}
BY DEF SRunCompletion, Basis, TypeOK

LEMMA CompletionTypes ==
  ASSUME Basis, TypeOK', SRunCompletion
  PROVE  Basis'
<1> DEFINE m == Head(mainQueue)
           c == Head(posted)
<1>1. c \in Closure /\ 0 \notin reloads
  BY RunTypes DEF SRunCompletion
<1>2. RunElsewhere(m, c) \/ RunLaunchUrls(m) \/ RunLoad(m, c) \/ RunRefresh(m, c)
        \/ RunSwipe(m, c)
  BY DEF SRunCompletion
<1> HIDE DEF m, c
<1>3. reloads' \subseteq 0..Len(mainQueue') /\ OneOf(reloads')
  <2>1. CASE Advance
    <3>1. \A n \in reloads : n - 1 \in 0..Len(mainQueue')
      BY <1>1, RunTypes DEF Basis
    <3> QED
      BY <2>1, <3>1 DEF Advance, Basis, OneOf
  <2>2. CASE reloads' = {Len(mainQueue) - 1}
    BY <2>2, RunTypes DEF OneOf
  <2> QED
    BY <1>2, <2>1, <2>2 DEF RunElsewhere, RunLaunchUrls, RunLoad, RunRefresh, RunSwipe
<1>4. cards' \in Seq(Card) /\ Len(cards') <= Visible /\ calm' \in BOOLEAN
  <2>1. CASE RunElsewhere(m, c)
    BY <2>1, ToggledTypes DEF RunElsewhere, Basis
  <2>2. CASE RunSwipe(m, c)
    BY <2>2 DEF RunSwipe, Basis
  <2> QED
    BY <1>2, <2>1, <2>2, WatchTypes DEF RunLaunchUrls, RunLoad, RunRefresh
<1>5. opened' \in BOOLEAN /\ crashed' \in BOOLEAN /\ unseen' \in BOOLEAN
  BY <1>2 DEF RunElsewhere, RunLaunchUrls, RunLoad, RunRefresh, RunSwipe, Basis
<1>6. rows' \in Seq(Doc)
  <2>1. ASSUME NEW r \in Nat \ {0}, r <= Len(rows), rows' = RemoveAt(rows, r)
        PROVE  rows' \in Seq(Doc)
    BY <2>1 DEF RemoveAt, Basis
  <2>2. CASE RunSwipe(m, c)
    <3>1. c.row \in Nat \ {0}
      BY <1>1, <2>2 DEF RunSwipe, Closure
    <3> QED
      BY <2>1, <2>2, <3>1 DEF RunSwipe, Basis
  <2> QED
    BY <1>2, <2>2 DEF RunElsewhere, RunLaunchUrls, RunLoad, RunRefresh, Basis, TypeOK
<1> QED
  BY <1>3, <1>4, <1>5, <1>6, RunTypes DEF Basis

LEMMA BasisStep == Basis /\ [SNext]_ssvars => Basis' /\ [Next]_vars
<1> SUFFICES ASSUME Basis, [SNext]_ssvars PROVE Basis'
  BY ScreensImplement
<1>1. TypeOK'
  BY ScreensImplement, NextType DEF Basis
<1>2. CASE UNCHANGED ssvars
  BY <1>1, <1>2 DEF ssvars, vars, calls, screens, closures, Basis
<1>3. CASE SMemoryWarning
  BY <1>1, <1>3, WatchTypes
     DEF SMemoryWarning, MemoryWarning, calls, closures, Basis
<1>4. CASE Silent
  BY <1>1, <1>4
     DEF Silent, Connect, Disconnect, DeleteAcknowledged, DeleteRejected, calls,
         screens, closures, Basis
<1>5. CASE PostsSave \/ \E q \in queries : PostsAnswer(q)
  <2>1. \A n \in 0..Len(mainQueue) : n \in 0..Len(mainQueue')
    BY <1>1, <1>5, PostTypes DEF Basis, TypeOK
  <2> QED
    BY <1>1, <1>5, <2>1, PostTypes DEF screens, Basis
<1>6. CASE RunReload
  BY <1>1, <1>6 DEF RunReload, vars, calls, Basis, OneOf, TypeOK
<1> QED
  BY <1>1, <1>2, <1>3, <1>4, <1>5, <1>6, ReaderTypes, CompletionTypes DEF SNext

LEMMA BasisHolds == SSpec => []Basis
BY InitBasis, BasisStep, PTL DEF SSpec

(***************************************************************************)
(* The screens' state has the types the model gives it, whatever the       *)
(* reader does and however the answers come.                               *)
(***************************************************************************)
THEOREM ScreensTyped == SSpec => []ScreensTypeOK
BY BasisHolds, BasisTypes, PTL

(***************************************************************************)
(* Every behaviour of the screens is one of SavedArticles: what is proved  *)
(* of the bookmarks there, that none is lost above all, holds here.        *)
(***************************************************************************)
THEOREM ScreensImplementArticles == SSpec => Spec
<1>1. SInit => Init
  BY DEF SInit
<1> QED
  BY <1>1, BasisHolds, BasisStep, PTL DEF SSpec, Spec

-----------------------------------------------------------------------------
(* The Saved table and its list.                                           *)

LEMMA WithoutRow ==
  ASSUME NEW S, NEW s \in Seq(S), NEW r \in 1..Len(s)
  PROVE  /\ RemoveAt(s, r) \in Seq(S) /\ Len(RemoveAt(s, r)) = Len(s) - 1
         /\ \A k \in 1..(Len(s) - 1) :
              RemoveAt(s, r)[k] = IF k < r THEN s[k] ELSE s[k + 1]
<1> DEFINE before == SubSeq(s, 1, r - 1)
           behind == SubSeq(s, r + 1, Len(s))
<1>1. /\ before \in Seq(S) /\ Len(before) = r - 1
      /\ \A k \in 1..(r - 1) : before[k] = s[k]
  OBVIOUS
<1>2. /\ behind \in Seq(S) /\ Len(behind) = Len(s) - r
      /\ \A k \in 1..(Len(s) - r) : behind[k] = s[k + r]
  OBVIOUS
<1>3. RemoveAt(s, r) = before \o behind
  BY DEF RemoveAt
<1> HIDE DEF before, behind
<1>4. /\ before \o behind \in Seq(S) /\ Len(before \o behind) = Len(s) - 1
      /\ \A k \in 1..(Len(s) - 1) :
           (before \o behind)[k] = IF k < r THEN before[k] ELSE behind[k - (r - 1)]
  <2>1. \A k \in 1..(Len(before) + Len(behind)) :
          (before \o behind)[k] = IF k <= Len(before) THEN before[k]
                                 ELSE behind[k - Len(before)]
    BY <1>1, <1>2, ConcatProperties
  <2>2. before \o behind \in Seq(S) /\ Len(before \o behind) = Len(before) + Len(behind)
    BY <1>1, <1>2, ConcatProperties
  <2>3. Len(before) + Len(behind) = Len(s) - 1
    BY <1>1, <1>2
  <2> QED
    BY <1>1, <2>1, <2>2, <2>3
<1>5. \A k \in 1..(Len(s) - 1) : ~(k < r) => behind[k - (r - 1)] = s[k + 1]
  <2> SUFFICES ASSUME NEW k \in 1..(Len(s) - 1), ~(k < r)
               PROVE  behind[k - (r - 1)] = s[k + 1]
    OBVIOUS
  <2>1. k - (r - 1) \in 1..(Len(s) - r) /\ (k - (r - 1)) + r = k + 1
    OBVIOUS
  <2> QED
    BY <1>2, <2>1
<1>6. ASSUME NEW k \in 1..(Len(s) - 1)
      PROVE  (before \o behind)[k] = IF k < r THEN s[k] ELSE s[k + 1]
  <2>1. CASE k < r
    <3>1. k \in 1..(r - 1)
      BY <2>1
    <3> QED
      BY <1>1, <1>4, <2>1, <3>1
  <2>2. CASE ~(k < r)
    BY <1>4, <1>5, <2>2
  <2> QED
    BY <2>1, <2>2
<1> QED
  BY <1>3, <1>4, <1>6

LEMMA TableStep ==
  Basis /\ Basis' /\ SavedTableCatchesUp /\ [SNext]_ssvars => SavedTableCatchesUp'
<1> SUFFICES ASSUME Basis, Basis', SavedTableCatchesUp, [SNext]_ssvars
             PROVE  SavedTableCatchesUp'
  OBVIOUS
<1>1. CASE UNCHANGED <<opened, rows, savedNews, unseen>> /\ (crashed => crashed')
  BY <1>1 DEF SavedTableCatchesUp
<1>2. CASE Reader
  <2>1. ASSUME NEW k, NEW u, NEW c, AskBy(k, u, c) PROVE UNCHANGED savedNews
    BY <2>1 DEF AskBy, Ask, lists
  <2>2. ASSUME NEW u, SaveArticle(u) PROVE UNCHANGED savedNews
    BY <2>2 DEF SaveArticle, lists
  <2>3. CASE OpenSaved
    BY <2>1, <2>3 DEF OpenSaved, SavedTableCatchesUp
  <2> QED
    BY <1>1, <1>2, <2>1, <2>2, <2>3
       DEF Reader, Refresh, TouchMissing, SwipeRow, TapCard, DealCards, SwipeCard,
           BringBack, TouchReplaced, ShowCards, SaveElsewhere, UnsaveElsewhere, vars, lists
<1>3. CASE SRunCompletion
  <2> DEFINE m == Head(mainQueue)
             c == Head(posted)
  <2>1. c \in Closure
    BY <1>3, RunTypes
  <2>2. RunElsewhere(m, c) \/ RunLaunchUrls(m) \/ RunLoad(m, c) \/ RunRefresh(m, c)
          \/ RunSwipe(m, c)
    BY <1>3 DEF SRunCompletion
  <2> HIDE DEF m, c
  <2>3. CASE RunElsewhere(m, c)
    BY <2>3 DEF RunElsewhere, SavedTableCatchesUp, Basis
  <2>4. CASE RunLaunchUrls(m)
    BY <1>1, <2>4 DEF RunLaunchUrls, RunUrls
  <2>5. CASE RunLoad(m, c) \/ RunRefresh(m, c)
    BY <2>5 DEF RunLoad, RunRefresh, SavedTableCatchesUp
  <2>6. CASE RunSwipe(m, c)
    <3>1. c.row \in Nat \ {0}
      BY <2>1, <2>6 DEF RunSwipe, Closure
    <3>2. CASE RunOtherFailed(m)
      BY <1>1, <2>6, <3>2 DEF RunSwipe, RunOtherFailed, RunUnsave, lists
    <3>3. CASE RunUnsave(m) /\ crashed' = TRUE
      BY <3>3 DEF SavedTableCatchesUp
    <3>4. CASE /\ Len(savedNews') = Len(rows) - 1 /\ c.row <= Len(rows)
               /\ rows' = RemoveAt(rows, c.row)
      <4>1. rows \in Seq(Doc) /\ Len(rows) \in Nat
        BY DEF Basis
      <4>2. Len(rows') = Len(rows) - 1
        BY <3>1, <3>4, <4>1, WithoutRow
      <4> QED
        BY <3>4, <4>2 DEF SavedTableCatchesUp
    <3> QED
      BY <2>6, <3>2, <3>3, <3>4 DEF RunSwipe
  <2> QED
    BY <2>2, <2>3, <2>4, <2>5, <2>6
<1>4. CASE RunReload
  BY <1>4 DEF RunReload, vars, lists, SavedTableCatchesUp
<1>5. CASE SMemoryWarning
  BY <1>5 DEF SMemoryWarning, SavedTableCatchesUp
<1>6. CASE PostsSave \/ Silent \/ (\E q \in queries : PostsAnswer(q)) \/ UNCHANGED ssvars
  <2>1. UNCHANGED savedNews
    BY <1>6
       DEF PostsSave, CreateAcknowledged, CreateRejected, Silent, Connect,
           Disconnect, DeleteAcknowledged, DeleteRejected, PostsAnswer,
           ServerAnswers, CacheAnswers, QueryFails, lists, ssvars, vars
  <2> QED
    BY <1>1, <1>6, <2>1 DEF PostsSave, Silent, PostsAnswer, screens, ssvars
<1> QED
  BY <1>2, <1>3, <1>4, <1>5, <1>6 DEF SNext

(***************************************************************************)
(* Whatever the reader does and the server answers, the Saved table has a  *)
(* row for each article of its list unless it was not told of a change.    *)
(***************************************************************************)
THEOREM SavedTableFollows == SSpec => []SavedTableCatchesUp
<1>1. SInit => SavedTableCatchesUp
  BY DEF SInit, InitScreens, SavedTableCatchesUp
<1> QED
  BY <1>1, BasisHolds, TableStep, PTL DEF SSpec

-----------------------------------------------------------------------------
(* What an unsave leaves of the list.                                      *)

Others(url, s) == {i \in 1..Len(s) : s[i].url # url}

OthersTo(url, s, x) == {i \in Others(url, s) : i <= x}

LEMMA OthersOf ==
  ASSUME NEW url, NEW s \in Seq(Doc), NEW t \in Without(url, s)
  PROVE  \E f \in [1..Len(t) -> Others(url, s)] :
           /\ Len(t) = Cardinality(Others(url, s))
           /\ \A k \in 1..Len(t) :
                t[k] = s[f[k]] /\ Cardinality(OthersTo(url, s, f[k])) = k
<1> DEFINE n == Cardinality(Others(url, s))
<1>1. n \in Nat
  <2>1. IsFiniteSet(1..Len(s)) /\ Others(url, s) \subseteq 1..Len(s)
    BY FS_Interval DEF Others
  <2> QED
    BY <2>1, FS_Subset, FS_CardinalityType
<1>2. PICK f \in [1..n -> Others(url, s)] :
        /\ t = [k \in 1..n |-> s[f[k]]]
        /\ \A k \in 1..n : Cardinality(OthersTo(url, s, f[k])) = k
  BY DEF Without, Others, OthersTo
<1> HIDE DEF n
<1>3. Len(t) = n
  BY <1>1, <1>2
<1>4. /\ f \in [1..Len(t) -> Others(url, s)] /\ Len(t) = n
      /\ \A k \in 1..Len(t) : t[k] = s[f[k]] /\ Cardinality(OthersTo(url, s, f[k])) = k
  BY <1>2, <1>3
<1> QED
  BY <1>4 DEF n

LEMMA Interval ==
  ASSUME NEW n \in Nat
  PROVE  IsFiniteSet(1..n) /\ Cardinality(1..n) = n
<1>1. IsFiniteSet(1..n) /\ Cardinality(1..n) = IF 1 > n THEN 0 ELSE n - 1 + 1
  BY FS_Interval
<1> QED
  BY <1>1

LEMMA IntervalButOne ==
  ASSUME NEW n \in Nat, NEW r \in 1..n
  PROVE  Cardinality((1..n) \ {r}) = n - 1
<1>1. Cardinality((1..n) \ {r}) = Cardinality(1..n) - 1
  BY Interval, FS_RemoveElement
<1> QED
  BY <1>1, Interval

\* They are articles of s with another url, in the order of s.
LEMMA OthersInOrder ==
  ASSUME NEW url, NEW s \in Seq(Doc), NEW t \in Without(url, s)
  PROVE  \E f \in [1..Len(t) -> 1..Len(s)] :
           /\ \A k \in 1..Len(t) : t[k] = s[f[k]] /\ t[k].url # url
           /\ \A k, l \in 1..Len(t) : k < l => f[k] < f[l]
<1> DEFINE UpTo(x) == OthersTo(url, s, x)
<1>1. PICK f \in [1..Len(t) -> Others(url, s)] :
        \A k \in 1..Len(t) : t[k] = s[f[k]] /\ Cardinality(UpTo(f[k])) = k
  BY OthersOf
<1>2. \A k \in 1..Len(t) : f[k] \in 1..Len(s) /\ s[f[k]].url # url
  BY <1>1 DEF Others
<1>3. ASSUME NEW k \in 1..Len(t), NEW l \in 1..Len(t), k < l PROVE f[k] < f[l]
  <2> SUFFICES ASSUME f[l] <= f[k] PROVE FALSE
    BY <1>2
  <2>1. UpTo(f[l]) \subseteq UpTo(f[k])
    BY <1>2 DEF Others, OthersTo
  <2>2. IsFiniteSet(UpTo(f[k]))
    <3>1. IsFiniteSet(1..Len(s)) /\ UpTo(f[k]) \subseteq 1..Len(s)
      BY FS_Interval DEF Others, OthersTo
    <3> QED
      BY <3>1, FS_Subset
  <2>3. Cardinality(UpTo(f[l])) <= Cardinality(UpTo(f[k]))
    BY <2>1, <2>2, FS_Subset
  <2>4. l <= k
    BY <1>1, <2>3
  <2> QED
    BY <1>3, <2>4
<1> QED
  BY <1>1, <1>2, <1>3

\* When one article has the url, they are the list with its row taken out.
LEMMA OthersButOne ==
  ASSUME NEW s \in Seq(Doc), NEW r \in 1..Len(s),
         \A i \in 1..Len(s) : s[i].url = s[r].url => i = r,
         NEW t \in Without(s[r].url, s)
  PROVE  Len(t) = Len(s) - 1 /\ t = RemoveAt(s, r)
<1> DEFINE url == s[r].url
           others == Others(url, s)
           UpTo(x) == OthersTo(url, s, x)
<1>1. others = (1..Len(s)) \ {r}
  BY DEF Others
<1>2. PICK f \in [1..Len(t) -> others] :
        /\ Len(t) = Cardinality(others)
        /\ \A k \in 1..Len(t) : t[k] = s[f[k]] /\ Cardinality(UpTo(f[k])) = k
  BY OthersOf
<1>3. Len(s) \in Nat /\ Len(s) # 0
  OBVIOUS
<1>4. Len(t) = Len(s) - 1
  BY <1>1, <1>2, <1>3, IntervalButOne
<1>5. ASSUME NEW x \in others PROVE Cardinality(UpTo(x)) = IF x < r THEN x ELSE x - 1
  <2>1. x \in 1..Len(s) /\ x # r /\ x \in Nat
    BY <1>1
  <2>2. CASE x < r
    <3>1. UpTo(x) = 1..x
      BY <1>1, <2>1, <2>2 DEF OthersTo
    <3> HIDE DEF UpTo
    <3> QED
      BY <2>1, <2>2, <3>1, Interval
  <2>3. CASE r < x
    <3>1. UpTo(x) = (1..x) \ {r}
      BY <1>1, <2>1, <2>3 DEF OthersTo
    <3>2. r \in 1..x
      BY <2>1, <2>3
    <3>3. Cardinality((1..x) \ {r}) = x - 1
      BY <2>1, <3>2, IntervalButOne
    <3> HIDE DEF UpTo
    <3> QED
      BY <2>1, <2>3, <3>1, <3>3
  <2> QED
    BY <2>1, <2>2, <2>3
<1>6. ASSUME NEW k \in 1..Len(t) PROVE t[k] = IF k < r THEN s[k] ELSE s[k + 1]
  <2>1. f[k] \in others /\ f[k] \in 1..Len(s) /\ f[k] # r
    BY <1>1, <1>2
  <2>2. k = IF f[k] < r THEN f[k] ELSE f[k] - 1
    BY <1>2, <1>5, <2>1
  <2>3. f[k] = IF k < r THEN k ELSE k + 1
    BY <2>1, <2>2
  <2>4. t[k] = s[f[k]]
    BY <1>2
  <2> QED
    BY <2>3, <2>4
<1>7. t = RemoveAt(s, r)
  <2>1. t \in Seq(Doc)
    BY WithoutType
  <2>2. RemoveAt(s, r) \in Seq(Doc) /\ Len(RemoveAt(s, r)) = Len(s) - 1
    BY WithoutRow
  <2>3. \A k \in 1..Len(t) : t[k] = RemoveAt(s, r)[k]
    BY <1>4, <1>6, WithoutRow
  <2> QED
    BY <1>4, <2>1, <2>2, <2>3, SeqEqual
<1> QED
  BY <1>4, <1>7

-----------------------------------------------------------------------------
(* A reader who waits.                                                     *)

\* A call made by the closure c that concerns the url of a card was made by the
\* card, and undoes its mark or sets it.
AboutCard(by, url, undoes) ==
  \A c \in Cards : c.url = url => by = "card" /\ (c.saved <=> undoes)

\* One made by a row concerns the article in that row.
AboutRow(c, url) ==
  c.by = "row" => /\ opened /\ ~unseen
                  /\ c.row \in 1..Len(savedNews) /\ savedNews[c.row].url = url

Newest(d) == \A i \in 1..Len(savedNews) : savedNews[i].savedAt < d.savedAt

\* Nothing is under way; or one query; or one save; or one completion waits.
Idle == awaiting = {} /\ queries = {} /\ mainQueue = <<>> /\ creates = <<>>

Asking ==
  /\ reloads = {} /\ awaiting = {} /\ mainQueue = <<>> /\ creates = <<>>
  /\ \E q \in queries :
       /\ queries = {q}
       /\ AboutCard(asked[q.slot].by, q.url, q.kind = "unsave")
       /\ AboutRow(asked[q.slot], q.url)

Saving ==
  /\ reloads = {} /\ queries = {} /\ mainQueue = <<>>
  /\ \E d \in local :
       /\ awaiting = {d} /\ creates = <<d>>
       /\ d \notin known /\ Newest(d)
       /\ AboutCard(IF d \in cardSaves THEN "card" ELSE "other", d.url, FALSE)

EndsWell(m, c) ==
  /\ awaiting = IF m.kind \in {"saved", "saveFailed"} THEN m.docs ELSE {}
  /\ m.kind \in {"saved", "news", "urls"} => m.docs \subseteq local
  /\ m.kind = "saved" => \A d \in m.docs : d.url = m.url /\ Newest(d)
  /\ AboutCard(c.by, m.url, m.kind \in {"unsave", "unsaveFailed"})
  /\ AboutRow(c, m.url)

Ending ==
  /\ reloads = {} /\ queries = {} /\ creates = <<>>
  /\ Len(mainQueue) = 1
  /\ EndsWell(mainQueue[1], posted[1])

Mode == Idle \/ Asking \/ Saving \/ Ending

OncePerUrl == \A d, e \in local \union remote : d.url = e.url => d = e

Lists == OncePerUrl /\ NoPhantom /\ SavedNewsNewestFirst

RowsShow == opened /\ ~unseen => rows = savedNews

Marked == \A c \in Cards : c.saved <=> c.url \in savedUrls

Calmly == Lists /\ RowsShow /\ Marked /\ Mode /\ ~crashed

LEMMA LaunchCalm == SInit => Calmly
<1> SUFFICES ASSUME SInit PROVE Calmly
  OBVIOUS
<1>1. /\ remote = Initial /\ local \in {{}, Initial} /\ creates = <<>>
      /\ awaiting = {} /\ mainQueue = <<>> /\ queries = {LaunchQuery}
      /\ savedNews = <<>> /\ savedUrls = {} /\ Len(savedNews) = 0
      /\ Cards = {} /\ reloads = {} /\ crashed = FALSE /\ opened = FALSE
      /\ asked = [n \in 1..MaxInFlight |-> By("other")]
  BY DEF SInit, Init, InitScreens, Cards, ToSet
<1>2. Lists
  BY <1>1, ScreensAssumption DEF Lists, OncePerUrl, NoPhantom, SavedNewsNewestFirst
<1>3. asked[LaunchQuery.slot].by = "other"
  BY <1>1, ScreensAssumption, ConstantsAssumption DEF LaunchQuery, By
<1>4. Asking
  BY <1>1, <1>3 DEF Asking, AboutCard, AboutRow
<1> QED
  BY <1>1, <1>2, <1>4 DEF Calmly, RowsShow, Marked, Mode

LEMMA ListsStay ==
  ASSUME Lists, UNCHANGED <<remote, local, known, lists>>
  PROVE  Lists'
BY DEF Lists, OncePerUrl, NoPhantom, SavedNewsNewestFirst, lists

LEMMA SettledIdle ==
  ASSUME Basis, Calmly, Settled
  PROVE  Idle /\ reloads = {} /\ cardSaves = {} /\ posted = <<>>
<1>1. awaiting = {} /\ queries = {} /\ mainQueue = <<>> /\ reloads = {}
  BY DEF Settled
<1>2. Idle
  <2>1. ~Asking
    BY <1>1 DEF Asking
  <2>2. ~Saving
    BY <1>1 DEF Saving
  <2>3. ~Ending
    BY <1>1 DEF Ending
  <2> QED
    BY <2>1, <2>2, <2>3 DEF Calmly, Mode
<1> QED
  BY <1>1, <1>2 DEF Basis

\* The first slot is free.
LEMMA AskCalm ==
  ASSUME Basis, Calmly, Settled, NEW kind, NEW u, NEW c, AskBy(kind, u, c),
         AboutCard(c.by, u, kind = "unsave")', AboutRow(c, u)'
  PROVE  Asking' /\ Lists'
<1>1. Idle /\ reloads = {}
  BY SettledIdle
<1>2. PICK n \in 1..MaxInFlight :
        /\ FreeSlot(n)
        /\ queries' = queries \union {[kind |-> kind, url |-> u, slot |-> n]}
  BY DEF AskBy, Ask
<1>3. MaxInFlight \in Nat
  BY ConstantsAssumption
<1>4. \A k \in 1..MaxInFlight : FreeSlot(k) <=> k = 1
  <2> SUFFICES ASSUME NEW k \in 1..MaxInFlight PROVE FreeSlot(k) <=> k = 1
    OBVIOUS
  <2>1. k # 1 => 1 \in 1..(k - 1)
    BY <1>3
  <2> QED
    BY <1>1, <2>1 DEF FreeSlot, Idle
<1>5. NewSlot = 1 /\ n = 1 /\ 1 \in 1..MaxInFlight
  BY <1>2, <1>4 DEF NewSlot
<1>6. asked'[1] = c
  BY <1>5 DEF AskBy, Basis
<1>7. UNCHANGED <<store, awaiting, mainQueue, lists, known, reloads>>
  BY DEF AskBy, Ask, history
<1> DEFINE q == [kind |-> kind, url |-> u, slot |-> 1]
<1>8. queries' = {q} /\ asked'[q.slot] = c /\ q.url = u /\ q.kind = kind
  BY <1>1, <1>2, <1>5, <1>6 DEF Idle
<1> HIDE DEF q
<1>9. Asking'
  BY <1>1, <1>7, <1>8 DEF Asking, Idle, store
<1> QED
  BY <1>7, <1>9, ListsStay DEF Calmly, store

LEMMA SaveCalm ==
  ASSUME Basis, IInv, Calmly, Settled, NEW u \in Url, SaveArticle(u), ~Saved(u),
         UNCHANGED <<cards, reloads>>,
         NEW by \in {"card", "other"},
         cardSaves' = IF by = "card" THEN cardSaves \union (awaiting' \ awaiting)
                                     ELSE cardSaves,
         AboutCard(by, u, FALSE)
  PROVE  Saving' /\ Lists'
<1>0. PICK d : d = [savedAt |-> clock, url |-> u]
  OBVIOUS
<1>1. Idle /\ reloads = {} /\ cardSaves = {}
  BY SettledIdle
<1>2. /\ d.savedAt = clock /\ d.url = u /\ d \in Doc
      /\ \A e \in remote \union local \union known : e.savedAt < clock
  BY <1>0 DEF IInv, FreshClock, TypeOK, Doc
<1>3. /\ local' = local \union {d} /\ awaiting' = {d} /\ creates' = <<d>>
      /\ UNCHANGED <<remote, queries, mainQueue, savedNews, savedUrls, known>>
  BY <1>0, <1>1 DEF SaveArticle, Idle, lists, history
<1>4. d \notin known
  BY <1>2 DEF IInv, TypeOK
<1>5. Newest(d)'
  <2>1. \A i \in 1..Len(savedNews) : savedNews[i] \in local
    BY DEF Calmly, Lists, SavedNewsNewestFirst
  <2> QED
    BY <1>2, <1>3, <2>1 DEF Newest
<1>6. AboutCard(IF d \in cardSaves THEN "card" ELSE "other", d.url, FALSE)'
  <2>1. (IF d \in cardSaves' THEN "card" ELSE "other") = by
    <3>1. awaiting = {} /\ awaiting' \ awaiting = {d}
      BY <1>1, <1>3 DEF Idle
    <3>2. by = "card" => d \in cardSaves'
      BY <3>1
    <3>3. by = "other" => cardSaves' = {}
      BY <1>1
    <3> QED
      BY <3>2, <3>3
  <2> QED
    BY <1>2, <2>1 DEF AboutCard, Cards
<1>7. Saving'
  BY <1>1, <1>3, <1>4, <1>5, <1>6 DEF Saving, Idle
<1>8. OncePerUrl'
  <2>1. \A e \in local \union remote : e.url # u
    BY DEF Saved, Urls
  <2> QED
    BY <1>2, <1>3, <2>1 DEF Calmly, Lists, OncePerUrl
<1>9. NoPhantom' /\ SavedNewsNewestFirst'
  BY <1>3 DEF Calmly, Lists, NoPhantom, SavedNewsNewestFirst
<1> QED
  BY <1>7, <1>8, <1>9 DEF Lists

LEMMA KeptCards ==
  ASSUME NEW condition \in BOOLEAN, Watch(condition), calm'
  PROVE  calm /\ condition /\ cards' = cards /\ Cards' = Cards
BY DEF Watch, WatchCards, Cards

LEMMA CardUrls ==
  ASSUME Basis, NEW c \in Cards
  PROVE  c.url \in Url /\ c.saved \in BOOLEAN
<1>1. PICK i \in DOMAIN cards : c = cards[i]
  BY DEF Cards, ToSet
<1>2. cards \in Seq(Card)
  BY DEF Basis
<1>3. c \in Card
  BY <1>1, <1>2
<1> QED
  BY <1>3 DEF Card

LEMMA ReaderCalm ==
  ASSUME Basis, IInv, Calmly, Reader, calm', ~crashed
  PROVE  Calmly'
<1>1. CASE OpenSaved
  <2>1. Settled /\ cards' = cards /\ Cards' = Cards
    BY <1>1, KeptCards DEF OpenSaved, Settled
  <2>2. /\ By("load").by = "load" /\ \A c \in Cards : c.url # NoUrl
        /\ UNCHANGED <<savedUrls, savedNews, crashed>>
    BY <1>1, ConstantsAssumption, CardUrls DEF By, OpenSaved, AskBy, Ask, lists
  <2>3. Asking' /\ Lists'
    BY <1>1, <2>1, <2>2, AskCalm DEF OpenSaved, AboutCard, AboutRow
  <2> QED
    BY <1>1, <2>1, <2>2, <2>3 DEF OpenSaved, Calmly, RowsShow, Marked, Mode
<1>2. CASE Refresh
  <2>1. Settled /\ cards' = cards /\ Cards' = Cards
    BY <1>2, KeptCards DEF Refresh, Settled
  <2>2. /\ By("refresh").by = "refresh" /\ \A c \in Cards : c.url # NoUrl
        /\ UNCHANGED <<savedUrls, savedNews, rows, opened, unseen, crashed>>
    BY <1>2, ConstantsAssumption, CardUrls DEF By, Refresh, AskBy, Ask, lists
  <2>3. Asking' /\ Lists'
    BY <1>2, <2>1, <2>2, AskCalm DEF Refresh, AboutCard, AboutRow
  <2> QED
    BY <2>1, <2>2, <2>3 DEF Calmly, RowsShow, Marked, Mode
<1>3. CASE TouchMissing
  <2>1. ~unseen
    BY <1>3 DEF TouchMissing, Watch, WatchCards
  <2>2. rows = savedNews
    BY <1>3, <2>1 DEF TouchMissing, Calmly, RowsShow
  <2> QED
    BY <1>3, <2>2 DEF TouchMissing, Basis, TypeOK
<1>4. ASSUME NEW r \in 1..Len(rows), SwipeRow(r) PROVE Calmly'
  <2>0. PICK c, u : c = [by |-> "row", row |-> r] /\ u = savedNews[r].url
    OBVIOUS
  <2>1. Settled /\ ~unseen /\ ~OnCard(u) /\ cards' = cards /\ Cards' = Cards
    BY <1>4, <2>0, KeptCards DEF SwipeRow, Settled, OnCard
  <2>2. /\ AskBy("unsave", u, c) /\ opened /\ r \in 1..Len(savedNews)
        /\ UNCHANGED <<savedUrls, savedNews, rows, opened, unseen, crashed>>
    BY <1>4, <2>0 DEF SwipeRow, AskBy, Ask, lists, Basis, TypeOK
  <2>3. AboutCard(c.by, u, "unsave" = "unsave")'
    BY <2>0, <2>1, <2>2 DEF AboutCard, OnCard
  <2>4. AboutRow(c, u)'
    BY <2>0, <2>1, <2>2 DEF AboutRow
  <2>5. Asking' /\ Lists'
    BY <2>1, <2>2, <2>3, <2>4, AskCalm
  <2> QED
    BY <2>1, <2>2, <2>5 DEF Calmly, RowsShow, Marked, Mode
<1>5. CASE cards # <<>> /\ TapCard(Head(cards))
  <2>0. PICK c : c = Head(cards)
    OBVIOUS
  <2>1. /\ Settled /\ cards' = cards /\ Cards' = Cards
        /\ c.saved \/ ~Saved(c.url)
        /\ c \in Cards /\ c.url \in Url /\ c.saved \in BOOLEAN
        /\ \A x \in Cards : x.url = c.url => (x.saved <=> c.saved)
    <3>1. c \in Cards /\ c.url \in Url /\ c.saved \in BOOLEAN /\ TapCard(c)
      BY <1>5, <2>0, TopCard
    <3>2. PICK condition \in BOOLEAN : condition <=> (Settled /\ (c.saved \/ ~Saved(c.url)))
      OBVIOUS
    <3>3. Watch(condition)
      BY <3>1, <3>2 DEF TapCard, Watch, WatchCards
    <3> QED
      BY <3>1, <3>2, <3>3, KeptCards DEF Calmly, Marked
  <2>2. UNCHANGED <<rows, opened, unseen, crashed>>
    BY <1>5, <2>0 DEF TapCard
  <2>3. CASE c.saved /\ AskBy("unsave", c.url, By("card"))
    <3>1. By("card").by = "card" /\ UNCHANGED <<savedUrls, savedNews>>
      BY <2>3 DEF By, AskBy, Ask, lists
    <3>2. Asking' /\ Lists'
      BY <2>1, <2>3, <3>1, AskCalm DEF AboutCard, AboutRow
    <3> QED
      BY <2>1, <2>2, <3>1, <3>2 DEF Calmly, RowsShow, Marked, Mode
  <2>4. CASE /\ ~c.saved /\ SaveArticle(c.url)
             /\ cardSaves' = cardSaves \union (awaiting' \ awaiting)
             /\ UNCHANGED <<asked, posted, reloads>>
    <3>1. UNCHANGED <<savedUrls, savedNews>>
      BY <2>4 DEF SaveArticle, lists
    <3>2. AboutCard("card", c.url, FALSE) /\ ~Saved(c.url)
      BY <2>1, <2>4 DEF AboutCard
    <3>3. Saving' /\ Lists'
      BY <2>1, <2>4, <3>2, SaveCalm
    <3> QED
      BY <2>1, <2>2, <3>1, <3>3 DEF Calmly, RowsShow, Marked, Mode
  <2> QED
    BY <1>5, <2>0, <2>3, <2>4 DEF TapCard
<1>6. CASE MovesDeck
  <2>1. UNCHANGED <<remote, local, known, lists, awaiting, queries, mainQueue, creates,
                    rows, opened, unseen, crashed, savedUrls>>
    BY <1>6, DeckAlone DEF vars, store, calls, history, lists
  <2>2. Idle'
    BY <1>6, <2>1, SettledIdle, DeckTypes DEF Idle
  <2>3. Marked'
    BY <1>6, <2>1, DeckTypes DEF Calmly, Marked, Cards
  <2>4. RowsShow' /\ Lists'
    BY <2>1, ListsStay DEF Calmly, RowsShow, lists
  <2> QED
    BY <2>1, <2>2, <2>3, <2>4 DEF Calmly, Mode
<1>7. ASSUME NEW u \in Url, SaveElsewhere(u) PROVE Calmly'
  <2>1. Settled /\ ~Saved(u) /\ ~OnCard(u) /\ cards' = cards /\ Cards' = Cards
    BY <1>7, KeptCards DEF SaveElsewhere, Settled, OnCard
  <2>2. /\ SaveArticle(u) /\ cardSaves' = cardSaves
        /\ UNCHANGED <<savedUrls, savedNews, rows, opened, unseen, crashed, reloads>>
    BY <1>7 DEF SaveElsewhere, SaveArticle, lists, closures
  <2>3. AboutCard("other", u, FALSE)
    BY <2>1 DEF AboutCard, OnCard
  <2>4. Saving' /\ Lists'
    BY <2>1, <2>2, <2>3, SaveCalm
  <2> QED
    BY <2>1, <2>2, <2>4 DEF Calmly, RowsShow, Marked, Mode
<1>8. ASSUME NEW u \in Url, UnsaveElsewhere(u) PROVE Calmly'
  <2>1. Settled /\ ~OnCard(u) /\ cards' = cards /\ Cards' = Cards
    BY <1>8, KeptCards DEF UnsaveElsewhere, Settled, OnCard
  <2>2. /\ AskBy("unsave", u, By("other")) /\ By("other").by = "other"
        /\ UNCHANGED <<savedUrls, savedNews, rows, opened, unseen, crashed>>
    BY <1>8 DEF UnsaveElsewhere, AskBy, Ask, lists, By
  <2>3. Asking' /\ Lists'
    BY <2>1, <2>2, AskCalm DEF AboutCard, AboutRow, OnCard
  <2> QED
    BY <2>1, <2>2, <2>3 DEF Calmly, RowsShow, Marked, Mode
<1> QED
  BY <1>1, <1>2, <1>3, <1>4, <1>5, <1>6, <1>7, <1>8 DEF Reader, MovesDeck

LEMMA SilentCalm ==
  ASSUME Basis, Calmly, Silent
  PROVE  Calmly'
<1>1. /\ local \subseteq local' /\ local' \union remote' \subseteq local \union remote
      /\ UNCHANGED <<creates, awaiting, queries, mainQueue, savedNews, savedUrls, known>>
      /\ UNCHANGED <<opened, rows, cards, Cards, asked, posted, cardSaves, reloads, crashed, unseen>>
  BY DEF Silent, Connect, Disconnect, DeleteAcknowledged, DeleteRejected, calls,
         lists, history, screens, closures, Cards
<1>2. Lists'
  BY <1>1 DEF Calmly, Lists, OncePerUrl, NoPhantom, SavedNewsNewestFirst
<1>3. RowsShow' /\ Marked' /\ ~crashed'
  BY <1>1 DEF Calmly, RowsShow, Marked
<1>4. Mode'
  <2>1. CASE Idle
    BY <1>1, <2>1 DEF Idle, Mode
  <2>2. CASE Asking
    BY <1>1, <2>2 DEF Asking, Mode, AboutCard, AboutRow
  <2>3. CASE Saving
    BY <1>1, <2>3 DEF Saving, Mode, AboutCard, Newest
  <2>4. CASE Ending
    BY <1>1, <2>4 DEF Ending, Mode, EndsWell, AboutCard, AboutRow, Newest
  <2> QED
    BY <2>1, <2>2, <2>3, <2>4 DEF Calmly, Mode
<1> QED
  BY <1>2, <1>3, <1>4 DEF Calmly

\* One completion is posted, with its closure.
LEMMA PostEnds ==
  ASSUME Basis, Calmly, mainQueue = <<>>, posted = <<>>,
         NEW m, NEW c, mainQueue' = Append(mainQueue, m), posted' = Append(posted, c),
         reloads' = {}, queries' = {}, creates' = <<>>, EndsWell(m, c)'
  PROVE  Ending'
<1>1. mainQueue' = <<m>> /\ posted' = <<c>>
  OBVIOUS
<1> QED
  BY <1>1 DEF Ending

LEMMA PostsSaveCalm ==
  ASSUME Basis, Calmly, PostsSave
  PROVE  Calmly'
<1>1. Saving
  <2>1. creates # <<>>
    BY DEF PostsSave, CreateAcknowledged, CreateRejected
  <2> QED
    BY <2>1 DEF Calmly, Mode, Idle, Asking, Ending
<1>2. PICK d \in local :
        /\ awaiting = {d} /\ creates = <<d>> /\ d \notin known /\ Newest(d)
        /\ AboutCard(IF d \in cardSaves THEN "card" ELSE "other", d.url, FALSE)
  BY <1>1 DEF Saving
<1>3. PICK kind \in {"saved", "saveFailed"} :
        /\ NotifyUser(kind, d)
        /\ \/ kind = "saved" /\ remote' = remote \union {d} /\ UNCHANGED local
           \/ kind = "saveFailed" /\ UNCHANGED remote /\ local' = local \ {d}
  BY <1>2 DEF PostsSave, CreateAcknowledged, CreateRejected
<1>4. PICK m : m = [kind |-> kind, url |-> d.url, docs |-> {d}]
  OBVIOUS
<1>5. PICK c : c = By(IF d \in cardSaves THEN "card" ELSE "other")
  OBVIOUS
<1>6. /\ mainQueue = <<>> /\ posted = <<>> /\ reloads = {} /\ queries = {}
      /\ mainQueue' = Append(mainQueue, m) /\ posted' = Append(posted, c)
  <2>1. mainQueue = <<>> /\ posted = <<>> /\ reloads = {} /\ queries = {}
    BY <1>1 DEF Saving, Basis
  <2>2. mainQueue' = Append(mainQueue, m)
    BY <1>2, <1>3, <1>4 DEF NotifyUser, Post
  <2>3. mainQueue' # mainQueue
    BY <2>1, <2>2
  <2>4. Head(creates) = d
    BY <1>2
  <2> QED
    BY <1>5, <2>1, <2>2, <2>3, <2>4 DEF PostsSave
<1>7. /\ UNCHANGED <<awaiting, queries, savedNews, savedUrls, known>>
      /\ UNCHANGED <<opened, rows, cards, Cards, reloads, crashed, unseen>>
      /\ creates' = <<>>
  BY <1>2 DEF PostsSave, CreateAcknowledged, CreateRejected, lists, history, screens,
     Cards
<1>8. Ending'
  <2>1. /\ m.kind = kind /\ m.url = d.url /\ m.docs = {d}
        /\ c.by = IF d \in cardSaves THEN "card" ELSE "other"
    BY <1>4, <1>5 DEF By
  <2>2. EndsWell(m, c)'
    BY <1>2, <1>3, <1>7, <2>1 DEF EndsWell, AboutCard, AboutRow, Newest
  <2> QED
    BY <1>6, <1>7, <2>2, PostEnds
<1>9. Lists'
  <2>1. local' \union remote' \subseteq local \union remote
    BY <1>2, <1>3
  <2>2. OncePerUrl'
    BY <2>1 DEF Calmly, Lists, OncePerUrl
  <2>3. NoPhantom'
    BY <1>2, <1>3, <1>7 DEF Calmly, Lists, NoPhantom
  <2>4. \A i \in 1..Len(savedNews) : savedNews[i] \in local /\ savedNews[i] # d
    <3> SUFFICES ASSUME NEW i \in 1..Len(savedNews)
                 PROVE  savedNews[i] \in local /\ savedNews[i] # d
      OBVIOUS
    <3>1. savedNews[i] \in local /\ savedNews[i].savedAt < d.savedAt
      BY <1>2 DEF Calmly, Lists, SavedNewsNewestFirst, Newest
    <3>2. d.savedAt \in Nat
      BY DEF Basis, TypeOK, Doc
    <3> QED
      BY <3>1, <3>2
  <2>5. SavedNewsNewestFirst'
    BY <1>3, <1>7, <2>4 DEF Calmly, Lists, SavedNewsNewestFirst
  <2> QED
    BY <2>2, <2>3, <2>5 DEF Lists
<1> QED
  BY <1>7, <1>8, <1>9 DEF Calmly, Mode, RowsShow, Marked

LEMMA PostsAnswerCalm ==
  ASSUME Basis, Calmly, NEW q \in queries, PostsAnswer(q)
  PROVE  Calmly'
<1>1. Asking
  BY DEF Calmly, Mode, Idle, Saving, Ending
<1>2. /\ queries = {q} /\ reloads = {} /\ awaiting = {} /\ mainQueue = <<>>
      /\ creates = <<>> /\ posted = <<>>
      /\ AboutCard(asked[q.slot].by, q.url, q.kind = "unsave")
      /\ AboutRow(asked[q.slot], q.url)
  BY <1>1 DEF Asking, Basis
<1>3. q \in Query /\ q.kind \in {"news", "urls", "unsave"}
  BY DEF Basis, TypeOK, Query
<1>4. PICK c : c = asked[q.slot]
  OBVIOUS
<1>5. PICK m :
        /\ mainQueue' = Append(mainQueue, m) /\ m.url = q.url
        /\ \/ m.kind = q.kind /\ m.docs \subseteq local'
           \/ m.kind = Failed(q.kind)
  <2>1. CASE ServerAnswers(q)
    <3>1. PICK synced : synced = local \union Matching(q, remote \ deletes)
      OBVIOUS
    <3>2. Post(q.kind, q.url, Matching(q, synced)) /\ local' = synced
      BY <2>1, <3>1 DEF ServerAnswers
    <3>3. Matching(q, synced) \subseteq synced
      BY DEF Matching
    <3>4. PICK m : m = [kind |-> q.kind, url |-> q.url, docs |-> Matching(q, synced)]
      OBVIOUS
    <3> QED
      BY <3>2, <3>3, <3>4 DEF Post
  <2>2. CASE CacheAnswers(q)
    <3>1. Matching(q, local) \subseteq local /\ local' = local
      BY <2>2 DEF Matching, CacheAnswers, store
    <3>2. PICK m : m = [kind |-> q.kind, url |-> q.url, docs |-> Matching(q, local)]
      OBVIOUS
    <3> QED
      BY <2>2, <3>1, <3>2 DEF CacheAnswers, Post
  <2>3. CASE QueryFails(q)
    <3>1. PICK m : m = [kind |-> Failed(q.kind), url |-> q.url, docs |-> {}]
      OBVIOUS
    <3> QED
      BY <2>3, <3>1 DEF QueryFails, Post
  <2> QED
    BY <2>1, <2>2, <2>3 DEF PostsAnswer
<1>6. /\ m.kind \notin {"saved", "saveFailed"}
      /\ m.kind \in {"unsave", "unsaveFailed"} <=> q.kind = "unsave"
      /\ m.kind \in {"saved", "news", "urls"} => m.docs \subseteq local'
  BY <1>3, <1>5 DEF Failed
<1>7. /\ UNCHANGED <<remote, awaiting, savedNews, savedUrls, known>>
      /\ UNCHANGED <<opened, rows, cards, Cards, reloads, crashed, unseen>>
      /\ creates' = <<>> /\ queries' = {} /\ posted' = Append(posted, c)
      /\ local \subseteq local' /\ local' \subseteq local \union remote
  BY <1>2, <1>4
     DEF PostsAnswer, ServerAnswers, CacheAnswers, QueryFails, Matching, store, lists,
         history, screens, Cards
<1>8. Ending'
  <2>1. EndsWell(m, c)'
    BY <1>2, <1>4, <1>5, <1>6, <1>7 DEF EndsWell, AboutCard, AboutRow
  <2> QED
    BY <1>2, <1>5, <1>7, <2>1, PostEnds
<1>9. Lists'
  BY <1>7 DEF Calmly, Lists, OncePerUrl, NoPhantom, SavedNewsNewestFirst
<1> QED
  BY <1>7, <1>8, <1>9 DEF Calmly, Mode, RowsShow, Marked

\* What the lists become when a completion runs.
LEMMA RunCalmLists ==
  ASSUME Basis, Calmly, NEW m \in Completion, NEW c, EndsWell(m, c),
         UNCHANGED remote,
         \/ RunSaved(m) \/ RunSaveFailed(m) \/ RunUnsave(m) \/ RunUrls(m)
         \/ RunNews(m) \/ RunNewsFailed(m) \/ RunOtherFailed(m)
  PROVE  Lists' /\ awaiting' = {}
<1>1. /\ savedNews \in Seq(Doc) /\ local \subseteq Doc /\ m.docs \subseteq Doc
      /\ IsFiniteSet(m.docs)
      /\ \A i \in 1..Len(savedNews) : savedNews[i] \in local /\ savedNews[i] \in Doc
  BY DEF Basis, TypeOK, Completion, Calmly, Lists, SavedNewsNewestFirst
<1>2. \A i, j \in 1..Len(savedNews) : i < j => savedNews[i].savedAt > savedNews[j].savedAt
  BY DEF Calmly, Lists, SavedNewsNewestFirst
<1>3. awaiting' = {}
  BY DEF EndsWell, RunSaved, RunSaveFailed, RunUnsave, RunUrls, RunNews, RunNewsFailed,
         RunOtherFailed
<1>4. OncePerUrl'
  <2>1. local' \subseteq local
    BY DEF RunSaved, RunSaveFailed, RunUnsave, RunUrls, RunNews, RunNewsFailed,
           RunOtherFailed
  <2> QED
    BY <2>1 DEF Calmly, Lists, OncePerUrl
<1>5. NoPhantom'
  <2>1. NoPhantom
    BY DEF Calmly, Lists
  <2>2. CASE RunSaved(m) \/ RunUrls(m) \/ RunNews(m)
    <3>1. m.docs \subseteq local /\ local' = local /\ known' = known \union m.docs
      BY <2>2 DEF EndsWell, RunSaved, RunUrls, RunNews
    <3>2. savedUrls' \subseteq savedUrls \union Urls(m.docs)
      BY <2>2 DEF RunSaved, RunUrls, RunNews
    <3> QED
      BY <2>1, <3>1, <3>2 DEF NoPhantom, Urls
  <2>3. CASE RunUnsave(m)
    <3>1. /\ savedUrls' = savedUrls \ {m.url} /\ local' = local \ m.docs
          /\ known' = known /\ \A d \in m.docs : d.url = m.url
      BY <2>3 DEF RunUnsave, Completion
    <3> QED
      BY <2>1, <3>1 DEF NoPhantom
  <2>4. CASE RunSaveFailed(m) \/ RunNewsFailed(m) \/ RunOtherFailed(m)
    BY <2>1, <2>4 DEF RunSaveFailed, RunNewsFailed, RunOtherFailed, NoPhantom, lists, history
  <2> QED
    BY <2>2, <2>3, <2>4
<1>6. SavedNewsNewestFirst'
  <2>1. CASE RunSaved(m)
    <3>1. PICK d \in m.docs : savedNews' = <<d>> \o savedNews
      BY <2>1 DEF RunSaved
    <3>2. d \in local /\ local' = local /\ Newest(d) /\ d \in Doc
      BY <1>1, <2>1 DEF EndsWell, RunSaved
    <3>3. <<d>> \in Seq(Doc) /\ Len(<<d>>) = 1
      BY <3>2
    <3>4. /\ Len(savedNews') = 1 + Len(savedNews)
          /\ \A i \in 1..(1 + Len(savedNews)) :
               savedNews'[i] = IF i <= 1 THEN <<d>>[i] ELSE savedNews[i - 1]
      BY <1>1, <3>1, <3>3, ConcatProperties
    <3>5. \A i \in 1..Len(savedNews') :
            \/ i = 1 /\ savedNews'[i] = d
            \/ i - 1 \in 1..Len(savedNews) /\ savedNews'[i] = savedNews[i - 1]
      BY <1>1, <3>4
    <3>6. \A i \in 1..Len(savedNews) : d.savedAt > savedNews[i].savedAt
      BY <1>1, <3>2 DEF Newest, Doc
    <3>7. \A i \in 1..Len(savedNews') : savedNews'[i] \in local'
      BY <1>1, <3>2, <3>5
    <3>8. ASSUME NEW i \in 1..Len(savedNews'), NEW j \in 1..Len(savedNews'), i < j
          PROVE  savedNews'[i].savedAt > savedNews'[j].savedAt
      <4>1. j - 1 \in 1..Len(savedNews) /\ savedNews'[j] = savedNews[j - 1]
        BY <3>5, <3>8
      <4>2. CASE savedNews'[i] = d
        BY <3>6, <4>1, <4>2
      <4>3. CASE i - 1 \in 1..Len(savedNews) /\ savedNews'[i] = savedNews[i - 1]
        <5>1. i - 1 < j - 1
          BY <3>8
        <5> QED
          BY <1>2, <4>1, <4>3, <5>1
      <4> QED
        BY <3>5, <4>2, <4>3
    <3> QED
      BY <3>7, <3>8 DEF SavedNewsNewestFirst
  <2>2. CASE RunUnsave(m)
    <3>1. /\ savedNews' \in Without(m.url, savedNews) /\ local' = local \ m.docs
          /\ \A d \in m.docs : d.url = m.url
      BY <2>2 DEF RunUnsave, Completion
    <3>2. PICK t : t = savedNews'
      OBVIOUS
    <3>3. PICK s : s = savedNews
      OBVIOUS
    <3>4. t \in Seq(Doc) /\ s \in Seq(Doc) /\ Len(t) \in Nat
      BY <1>1, <3>1, <3>2, <3>3, WithoutType
    <3>5. PICK f \in [1..Len(t) -> 1..Len(s)] :
            /\ \A k \in 1..Len(t) : t[k] = s[f[k]] /\ t[k].url # m.url
            /\ \A k, l \in 1..Len(t) : k < l => f[k] < f[l]
      BY <3>1, <3>2, <3>3, <3>4, OthersInOrder
    <3>6. \A k \in 1..Len(t) : t[k] \in local'
      BY <1>1, <3>1, <3>3, <3>5
    <3>7. \A k, l \in 1..Len(t) : k < l => t[k].savedAt > t[l].savedAt
      BY <1>2, <3>3, <3>5
    <3> QED
      BY <3>2, <3>6, <3>7 DEF SavedNewsNewestFirst
  <2>3. CASE RunNews(m)
    <3>1. savedNews' \in NewestFirst(m.docs) /\ m.docs \subseteq local /\ local' = local
      BY <2>3 DEF RunNews, EndsWell
    <3>2. PICK n : n = Cardinality(m.docs)
      OBVIOUS
    <3>3. n \in Nat
      BY <1>1, <3>2, FS_CardinalityType
    <3>4. /\ savedNews' \in [1..n -> m.docs]
          /\ \A i, j \in 1..n : i < j => savedNews'[i].savedAt > savedNews'[j].savedAt
      BY <3>1, <3>2 DEF NewestFirst
    <3>5. Len(savedNews') = n
      BY <3>3, <3>4
    <3> QED
      BY <3>1, <3>4, <3>5 DEF SavedNewsNewestFirst
  <2>4. CASE RunSaveFailed(m) \/ RunUrls(m) \/ RunOtherFailed(m)
    <3>1. UNCHANGED <<savedNews, local>>
      BY <2>4 DEF RunSaveFailed, RunUrls, RunOtherFailed, lists
    <3> QED
      BY <3>1 DEF Calmly, Lists, SavedNewsNewestFirst
  <2>5. CASE RunNewsFailed(m)
    <3>1. savedNews' = <<>>
      BY <2>5 DEF RunNewsFailed
    <3> QED
      BY <3>1 DEF SavedNewsNewestFirst
  <2> QED
    BY <2>1, <2>2, <2>3, <2>4, <2>5
<1> QED
  BY <1>3, <1>4, <1>5, <1>6 DEF Lists

\* No two rows show the same url.
LEMMA OneRowPerUrl ==
  ASSUME Basis, Calmly, NEW i \in 1..Len(savedNews), NEW j \in 1..Len(savedNews),
         savedNews[i].url = savedNews[j].url
  PROVE  i = j
<1>1. savedNews[i] \in local /\ savedNews[j] \in local
  BY DEF Calmly, Lists, SavedNewsNewestFirst
<1>2. savedNews[i] = savedNews[j] /\ savedNews[i].savedAt \in Nat
  BY <1>1 DEF Calmly, Lists, OncePerUrl, Basis, TypeOK, Doc
<1>3. ~(i < j) /\ ~(j < i)
  BY <1>2 DEF Calmly, Lists, SavedNewsNewestFirst
<1> QED
  BY <1>3

\* A queue of one entry.
LEMMA TheOnlyOne ==
  ASSUME NEW S, NEW s \in Seq(S), Len(s) = 1
  PROVE  Head(s) = s[1] /\ s[1] \in S /\ Tail(s) = <<>>
<1>1. Tail(s) \in Seq(S) /\ Len(Tail(s)) = 0
  OBVIOUS
<1>2. Tail(s) = <<>>
  BY <1>1, EmptySeq
<1>3. Head(s) = s[1]
  OBVIOUS
<1>4. s[1] \in S
  BY ElementOfSeq
<1> QED
  BY <1>2, <1>3, <1>4

LEMMA CompletionCalm ==
  ASSUME Basis, Calmly, SRunCompletion, calm'
  PROVE  Calmly' /\ calm
<1>0. PICK m, c : m = Head(mainQueue) /\ c = Head(posted)
  OBVIOUS
<1>1. Ending
  <2>1. mainQueue # <<>>
    BY DEF SRunCompletion
  <2> QED
    BY <2>1 DEF Calmly, Mode, Idle, Asking, Saving
<1>2. /\ m \in Completion /\ c \in Closure /\ EndsWell(m, c) /\ Tail(mainQueue) = <<>>
      /\ reloads = {} /\ queries = {} /\ creates = <<>>
  <2>1. Len(mainQueue) = 1 /\ Len(posted) = 1
    BY <1>1 DEF Ending, Basis
  <2>2. mainQueue \in Seq(Completion) /\ posted \in Seq(Closure)
    BY DEF Basis, TypeOK
  <2>3. m = mainQueue[1] /\ m \in Completion /\ Tail(mainQueue) = <<>>
    BY <1>0, <2>1, <2>2, TheOnlyOne
  <2>4. c = posted[1] /\ c \in Closure
    BY <1>0, <2>1, <2>2, TheOnlyOne
  <2> QED
    BY <1>1, <2>3, <2>4 DEF Ending
<1>3. /\ mainQueue' = <<>>
      /\ UNCHANGED <<remote, creates, queries>>
      /\ \/ RunElsewhere(m, c) \/ RunLaunchUrls(m) \/ RunLoad(m, c) \/ RunRefresh(m, c)
         \/ RunSwipe(m, c)
  BY <1>0, <1>2 DEF SRunCompletion
<1>4. \/ RunSaved(m) \/ RunSaveFailed(m) \/ RunUnsave(m) \/ RunUrls(m)
      \/ RunNews(m) \/ RunNewsFailed(m) \/ RunOtherFailed(m)
  BY <1>3 DEF RunElsewhere, RunLaunchUrls, RunLoad, RunRefresh, RunSwipe
<1>5. Lists' /\ Idle'
  BY <1>2, <1>3, <1>4, RunCalmLists DEF Idle
<1>6. AboutCard(c.by, m.url, m.kind \in {"unsave", "unsaveFailed"}) /\ AboutRow(c, m.url)
  BY <1>2 DEF EndsWell
<1>7. ASSUME RunElsewhere(m, c) PROVE Marked' /\ RowsShow' /\ ~crashed' /\ calm
  <2>1. UNCHANGED <<opened, rows, crashed>> /\ calm
    BY <1>7 DEF RunElsewhere
  <2>2. RowsShow' /\ ~crashed'
    BY <1>7, <2>1 DEF RunElsewhere, Calmly, RowsShow, Basis
  <2>3. CASE RunSaveFailed(m) \/ RunOtherFailed(m)
    <3>1. m.kind \notin {"saved", "unsave"} /\ UNCHANGED savedUrls
      BY <2>3 DEF RunSaveFailed, RunOtherFailed, lists
    <3>2. Cards' = Cards
      BY <1>7, <3>1 DEF RunElsewhere, Cards
    <3> QED
      BY <2>1, <2>2, <3>1, <3>2 DEF Calmly, Marked
  <2>4. CASE RunSaved(m)
    <3>1. savedUrls' = savedUrls \union {m.url} /\ m.kind = "saved"
      <4>1. PICK d \in m.docs : TRUE
        BY <2>4 DEF RunSaved
      <4>2. Urls(m.docs) = {m.url}
        BY <1>2, <2>4, <4>1 DEF Urls, EndsWell, RunSaved
      <4> QED
        BY <2>4, <4>2 DEF RunSaved
    <3>2. CASE c.by = "card"
      <4>1. cards' = Toggled(m.url) /\ \A x \in Cards : x.url = m.url => ~x.saved
        BY <1>6, <1>7, <3>1, <3>2 DEF RunElsewhere, AboutCard
      <4>2. \A x \in Cards' : (x \in Cards /\ x.url # m.url) \/ (x.url = m.url /\ x.saved)
        BY <4>1, ToggledCards
      <4> QED
        BY <2>1, <2>2, <3>1, <4>2 DEF Calmly, Marked
    <3>3. CASE c.by # "card"
      <4>1. Cards' = Cards /\ \A x \in Cards : x.url # m.url
        BY <1>6, <1>7, <3>3 DEF RunElsewhere, AboutCard, Cards
      <4> QED
        BY <2>1, <2>2, <3>1, <4>1 DEF Calmly, Marked
    <3> QED
      BY <3>2, <3>3
  <2>5. CASE RunUnsave(m)
    <3>1. savedUrls' = savedUrls \ {m.url} /\ m.kind = "unsave"
      BY <2>5 DEF RunUnsave
    <3>2. CASE c.by = "card"
      <4>1. cards' = Toggled(m.url) /\ \A x \in Cards : x.url = m.url => x.saved
        BY <1>6, <1>7, <3>1, <3>2 DEF RunElsewhere, AboutCard
      <4>2. \A x \in Cards' : (x \in Cards /\ x.url # m.url) \/ (x.url = m.url /\ ~x.saved)
        BY <4>1, ToggledCards
      <4> QED
        BY <2>1, <2>2, <3>1, <4>2 DEF Calmly, Marked
    <3>3. CASE c.by # "card"
      <4>1. Cards' = Cards /\ \A x \in Cards : x.url # m.url
        BY <1>6, <1>7, <3>3 DEF RunElsewhere, AboutCard, Cards
      <4> QED
        BY <2>1, <2>2, <3>1, <4>1 DEF Calmly, Marked
    <3> QED
      BY <3>2, <3>3
  <2> QED
    BY <1>7, <2>3, <2>4, <2>5 DEF RunElsewhere
<1>8. ASSUME Watch(SameMark) PROVE Marked' /\ calm
  <2>1. SameMark /\ Cards' = Cards /\ calm
    BY <1>8 DEF Watch, WatchCards, Cards
  <2> QED
    BY <2>1 DEF SameMark, Calmly, Marked
<1>9. ASSUME RunLaunchUrls(m) PROVE Marked' /\ RowsShow' /\ ~crashed' /\ calm
  BY <1>8, <1>9 DEF RunLaunchUrls, RunUrls, Calmly, RowsShow
<1>10. ASSUME RunLoad(m, c) \/ RunRefresh(m, c) PROVE Marked' /\ RowsShow' /\ ~crashed' /\ calm
  BY <1>8, <1>10 DEF RunLoad, RunRefresh, Calmly, RowsShow
<1>11. ASSUME RunSwipe(m, c) PROVE Marked' /\ RowsShow' /\ ~crashed' /\ calm
  <2>1. c.by = "row" /\ UNCHANGED <<opened, cards, Cards>> /\ calm
    BY <1>11 DEF RunSwipe, Cards
  <2>2. CASE RunOtherFailed(m)
    <3>1. UNCHANGED <<rows, crashed, unseen, savedNews, savedUrls>>
      BY <1>11, <2>2 DEF RunSwipe, RunOtherFailed, RunUnsave, lists
    <3> QED
      BY <2>1, <3>1 DEF Calmly, Marked, RowsShow
  <2>3. CASE RunUnsave(m)
    <3>1. \A x \in Cards : x.url # m.url
      BY <1>6, <2>1 DEF AboutCard
    <3>2. Marked'
      BY <2>1, <2>3, <3>1 DEF RunUnsave, Calmly, Marked
    <3>3. PICK r : r = c.row
      OBVIOUS
    <3>4. /\ r \in 1..Len(savedNews) /\ savedNews[r].url = m.url
          /\ rows = savedNews /\ savedNews \in Seq(Doc)
      BY <1>6, <2>1, <3>3 DEF AboutRow, Calmly, RowsShow, Basis, TypeOK
    <3>5. Len(savedNews') = Len(savedNews) - 1 /\ savedNews' = RemoveAt(savedNews, r)
      <4>1. savedNews' \in Without(savedNews[r].url, savedNews)
        BY <2>3, <3>4 DEF RunUnsave
      <4>2. \A i \in 1..Len(savedNews) : savedNews[i].url = savedNews[r].url => i = r
        BY <3>4, OneRowPerUrl
      <4> QED
        BY <3>4, <4>1, <4>2, OthersButOne
    <3>6. Len(savedNews') = Len(rows) - 1 /\ c.row <= Len(rows)
      BY <3>3, <3>4, <3>5
    <3>7. rows' = RemoveAt(rows, c.row) /\ UNCHANGED crashed
      BY <1>11, <2>3, <3>6 DEF RunSwipe, RunOtherFailed, RunUnsave
    <3>8. RowsShow' /\ ~crashed'
      BY <3>3, <3>4, <3>5, <3>7 DEF RowsShow, Calmly
    <3> QED
      BY <2>1, <3>2, <3>8
  <2> QED
    BY <1>11, <2>2, <2>3 DEF RunSwipe
<1> QED
  BY <1>3, <1>5, <1>7, <1>9, <1>10, <1>11 DEF Calmly, Mode

LEMMA ReloadCalm ==
  ASSUME Basis, Calmly, RunReload
  PROVE  Calmly'
<1>1. Idle
  BY DEF RunReload, Calmly, Mode, Asking, Saving, Ending
<1>2. /\ UNCHANGED <<remote, local, known, lists, savedNews, savedUrls, awaiting, queries,
                     mainQueue, creates, Cards, crashed>>
      /\ rows' = savedNews
  BY DEF RunReload, vars, store, calls, history, lists, Cards
<1>3. Lists'
  BY <1>2, ListsStay DEF Calmly
<1> QED
  BY <1>1, <1>2, <1>3 DEF Calmly, Mode, Idle, RowsShow, Marked

CalmInv == calm => Calmly

LEMMA CalmStep ==
  ASSUME Basis, IInv, CalmInv, [SNext]_ssvars
  PROVE  CalmInv'
<1> SUFFICES ASSUME calm' PROVE Calmly'
  BY DEF CalmInv
<1>1. CASE UNCHANGED ssvars
  <2>1. /\ UNCHANGED <<remote, local, known, lists, savedNews, savedUrls, awaiting, queries,
                       mainQueue, creates, calm>>
        /\ UNCHANGED <<opened, rows, cards, Cards, asked, posted, cardSaves, reloads, crashed, unseen>>
    BY <1>1 DEF ssvars, vars, screens, closures, store, calls, lists, history, Cards
  <2>2. Lists' /\ RowsShow' /\ Marked' /\ ~crashed'
    BY <2>1, ListsStay DEF CalmInv, Calmly, RowsShow, Marked
  <2>3. Mode'
    BY <2>1 DEF CalmInv, Calmly, Mode, Idle, Asking, Saving, Ending, EndsWell, AboutCard,
       AboutRow, Newest
  <2> QED
    BY <2>2, <2>3 DEF Calmly
<1>2. CASE SMemoryWarning
  BY <1>2 DEF SMemoryWarning, Watch, WatchCards
<1>3. CASE Reader /\ ~crashed
  <2>1. calm
    BY <1>3 DEF Reader, OpenSaved, Refresh, TouchMissing, SwipeRow, TapCard, DealCards,
       SwipeCard, BringBack, TouchReplaced, ShowCards, SaveElsewhere, UnsaveElsewhere,
       Watch, WatchCards
  <2> QED
    BY <1>3, <2>1, ReaderCalm DEF CalmInv
<1>4. CASE PostsSave
  BY <1>4, PostsSaveCalm DEF CalmInv, PostsSave
<1>5. CASE Silent
  BY <1>5, SilentCalm DEF CalmInv, Silent
<1>6. ASSUME NEW q \in queries, PostsAnswer(q) PROVE Calmly'
  BY <1>6, PostsAnswerCalm DEF CalmInv, PostsAnswer
<1>7. CASE SRunCompletion
  <2>1. calm
    BY <1>7 DEF SRunCompletion, RunElsewhere, RunLaunchUrls, RunLoad, RunRefresh, RunSwipe,
       Watch, WatchCards
  <2> QED
    BY <1>7, <2>1, CompletionCalm DEF CalmInv
<1>8. CASE RunReload
  BY <1>8, ReloadCalm DEF CalmInv, RunReload
<1> QED
  BY <1>1, <1>2, <1>3, <1>4, <1>5, <1>6, <1>7, <1>8 DEF SNext

LEMMA CalmHolds == SSpec => []CalmInv
<1>1. SInit => CalmInv
  BY LaunchCalm DEF CalmInv
<1> QED
  BY <1>1, BasisHolds, ScreensImplementArticles, InvariantHolds, CalmStep, PTL DEF SSpec

(***************************************************************************)
(* What is proved of SavedArticles holds under the screens, hasty reader   *)
(* or not: no bookmark is lost, each save is answered once, the local      *)
(* store holds nothing that the server neither has nor will be sent, and   *)
(* what was unsaved comes back by a refused delete alone.                  *)
(***************************************************************************)
THEOREM ScreensKeepBookmarks ==
  SSpec => []NoLostBookmark /\ []WritesAccounted /\ UnsaveHolds /\ ImplementsBookmarks
BY ScreensImplementArticles, BookmarksNeverLost, WritesAreAccounted,
   UnsaveHoldsAlways, SavedArticlesImplementBookmarks, PTL

(***************************************************************************)
(* For a reader who waits, whatever the server refuses, every url that is  *)
(* marked has a document that exists.                                      *)
(***************************************************************************)
THEOREM CalmHasNoPhantom == SSpec => []CalmNoPhantom
<1>1. CalmInv => CalmNoPhantom
  BY DEF CalmInv, Calmly, Lists, CalmNoPhantom
<1> QED
  BY <1>1, CalmHolds, PTL

(***************************************************************************)
(* For such a reader the Saved list holds documents that exist, newest     *)
(* first and none twice.                                                   *)
(***************************************************************************)
THEOREM CalmListIsNewestFirst == SSpec => []CalmNewestFirst
<1>1. CalmInv => CalmNewestFirst
  BY DEF CalmInv, Calmly, Lists, CalmNewestFirst
<1> QED
  BY <1>1, CalmHolds, PTL

(***************************************************************************)
(* For such a reader a swipe takes out the row of the article it unsaves,  *)
(* deleteRows raises no exception, and the rows are the list.              *)
(***************************************************************************)
THEOREM CalmRowsAreCurrent == SSpec => []SavedRowsCurrent
<1>1. CalmInv => SavedRowsCurrent
  BY DEF CalmInv, Calmly, RowsShow, SavedRowsCurrent
<1> QED
  BY <1>1, CalmHolds, PTL

(***************************************************************************)
(* For such a reader the flag of every card shown, read when it entered    *)
(* the window and toggled since, is the truth.                             *)
(***************************************************************************)
THEOREM CalmCardIsMarked == SSpec => []CardMarked
<1>1. CalmInv => CardMarked
  BY DEF CalmInv, Calmly, Marked, CardMarked
<1> QED
  BY <1>1, CalmHolds, PTL

===============================================================================

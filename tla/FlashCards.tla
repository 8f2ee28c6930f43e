------------------------------- MODULE FlashCards -------------------------------
(***************************************************************************)
(* The deck of top news: FlashCardsViewController, News.shared.topNews,    *)
(* Networking.getLocalTopNews and the part of KolodaView that keeps an     *)
(* index into the list and a window of visible cards.                      *)
(*                                                                         *)
(* URLSession runs the completion of a request on a background queue: it   *)
(* replaces topNews there and then posts a block that rebuilds the deck to *)
(* the main queue.  Between the two the reader's taps meet the new list    *)
(* and the old cards.  Card animations are taken as instantaneous.         *)
(*                                                                         *)
(* Each sign-in and each sign-out puts a new home on screen, whose         *)
(* controller builds a deck over the list the last one left.  The last     *)
(* controller empties that list when it is released: at once, or later if  *)
(* an image still loading holds it.  Blocks of a controller that is gone   *)
(* read an unowned reference, which ends the app.                          *)
(*                                                                         *)
(* A list is the load it came from and its length; an article is a load    *)
(* and a position, counted from 0 as in the code.                          *)
(***************************************************************************)
EXTENDS Naturals, Sequences, FiniteSets

CONSTANTS
  Country,       \* countries a reader may choose
  Visible,       \* countOfVisibleCards
  MaxCards,      \* bound: length of a list
  MaxLoads,      \* bound: numbers given to requests
  MaxHomes,      \* bound: homes shown since launch
  MaxDeck        \* bound: visible cards when the reader brings one back

ASSUME FlashCardsAssumption ==
  /\ Visible \in Nat \ {0} /\ MaxCards \in Nat /\ MaxLoads \in Nat \ {0}
  /\ MaxDeck \in Nat /\ MaxHomes \in Nat \ {0}

Min2(x, y) == IF x < y THEN x ELSE y

List    == [load : 0..MaxLoads, country : Country, len : 0..MaxCards]
Article == [load : 0..MaxLoads, at : Nat]
Block   == [then : {"reload", "reset", "resetHide"}, home : 1..MaxHomes]
Request == [load : 1..MaxLoads, country : Country, block : Block]

VARIABLES
  home,         \* the home on screen, counted from launch
  kept,         \* homes that were replaced and whose controller is not released
  country,      \* UserDefaults: the country; bg if none is remembered
  loads,        \* the number last given to a request
  requests,     \* requests without an answer
  mainQueue,    \* blocks posted by the completions, each of a home
  topNews,      \* News.shared.topNews
  index,        \* KolodaView.currentCardIndex
  count,        \* KolodaView.countOfCards
  cards,        \* KolodaView.visibleCards: the article on each, top first
  reloadShown,  \* the button that reloads is visible
  trapped,      \* what ended the app: no index or reference yet, an index of
                \* the deck out of range, or a home that was left
  built,        \* history: the list the deck was last built from
  calm          \* history: so far the reader waited for each load, touched no
                \* deck of a home before its first, left no home and asked for
                \* nothing while a home that was left was alive; memory
                \* sufficed

homes  == <<home, kept>>
koloda == <<index, count, cards, built>>
vars   == <<homes, country, loads, requests, mainQueue, topNews, koloda,
            reloadShown, trapped, calm>>

Answered == requests = {} /\ mainQueue = <<>>
Settled  == Answered /\ kept = {}

\* The first load of the home on screen, not yet shown.
Opening == [then |-> "reload", home |-> home]
ToOpen  == \/ \E r \in requests : r.block = Opening
           \/ \E i \in DOMAIN mainQueue : mainQueue[i] = Opening

New(n, then, c, h) ==
  [load |-> loads + n, country |-> c, block |-> [then |-> then, home |-> h]]

Send(new, n) ==
  /\ loads + n <= MaxLoads
  /\ loads' = loads + n
  /\ requests' = requests \union new

\* Tells the requests of several homes apart that are sent at once.
Place(h) == IF kept = {} THEN 1 ELSE h

\* koloda(_:viewForCardAt:) of FlashCardsViewController.
InRange(i) == i < topNews.len
Reads(is)  == trapped' = IF \A i \in is : InRange(i) THEN trapped ELSE "deck"
Card(i)    == [load |-> topNews.load, at |-> i]

\* The cards from i on, as many as fit: KolodaView.setupDeck.
Deck(i) == [k \in 1..Min2(Visible, topNews.len - i) |-> Card(i + k - 1)]

-----------------------------------------------------------------------------
(* viewDidLoad sends the first request.                                    *)
Init ==
  /\ home = 1 /\ kept = {}
  /\ country \in Country
  /\ loads = 1
  /\ requests = {[load |-> 1, country |-> country, block |-> Opening]}
  /\ mainQueue = <<>>
  /\ topNews = [load |-> 0, country |-> country, len |-> 0]
  /\ index = 0 /\ count = 0 /\ cards = <<>>
  /\ reloadShown = FALSE
  /\ trapped = "no"
  /\ built = topNews
  /\ calm = TRUE

\* A completion on the background queue: topNews = news ?? [].
Complete(r, n) ==
  /\ requests' = requests \ {r}
  /\ topNews' = [load |-> r.load, country |-> r.country, len |-> n]
  /\ mainQueue' = Append(mainQueue, r.block)
  /\ UNCHANGED <<homes, country, loads, koloda, reloadShown, trapped>>

Answer(r) == \E n \in 1..MaxCards : Complete(r, n)

LoadFails(r) == Complete(r, 0)

\* Mutant: the request is made before the new country is stored.
ChangeCountryTooEarly(c) ==
  /\ country' = c
  /\ Send({New(Place(h), "reset", country, h) : h \in kept \union {home}}, Place(home))
  /\ UNCHANGED <<homes, mainQueue, topNews, koloda, reloadShown, trapped>>

\* The country changed in UserDefaults: observeValue, of every controller that
\* is alive.
ChangeCountry(c) ==
  /\ country' = c
  /\ Send({New(Place(h), "reset", c, h) : h \in kept \union {home}}, Place(home))
  /\ UNCHANGED <<homes, mainQueue, topNews, koloda, reloadShown, trapped>>

PressReload ==
  /\ reloadShown
  /\ Send({New(1, "resetHide", country, home)}, 1)
  /\ UNCHANGED <<homes, country, mainQueue, topNews, koloda, reloadShown, trapped>>

MemoryWarning ==
  /\ topNews' = [topNews EXCEPT !.len = 0]
  /\ UNCHANGED <<homes, country, loads, requests, mainQueue, koloda,
                 reloadShown, trapped>>

-----------------------------------------------------------------------------
(* KolodaView.                                                             *)

\* loadMissingCards: the cards below the visible ones, taken from topNews.
Filled ==
  LET missing == Min2(Visible - Len(cards), topNews.len - (index + Len(cards)))
  IN cards \o [k \in 1..missing |-> Card(index + Len(cards) + k - 1)]

\* reconfigureCards: each visible card is drawn again.
Redrawn == [k \in 1..Len(cards) |-> Card(index + k - 1)]

\* clear, then setupDeck unless there is no card.
\* resetCurrentCardIndex, and reloadData while the index is 0.
ResetDeck ==
  /\ index' = 0
  /\ cards' = Deck(0)
  /\ count' = IF topNews.len = 0 THEN count ELSE topNews.len
  /\ built' = topNews
  /\ UNCHANGED trapped

\* reloadData in the middle of the deck keeps the cards that are visible.
ExtendDeck ==
  /\ UNCHANGED <<index, built>>
  /\ count' = topNews.len
  /\ IF topNews.len > index + Len(cards)
       THEN /\ cards' = IF cards = <<>> THEN Deck(index) ELSE Filled
            /\ UNCHANGED trapped
       ELSE /\ cards' = Redrawn
            /\ Reads({index + k - 1 : k \in 1..Len(cards)})

ReloadDeck == IF topNews.len = 0 \/ index = 0 THEN ResetDeck ELSE ExtendDeck

\* A sign-in or a sign-out: viewDidLoad of a new home, to which dataSource gives
\* a deck at once.  The old controller is gone by then, or released later.
ReplaceHome(c, gone) ==
  /\ home < MaxHomes /\ home' = home + 1
  /\ kept' = IF gone THEN kept ELSE kept \union {home}
  /\ country' = c
  /\ topNews' = IF gone THEN [topNews EXCEPT !.len = 0] ELSE topNews
  /\ index' = 0 /\ count' = topNews'.len /\ cards' = Deck(0)' /\ built' = topNews'
  /\ reloadShown' = FALSE
  /\ Send({New(1, "reload", c, home + 1)}, 1)
  /\ UNCHANGED <<mainQueue, trapped>>

\* deinit, of a home that was left.
Release(h) ==
  /\ kept' = kept \ {h}
  /\ topNews' = [topNews EXCEPT !.len = 0]
  /\ UNCHANGED <<home, country, loads, requests, mainQueue, koloda, reloadShown,
                 trapped>>

\* Mutant: every block only reloads.
RunBlockReloading ==
  /\ mainQueue # <<>> /\ Head(mainQueue).home = home
  /\ mainQueue' = Tail(mainQueue)
  /\ ReloadDeck
  /\ reloadShown' = (reloadShown /\ Head(mainQueue).then # "resetHide")
  /\ UNCHANGED <<homes, country, loads, requests, topNews>>

RunBlock ==
  /\ mainQueue # <<>> /\ Head(mainQueue).home = home
  /\ mainQueue' = Tail(mainQueue)
  /\ IF Head(mainQueue).then = "reload" THEN ReloadDeck ELSE ResetDeck
  /\ reloadShown' = (reloadShown /\ Head(mainQueue).then # "resetHide")
  /\ UNCHANGED <<homes, country, loads, requests, topNews>>

\* A block of a home that was left: one still alive moves its own deck, which
\* nobody sees; reloadData may read past the list there too.
RunBlockOfLeft ==
  LET b == Head(mainQueue)
  IN /\ mainQueue # <<>> /\ b.home # home
     /\ mainQueue' = Tail(mainQueue)
     /\ \/ b.home \in kept /\ UNCHANGED trapped
        \/ (b.home \notin kept \/ b.then = "reload") /\ trapped' = "left"
     /\ UNCHANGED <<homes, country, loads, requests, topNews, koloda, reloadShown>>

\* Mutants: one card too many enters; running out goes unnoticed.
SwipeOneTooFar ==
  LET next == index + 1
      make == next + Min2(Visible, topNews.len) - 1
      more == make <= topNews.len
  IN /\ cards # <<>>
     /\ index' = next
     /\ cards' = IF more THEN Append(Tail(cards), Card(make)) ELSE Tail(cards)
     /\ Reads(IF more THEN {make} ELSE {})
     /\ reloadShown' = (reloadShown \/ cards' = <<>>)
     /\ UNCHANGED <<homes, country, loads, requests, mainQueue, topNews, count,
                    built>>

SwipeSilently ==
  LET make == index + Min2(Visible, topNews.len)
      more == index + Min2(Visible, count) < topNews.len
  IN /\ cards # <<>>
     /\ index' = index + 1
     /\ cards' = IF more THEN Append(Tail(cards), Card(make)) ELSE Tail(cards)
     /\ Reads(IF more THEN {make} ELSE {})
     /\ UNCHANGED <<homes, country, loads, requests, mainQueue, topNews, count,
                    built, reloadShown>>

\* swipedAction: the top card goes, the next one below enters the window.
Swipe ==
  LET next == index + 1
      show == next + Min2(Visible, count) - 1
      make == next + Min2(Visible, topNews.len) - 1
      more == show < topNews.len
  IN /\ cards # <<>>
     /\ index' = next
     /\ cards' = IF more THEN Append(Tail(cards), Card(make)) ELSE Tail(cards)
     /\ Reads(IF more THEN {make} ELSE {})
     /\ reloadShown' = (reloadShown \/ cards' = <<>>)
     /\ UNCHANGED <<homes, country, loads, requests, mainQueue, topNews, count,
                    built>>

\* Mutants: a card past the start is brought back; the last card stays.
BringBackPastStart ==
  /\ cards # <<>> /\ Len(cards) <= MaxDeck
  /\ index' = index - 1
  /\ UNCHANGED <<homes, country, loads, requests, mainQueue, topNews, count,
                 built, cards, trapped, reloadShown>>

BringBackOnTop ==
  /\ cards # <<>> /\ index > 0 /\ Len(cards) <= MaxDeck
  /\ index' = index - 1
  /\ cards' = <<Card(index - 1)>> \o cards
  /\ Reads({index - 1})
  /\ UNCHANGED <<homes, country, loads, requests, mainQueue, topNews, count,
                 built, reloadShown>>

\* revertAction, from the top card's button.
BringBack ==
  LET below == IF count >= index + Visible
               THEN SubSeq(cards, 1, Len(cards) - 1) ELSE cards
  IN /\ cards # <<>> /\ index > 0 /\ Len(cards) <= MaxDeck
     /\ index' = index - 1
     /\ cards' = <<Card(index - 1)>> \o below
     /\ Reads({index - 1})
     /\ UNCHANGED <<homes, country, loads, requests, mainQueue, topNews, count,
                    built, reloadShown>>

\* saveArticle, unsaveArticle, shareUrl and a tap read topNews at the index.
UseTopCard ==
  /\ cards # <<>> /\ ~InRange(index)
  /\ trapped' = "deck"
  /\ UNCHANGED <<homes, country, loads, requests, mainQueue, topNews, koloda,
                 reloadShown>>

-----------------------------------------------------------------------------
Ask ==
  \/ \E c \in Country :
       ChangeCountry(c) \/ \E gone \in BOOLEAN : ReplaceHome(c, gone)
  \/ PressReload

Touch == Swipe \/ BringBack

Other ==
  \/ \E r \in requests : Answer(r) \/ LoadFails(r)
  \/ RunBlock \/ RunBlockOfLeft
  \/ \E h \in kept : Release(h)
  \/ UseTopCard

Next ==
  /\ trapped = "no"
  /\ \/ Ask /\ calm' = (calm /\ Settled)
     \/ Touch /\ calm' = (calm /\ ~ToOpen)
     \/ MemoryWarning /\ calm' = FALSE
     \/ Other /\ UNCHANGED calm

Spec == Init /\ [][Next]_vars

-----------------------------------------------------------------------------
(* The properties.                                                         *)

TypeOK ==
  /\ home \in 1..MaxHomes /\ kept \subseteq 1..(home - 1)
  /\ country \in Country
  /\ loads \in 0..MaxLoads
  /\ requests \subseteq Request
  /\ mainQueue \in Seq(Block)
  /\ topNews \in List
  /\ index \in Nat /\ count \in 0..MaxCards
  /\ cards \in Seq(Article)
  /\ reloadShown \in BOOLEAN /\ trapped \in {"no", "deck", "left"}
  /\ built \in List /\ calm \in BOOLEAN

(***************************************************************************)
(* DeckFollowsList: while topNews is the list the deck was built from, the *)
(* visible cards are its window at currentCardIndex, however the reader    *)
(* swiped and brought cards back and whatever requests overlap: what the   *)
(* top card's buttons save, share and open is what it shows                *)
(* (FlashCardsViewController.swift:177, 184, 199; KolodaView.swift:417-421,*)
(* 505-511).                                                               *)
(***************************************************************************)
DeckFollowsList == built = topNews => cards = Deck(index)

(***************************************************************************)
(* TrapsNeedNewList: an index of the deck runs out of range only after     *)
(* topNews was replaced or emptied under a deck built from another list,   *)
(* also by the home that was left (FlashCardsViewController.swift:34, 51,  *)
(* 56, 66, 222).                                                           *)
(***************************************************************************)
TrapsNeedNewList == [][built = topNews => trapped' # "deck"]_vars

(***************************************************************************)
(* ReloadOffered: a reader who swiped all loaded news away is offered to   *)
(* reload, whatever the reloads before did to the button                   *)
(* (FlashCardsViewController.swift:70, 91-93).                             *)
(***************************************************************************)
ReloadOffered ==
  built = topNews /\ cards = <<>> /\ topNews.len > 0 => reloadShown

(***************************************************************************)
(* DeckIsCurrent: for a reader who waits for each load, through any number *)
(* of homes, the deck is of the list as soon as no block is pending: of    *)
(* the one loaded, or of the one the last home left until that one is      *)
(* there.  A home that was left can only empty the list under it, not put  *)
(* another in its place.  The request of viewDidLoad breaks it when its    *)
(* answer comes after that of a change of country, or on a deck already    *)
(* swiped: its block keeps the cards                                       *)
(* (FlashCardsViewController.swift:28, 37, 56, 225).                       *)
(***************************************************************************)
DeckIsCurrent ==
  calm /\ mainQueue = <<>> =>
    \/ built = topNews
    \/ home > 1 /\ topNews = [built EXCEPT !.len = 0]

(***************************************************************************)
(* NewsOfCountry: when nothing is in flight the list holds news of the     *)
(* country in the title, for a reader who waits for each load              *)
(* (FlashCardsViewController.swift:163-166, 218-226).                      *)
(***************************************************************************)
NewsOfCountry == calm /\ Answered => topNews.country = country

(***************************************************************************)
(* LoadedNewsStay: news that were loaded stay loaded, also offline: "if    *)
(* there are news loaded in the application, it shows them" (README.md:3). *)
(***************************************************************************)
LoadedNewsStay == [][calm' /\ topNews.len > 0 => topNews'.len > 0]_vars
=============================================================================

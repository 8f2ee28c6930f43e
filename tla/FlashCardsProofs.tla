--------------------------- MODULE FlashCardsProofs ---------------------------
(***************************************************************************)
(* Proofs about FlashCards, for every set of countries, every number of    *)
(* homes, every size of the window and every bound: types, and that a deck *)
(* follows its list.                                                       *)
(***************************************************************************)
EXTENDS FlashCards, TLAPS, SequenceTheorems

-----------------------------------------------------------------------------
(* Cards in a row.                                                         *)

Row(i, m) == [k \in 1..m |-> Card(i + k - 1)]

\* m cards from i on; none when m is negative.
LEMMA RowIsSeq ==
  ASSUME TypeOK, NEW i \in Nat, NEW m \in Int
  PROVE  /\ Row(i, m) \in Seq(Article)
         /\ m >= 0 => Len(Row(i, m)) = m
         /\ m <= 0 => Len(Row(i, m)) = 0 /\ Row(i, m) = <<>>
         /\ \A k \in 1..m : Row(i, m)[k] = Card(i + k - 1)
<1>1. ASSUME NEW n \in Nat
      PROVE  Row(i, n) \in Seq(Article) /\ Len(Row(i, n)) = n
  <2>1. \A k \in 1..n : i + k - 1 \in Nat
    OBVIOUS
  <2>2. \A k \in 1..n : Card(i + k - 1) \in Article
    BY <2>1 DEF TypeOK, List, Article, Card
  <2> QED
    BY <2>2 DEF Row
<1>4. \A k \in 1..m : Row(i, m)[k] = Card(i + k - 1)
  BY DEF Row
<1>2. CASE m >= 0
  <2>1. m \in Nat /\ (m = 0 => Row(i, m) = <<>>)
    BY <1>1, <1>2, EmptySeq
  <2> QED
    BY <1>1, <1>2, <1>4, <2>1
<1>3. CASE m < 0
  <2>1. 1..m = 1..0
    BY <1>3
  <2>2. Row(i, m) = Row(i, 0)
    BY <2>1 DEF Row
  <2> QED
    BY <1>1, <1>3, <1>4, <2>2, EmptySeq
<1> QED
  BY <1>2, <1>3

LEMMA FullRow ==
  ASSUME TypeOK, NEW i \in Nat, NEW m \in Nat
  PROVE  /\ Row(i, m) \in Seq(Article)
         /\ Len(Row(i, m)) = m
         /\ \A k \in 1..m : Row(i, m)[k] = Card(i + k - 1)
<1>1. m \in Int /\ m >= 0
  OBVIOUS
<1> QED
  BY <1>1, RowIsSeq

LEMMA MinType ==
  ASSUME NEW x \in Int, NEW y \in Int
  PROVE  /\ Min2(x, y) \in Int /\ Min2(x, y) <= x /\ Min2(x, y) <= y
         /\ Min2(x, y) = x \/ Min2(x, y) = y
BY DEF Min2

LEMMA DeckIsRow ==
  ASSUME TypeOK, NEW i \in Nat
  PROVE  /\ Deck(i) = Row(i, Min2(Visible, topNews.len - i))
         /\ Min2(Visible, topNews.len - i) \in Int
         /\ Deck(i) \in Seq(Article)
<1>1. Visible \in Nat /\ topNews.len \in Nat
  BY FlashCardsAssumption DEF TypeOK, List
<1>2. Min2(Visible, topNews.len - i) \in Int
  BY <1>1, MinType
<1>3. Deck(i) = Row(i, Min2(Visible, topNews.len - i))
  BY DEF Deck, Row
<1> QED
  BY <1>2, <1>3, RowIsSeq

\* What a deck is, card by card.
LEMMA DeckCards ==
  ASSUME TypeOK, NEW i \in Nat, i <= topNews.len
  PROVE  /\ Len(Deck(i)) = Min2(Visible, topNews.len - i)
         /\ Len(Deck(i)) \in Nat
         /\ \A k \in 1..Len(Deck(i)) : Deck(i)[k] = Card(i + k - 1)
         /\ Deck(i) = <<>> <=> i = topNews.len
<1>1. /\ Visible \in Nat \ {0} /\ topNews.len \in Nat
  BY FlashCardsAssumption DEF TypeOK, List
<1> DEFINE m == Min2(Visible, topNews.len - i)
<1>2. m \in Nat /\ (m = 0 <=> i = topNews.len)
  BY <1>1 DEF Min2
<1>3. Deck(i) = Row(i, m) /\ Deck(i) \in Seq(Article)
  BY DeckIsRow
<1> HIDE DEF m
<1>4. Len(Deck(i)) = m /\ \A k \in 1..m : Deck(i)[k] = Card(i + k - 1)
  <2>1. Len(Row(i, m)) = m /\ \A k \in 1..m : Row(i, m)[k] = Card(i + k - 1)
    <3>1. m \in Int /\ m >= 0
      BY <1>2
    <3> QED
      BY <3>1, RowIsSeq
  <2> QED
    BY <1>3, <2>1
<1>5. Deck(i) = <<>> <=> m = 0
  BY <1>3, <1>4, EmptySeq
<1> QED
  BY <1>2, <1>4, <1>5 DEF m

\* A list of cards with the length and the cards of a deck is that deck.
LEMMA DeckFromCards ==
  ASSUME TypeOK, NEW i \in Nat, i <= topNews.len, NEW s \in Seq(Article),
         Len(s) = Min2(Visible, topNews.len - i),
         \A k \in 1..Len(s) : s[k] = Card(i + k - 1)
  PROVE  s = Deck(i)
BY DeckIsRow, DeckCards, SeqEqual

-----------------------------------------------------------------------------
(* Types.                                                                  *)

Then == {"reload", "reset", "resetHide"}

\* Requests that are sent at once have numbers of their own.
LEMMA PlaceType ==
  ASSUME TypeOK, NEW h \in kept \union {home}
  PROVE  /\ h \in 1..MaxHomes
         /\ Place(h) \in 1..Place(home) /\ Place(home) \in Nat
         /\ \A g \in kept \union {home} : Place(g) = Place(h) => g = h
<1>1. home \in Nat \ {0} /\ home <= MaxHomes /\ MaxHomes \in Nat
      /\ kept \subseteq 1..(home - 1)
  BY FlashCardsAssumption DEF TypeOK
<1>2. h \in 1..home
  BY <1>1
<1> QED
  BY <1>1, <1>2 DEF Place

LEMMA NewType ==
  ASSUME TypeOK, NEW n \in Nat \ {0}, loads + n <= MaxLoads, NEW then \in Then,
         NEW c \in Country, NEW h \in 1..MaxHomes
  PROVE  New(n, then, c, h) \in Request
<1>1. loads + n \in 1..MaxLoads
  BY FlashCardsAssumption DEF TypeOK
<1> QED
  BY <1>1 DEF New, Request, Block, Then

LEMMA SendType ==
  ASSUME TypeOK, NEW n \in Nat, NEW new \in SUBSET Request, Send(new, n)
  PROVE  loads' \in 0..MaxLoads /\ requests' \subseteq Request
<1>1. loads + n \in 0..MaxLoads
  BY FlashCardsAssumption DEF TypeOK, Send
<1> QED
  BY <1>1 DEF Send, TypeOK

LEMMA CompleteType ==
  ASSUME TypeOK, NEW r \in requests, NEW n \in 0..MaxCards, Complete(r, n),
         UNCHANGED calm
  PROVE  TypeOK'
<1>1. r.load \in 0..MaxLoads /\ r.country \in Country /\ r.block \in Block
  BY FlashCardsAssumption DEF TypeOK, Request
<1>2. topNews' \in List
  BY <1>1 DEF Complete, List
<1>3. mainQueue' \in Seq(Block)
  BY <1>1 DEF Complete, TypeOK
<1> QED
  BY <1>2, <1>3 DEF Complete, TypeOK, homes, koloda

LEMMA CompletionIsComplete ==
  ASSUME NEW r \in requests, Answer(r) \/ LoadFails(r)
  PROVE  \E n \in 0..MaxCards : Complete(r, n)
BY FlashCardsAssumption DEF Answer, LoadFails

\* A list that loses its articles.
LEMMA EmptiedType ==
  ASSUME TypeOK
  PROVE  [topNews EXCEPT !.len = 0] \in List
         /\ [topNews EXCEPT !.len = 0].load = topNews.load
         /\ [topNews EXCEPT !.len = 0].len = 0
<1>1. /\ topNews.load \in 0..MaxLoads /\ topNews.country \in Country
      /\ topNews = [load |-> topNews.load, country |-> topNews.country,
                    len |-> topNews.len]
  BY DEF TypeOK, List
<1>2. [topNews EXCEPT !.len = 0]
        = [load |-> topNews.load, country |-> topNews.country, len |-> 0]
  BY <1>1
<1>3. 0 \in 0..MaxCards
  BY FlashCardsAssumption
<1> QED
  BY <1>1, <1>2, <1>3 DEF List

LEMMA ChangeType ==
  ASSUME TypeOK, NEW c \in Country, ChangeCountry(c), calm' \in BOOLEAN
  PROVE  TypeOK'
<1> DEFINE new == {New(Place(h), "reset", c, h) : h \in kept \union {home}}
<1>1. ASSUME NEW h \in kept \union {home}
      PROVE  New(Place(h), "reset", c, h) \in Request
  <2>1. /\ h \in 1..MaxHomes /\ Place(h) \in Nat \ {0}
        /\ loads + Place(home) <= MaxLoads /\ Place(h) <= Place(home)
        /\ Place(home) \in Nat /\ loads \in Nat /\ MaxLoads \in Nat
    BY PlaceType, FlashCardsAssumption DEF ChangeCountry, Send, TypeOK
  <2>2. loads + Place(h) <= MaxLoads /\ "reset" \in Then
    BY <2>1 DEF Then
  <2> QED
    BY <2>1, <2>2, NewType
<1>2. new \in SUBSET Request /\ Send(new, Place(home))
  BY <1>1 DEF ChangeCountry
<1>3. Place(home) \in Nat
  BY PlaceType
<1> HIDE DEF new
<1>4. loads' \in 0..MaxLoads /\ requests' \subseteq Request
  BY <1>2, <1>3, SendType
<1> QED
  BY <1>4 DEF ChangeCountry, TypeOK, homes, koloda

LEMMA ReplaceType ==
  ASSUME TypeOK, NEW c \in Country, NEW gone \in BOOLEAN, ReplaceHome(c, gone),
         calm' \in BOOLEAN
  PROVE  TypeOK'
<1>1. /\ home' \in 1..MaxHomes /\ home' = home + 1 /\ home \in Nat \ {0}
      /\ kept' \subseteq 1..(home' - 1)
  BY FlashCardsAssumption DEF ReplaceHome, TypeOK
<1>2. loads' \in 0..MaxLoads /\ requests' \subseteq Request
  <2>1. loads + 1 <= MaxLoads /\ "reload" \in Then
    BY DEF ReplaceHome, Send, Then
  <2>2. New(1, "reload", c, home + 1) \in Request
    BY <1>1, <2>1, NewType
  <2> QED
    BY <2>2, SendType DEF ReplaceHome
<1>3. topNews' \in List
  <2>1. topNews' = [topNews EXCEPT !.len = 0] \/ topNews' = topNews
    BY DEF ReplaceHome
  <2> QED
    BY <2>1, EmptiedType DEF TypeOK
<1>4. PICK n \in Nat : n = Min2(Visible, topNews'.len - 0)
  BY <1>3, FlashCardsAssumption DEF List, Min2
<1>5. cards' = [k \in 1..n |-> [load |-> topNews'.load, at |-> 0 + k - 1]]
  BY <1>4 DEF ReplaceHome, Deck, Card
<1>6. \A k \in 1..n : [load |-> topNews'.load, at |-> 0 + k - 1] \in Article
  BY <1>3 DEF List, Article
<1>7. cards' \in Seq(Article)
  BY <1>5, <1>6
<1>8. index' \in Nat /\ count' \in 0..MaxCards /\ built' \in List
  BY <1>3 DEF ReplaceHome, List
<1> QED
  BY <1>1, <1>2, <1>3, <1>7, <1>8 DEF ReplaceHome, TypeOK

LEMMA AskType == TypeOK /\ Ask /\ calm' \in BOOLEAN => TypeOK'
<1> SUFFICES ASSUME TypeOK, Ask, calm' \in BOOLEAN PROVE TypeOK'
  OBVIOUS
<1>1. ASSUME NEW c \in Country, ChangeCountry(c) PROVE TypeOK'
  BY <1>1, ChangeType
<1>2. ASSUME NEW c \in Country, NEW gone \in BOOLEAN, ReplaceHome(c, gone)
      PROVE  TypeOK'
  BY <1>2, ReplaceType
<1>3. CASE PressReload
  <2>1. loads + 1 <= MaxLoads /\ "resetHide" \in Then /\ home \in 1..MaxHomes
        /\ country \in Country
    BY <1>3 DEF PressReload, Send, Then, TypeOK
  <2>2. New(1, "resetHide", country, home) \in Request
    BY <2>1, NewType
  <2>3. loads' \in 0..MaxLoads /\ requests' \subseteq Request
    BY <1>3, <2>2, SendType DEF PressReload
  <2> QED
    BY <1>3, <2>3 DEF PressReload, TypeOK, homes, koloda
<1> QED
  BY <1>1, <1>2, <1>3 DEF Ask

LEMMA WarningType == TypeOK /\ MemoryWarning /\ calm' = FALSE => TypeOK'
<1> SUFFICES ASSUME TypeOK, MemoryWarning, calm' = FALSE PROVE TypeOK'
  OBVIOUS
<1>1. topNews' \in List
  BY EmptiedType DEF MemoryWarning
<1> QED
  BY <1>1 DEF MemoryWarning, TypeOK, homes, koloda

LEMMA ReleaseType ==
  ASSUME TypeOK, NEW h \in kept, Release(h), UNCHANGED calm PROVE TypeOK'
<1>1. topNews' \in List
  BY EmptiedType DEF Release
<1> QED
  BY <1>1 DEF Release, TypeOK, koloda

LEMMA RunLeftType == TypeOK /\ RunBlockOfLeft /\ UNCHANGED calm => TypeOK'
<1> SUFFICES ASSUME TypeOK, RunBlockOfLeft, UNCHANGED calm PROVE TypeOK'
  OBVIOUS
<1>1. mainQueue' \in Seq(Block) /\ trapped' \in {"no", "deck", "left"}
  BY DEF RunBlockOfLeft, TypeOK
<1> QED
  BY <1>1 DEF RunBlockOfLeft, TypeOK, homes, koloda

LEMMA ResetType ==
  ASSUME TypeOK, ResetDeck
  PROVE  /\ index' \in Nat /\ count' \in 0..MaxCards /\ cards' \in Seq(Article)
         /\ built' \in List /\ trapped' \in {"no", "deck", "left"}
BY DeckIsRow DEF ResetDeck, TypeOK, List

LEMMA ExtendType ==
  ASSUME TypeOK, ExtendDeck
  PROVE  /\ index' \in Nat /\ count' \in 0..MaxCards /\ cards' \in Seq(Article)
         /\ built' \in List /\ trapped' \in {"no", "deck", "left"}
<1>1. /\ index \in Nat /\ Len(cards) \in Nat /\ topNews.len \in Nat
      /\ Visible \in Nat /\ cards \in Seq(Article)
  BY FlashCardsAssumption DEF TypeOK, List
<1>2. Filled \in Seq(Article)
  <2> DEFINE m == Min2(Visible - Len(cards), topNews.len - (index + Len(cards)))
  <2>1. m \in Int
    <3>1. Visible - Len(cards) \in Int /\ topNews.len - (index + Len(cards)) \in Int
      BY <1>1
    <3> QED
      BY <3>1, MinType
  <2> HIDE DEF m
  <2>2. Row(index + Len(cards), m) \in Seq(Article)
    BY <1>1, <2>1, RowIsSeq
  <2>3. Filled = cards \o Row(index + Len(cards), m)
    BY DEF Filled, Row, m
  <2> QED
    BY <1>1, <2>2, <2>3
<1>3. Redrawn \in Seq(Article)
  <2>1. Redrawn = Row(index, Len(cards))
    BY DEF Redrawn, Row
  <2> QED
    BY <1>1, <2>1, RowIsSeq
<1>4. cards' \in Seq(Article)
  BY <1>1, <1>2, <1>3, DeckIsRow DEF ExtendDeck
<1>5. count' \in 0..MaxCards /\ trapped' \in {"no", "deck", "left"}
  BY DEF ExtendDeck, Reads, TypeOK, List
<1> QED
  BY <1>4, <1>5 DEF ExtendDeck, TypeOK

LEMMA RunType == TypeOK /\ RunBlock /\ UNCHANGED calm => TypeOK'
<1> SUFFICES ASSUME TypeOK, RunBlock, UNCHANGED calm PROVE TypeOK'
  OBVIOUS
<1>1. /\ index' \in Nat /\ count' \in 0..MaxCards /\ cards' \in Seq(Article)
      /\ built' \in List /\ trapped' \in {"no", "deck", "left"}
  BY ResetType, ExtendType DEF RunBlock, ReloadDeck
<1>2. mainQueue' \in Seq(Block)
  BY DEF RunBlock, TypeOK
<1>3. reloadShown' \in BOOLEAN
  BY DEF RunBlock, TypeOK
<1> QED
  BY <1>1, <1>2, <1>3 DEF RunBlock, TypeOK, homes

LEMMA SwipeType == TypeOK /\ Swipe /\ calm' \in BOOLEAN => TypeOK'
<1> SUFFICES ASSUME TypeOK, Swipe, calm' \in BOOLEAN PROVE TypeOK'
  OBVIOUS
<1>1. /\ index \in Nat /\ topNews.len \in Nat /\ count \in Nat
      /\ Visible \in Nat \ {0}
      /\ cards \in Seq(Article) /\ cards # <<>>
      /\ topNews.load \in 0..MaxLoads
  BY FlashCardsAssumption DEF Swipe, TypeOK, List
<1> DEFINE make == index + 1 + Min2(Visible, topNews.len) - 1
<1>2. Min2(Visible, topNews.len) \in Nat
  BY <1>1 DEF Min2
<1>3. make \in Nat
  BY <1>1, <1>2
<1> HIDE DEF make
<1>4. Card(make) \in Article
  BY <1>1, <1>3 DEF Card, Article
<1>5. cards' \in Seq(Article)
  BY <1>1, <1>4 DEF Swipe, make
<1>6. trapped' \in {"no", "deck", "left"} /\ reloadShown' \in BOOLEAN
  BY DEF Swipe, Reads, TypeOK
<1> QED
  BY <1>1, <1>5, <1>6 DEF Swipe, TypeOK, homes

LEMMA BringBackType == TypeOK /\ BringBack /\ calm' \in BOOLEAN => TypeOK'
<1> SUFFICES ASSUME TypeOK, BringBack, calm' \in BOOLEAN PROVE TypeOK'
  OBVIOUS
<1>1. /\ index \in Nat /\ index - 1 \in Nat /\ cards \in Seq(Article)
      /\ cards # <<>> /\ Len(cards) \in Nat
      /\ topNews.load \in 0..MaxLoads
  BY DEF BringBack, TypeOK, List
<1>2. Card(index - 1) \in Article
  BY <1>1 DEF Card, Article
<1>3. SubSeq(cards, 1, Len(cards) - 1) \in Seq(Article)
  BY <1>1
<1>4. cards' \in Seq(Article)
  BY <1>1, <1>2, <1>3 DEF BringBack
<1>5. index' \in Nat /\ trapped' \in {"no", "deck", "left"}
  BY <1>1 DEF BringBack, Reads, TypeOK
<1> QED
  BY <1>4, <1>5 DEF BringBack, TypeOK, homes

LEMMA InitType == Init => TypeOK
<1> SUFFICES ASSUME Init PROVE TypeOK
  OBVIOUS
<1>1. MaxLoads \in Nat \ {0} /\ MaxCards \in Nat /\ 1 \in 1..MaxLoads
      /\ 1 \in 0..MaxLoads /\ 0 \in 0..MaxLoads /\ 0 \in 0..MaxCards
  BY FlashCardsAssumption
<1>2. topNews \in List /\ built \in List
  BY <1>1 DEF Init, List
<1>3. requests \subseteq Request
  BY <1>1, FlashCardsAssumption DEF Init, Request, Opening, Block
<1>4. mainQueue \in Seq(Block) /\ cards \in Seq(Article)
  BY DEF Init
<1>5. home \in 1..MaxHomes /\ kept \subseteq 1..(home - 1)
  BY FlashCardsAssumption DEF Init
<1> QED
  BY <1>5, <1>1, <1>2, <1>3, <1>4 DEF Init, TypeOK

(***************************************************************************)
(* CardTypes: every state of the deck is well typed.                       *)
(***************************************************************************)
THEOREM CardTypes == Spec => []TypeOK
<1>1. TypeOK /\ [Next]_vars => TypeOK'
  <2> SUFFICES ASSUME TypeOK, [Next]_vars PROVE TypeOK'
    OBVIOUS
  <2>1. CASE Ask /\ calm' = (calm /\ Settled)
    BY <2>1, AskType
  <2>2. CASE MemoryWarning /\ calm' = FALSE
    BY <2>2, WarningType
  <2>3. CASE Touch /\ calm' = (calm /\ ~ToOpen)
    <3>1. calm' \in BOOLEAN
      BY <2>3
    <3> QED
      BY <2>3, <3>1, SwipeType, BringBackType DEF Touch
  <2>4. CASE Other /\ UNCHANGED calm
    <3>1. ASSUME NEW r \in requests, Answer(r) \/ LoadFails(r) PROVE TypeOK'
      BY <2>4, <3>1, CompletionIsComplete, CompleteType
    <3>2. ASSUME NEW h \in kept, Release(h) PROVE TypeOK'
      BY <2>4, <3>2, ReleaseType
    <3>3. CASE UseTopCard
      BY <2>4, <3>3 DEF UseTopCard, TypeOK, homes, koloda
    <3> QED
      BY <2>4, <3>1, <3>2, <3>3, RunType, RunLeftType DEF Other
  <2>5. CASE UNCHANGED vars
    BY <2>5 DEF vars, homes, koloda, TypeOK
  <2> QED
    BY <2>1, <2>2, <2>3, <2>4, <2>5 DEF Next
<1> QED
  BY <1>1, InitType, PTL DEF Spec

-----------------------------------------------------------------------------
(* The deck and its list.                                                  *)

\* A request's number tells its answer from the lists that are there.
LoadsDiffer ==
  /\ topNews.load <= loads /\ built.load <= loads
  /\ \A r \in requests :
       r.load <= loads /\ r.load # topNews.load /\ r.load # built.load
  /\ \A r, s \in requests : r.load = s.load => r = s

\* The list a deck was built from is the present one, unless that was
\* replaced or emptied.
SameLoadSameList ==
  built.load = topNews.load /\ topNews.len > 0 => built = topNews

\* The window of a deck whose list is still there.
InWindow ==
  /\ cards = Deck(index)
  /\ index <= topNews.len
  /\ topNews.len > 0 => count = topNews.len
  /\ index = topNews.len /\ topNews.len > 0 => reloadShown

DeckInv ==
  /\ TypeOK
  /\ LoadsDiffer
  /\ SameLoadSameList
  /\ built = topNews => InWindow

\* Steps that leave the deck and its list alone.
LEMMA DeckUntouched ==
  ASSUME DeckInv, UNCHANGED <<topNews, koloda, reloadShown>>
  PROVE  SameLoadSameList' /\ (built = topNews => InWindow)'
BY DEF DeckInv, SameLoadSameList, InWindow, Deck, Card, koloda

\* New requests have numbers no list and no request has.
LEMMA SendDiffers ==
  ASSUME TypeOK, LoadsDiffer, NEW n \in Nat, NEW new, Send(new, n),
         \A q \in new : q.load \in loads + 1 .. loads + n,
         \A p, q \in new : p.load = q.load => p = q
  PROVE  \A r \in requests' :
           /\ r.load <= loads' /\ r.load # topNews.load /\ r.load # built.load
           /\ \A s \in requests' : r.load = s.load => r = s
<1>1. /\ loads \in Nat /\ topNews.load \in Nat /\ built.load \in Nat
      /\ \A r \in requests : r.load \in Nat
  BY DEF TypeOK, List, Request
<1>2. requests' = requests \union new /\ loads' = loads + n
  BY DEF Send
<1> QED
  BY <1>1, <1>2 DEF LoadsDiffer

LEMMA AskKeepsDeck ==
  ASSUME DeckInv, TypeOK', Ask PROVE DeckInv'
<1>0. TypeOK /\ LoadsDiffer
  BY DEF DeckInv
<1>1. /\ TypeOK /\ LoadsDiffer /\ loads \in Nat
      /\ topNews.load <= loads /\ built.load <= loads
      /\ topNews.load \in Nat /\ built.load \in Nat
  <2>1. loads \in Nat /\ topNews.load \in Nat /\ built.load \in Nat
    BY <1>0 DEF TypeOK, List
  <2> QED
    BY <1>0, <2>1 DEF LoadsDiffer
<1>2. ASSUME NEW n \in Nat, NEW new, Send(new, n), UNCHANGED <<topNews, koloda>>,
             \A q \in new : q.load \in loads + 1 .. loads + n,
             \A p, q \in new : p.load = q.load => p = q
      PROVE  LoadsDiffer'
  <2>1. loads <= loads'
    BY <1>1, <1>2 DEF Send
  <2>2. \A r \in requests' :
           /\ r.load <= loads' /\ r.load # topNews.load /\ r.load # built.load
           /\ \A s \in requests' : r.load = s.load => r = s
    BY <1>1, <1>2, SendDiffers
  <2>3. loads' \in Nat
    BY DEF TypeOK
  <2> QED
    BY <1>1, <1>2, <2>1, <2>2, <2>3 DEF LoadsDiffer, koloda
<1>3. ASSUME NEW c \in Country, ChangeCountry(c) PROVE DeckInv'
  <2> DEFINE alive == kept \union {home}
             new == {New(Place(h), "reset", c, h) : h \in alive}
  <2>1. ASSUME NEW h \in alive
        PROVE  /\ New(Place(h), "reset", c, h).load = loads + Place(h)
               /\ Place(h) \in 1..Place(home) /\ Place(home) \in Nat
               /\ \A g \in alive : Place(g) = Place(h) => g = h
    BY <1>1, PlaceType DEF New
  <2>2. \A q \in new : q.load \in loads + 1 .. loads + Place(home)
    BY <1>1, <2>1
  <2>3. \A p, q \in new : p.load = q.load => p = q
    <3> SUFFICES ASSUME NEW g \in alive, NEW h \in alive,
                        New(Place(g), "reset", c, g).load
                          = New(Place(h), "reset", c, h).load
                 PROVE  g = h
      OBVIOUS
    <3>1. Place(g) = Place(h)
      BY <1>1, <2>1
    <3> QED
      BY <2>1, <3>1
  <2>4. Send(new, Place(home)) /\ Place(home) \in Nat
    BY <1>3, <2>1 DEF ChangeCountry
  <2>5. UNCHANGED <<topNews, koloda, reloadShown>>
    BY <1>3 DEF ChangeCountry
  <2> HIDE DEF new, alive
  <2>6. LoadsDiffer'
    BY <1>2, <2>2, <2>3, <2>4, <2>5
  <2> QED
    BY <2>5, <2>6, DeckUntouched DEF DeckInv
<1>4. CASE PressReload
  <2> DEFINE new == {New(1, "resetHide", country, home)}
  <2>1. /\ \A q \in new : q.load \in loads + 1 .. loads + 1
        /\ \A p, q \in new : p.load = q.load => p = q
    BY <1>1 DEF New
  <2>2. Send(new, 1) /\ UNCHANGED <<topNews, koloda, reloadShown>>
    BY <1>4 DEF PressReload
  <2> HIDE DEF new
  <2>3. LoadsDiffer'
    BY <1>2, <2>1, <2>2
  <2> QED
    BY <2>2, <2>3, DeckUntouched DEF DeckInv
<1>5. ASSUME NEW c \in Country, NEW gone \in BOOLEAN, ReplaceHome(c, gone)
      PROVE  DeckInv'
  <2> DEFINE new == {New(1, "reload", c, home + 1)}
  <2>1. /\ \A q \in new : q.load \in loads + 1 .. loads + 1
        /\ \A p, q \in new : p.load = q.load => p = q
    BY <1>1 DEF New
  <2>2. Send(new, 1)
    BY <1>5 DEF ReplaceHome
  <2>3. topNews'.load = topNews.load /\ built' = topNews'
    BY <1>1, <1>5, EmptiedType DEF ReplaceHome
  <2> HIDE DEF new
  <2>4. \A r \in requests' :
           /\ r.load <= loads' /\ r.load # topNews.load
           /\ \A s \in requests' : r.load = s.load => r = s
    BY <1>1, <2>1, <2>2, SendDiffers
  <2>5. loads <= loads' /\ loads' \in Nat
    BY <1>1, <2>2 DEF Send
  <2>6. LoadsDiffer'
    BY <1>1, <2>3, <2>4, <2>5 DEF LoadsDiffer
  <2>7. /\ index' = 0 /\ count' = topNews'.len
        /\ cards' = Deck(0)' /\ topNews'.len \in Nat
    BY <1>5 DEF ReplaceHome, TypeOK, List
  <2>8. cards' = Deck(index)'
    BY <2>7 DEF Deck, Card
  <2>9. InWindow'
    BY <2>7, <2>8 DEF InWindow
  <2> QED
    BY <2>3, <2>6, <2>9 DEF DeckInv, SameLoadSameList
<1> QED
  BY <1>3, <1>4, <1>5 DEF Ask

LEMMA CompleteKeepsDeck ==
  ASSUME DeckInv, TypeOK', NEW r \in requests, NEW n \in 0..MaxCards,
         Complete(r, n)
  PROVE  DeckInv'
<1>1. /\ topNews'.load = r.load /\ built' = built /\ loads' = loads
      /\ requests' = requests \ {r}
  BY DEF Complete, koloda
<1>2. r.load # built.load /\ r.load <= loads
  BY DEF DeckInv, LoadsDiffer
<1>3. LoadsDiffer'
  BY <1>1, <1>2 DEF DeckInv, LoadsDiffer
<1>4. built'.load # topNews'.load
  BY <1>1, <1>2
<1> QED
  BY <1>3, <1>4 DEF DeckInv, SameLoadSameList

\* An emptied list is another one, or was empty before.
LEMMA EmptiedKeepsDeck ==
  ASSUME DeckInv, TypeOK', topNews' = [topNews EXCEPT !.len = 0],
         UNCHANGED <<loads, requests, koloda, reloadShown>>
  PROVE  DeckInv'
<1>1. /\ topNews'.load = topNews.load /\ topNews'.len = 0 /\ built' = built
  BY EmptiedType DEF koloda, DeckInv
<1>2. LoadsDiffer' /\ SameLoadSameList'
  BY <1>1 DEF DeckInv, LoadsDiffer, SameLoadSameList
<1>3. ASSUME built' = topNews' PROVE topNews' = topNews
  <2>1. CASE topNews.len = 0
    BY <2>1 DEF DeckInv, TypeOK, List
  <2>2. CASE topNews.len > 0
    BY <1>1, <1>3, <2>2 DEF DeckInv, SameLoadSameList
  <2> QED
    BY <2>1, <2>2 DEF DeckInv, TypeOK, List
<1>4. (built = topNews => InWindow)'
  BY <1>1, <1>3, DeckUntouched
<1> QED
  BY <1>2, <1>4 DEF DeckInv

\* The deck of an unchanged list is what it was.
LEMMA SameDeck ==
  ASSUME UNCHANGED topNews, NEW i
  PROVE  Deck(i)' = Deck(i)
BY DEF Deck, Card

LEMMA ResetKeepsDeck ==
  ASSUME DeckInv, ResetDeck, UNCHANGED topNews
  PROVE  SameLoadSameList' /\ InWindow'
<1>1. topNews.len \in Nat
  BY DEF DeckInv, TypeOK, List
<1>2. /\ index' = 0 /\ cards' = Deck(0) /\ built' = topNews
      /\ topNews.len > 0 => count' = topNews.len
  BY <1>1 DEF ResetDeck
<1>3. cards' = Deck(index)'
  BY <1>2, SameDeck
<1> QED
  BY <1>1, <1>2, <1>3 DEF InWindow, SameLoadSameList

LEMMA ExtendKeepsDeck ==
  ASSUME DeckInv, ExtendDeck, trapped = "no", topNews.len # 0,
         UNCHANGED <<topNews, reloadShown>>
  PROVE  SameLoadSameList' /\ (built = topNews => InWindow)'
         /\ (built = topNews => trapped' # "deck")
<1>1. SameLoadSameList' /\ UNCHANGED <<index, built>> /\ count' = topNews.len
  BY DEF ExtendDeck, DeckInv, SameLoadSameList
<1>2. ASSUME built = topNews
      PROVE  cards' = cards /\ trapped' # "deck"
  <2>1. InWindow /\ TypeOK
    BY <1>2 DEF DeckInv
  <2>2. /\ index \in Nat /\ index <= topNews.len /\ topNews.len \in Nat
        /\ Visible \in Nat \ {0}
        /\ cards = Deck(index) /\ cards \in Seq(Article)
    BY <2>1, FlashCardsAssumption DEF InWindow, TypeOK, List
  <2>3. /\ Len(cards) = Min2(Visible, topNews.len - index) /\ Len(cards) \in Nat
        /\ \A k \in 1..Len(cards) : cards[k] = Card(index + k - 1)
    BY <2>1, <2>2, DeckCards
  <2>4. CASE topNews.len > index + Len(cards)
    <3>1. Len(cards) = Visible /\ cards # <<>>
      BY <2>2, <2>3, <2>4, EmptySeq DEF Min2
    <3>2. Min2(Visible - Len(cards), topNews.len - (index + Len(cards))) = 0
      BY <2>2, <2>4, <3>1 DEF Min2
    <3>3. Row(index + Len(cards), 0) = <<>>
      BY <2>1, <2>2, <2>3, RowIsSeq
    <3>4. Filled = cards \o Row(index + Len(cards), 0)
      BY <3>2 DEF Filled, Row
    <3>5. Filled = cards
      BY <2>2, <3>3, <3>4, ConcatEmptySeq
    <3> QED
      BY <2>4, <3>1, <3>5 DEF ExtendDeck
  <2>5. CASE ~(topNews.len > index + Len(cards))
    <3>1. Redrawn = Row(index, Len(cards))
      BY DEF Redrawn, Row
    <3>2. Redrawn = cards
      <4>1. /\ Redrawn \in Seq(Article) /\ Len(Redrawn) = Len(cards)
            /\ \A k \in 1..Len(cards) : Redrawn[k] = Card(index + k - 1)
        BY <2>1, <2>2, <2>3, <3>1, FullRow
      <4> QED
        BY <2>2, <2>3, <4>1, SeqEqual
    <3>3. \A i \in {index + k - 1 : k \in 1..Len(cards)} : InRange(i)
      BY <2>2, <2>3 DEF InRange, Min2
    <3>4. cards' = Redrawn /\ Reads({index + k - 1 : k \in 1..Len(cards)})
      BY <2>5 DEF ExtendDeck
    <3> QED
      BY <3>2, <3>3, <3>4 DEF Reads
  <2> QED
    BY <2>4, <2>5
<1>3. ASSUME built = topNews PROVE InWindow'
  <2>1. Deck(index)' = Deck(index)
    BY <1>1, SameDeck
  <2> QED
    BY <1>1, <1>2, <1>3, <2>1 DEF InWindow, DeckInv
<1> QED
  BY <1>1, <1>2, <1>3

LEMMA RunKeepsDeck ==
  ASSUME DeckInv, TypeOK', RunBlock, trapped = "no"
  PROVE  DeckInv' /\ (built = topNews => trapped' # "deck")
<1>1. /\ UNCHANGED <<loads, requests, topNews>>
      /\ reloadShown' = (reloadShown /\ Head(mainQueue).then # "resetHide")
  BY DEF RunBlock
<1>2. CASE ResetDeck
  <2>1. SameLoadSameList' /\ InWindow' /\ built' = topNews
    BY <1>1, <1>2, ResetKeepsDeck DEF ResetDeck
  <2>2. LoadsDiffer'
    BY <1>1, <2>1 DEF DeckInv, LoadsDiffer
  <2> QED
    BY <1>2, <2>1, <2>2 DEF DeckInv, ResetDeck
<1>3. CASE ExtendDeck /\ Head(mainQueue).then = "reload" /\ topNews.len # 0
  <2>1. reloadShown' = reloadShown
    BY <1>1, <1>3 DEF DeckInv, TypeOK
  <2>2. /\ SameLoadSameList' /\ (built = topNews => InWindow)'
        /\ (built = topNews => trapped' # "deck")
    BY <1>1, <1>3, <2>1, ExtendKeepsDeck
  <2>3. LoadsDiffer'
    BY <1>1, <1>3 DEF DeckInv, LoadsDiffer, ExtendDeck
  <2> QED
    BY <2>2, <2>3 DEF DeckInv
<1> QED
  BY <1>2, <1>3 DEF RunBlock, ReloadDeck

\* The card below the window enters it when the top one goes.
LEMMA SwipeInWindow ==
  ASSUME DeckInv, TypeOK', Swipe, built = topNews, trapped = "no"
  PROVE  InWindow' /\ trapped' # "deck"
<1> DEFINE next == index + 1
           last == index + Min2(Visible, topNews.len)
           more == last < topNews.len
<1>1. /\ InWindow /\ TypeOK
      /\ UNCHANGED <<topNews, count>> /\ index' = next
  BY DEF DeckInv, Swipe
<1>2. /\ index \in Nat /\ topNews.len \in Nat /\ index <= topNews.len
      /\ Visible \in Nat \ {0}
      /\ cards = Deck(index) /\ cards \in Seq(Article) /\ cards # <<>>
      /\ topNews.load \in 0..MaxLoads
  BY <1>1, FlashCardsAssumption DEF InWindow, TypeOK, List, Swipe
<1>3. /\ Len(cards) = Min2(Visible, topNews.len - index) /\ Len(cards) \in Nat
      /\ \A k \in 1..Len(cards) : cards[k] = Card(index + k - 1)
      /\ index # topNews.len
  BY <1>1, <1>2, DeckCards
<1>4. /\ index \in Nat /\ topNews.len \in Nat /\ index < topNews.len
      /\ count = topNews.len
  BY <1>1, <1>2, <1>3 DEF InWindow
<1>5. /\ cards' = IF more THEN Append(Tail(cards), Card(last)) ELSE Tail(cards)
      /\ Reads(IF more THEN {last} ELSE {})
      /\ reloadShown' = (reloadShown \/ cards' = <<>>)
  <2>1. /\ index + 1 + Min2(Visible, topNews.len) - 1 = last
        /\ Min2(Visible, topNews.len) \in Int
    BY <1>2 DEF Min2
  <2> QED
    BY <1>4, <2>1 DEF Swipe
<1>6. /\ next \in Nat /\ next <= topNews.len /\ last \in Nat
      /\ more => /\ last = index + Visible /\ Len(cards) = Visible
                 /\ Min2(Visible, topNews.len - next) = Visible
      /\ ~more => Min2(Visible, topNews.len - next) = Len(cards) - 1
  <2>1. Visible \in Nat \ {0} /\ Len(cards) = Min2(Visible, topNews.len - index)
    BY <1>2, <1>3
  <2> QED
    BY <1>4, <2>1 DEF Min2
<1>7. /\ Tail(cards) \in Seq(Article) /\ Len(Tail(cards)) = Len(cards) - 1
      /\ \A k \in 1..Len(Tail(cards)) : Tail(cards)[k] = cards[k + 1]
  BY <1>2, HeadTailProperties
<1>8. ASSUME NEW k \in 1..(Len(cards) - 1)
      PROVE  Tail(cards)[k] = Card(next + k - 1)
  <2>1. k + 1 \in 1..Len(cards) /\ index + (k + 1) - 1 = next + k - 1
    BY <1>2, <1>3
  <2>2. cards[k + 1] = Card(index + (k + 1) - 1)
    BY <1>3, <2>1
  <2> QED
    BY <1>7, <2>1, <2>2
<1>9. more => Visible \in Nat /\ last = next + Visible - 1
  BY <1>2, <1>4, <1>6
<1> HIDE DEF last, more, next
<1>10. cards' = Deck(next)
  <2>1. CASE more
    <3>1. Card(last) \in Article
      BY <1>2, <1>6 DEF Card, Article
    <3>2. /\ cards' \in Seq(Article) /\ Len(cards') = Len(cards)
          /\ \A k \in 1..(Len(cards) - 1) : cards'[k] = Tail(cards)[k]
          /\ cards'[Len(cards)] = Card(last)
      <4>1. cards' = Append(Tail(cards), Card(last))
        BY <1>5, <2>1
      <4>2. Len(Tail(cards)) + 1 = Len(cards)
        BY <1>3, <1>7
      <4> QED
        BY <1>7, <3>1, <4>1, <4>2, AppendProperties
    <3>3. ASSUME NEW k \in 1..Len(cards')
          PROVE  cards'[k] = Card(next + k - 1)
      <4>1. CASE k = Len(cards)
        BY <1>6, <1>9, <2>1, <3>2, <4>1
      <4>2. CASE k \in 1..(Len(cards) - 1)
        BY <1>8, <3>2, <4>2
      <4> QED
        BY <1>3, <3>2, <4>1, <4>2
    <3>4. Len(cards') = Min2(Visible, topNews.len - next)
      BY <1>6, <2>1, <3>2
    <3> QED
      BY <1>1, <1>6, <3>2, <3>3, <3>4, DeckFromCards
  <2>2. CASE ~more
    <3>1. cards' = Tail(cards)
      BY <1>5, <2>2
    <3>2. /\ cards' \in Seq(Article)
          /\ Len(cards') = Min2(Visible, topNews.len - next)
      BY <1>6, <1>7, <2>2, <3>1
    <3>3. \A k \in 1..Len(cards') : cards'[k] = Card(next + k - 1)
      BY <1>7, <1>8, <3>1
    <3> QED
      BY <1>1, <1>6, <3>2, <3>3, DeckFromCards
  <2> QED
    BY <2>1, <2>2
<1>11. next = topNews.len => cards' = <<>>
  BY <1>1, <1>6, <1>10, DeckCards
<1>12. cards' = Deck(index)'
  BY <1>1, <1>10, SameDeck
<1>13. trapped' # "deck"
  BY <1>5 DEF Reads, InRange, more
<1>14. index' <= topNews'.len /\ (topNews'.len > 0 => count' = topNews'.len)
  BY <1>1, <1>4, <1>6
<1>15. index' = topNews'.len => reloadShown'
  BY <1>1, <1>5, <1>11
<1> QED
  BY <1>12, <1>13, <1>14, <1>15 DEF InWindow

LEMMA SwipeKeepsDeck ==
  ASSUME DeckInv, TypeOK', Swipe, trapped = "no"
  PROVE  DeckInv' /\ (built = topNews => trapped' # "deck")
<1>1. UNCHANGED <<loads, requests, topNews, built>>
  BY DEF Swipe
<1>2. LoadsDiffer' /\ SameLoadSameList'
  BY <1>1 DEF DeckInv, LoadsDiffer, SameLoadSameList
<1> QED
  BY <1>1, <1>2, SwipeInWindow DEF DeckInv

\* The card brought back goes on top; the lowest leaves a full window.
LEMMA BringBackInWindow ==
  ASSUME DeckInv, TypeOK', BringBack, built = topNews, trapped = "no"
  PROVE  InWindow' /\ trapped' # "deck"
<1> DEFINE prev == index - 1
           full == count >= index + Visible
           below == IF full THEN SubSeq(cards, 1, Len(cards) - 1) ELSE cards
<1>1. /\ InWindow /\ TypeOK
      /\ UNCHANGED <<topNews, count>> /\ index' = prev
      /\ cards' = <<Card(prev)>> \o below
      /\ Reads({prev})
  BY DEF DeckInv, BringBack
<1>2. /\ index \in Nat /\ index > 0
      /\ topNews.len \in Nat /\ index <= topNews.len
      /\ Visible \in Nat \ {0}
      /\ cards = Deck(index) /\ cards \in Seq(Article) /\ cards # <<>>
      /\ topNews.load \in 0..MaxLoads
  BY <1>1, FlashCardsAssumption DEF InWindow, TypeOK, List, BringBack
<1>3. /\ Len(cards) = Min2(Visible, topNews.len - index) /\ Len(cards) \in Nat
      /\ \A k \in 1..Len(cards) : cards[k] = Card(index + k - 1)
      /\ index # topNews.len
  BY <1>1, <1>2, DeckCards
<1>4. /\ prev \in Nat /\ prev < topNews.len /\ index = prev + 1
      /\ count = topNews.len /\ Len(cards) > 0
  <2>1. count = topNews.len
    BY <1>1, <1>2, <1>3 DEF InWindow
  <2>2. Len(cards) # 0
    BY <1>2, <1>3, EmptySeq
  <2> QED
    BY <1>2, <1>3, <2>1, <2>2
<1>5. /\ full => Min2(Visible, topNews.len - prev) = Len(cards)
      /\ ~full => Min2(Visible, topNews.len - prev) = Len(cards) + 1
  <2>1. Visible \in Nat \ {0} /\ Len(cards) = Min2(Visible, topNews.len - index)
    BY <1>2, <1>3
  <2> QED
    BY <1>2, <1>4, <2>1 DEF Min2
<1>6. /\ below \in Seq(Article)
      /\ Len(below) + 1 = Min2(Visible, topNews.len - prev)
      /\ \A k \in 1..Len(below) : below[k] = Card(index + k - 1)
  <2>1. CASE full
    <3>1. /\ SubSeq(cards, 1, Len(cards) - 1) \in Seq(Article)
          /\ Len(SubSeq(cards, 1, Len(cards) - 1)) = Len(cards) - 1
          /\ \A k \in 1..(Len(cards) - 1) :
               SubSeq(cards, 1, Len(cards) - 1)[k] = cards[k]
      <4>1. PICK n \in Nat : n = Len(cards) - 1
        BY <1>3, <1>4
      <4>2. 1 \in Int /\ n \in Int /\ \A k \in 1..n : cards[k] \in Article
        BY <1>2, <1>3, <4>1, ElementOfSeq
      <4>3. /\ SubSeq(cards, 1, n) \in Seq(Article)
            /\ Len(SubSeq(cards, 1, n)) = IF 1 <= n THEN n - 1 + 1 ELSE 0
            /\ \A k \in 1..(n - 1 + 1) :
                 SubSeq(cards, 1, n)[k] = cards[1 + k - 1]
        BY <4>2, SubSeqProperties
      <4>4. /\ (IF 1 <= n THEN n - 1 + 1 ELSE 0) = n /\ n - 1 + 1 = n
            /\ \A k \in 1..n : 1 + k - 1 = k
        BY <4>1
      <4> QED
        BY <4>1, <4>3, <4>4
    <3> QED
      BY <1>3, <1>4, <1>5, <2>1, <3>1
  <2>2. CASE ~full
    BY <1>2, <1>3, <1>5, <2>2
  <2> QED
    BY <2>1, <2>2
<1> HIDE DEF prev, full, below
<1>7. Card(prev) \in Article
  BY <1>2, <1>4 DEF Card, Article
<1>8. /\ cards' \in Seq(Article) /\ Len(cards') = Len(below) + 1
      /\ cards'[1] = Card(prev)
      /\ \A k \in 2..Len(cards') : cards'[k] = below[k - 1]
  <2>1. <<Card(prev)>> \in Seq(Article) /\ Len(<<Card(prev)>>) = 1
        /\ <<Card(prev)>>[1] = Card(prev)
    BY <1>7
  <2>2. Len(below) \in Nat
    BY <1>6
  <2> QED
    BY <1>1, <1>6, <2>1, <2>2, ConcatProperties
<1>9. ASSUME NEW k \in 1..Len(cards')
      PROVE  cards'[k] = Card(prev + k - 1)
  <2>1. CASE k = 1
    BY <1>4, <1>8, <2>1
  <2>2. CASE k \in 2..Len(cards')
    <3>1. k - 1 \in 1..Len(below) /\ index + (k - 1) - 1 = prev + k - 1
      BY <1>4, <1>6, <1>8, <2>2
    <3>2. below[k - 1] = Card(index + (k - 1) - 1)
      BY <1>6, <3>1
    <3> QED
      BY <1>8, <2>2, <3>1, <3>2
  <2> QED
    BY <1>6, <1>8, <2>1, <2>2
<1>10. cards' = Deck(prev)
  <2>1. Len(cards') = Min2(Visible, topNews.len - prev) /\ prev <= topNews.len
    BY <1>2, <1>4, <1>6, <1>8
  <2> QED
    BY <1>1, <1>4, <1>8, <1>9, <2>1, DeckFromCards
<1>11. cards' = Deck(index)'
  BY <1>1, <1>10, SameDeck
<1>12. /\ index' < topNews'.len /\ index' \in Nat /\ topNews'.len \in Nat
       /\ topNews'.len > 0 => count' = topNews'.len
  BY <1>1, <1>2, <1>4
<1>13. trapped' # "deck"
  BY <1>1, <1>4 DEF Reads, InRange
<1> QED
  BY <1>11, <1>12, <1>13 DEF InWindow

LEMMA BringBackKeepsDeck ==
  ASSUME DeckInv, TypeOK', BringBack, trapped = "no"
  PROVE  DeckInv' /\ (built = topNews => trapped' # "deck")
<1>1. UNCHANGED <<loads, requests, topNews, built>>
  BY DEF BringBack
<1>2. LoadsDiffer' /\ SameLoadSameList'
  BY <1>1 DEF DeckInv, LoadsDiffer, SameLoadSameList
<1> QED
  BY <1>1, <1>2, BringBackInWindow DEF DeckInv

\* The index of a deck that shows a card is in the list.
LEMMA UseKeepsDeck ==
  ASSUME DeckInv, TypeOK', UseTopCard
  PROVE  DeckInv' /\ built # topNews
<1>1. /\ UNCHANGED <<loads, requests, topNews, koloda, reloadShown>>
      /\ cards # <<>> /\ ~InRange(index)
  BY DEF UseTopCard
<1>2. LoadsDiffer'
  BY <1>1 DEF DeckInv, LoadsDiffer, koloda
<1>3. DeckInv'
  BY <1>1, <1>2, DeckUntouched DEF DeckInv
<1>4. ASSUME built = topNews PROVE FALSE
  <2>0. TypeOK /\ cards = Deck(index) /\ index <= topNews.len
    BY <1>4 DEF DeckInv, InWindow
  <2>1. index \in Nat /\ topNews.len \in Nat
    BY <2>0 DEF TypeOK, List
  <2>2. index = topNews.len
    BY <1>1, <2>0, <2>1 DEF InRange
  <2> QED
    BY <1>1, <2>0, <2>1, <2>2, DeckCards
<1> QED
  BY <1>3, <1>4

LEMMA DeckStep ==
  ASSUME DeckInv, TypeOK', Next
  PROVE  DeckInv' /\ (built = topNews => trapped' # "deck")
<1>1. trapped = "no"
  BY DEF Next
<1>2. CASE Ask
  BY <1>1, <1>2, AskKeepsDeck DEF Ask, ChangeCountry, PressReload, ReplaceHome
<1>3. CASE Touch
  BY <1>1, <1>3, SwipeKeepsDeck, BringBackKeepsDeck DEF Touch
<1>4. CASE MemoryWarning
  BY <1>1, <1>4, EmptiedKeepsDeck DEF MemoryWarning
<1>5. CASE Other
  <2>1. ASSUME NEW r \in requests, Answer(r) \/ LoadFails(r)
        PROVE  DeckInv' /\ trapped' = trapped
    BY <2>1, CompletionIsComplete, CompleteKeepsDeck DEF Complete
  <2>2. ASSUME NEW h \in kept, Release(h)
        PROVE  DeckInv' /\ trapped' = trapped
    BY <2>2, EmptiedKeepsDeck DEF Release
  <2>3. CASE RunBlockOfLeft
    <3>1. UNCHANGED <<loads, requests, topNews, koloda, reloadShown>>
          /\ trapped' # "deck"
      BY <1>1, <2>3 DEF RunBlockOfLeft
    <3>2. LoadsDiffer'
      BY <3>1 DEF DeckInv, LoadsDiffer, koloda
    <3> QED
      BY <3>1, <3>2, DeckUntouched DEF DeckInv
  <2> QED
    BY <1>1, <1>5, <2>1, <2>2, <2>3, RunKeepsDeck, UseKeepsDeck DEF Other
<1> QED
  BY <1>2, <1>3, <1>4, <1>5 DEF Next

LEMMA DeckStutters ==
  ASSUME DeckInv, TypeOK', UNCHANGED vars
  PROVE  DeckInv'
<1>1. UNCHANGED <<loads, requests, topNews, koloda, reloadShown>>
  BY DEF vars
<1>2. LoadsDiffer'
  BY <1>1 DEF DeckInv, LoadsDiffer, koloda
<1> QED
  BY <1>1, <1>2, DeckUntouched DEF DeckInv

LEMMA InitDeck == Init => DeckInv
<1> SUFFICES ASSUME Init PROVE DeckInv
  OBVIOUS
<1>1. TypeOK
  BY InitType
<1>2. LoadsDiffer /\ SameLoadSameList
  BY DEF Init, LoadsDiffer, SameLoadSameList
<1>3. InWindow
  <2>1. topNews.len = 0 /\ index = 0 /\ cards = <<>>
    BY DEF Init
  <2>2. Deck(0) = <<>>
    BY <1>1, <2>1, DeckCards
  <2> QED
    BY <2>1, <2>2 DEF InWindow
<1> QED
  BY <1>1, <1>2, <1>3 DEF DeckInv

LEMMA DeckHolds == Spec => [](DeckInv /\ TypeOK)
<1>1. DeckInv /\ TypeOK' /\ [Next]_vars => DeckInv'
  BY DeckStep, DeckStutters
<1> QED
  BY <1>1, InitDeck, CardTypes, PTL DEF Spec

(***************************************************************************)
(* DeckShowsItsList: while topNews is the list a deck was built from, the  *)
(* cards are its window at currentCardIndex (KolodaView.swift:417-421,     *)
(* 505-511).                                                               *)
(***************************************************************************)
THEOREM DeckShowsItsList == Spec => []DeckFollowsList
<1>1. DeckInv => DeckFollowsList
  BY DEF DeckInv, InWindow, DeckFollowsList
<1> QED
  BY <1>1, DeckHolds, PTL

(***************************************************************************)
(* EmptyDeckReloads: a reader who swiped all loaded news away is offered   *)
(* to reload (FlashCardsViewController.swift:70, 91-93).                   *)
(***************************************************************************)
THEOREM EmptyDeckReloads == Spec => []ReloadOffered
<1>1. DeckInv => ReloadOffered
  <2> SUFFICES ASSUME DeckInv, built = topNews, cards = <<>>, topNews.len > 0
               PROVE  reloadShown
    BY DEF ReloadOffered
  <2>1. TypeOK /\ InWindow /\ index \in Nat
    BY DEF DeckInv, TypeOK
  <2>2. index = topNews.len
    BY <2>1, DeckCards DEF InWindow
  <2> QED
    BY <2>1, <2>2 DEF InWindow
<1> QED
  BY <1>1, DeckHolds, PTL

(***************************************************************************)
(* OnlyNewListsTrap: an index runs out of range only after the list was    *)
(* replaced or emptied under the deck, also by a home that was left        *)
(* (FlashCardsViewController.swift:34, 51, 56, 66, 222).                   *)
(***************************************************************************)
THEOREM OnlyNewListsTrap == Spec => TrapsNeedNewList
<1>1. DeckInv /\ TypeOK' /\ [Next]_vars
        => [built = topNews => trapped' # "deck"]_vars
  BY DeckStep
<1> QED
  BY <1>1, DeckHolds, CardTypes, PTL DEF Spec, TrapsNeedNewList

(***************************************************************************)
(* OneCardAtATime: while its list stays, the deck is read article by       *)
(* article.  A swipe shows the next one, bringing back the one before, a   *)
(* block of a request that ended may start again at the first, as a new    *)
(* home does, and nothing else changes the card on top: none is skipped    *)
(* and none is shown again unasked, wherever answers and blocks fall       *)
(* between the swipes (KolodaView.swift:121-125, 408-466, 501-550,         *)
(* 591-645).                                                               *)
(***************************************************************************)
DeckStays == built = topNews /\ UNCHANGED <<built, topNews>>

AtTop == cards[1].at

OneCardAtATime ==
  [][DeckStays /\ cards # <<>> /\ cards' # <<>> =>
       \/ Swipe /\ AtTop' = AtTop + 1
       \/ BringBack /\ AtTop' = AtTop - 1
       \/ (RunBlock \/ home' = home + 1) /\ AtTop' = 0
       \/ AtTop' = AtTop]_vars

\* The card on top of a deck is the article at currentCardIndex.
AtIndex == built = topNews /\ cards # <<>> => AtTop = index

LEMMA TopAtIndex == DeckInv => AtIndex
<1> SUFFICES ASSUME DeckInv, built = topNews, cards # <<>> PROVE AtTop = index
  BY DEF AtIndex
<1>1. TypeOK /\ cards = Deck(index) /\ index \in Nat /\ index <= topNews.len
  BY DEF DeckInv, InWindow, TypeOK
<1>2. Len(cards) \in Nat \ {0} /\ \A k \in 1..Len(cards) : cards[k] = Card(index + k - 1)
  BY <1>1, DeckCards
<1>3. cards[1] = Card(index)
  BY <1>1, <1>2
<1> QED
  BY <1>3 DEF AtTop, Card

THEOREM DeckIsReadInTurn == Spec => OneCardAtATime
<1>1. ASSUME AtIndex, AtIndex', [Next]_vars, DeckStays, cards # <<>>, cards' # <<>>
      PROVE  \/ Swipe /\ AtTop' = AtTop + 1
             \/ BringBack /\ AtTop' = AtTop - 1
             \/ (RunBlock \/ home' = home + 1) /\ AtTop' = 0
             \/ AtTop' = AtTop
  <2>1. AtTop = index /\ AtTop' = index'
    BY <1>1 DEF AtIndex, DeckStays
  <2>2. CASE Swipe
    BY <2>1, <2>2 DEF Swipe
  <2>3. CASE BringBack
    BY <2>1, <2>3 DEF BringBack
  <2>4. CASE RunBlock
    BY <2>1, <2>4 DEF RunBlock, ReloadDeck, ResetDeck, ExtendDeck
  <2>5. ASSUME NEW c \in Country, NEW gone \in BOOLEAN, ReplaceHome(c, gone)
        PROVE  home' = home + 1 /\ AtTop' = 0
    BY <2>1, <2>5 DEF ReplaceHome
  <2>6. ASSUME ~Swipe, ~BringBack, ~RunBlock,
               ~\E c \in Country, gone \in BOOLEAN : ReplaceHome(c, gone)
        PROVE  UNCHANGED index
    <3>1. ASSUME Next PROVE UNCHANGED index
      <4>1. CASE Ask
        BY <2>6, <4>1 DEF Ask, ChangeCountry, PressReload, koloda
      <4>2. CASE MemoryWarning
        BY <4>2 DEF MemoryWarning, koloda
      <4>3. CASE Touch
        BY <2>6, <4>3 DEF Touch
      <4>4. CASE Other
        BY <2>6, <4>4 DEF Other, Answer, LoadFails, Complete, RunBlockOfLeft,
             Release, UseTopCard, koloda
      <4> QED
        BY <3>1, <4>1, <4>2, <4>3, <4>4 DEF Next
    <3> QED
      BY <1>1, <3>1 DEF vars, koloda
  <2> QED
    BY <2>1, <2>2, <2>3, <2>4, <2>5, <2>6
<1> QED
  BY <1>1, TopAtIndex, DeckHolds, PTL DEF Spec, OneCardAtATime

-----------------------------------------------------------------------------
(* A reader who waits for each load.                                       *)

\* A list that a home which was left emptied under the deck.
Emptied == home > 1 /\ topNews = [built EXCEPT !.len = 0]

\* The block that only reloads, that of viewDidLoad, meets a deck at its start.
Fits(b) == b.home = home /\ (b.then = "reload" => index = 0)

OneAtATime ==
  /\ \A r, s \in requests : r = s
  /\ requests # {} => mainQueue = <<>>
  /\ \A r \in requests : r.country = country /\ Fits(r.block)
  /\ \/ mainQueue = <<>> /\ (built = topNews \/ Emptied)
     \/ \E b \in Block : mainQueue = <<b>> /\ Fits(b)
  /\ requests = {} => topNews.country = country

Waits == calm => OneAtATime

\* No block is pending in an empty queue.
LEMMA NothingPending ==
  ASSUME OneAtATime, mainQueue = <<>>
  PROVE  built = topNews \/ Emptied
<1>1. ASSUME NEW b \in Block, mainQueue = <<b>> PROVE FALSE
  <2>1. Len(<<b>>) = 1 /\ Len(<<>>) = 0
    OBVIOUS
  <2> QED
    BY <1>1, <2>1
<1> QED
  BY <1>1 DEF OneAtATime

LEMMA AskWaits ==
  ASSUME TypeOK, Waits, Ask, calm' = (calm /\ Settled), calm'
  PROVE  OneAtATime'
<1>1. /\ calm /\ OneAtATime /\ requests = {} /\ mainQueue = <<>> /\ kept = {}
      /\ built = topNews \/ Emptied
  BY NothingPending DEF Waits, Settled, Answered
<1>2. ASSUME NEW c \in Country, ChangeCountry(c) PROVE OneAtATime'
  <2>1. requests' = {New(1, "reset", c, home)}
    BY <1>1, <1>2 DEF ChangeCountry, Send, Place
  <2>2. /\ country' = c /\ mainQueue' = <<>>
        /\ UNCHANGED <<home, topNews, built, index>>
    BY <1>1, <1>2 DEF ChangeCountry, homes, koloda
  <2>3. \A r \in requests' : r.country = c /\ r.block.home = home
                             /\ r.block.then = "reset"
    BY <2>1 DEF New
  <2> QED
    BY <1>1, <2>1, <2>2, <2>3 DEF OneAtATime, Emptied, Fits
<1>3. ASSUME NEW c \in Country, NEW gone \in BOOLEAN, ReplaceHome(c, gone)
      PROVE  OneAtATime'
  <2>1. requests' = {New(1, "reload", c, home + 1)}
    BY <1>1, <1>3 DEF ReplaceHome, Send
  <2>2. /\ country' = c /\ mainQueue' = <<>> /\ home' = home + 1
        /\ built' = topNews' /\ index' = 0
    BY <1>1, <1>3 DEF ReplaceHome
  <2>3. \A r \in requests' : r.country = c /\ r.block.home = home + 1
    BY <2>1 DEF New
  <2> QED
    BY <2>1, <2>2, <2>3 DEF OneAtATime, Fits
<1>4. CASE PressReload
  <2>1. requests' = {New(1, "resetHide", country, home)}
    BY <1>1, <1>4 DEF PressReload, Send
  <2>2. /\ mainQueue' = <<>>
        /\ UNCHANGED <<country, home, topNews, built, index>>
    BY <1>1, <1>4 DEF PressReload, homes, koloda
  <2>3. \A r \in requests' : r.country = country /\ r.block.home = home
                             /\ r.block.then = "resetHide"
    BY <2>1 DEF New
  <2> QED
    BY <1>1, <2>1, <2>2, <2>3 DEF OneAtATime, Emptied, Fits
<1> QED
  BY <1>2, <1>3, <1>4 DEF Ask

LEMMA CompleteWaits ==
  ASSUME TypeOK, OneAtATime, NEW r \in requests, NEW n \in 0..MaxCards,
         Complete(r, n)
  PROVE  OneAtATime'
<1>1. /\ requests' = {} /\ mainQueue = <<>> /\ r.block \in Block
      /\ r.country = country /\ Fits(r.block)
  BY DEF OneAtATime, Complete, TypeOK, Request
<1>2. /\ mainQueue' = <<r.block>> /\ topNews'.country = r.country
      /\ UNCHANGED <<country, index, home>>
  BY <1>1 DEF Complete, homes, koloda
<1> QED
  BY <1>1, <1>2 DEF OneAtATime, Fits

\* The only block, if any, is one of the home on screen.
LEMMA HeadFits ==
  ASSUME OneAtATime, mainQueue # <<>>
  PROVE  /\ Head(mainQueue).home = home /\ Tail(mainQueue) = <<>>
         /\ Head(mainQueue).then = "reload" => index = 0
         /\ requests = {}
<1>1. PICK b \in Block : mainQueue = <<b>> /\ Fits(b)
  BY DEF OneAtATime
<1>2. Head(mainQueue) = b /\ Tail(mainQueue) = <<>>
  BY <1>1
<1> QED
  BY <1>1, <1>2 DEF OneAtATime, Fits

LEMMA RunWaits ==
  ASSUME OneAtATime, RunBlock
  PROVE  OneAtATime'
<1>1. /\ requests = {} /\ mainQueue' = <<>> /\ ResetDeck
      /\ UNCHANGED <<country, requests, topNews>>
  BY HeadFits DEF RunBlock, ReloadDeck
<1>2. built' = topNews'
  BY <1>1 DEF ResetDeck
<1> QED
  BY <1>1, <1>2 DEF OneAtATime

\* A deck is touched when the first load of its home was shown.
LEMMA TouchWaits ==
  ASSUME TypeOK, OneAtATime, Touch, ~ToOpen
  PROVE  OneAtATime'
<1>1. UNCHANGED <<home, country, requests, mainQueue, topNews, built>>
  BY DEF Touch, Swipe, BringBack, homes
<1>2. ASSUME NEW b \in Block, b.home = home, b # Opening
      PROVE  b.then # "reload"
  BY <1>2 DEF Block, Opening
<1>3. ASSUME NEW r \in requests PROVE Fits(r.block)'
  <2>1. r.block \in Block /\ r.block.home = home /\ r.block # Opening
    BY DEF TypeOK, Request, OneAtATime, Fits, ToOpen
  <2> QED
    BY <1>1, <1>2, <2>1 DEF Fits
<1>4. ASSUME NEW b \in Block, mainQueue = <<b>>, Fits(b) PROVE Fits(b)'
  <2>1. b # Opening
    <3>1. 1 \in DOMAIN mainQueue /\ mainQueue[1] = b
      BY <1>4
    <3> QED
      BY <3>1 DEF ToOpen
  <2> QED
    BY <1>1, <1>2, <1>4, <2>1 DEF Fits
<1> QED
  BY <1>1, <1>3, <1>4 DEF OneAtATime, Emptied

LEMMA ReleaseWaits ==
  ASSUME TypeOK, OneAtATime, NEW h \in kept, Release(h)
  PROVE  OneAtATime'
<1>1. /\ UNCHANGED <<home, country, requests, mainQueue, built, index>>
      /\ topNews' = [topNews EXCEPT !.len = 0]
  BY DEF Release, koloda
<1>2. home > 1
  BY DEF TypeOK
<1>3. topNews'.country = topNews.country
  BY <1>1 DEF TypeOK, List
<1>4. built = topNews \/ Emptied => Emptied'
  <2>1. built \in [load : 0..MaxLoads, country : Country, len : 0..MaxCards]
    BY DEF TypeOK, List
  <2>2. topNews = [built EXCEPT !.len = 0]
          => [topNews EXCEPT !.len = 0] = [built EXCEPT !.len = 0]
    BY <2>1
  <2> QED
    BY <1>1, <1>2, <2>2 DEF Emptied
<1> QED
  BY <1>1, <1>3, <1>4 DEF OneAtATime, Fits

LEMMA WaitsHolds == Spec => []Waits
<1>1. Init => Waits
  BY DEF Init, Waits, OneAtATime, Fits, Opening
<1>2. ASSUME TypeOK, Waits, [Next]_vars PROVE Waits'
  <2> SUFFICES ASSUME calm' PROVE OneAtATime'
    BY DEF Waits
  <2>1. CASE Ask /\ calm' = (calm /\ Settled)
    BY <1>2, <2>1, AskWaits
  <2>2. CASE Touch /\ calm' = (calm /\ ~ToOpen)
    BY <1>2, <2>2, TouchWaits DEF Waits
  <2>3. CASE Other /\ UNCHANGED calm
    <3>1. OneAtATime
      BY <1>2, <2>3 DEF Waits
    <3>2. ASSUME NEW r \in requests, Answer(r) \/ LoadFails(r)
          PROVE  OneAtATime'
      BY <1>2, <3>1, <3>2, CompletionIsComplete, CompleteWaits
    <3>3. ASSUME NEW h \in kept, Release(h) PROVE OneAtATime'
      BY <1>2, <3>1, <3>3, ReleaseWaits
    <3>4. ~RunBlockOfLeft
      BY <3>1, HeadFits DEF RunBlockOfLeft
    <3>5. CASE UseTopCard
      BY <3>1, <3>5 DEF UseTopCard, OneAtATime, Fits, Emptied, homes, koloda
    <3> QED
      BY <2>3, <3>1, <3>2, <3>3, <3>4, <3>5, RunWaits DEF Other
  <2>4. CASE UNCHANGED vars
    BY <1>2, <2>4 DEF vars, homes, koloda, Waits, OneAtATime, Fits, Emptied
  <2> QED
    BY <1>2, <2>1, <2>2, <2>3, <2>4 DEF Next
<1> QED
  BY <1>1, <1>2, CardTypes, PTL DEF Spec

(***************************************************************************)
(* PatientReadersDeck: for a reader who waits for each load, through any   *)
(* number of homes, the deck is of the list as soon as no block is         *)
(* pending; a home that was left only empties that list under it           *)
(* (FlashCardsViewController.swift:28, 37, 56, 225).                       *)
(***************************************************************************)
THEOREM PatientReadersDeck == Spec => []DeckIsCurrent
<1>1. Waits => DeckIsCurrent
  BY NothingPending DEF Waits, Emptied, DeckIsCurrent
<1> QED
  BY <1>1, WaitsHolds, PTL

(***************************************************************************)
(* PatientReadersCountry: when nothing is in flight such a reader's news   *)
(* are those of the country in the title                                   *)
(* (FlashCardsViewController.swift:163-166, 218-226).                      *)
(***************************************************************************)
THEOREM PatientReadersCountry == Spec => []NewsOfCountry
<1>1. Waits => NewsOfCountry
  BY DEF Waits, OneAtATime, NewsOfCountry, Answered
<1> QED
  BY <1>1, WaitsHolds, PTL
=============================================================================

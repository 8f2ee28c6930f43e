--------------------------- MODULE ForYouFeedProofs ---------------------------
(***************************************************************************)
(* Proofs about ForYouFeed, for all interests, languages and bounds:       *)
(* types, that the table catches up and the spinner has an answer for      *)
(* every reader, and what a reader who waits sees.                         *)
(***************************************************************************)
EXTENDS ForYouFeed, TLAPS, SequenceTheorems

-----------------------------------------------------------------------------
(* Types.                                                                  *)

\* What getAllNews may be called for.
Asked == [interests : Interest \union {Unset}, language : Language \union {Unset}]

LEMMA WantedType ==
  ASSUME NEW i \in Interest \union {Unset}, NEW l \in Language \union {Unset}
  PROVE  Wanted(i, l) \in Asked
BY DEF Wanted, Asked

LEMMA CallType ==
  ASSUME TypeOK, NEW kind \in {"refresh", "page"}, NEW wishes \in Seq(Asked),
         NEW p \in Nat, GetAllNews(kind, wishes, p)
  PROVE  sends' \in Nat /\ requests' \subseteq Request
<1>1. Len(wishes) \in Nat /\ sends \in Nat /\ requests \subseteq Request
  BY DEF TypeOK
<1>2. ASSUME NEW k \in 1..Len(wishes), wishes[k].interests # Unset
      PROVE  [kind |-> kind, wish |-> wishes[k], page |-> p, nr |-> sends + k,
              live |-> TRUE] \in Request
  <2>1. wishes[k] \in Asked
    BY ElementOfSeq
  <2>2. wishes[k] \in Wish
    BY <1>2, <2>1 DEF Asked, Wish
  <2> QED
    BY <1>1, <2>2 DEF Request
<1> QED
  BY <1>1, <1>2 DEF GetAllNews

LEMMA OneCallType ==
  ASSUME TypeOK, NEW kind \in {"refresh", "page"}, NEW p \in Nat,
         NEW w \in Asked, GetAllNews(kind, <<w>>, p)
  PROVE  sends' \in Nat /\ requests' \subseteq Request
<1>1. <<w>> \in Seq(Asked)
  OBVIOUS
<1> QED
  BY <1>1, CallType

LEMMA ObserveType ==
  ASSUME TypeOK, NEW wishes \in Seq(Asked), Observe(wishes),
         interests' \in Interest \union {Unset},
         language' \in Language \union {Unset}, calm' \in BOOLEAN
  PROVE  TypeOK'
<1>1. CASE open /\ wishes # <<>>
  <2>1. sends' \in Nat /\ requests' \subseteq Request
    BY <1>1, CallType DEF Observe
  <2> QED
    BY <1>1, <2>1 DEF Observe, GetAllNews, TypeOK, past
<1>2. CASE ~(open /\ wishes # <<>>)
  BY <1>2 DEF Observe, TypeOK, past, net
<1> QED
  BY <1>1, <1>2

\* What the three stores tell the observer.
LEMMA StoreWishes ==
  ASSUME TypeOK
  PROVE  /\ \A i \in Interest, told \in BOOLEAN :
              (IF told /\ language # Unset
               THEN <<Wanted(i, language)>> ELSE <<>>) \in Seq(Asked)
         /\ \A l \in Language, told \in BOOLEAN :
              (IF told /\ interests # Unset
               THEN <<Wanted(interests, l)>> ELSE <<>>) \in Seq(Asked)
         /\ \A i \in Interest, l \in Language, first, second \in BOOLEAN :
              ((IF first /\ language # Unset
                THEN <<Wanted(i, language)>> ELSE <<>>)
               \o (IF second THEN <<Wanted(i, l)>> ELSE <<>>)) \in Seq(Asked)
<1>1. /\ \A i \in Interest : Wanted(i, language) \in Asked
      /\ \A l \in Language : Wanted(interests, l) \in Asked
      /\ \A i \in Interest, l \in Language : Wanted(i, l) \in Asked
  BY WantedType DEF TypeOK
<1>2. <<>> \in Seq(Asked) /\ \A w \in Asked : <<w>> \in Seq(Asked)
  OBVIOUS
<1>3. \A s, t \in Seq(Asked) : s \o t \in Seq(Asked)
  OBVIOUS
<1> QED
  BY <1>1, <1>2, <1>3

LEMMA ToldIsBoolean == \A old, new : Told(old, new) \subseteq BOOLEAN
BY DEF Told

LEMMA StoreType == TypeOK /\ (Store \/ SignIn) /\ calm' \in BOOLEAN => TypeOK'
<1> SUFFICES ASSUME TypeOK, Store \/ SignIn, calm' \in BOOLEAN PROVE TypeOK'
  OBVIOUS
<1>1. ASSUME NEW i \in Interest, StoreInterests(i) PROVE TypeOK'
  <2>1. PICK told \in BOOLEAN :
           Observe(IF told /\ language # Unset
                   THEN <<Wanted(i, language)>> ELSE <<>>)
    BY <1>1, ToldIsBoolean DEF StoreInterests
  <2>2. (IF told /\ language # Unset
         THEN <<Wanted(i, language)>> ELSE <<>>) \in Seq(Asked)
    BY StoreWishes
  <2>3. interests' \in Interest \union {Unset} /\ language' \in Language \union {Unset}
    BY <1>1 DEF StoreInterests, TypeOK
  <2> QED
    BY <2>1, <2>2, <2>3, ObserveType
<1>2. ASSUME NEW l \in Language, StoreLanguage(l) PROVE TypeOK'
  <2>1. PICK told \in BOOLEAN :
           Observe(IF told /\ interests # Unset
                   THEN <<Wanted(interests, l)>> ELSE <<>>)
    BY <1>2, ToldIsBoolean DEF StoreLanguage
  <2>2. (IF told /\ interests # Unset
         THEN <<Wanted(interests, l)>> ELSE <<>>) \in Seq(Asked)
    BY StoreWishes
  <2>3. interests' \in Interest \union {Unset} /\ language' \in Language \union {Unset}
    BY <1>2 DEF StoreLanguage, TypeOK
  <2> QED
    BY <2>1, <2>2, <2>3, ObserveType
<1>3. ASSUME NEW i \in Interest, NEW l \in Language, LoginStores(i, l)
      PROVE  TypeOK'
  <2>1. PICK first \in BOOLEAN, second \in BOOLEAN :
           Observe((IF first /\ language # Unset
                    THEN <<Wanted(i, language)>> ELSE <<>>)
                   \o (IF second THEN <<Wanted(i, l)>> ELSE <<>>))
    BY <1>3, ToldIsBoolean DEF LoginStores
  <2>2. ((IF first /\ language # Unset
          THEN <<Wanted(i, language)>> ELSE <<>>)
         \o (IF second THEN <<Wanted(i, l)>> ELSE <<>>)) \in Seq(Asked)
    BY StoreWishes
  <2>3. interests' \in Interest \union {Unset} /\ language' \in Language \union {Unset}
    BY <1>3 DEF LoginStores, TypeOK
  <2> QED
    BY <2>1, <2>2, <2>3, ObserveType
<1> QED
  BY <1>1, <1>2, <1>3 DEF Store, SignIn

LEMMA AskType == TypeOK /\ Ask /\ calm' \in BOOLEAN => TypeOK'
<1> SUFFICES ASSUME TypeOK, Ask, calm' \in BOOLEAN PROVE TypeOK'
  OBVIOUS
<1>u. interests \in Interest \union {Unset} /\ language \in Language \union {Unset}
  BY DEF TypeOK
<1>v. page \in Nat /\ page + 1 \in Nat \ {0}
  BY DEF TypeOK
<1>w. Wanted(interests, language) \in Asked
  BY <1>u, WantedType
<1>1. CASE OpenTab
  <2>1. sends' \in Nat /\ requests' \subseteq Request
    BY <1>1, <1>v, <1>w, OneCallType DEF OpenTab
  <2>2. Len(allNews) \in Nat
    BY DEF TypeOK
  <2> QED
    BY <1>1, <2>1, <2>2 DEF OpenTab, GetAllNews, TypeOK, keys, past
<1>2. CASE LeaveHome
  <2>1. requests' \subseteq Request
    <3>1. requests' = Dead(requests)
      BY <1>2 DEF LeaveHome
    <3>2. ASSUME NEW r \in Request PROVE [r EXCEPT !.live = FALSE] \in Request
      BY DEF Request
    <3>3. requests \subseteq Request
      BY DEF TypeOK
    <3> QED
      BY <3>1, <3>2, <3>3 DEF Dead
  <2>2. appending' \subseteq Growth
    <3>1. appending' = Dead(appending)
      BY <1>2 DEF LeaveHome
    <3> QED
      BY <3>1 DEF Dead, TypeOK, Growth
  <2>3. mainQueue' \in Seq(Block)
    <3>1. ASSUME NEW k \in 1..Len(mainQueue)
          PROVE  [mainQueue[k] EXCEPT !.live = FALSE] \in Block
      <4>1. mainQueue[k] \in Block
        BY ElementOfSeq DEF TypeOK
      <4> QED
        BY <4>1 DEF Block
    <3>2. Len(mainQueue) \in Nat
      BY DEF TypeOK
    <3> QED
      BY <1>2, <3>1, <3>2 DEF LeaveHome
  <2>4. allNews' \in Seq(Article)
    BY <1>2 DEF LeaveHome
  <2>5. bookmarks' \subseteq BOOLEAN
    BY <1>2 DEF LeaveHome
  <2> QED
    <3>1. /\ interests' = interests /\ language' = language /\ found' = found
          /\ sends' = sends /\ trapped' = trapped
          /\ open' = FALSE /\ page' = 1 /\ keepLoading' = TRUE
          /\ rows' = 0 /\ refreshing' = FALSE
          /\ wiped' = FALSE /\ lost' = FALSE /\ ignored' = FALSE
      BY <1>2 DEF LeaveHome, keys
    <3>2. page' \in Nat \ {0} /\ rows' \in Nat
      BY <3>1
    <3>3. /\ open' \in BOOLEAN /\ keepLoading' \in BOOLEAN
          /\ refreshing' \in BOOLEAN /\ wiped' \in BOOLEAN
          /\ lost' \in BOOLEAN /\ ignored' \in BOOLEAN
      BY <3>1
    <3> QED
      BY <2>1, <2>2, <2>3, <2>4, <2>5, <3>1, <3>2, <3>3 DEF TypeOK
<1>3. CASE PullRefresh
  <2>1. sends' \in Nat /\ requests' \subseteq Request
    BY <1>3, <1>w, OneCallType DEF PullRefresh
  <2> QED
    BY <1>3, <2>1 DEF PullRefresh, GetAllNews, TypeOK, keys
<1>4. CASE DrawLoading
  <2>1. sends' \in Nat /\ requests' \subseteq Request
    BY <1>4, <1>v, <1>w, OneCallType DEF DrawLoading
  <2> QED
    BY <1>4, <1>v, <2>1 DEF DrawLoading, GetAllNews, TypeOK, keys, past
<1>5. CASE DrawMissing
  BY <1>5 DEF DrawMissing, TypeOK, keys, table, net, past
<1>6. ASSUME NEW row \in 0..(rows - 1), SelectRow(row) PROVE TypeOK'
  BY <1>6 DEF SelectRow, TypeOK, keys, table, net
<1>7. ASSUME NEW row \in 0..(rows - 1), SaveRow(row) PROVE TypeOK'
  BY <1>7 DEF SaveRow, TypeOK, keys, table, past
<1> QED
  BY <1>1, <1>2, <1>3, <1>4, <1>5, <1>6, <1>7 DEF Ask

LEMMA NewsType ==
  ASSUME NEW r \in Request, NEW n \in 0..MaxArticles
  PROVE  News(r, n) \in Seq(Article)
<1>1. n \in Nat /\ [wish |-> r.wish, page |-> r.page] \in Article
  BY FeedAssumption DEF Request, Article
<1> DEFINE art == [wish |-> r.wish, page |-> r.page]
<1> HIDE DEF art
<1>2. [k \in 1..n |-> art] \in Seq(Article)
  BY <1>1 DEF art
<1> QED
  BY <1>2 DEF art, News

LEMMA QueueType ==
  ASSUME TypeOK, NEW ends \in BOOLEAN, NEW live \in BOOLEAN
  PROVE  Append(mainQueue, [ends |-> ends, live |-> live]) \in Seq(Block)
<1>1. [ends |-> ends, live |-> live] \in Block
  BY DEF Block
<1> QED
  BY <1>1 DEF TypeOK

LEMMA AnswerType ==
  ASSUME TypeOK, UNCHANGED calm \/ calm' = FALSE, NEW r \in requests,
         (\E n \in 0..MaxArticles : Refreshed(r, n) \/ PageArrives(r, n))
           \/ RequestFails(r)
  PROVE  TypeOK'
<1>1. requests' \subseteq Request /\ r \in Request
  BY DEF Refreshed, PageArrives, RequestFails, Arrives, TypeOK
<1>2. ASSUME NEW n \in 0..MaxArticles, Refreshed(r, n) PROVE TypeOK'
  <2>1. News(r, n) \in Seq(Article)
    BY <1>1, NewsType
  <2>2. Append(mainQueue, [ends |-> TRUE, live |-> TRUE]) \in Seq(Block)
    BY QueueType
  <2> QED
    BY <1>1, <1>2, <2>1, <2>2 DEF Refreshed, Arrives, Orphan, TypeOK, keys
<1>3. ASSUME NEW n \in 0..MaxArticles, PageArrives(r, n) PROVE TypeOK'
  <2>1. News(r, n) \in Seq(Article) /\ allNews \in Seq(Article)
    BY <1>1, NewsType DEF TypeOK
  <2>2. r.live => appending' \subseteq Growth
    <3>1. [base |-> allNews, news |-> News(r, n), live |-> TRUE] \in Growth
      BY <2>1 DEF Growth
    <3> QED
      BY <1>3, <3>1 DEF PageArrives
  <2> QED
    <3>1. CASE r.live
      BY <1>1, <1>3, <2>2, <3>1 DEF PageArrives, Arrives, TypeOK, keys
    <3>2. CASE ~r.live
      BY <1>1, <1>3, <3>2 DEF PageArrives, Arrives, Orphan, TypeOK, keys
    <3> QED
      BY <3>1, <3>2
<1>4. CASE RequestFails(r)
  BY <1>1, <1>4 DEF RequestFails, Arrives, Orphan, TypeOK, keys
<1> QED
  BY <1>2, <1>3, <1>4

LEMMA MishapType == TypeOK /\ Mishap /\ calm' = FALSE => TypeOK'
<1> SUFFICES ASSUME TypeOK, Mishap, calm' = FALSE PROVE TypeOK'
  OBVIOUS
<1>1. CASE MemoryWarning
  <2>1. allNews' \in Seq(Article)
    BY <1>1 DEF MemoryWarning
  <2> QED
    BY <1>1, <2>1 DEF MemoryWarning, TypeOK, keys, table, net
<1> QED
  BY <1>1, AnswerType DEF Mishap

LEMMA OtherType == TypeOK /\ Other /\ UNCHANGED calm => TypeOK'
<1> SUFFICES ASSUME TypeOK, Other, UNCHANGED calm PROVE TypeOK'
  OBVIOUS
<1>1. CASE PageAppended
  <2>1. PICK a \in appending :
           /\ allNews' = a.base \o a.news
           /\ mainQueue' = Append(mainQueue, [ends |-> FALSE, live |-> a.live])
    BY <1>1 DEF PageAppended
  <2>2. a.base \in Seq(Article) /\ a.news \in Seq(Article) /\ a.live \in BOOLEAN
    BY DEF TypeOK, Growth
  <2>3. mainQueue' \in Seq(Block)
    BY <2>1, <2>2, QueueType
  <2>4. allNews' \in Seq(Article)
    BY <2>1, <2>2
  <2> QED
    BY <1>1, <2>3, <2>4 DEF PageAppended, TypeOK, keys, table, past
<1>2. CASE RunBlock
  <2>1. mainQueue' \in Seq(Block) /\ Len(allNews) \in Nat
    BY <1>2 DEF RunBlock, TypeOK
  <2> QED
    BY <1>2, <2>1 DEF RunBlock, TypeOK, keys
<1>3. CASE SignOut
  BY <1>3 DEF SignOut, TypeOK, table, net, past
<1>4. ASSUME NEW n \in 0..MaxFound, SearchShows(n) PROVE TypeOK'
  BY <1>4, FeedAssumption DEF SearchShows, TypeOK, table, net, past
<1>5. ASSUME NEW live \in bookmarks, BookmarkAnswered(live) PROVE TypeOK'
  BY <1>5 DEF BookmarkAnswered, TypeOK, keys, table, past
<1> QED
  BY <1>1, <1>2, <1>3, <1>4, <1>5, AnswerType DEF Other

LEMMA InitType == Init => TypeOK
<1> SUFFICES ASSUME Init PROVE TypeOK
  OBVIOUS
<1>1. allNews \in Seq(Article) /\ mainQueue \in Seq(Block)
  BY DEF Init
<1>2. requests \subseteq Request /\ appending \subseteq Growth /\ bookmarks \subseteq BOOLEAN
  BY DEF Init
<1>3. /\ found \in Nat /\ rows \in Nat /\ sends \in Nat
      /\ page \in Nat \ {0}
  BY DEF Init
<1>4. /\ open \in BOOLEAN /\ keepLoading \in BOOLEAN /\ refreshing \in BOOLEAN
      /\ trapped \in BOOLEAN /\ wiped \in BOOLEAN /\ lost \in BOOLEAN
      /\ ignored \in BOOLEAN /\ calm \in BOOLEAN
  BY DEF Init
<1>5. interests \in Interest \union {Unset} /\ language \in Language \union {Unset}
  BY DEF Init
<1> QED
  BY <1>1, <1>2, <1>3, <1>4, <1>5 DEF TypeOK

(***************************************************************************)
(* ForYouTypes: every state of the feed is well typed.                     *)
(***************************************************************************)
THEOREM ForYouTypes == Spec => []TypeOK
<1>1. TypeOK /\ [Next]_vars => TypeOK'
  <2> SUFFICES ASSUME TypeOK, [Next]_vars PROVE TypeOK'
    OBVIOUS
  <2>1. Answered \in BOOLEAN /\ (language = Unset) \in BOOLEAN /\ calm \in BOOLEAN
    BY DEF Answered, Settled, TypeOK
  <2>2. CASE (Ask \/ Store) /\ calm' = (calm /\ Answered)
    BY <2>1, <2>2, AskType, StoreType
  <2>4. CASE SignIn /\ calm' = (calm /\ Answered /\ language = Unset)
    BY <2>1, <2>4, StoreType
  <2>3. CASE UNCHANGED vars
    BY <2>3 DEF vars, keys, table, net, past, TypeOK
  <2> QED
    BY <2>2, <2>3, <2>4, MishapType, OtherType DEF Next
<1> QED
  BY <1>1, InitType, PTL DEF Spec

-----------------------------------------------------------------------------
(* What holds for every reader.                                            *)

LEMMA QueueGrows ==
  ASSUME NEW q \in Seq(Block), NEW b \in Block
  PROVE  /\ Append(q, b) # <<>>
         /\ Len(Append(q, b)) = Len(q) + 1
         /\ Append(q, b)[Len(q) + 1] = b
         /\ \A k \in 1..Len(q) : Append(q, b)[k] = q[k]
OBVIOUS

LEMMA CatchesUpStep == TypeOK /\ FeedCatchesUp /\ Next => FeedCatchesUp'
<1> SUFFICES ASSUME TypeOK, FeedCatchesUp, Next,
                    open', appending' = {}, mainQueue' = <<>>, ~wiped', ~trapped'
             PROVE  rows' = Len(allNews')
  BY DEF FeedCatchesUp
<1>1. CASE Ask
  <2>1. CASE OpenTab
    BY <2>1 DEF OpenTab
  <2>2. CASE ~OpenTab
    BY <1>1, <2>2 DEF Ask, FeedCatchesUp, LeaveHome, PullRefresh, DrawLoading,
      DrawMissing, SelectRow, SaveRow, GetAllNews, keys, table, net, past, Next
  <2> QED
    BY <2>1, <2>2
<1>2. CASE Store \/ SignIn
  <2>1. PICK wishes : Observe(wishes)
    BY <1>2 DEF Store, SignIn, StoreInterests, StoreLanguage, LoginStores
  <2> QED
    BY <2>1 DEF Observe, GetAllNews, FeedCatchesUp, net, past
<1>3. ASSUME NEW r \in requests, RequestFails(r) PROVE rows' = Len(allNews')
  BY <1>3 DEF RequestFails, Arrives, Orphan, FeedCatchesUp, Next
<1>4. CASE MemoryWarning
  BY <1>4 DEF MemoryWarning
<1>5. ASSUME NEW r \in requests, NEW n \in 0..MaxArticles, Refreshed(r, n)
      PROVE  rows' = Len(allNews')
  <2>1. [ends |-> TRUE, live |-> TRUE] \in Block
    BY DEF Block
  <2> QED
    BY <1>5, <2>1, QueueGrows DEF Refreshed, Orphan, TypeOK
<1>6. ASSUME NEW r \in requests, NEW n \in 0..MaxArticles, PageArrives(r, n)
      PROVE  rows' = Len(allNews')
  BY <1>6 DEF PageArrives, Orphan
<1>7. CASE PageAppended
  <2>1. PICK a \in appending :
          mainQueue' = Append(mainQueue, [ends |-> FALSE, live |-> a.live])
    BY <1>7 DEF PageAppended
  <2>2. [ends |-> FALSE, live |-> a.live] \in Block
    BY DEF Block, TypeOK, Growth
  <2> QED
    BY <2>1, <2>2, QueueGrows DEF TypeOK
<1>8. CASE RunBlock
  BY <1>8 DEF RunBlock
<1>9. ASSUME SignOut \/ \E n \in 0..MaxFound : SearchShows(n)
      PROVE  rows' = Len(allNews')
  BY <1>9 DEF SignOut, SearchShows, FeedCatchesUp, table, net, past
<1>10. ASSUME NEW live \in bookmarks, BookmarkAnswered(live) PROVE rows' = Len(allNews')
  BY <1>10 DEF BookmarkAnswered, FeedCatchesUp, table, past, Next
<1> QED
  BY <1>1, <1>2, <1>3, <1>4, <1>5, <1>6, <1>7, <1>8, <1>9, <1>10 DEF Next, Mishap, Other

(***************************************************************************)
(* ForYouCatchesUp: when nothing is on its way into the table, its rows    *)
(* are those of the list, or the list was emptied under it.                *)
(***************************************************************************)
THEOREM ForYouCatchesUp == Spec => []FeedCatchesUp
<1>1. Init => FeedCatchesUp
  BY DEF Init, FeedCatchesUp
<1>2. TypeOK /\ FeedCatchesUp /\ [Next]_vars => FeedCatchesUp'
  <2>1. FeedCatchesUp /\ UNCHANGED vars => FeedCatchesUp'
    BY DEF FeedCatchesUp, vars, table, net, past
  <2> QED
    BY <2>1, CatchesUpStep
<1> QED
  BY <1>1, <1>2, ForYouTypes, PTL DEF Spec

Answer ==
  \/ \E r \in requests : r.kind = "refresh" /\ r.live
  \/ \E k \in 1..Len(mainQueue) : mainQueue[k].ends /\ mainQueue[k].live

LEMMA AnswerStays ==
  ASSUME Answer, requests \subseteq requests',
         UNCHANGED mainQueue
  PROVE  Answer'
BY DEF Answer

LEMMA AnswerQueued ==
  ASSUME TypeOK, NEW b \in Block, mainQueue' = Append(mainQueue, b)
  PROVE  /\ b.ends /\ b.live => Answer'
         /\ Answer /\ UNCHANGED requests => Answer'
<1>1. mainQueue \in Seq(Block) /\ Len(mainQueue) \in Nat
  BY DEF TypeOK
<1>2. /\ Len(mainQueue') = Len(mainQueue) + 1
      /\ mainQueue'[Len(mainQueue) + 1] = b
      /\ \A k \in 1..Len(mainQueue) : mainQueue'[k] = mainQueue[k]
  BY <1>1, QueueGrows
<1>3. b.ends /\ b.live => Answer'
  BY <1>1, <1>2 DEF Answer
<1>4. Answer /\ UNCHANGED requests => Answer'
  BY <1>1, <1>2 DEF Answer
<1> QED
  BY <1>3, <1>4

LEMMA SpinnerStep == TypeOK /\ SpinnerHasAnswer /\ Next => SpinnerHasAnswer'
<1> SUFFICES ASSUME TypeOK, SpinnerHasAnswer, Next, refreshing', ~lost'
             PROVE  Answer'
  BY DEF SpinnerHasAnswer, Answer
<1>a. refreshing /\ ~lost => Answer
  BY DEF SpinnerHasAnswer, Answer
<1>1. CASE Ask
  <2>1. CASE PullRefresh
    <3> DEFINE w == <<Wanted(interests, language)>>
    <3>1. w[1] = Wanted(interests, language) /\ Len(w) = 1
      OBVIOUS
    <3>2. w[1].interests # Unset
      BY <2>1, <3>1 DEF PullRefresh, Wanted
    <3>3. GetAllNews("refresh", w, 1)
      BY <2>1 DEF PullRefresh
    <3> HIDE DEF w
    <3>4. 1 \in {n \in 1..Len(w) : w[n].interests # Unset}
      BY <3>1, <3>2
    <3>5. [kind |-> "refresh", wish |-> w[1], page |-> 1, nr |-> sends + 1,
           live |-> TRUE] \in requests'
      BY <3>3, <3>4 DEF GetAllNews
    <3> QED
      BY <3>5 DEF Answer
  <2>2. CASE ~PullRefresh
    <3>1. ~LeaveHome
      BY DEF LeaveHome
    <3>2. /\ UNCHANGED <<refreshing, lost, mainQueue>>
          /\ requests \subseteq requests'
      <4>1. CASE OpenTab
        BY <4>1 DEF OpenTab, GetAllNews, past
      <4>2. CASE DrawLoading
        BY <4>2 DEF DrawLoading, GetAllNews, past
      <4>3. CASE DrawMissing
        BY <4>3 DEF DrawMissing, table, net, past
      <4>4. ASSUME NEW row \in 0..(rows - 1), SelectRow(row)
            PROVE  /\ UNCHANGED <<refreshing, lost, mainQueue>>
                   /\ requests \subseteq requests'
        BY <4>4 DEF SelectRow, table, net
      <4>5. ASSUME NEW row \in 0..(rows - 1), SaveRow(row)
            PROVE  /\ UNCHANGED <<refreshing, lost, mainQueue>>
                   /\ requests \subseteq requests'
        BY <4>5 DEF SaveRow, table, past
      <4> QED
        BY <1>1, <2>2, <3>1, <4>1, <4>2, <4>3, <4>4, <4>5 DEF Ask
    <3> QED
      BY <1>a, <3>2, AnswerStays
  <2> QED
    BY <2>1, <2>2
<1>2. CASE Store \/ SignIn
  <2>1. PICK wishes : Observe(wishes)
    BY <1>2 DEF Store, SignIn, StoreInterests, StoreLanguage, LoginStores
  <2> QED
    BY <1>a, <2>1, AnswerStays DEF Observe, GetAllNews, net, past
<1>3. ASSUME NEW r \in requests, RequestFails(r) PROVE Answer'
  <2>1. /\ requests' = requests \ {r} /\ UNCHANGED mainQueue
        /\ refreshing /\ ~lost /\ ~(r.live /\ r.kind = "refresh")
    BY <1>3 DEF RequestFails, Arrives, Orphan
  <2> QED
    BY <1>a, <2>1 DEF Answer
<1>4. CASE MemoryWarning
  BY <1>4, <1>a, AnswerStays DEF MemoryWarning, table, net
<1>5. ASSUME NEW r \in requests, NEW n \in 0..MaxArticles, Refreshed(r, n)
      PROVE  Answer'
  <2>1. CASE r.live
    <3>1. [ends |-> TRUE, live |-> TRUE] \in Block
      BY DEF Block
    <3> QED
      BY <1>5, <2>1, <3>1, AnswerQueued DEF Refreshed
  <2>2. CASE ~r.live
    BY <1>5, <1>a, <2>2 DEF Refreshed, Arrives, Orphan, Answer
  <2> QED
    BY <2>1, <2>2
<1>6. ASSUME NEW r \in requests, NEW n \in 0..MaxArticles, PageArrives(r, n)
      PROVE  Answer'
  BY <1>6, <1>a DEF PageArrives, Arrives, Orphan, Answer
<1>7. CASE PageAppended
  <2>1. PICK a \in appending :
          mainQueue' = Append(mainQueue, [ends |-> FALSE, live |-> a.live])
    BY <1>7 DEF PageAppended
  <2>2. [ends |-> FALSE, live |-> a.live] \in Block
    BY DEF Block, TypeOK, Growth
  <2>3. UNCHANGED <<requests, refreshing, lost>>
    BY <1>7 DEF PageAppended, table, past
  <2> QED
    BY <1>a, <2>1, <2>2, <2>3, AnswerQueued
<1>8. CASE RunBlock
  <2>1. /\ UNCHANGED <<requests, lost>> /\ refreshing
        /\ mainQueue # <<>> /\ mainQueue' = Tail(mainQueue)
        /\ ~(Head(mainQueue).ends /\ Head(mainQueue).live)
    BY <1>8 DEF RunBlock
  <2>2. CASE \E r \in requests : r.kind = "refresh" /\ r.live
    BY <2>1, <2>2 DEF Answer
  <2>3. ASSUME NEW k \in 1..Len(mainQueue), mainQueue[k].ends, mainQueue[k].live
        PROVE  Answer'
    <3>1. mainQueue \in Seq(Block)
      BY DEF TypeOK
    <3>2. k # 1
      BY <2>1, <2>3, <3>1
    <3>3. k - 1 \in 1..Len(mainQueue') /\ mainQueue'[k - 1] = mainQueue[k]
      BY <2>1, <3>1, <3>2
    <3> QED
      BY <2>3, <3>3 DEF Answer
  <2> QED
    BY <1>a, <2>1, <2>2, <2>3 DEF Answer
<1>9. ASSUME SignOut \/ (\E n \in 0..MaxFound : SearchShows(n))
               \/ \E live \in bookmarks : BookmarkAnswered(live)
      PROVE  Answer'
  <2>1. UNCHANGED <<refreshing, lost, requests, mainQueue>>
    BY <1>9 DEF SignOut, SearchShows, BookmarkAnswered, table, net, past
  <2> QED
    BY <1>a, <2>1, AnswerStays
<1> QED
  BY <1>1, <1>2, <1>3, <1>4, <1>5, <1>6, <1>7, <1>8, <1>9 DEF Next, Mishap, Other

(***************************************************************************)
(* ForYouSpinner: the refresh control spins only while its answer is on    *)
(* the way, unless the refresh failed or was not sent.                     *)
(***************************************************************************)
THEOREM ForYouSpinner == Spec => []SpinnerHasAnswer
<1>1. Init => SpinnerHasAnswer
  BY DEF Init, SpinnerHasAnswer
<1>2. TypeOK /\ SpinnerHasAnswer /\ [Next]_vars => SpinnerHasAnswer'
  <2>1. SpinnerHasAnswer /\ UNCHANGED vars => SpinnerHasAnswer'
    BY DEF SpinnerHasAnswer, vars, table, net, past
  <2> QED
    BY <2>1, SpinnerStep
<1> QED
  BY <1>1, <1>2, ForYouTypes, PTL DEF Spec

-----------------------------------------------------------------------------
(* What a reader who waits sees.                                           *)

\* The wish is the one that is stored, if both keys are.
Current(w) ==
  interests # Unset /\ language # Unset => w = Wanted(interests, language)

\* At most one answer is on its way, to a controller that exists.
OneAnswer ==
  /\ \A r, s \in requests : r = s
  /\ \A a, b \in appending : a = b
  /\ requests # {} => appending = {} /\ mainQueue = <<>>
  /\ appending # {} => mainQueue = <<>>
  /\ Len(mainQueue) <= 1
  /\ \A r \in requests : r.live
  /\ \A a \in appending : a.live
  /\ mainQueue # <<>> => Head(mainQueue).live

\* What is asked for and what is shown.
Answers ==
  /\ \A r \in requests : /\ r.page = 1 /\ Current(r.wish)
                         /\ r.kind = "page" => allNews = <<>>
  /\ \A a \in appending :
       /\ a.base = <<>>
       /\ \A k \in 1..Len(a.news) : a.news[k].page = 1 /\ Current(a.news[k].wish)

Shown ==
  \A k \in 1..Len(allNews) : /\ allNews[k].page = 1
                             /\ requests = {} /\ appending = {} =>
                                  Current(allNews[k].wish)

Closed == ~open => Settled /\ allNews = <<>> /\ page = 1

\* A bookmark call is answered on the controller that made it.
Reached == FALSE \notin bookmarks

\* What holds while the reader is calm.
Calm == /\ ~trapped /\ ~wiped
        /\ OneAnswer /\ Answers /\ Shown /\ Closed /\ FeedCatchesUp

Steady == calm => Calm /\ Reached

\* A call for one wish by a reader who waited.
LEMMA CallOfSettled ==
  ASSUME Settled, NEW w, NEW kind, GetAllNews(kind, <<w>>, 1)
  PROVE  /\ appending' = {} /\ mainQueue' = <<>>
         /\ \A r \in requests' :
              r = [kind |-> kind, wish |-> w, page |-> 1, nr |-> sends + 1,
                   live |-> TRUE]
         /\ w.interests # Unset => requests' # {}
<1> DEFINE ws == <<w>>
<1>1. Len(ws) = 1 /\ ws[1] = w
  OBVIOUS
<1>2. GetAllNews(kind, ws, 1)
  OBVIOUS
<1> HIDE DEF ws
<1> DEFINE ks == {n \in 1..Len(ws) : ws[n].interests # Unset}
<1>3. \A k \in ks : k = 1
  BY <1>1
<1>4. requests' = {[kind |-> kind, wish |-> ws[k], page |-> 1, nr |-> sends + k,
                    live |-> TRUE] : k \in ks}
  BY <1>2 DEF GetAllNews, Settled
<1>5. w.interests # Unset => 1 \in ks
  BY <1>1
<1> HIDE DEF ks
<1>6. appending' = {} /\ mainQueue' = <<>>
  BY <1>2 DEF GetAllNews, Settled
<1> QED
  BY <1>1, <1>3, <1>4, <1>5, <1>6

\* So there is one answer on its way, for the first page.
LEMMA OneAnswerOfCall ==
  ASSUME NEW w, NEW kind, NEW nr, appending' = {}, mainQueue' = <<>>,
         \A r \in requests' :
           r = [kind |-> kind, wish |-> w, page |-> 1, nr |-> nr, live |-> TRUE],
         interests' # Unset /\ language' # Unset => w = Wanted(interests', language'),
         kind = "page" => allNews' = <<>>
  PROVE  OneAnswer' /\ Answers'
<1>1. \A r \in requests' : /\ r.kind = kind /\ r.wish = w
                           /\ r.page = 1 /\ r.live
  OBVIOUS
<1>2. OneAnswer'
  <2>1. \A r, s \in requests' : r = s
    OBVIOUS
  <2>2. Len(mainQueue') = 0
    OBVIOUS
  <2> QED
    BY <1>1, <2>1, <2>2 DEF OneAnswer
<1>3. Answers'
  BY <1>1 DEF Answers, Current
<1> QED
  BY <1>2, <1>3

\* Nothing is on its way and nothing is asked for.
LEMMA StillSettled ==
  ASSUME Settled, UNCHANGED net
  PROVE  OneAnswer' /\ Answers' /\ Settled'
BY DEF Settled, net, OneAnswer, Answers

LEMMA ObserveSteady ==
  ASSUME TypeOK, Calm, Settled, FeedCatchesUp', NEW wishes, Observe(wishes),
         \/ /\ wishes = <<Wanted(interests', language')>>
            /\ interests' # Unset
         \/ /\ wishes = <<>>
            /\ \/ UNCHANGED <<interests, language>>
               \/ interests' = Unset \/ language' = Unset
  PROVE  Calm'
<1>1. /\ UNCHANGED <<open, allNews, trapped, wiped>>
      /\ ~trapped' /\ ~wiped'
      /\ \A k \in 1..Len(allNews) : allNews[k].page = 1 /\ Current(allNews[k].wish)
  BY DEF Observe, past, Calm, Shown, Settled
<1>2. CASE open /\ wishes # <<>>
  <2> DEFINE w == Wanted(interests', language')
  <2>1. wishes = <<w>> /\ w.interests # Unset
    BY <1>2 DEF Wanted
  <2>2. GetAllNews("refresh", <<w>>, 1)
    BY <1>2, <2>1 DEF Observe
  <2>3. w = Wanted(interests', language')
    OBVIOUS
  <2> HIDE DEF w
  <2>4. OneAnswer' /\ Answers' /\ requests' # {}
    BY <2>1, <2>2, <2>3, CallOfSettled, OneAnswerOfCall
  <2>5. Shown'
    BY <1>1, <2>4 DEF Shown
  <2> QED
    BY <1>1, <1>2, <2>4, <2>5 DEF Calm, Closed
<1>3. CASE ~(open /\ wishes # <<>>)
  <2>1. UNCHANGED <<page, net>>
    BY <1>3 DEF Observe
  <2>2. OneAnswer' /\ Answers' /\ Settled'
    BY <2>1, StillSettled
  <2>3. Shown'
    <3>1. CASE ~open
      BY <1>1, <3>1 DEF Calm, Closed, Shown
    <3>2. CASE open
      <4>1. wishes = <<>>
        BY <1>3, <3>2
      <4>2. wishes # <<Wanted(interests', language')>>
        BY <4>1
      <4> QED
        BY <1>1, <4>2 DEF Shown, Current
    <3> QED
      BY <3>1, <3>2
  <2> QED
    BY <1>1, <2>1, <2>2, <2>3 DEF Calm, Closed
<1> QED
  BY <1>2, <1>3

LEMMA StoreSteady ==
  ASSUME TypeOK, Calm, Settled, FeedCatchesUp',
         Store \/ (SignIn /\ language = Unset)
  PROVE  Calm'
<1>1. ASSUME NEW i \in Interest, StoreInterests(i) PROVE Calm'
  <2>1. PICK told \in Told(interests, i) :
           Observe(IF told /\ language # Unset
                   THEN <<Wanted(i, language)>> ELSE <<>>)
    BY <1>1 DEF StoreInterests
  <2>2. /\ interests' = i /\ language' = language /\ i # Unset
        /\ told \/ interests = i
    BY <1>1, FeedAssumption DEF StoreInterests, Told
  <2>3. CASE told /\ language # Unset
    BY <2>1, <2>2, <2>3, ObserveSteady
  <2>4. CASE ~(told /\ language # Unset)
    BY <2>1, <2>2, <2>4, ObserveSteady
  <2> QED
    BY <2>3, <2>4
<1>2. ASSUME NEW l \in Language, StoreLanguage(l) PROVE Calm'
  <2>1. PICK told \in Told(language, l) :
           Observe(IF told /\ interests # Unset
                   THEN <<Wanted(interests, l)>> ELSE <<>>)
    BY <1>2 DEF StoreLanguage
  <2>2. /\ language' = l /\ interests' = interests
        /\ told \/ language = l
    BY <1>2 DEF StoreLanguage, Told
  <2>3. CASE told /\ interests # Unset
    BY <2>1, <2>2, <2>3, ObserveSteady
  <2>4. CASE ~(told /\ interests # Unset)
    BY <2>1, <2>2, <2>4, ObserveSteady
  <2> QED
    BY <2>3, <2>4
<1>3. ASSUME NEW i \in Interest, NEW l \in Language, LoginStores(i, l),
             language = Unset
      PROVE  Calm'
  <2>1. PICK first \in Told(interests, i), second \in Told(language, l) :
           Observe((IF first /\ language # Unset
                    THEN <<Wanted(i, language)>> ELSE <<>>)
                   \o (IF second THEN <<Wanted(i, l)>> ELSE <<>>))
    BY <1>3 DEF LoginStores
  <2>2. interests' = i /\ language' = l /\ i # Unset
    BY <1>3, FeedAssumption DEF LoginStores
  <2>3. second
    BY <1>3, FeedAssumption DEF Told
  <2>4. <<>> \o <<Wanted(i, l)>> = <<Wanted(i, l)>>
    OBVIOUS
  <2>5. Observe(<<Wanted(i, l)>>)
    BY <1>3, <2>1, <2>3, <2>4
  <2> QED
    BY <2>2, <2>5, ObserveSteady
<1> QED
  BY <1>1, <1>2, <1>3 DEF Store, SignIn

LEMMA AskSteady ==
  ASSUME TypeOK, Calm, Settled, FeedCatchesUp', Ask
  PROVE  Calm'
<1>1. /\ requests = {} /\ appending = {} /\ mainQueue = <<>>
      /\ ~trapped /\ ~wiped
      /\ \A k \in 1..Len(allNews) : allNews[k].page = 1 /\ Current(allNews[k].wish)
  BY DEF Settled, Calm, Shown
<1>2. open => rows = Len(allNews)
  BY <1>1 DEF Calm, FeedCatchesUp
<1> DEFINE w == Wanted(interests, language)
<1>w. UNCHANGED <<interests, language>> => w = Wanted(interests', language')
  OBVIOUS
<1> HIDE DEF w
<1>s. ASSUME UNCHANGED <<interests, language, allNews>> PROVE Shown'
  BY <1>1, <1>s DEF Shown, Current
<1>3. CASE OpenTab
  <2>1. /\ open' /\ allNews = <<>> /\ page = 1
        /\ UNCHANGED <<interests, language, allNews, trapped, wiped>>
    BY <1>3 DEF OpenTab, Calm, Closed, keys, past
  <2>2. GetAllNews("page", <<w>>, 1)
    BY <1>3, <2>1 DEF OpenTab, w
  <2>3. OneAnswer' /\ Answers'
    BY <1>w, <2>1, <2>2, CallOfSettled, OneAnswerOfCall
  <2> QED
    BY <1>1, <1>s, <2>1, <2>3 DEF Calm, Closed
<1>4. CASE LeaveHome
  <2>1. /\ requests' = {} /\ appending' = {} /\ mainQueue' = <<>>
        /\ allNews' = <<>> /\ page' = 1 /\ ~wiped' /\ UNCHANGED trapped
    BY <1>1, <1>4 DEF LeaveHome, Dead
  <2>2. OneAnswer' /\ Answers' /\ Shown' /\ Closed'
    BY <2>1 DEF OneAnswer, Answers, Shown, Closed, Settled
  <2> QED
    BY <1>1, <2>1, <2>2 DEF Calm
<1>5. CASE PullRefresh
  <2>1. open' /\ UNCHANGED <<interests, language, allNews, trapped, wiped>>
    BY <1>5 DEF PullRefresh, keys
  <2>2. GetAllNews("refresh", <<w>>, 1)
    BY <1>5 DEF PullRefresh, w
  <2>a. /\ appending' = {} /\ mainQueue' = <<>>
        /\ \A r \in requests' :
             r = [kind |-> "refresh", wish |-> w, page |-> 1, nr |-> sends + 1,
                  live |-> TRUE]
    BY <2>2, CallOfSettled
  <2>3. OneAnswer' /\ Answers'
    BY <1>w, <2>1, <2>a, OneAnswerOfCall
  <2> QED
    BY <1>1, <1>s, <2>1, <2>3 DEF Calm, Closed
<1>6. ~DrawLoading /\ ~DrawMissing
  <2>1. Len(allNews) \in Nat /\ rows \in Nat
    BY DEF TypeOK
  <2> QED
    BY <1>2, <2>1 DEF DrawLoading, DrawMissing
<1>7. ASSUME NEW row \in 0..(rows - 1), SelectRow(row) PROVE Calm'
  <2>1. Len(allNews) \in Nat /\ rows \in Nat /\ open
    BY <1>7 DEF SelectRow, TypeOK
  <2>a. ~(row >= Len(allNews))
    BY <1>2, <1>7, <2>1 DEF SelectRow
  <2>2. ~trapped' /\ UNCHANGED <<open, page, interests, language, allNews, wiped>>
    BY <1>7, <2>a DEF SelectRow, keys, table
  <2>3. OneAnswer' /\ Answers'
    BY <1>7, StillSettled DEF SelectRow
  <2> QED
    BY <1>1, <1>s, <2>1, <2>2, <2>3 DEF Calm, Closed
<1>8. ASSUME NEW row \in 0..(rows - 1), SaveRow(row) PROVE Calm'
  <2>1. Len(allNews) \in Nat /\ rows \in Nat /\ open
    BY <1>8 DEF SaveRow, TypeOK
  <2>a. row < Len(allNews)
    BY <1>2, <1>8, <2>1 DEF SaveRow
  <2>2. ~trapped' /\ UNCHANGED <<open, page, interests, language, allNews, wiped>>
    BY <1>1, <1>8, <2>a DEF SaveRow, keys, table, past
  <2>b. requests' = {} /\ appending' = {} /\ mainQueue' = <<>>
    BY <1>1, <1>8 DEF SaveRow
  <2>3. OneAnswer' /\ Answers'
    BY <2>b DEF OneAnswer, Answers
  <2> QED
    BY <1>1, <1>s, <2>1, <2>2, <2>3 DEF Calm, Closed
<1> QED
  BY <1>3, <1>4, <1>5, <1>6, <1>7, <1>8 DEF Ask

\* A request has one answer on its way, and it is to an open tab.
LEMMA RequestAlone ==
  ASSUME Calm, NEW r \in requests
  PROVE  /\ requests \ {r} = {} /\ appending = {} /\ mainQueue = <<>>
         /\ r.live /\ r.page = 1 /\ Current(r.wish) /\ open
         /\ r.kind = "page" => allNews = <<>>
BY DEF Calm, OneAnswer, Answers, Closed, Settled

LEMMA BlockAlone ==
  ASSUME NEW b, b.live, mainQueue' = Append(<<>>, b), requests' = {}, appending' = {}
  PROVE  OneAnswer' /\ Answers'
<1>1. Len(mainQueue') = 1 /\ Head(mainQueue') = b
  OBVIOUS
<1> QED
  BY <1>1 DEF OneAnswer, Answers

LEMMA NewsOf ==
  ASSUME TypeOK, NEW r \in requests, NEW n \in 0..MaxArticles,
         r.page = 1, Current(r.wish)
  PROVE  \A k \in 1..Len(News(r, n)) :
           News(r, n)[k].page = 1 /\ Current(News(r, n)[k].wish)
<1>1. n \in Nat
  BY FeedAssumption
<1>2. Len(News(r, n)) = n
  BY <1>1 DEF News
<1> QED
  BY <1>1, <1>2 DEF News

LEMMA AnswerSteady ==
  ASSUME TypeOK, Calm, FeedCatchesUp', NEW r \in requests,
         NEW n \in 0..MaxArticles, Refreshed(r, n) \/ PageArrives(r, n)
  PROVE  Calm'
<1>1. /\ r.live /\ r.page = 1 /\ Current(r.wish) /\ open
      /\ requests \ {r} = {} /\ appending = {} /\ mainQueue = <<>>
      /\ r.kind = "page" => allNews = <<>>
  BY RequestAlone
<1>2. /\ UNCHANGED <<interests, language, open, wiped, trapped>>
      /\ requests' = {}
  BY <1>1 DEF Refreshed, PageArrives, Arrives, keys
<1>3. \A k \in 1..Len(News(r, n)) :
        News(r, n)[k].page = 1 /\ Current(News(r, n)[k].wish)
  BY <1>1, NewsOf
<1>4. \A v : Current(v) => Current(v)'
  BY <1>2 DEF Current
<1>5. CASE Refreshed(r, n)
  <2>1. /\ allNews' = News(r, n) /\ appending' = {}
        /\ mainQueue' = Append(<<>>, [ends |-> TRUE, live |-> TRUE])
    BY <1>1, <1>5 DEF Refreshed
  <2>2. OneAnswer' /\ Answers'
    BY <1>2, <2>1, BlockAlone
  <2>3. Shown'
    BY <1>3, <1>4, <2>1 DEF Shown
  <2> QED
    BY <1>1, <1>2, <2>2, <2>3 DEF Calm, Closed
<1>6. CASE PageArrives(r, n)
  <2>1. /\ allNews' = <<>> /\ mainQueue' = <<>>
        /\ appending' = {[base |-> <<>>, news |-> News(r, n), live |-> TRUE]}
    BY <1>1, <1>6 DEF PageArrives, Arrives
  <2>2. OneAnswer'
    BY <1>2, <2>1 DEF OneAnswer
  <2>3. Answers'
    <3> DEFINE ns == News(r, n)
    <3>1. \A k \in 1..Len(ns) : ns[k].page = 1 /\ Current(ns[k].wish)'
      BY <1>3, <1>4
    <3>2. \A a \in appending' : a.base = <<>> /\ a.news = ns
      BY <2>1
    <3> HIDE DEF ns
    <3> QED
      BY <1>2, <3>1, <3>2 DEF Answers
  <2>4. Shown'
    BY <2>1 DEF Shown
  <2> QED
    BY <1>1, <1>2, <2>2, <2>3, <2>4 DEF Calm, Closed
<1> QED
  BY <1>5, <1>6

LEMMA OtherSteady ==
  ASSUME TypeOK, Calm, Reached, FeedCatchesUp', Other
  PROVE  Calm'
<1>1. CASE PageAppended
  <2>1. PICK a \in appending :
           /\ allNews' = a.base \o a.news
           /\ mainQueue' = Append(mainQueue, [ends |-> FALSE, live |-> a.live])
    BY <1>1 DEF PageAppended
  <2>2. /\ requests = {} /\ mainQueue = <<>> /\ a.live /\ a.base = <<>>
        /\ open /\ a.news \in Seq(Article)
        /\ \A k \in 1..Len(a.news) : /\ a.news[k].page = 1
                                     /\ Current(a.news[k].wish)
    BY DEF Calm, OneAnswer, Answers, Closed, Settled, TypeOK, Growth
  <2>3. allNews' = a.news
    BY <2>1, <2>2
  <2>4. /\ UNCHANGED <<interests, language, open, wiped, trapped>>
        /\ requests' = {} /\ appending' = {}
    BY <1>1, <2>2 DEF PageAppended, keys, table, past
  <2>5. OneAnswer' /\ Answers'
    BY <2>1, <2>2, <2>4, BlockAlone
  <2>6. Shown'
    BY <2>2, <2>3, <2>4 DEF Shown, Current
  <2> QED
    BY <2>2, <2>4, <2>5, <2>6 DEF Calm, Closed
<1>2. CASE RunBlock
  <2>1. /\ requests = {} /\ appending = {} /\ open /\ Head(mainQueue).live
    BY <1>2 DEF RunBlock, Calm, OneAnswer, Closed, Settled
  <2>2. mainQueue' = <<>>
    <3>1. mainQueue \in Seq(Block) /\ mainQueue # <<>> /\ Len(mainQueue) <= 1
      BY <1>2 DEF RunBlock, TypeOK, Calm, OneAnswer
    <3> DEFINE n == Len(mainQueue)
    <3>2. n \in Nat /\ n # 0 /\ n <= 1
      BY <3>1
    <3> HIDE DEF n
    <3>3. n = 1
      BY <3>2
    <3> QED
      BY <1>2, <3>1, <3>3 DEF RunBlock, n
  <2>3. /\ UNCHANGED <<interests, language, open, allNews, trapped>> /\ ~wiped'
        /\ requests' = {} /\ appending' = {}
    BY <1>2, <2>1 DEF RunBlock, keys
  <2>4. OneAnswer' /\ Answers'
    BY <2>2, <2>3 DEF OneAnswer, Answers
  <2>5. Shown'
    BY <2>1, <2>3 DEF Shown, Calm, Current
  <2> QED
    BY <2>1, <2>3, <2>4, <2>5 DEF Calm, Closed
<1>3. ASSUME SignOut \/ (\E n \in 0..MaxFound : SearchShows(n))
               \/ \E live \in bookmarks : BookmarkAnswered(live)
      PROVE  Calm'
  <2>1. ASSUME NEW live \in bookmarks, BookmarkAnswered(live)
        PROVE  /\ UNCHANGED <<keys, table, allNews, requests, appending, mainQueue, past>>
               /\ ~trapped'
    <3>1. live
      BY DEF Reached, TypeOK
    <3> QED
      BY <2>1, <3>1 DEF BookmarkAnswered
  <2>2. /\ UNCHANGED <<open, page, wiped, allNews>> /\ ~trapped'
        /\ UNCHANGED <<requests, appending, mainQueue>>
    BY <1>3, <2>1 DEF SignOut, SearchShows, table, net, past, Calm
  <2>3. \A v : Current(v) => Current(v)'
    BY <1>3, <2>1 DEF SignOut, SearchShows, Current, keys
  <2>4. OneAnswer'
    BY <2>2 DEF Calm, OneAnswer
  <2>5. Answers'
    BY <2>2, <2>3 DEF Calm, Answers
  <2>6. Shown'
    BY <2>2, <2>3 DEF Calm, Shown
  <2>7. Closed'
    BY <2>2 DEF Calm, Closed, Settled
  <2> QED
    BY <2>2, <2>4, <2>5, <2>6, <2>7 DEF Calm
<1> QED
  BY <1>1, <1>2, <1>3, AnswerSteady DEF Other

\* A home is left when its bookmark calls are answered.
LEMMA ReachedStep ==
  ASSUME TypeOK, Reached, Next, LeaveHome => bookmarks = {}
  PROVE  Reached'
<1>1. CASE Ask
  <2>1. CASE LeaveHome
    BY <2>1 DEF LeaveHome, Reached
  <2>2. ASSUME NEW row \in 0..(rows - 1), SaveRow(row) PROVE Reached'
    <3>1. bookmarks' = bookmarks \union {TRUE} \/ bookmarks' = bookmarks
      BY <2>2 DEF SaveRow
    <3> QED
      BY <3>1 DEF Reached
  <2>3. CASE ~LeaveHome /\ ~\E row \in 0..(rows - 1) : SaveRow(row)
    <3>1. UNCHANGED bookmarks
      BY <1>1, <2>3 DEF Ask, OpenTab, PullRefresh, DrawLoading, DrawMissing, SelectRow,
         GetAllNews, net
    <3> QED
      BY <3>1 DEF Reached
  <2> QED
    BY <2>1, <2>2, <2>3
<1>2. CASE Store \/ SignIn
  <2>1. PICK wishes : Observe(wishes)
    BY <1>2 DEF Store, SignIn, StoreInterests, StoreLanguage, LoginStores
  <2>2. UNCHANGED bookmarks
    BY <2>1 DEF Observe, GetAllNews, net
  <2> QED
    BY <2>2 DEF Reached
<1>3. ASSUME NEW live \in bookmarks, BookmarkAnswered(live) PROVE Reached'
  BY <1>3 DEF BookmarkAnswered, Reached
<1>4. CASE Mishap \/ (Other /\ ~\E live \in bookmarks : BookmarkAnswered(live))
  <2>1. UNCHANGED bookmarks
    BY <1>4 DEF Mishap, Other, MemoryWarning, RequestFails, Refreshed, PageArrives, Arrives,
       PageAppended, RunBlock, SignOut, SearchShows, net
  <2> QED
    BY <2>1 DEF Reached
<1> QED
  BY <1>1, <1>2, <1>3, <1>4 DEF Next

LEMMA SteadyStep == TypeOK /\ Steady /\ Next => Steady'
<1> SUFFICES ASSUME TypeOK, Steady, Next, calm' PROVE Calm' /\ Reached'
  BY DEF Steady
<1>r. ASSUME calm, LeaveHome => bookmarks = {} PROVE Reached'
  BY <1>r, ReachedStep DEF Steady
<1>1. FeedCatchesUp => FeedCatchesUp'
  BY CatchesUpStep
<1>2. CASE (Ask \/ Store) /\ calm' = (calm /\ Answered)
  <2>1. calm /\ Settled /\ bookmarks = {}
    BY <1>2 DEF Answered
  <2>2. Calm /\ FeedCatchesUp'
    BY <1>1, <2>1 DEF Steady, Calm
  <2> QED
    BY <1>2, <1>r, <2>1, <2>2, AskSteady, StoreSteady
<1>3. CASE SignIn /\ calm' = (calm /\ Answered /\ language = Unset)
  <2>1. calm /\ Settled /\ bookmarks = {} /\ language = Unset
    BY <1>3 DEF Answered
  <2>2. Calm /\ FeedCatchesUp'
    BY <1>1, <2>1 DEF Steady, Calm
  <2> QED
    BY <1>3, <1>r, <2>1, <2>2, StoreSteady
<1>4. CASE Other /\ UNCHANGED calm
  <2>1. calm /\ Calm /\ Reached /\ FeedCatchesUp'
    BY <1>1, <1>4 DEF Steady, Calm
  <2>2. LeaveHome => bookmarks = {}
    <3>1. ASSUME LeaveHome PROVE FALSE
      <4>1. open /\ ~open' /\ Len(mainQueue') = Len(mainQueue) /\ requests' = Dead(requests)
        BY <3>1 DEF LeaveHome, TypeOK
      <4> QED
        BY <1>4, <4>1 DEF Other, Refreshed, PageArrives, Arrives, PageAppended, RunBlock,
           BookmarkAnswered, SignOut, SearchShows, table
    <3> QED
      BY <3>1
  <2> QED
    BY <1>4, <1>r, <2>1, <2>2, OtherSteady
<1> QED
  BY <1>2, <1>3, <1>4 DEF Next

LEMMA SteadyInvariant == Spec => []Steady
<1>1. Init => Steady
  BY DEF Init, Steady, Calm, OneAnswer, Answers, Shown, Closed, Settled, Reached,
    FeedCatchesUp
<1>2. TypeOK /\ Steady /\ [Next]_vars => Steady'
  <2>1. ASSUME Steady, UNCHANGED vars PROVE Steady'
    <3>1. (calm => Calm) => (calm => Calm)'
      BY <2>1 DEF Calm, OneAnswer, Answers, Shown, Closed, Settled, FeedCatchesUp, Current,
         vars, keys, table, net, past
    <3>2. (calm => Reached) => (calm => Reached)'
      BY <2>1 DEF Reached, vars, net
    <3> QED
      BY <2>1, <3>1, <3>2 DEF Steady
  <2> QED
    BY <2>1, SteadyStep
<1> QED
  BY <1>1, <1>2, ForYouTypes, PTL DEF Spec

(***************************************************************************)
(* ForYouFollows: the feed of a reader who waits is of the interests and   *)
(* the language that are stored.                                           *)
(***************************************************************************)
THEOREM ForYouFollows == Spec => []FeedOfInterests
<1>1. Steady => FeedOfInterests
  BY DEF Steady, Calm, Shown, Settled, Current, FeedOfInterests
<1> QED
  BY <1>1, SteadyInvariant, PTL

(***************************************************************************)
(* ForYouNeverTraps: no check of the app's own code fails for a reader     *)
(* who waits.                                                              *)
(***************************************************************************)
THEOREM ForYouNeverTraps == Spec => []FeedNeverTraps
<1>1. Steady => FeedNeverTraps
  BY DEF Steady, Calm, FeedNeverTraps
<1> QED
  BY <1>1, SteadyInvariant, PTL

(***************************************************************************)
(* ForYouOnePage: such a reader never sees a second page.                  *)
(***************************************************************************)
THEOREM ForYouOnePage == Spec => []OnlyFirstPage
<1>1. Steady => OnlyFirstPage
  BY DEF Steady, Calm, Shown, OnlyFirstPage
<1> QED
  BY <1>1, SteadyInvariant, PTL
=============================================================================

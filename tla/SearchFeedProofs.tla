--------------------------- MODULE SearchFeedProofs ---------------------------
(***************************************************************************)
(* Proofs about SearchFeed, for every set of queries and every bound:      *)
(* types, that the table catches up with the results, and that results are *)
(* in order for a reader who waits.                                        *)
(***************************************************************************)
EXTENDS SearchFeed, TLAPS

-----------------------------------------------------------------------------
(* Types.                                                                  *)

LEMMA EmptyType == <<>> \in Seq(Hit) /\ Len(<<>>) = 0
OBVIOUS

LEMMA InitType == Init => TypeOK
<1> SUFFICES ASSUME Init PROVE TypeOK
  OBVIOUS
<1>1. results \in Seq(Hit)
  BY DEF Init
<1>2. page \in Nat \ {0} /\ rows \in Nat \ {0}
  BY DEF Init
<1> QED
  BY <1>1, <1>2 DEF Init, TypeOK

LEMMA SendType ==
  ASSUME TypeOK, NEW q \in Text, NEW p \in Nat, Send(q, p)
  PROVE  requests' \subseteq Request /\ sends' \in Nat
BY DEF TypeOK, Send, Request

LEMMA AskType == TypeOK /\ Ask /\ calm' \in BOOLEAN => TypeOK'
<1> SUFFICES ASSUME TypeOK, Ask, calm' \in BOOLEAN PROVE TypeOK'
  OBVIOUS
<1>1. ASSUME NEW q \in Text, Search(q) PROVE TypeOK'
  <2>1. requests' \subseteq Request /\ sends' \in Nat
    BY <1>1, SendType DEF Search, TypeOK
  <2> QED
    BY <1>1, <2>1 DEF Search, Send, TypeOK
<1>2. CASE Cancel
  <2>1. results' \in Seq(Hit) /\ rows' \in Nat \ {0}
    BY <1>2 DEF Cancel
  <2> QED
    BY <1>2, <2>1 DEF Cancel, TypeOK, net
<1>3. CASE DrawLoading
  <2>1. query \in Text /\ page + 1 \in Nat \ {0}
    BY <1>3 DEF DrawLoading, TypeOK
  <2>2. requests' \subseteq Request /\ sends' \in Nat
    BY <1>3, <2>1, SendType DEF DrawLoading
  <2> QED
    BY <1>3, <2>1, <2>2 DEF DrawLoading, Send, TypeOK
<1>4. CASE DrawMissing
  BY <1>4 DEF DrawMissing, TypeOK, net
<1>5. CASE LeaveHome
  <2>1. appending' \subseteq Growth
    <3>1. appending' = {[a EXCEPT !.live = FALSE] : a \in appending}
      BY <1>5 DEF LeaveHome
    <3>2. ASSUME NEW a \in Growth PROVE [a EXCEPT !.live = FALSE] \in Growth
      BY DEF Growth
    <3> QED
      BY <3>1, <3>2 DEF TypeOK
  <2>2. results' \in Seq(Hit) /\ rows' \in Nat \ {0} /\ page' \in Nat \ {0}
    BY <1>5, EmptyType DEF LeaveHome
  <2>3. (requests # {}) \in BOOLEAN /\ (reloads > 0) \in BOOLEAN
    BY DEF TypeOK
  <2> QED
    BY <1>5, <2>1, <2>2, <2>3 DEF LeaveHome, TypeOK
<1>6. ASSUME NEW row \in 0..(rows - 1), SaveRow(row) PROVE TypeOK'
  BY <1>6 DEF SaveRow, TypeOK
<1> QED
  BY <1>1, <1>2, <1>3, <1>4, <1>5, <1>6 DEF Ask

\* A page is a list of hits, all of its query and of its number.
LEMMA PageType ==
  ASSUME NEW r \in Request, NEW n \in 0..MaxArticles
  PROVE  [i \in 1..n |-> [query |-> r.query, page |-> r.page]] \in Seq(Hit)
<1>1. n \in Nat /\ [query |-> r.query, page |-> r.page] \in Hit
  BY SearchAssumption DEF Request, Hit
<1> DEFINE h == [query |-> r.query, page |-> r.page]
<1> HIDE DEF h
<1>2. [i \in 1..n |-> h] \in Seq(Hit)
  BY <1>1 DEF h
<1> QED
  BY <1>2 DEF h

LEMMA OtherType == TypeOK /\ Other /\ UNCHANGED calm => TypeOK'
<1> SUFFICES ASSUME TypeOK, Other, UNCHANGED calm PROVE TypeOK'
  OBVIOUS
<1>1. ASSUME NEW r \in requests, NEW n \in 0..MaxArticles, PageArrives(r, n)
      PROVE  TypeOK'
  <2>1. [i \in 1..n |-> [query |-> r.query, page |-> r.page]] \in Seq(Hit)
    BY PageType DEF TypeOK
  <2>2. appending' \subseteq Growth
    BY <1>1, <2>1 DEF PageArrives, TypeOK, Growth
  <2> QED
    BY <1>1, <2>2 DEF PageArrives, TypeOK
<1>2. CASE PageAppended
  <2>1. results' \in Seq(Hit) /\ reloads' \in Nat /\ orphans' \in BOOLEAN
    BY <1>2 DEF PageAppended, TypeOK, Growth
  <2> QED
    BY <1>2, <2>1 DEF PageAppended, TypeOK
<1>3. CASE ReloadTable
  <2>1. Len(results) + 1 \in Nat \ {0} /\ reloads - 1 \in Nat
    BY <1>3 DEF ReloadTable, TypeOK
  <2> QED
    BY <1>3, <2>1 DEF ReloadTable, TypeOK
<1>4. CASE BookmarkAnswered \/ OrphanRuns
  BY <1>4 DEF BookmarkAnswered, OrphanRuns, TypeOK, net
<1> QED
  BY <1>1, <1>2, <1>3, <1>4 DEF Other

LEMMA MishapType == TypeOK /\ Mishap /\ calm' = FALSE => TypeOK'
BY EmptyType DEF Mishap, MemoryWarning, SwipeLoading, PageFails, TypeOK, net

(***************************************************************************)
(* FeedTypes: every state of the search is well typed.                     *)
(***************************************************************************)
THEOREM FeedTypes == Spec => []TypeOK
<1>1. Init => TypeOK
  BY InitType
<1>2. TypeOK /\ [Next]_vars => TypeOK'
  <2> SUFFICES ASSUME TypeOK, [Next]_vars PROVE TypeOK'
    OBVIOUS
  <2>1. CASE Ask /\ calm' = (calm /\ Settled)
    <3>1. Settled \in BOOLEAN /\ calm \in BOOLEAN
      BY DEF Settled, TypeOK
    <3> QED
      BY <2>1, <3>1, AskType
  <2>2. CASE Mishap /\ calm' = FALSE
    BY <2>2, MishapType
  <2>3. CASE Other /\ UNCHANGED calm
    BY <2>3, OtherType
  <2>4. CASE UNCHANGED vars
    BY <2>4 DEF vars, net, TypeOK
  <2> QED
    BY <2>1, <2>2, <2>3, <2>4 DEF Next
<1> QED
  BY <1>1, <1>2, PTL DEF Spec

-----------------------------------------------------------------------------
(* The table.                                                              *)

LEMMA TableStep == TypeOK /\ TableCatchesUp /\ [Next]_vars => TableCatchesUp'
<1> SUFFICES ASSUME TypeOK, TableCatchesUp, [Next]_vars PROVE TableCatchesUp'
  OBVIOUS
<1>1. CASE Ask
  <2>1. CASE LeaveHome
    BY <2>1, EmptyType DEF LeaveHome, TableCatchesUp
  <2>2. CASE ~LeaveHome
    BY <1>1, <2>2 DEF Ask, Search, Send, Cancel, DrawLoading, DrawMissing, SaveRow,
       TableCatchesUp, net
  <2> QED
    BY <2>1, <2>2
<1>2. CASE Mishap
  BY <1>2 DEF Mishap, MemoryWarning, SwipeLoading, PageFails, TableCatchesUp, net
<1>3. CASE Other
  <2>1. ASSUME NEW r \in requests, NEW n \in 0..MaxArticles, PageArrives(r, n)
        PROVE  TableCatchesUp'
    BY <2>1 DEF PageArrives, TableCatchesUp
  <2>2. CASE PageAppended
    <3>1. PICK a \in appending :
            /\ reloads' = IF a.live THEN reloads + 1 ELSE reloads
            /\ orphans' = (orphans \/ ~a.live)
      BY <2>2 DEF PageAppended
    <3>2. a.live => reloads' # 0
      BY <3>1 DEF TypeOK
    <3>3. ~a.live => orphans'
      BY <3>1
    <3>4. reloads' # 0 \/ orphans'
      BY <3>2, <3>3
    <3> QED
      BY <3>4 DEF TableCatchesUp
  <2>3. CASE ReloadTable
    BY <2>3 DEF ReloadTable, TableCatchesUp
  <2>4. CASE BookmarkAnswered \/ OrphanRuns
    BY <2>4 DEF BookmarkAnswered, OrphanRuns, TableCatchesUp, net
  <2> QED
    BY <1>3, <2>1, <2>2, <2>3, <2>4 DEF Other
<1>4. CASE UNCHANGED vars
  BY <1>4 DEF vars, net, TableCatchesUp
<1> QED
  BY <1>1, <1>2, <1>3, <1>4 DEF Next

(***************************************************************************)
(* TableShowsResults: once no answer is on its way the table's rows are    *)
(* the results and the loading row, unless the list was emptied under it   *)
(* (SearchResultsTableViewController.swift:220-227).                       *)
(***************************************************************************)
THEOREM TableShowsResults == Spec => []TableCatchesUp
<1>1. Init => TableCatchesUp
  BY DEF Init, TableCatchesUp
<1> QED
  BY <1>1, TableStep, FeedTypes, PTL DEF Spec

-----------------------------------------------------------------------------
(* A reader who waits.                                                     *)

\* At most one request, page or reload is under way.
OneAtATime ==
  /\ \A r, s \in requests : r = s
  /\ requests # {} => appending = {} /\ reloads = 0
  /\ appending # {} => reloads = 0
  /\ reloads \in {0, 1}

\* s holds hits of the current query, in the order of their pages, and each
\* page once.
Ordered(s) ==
  \A i \in 1..Len(s) :
    /\ s[i].query = query /\ s[i].page <= page
    /\ \A j \in 1..Len(s) : i < j =>
         /\ s[i].page <= s[j].page
         /\ j - i >= MaxArticles => s[i].page # s[j].page

\* What a reader who waits can rely on: the one request asks for the current
\* page, which comes after those in the list, and a list that was emptied
\* under the table is being loaded again.
Steady ==
  /\ ~trapped /\ ~orphans /\ keepLoading
  /\ OneAtATime
  /\ Ordered(results)
  /\ \A r \in requests : r.query = query /\ r.page = page
  /\ \A a \in appending :
       /\ a.base = results /\ a.live /\ Len(a.news) <= MaxArticles
       /\ \A i \in 1..Len(a.news) :
            a.news[i].query = query /\ a.news[i].page = page
  /\ requests # {} \/ appending # {} =>
       \A i \in 1..Len(results) : results[i].page < page
  /\ requests = {} /\ appending = {} /\ reloads = 0 => ~wiped

SteadyInv == TypeOK /\ TableCatchesUp /\ (calm => Steady)

LEMMA SteadyAsk ==
  ASSUME SteadyInv, calm, Settled, Ask, ~trapped PROVE Steady'
<1>1. /\ requests = {} /\ appending = {} /\ reloads = 0 /\ ~wiped
      /\ ~bookmarks /\ ~orphans
      /\ keepLoading /\ rows = Len(results) + 1
      /\ Ordered(results)
  BY DEF SteadyInv, Steady, Settled, TableCatchesUp
<1>2. ASSUME NEW q \in Text, Search(q) PROVE Steady'
  <2>1. /\ query' = q /\ page' = page /\ results' = <<>>
        /\ requests' = {[query |-> q, page |-> page, nr |-> sends + 1]}
        /\ appending' = {} /\ reloads' = 0 /\ keepLoading' /\ ~trapped' /\ ~orphans'
    BY <1>1, <1>2 DEF Search, Send
  <2>2. OneAtATime' /\ requests' # {}
    BY <2>1 DEF OneAtATime
  <2>3. Ordered(results)'
    BY <2>1 DEF Ordered
  <2>4. \A r \in requests' : r.query = query' /\ r.page = page'
    BY <2>1
  <2>5. ~trapped' /\ ~orphans' /\ keepLoading' /\ appending' = {}
        /\ Len(results') = 0
    BY <2>1, EmptyType
  <2> QED
    BY <2>2, <2>3, <2>4, <2>5 DEF Steady
<1>3. CASE Cancel
  <2>1. /\ results' = <<>> /\ requests' = {} /\ appending' = {} /\ reloads' = 0
        /\ keepLoading' /\ ~trapped' /\ ~wiped' /\ ~orphans'
    BY <1>1, <1>3 DEF Cancel, net
  <2>2. Ordered(results)'
    BY <2>1 DEF Ordered
  <2> QED
    BY <2>1, <2>2 DEF Steady, OneAtATime
<1>4. CASE DrawLoading
  <2>1. /\ query' = query /\ page' = page + 1 /\ results' = results
        /\ requests' = {[query |-> query, page |-> page + 1, nr |-> sends + 1]}
        /\ appending' = {} /\ reloads' = 0 /\ keepLoading' /\ ~trapped' /\ ~orphans'
    BY <1>1, <1>4 DEF DrawLoading, Send
  <2>2. OneAtATime' /\ requests' # {}
    BY <2>1 DEF OneAtATime
  <2>3. \A i \in 1..Len(results) : results[i].page \in Nat
    <3>1. ASSUME NEW i \in 1..Len(results) PROVE results[i] \in Hit
      BY DEF SteadyInv, TypeOK
    <3> QED
      BY <3>1 DEF Hit
  <2>4. Ordered(results)'
    BY <1>1, <2>1, <2>3 DEF Ordered, SteadyInv, TypeOK
  <2>5. \A r \in requests' : r.query = query' /\ r.page = page'
    BY <2>1
  <2>6. ~trapped' /\ ~orphans' /\ keepLoading' /\ appending' = {}
        /\ \A i \in 1..Len(results') : results'[i].page < page'
    BY <1>1, <2>1, <2>3 DEF Ordered, SteadyInv, TypeOK
  <2> QED
    BY <2>2, <2>4, <2>5, <2>6 DEF Steady
<1>5. CASE DrawMissing
  <2>1. PICK row \in Len(results)..(rows - 1) : row # Len(results) \/ ~keepLoading
    BY <1>5 DEF DrawMissing
  <2>2. Len(results) \in Nat
    BY DEF SteadyInv, TypeOK
  <2> QED
    BY <1>1, <2>1, <2>2
<1>6. CASE LeaveHome
  <2>1. /\ results' = <<>> /\ requests' = {} /\ appending' = {} /\ reloads' = 0
        /\ keepLoading' /\ ~trapped' /\ ~wiped' /\ ~orphans'
    <3>1. ~orphans'
      <4>1. orphans' = (orphans \/ requests # {} \/ reloads > 0 \/ bookmarks)
        BY <1>6 DEF LeaveHome
      <4>2. ~(requests # {}) /\ ~(reloads > 0)
        BY <1>1
      <4> QED
        BY <1>1, <4>1, <4>2
    <3> QED
      BY <1>1, <1>6, <3>1 DEF LeaveHome
  <2>2. Ordered(results)'
    BY <2>1 DEF Ordered
  <2> QED
    BY <2>1, <2>2 DEF Steady, OneAtATime
<1>7. ASSUME NEW row \in 0..(rows - 1), SaveRow(row) PROVE Steady'
  <2>1. /\ UNCHANGED <<query, page, results>> /\ requests' = {} /\ appending' = {}
        /\ reloads' = 0 /\ keepLoading' /\ ~trapped' /\ ~wiped' /\ ~orphans'
    BY <1>1, <1>7 DEF SaveRow
  <2>2. Ordered(results)'
    BY <1>1, <2>1 DEF Ordered
  <2> QED
    BY <2>1, <2>2 DEF Steady, OneAtATime
<1> QED
  BY <1>2, <1>3, <1>4, <1>5, <1>6, <1>7 DEF Ask

LEMMA SteadyArrival ==
  ASSUME SteadyInv, calm, NEW r \in requests, NEW n \in 0..MaxArticles,
         PageArrives(r, n)
  PROVE  Steady'
<1>1. Steady
  BY DEF SteadyInv
<1> DEFINE a == [base |-> results,
                 news |-> [i \in 1..n |-> [query |-> r.query, page |-> r.page]],
                 live |-> TRUE]
<1>2. n \in Nat
  BY SearchAssumption
<1>3. /\ a.base = results /\ Len(a.news) = n /\ a.live /\ n <= MaxArticles
      /\ \A i \in 1..Len(a.news) :
           a.news[i].query = query /\ a.news[i].page = page
  BY <1>1, <1>2 DEF Steady
<1>4. appending' = {a}
  BY DEF PageArrives
<1> HIDE DEF a
<1>5. /\ requests' = {} /\ reloads' = 0 /\ keepLoading' /\ ~trapped' /\ ~orphans'
      /\ UNCHANGED <<query, page, results>>
  BY <1>1 DEF PageArrives, Steady, OneAtATime
<1>6. OneAtATime'
  BY <1>4, <1>5 DEF OneAtATime
<1>7. Ordered(results)'
  BY <1>1, <1>5 DEF Steady, Ordered
<1>8. \A i \in 1..Len(results') : results'[i].page < page'
  BY <1>1, <1>5 DEF Steady
<1> QED
  BY <1>3, <1>4, <1>5, <1>6, <1>7, <1>8 DEF Steady

LEMMA SteadyAppend ==
  ASSUME SteadyInv, calm, PageAppended PROVE Steady'
<1>1. Steady
  BY DEF SteadyInv
<1>2. PICK a \in appending :
        /\ results' = a.base \o a.news
        /\ reloads' = IF a.live THEN reloads + 1 ELSE reloads
        /\ orphans' = (orphans \/ ~a.live)
  BY DEF PageAppended
<1>3. /\ a.base = results /\ a.live /\ results \in Seq(Hit) /\ a.news \in Seq(Hit)
      /\ Len(a.news) <= MaxArticles
      /\ \A i \in 1..Len(results) : results[i].page < page
      /\ \A i \in 1..Len(a.news) :
           a.news[i].query = query /\ a.news[i].page = page
  BY <1>1 DEF Steady, SteadyInv, TypeOK, Growth
<1>4. /\ requests' = {} /\ appending' = {} /\ reloads' = 1
      /\ keepLoading' /\ ~trapped' /\ ~orphans' /\ UNCHANGED <<query, page>>
  BY <1>1, <1>2, <1>3 DEF PageAppended, Steady, OneAtATime, SteadyInv, TypeOK
<1>5. Ordered(results)'
  <2> DEFINE L == Len(results)
             M == Len(a.news)
  <2>1. /\ L \in Nat /\ M \in Nat /\ Len(results') = L + M
        /\ \A i \in 1..L : results'[i] = results[i]
        /\ \A i \in (L + 1)..(L + M) : results'[i] = a.news[i - L]
    BY <1>2, <1>3
  <2>2. page \in Nat /\ Ordered(results)
    BY <1>1 DEF Steady, SteadyInv, TypeOK
  <2>3. ASSUME NEW i \in 1..(L + M)
        PROVE  /\ results'[i].query = query /\ results'[i].page <= page
               /\ i > L => results'[i].page = page
    <3>1. CASE i \in 1..L
      BY <2>1, <2>2, <3>1 DEF Ordered
    <3>2. CASE i \in (L + 1)..(L + M)
      <4>1. i - L \in 1..M
        BY <2>1, <3>2
      <4> QED
        BY <1>3, <2>1, <2>2, <3>2, <4>1
    <3> QED
      BY <2>1, <3>1, <3>2
  <2>4. ASSUME NEW i \in 1..(L + M), NEW j \in 1..(L + M), i < j
        PROVE  /\ results'[i].page <= results'[j].page
               /\ j - i >= MaxArticles => results'[i].page # results'[j].page
    <3>1. CASE j \in 1..L
      <4>1. i \in 1..L
        BY <2>1, <2>4, <3>1
      <4> QED
        BY <2>1, <2>2, <2>4, <3>1, <4>1 DEF Ordered
    <3>2. CASE j > L /\ i > L
      <4>1. j - i < M
        BY <2>1, <3>2
      <4> QED
        BY <1>3, <2>1, <2>2, <2>3, <3>2, <4>1, SearchAssumption
    <3>3. CASE j > L /\ i \in 1..L
      BY <1>3, <2>1, <2>2, <2>3, <3>3
    <3> QED
      BY <2>1, <3>1, <3>2, <3>3
  <2> HIDE DEF L, M
  <2> QED
    BY <1>4, <2>1, <2>3, <2>4 DEF Ordered
<1> QED
  BY <1>4, <1>5 DEF Steady, OneAtATime, Settled

LEMMA SteadyReload ==
  ASSUME SteadyInv, calm, ReloadTable PROVE Steady'
<1>1. Steady
  BY DEF SteadyInv
<1>2. /\ reloads = 1 /\ requests = {} /\ appending = {}
  BY <1>1 DEF ReloadTable, Steady, OneAtATime
<1>3. /\ reloads' = 0 /\ requests' = {} /\ appending' = {} /\ ~wiped'
      /\ keepLoading' /\ ~trapped' /\ ~orphans' /\ UNCHANGED <<query, page, results>>
  BY <1>1, <1>2 DEF ReloadTable, Steady
<1>4. Ordered(results)'
  BY <1>1, <1>3 DEF Steady, Ordered
<1> QED
  BY <1>3, <1>4 DEF Steady, OneAtATime

LEMMA SteadyAnswered ==
  ASSUME SteadyInv, calm, BookmarkAnswered PROVE Steady'
<1>1. UNCHANGED <<query, page, keepLoading, results, rows, requests, appending, reloads,
                  orphans, trapped, wiped>>
  BY DEF BookmarkAnswered
<1> QED
  BY <1>1 DEF SteadyInv, Steady, OneAtATime, Ordered

LEMMA SteadyStep ==
  ASSUME SteadyInv, TypeOK', [Next]_vars PROVE SteadyInv'
<1>1. TableCatchesUp'
  BY TableStep DEF SteadyInv
<1>2. ASSUME calm' PROVE Steady'
  <2>1. CASE Next /\ Ask /\ calm' = (calm /\ Settled)
    BY <1>2, <2>1, SteadyAsk DEF Next
  <2>2. CASE Other /\ UNCHANGED calm
    BY <1>2, <2>2, SteadyArrival, SteadyAppend, SteadyReload, SteadyAnswered
       DEF Other, OrphanRuns, SteadyInv, Steady
  <2>3. CASE UNCHANGED vars
    <3>1. Steady
      BY <1>2, <2>3 DEF SteadyInv, vars
    <3> QED
      BY <2>3, <3>1 DEF vars, net, Steady, OneAtATime, Ordered, Settled
  <2> QED
    BY <1>2, <2>1, <2>2, <2>3 DEF Next
<1> QED
  BY <1>1, <1>2 DEF SteadyInv

LEMMA SteadyHolds == Spec => []SteadyInv
<1>1. Init => TypeOK /\ TableCatchesUp
  BY InitType DEF Init, TableCatchesUp
<1>2. Init => Steady
  BY DEF Init, Steady, OneAtATime, Ordered, Settled
<1>3. Init => SteadyInv
  BY <1>1, <1>2 DEF SteadyInv
<1>4. SteadyInv /\ TypeOK' /\ [Next]_vars => SteadyInv'
  BY SteadyStep
<1> QED
  BY <1>3, <1>4, FeedTypes, PTL DEF Spec

(***************************************************************************)
(* ResultsInOrder: a reader who waits for each page sees the pages of one  *)
(* query in their order (SearchResultsTableViewController.swift:80-86,     *)
(* 184-189, 223).                                                          *)
(***************************************************************************)
THEOREM ResultsInOrder == Spec => []PagesInOrder
<1>1. SteadyInv => PagesInOrder
  BY DEF SteadyInv, Steady, Ordered, PagesInOrder
<1> QED
  BY <1>1, SteadyHolds, PTL

(***************************************************************************)
(* TableStaysInRange: for a reader who waits, and while requests succeed,  *)
(* the table never asks for an article that is not there                   *)
(* (SearchResultsTableViewController.swift:79-116).                        *)
(***************************************************************************)
THEOREM TableStaysInRange == Spec => []SearchNeverTraps
<1>1. SteadyInv => SearchNeverTraps
  BY DEF SteadyInv, Steady, SearchNeverTraps
<1> QED
  BY <1>1, SteadyHolds, PTL
=============================================================================

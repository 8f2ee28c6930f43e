------------------------------- MODULE ForYouFeed -------------------------------
(***************************************************************************)
(* The feed chosen by interests and language: ForYouViewController,        *)
(* News.shared.allNews and Networking.getAllNews.                          *)
(*                                                                         *)
(* The controller observes two keys of UserDefaults, which other screens   *)
(* store and remove on the main thread.  URLSession runs the completions   *)
(* of its requests on a background queue: a refresh replaces allNews, a    *)
(* page is appended, and either posts a block that reloads the table.  The *)
(* controller goes with the home that holds its tab; what it left behind   *)
(* refers to it as unowned.                                                *)
(*                                                                         *)
(* An article is the wish (interests and language) and page it came from.  *)
(***************************************************************************)
EXTENDS Naturals, Sequences, FiniteSets

CONSTANTS
  Interest,      \* what a reader may be interested in
  Language,      \* languages of the results
  Unset,         \* the value of a key that is absent
  MaxArticles,   \* bound: articles of a page
  MaxPage,       \* bound: page asked for
  MaxSends,      \* bound: calls of getAllNews
  MaxFound       \* bound: results of a search

ASSUME FeedAssumption ==
  /\ Unset \notin Interest /\ Unset \notin Language
  /\ MaxArticles \in Nat /\ MaxPage \in Nat \ {0}
  /\ MaxSends \in Nat /\ MaxFound \in Nat

Wish    == [interests : Interest, language : Language \union {Unset}]
Article == [wish : Wish, page : Nat]
Request == [kind : {"refresh", "page"}, wish : Wish, page : Nat, nr : Nat,
            live : BOOLEAN]
Block   == [ends : BOOLEAN, live : BOOLEAN]
Growth  == [base : Seq(Article), news : Seq(Article), live : BOOLEAN]

VARIABLES
  interests, language,   \* UserDefaults
  found,        \* News.shared.searchResults.count, of the search screen
  open,         \* the tab was opened: its controller exists
  page,         \* currentPage
  keepLoading,
  allNews,      \* News.shared.allNews
  rows,         \* rows the table counted
  refreshing,   \* the refresh control spins
  requests,     \* requests without an answer; live: their controller exists
  sends,        \* calls of getAllNews so far
  appending,    \* the page the background queue is appending, with the list
                \* it read: none or one
  mainQueue,    \* blocks posted by the completions; ends: of a refresh
  bookmarks,    \* bookmark calls of rows without an answer: whether their
                \* controller exists; calls alike are one
  trapped,      \* a run-time check of the app's own code failed
  wiped,        \* history: the list was emptied since the table counted it
  lost,         \* history: since the reader pulled, a refresh failed or
                \* was not sent
  ignored,      \* history: the last tap was on an article and opened nothing
  calm          \* history: so far the reader waited for each answer, no
                \* request failed, the system had memory enough and no
                \* sign-in met a language that was left

keys  == <<interests, language, found>>
table == <<open, page, keepLoading, rows, refreshing>>
net   == <<requests, sends, appending, mainQueue, bookmarks>>
past  == <<wiped, lost, ignored>>
vars  == <<keys, table, allNews, net, trapped, past, calm>>

Settled == requests = {} /\ appending = {} /\ mainQueue = <<>>

Answered == Settled /\ bookmarks = {}

Wanted(i, l) == [interests |-> i, language |-> l]

\* The bound on the requests.
MaySend(n) == sends + n <= MaxSends

\* getAllNews, once for each wish; without interests it returns at once.
GetAllNews(kind, wishes, p) ==
  /\ sends' = sends + Len(wishes)
  /\ requests' = requests \union
       {[kind |-> kind, wish |-> wishes[k], page |-> p, nr |-> sends + k,
         live |-> TRUE] :
          k \in {n \in 1..Len(wishes) : wishes[n].interests # Unset}}
  /\ UNCHANGED <<appending, mainQueue, bookmarks>>

-----------------------------------------------------------------------------
Init ==
  /\ interests \in Interest \union {Unset}
  /\ language \in Language \union {Unset}
  /\ found = 0
  /\ open = FALSE /\ page = 1 /\ keepLoading = TRUE
  /\ rows = 0 /\ refreshing = FALSE
  /\ allNews = <<>>
  /\ requests = {} /\ sends = 0 /\ appending = {} /\ mainQueue = <<>>
  /\ bookmarks = {}
  /\ trapped = FALSE
  /\ wiped = FALSE /\ lost = FALSE /\ ignored = FALSE
  /\ calm = TRUE

\* viewDidLoad.
OpenTab ==
  /\ ~open /\ MaySend(1)
  /\ open' = TRUE
  /\ rows' = Len(allNews)
  /\ GetAllNews("page", <<Wanted(interests, language)>>, page)
  /\ UNCHANGED <<keys, page, keepLoading, refreshing, allNews, trapped, past>>

Dead(S) == {[x EXCEPT !.live = FALSE] : x \in S}

\* Another home replaces the one with the tab: deinit, and next time a new
\* controller.
LeaveHome ==
  /\ open
  /\ open' = FALSE /\ page' = 1 /\ keepLoading' = TRUE
  /\ rows' = 0 /\ refreshing' = FALSE
  /\ allNews' = <<>>
  /\ requests' = Dead(requests)
  /\ appending' = Dead(appending)
  /\ mainQueue' = [k \in 1..Len(mainQueue) |-> [mainQueue[k] EXCEPT !.live = FALSE]]
  /\ bookmarks' = {FALSE : live \in bookmarks}
  /\ wiped' = FALSE /\ lost' = FALSE /\ ignored' = FALSE
  /\ UNCHANGED <<keys, sends, trapped>>

-----------------------------------------------------------------------------
(* The keys, and the observer.                                             *)

\* handleRefresh for each change the observer is told of with both keys set.
Observe(wishes) ==
  /\ IF open /\ wishes # <<>>
       THEN /\ page' = 1
            /\ GetAllNews("refresh", wishes, 1)
       ELSE UNCHANGED <<page, net>>
  /\ UNCHANGED <<found, open, keepLoading, rows, refreshing, allNews, trapped,
                 past>>

\* A store of the value that is there may go unnoticed.
Told(old, new) == IF old = new THEN BOOLEAN ELSE {TRUE}

\* Mutant: the request is made before the interests are stored.
StoreInterestsTooLate(i) ==
  /\ MaySend(1)
  /\ interests' = i
  /\ \E told \in Told(interests, i) :
       Observe(IF told /\ language # Unset
               THEN <<Wanted(interests, language)>> ELSE <<>>)
  /\ UNCHANGED language

\* The editor of interests, or the refresh at launch.
StoreInterests(i) ==
  /\ MaySend(1)
  /\ interests' = i
  /\ \E told \in Told(interests, i) :
       Observe(IF told /\ language # Unset
               THEN <<Wanted(i, language)>> ELSE <<>>)
  /\ UNCHANGED language

\* The settings, or a sign-up.
StoreLanguage(l) ==
  /\ MaySend(1)
  /\ language' = l
  /\ \E told \in Told(language, l) :
       Observe(IF told /\ interests # Unset
               THEN <<Wanted(interests, l)>> ELSE <<>>)
  /\ UNCHANGED interests

\* Authentication.login stores the interests, then the language: two changes,
\* each with both keys set when a language was left.
LoginStores(i, l) ==
  /\ MaySend(2)
  /\ interests' = i /\ language' = l
  /\ \E first \in Told(interests, i), second \in Told(language, l) :
       Observe((IF first /\ language # Unset
                THEN <<Wanted(i, language)>> ELSE <<>>)
               \o (IF second THEN <<Wanted(i, l)>> ELSE <<>>))

\* removeUserInfo: the observer finds a key missing.
SignOut ==
  /\ interests' = Unset /\ language' = Unset
  /\ UNCHANGED <<found, table, allNews, net, trapped, past>>

\* Somebody searches on the other screen.
SearchShows(n) ==
  /\ found' = n
  /\ UNCHANGED <<interests, language, table, allNews, net, trapped, past>>

-----------------------------------------------------------------------------
(* The table.                                                              *)

\* Mutant: pages are counted from 0.
PullRefreshFromZero ==
  /\ open /\ ~refreshing /\ MaySend(1)
  /\ refreshing' = TRUE
  /\ page' = 0
  /\ GetAllNews("refresh", <<Wanted(interests, language)>>, 0)
  /\ lost' = (interests = Unset)
  /\ UNCHANGED <<keys, open, keepLoading, rows, allNews, trapped, wiped,
                 ignored>>

\* handleRefresh, from the refresh control: it does not fire while it spins.
PullRefresh ==
  /\ open /\ ~refreshing /\ MaySend(1)
  /\ refreshing' = TRUE
  /\ page' = 1
  /\ GetAllNews("refresh", <<Wanted(interests, language)>>, 1)
  /\ lost' = (interests = Unset)
  /\ UNCHANGED <<keys, open, keepLoading, rows, allNews, trapped, wiped,
                 ignored>>

\* The row behind the last article asks for the next page.  The table counts
\* no such row: it is one left from a longer list.
DrawLoading ==
  /\ open /\ Len(allNews) < rows /\ keepLoading
  /\ MaySend(1) /\ page < MaxPage
  /\ page' = page + 1
  /\ GetAllNews("page", <<Wanted(interests, language)>>, page + 1)
  /\ UNCHANGED <<keys, open, keepLoading, rows, refreshing, allNews, trapped,
                 past>>

\* The table asks for the cell of an article that is not there.
DrawMissing ==
  /\ open
  /\ \E row \in Len(allNews)..(rows - 1) : row # Len(allNews) \/ ~keepLoading
  /\ trapped' = TRUE
  /\ UNCHANGED <<keys, table, allNews, net, past>>

\* didSelectRowAt: the row that equals the count of the search's results is
\* taken for the loading row.
SelectRow(row) ==
  /\ open /\ row < rows
  /\ trapped' = (row # found /\ row >= Len(allNews))
  /\ ignored' = (row = found /\ row < Len(allNews))
  /\ UNCHANGED <<keys, table, allNews, net, wiped, lost>>

\* Save or Unsave, on a row.
SaveRow(row) ==
  /\ open /\ row < rows
  /\ IF row < Len(allNews)
       THEN bookmarks' = bookmarks \union {TRUE} /\ UNCHANGED trapped
       ELSE trapped' = TRUE /\ UNCHANGED bookmarks
  /\ UNCHANGED <<keys, table, allNews, requests, sends, appending, mainQueue, past>>

\* Its completion shows a message on the controller that asked.
BookmarkAnswered(live) ==
  /\ bookmarks' \in {bookmarks, bookmarks \ {live}}
  /\ trapped' = ~live
  /\ UNCHANGED <<keys, table, allNews, requests, sends, appending, mainQueue, past>>

MemoryWarning ==
  /\ open
  /\ allNews' = <<>>
  /\ wiped' = TRUE
  /\ UNCHANGED <<keys, table, net, trapped, lost, ignored>>

-----------------------------------------------------------------------------
(* The completions, on the background queue, and the blocks they post.     *)

News(r, n) == [k \in 1..n |-> [wish |-> r.wish, page |-> r.page]]

Arrives(r, kind) ==
  /\ r.kind = kind /\ appending = {}
  /\ requests' = requests \ {r}
  /\ UNCHANGED <<keys, open, page, rows, refreshing, sends, bookmarks, wiped, ignored>>

\* The closure reaches for a controller that is gone.
Orphan == trapped' = TRUE /\ UNCHANGED <<keepLoading, allNews, appending,
                                         mainQueue, lost>>

\* Mutants: no block is posted; it does not end the refresh.
RefreshedUnseen(r, n) ==
  /\ Arrives(r, "refresh")
  /\ IF r.live
       THEN /\ keepLoading' = TRUE
            /\ allNews' = News(r, n)
            /\ UNCHANGED <<appending, mainQueue, trapped, lost>>
       ELSE Orphan

RefreshedLikePage(r, n) ==
  /\ Arrives(r, "refresh")
  /\ IF r.live
       THEN /\ keepLoading' = TRUE
            /\ allNews' = News(r, n)
            /\ mainQueue' = Append(mainQueue, [ends |-> FALSE, live |-> TRUE])
            /\ UNCHANGED <<appending, trapped, lost>>
       ELSE Orphan

Refreshed(r, n) ==
  /\ Arrives(r, "refresh")
  /\ IF r.live
       THEN /\ keepLoading' = TRUE
            /\ allNews' = News(r, n)
            /\ mainQueue' = Append(mainQueue, [ends |-> TRUE, live |-> TRUE])
            /\ UNCHANGED <<appending, trapped, lost>>
       ELSE Orphan

PageArrives(r, n) ==
  /\ Arrives(r, "page")
  /\ IF r.live
       THEN /\ keepLoading' = TRUE
            /\ appending' = {[base |-> allNews, news |-> News(r, n),
                              live |-> TRUE]}
            /\ UNCHANGED <<allNews, mainQueue, trapped, lost>>
       ELSE Orphan

PageAppended ==
  /\ \E a \in appending :
       /\ allNews' = a.base \o a.news
       /\ mainQueue' = Append(mainQueue, [ends |-> FALSE, live |-> a.live])
  /\ appending' = {}
  /\ UNCHANGED <<keys, table, requests, sends, bookmarks, trapped, past>>

RequestFails(r) ==
  /\ Arrives(r, r.kind)
  /\ IF r.live
       THEN /\ keepLoading' = FALSE
            /\ lost' = (lost \/ r.kind = "refresh")
            /\ UNCHANGED <<allNews, appending, mainQueue, trapped>>
       ELSE Orphan

\* Mutants: the table counts a row to load more, as that of the search does;
\* a refresh that ends does not reload it.
RunBlockLikeSearch ==
  /\ mainQueue # <<>>
  /\ mainQueue' = Tail(mainQueue)
  /\ IF Head(mainQueue).live
       THEN /\ rows' = Len(allNews) + 1
            /\ refreshing' = (refreshing /\ ~Head(mainQueue).ends)
            /\ wiped' = FALSE
            /\ UNCHANGED trapped
       ELSE trapped' = TRUE /\ UNCHANGED <<rows, refreshing, wiped>>
  /\ UNCHANGED <<keys, open, page, keepLoading, allNews, requests, sends,
                 appending, bookmarks, lost, ignored>>

RunBlockEndingOnly ==
  /\ mainQueue # <<>>
  /\ mainQueue' = Tail(mainQueue)
  /\ IF Head(mainQueue).live
       THEN /\ rows' = IF Head(mainQueue).ends THEN rows ELSE Len(allNews)
            /\ refreshing' = (refreshing /\ ~Head(mainQueue).ends)
            /\ wiped' = FALSE
            /\ UNCHANGED trapped
       ELSE trapped' = TRUE /\ UNCHANGED <<rows, refreshing, wiped>>
  /\ UNCHANGED <<keys, open, page, keepLoading, allNews, requests, sends,
                 appending, bookmarks, lost, ignored>>

\* reloadData, and endRefreshing after a refresh.
RunBlock ==
  /\ mainQueue # <<>>
  /\ mainQueue' = Tail(mainQueue)
  /\ IF Head(mainQueue).live
       THEN /\ rows' = Len(allNews)
            /\ refreshing' = (refreshing /\ ~Head(mainQueue).ends)
            /\ wiped' = FALSE
            /\ UNCHANGED trapped
       ELSE trapped' = TRUE /\ UNCHANGED <<rows, refreshing, wiped>>
  /\ UNCHANGED <<keys, open, page, keepLoading, allNews, requests, sends,
                 appending, bookmarks, lost, ignored>>

-----------------------------------------------------------------------------
Store ==
  \/ \E i \in Interest : StoreInterests(i)
  \/ \E l \in Language : StoreLanguage(l)

SignIn == \E i \in Interest, l \in Language : LoginStores(i, l)

\* A patient reader does one of these when no answer is on its way.
Ask ==
  \/ OpenTab \/ LeaveHome \/ PullRefresh
  \/ DrawLoading \/ DrawMissing
  \/ \E row \in 0..(rows - 1) : SelectRow(row) \/ SaveRow(row)

Mishap == MemoryWarning \/ \E r \in requests : RequestFails(r)

Other ==
  \/ \E r \in requests, n \in 0..MaxArticles : Refreshed(r, n) \/ PageArrives(r, n)
  \/ PageAppended
  \/ RunBlock
  \/ \E live \in bookmarks : BookmarkAnswered(live)
  \/ SignOut
  \/ \E n \in 0..MaxFound : SearchShows(n)

Next ==
  /\ ~trapped
  /\ \/ (Ask \/ Store) /\ calm' = (calm /\ Answered)
     \/ SignIn /\ calm' = (calm /\ Answered /\ language = Unset)
     \/ Mishap /\ calm' = FALSE
     \/ Other /\ UNCHANGED calm

Spec == Init /\ [][Next]_vars

-----------------------------------------------------------------------------
(* The properties.                                                         *)

TypeOK ==
  /\ interests \in Interest \union {Unset}
  /\ language \in Language \union {Unset}
  /\ found \in Nat /\ rows \in Nat /\ sends \in Nat
  /\ page \in Nat \ {0}
  /\ open \in BOOLEAN /\ keepLoading \in BOOLEAN /\ refreshing \in BOOLEAN
  /\ trapped \in BOOLEAN /\ wiped \in BOOLEAN /\ lost \in BOOLEAN
  /\ ignored \in BOOLEAN /\ calm \in BOOLEAN
  /\ allNews \in Seq(Article)
  /\ requests \subseteq Request
  /\ appending \subseteq Growth
  /\ mainQueue \in Seq(Block)
  /\ bookmarks \subseteq BOOLEAN

(***************************************************************************)
(* FeedOfInterests: once everything is answered, the feed is of the        *)
(* interests and the language that are stored, whichever screen stored     *)
(* them and whether the tab was open by then, for a reader who waits and   *)
(* whose requests succeed.  Refreshes that overlap break it: the later     *)
(* answer stays (ForYouViewController.swift:41-42, 97, 285-286).           *)
(***************************************************************************)
FeedOfInterests ==
  calm /\ Settled /\ open /\ interests # Unset /\ language # Unset =>
    \A k \in 1..Len(allNews) : allNews[k].wish = Wanted(interests, language)

(***************************************************************************)
(* FeedCatchesUp: when no answer is on its way into the table, its rows    *)
(* are those of the list, or the list was emptied under it: for every      *)
(* reader, also one whose homes come and go                                *)
(* (ForYouViewController.swift:66, 100, 134).                              *)
(***************************************************************************)
FeedCatchesUp ==
  open /\ appending = {} /\ mainQueue = <<>> /\ ~wiped /\ ~trapped =>
    rows = Len(allNews)

(***************************************************************************)
(* SpinnerHasAnswer: the refresh control spins only while a refresh is     *)
(* under way, unless one failed or there were no interests to ask for:     *)
(* then it spins until the next change of interests                        *)
(* (ForYouViewController.swift:89-112, Networking.swift:81).               *)
(***************************************************************************)
SpinnerHasAnswer ==
  refreshing /\ ~lost =>
    \/ \E r \in requests : r.kind = "refresh" /\ r.live
    \/ \E k \in 1..Len(mainQueue) : mainQueue[k].ends /\ mainQueue[k].live

(***************************************************************************)
(* FeedNeverTraps: for a reader who waits, and while requests succeed, no  *)
(* row without an article is drawn, tapped or swiped and no closure, of a  *)
(* request or of a bookmark call, finds its controller gone                *)
(* (ForYouViewController.swift:93, 127, 165, 192, 225, 235).               *)
(***************************************************************************)
FeedNeverTraps == calm => ~trapped

(***************************************************************************)
(* OnlyFirstPage: such a reader sees one page, however far they scroll:    *)
(* the code that loads the next one waits for a row behind the last        *)
(* article, which this table does not count                                *)
(* (ForYouViewController.swift:152, 177-182).                              *)
(***************************************************************************)
OnlyFirstPage == calm => \A k \in 1..Len(allNews) : allNews[k].page = 1

(***************************************************************************)
(* TapOpens: a tap on an article opens it: "on activating a news item its  *)
(* real address can be opened" (README.md:3).                              *)
(***************************************************************************)
TapOpens == ~ignored
=============================================================================

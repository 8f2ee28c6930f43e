---------------------------- MODULE SavedArticles ----------------------------
(***************************************************************************)
(* The bookmarks of one signed-in reader: Networking.saveArticle,          *)
(* unsaveArticle, getSavedNews and updateSavedUrls, the lists savedNews    *)
(* and savedUrls of the News singleton, and the Firestore client they      *)
(* call.                                                                   *)
(*                                                                         *)
(* Every call is asynchronous.  The Firestore worker queue applies a write *)
(* to the local store at once, answers a query with a snapshot of the      *)
(* local store, and posts each completion to the main queue, where it runs *)
(* later, in posting order, between the reader's taps.                     *)
(*                                                                         *)
(* A document of users/<uid>/saved is a record: the article's url and the  *)
(* instant savedAt at which it was saved.                                  *)
(***************************************************************************)
EXTENDS Naturals, Sequences, FiniteSets

CONSTANTS
  Url,            \* the urls of the articles a reader can bookmark
  NoUrl,          \* the url of a completion that concerns no single article
  Initial,        \* documents of earlier launches the server may hold
  MaxDocs,        \* bound: documents ever created
  MaxInFlight,    \* bound: calls whose completion has not run
  MaxLaunches     \* bound: process starts

Doc == [savedAt : Nat, url : Url]

ASSUME ConstantsAssumption ==
  /\ NoUrl \notin Url
  /\ MaxDocs \in Nat
  /\ MaxInFlight \in Nat
  /\ MaxLaunches \in Nat
  /\ Initial \subseteq Doc
  /\ IsFiniteSet(Initial)
  /\ \A d \in Initial : d.savedAt < Cardinality(Initial)
  /\ \A d, e \in Initial : d.savedAt = e.savedAt => d = e

(***************************************************************************)
(* A pending query, and a completion posted to the main queue.             *)
(***************************************************************************)
Query == [kind : {"news", "urls"}, url : {NoUrl}, slot : Nat]
           \union [kind : {"unsave"}, url : Url, slot : Nat]

Kinds == {"saved", "saveFailed", "news", "newsFailed", "urls", "urlsFailed",
          "unsave", "unsaveFailed"}

Completion ==
  {c \in [kind : Kinds, url : Url \union {NoUrl}, docs : SUBSET Doc] :
     /\ IsFiniteSet(c.docs)
     /\ c.kind = "unsave" => \A d \in c.docs : d.url = c.url}

VARIABLES
  remote,       \* documents in the server's collection
  online,       \* whether the client reaches the server
  local,        \* documents in the local store, pending writes applied
  creates,      \* created documents the server has not acknowledged, in order
  deletes,      \* deleted documents the server has not acknowledged
  awaiting,     \* created documents whose completion is still registered
  queries,      \* getDocuments calls without an answer
  mainQueue,    \* completions posted to the main queue, not yet run
  savedNews,    \* News.shared.savedNews, each article with its document
  savedUrls,    \* the urls in News.shared.savedUrls (read with contains only)
  clock,        \* the next savedAt
  launches,     \* process starts so far
  known,        \* history: documents this launch has been told of
  dropped       \* history: documents the app has asked to delete

store   == <<remote, online, local, creates, deletes>>
calls   == <<awaiting, queries, mainQueue>>
lists   == <<savedNews, savedUrls>>
history == <<known, dropped>>
vars    == <<store, calls, lists, clock, launches, history>>

Matching(q, docs) ==
  IF q.kind = "unsave" THEN {d \in docs : d.url = q.url} ELSE docs

Urls(docs) == {d.url : d \in docs}

\* The results of a query ordered by savedAt, descending.
NewestFirst(docs) ==
  {s \in [1..Cardinality(docs) -> docs] :
     \A i, j \in 1..Cardinality(docs) :
       i < j => s[i].savedAt > s[j].savedAt}

\* The articles of s that have another url, in the order they have in s.
Without(url, s) ==
  LET others == {i \in 1..Len(s) : s[i].url # url}
      places == {f \in [1..Cardinality(others) -> others] :
                   \A k \in 1..Cardinality(others) :
                     Cardinality({i \in others : i <= f[k]}) = k}
  IN  {[k \in 1..Cardinality(others) |-> s[f[k]]] : f \in places}

InFlight == Cardinality(awaiting) + Cardinality(queries)
              + Len(SelectSeq(mainQueue,
                              LAMBDA m : m.kind \notin {"saved", "saveFailed"}))

FreeSlot(n) ==
  /\ \A q \in queries : q.slot # n
  /\ \A m \in 1..(n - 1) : \E q \in queries : q.slot = m

Post(kind, url, docs) ==
  mainQueue' = Append(mainQueue, [kind |-> kind, url |-> url, docs |-> docs])

-----------------------------------------------------------------------------
(* A launch with a signed-in reader: SceneDelegate loads the saved urls.   *)

LaunchQuery == [kind |-> "urls", url |-> NoUrl, slot |-> 1]

Init ==
  /\ remote = Initial
  /\ local \in {{}, Initial}
  /\ online \in BOOLEAN
  /\ creates = <<>> /\ deletes = {}
  /\ awaiting = {} /\ mainQueue = <<>>
  /\ queries = {LaunchQuery}
  /\ savedNews = <<>>
  /\ savedUrls = {}
  /\ clock = Cardinality(Initial)
  /\ launches = 1
  /\ known = {} /\ dropped = {}

\* The process ends (a crash, or the system kills it) and is started again:
\* the store and its unacknowledged writes persist, the closures do not.
Relaunch ==
  /\ launches < MaxLaunches
  /\ launches' = launches + 1
  /\ awaiting' = {} /\ mainQueue' = <<>>
  /\ queries' = {LaunchQuery}
  /\ savedNews' = <<>>
  /\ savedUrls' = {}
  /\ known' = {}
  /\ UNCHANGED <<store, clock, dropped>>

-----------------------------------------------------------------------------
(* The calls the screens make.                                             *)

SaveArticle(u) ==
  LET d == [savedAt |-> clock, url |-> u] IN
    /\ InFlight < MaxInFlight /\ clock < MaxDocs
    /\ clock' = clock + 1
    /\ local' = local \union {d}
    /\ creates' = Append(creates, d)
    /\ awaiting' = awaiting \union {d}
    /\ UNCHANGED <<remote, online, deletes, queries, mainQueue, lists,
                   launches, history>>

Ask(kind, u) ==
  /\ InFlight < MaxInFlight
  /\ \E n \in 1..MaxInFlight :
       /\ FreeSlot(n)
       /\ queries' = queries \union {[kind |-> kind, url |-> u, slot |-> n]}
  /\ UNCHANGED <<store, awaiting, mainQueue, lists, clock, launches, history>>

UnsaveArticle(u) == Ask("unsave", u)

GetSavedNews == Ask("news", NoUrl)

\* SavedNewsViewController.didReceiveMemoryWarning.
MemoryWarning ==
  /\ savedNews # <<>>
  /\ savedNews' = <<>>
  /\ UNCHANGED <<store, calls, savedUrls, clock, launches, history>>

-----------------------------------------------------------------------------
(* The Firestore worker queue.                                             *)

Connect ==
  /\ ~online
  /\ online' = TRUE
  /\ UNCHANGED <<remote, local, creates, deletes, calls, lists, clock,
                 launches, history>>

Disconnect ==
  /\ online
  /\ online' = FALSE
  /\ UNCHANGED <<remote, local, creates, deletes, calls, lists, clock,
                 launches, history>>

\* The completion of the oldest create, if this process registered one.
NotifyUser(kind, d) ==
  IF d \in awaiting THEN Post(kind, d.url, {d}) ELSE UNCHANGED mainQueue

CreateAcknowledged ==
  /\ online /\ creates # <<>>
  /\ creates' = Tail(creates)
  /\ remote' = remote \union {Head(creates)}
  /\ NotifyUser("saved", Head(creates))
  /\ UNCHANGED <<online, local, deletes, awaiting, queries, lists, clock,
                 launches, history>>

\* Mutant: a refused write forgets its completion.
CreateRejectedSilently ==
  /\ online /\ creates # <<>>
  /\ creates' = Tail(creates)
  /\ local' = local \ {Head(creates)}
  /\ UNCHANGED <<remote, online, deletes, calls, lists, clock, launches, history>>

\* Mutant: a refused write stays in the local store.
CreateRejectedKept ==
  /\ online /\ creates # <<>>
  /\ creates' = Tail(creates)
  /\ NotifyUser("saveFailed", Head(creates))
  /\ UNCHANGED <<remote, online, local, deletes, awaiting, queries, lists, clock,
                 launches, history>>

CreateRejected ==
  /\ online /\ creates # <<>>
  /\ creates' = Tail(creates)
  /\ local' = local \ {Head(creates)}
  /\ NotifyUser("saveFailed", Head(creates))
  /\ UNCHANGED <<remote, online, deletes, awaiting, queries, lists, clock,
                 launches, history>>

Queued(d) == \E i \in 1..Len(creates) : creates[i] = d

DeleteAcknowledged(d) ==
  /\ online /\ d \in deletes /\ ~Queued(d)
  /\ deletes' = deletes \ {d}
  /\ remote' = remote \ {d}
  /\ UNCHANGED <<online, local, creates, calls, lists, clock, launches,
                 history>>

DeleteRejected(d) ==
  /\ online /\ d \in deletes /\ ~Queued(d)
  /\ deletes' = deletes \ {d}
  /\ local' = local \union (remote \intersect {d})
  /\ UNCHANGED <<remote, online, creates, calls, lists, clock, launches,
                 history>>

\* Mutant: the snapshot shows the server's documents without pending writes.
ServerAnswersUncompensated(q) ==
  /\ online /\ q \in queries
  /\ queries' = queries \ {q}
  /\ local' = local \union Matching(q, remote)
  /\ Post(q.kind, q.url, Matching(q, remote))
  /\ UNCHANGED <<remote, online, creates, deletes, awaiting, lists, clock,
                 launches, history>>

\* The server answers a query: what matches on the server enters the local
\* store, under the pending writes, and the snapshot is posted.
ServerAnswers(q) ==
  LET synced == local \union Matching(q, remote \ deletes) IN
    /\ online /\ q \in queries
    /\ queries' = queries \ {q}
    /\ local' = synced
    /\ Post(q.kind, q.url, Matching(q, synced))
    /\ UNCHANGED <<remote, online, creates, deletes, awaiting, lists, clock,
                   launches, history>>

\* Offline, the first snapshot is raised from the local store.
CacheAnswers(q) ==
  /\ ~online /\ q \in queries
  /\ queries' = queries \ {q}
  /\ Post(q.kind, q.url, Matching(q, local))
  /\ UNCHANGED <<store, awaiting, lists, clock, launches, history>>

Failed(kind) == CASE kind = "news"   -> "newsFailed"
                  [] kind = "urls"   -> "urlsFailed"
                  [] kind = "unsave" -> "unsaveFailed"

QueryFails(q) ==
  /\ online /\ q \in queries
  /\ queries' = queries \ {q}
  /\ Post(Failed(q.kind), q.url, {})
  /\ UNCHANGED <<store, awaiting, lists, clock, launches, history>>

-----------------------------------------------------------------------------
(* The completions, run one at a time on the main queue.                   *)

\* Mutants: the article goes to the end of savedNews, its url is forgotten.
RunSavedAtEnd(m) ==
  /\ m.kind = "saved"
  /\ \E d \in m.docs : savedNews' = Append(savedNews, d)
  /\ savedUrls' = savedUrls \union Urls(m.docs)
  /\ awaiting' = awaiting \ m.docs
  /\ known' = known \union m.docs
  /\ UNCHANGED <<local, deletes, dropped>>

RunSavedUnmarked(m) ==
  /\ m.kind = "saved"
  /\ \E d \in m.docs : savedNews' = <<d>> \o savedNews
  /\ awaiting' = awaiting \ m.docs
  /\ known' = known \union m.docs
  /\ UNCHANGED <<local, deletes, savedUrls, dropped>>

\* saveArticle's completion: the article goes to the front of savedNews.
RunSaved(m) ==
  /\ m.kind = "saved"
  /\ \E d \in m.docs : savedNews' = <<d>> \o savedNews
  /\ savedUrls' = savedUrls \union Urls(m.docs)
  /\ awaiting' = awaiting \ m.docs
  /\ known' = known \union m.docs
  /\ UNCHANGED <<local, deletes, dropped>>

RunSaveFailed(m) ==
  /\ m.kind = "saveFailed"
  /\ awaiting' = awaiting \ m.docs
  /\ UNCHANGED <<local, deletes, lists, history>>

\* Mutants: savedUrls is emptied, savedUrls is not filtered.
RunUnsaveAll(m) ==
  /\ m.kind = "unsave"
  /\ local' = local \ m.docs
  /\ deletes' = deletes \union m.docs
  /\ dropped' = dropped \union m.docs
  /\ savedNews' \in Without(m.url, savedNews)
  /\ savedUrls' = {}
  /\ UNCHANGED <<awaiting, known>>

RunUnsaveUnfiltered(m) ==
  /\ m.kind = "unsave"
  /\ local' = local \ m.docs
  /\ deletes' = deletes \union m.docs
  /\ dropped' = dropped \union m.docs
  /\ savedNews' \in Without(m.url, savedNews)
  /\ UNCHANGED <<awaiting, savedUrls, known>>

\* unsaveArticle's completion: delete every document of the snapshot, then
\* filter both lists by url.
RunUnsave(m) ==
  /\ m.kind = "unsave"
  /\ local' = local \ m.docs
  /\ deletes' = deletes \union m.docs
  /\ dropped' = dropped \union m.docs
  /\ savedNews' \in Without(m.url, savedNews)
  /\ savedUrls' = savedUrls \ {m.url}
  /\ UNCHANGED <<awaiting, known>>

\* Mutant: the documents are stored instead of their urls.
RunUrlsRaw(m) ==
  /\ m.kind = "urls"
  /\ savedUrls' = m.docs
  /\ known' = known \union m.docs
  /\ UNCHANGED <<local, deletes, awaiting, savedNews, dropped>>

\* updateSavedUrls's completion.
RunUrls(m) ==
  /\ m.kind = "urls"
  /\ savedUrls' = Urls(m.docs)
  /\ known' = known \union m.docs
  /\ UNCHANGED <<local, deletes, awaiting, savedNews, dropped>>

\* getSavedNews's completion and the one SavedNewsViewController passes to it.
RunNews(m) ==
  /\ m.kind = "news"
  /\ savedUrls' = Urls(m.docs)
  /\ savedNews' \in NewestFirst(m.docs)
  /\ known' = known \union m.docs
  /\ UNCHANGED <<local, deletes, awaiting, dropped>>

\* SavedNewsViewController: savedNews = data ?? [].
RunNewsFailed(m) ==
  /\ m.kind = "newsFailed"
  /\ savedNews' = <<>>
  /\ UNCHANGED <<local, deletes, awaiting, savedUrls, history>>

RunOtherFailed(m) ==
  /\ m.kind \in {"urlsFailed", "unsaveFailed"}
  /\ UNCHANGED <<local, deletes, awaiting, lists, history>>

RunCompletion ==
  /\ mainQueue # <<>>
  /\ mainQueue' = Tail(mainQueue)
  /\ LET m == Head(mainQueue) IN
       \/ RunSaved(m)  \/ RunSaveFailed(m) \/ RunUnsave(m) \/ RunUrls(m)
       \/ RunNews(m)   \/ RunNewsFailed(m) \/ RunOtherFailed(m)
  /\ UNCHANGED <<remote, online, creates, queries, clock, launches>>

-----------------------------------------------------------------------------

Next ==
  \/ Relaunch
  \/ \E u \in Url : SaveArticle(u) \/ UnsaveArticle(u)
  \/ GetSavedNews
  \/ MemoryWarning
  \/ Connect
  \/ Disconnect
  \/ CreateAcknowledged
  \/ CreateRejected
  \/ \E d \in deletes : DeleteAcknowledged(d) \/ DeleteRejected(d)
  \/ \E q \in queries : ServerAnswers(q) \/ CacheAnswers(q) \/ QueryFails(q)
  \/ RunCompletion

Spec == Init /\ [][Next]_vars

(***************************************************************************)
(* The main queue and the worker queue keep running; Firestore retries an  *)
(* unacknowledged write whenever it is connected, and every query gets its *)
(* first snapshot, from the server or, offline, from the cache.  That the  *)
(* network always comes back is an assumption on the environment.          *)
(***************************************************************************)
Answer(q) == ServerAnswers(q) \/ CacheAnswers(q) \/ QueryFails(q)

Fairness ==
  /\ WF_vars(RunCompletion)
  /\ WF_vars(Connect)
  /\ SF_vars(CreateAcknowledged \/ CreateRejected)
  /\ \A n \in 1..MaxInFlight :
       WF_vars(\E q \in queries : q.slot = n /\ Answer(q))

FairSpec == Spec /\ Fairness

-----------------------------------------------------------------------------
(* The properties.                                                         *)

TypeOK ==
  /\ remote \subseteq Doc /\ local \subseteq Doc
  /\ IsFiniteSet(remote) /\ IsFiniteSet(local)
  /\ online \in BOOLEAN
  /\ creates \in Seq(Doc) /\ deletes \subseteq Doc
  /\ awaiting \subseteq Doc
  /\ queries \subseteq Query
  /\ mainQueue \in Seq(Completion)
  /\ savedNews \in Seq(Doc) /\ savedUrls \subseteq Url
  /\ clock \in Nat /\ launches \in Nat
  /\ known \subseteq Doc /\ dropped \subseteq Doc

\* The documents this launch was told of and has not asked to delete.
Kept == (known \intersect local) \ dropped

(***************************************************************************)
(* NoLostBookmark: once a save was confirmed, or a load showed a document, *)
(* its url stays in savedUrls until the reader unsaves it, whatever loads, *)
(* saves and unsaves overlap: the article keeps its bookmark icon          *)
(* (Networking.swift:159, 179, 198-211, 228-232).                          *)
(***************************************************************************)
NoLostBookmark == \A d \in Kept : d.url \in savedUrls

(***************************************************************************)
(* NoPhantom: a url in savedUrls belongs to a document that exists.  It is *)
(* a property of a reader who waits for each completion, and SavedScreens  *)
(* states it for one: overlapping calls break it (a save confirmed after   *)
(* the unsave that deleted its document puts the url back,                 *)
(* Networking.swift:158-159).                                              *)
(***************************************************************************)
NoPhantom == \A u \in savedUrls :
  \E d \in known \intersect local : d.url = u

(***************************************************************************)
(* SavedNewsNewestFirst: the Saved screen lists existing documents, newest *)
(* first and none twice, although one path sorts (the query's order by     *)
(* savedAt) and the other inserts at the front (Networking.swift:158, 192).*)
(* For a reader who waits for each completion, in SavedScreens.            *)
(***************************************************************************)
SavedNewsNewestFirst ==
  /\ \A i \in 1..Len(savedNews) : savedNews[i] \in local
  /\ \A i, j \in 1..Len(savedNews) :
       i < j => savedNews[i].savedAt > savedNews[j].savedAt

(***************************************************************************)
(* SaveSettles: every save gets its completion (Networking.swift:154-163), *)
(* so the reader is told, also after any time offline.                     *)
(***************************************************************************)
SaveSettles ==
  \A u \in Url, n \in 0..(MaxDocs - 1) :
    LET d == [savedAt |-> n, url |-> u]
    IN  d \in awaiting ~> d \notin awaiting

(***************************************************************************)
(* WritesAccounted: the safety half of SaveSettles.  A save whose caller   *)
(* still waits is either queued or answered by one posted completion,      *)
(* never both and never twice, and no completion is posted for a save of   *)
(* an earlier launch (Networking.swift:154-163).  Whatever the local store *)
(* shows is on the server or on its way there: a refused save or an        *)
(* acknowledged delete leaves no article behind.  And a document the app   *)
(* asked to delete is gone for good, or its delete is on its way, or was   *)
(* refused and the document is back (Networking.swift:173-175).            *)
(***************************************************************************)
Answers(i, d) ==
  mainQueue[i].kind \in {"saved", "saveFailed"} /\ d \in mainQueue[i].docs

Answered(d) == \E i \in 1..Len(mainQueue) : Answers(i, d)

SavesTracked == \A d \in awaiting : Queued(d) <=> ~Answered(d)

AnsweredOnce == \A i \in 1..Len(mainQueue) : \A d \in mainQueue[i].docs :
  Answers(i, d) => /\ d \in awaiting
                   /\ \A j \in 1..Len(mainQueue) : Answers(j, d) => i = j

StoreBacked ==
  /\ \A d \in local \ remote : Queued(d)
  /\ deletes \intersect local = {}

DeletesTracked == \A d \in dropped :
  d \in remote \/ Queued(d) => d \in deletes \/ d \in local

WritesAccounted == SavesTracked /\ AnsweredOnce /\ StoreBacked /\ DeletesTracked

(***************************************************************************)
(* UnsaveHolds: no answer of the server, however late, brings back an      *)
(* article the reader unsaved; only the refusal of its delete does, which  *)
(* the app is not told of (Networking.swift:173-175).                      *)
(***************************************************************************)
UnsaveHolds == [][\A d \in dropped : d \in local' \ local => DeleteRejected(d)]_vars

(***************************************************************************)
(* The inductive strengthening of NoLostBookmark.                          *)
(***************************************************************************)
Tells(m) == IF m.kind \in {"saved", "news", "urls"} THEN m.docs ELSE {}

\* The app knows d, or will before the i-th posted completion runs.
ToldBefore(i, d) ==
  d \in known \/ \E j \in 1..(i - 1) : d \in Tells(mainQueue[j])

Told(d) == ToldBefore(Len(mainQueue) + 1, d)

\* A document gets a savedAt no other document had before it.
FreshClock ==
  /\ \A d \in remote \union local \union dropped \union known : d.savedAt < clock
  /\ \A j \in 1..Len(mainQueue) :
       \A d \in mainQueue[j].docs : d.savedAt < clock

\* A create waits once, and the server does not hold its document yet.
CreatesPending ==
  /\ \A i \in 1..Len(creates) :
       creates[i] \notin remote /\ creates[i] \in local \union dropped
  /\ \A i, j \in 1..Len(creates) : creates[i] = creates[j] => i = j

DeletesAsked == deletes \subseteq dropped

\* The local store forgets no document the app was told of.
ToldIsLocal == \A d \in remote : Told(d) => d \in local \union dropped

\* A snapshot a completion will use, and the documents it answers for.
Covers(m, d) ==
  m.kind \in {"news", "urls"} \/ (m.kind = "unsave" /\ d.url = m.url)

\* It holds every document the app is told of before it runs.
SnapshotsCover ==
  \A i \in 1..Len(mainQueue), d \in local \ dropped :
    ToldBefore(i, d) /\ Covers(mainQueue[i], d) => d \in mainQueue[i].docs

IInv ==
  /\ TypeOK
  /\ FreshClock
  /\ CreatesPending
  /\ DeletesAsked
  /\ ToldIsLocal
  /\ SnapshotsCover
  /\ NoLostBookmark

(***************************************************************************)
(* ImplementsBookmarks: what the app knows to be kept and what savedUrls   *)
(* holds behave as Bookmarks promises, step by step.                       *)
(***************************************************************************)
Promise == INSTANCE Bookmarks WITH
  kept   <- Urls(Kept),
  marked <- savedUrls

ImplementsBookmarks == Promise!Spec
=============================================================================

-------------------------- MODULE SavedArticlesProofs --------------------------
(***************************************************************************)
(* Proofs about SavedArticles, for every set of urls, every content of the *)
(* server and every bound: the type invariant, NoLostBookmark,             *)
(* WritesAccounted, and that SavedArticles implements Bookmarks.           *)
(***************************************************************************)
EXTENDS SavedArticles, TLAPS, FiniteSetTheorems

-----------------------------------------------------------------------------
(* Lemmas about the main queue.                                            *)

LEMMA QueuedType ==
  ASSUME TypeOK, NEW j \in 1..Len(mainQueue)
  PROVE  /\ mainQueue[j] \in Completion
         /\ mainQueue[j].kind \in Kinds /\ mainQueue[j].docs \in SUBSET Doc
<1>1. mainQueue[j] \in Completion
  BY DEF TypeOK
<1> QED
  BY <1>1 DEF Completion

\* Posting a completion adds it at the end and leaves the others in place.
LEMMA PostAppends ==
  ASSUME TypeOK, NEW m \in Completion, mainQueue' = Append(mainQueue, m)
  PROVE  /\ mainQueue' \in Seq(Completion)
         /\ Len(mainQueue') = Len(mainQueue) + 1
         /\ \A i \in 1..Len(mainQueue) : mainQueue'[i] = mainQueue[i]
         /\ mainQueue'[Len(mainQueue) + 1] = m
  BY DEF TypeOK

\* What the app is told before a completion does not depend on later posts.
LEMMA ToldAfterPost ==
  ASSUME TypeOK, NEW m \in Completion, mainQueue' = Append(mainQueue, m),
         UNCHANGED known
  PROVE  /\ \A i \in 1..(Len(mainQueue) + 1), d \in Doc :
              ToldBefore(i, d)' <=> ToldBefore(i, d)
         /\ \A d \in Doc : Told(d)' <=> Told(d) \/ d \in Tells(m)
<1>1. /\ Len(mainQueue) \in Nat
      /\ Len(mainQueue') = Len(mainQueue) + 1
      /\ \A i \in 1..Len(mainQueue) : mainQueue'[i] = mainQueue[i]
      /\ mainQueue'[Len(mainQueue) + 1] = m
  BY PostAppends DEF TypeOK
<1>2. ASSUME NEW i \in 1..(Len(mainQueue) + 1), NEW d \in Doc
      PROVE  ToldBefore(i, d)' <=> ToldBefore(i, d)
  <2>1. \A j \in 1..(i - 1) : mainQueue'[j] = mainQueue[j]
    BY <1>1
  <2> QED
    BY <2>1 DEF ToldBefore, Tells
<1>3. ASSUME NEW d \in Doc
      PROVE  Told(d)' <=> Told(d) \/ d \in Tells(m)
  BY <1>1 DEF Told, ToldBefore, Tells
<1> QED
  BY <1>2, <1>3

\* Running the first completion, once its documents are known, leaves the
\* others told what they were told before.
LEMMA ToldAfterRun ==
  ASSUME TypeOK, mainQueue # <<>>, mainQueue' = Tail(mainQueue),
         known' = known \union Tells(Head(mainQueue))
  PROVE  /\ Len(mainQueue') = Len(mainQueue) - 1
         /\ \A i \in 1..Len(mainQueue') : mainQueue'[i] = mainQueue[i + 1]
         /\ \A i \in 1..Len(mainQueue), d \in Doc :
              ToldBefore(i, d)' <=> ToldBefore(i + 1, d)
         /\ \A d \in Doc : Told(d)' <=> Told(d)
<1>1. /\ Len(mainQueue) \in Nat \ {0}
      /\ Len(mainQueue') = Len(mainQueue) - 1
      /\ \A i \in 1..Len(mainQueue') : mainQueue'[i] = mainQueue[i + 1]
      /\ Head(mainQueue) = mainQueue[1]
  BY DEF TypeOK
<1>2. ASSUME NEW i \in 1..Len(mainQueue), NEW d \in Doc
      PROVE  ToldBefore(i, d)' <=> ToldBefore(i + 1, d)
  <2>1. ToldBefore(i, d)' <=>
          \/ d \in known \/ d \in Tells(mainQueue[1])
          \/ \E j \in 1..(i - 1) : d \in Tells(mainQueue[j + 1])
    <3>1. \A j \in 1..(i - 1) : mainQueue'[j] = mainQueue[j + 1]
      BY <1>1
    <3> QED
      BY <1>1, <3>1 DEF ToldBefore, Tells
  <2>2. (\E j \in 1..(i - 1) : d \in Tells(mainQueue[j + 1]))
          <=> \E k \in 2..i : d \in Tells(mainQueue[k])
    <3>1. \A j \in 1..(i - 1) : j + 1 \in 2..i
      OBVIOUS
    <3>2. \A k \in 2..i : k - 1 \in 1..(i - 1) /\ (k - 1) + 1 = k
      OBVIOUS
    <3> QED
      BY <3>1, <3>2
  <2>3. ToldBefore(i + 1, d) <=>
          \/ d \in known \/ d \in Tells(mainQueue[1])
          \/ \E k \in 2..i : d \in Tells(mainQueue[k])
    BY <1>1 DEF ToldBefore
  <2> QED
    BY <2>1, <2>2, <2>3
<1>3. \A d \in Doc : Told(d)' <=> Told(d)
  BY <1>1, <1>2 DEF Told
<1> QED
  BY <1>1, <1>2, <1>3

-----------------------------------------------------------------------------
(* The type invariant.                                                     *)

LEMMA InitType == Init => TypeOK
<1> SUFFICES ASSUME Init PROVE TypeOK
  OBVIOUS
<1>1. Cardinality(Initial) \in Nat
  BY ConstantsAssumption, FS_CardinalityType
<1>2. local \subseteq Doc /\ IsFiniteSet(local)
  BY FS_EmptySet, ConstantsAssumption DEF Init
<1>3. <<>> \in Seq(Completion) /\ <<>> \in Seq(Doc)
  OBVIOUS
<1> QED
  BY <1>1, <1>2, <1>3, ConstantsAssumption
     DEF Init, TypeOK, LaunchQuery, Query, Completion

LEMMA PostType ==
  ASSUME TypeOK, NEW kind \in Kinds, NEW url \in Url \union {NoUrl},
         NEW docs \in SUBSET Doc, IsFiniteSet(docs), Post(kind, url, docs),
         kind = "unsave" => \A d \in docs : d.url = url
  PROVE  mainQueue' \in Seq(Completion)
<1>1. [kind |-> kind, url |-> url, docs |-> docs] \in Completion
  BY DEF Completion
<1> QED
  BY <1>1, PostAppends DEF Post

LEMMA QueryType ==
  ASSUME TypeOK, NEW q \in queries
  PROVE  /\ q.kind \in Kinds /\ Failed(q.kind) \in Kinds
         /\ q.url \in Url \union {NoUrl}
         /\ \A docs \in SUBSET Doc :
              /\ Matching(q, docs) \in SUBSET docs
              /\ q.kind = "unsave" => \A d \in Matching(q, docs) : d.url = q.url
         /\ Failed(q.kind) # "unsave"
<1>1. q \in Query
  BY DEF TypeOK
<1>2. q.kind \in {"news", "urls", "unsave"} /\ q.url \in Url \union {NoUrl}
  BY <1>1 DEF Query
<1> QED
  BY <1>2 DEF Kinds, Failed, Matching

\* The two ways in which a list is computed from others give lists.
LEMMA NewestFirstType ==
  ASSUME NEW docs \in SUBSET Doc, IsFiniteSet(docs), NEW s \in NewestFirst(docs)
  PROVE  s \in Seq(Doc)
<1>1. Cardinality(docs) \in Nat
  BY FS_CardinalityType
<1>2. s \in [1..Cardinality(docs) -> docs]
  BY DEF NewestFirst
<1> QED
  BY <1>1, <1>2

LEMMA WithoutType ==
  ASSUME NEW url, NEW s \in Seq(Doc), NEW t \in Without(url, s)
  PROVE  t \in Seq(Doc)
<1> DEFINE others == {i \in 1..Len(s) : s[i].url # url}
           n == Cardinality(others)
<1>1. n \in Nat
  <2>1. IsFiniteSet(1..Len(s)) /\ others \subseteq 1..Len(s)
    BY FS_Interval
  <2> QED
    BY <2>1, FS_Subset, FS_CardinalityType
<1>2. PICK f \in [1..n -> others] : t = [k \in 1..n |-> s[f[k]]]
  BY DEF Without
<1>3. \A k \in 1..n : s[f[k]] \in Doc
  BY <1>2
<1> HIDE DEF n
<1> QED
  BY <1>1, <1>2, <1>3

LEMMA NextType == TypeOK /\ [Next]_vars => TypeOK'
<1> SUFFICES ASSUME TypeOK, [Next]_vars PROVE TypeOK'
  OBVIOUS
<1> USE DEF store, calls, lists, history
<1>1. CASE Relaunch
  BY <1>1 DEF Relaunch, TypeOK, LaunchQuery, Query
<1>2. ASSUME NEW u \in Url, SaveArticle(u) PROVE TypeOK'
  <2> DEFINE d == [savedAt |-> clock, url |-> u]
  <2>1. d \in Doc
    BY DEF TypeOK, Doc
  <2>2. Append(creates, d) \in Seq(Doc)
    BY <2>1 DEF TypeOK
  <2>4. IsFiniteSet(local \union {d})
    BY FS_AddElement DEF TypeOK
  <2> HIDE DEF d
  <2>3. /\ clock' = clock + 1
        /\ local' = local \union {d}
        /\ creates' = Append(creates, d)
        /\ awaiting' = awaiting \union {d}
        /\ UNCHANGED <<remote, online, deletes, queries, mainQueue, lists,
                       launches, history>>
    BY <1>2 DEF SaveArticle, d
  <2> QED
    BY <2>1, <2>2, <2>3, <2>4 DEF TypeOK
<1>3. ASSUME NEW u \in Url, UnsaveArticle(u) PROVE TypeOK'
  <2>1. PICK n \in 1..MaxInFlight :
          queries' = queries \union {[kind |-> "unsave", url |-> u, slot |-> n]}
    BY <1>3 DEF UnsaveArticle, Ask
  <2>2. [kind |-> "unsave", url |-> u, slot |-> n] \in Query
    BY DEF Query
  <2> QED
    BY <1>3, <2>1, <2>2 DEF UnsaveArticle, Ask, TypeOK
<1>4. CASE GetSavedNews
  <2>1. PICK n \in 1..MaxInFlight :
          queries' = queries \union {[kind |-> "news", url |-> NoUrl, slot |-> n]}
    BY <1>4 DEF GetSavedNews, Ask
  <2>2. [kind |-> "news", url |-> NoUrl, slot |-> n] \in Query
    BY DEF Query
  <2> QED
    BY <1>4, <2>1, <2>2 DEF GetSavedNews, Ask, TypeOK
<1>5. CASE MemoryWarning
  BY <1>5 DEF MemoryWarning, TypeOK
<1>6. CASE Connect
  BY <1>6 DEF Connect, TypeOK
<1>7. CASE Disconnect
  BY <1>7 DEF Disconnect, TypeOK
<1>8. CASE CreateAcknowledged
  <2>1. Head(creates) \in Doc /\ Tail(creates) \in Seq(Doc)
    BY <1>8 DEF CreateAcknowledged, TypeOK
  <2>2. mainQueue' \in Seq(Completion)
    <3>1. NotifyUser("saved", Head(creates))
      BY <1>8 DEF CreateAcknowledged
    <3>2. /\ Head(creates).url \in Url /\ "saved" \in Kinds
          /\ IsFiniteSet({Head(creates)})
      BY <2>1, FS_Singleton DEF Doc, Kinds
    <3> QED
      BY <2>1, <3>1, <3>2, PostType DEF NotifyUser, TypeOK
  <2>3. IsFiniteSet(remote \union {Head(creates)})
    BY FS_AddElement DEF TypeOK
  <2> QED
    BY <1>8, <2>1, <2>2, <2>3 DEF CreateAcknowledged, TypeOK
<1>9. CASE CreateRejected
  <2>1. Head(creates) \in Doc /\ Tail(creates) \in Seq(Doc)
    BY <1>9 DEF CreateRejected, TypeOK
  <2>2. mainQueue' \in Seq(Completion)
    <3>1. NotifyUser("saveFailed", Head(creates))
      BY <1>9 DEF CreateRejected
    <3>2. /\ Head(creates).url \in Url /\ "saveFailed" \in Kinds
          /\ IsFiniteSet({Head(creates)})
      BY <2>1, FS_Singleton DEF Doc, Kinds
    <3> QED
      BY <2>1, <3>1, <3>2, PostType DEF NotifyUser, TypeOK
  <2>3. IsFiniteSet(local \ {Head(creates)})
    BY FS_Subset DEF TypeOK
  <2> QED
    BY <1>9, <2>1, <2>2, <2>3 DEF CreateRejected, TypeOK
<1>10. ASSUME NEW d \in deletes, DeleteAcknowledged(d) \/ DeleteRejected(d)
       PROVE  TypeOK'
  <2>1. IsFiniteSet(remote \ {d}) /\ IsFiniteSet(remote \intersect {d})
    BY FS_Subset DEF TypeOK
  <2>2. IsFiniteSet(local \union (remote \intersect {d}))
    BY <2>1, FS_Union DEF TypeOK
  <2> QED
    BY <1>10, <2>1, <2>2 DEF DeleteAcknowledged, DeleteRejected, TypeOK
<1>11. ASSUME NEW q \in queries, ServerAnswers(q) PROVE TypeOK'
  <2> DEFINE synced == local \union Matching(q, remote \ deletes)
  <2>1. /\ synced \in SUBSET Doc /\ Matching(q, synced) \in SUBSET synced
        /\ Matching(q, remote \ deletes) \in SUBSET remote
    BY QueryType DEF TypeOK
  <2>2. IsFiniteSet(synced)
    BY <2>1, FS_Subset, FS_Union DEF TypeOK
  <2>3. IsFiniteSet(Matching(q, synced)) /\ Matching(q, synced) \in SUBSET Doc
    BY <2>1, <2>2, FS_Subset
  <2>4. Post(q.kind, q.url, Matching(q, synced)) /\ local' = synced
    BY <1>11 DEF ServerAnswers
  <2> HIDE DEF synced
  <2>5. mainQueue' \in Seq(Completion)
    BY <2>1, <2>3, <2>4, QueryType, PostType
  <2> QED
    BY <1>11, <2>1, <2>2, <2>4, <2>5 DEF ServerAnswers, TypeOK
<1>12. ASSUME NEW q \in queries, CacheAnswers(q) PROVE TypeOK'
  <2>1. mainQueue' \in Seq(Completion)
    <3>1. Matching(q, local) \in SUBSET local
      BY QueryType DEF TypeOK
    <3>2. IsFiniteSet(Matching(q, local))
      BY <3>1, FS_Subset DEF TypeOK
    <3> QED
      BY <1>12, <3>1, <3>2, QueryType, PostType DEF CacheAnswers, TypeOK
  <2> QED
    BY <1>12, <2>1 DEF CacheAnswers, TypeOK
<1>13. ASSUME NEW q \in queries, QueryFails(q) PROVE TypeOK'
  <2>1. mainQueue' \in Seq(Completion)
    BY <1>13, QueryType, PostType, FS_EmptySet DEF QueryFails, TypeOK
  <2> QED
    BY <1>13, <2>1 DEF QueryFails, TypeOK
<1>14. CASE RunCompletion
  <2> DEFINE m == Head(mainQueue)
  <2>1. m \in Completion /\ Tail(mainQueue) \in Seq(Completion)
    BY <1>14 DEF RunCompletion, TypeOK
  <2>2. /\ m.kind \in Kinds /\ m.url \in Url \union {NoUrl}
        /\ m.docs \in SUBSET Doc /\ IsFiniteSet(m.docs)
    BY <2>1 DEF Completion
  <2> HIDE DEF m
  <2>3. /\ mainQueue' = Tail(mainQueue)
        /\ \/ RunSaved(m)  \/ RunSaveFailed(m) \/ RunUnsave(m) \/ RunUrls(m)
           \/ RunNews(m)   \/ RunNewsFailed(m) \/ RunOtherFailed(m)
        /\ UNCHANGED <<remote, online, creates, queries, clock, launches>>
    BY <1>14 DEF RunCompletion, m
  <2>4. Urls(m.docs) \subseteq Url
    BY <2>2 DEF Urls, Doc
  <2>5. savedNews' \in Seq(Doc)
    <3>1. CASE RunSaved(m)
      <4>1. PICK d \in m.docs : savedNews' = <<d>> \o savedNews
        BY <3>1 DEF RunSaved
      <4>2. <<d>> \in Seq(Doc)
        BY <2>2
      <4> QED
        BY <4>1, <4>2 DEF TypeOK
    <3>2. CASE RunUnsave(m)
      BY <3>2, WithoutType DEF RunUnsave, TypeOK
    <3>3. CASE RunNews(m)
      BY <2>2, <3>3, NewestFirstType DEF RunNews
    <3>4. CASE savedNews' = savedNews \/ savedNews' = <<>>
      <4>1. <<>> \in Seq(Doc)
        OBVIOUS
      <4> QED
        BY <3>4, <4>1 DEF TypeOK
    <3>5. CASE RunSaveFailed(m) \/ RunUrls(m) \/ RunNewsFailed(m) \/ RunOtherFailed(m)
      BY <3>4, <3>5 DEF RunSaveFailed, RunUrls, RunNewsFailed, RunOtherFailed
    <3> QED
      BY <2>3, <3>1, <3>2, <3>3, <3>5
  <2>6. IsFiniteSet(local \ m.docs)
    BY FS_Subset DEF TypeOK
  <2> QED
    BY <2>1, <2>2, <2>3, <2>4, <2>5, <2>6
       DEF RunSaved, RunSaveFailed, RunUnsave, RunUrls, RunNews, RunNewsFailed,
           RunOtherFailed, TypeOK
<1>15. CASE UNCHANGED vars
  BY <1>15 DEF vars, TypeOK
<1> QED
  BY <1>1, <1>2, <1>3, <1>4, <1>5, <1>6, <1>7, <1>8, <1>9, <1>10, <1>11,
     <1>12, <1>13, <1>14, <1>15 DEF Next

THEOREM TypeCorrect == Spec => []TypeOK
BY InitType, NextType, PTL DEF Spec

-----------------------------------------------------------------------------
(* The inductive invariant.                                                *)

LEMMA InitInv == Init => IInv
<1> SUFFICES ASSUME Init PROVE IInv
  OBVIOUS
<1>1. TypeOK
  BY InitType
<1>2. mainQueue = <<>> /\ creates = <<>> /\ Len(mainQueue) = 0 /\ Len(creates) = 0
  BY DEF Init
<1>3. FreshClock
  BY <1>2, ConstantsAssumption DEF Init, FreshClock
<1>4. CreatesPending /\ DeletesAsked /\ SnapshotsCover
  BY <1>2 DEF Init, CreatesPending, DeletesAsked, SnapshotsCover
<1>5. ToldIsLocal
  BY <1>2 DEF Init, ToldIsLocal, Told, ToldBefore
<1>6. NoLostBookmark
  BY DEF Init, NoLostBookmark, Kept
<1> QED
  BY <1>1, <1>3, <1>4, <1>5, <1>6 DEF IInv

\* Whatever the app was told of has an earlier savedAt than the next save.
LEMMA ToldIsOld ==
  ASSUME TypeOK, FreshClock, NEW d \in Doc, Told(d)
  PROVE  d.savedAt < clock
<1>1. CASE d \in known
  BY <1>1 DEF FreshClock
<1>2. CASE \E j \in 1..Len(mainQueue) : d \in Tells(mainQueue[j])
  BY <1>2 DEF FreshClock, Tells
<1>3. Len(mainQueue) \in Nat
  BY DEF TypeOK
<1> QED
  BY <1>1, <1>2, <1>3 DEF Told, ToldBefore

\* ToldBefore grows along the queue.
LEMMA ToldGrows ==
  ASSUME TypeOK, NEW i \in 1..(Len(mainQueue) + 1), NEW d, ToldBefore(i, d)
  PROVE  Told(d)
<1>1. Len(mainQueue) \in Nat /\ 1..(i - 1) \subseteq 1..Len(mainQueue)
  BY DEF TypeOK
<1> QED
  BY <1>1 DEF Told, ToldBefore

LEMMA ToldUnchanged ==
  ASSUME UNCHANGED <<mainQueue, known>>
  PROVE  /\ \A i, d : ToldBefore(i, d)' <=> ToldBefore(i, d)
         /\ \A d : Told(d)' <=> Told(d)
BY DEF ToldBefore, Told, Tells

\* Steps that touch none of the variables the invariant speaks of.
LEMMA UnrelatedStep ==
  ASSUME IInv, TypeOK',
         UNCHANGED <<remote, local, creates, deletes, mainQueue, savedUrls,
                     clock, known, dropped>>
  PROVE  IInv'
<1>1. /\ \A i, d : ToldBefore(i, d)' <=> ToldBefore(i, d)
      /\ \A d : Told(d)' <=> Told(d)
  BY ToldUnchanged
<1>2. FreshClock' /\ CreatesPending' /\ DeletesAsked'
  BY DEF IInv, FreshClock, CreatesPending, DeletesAsked
<1>3. ToldIsLocal' /\ SnapshotsCover'
  BY <1>1 DEF IInv, ToldIsLocal, SnapshotsCover, Covers
<1>4. NoLostBookmark'
  BY DEF IInv, NoLostBookmark, Kept
<1> QED
  BY <1>2, <1>3, <1>4 DEF IInv

LEMMA RelaunchStep == ASSUME IInv, TypeOK', Relaunch PROVE IInv'
<1>1. /\ mainQueue' = <<>> /\ Len(mainQueue') = 0 /\ known' = {}
      /\ UNCHANGED <<remote, local, creates, deletes, clock, dropped>>
  BY DEF Relaunch, store
<1>2. \A d : ~Told(d)'
  BY <1>1 DEF Told, ToldBefore
<1>3. FreshClock' /\ CreatesPending' /\ DeletesAsked'
  BY <1>1 DEF IInv, FreshClock, CreatesPending, DeletesAsked
<1>4. ToldIsLocal' /\ SnapshotsCover'
  BY <1>1, <1>2 DEF ToldIsLocal, SnapshotsCover
<1>5. NoLostBookmark'
  BY <1>1 DEF NoLostBookmark, Kept
<1> QED
  BY <1>3, <1>4, <1>5 DEF IInv

LEMMA SaveStep ==
  ASSUME IInv, TypeOK', NEW u \in Url, SaveArticle(u) PROVE IInv'
<1> DEFINE n == [savedAt |-> clock, url |-> u]
<1>1. n \in Doc /\ n.savedAt = clock /\ clock \in Nat
  BY DEF IInv, TypeOK, Doc
<1> HIDE DEF n
<1>2. /\ local' = local \union {n}
      /\ creates' = Append(creates, n)
      /\ clock' = clock + 1
      /\ UNCHANGED <<remote, deletes, mainQueue, savedUrls, known, dropped>>
  BY DEF SaveArticle, n, lists, history
<1>3. /\ n \notin remote /\ n \notin local /\ n \notin dropped
      /\ n \notin known /\ ~Told(n)
  <2>1. ~(n.savedAt < clock)
    BY <1>1
  <2> QED
    BY <1>1, <2>1, ToldIsOld DEF IInv, FreshClock
<1>4. /\ \A i, d : ToldBefore(i, d)' <=> ToldBefore(i, d)
      /\ \A d : Told(d)' <=> Told(d)
  BY <1>2, ToldUnchanged
<1>5. FreshClock'
  <2>1. \A d \in Doc : d.savedAt < clock => d.savedAt < clock'
    BY <1>1, <1>2 DEF Doc
  <2>2. \A j \in 1..Len(mainQueue) : mainQueue[j].docs \in SUBSET Doc
    BY QueuedType DEF IInv
  <2>3. n.savedAt < clock'
    BY <1>1, <1>2
  <2>4. \A d \in remote' \union local' \union dropped' \union known' :
          d.savedAt < clock'
    BY <1>2, <2>1, <2>3 DEF IInv, TypeOK, FreshClock
  <2> QED
    BY <1>2, <2>1, <2>2, <2>4 DEF IInv, FreshClock
<1>6. CreatesPending'
  <2>1. /\ Len(creates) \in Nat /\ Len(creates') = Len(creates) + 1
        /\ \A i \in 1..Len(creates) : creates'[i] = creates[i]
        /\ creates'[Len(creates) + 1] = n
    BY <1>1, <1>2 DEF IInv, TypeOK
  <2>2. \A i \in 1..Len(creates) : creates[i] # n
    BY <1>3 DEF IInv, CreatesPending
  <2> QED
    BY <1>2, <1>3, <2>1, <2>2 DEF IInv, CreatesPending
<1>7. DeletesAsked' /\ ToldIsLocal'
  BY <1>2, <1>4 DEF IInv, DeletesAsked, ToldIsLocal
<1>8. SnapshotsCover'
  <2> SUFFICES ASSUME NEW i \in 1..Len(mainQueue), NEW d \in local' \ dropped,
                      ToldBefore(i, d), Covers(mainQueue[i], d)
               PROVE  d \in mainQueue[i].docs
    BY <1>2, <1>4 DEF SnapshotsCover, Covers
  <2>1. Len(mainQueue) \in Nat
    BY DEF IInv, TypeOK
  <2>2. d # n
    BY <1>3, <2>1, ToldGrows DEF IInv
  <2> QED
    BY <1>2, <2>2 DEF IInv, SnapshotsCover
<1>9. NoLostBookmark'
  BY <1>2, <1>3 DEF IInv, NoLostBookmark, Kept
<1> QED
  BY <1>5, <1>6, <1>7, <1>8, <1>9 DEF IInv

LEMMA DeleteSettledStep ==
  ASSUME IInv, TypeOK', NEW d \in deletes,
         DeleteAcknowledged(d) \/ DeleteRejected(d)
  PROVE  IInv'
<1>1. /\ remote' \subseteq remote
      /\ local' \subseteq local \union {d} /\ local \subseteq local'
      /\ d \in local' => d \in local \/ d \in remote
      /\ deletes' \subseteq deletes
      /\ UNCHANGED <<creates, mainQueue, savedUrls, clock, known, dropped>>
  BY DEF DeleteAcknowledged, DeleteRejected, calls, lists, history
<1>2. d \in dropped
  BY DEF IInv, DeletesAsked
<1>3. /\ \A i, e : ToldBefore(i, e)' <=> ToldBefore(i, e)
      /\ \A e : Told(e)' <=> Told(e)
  BY <1>1, ToldUnchanged
<1>4. FreshClock' /\ CreatesPending' /\ DeletesAsked'
  BY <1>1, <1>2 DEF IInv, FreshClock, CreatesPending, DeletesAsked
<1>5. ToldIsLocal' /\ SnapshotsCover'
  BY <1>1, <1>2, <1>3 DEF IInv, ToldIsLocal, SnapshotsCover, Covers
<1>6. NoLostBookmark'
  BY <1>1, <1>2 DEF IInv, NoLostBookmark, Kept
<1> QED
  BY <1>4, <1>5, <1>6 DEF IInv

\* The create at the head of the queue, and those behind it.
LEMMA CreateHead ==
  ASSUME TypeOK, CreatesPending, creates # <<>>
  PROVE  /\ Head(creates) \in Doc /\ Head(creates) \notin remote
         /\ Head(creates) \in local \union dropped
         /\ Len(Tail(creates)) = Len(creates) - 1 /\ Len(creates) \in Nat
         /\ \A i \in 1..Len(Tail(creates)) :
              Tail(creates)[i] = creates[i + 1] /\ Tail(creates)[i] # Head(creates)
<1>1. /\ Head(creates) = creates[1] /\ Len(creates) \in Nat \ {0}
      /\ Len(Tail(creates)) = Len(creates) - 1
      /\ \A i \in 1..Len(Tail(creates)) : Tail(creates)[i] = creates[i + 1]
      /\ creates[1] \in Doc
  BY DEF TypeOK
<1>2. \A i \in 1..Len(Tail(creates)) :
        i + 1 \in 1..Len(creates) /\ i + 1 # 1 /\ 1 \in 1..Len(creates)
  BY <1>1
<1>3. \A i \in 1..Len(Tail(creates)) : Tail(creates)[i] # Head(creates)
  BY <1>1, <1>2 DEF CreatesPending
<1> QED
  BY <1>1, <1>3 DEF CreatesPending

\* A completion without a snapshot, posted with no new document in remote or
\* local, keeps what earlier snapshots cover.
LEMMA PostPlain ==
  ASSUME IInv, NEW m \in Completion, mainQueue' = Append(mainQueue, m),
         m.kind \notin {"news", "urls", "unsave"},
         local' \subseteq local, UNCHANGED <<known, dropped>>
  PROVE  SnapshotsCover'
<1> SUFFICES ASSUME NEW i \in 1..(Len(mainQueue) + 1), NEW d \in local \ dropped,
                    ToldBefore(i, d)', Covers(mainQueue'[i], d)
             PROVE  d \in mainQueue'[i].docs
  BY PostAppends DEF IInv, SnapshotsCover, Covers
<1>1. i \in 1..Len(mainQueue) /\ mainQueue'[i] = mainQueue[i]
  BY PostAppends DEF IInv, Covers, TypeOK
<1>2. ToldBefore(i, d)
  BY ToldAfterPost DEF IInv, TypeOK
<1> QED
  BY <1>1, <1>2 DEF IInv, SnapshotsCover

LEMMA CreateAcknowledgedStep ==
  ASSUME IInv, TypeOK', CreateAcknowledged PROVE IInv'
<1> DEFINE h == Head(creates)
<1>1. /\ creates # <<>> /\ creates' = Tail(creates)
      /\ remote' = remote \union {h}
      /\ UNCHANGED <<local, deletes, savedUrls, clock, known, dropped>>
      /\ NotifyUser("saved", h)
  BY DEF CreateAcknowledged, lists, history
<1>2. /\ h \in Doc /\ h \notin remote /\ h \in local \union dropped
      /\ Len(creates') = Len(creates) - 1 /\ Len(creates) \in Nat
      /\ \A i \in 1..Len(creates') : creates'[i] = creates[i + 1] /\ creates'[i] # h
  BY <1>1, CreateHead DEF IInv
<1> HIDE DEF h
<1>3. CreatesPending' /\ DeletesAsked'
  <2>1. \A i \in 1..Len(creates') : i + 1 \in 1..Len(creates)
    BY <1>2
  <2>2. \A i, j \in 1..Len(creates') : i + 1 = j + 1 => i = j
    BY <1>2
  <2> QED
    BY <1>1, <1>2, <2>1, <2>2 DEF IInv, CreatesPending, DeletesAsked
<1>4. NoLostBookmark'
  BY <1>1 DEF IInv, NoLostBookmark, Kept
<1>5. CASE UNCHANGED mainQueue
  <2>1. /\ \A i, d : ToldBefore(i, d)' <=> ToldBefore(i, d)
        /\ \A d : Told(d)' <=> Told(d)
    BY <1>1, <1>5, ToldUnchanged
  <2>2. FreshClock'
    BY <1>1, <1>2, <1>5 DEF IInv, FreshClock
  <2>3. ToldIsLocal' /\ SnapshotsCover'
    BY <1>1, <1>2, <1>5, <2>1 DEF IInv, ToldIsLocal, SnapshotsCover, Covers
  <2> QED
    BY <1>3, <1>4, <2>2, <2>3 DEF IInv
<1>6. CASE mainQueue' # mainQueue
  <2> DEFINE m == [kind |-> "saved", url |-> h.url, docs |-> {h}]
  <2>1. /\ mainQueue' = Append(mainQueue, m) /\ m \in Completion
        /\ m.kind = "saved" /\ m.docs = {h}
    BY <1>1, <1>2, <1>6, FS_Singleton DEF NotifyUser, Post, Completion, Kinds, Doc
  <2> HIDE DEF m
  <2>2. FreshClock'
    BY <1>1, <1>2, <2>1, PostAppends DEF IInv, FreshClock, TypeOK
  <2>3. \A d \in Doc : Told(d)' <=> Told(d) \/ d = h
    BY <1>1, <2>1, ToldAfterPost DEF IInv, Tells
  <2>4. ToldIsLocal'
    BY <1>1, <1>2, <2>3 DEF IInv, TypeOK, ToldIsLocal
  <2>5. SnapshotsCover'
    BY <1>1, <2>1, PostPlain
  <2> QED
    BY <1>3, <1>4, <2>2, <2>4, <2>5 DEF IInv
<1> QED
  BY <1>5, <1>6

LEMMA CreateRejectedStep ==
  ASSUME IInv, TypeOK', CreateRejected PROVE IInv'
<1> DEFINE h == Head(creates)
<1>1. /\ creates # <<>> /\ creates' = Tail(creates)
      /\ local' = local \ {h}
      /\ UNCHANGED <<remote, deletes, savedUrls, clock, known, dropped>>
      /\ NotifyUser("saveFailed", h)
  BY DEF CreateRejected, lists, history
<1>2. /\ h \in Doc /\ h \notin remote /\ h \in local \union dropped
      /\ Len(creates') = Len(creates) - 1 /\ Len(creates) \in Nat
      /\ \A i \in 1..Len(creates') : creates'[i] = creates[i + 1] /\ creates'[i] # h
  BY <1>1, CreateHead DEF IInv
<1> HIDE DEF h
<1>3. CreatesPending' /\ DeletesAsked'
  <2>1. \A i \in 1..Len(creates') : i + 1 \in 1..Len(creates)
    BY <1>2
  <2>2. \A i, j \in 1..Len(creates') : i + 1 = j + 1 => i = j
    BY <1>2
  <2> QED
    BY <1>1, <1>2, <2>1, <2>2 DEF IInv, CreatesPending, DeletesAsked
<1>4. NoLostBookmark'
  BY <1>1 DEF IInv, NoLostBookmark, Kept
<1>5. CASE UNCHANGED mainQueue
  <2>1. /\ \A i, d : ToldBefore(i, d)' <=> ToldBefore(i, d)
        /\ \A d : Told(d)' <=> Told(d)
    BY <1>1, <1>5, ToldUnchanged
  <2>2. FreshClock'
    BY <1>1, <1>2, <1>5 DEF IInv, FreshClock
  <2>3. ToldIsLocal' /\ SnapshotsCover'
    BY <1>1, <1>2, <1>5, <2>1 DEF IInv, ToldIsLocal, SnapshotsCover, Covers
  <2> QED
    BY <1>3, <1>4, <2>2, <2>3 DEF IInv
<1>6. CASE mainQueue' # mainQueue
  <2> DEFINE m == [kind |-> "saveFailed", url |-> h.url, docs |-> {h}]
  <2>1. /\ mainQueue' = Append(mainQueue, m) /\ m \in Completion
        /\ m.kind = "saveFailed" /\ m.docs = {h}
    BY <1>1, <1>2, <1>6, FS_Singleton DEF NotifyUser, Post, Completion, Kinds, Doc
  <2> HIDE DEF m
  <2>2. FreshClock'
    BY <1>1, <1>2, <2>1, PostAppends DEF IInv, FreshClock, TypeOK
  <2>3. \A d \in Doc : Told(d)' <=> Told(d)
    BY <1>1, <2>1, ToldAfterPost DEF IInv, Tells
  <2>4. ToldIsLocal'
    BY <1>1, <1>2, <2>3 DEF IInv, TypeOK, ToldIsLocal
  <2>5. SnapshotsCover'
    BY <1>1, <2>1, PostPlain
  <2> QED
    BY <1>3, <1>4, <2>2, <2>4, <2>5 DEF IInv
<1> QED
  BY <1>5, <1>6

\* A query answered, by the server or from the cache.
LEMMA SnapshotPosted ==
  ASSUME IInv, TypeOK', NEW q \in queries, NEW synced \in SUBSET Doc,
         local \subseteq synced, synced \subseteq local \union remote,
         local' = synced,
         Post(q.kind, q.url, Matching(q, synced)),
         UNCHANGED <<remote, creates, deletes, savedUrls, clock, known, dropped>>
  PROVE  IInv'
<1> DEFINE m == [kind |-> q.kind, url |-> q.url, docs |-> Matching(q, synced)]
<1>1. /\ mainQueue' = Append(mainQueue, m) /\ m \in Completion
      /\ m.kind = q.kind /\ m.url = q.url /\ m.docs = Matching(q, synced)
      /\ m.docs \subseteq synced
  <2>1. /\ Matching(q, synced) \in SUBSET Doc /\ Matching(q, synced) \subseteq synced
        /\ IsFiniteSet(Matching(q, synced))
    BY QueryType, FS_Subset DEF IInv, TypeOK
  <2> QED
    BY <2>1, QueryType DEF IInv, Post, Completion
<1> HIDE DEF m
<1>2. /\ Len(mainQueue) \in Nat /\ Len(mainQueue') = Len(mainQueue) + 1
      /\ \A i \in 1..Len(mainQueue) : mainQueue'[i] = mainQueue[i]
      /\ mainQueue'[Len(mainQueue) + 1] = m
  BY <1>1, PostAppends DEF IInv, TypeOK
<1>3. /\ \A i \in 1..(Len(mainQueue) + 1), d \in Doc :
           ToldBefore(i, d)' <=> ToldBefore(i, d)
      /\ \A d \in Doc : Told(d)' <=> Told(d) \/ d \in Tells(m)
  BY <1>1, ToldAfterPost DEF IInv
<1>4. \A d \in synced : d \in Doc /\ (Told(d) => d \in local \/ d \in dropped)
  BY DEF IInv, ToldIsLocal
<1>5. FreshClock'
  <2>1. \A d \in synced : d.savedAt < clock
    BY DEF IInv, FreshClock
  <2> QED
    BY <1>1, <1>2, <2>1 DEF IInv, FreshClock
<1>6. CreatesPending' /\ DeletesAsked'
  BY DEF IInv, CreatesPending, DeletesAsked
<1>7. ToldIsLocal'
  <2>1. Tells(m) \subseteq synced
    BY <1>1 DEF Tells
  <2> QED
    BY <1>3, <2>1 DEF IInv, TypeOK, ToldIsLocal
<1>8. SnapshotsCover'
  <2> SUFFICES ASSUME NEW i \in 1..(Len(mainQueue) + 1), NEW d \in synced \ dropped,
                      ToldBefore(i, d), Covers(mainQueue'[i], d)
               PROVE  d \in mainQueue'[i].docs
    BY <1>2, <1>3 DEF SnapshotsCover, Covers
  <2>1. CASE i \in 1..Len(mainQueue)
    <3>1. Told(d)
      BY ToldGrows DEF IInv
    <3>2. d \in local \ dropped
      BY <1>4, <3>1
    <3> QED
      BY <1>2, <2>1, <3>2 DEF IInv, SnapshotsCover
  <2>2. CASE i = Len(mainQueue) + 1
    <3>1. Covers(m, d) => d \in Matching(q, synced)
      BY <1>1 DEF Covers, Matching
    <3> QED
      BY <1>1, <1>2, <2>2, <3>1
  <2> QED
    BY <1>2, <2>1, <2>2
<1>9. NoLostBookmark'
  <2> SUFFICES ASSUME NEW d \in (known \intersect synced) \ dropped
               PROVE  d \in local
    BY DEF IInv, NoLostBookmark, Kept
  <2>1. Told(d)
    BY DEF Told, ToldBefore
  <2> QED
    BY <1>4, <2>1
<1> QED
  BY <1>5, <1>6, <1>7, <1>8, <1>9 DEF IInv

LEMMA AnswerStep ==
  ASSUME IInv, TypeOK', NEW q \in queries, ServerAnswers(q) \/ CacheAnswers(q)
  PROVE  IInv'
<1>1. CASE ServerAnswers(q)
  <2> DEFINE synced == local \union Matching(q, remote \ deletes)
  <2>1. synced \in SUBSET Doc /\ synced \subseteq local \union remote
    BY DEF IInv, TypeOK, Matching
  <2>2. /\ local' = synced /\ Post(q.kind, q.url, Matching(q, synced))
        /\ UNCHANGED <<remote, creates, deletes, savedUrls, clock, known, dropped>>
    BY <1>1 DEF ServerAnswers, lists, history
  <2> HIDE DEF synced
  <2>3. local \subseteq synced
    BY DEF synced
  <2> QED
    BY <2>1, <2>2, <2>3, SnapshotPosted
<1>2. CASE CacheAnswers(q)
  <2>1. /\ local' = local /\ Post(q.kind, q.url, Matching(q, local))
        /\ UNCHANGED <<remote, creates, deletes, savedUrls, clock, known, dropped>>
    BY <1>2 DEF CacheAnswers, store, lists, history
  <2>2. local \in SUBSET Doc
    BY DEF IInv, TypeOK
  <2> QED
    BY <2>1, <2>2, SnapshotPosted
<1> QED
  BY <1>1, <1>2

LEMMA QueryFailsStep ==
  ASSUME IInv, TypeOK', NEW q \in queries, QueryFails(q)
  PROVE  IInv'
<1> DEFINE m == [kind |-> Failed(q.kind), url |-> q.url, docs |-> {}]
<1>1. q \in Query /\ q.kind \in {"news", "urls", "unsave"}
  BY DEF IInv, TypeOK, Query
<1>2. Failed(q.kind) \notin {"news", "urls", "unsave", "saved"}
  BY <1>1 DEF Failed
<1>3. /\ mainQueue' = Append(mainQueue, m) /\ m \in Completion
      /\ m.docs = {} /\ m.kind \notin {"news", "urls", "unsave", "saved"}
  BY <1>2, QueryType, FS_EmptySet DEF IInv, QueryFails, Post, Completion
<1> HIDE DEF m
<1>4. UNCHANGED <<remote, local, creates, deletes, savedUrls, clock, known, dropped>>
  BY DEF QueryFails, store, lists, history
<1>5. \A d \in Doc : Told(d)' <=> Told(d)
  BY <1>3, <1>4, ToldAfterPost DEF IInv, Tells
<1>6. FreshClock'
  BY <1>3, <1>4, PostAppends DEF IInv, FreshClock, TypeOK
<1>7. CreatesPending' /\ DeletesAsked' /\ ToldIsLocal' /\ NoLostBookmark'
  BY <1>4, <1>5 DEF IInv, TypeOK, CreatesPending, DeletesAsked, ToldIsLocal,
                    NoLostBookmark, Kept
<1>8. SnapshotsCover'
  BY <1>3, <1>4, PostPlain
<1> QED
  BY <1>6, <1>7, <1>8 DEF IInv

-----------------------------------------------------------------------------
(* Running a completion.                                                   *)

LEMMA RunStep ==
  ASSUME IInv, TypeOK', RunCompletion PROVE IInv'
<1> DEFINE m == Head(mainQueue)
<1>1. /\ mainQueue # <<>> /\ mainQueue' = Tail(mainQueue)
      /\ Len(mainQueue) \in Nat \ {0}
      /\ m = mainQueue[1] /\ m \in Completion
      /\ UNCHANGED <<remote, creates, clock>>
  BY DEF RunCompletion, IInv, TypeOK
<1>2. m.docs \in SUBSET Doc
  BY <1>1 DEF Completion
<1> HIDE DEF m
<1>3. \/ RunSaved(m)  \/ RunSaveFailed(m) \/ RunUnsave(m) \/ RunUrls(m)
      \/ RunNews(m)   \/ RunNewsFailed(m) \/ RunOtherFailed(m)
  BY DEF RunCompletion, m
<1>4. known' = known \union Tells(m)
  BY <1>3 DEF RunSaved, RunSaveFailed, RunUnsave, RunUrls, RunNews,
              RunNewsFailed, RunOtherFailed, Tells, history
<1>5. /\ local' \subseteq local /\ dropped \subseteq dropped'
      /\ local \ dropped = local' \ dropped \/ m.kind = "unsave"
      /\ local \union dropped \subseteq local' \union dropped'
      /\ dropped' \subseteq dropped \union m.docs
      /\ deletes' \subseteq deletes \union (dropped' \intersect m.docs)
  BY <1>3 DEF RunSaved, RunSaveFailed, RunUnsave, RunUrls, RunNews,
              RunNewsFailed, RunOtherFailed, history, lists
<1>6. /\ Len(mainQueue') = Len(mainQueue) - 1
      /\ \A i \in 1..Len(mainQueue') :
           mainQueue'[i] = mainQueue[i + 1] /\ i + 1 \in 1..Len(mainQueue)
      /\ \A i \in 1..Len(mainQueue), d \in Doc :
           ToldBefore(i, d)' <=> ToldBefore(i + 1, d)
      /\ \A d \in Doc : Told(d)' <=> Told(d)
  BY <1>1, <1>4, ToldAfterRun DEF IInv, m
<1>7. FreshClock'
  <2>1. \A d \in m.docs : d.savedAt < clock
    BY <1>1 DEF IInv, FreshClock
  <2>2. Tells(m) \subseteq m.docs
    BY DEF Tells
  <2> QED
    BY <1>1, <1>4, <1>5, <1>6, <2>1, <2>2 DEF IInv, FreshClock
<1>8. CreatesPending' /\ DeletesAsked'
  BY <1>1, <1>5 DEF IInv, CreatesPending, DeletesAsked
<1>9. ToldIsLocal'
  BY <1>1, <1>5, <1>6 DEF IInv, TypeOK, ToldIsLocal
<1>10. SnapshotsCover'
  <2> SUFFICES ASSUME NEW i \in 1..Len(mainQueue'), NEW d \in local' \ dropped',
                      ToldBefore(i, d)', Covers(mainQueue'[i], d)
               PROVE  d \in mainQueue'[i].docs
    BY DEF SnapshotsCover, Covers
  <2>1. d \in Doc /\ d \in local \ dropped
    BY <1>5 DEF IInv, TypeOK
  <2>2. i \in 1..Len(mainQueue) /\ i + 1 \in 1..Len(mainQueue)
    BY <1>1, <1>6
  <2>3. ToldBefore(i + 1, d) /\ mainQueue'[i] = mainQueue[i + 1]
    BY <1>6, <2>1, <2>2
  <2> QED
    BY <2>1, <2>2, <2>3 DEF IInv, SnapshotsCover
<1>11. NoLostBookmark'
  <2>1. \A d \in known : (d \in local \ dropped) /\ Covers(m, d) => d \in m.docs
    <3>1. \A d \in known : ToldBefore(1, d)
      BY DEF ToldBefore
    <3> QED
      BY <1>1, <3>1 DEF IInv, SnapshotsCover
  <2>2. \A d \in known \intersect (local \ dropped) : d.url \in savedUrls
    BY DEF IInv, NoLostBookmark, Kept
  <2>3. CASE RunSaved(m)
    BY <1>4, <2>2, <2>3 DEF RunSaved, NoLostBookmark, Kept, Urls
  <2>4. CASE RunUnsave(m)
    <3>1. \A d \in known \intersect (local \ dropped) :
            d \notin m.docs => d.url # m.url
      BY <2>1, <2>4 DEF RunUnsave, Covers
    <3> QED
      BY <2>2, <2>4, <3>1 DEF RunUnsave, NoLostBookmark, Kept
  <2>5. CASE RunUrls(m) \/ RunNews(m)
    <3>1. /\ savedUrls' = Urls(m.docs) /\ UNCHANGED <<local, dropped>>
          /\ known' = known \union m.docs
          /\ \A d : Covers(m, d)
      BY <2>5 DEF RunUrls, RunNews, Covers
    <3>2. \A d \in known' \intersect (local \ dropped) : d \in m.docs
      BY <2>1, <3>1
    <3> QED
      BY <3>1, <3>2 DEF NoLostBookmark, Kept, Urls
  <2>6. CASE RunSaveFailed(m) \/ RunNewsFailed(m) \/ RunOtherFailed(m)
    BY <2>2, <2>6 DEF RunSaveFailed, RunNewsFailed, RunOtherFailed, lists,
                      history, NoLostBookmark, Kept
  <2> QED
    BY <1>3, <2>3, <2>4, <2>5, <2>6
<1> QED
  BY <1>7, <1>8, <1>9, <1>10, <1>11 DEF IInv

-----------------------------------------------------------------------------

LEMMA NextInv == IInv /\ [Next]_vars => IInv'
<1> SUFFICES ASSUME IInv, [Next]_vars PROVE IInv'
  OBVIOUS
<1> USE DEF store, calls, lists, history
<1>1. TypeOK'
  BY NextType DEF IInv
<1>2. CASE Relaunch
  BY <1>1, <1>2, RelaunchStep
<1>3. ASSUME NEW u \in Url, SaveArticle(u) PROVE IInv'
  BY <1>1, <1>3, SaveStep
<1>4. ASSUME NEW u \in Url, UnsaveArticle(u) PROVE IInv'
  BY <1>1, <1>4, UnrelatedStep DEF UnsaveArticle, Ask
<1>5. CASE GetSavedNews
  BY <1>1, <1>5, UnrelatedStep DEF GetSavedNews, Ask
<1>6. CASE MemoryWarning
  BY <1>1, <1>6, UnrelatedStep DEF MemoryWarning
<1>7. CASE Connect \/ Disconnect
  BY <1>1, <1>7, UnrelatedStep DEF Connect, Disconnect
<1>8. CASE CreateAcknowledged
  BY <1>1, <1>8, CreateAcknowledgedStep
<1>9. CASE CreateRejected
  BY <1>1, <1>9, CreateRejectedStep
<1>10. ASSUME NEW d \in deletes, DeleteAcknowledged(d) \/ DeleteRejected(d)
       PROVE  IInv'
  BY <1>1, <1>10, DeleteSettledStep
<1>11. ASSUME NEW q \in queries, ServerAnswers(q) \/ CacheAnswers(q)
       PROVE  IInv'
  BY <1>1, <1>11, AnswerStep
<1>12. ASSUME NEW q \in queries, QueryFails(q) PROVE IInv'
  BY <1>1, <1>12, QueryFailsStep
<1>13. CASE RunCompletion
  BY <1>1, <1>13, RunStep
<1>14. CASE UNCHANGED vars
  BY <1>1, <1>14, UnrelatedStep DEF vars
<1> QED
  BY <1>2, <1>3, <1>4, <1>5, <1>6, <1>7, <1>8, <1>9, <1>10, <1>11, <1>12,
     <1>13, <1>14 DEF Next

THEOREM InvariantHolds == Spec => []IInv
BY InitInv, NextInv, PTL DEF Spec

THEOREM BookmarksNeverLost == Spec => []NoLostBookmark
<1>1. IInv => NoLostBookmark
  BY DEF IInv
<1> QED
  BY <1>1, InvariantHolds, PTL

-----------------------------------------------------------------------------
(* WritesAccounted.                                                        *)

\* Posting a completion answers the saves it carries, and no others.
LEMMA AnswersAfterPost ==
  ASSUME TypeOK, NEW m \in Completion, mainQueue' = Append(mainQueue, m)
  PROVE  /\ Len(mainQueue) \in Nat /\ Len(mainQueue') = Len(mainQueue) + 1
         /\ \A i \in 1..Len(mainQueue) : \A d :
              /\ mainQueue'[i] = mainQueue[i]
              /\ Answers(i, d)' <=> Answers(i, d)
         /\ mainQueue'[Len(mainQueue) + 1] = m
         /\ \A d : Answers(Len(mainQueue), d)' <=>
                     m.kind \in {"saved", "saveFailed"} /\ d \in m.docs
         /\ \A d : Answered(d)' <=>
                     \/ Answered(d)
                     \/ m.kind \in {"saved", "saveFailed"} /\ d \in m.docs
<1>1. /\ Len(mainQueue) \in Nat /\ Len(mainQueue') = Len(mainQueue) + 1
      /\ \A i \in 1..Len(mainQueue) : mainQueue'[i] = mainQueue[i]
      /\ mainQueue'[Len(mainQueue) + 1] = m
  BY PostAppends DEF TypeOK
<1>2. ASSUME NEW i \in 1..Len(mainQueue), NEW d
      PROVE  Answers(i, d)' <=> Answers(i, d)
  <2>1. mainQueue'[i] = mainQueue[i]
    BY <1>1
  <2> QED
    BY <2>1 DEF Answers
<1>3. ASSUME NEW d
      PROVE  Answers(Len(mainQueue), d)' <=>
               m.kind \in {"saved", "saveFailed"} /\ d \in m.docs
  <2>1. Len(mainQueue)' = Len(mainQueue) + 1 /\ mainQueue'[Len(mainQueue)'] = m
    BY <1>1
  <2> QED
    BY <2>1 DEF Answers
<1>4. ASSUME NEW d
      PROVE  Answered(d)' <=>
               \/ Answered(d)
               \/ m.kind \in {"saved", "saveFailed"} /\ d \in m.docs
  <2>1. Answered(d)' <=> \E i \in 1..Len(mainQueue') : Answers(i, d)'
    BY DEF Answered
  <2>2. \A i \in 1..Len(mainQueue') : i \in 1..Len(mainQueue) \/ i = Len(mainQueue')
    BY <1>1
  <2>3. \A i \in 1..Len(mainQueue) : i \in 1..Len(mainQueue')
    BY <1>1
  <2>4. Len(mainQueue') \in 1..Len(mainQueue')
    BY <1>1
  <2> QED
    BY <1>2, <1>3, <2>1, <2>2, <2>3, <2>4, Zenon DEF Answered
<1> QED
  BY <1>1, <1>2, <1>3, <1>4

\* Steps that post no completion of a save and leave the queue of creates alone.
LEMMA PostOther ==
  ASSUME TypeOK, SavesTracked, AnsweredOnce, NEW m \in Completion,
         m.kind \notin {"saved", "saveFailed"}, mainQueue' = Append(mainQueue, m),
         UNCHANGED <<creates, awaiting>>
  PROVE  SavesTracked' /\ AnsweredOnce'
<1>1. /\ Len(mainQueue) \in Nat /\ Len(mainQueue') = Len(mainQueue) + 1
      /\ \A i \in 1..Len(mainQueue) : \A d :
           mainQueue'[i] = mainQueue[i] /\ (Answers(i, d)' <=> Answers(i, d))
      /\ \A d : ~Answers(Len(mainQueue), d)'
      /\ \A d : Answered(d)' <=> Answered(d)
  BY AnswersAfterPost
<1>2. \A d : Queued(d)' <=> Queued(d)
  BY DEF Queued
<1>3. SavesTracked'
  BY <1>1, <1>2 DEF SavesTracked
<1>5. AnsweredOnce'
  <2>1. \A i \in 1..Len(mainQueue') : i \in 1..Len(mainQueue) \/ i = Len(mainQueue')
    BY <1>1
  <2>2. ASSUME NEW i \in 1..Len(mainQueue'), NEW d \in mainQueue'[i].docs,
               Answers(i, d)'
        PROVE  d \in awaiting /\ \A j \in 1..Len(mainQueue') : Answers(j, d)' => i = j
    <3>1. \A j \in 1..Len(mainQueue') : Answers(j, d)' =>
            j \in 1..Len(mainQueue) /\ Answers(j, d)
      BY <1>1, <2>1, Zenon
    <3>2. d \in mainQueue[i].docs
      BY <1>1, <2>2, <3>1
    <3> QED
      BY <2>2, <3>1, <3>2 DEF AnsweredOnce
  <2> QED
    BY <2>2 DEF AnsweredOnce
<1> QED
  BY <1>3, <1>5

LEMMA TrackedUnchanged ==
  ASSUME SavesTracked, AnsweredOnce, UNCHANGED <<creates, awaiting, mainQueue>>
  PROVE  SavesTracked' /\ AnsweredOnce'
BY DEF SavesTracked, AnsweredOnce, Queued, Answered, Answers

LEMMA TrackedSave ==
  ASSUME IInv, SavesTracked, AnsweredOnce, NEW u \in Url, SaveArticle(u)
  PROVE  SavesTracked' /\ AnsweredOnce'
<1> DEFINE n == [savedAt |-> clock, url |-> u]
<1>1. n \in Doc /\ ~(n.savedAt < clock)
  BY DEF IInv, TypeOK, Doc
<1> HIDE DEF n
<1>2. /\ creates' = Append(creates, n) /\ awaiting' = awaiting \union {n}
      /\ mainQueue' = mainQueue
  BY DEF SaveArticle, n
<1>3. /\ Len(creates) \in Nat /\ Len(creates') = Len(creates) + 1
      /\ \A i \in 1..Len(creates) : creates'[i] = creates[i]
      /\ creates'[Len(creates) + 1] = n
  BY <1>1, <1>2 DEF IInv, TypeOK
<1>4. \A d : Queued(d)' <=> Queued(d) \/ d = n
  BY <1>3 DEF Queued
<1>5. \A d : Answered(d) => d # n
  <2>1. \A i \in 1..Len(mainQueue) : \A d \in mainQueue[i].docs : d.savedAt < clock
    BY DEF IInv, FreshClock
  <2> QED
    BY <1>1, <2>1 DEF Answered, Answers
<1>6. \A d : Answered(d)' <=> Answered(d)
  BY <1>2 DEF Answered, Answers
<1>7. SavesTracked'
  BY <1>2, <1>4, <1>5, <1>6 DEF SavesTracked
<1>8. AnsweredOnce'
  BY <1>2 DEF AnsweredOnce, Answers
<1> QED
  BY <1>7, <1>8

\* The head of creates leaves the queue, and is answered if a caller waits.
LEMMA TrackedSettled ==
  ASSUME IInv, SavesTracked, AnsweredOnce, CreateAcknowledged \/ CreateRejected
  PROVE  SavesTracked' /\ AnsweredOnce'
<1>0. PICK h : h = Head(creates)
  OBVIOUS
<1>1. /\ creates # <<>> /\ creates' = Tail(creates) /\ awaiting' = awaiting
      /\ NotifyUser("saved", h) \/ NotifyUser("saveFailed", h)
  BY <1>0 DEF CreateAcknowledged, CreateRejected
<1>2. /\ h \in Doc /\ Queued(h) /\ ~Queued(h)'
      /\ \A d : d # h => (Queued(d)' <=> Queued(d))
  <2>1. /\ h \in Doc /\ Len(creates') = Len(creates) - 1
        /\ Len(creates) \in Nat \ {0} /\ h = creates[1]
        /\ \A i \in 1..Len(creates') :
             creates'[i] = creates[i + 1] /\ creates'[i] # h
    BY <1>0, <1>1, CreateHead DEF IInv, TypeOK
  <2>2. \A i \in 1..Len(creates) : i = 1 \/ i - 1 \in 1..Len(creates')
    BY <2>1
  <2>3. \A i \in 1..Len(creates') : i + 1 \in 1..Len(creates)
    BY <2>1
  <2>4. 1 \in 1..Len(creates)
    BY <2>1
  <2>5. \A i \in 1..Len(creates) : i = 1 \/ creates'[i - 1] = creates[i]
    BY <2>1, <2>2
  <2> QED
    <3>1. Queued(h) /\ ~Queued(h)'
      BY <2>1, <2>4 DEF Queued
    <3>2. ASSUME NEW d, Queued(d)' PROVE Queued(d)
      BY <2>1, <2>3, <3>2 DEF Queued
    <3>3. ASSUME NEW d, d # h, Queued(d) PROVE Queued(d)'
      BY <2>1, <2>2, <2>5, <3>3 DEF Queued
    <3> QED
      BY <2>1, <3>1, <3>2, <3>3
<1>3. CASE h \notin awaiting
  <2>1. UNCHANGED mainQueue
    BY <1>1, <1>3 DEF NotifyUser
  <2>2. \A d : Answered(d)' <=> Answered(d)
    BY <2>1 DEF Answered, Answers
  <2>3. SavesTracked'
    BY <1>1, <1>2, <1>3, <2>2 DEF SavesTracked
  <2>4. AnsweredOnce'
    BY <1>1, <2>1 DEF AnsweredOnce, Answers
  <2> QED
    BY <2>3, <2>4
<1>4. CASE h \in awaiting
  <2>1. PICK kind \in {"saved", "saveFailed"} : NotifyUser(kind, h)
    BY <1>1
  <2> DEFINE m == [kind |-> kind, url |-> h.url, docs |-> {h}]
  <2>2. /\ mainQueue' = Append(mainQueue, m) /\ m \in Completion
        /\ m.kind \in {"saved", "saveFailed"} /\ m.docs = {h}
    BY <1>2, <1>4, <2>1, FS_Singleton DEF NotifyUser, Post, Completion, Kinds, Doc
  <2> HIDE DEF m
  <2>3. /\ Len(mainQueue) \in Nat /\ Len(mainQueue') = Len(mainQueue) + 1
        /\ \A i \in 1..Len(mainQueue) : \A d :
             mainQueue'[i] = mainQueue[i] /\ (Answers(i, d)' <=> Answers(i, d))
        /\ mainQueue'[Len(mainQueue) + 1] = m
        /\ \A d : Answers(Len(mainQueue), d)' <=> d = h
        /\ \A d : Answered(d)' <=> Answered(d) \/ d = h
    BY <2>2, AnswersAfterPost DEF IInv
  <2>4. ~Answered(h)
    BY <1>2, <1>4 DEF SavesTracked
  <2>5. SavesTracked'
    BY <1>1, <1>2, <2>3, <2>4, Zenon DEF SavesTracked
  <2>6. ASSUME NEW i \in 1..Len(mainQueue'), NEW d \in mainQueue'[i].docs,
               Answers(i, d)'
        PROVE  d \in awaiting /\ \A j \in 1..Len(mainQueue') : Answers(j, d)' => i = j
    <3>1. CASE d = h
      <4>1. \A j \in 1..Len(mainQueue) : ~Answers(j, d)'
        BY <2>3, <2>4, <3>1 DEF Answered
      <4>2. \A j \in 1..Len(mainQueue') : j \in 1..Len(mainQueue) \/ j = Len(mainQueue')
        BY <2>3
      <4> QED
        BY <1>4, <2>6, <3>1, <4>1, <4>2
    <3>2. CASE d # h
      <4>0. \A j \in 1..Len(mainQueue') :
              j \in 1..Len(mainQueue) \/ j = Len(mainQueue')
        BY <2>3
      <4>1. \A j \in 1..Len(mainQueue') : Answers(j, d)' =>
              j \in 1..Len(mainQueue) /\ Answers(j, d)
        BY <2>3, <3>2, <4>0, Zenon
      <4>2. d \in mainQueue[i].docs
        BY <2>3, <2>6, <4>1
      <4> QED
        BY <2>6, <4>1, <4>2 DEF AnsweredOnce
    <3> QED
      BY <3>1, <3>2
  <2>7. AnsweredOnce'
    BY <1>1, <2>6 DEF AnsweredOnce
  <2> QED
    BY <2>5, <2>7
<1> QED
  BY <1>3, <1>4

\* A completion of a save takes its documents off awaiting, the others no one.
LEMMA TrackedRun ==
  ASSUME IInv, SavesTracked, AnsweredOnce, RunCompletion
  PROVE  SavesTracked' /\ AnsweredOnce'
<1> DEFINE m == Head(mainQueue)
<1>1. /\ Len(mainQueue) \in Nat \ {0} /\ m = mainQueue[1]
      /\ Len(mainQueue') = Len(mainQueue) - 1
      /\ \A i \in 1..Len(mainQueue') : mainQueue'[i] = mainQueue[i + 1]
      /\ creates' = creates
  BY DEF RunCompletion, IInv, TypeOK
<1> HIDE DEF m
<1>2. \A d \in awaiting : d \in awaiting' \/ Answers(1, d)
  BY <1>1 DEF RunCompletion, m, RunSaved, RunSaveFailed, RunUnsave, RunUrls,
              RunNews, RunNewsFailed, RunOtherFailed, Answers
<1>3. awaiting' \subseteq awaiting /\ \A d \in awaiting' : ~Answers(1, d)
  BY <1>1 DEF RunCompletion, m, RunSaved, RunSaveFailed, RunUnsave, RunUrls,
              RunNews, RunNewsFailed, RunOtherFailed, Answers
<1>4. \A i \in 1..Len(mainQueue') : \A d : Answers(i, d)' <=> Answers(i + 1, d)
  BY <1>1 DEF Answers
<1>5. /\ \A i \in 1..Len(mainQueue') : i + 1 \in 1..Len(mainQueue) /\ i + 1 # 1
      /\ 1 \in 1..Len(mainQueue)
      /\ \A i \in 1..Len(mainQueue) : i = 1 \/ i - 1 \in 1..Len(mainQueue')
      /\ \A i \in 1..Len(mainQueue) : (i - 1) + 1 = i
      /\ \A i, j \in 1..Len(mainQueue') : i + 1 = j + 1 => i = j
  BY <1>1
<1>6. SavesTracked'
  <2>1. ASSUME NEW d \in awaiting' PROVE Answered(d)' <=> Answered(d)
    BY <1>3, <1>4, <1>5 DEF Answered
  <2>2. \A d : Queued(d)' <=> Queued(d)
    BY <1>1 DEF Queued
  <2> QED
    BY <1>3, <2>1, <2>2 DEF SavesTracked
<1>7. ASSUME NEW i \in 1..Len(mainQueue'), NEW d \in mainQueue'[i].docs,
             Answers(i, d)'
      PROVE  d \in awaiting' /\ \A j \in 1..Len(mainQueue') : Answers(j, d)' => i = j
  <2>1. Answers(i + 1, d) /\ d \in mainQueue[i + 1].docs
    BY <1>1, <1>4, <1>7
  <2>2. /\ d \in awaiting
        /\ \A j \in 1..Len(mainQueue) : Answers(j, d) => i + 1 = j
    BY <1>5, <2>1 DEF AnsweredOnce
  <2>3. ~Answers(1, d)
    BY <1>5, <2>2
  <2> QED
    BY <1>2, <1>4, <1>5, <2>2, <2>3
<1>8. AnsweredOnce'
  BY <1>7 DEF AnsweredOnce
<1> QED
  BY <1>6, <1>8

LEMMA NextTracked ==
  ASSUME IInv, SavesTracked, AnsweredOnce, [Next]_vars
  PROVE  SavesTracked' /\ AnsweredOnce'
<1> USE DEF calls
<1>1. CASE Relaunch
  BY <1>1 DEF Relaunch, SavesTracked, AnsweredOnce
<1>2. ASSUME NEW u \in Url, SaveArticle(u) PROVE SavesTracked' /\ AnsweredOnce'
  BY <1>2, TrackedSave
<1>3. CASE CreateAcknowledged \/ CreateRejected
  BY <1>3, TrackedSettled
<1>4. ASSUME NEW q \in queries, Answer(q) PROVE SavesTracked' /\ AnsweredOnce'
  <2>1. q \in Query /\ q.kind \in {"news", "urls", "unsave"}
    BY DEF IInv, TypeOK, Query
  <2>2. PICK kind, docs : Post(kind, q.url, docs)
                          /\ kind \notin {"saved", "saveFailed"}
    BY <1>4, <2>1 DEF Answer, ServerAnswers, CacheAnswers, QueryFails, Failed
  <2> DEFINE m == [kind |-> kind, url |-> q.url, docs |-> docs]
  <2>3. mainQueue' = Append(mainQueue, m) /\ m.kind \notin {"saved", "saveFailed"}
    BY <2>2 DEF Post
  <2>4. m \in Completion
    <3>1. /\ mainQueue' \in Seq(Completion) /\ mainQueue \in Seq(Completion)
      BY NextType DEF IInv, TypeOK
    <3>2. /\ Len(mainQueue') = Len(mainQueue) + 1 /\ Len(mainQueue) \in Nat
          /\ mainQueue'[Len(mainQueue) + 1] = m
      BY <2>3, <3>1
    <3> QED
      BY <3>1, <3>2
  <2>5. UNCHANGED <<creates, awaiting>>
    BY <1>4 DEF Answer, ServerAnswers, CacheAnswers, QueryFails, store
  <2> HIDE DEF m
  <2> QED
    BY <2>3, <2>4, <2>5, PostOther DEF IInv
<1>5. CASE RunCompletion
  BY <1>5, TrackedRun
<1>6. CASE UNCHANGED <<creates, awaiting, mainQueue>>
  BY <1>6, TrackedUnchanged
<1>7. \/ Relaunch \/ (\E u \in Url : SaveArticle(u))
      \/ CreateAcknowledged \/ CreateRejected
      \/ (\E q \in queries : Answer(q)) \/ RunCompletion
      \/ UNCHANGED <<creates, awaiting, mainQueue>>
  BY DEF Next, vars, Answer, UnsaveArticle, Ask, GetSavedNews, MemoryWarning,
         Connect, Disconnect, DeleteAcknowledged, DeleteRejected, store
<1> QED
  BY <1>1, <1>2, <1>3, <1>4, <1>5, <1>6, <1>7

\* What the local store shows is on the server or queued.
LEMMA NextBacked ==
  ASSUME IInv, StoreBacked, [Next]_vars PROVE StoreBacked'
<1> USE DEF store, calls, lists, history
<1>1. ASSUME UNCHANGED <<creates, remote>>, local' \subseteq local \union remote',
             deletes' \intersect local' = {}
      PROVE  StoreBacked'
  BY <1>1 DEF StoreBacked, Queued
<1>2. ASSUME NEW u \in Url, SaveArticle(u) PROVE StoreBacked'
  <2> DEFINE n == [savedAt |-> clock, url |-> u]
  <2>1. n \in Doc /\ ~(n.savedAt < clock)
    BY DEF IInv, TypeOK, Doc
  <2> HIDE DEF n
  <2>2. /\ creates' = Append(creates, n) /\ local' = local \union {n}
        /\ UNCHANGED <<remote, deletes>>
    BY <1>2 DEF SaveArticle, n
  <2>3. /\ Len(creates) \in Nat /\ Len(creates') = Len(creates) + 1
        /\ \A i \in 1..Len(creates) : creates'[i] = creates[i]
        /\ creates'[Len(creates) + 1] = n
    BY <2>1, <2>2 DEF IInv, TypeOK
  <2>4. \A d : Queued(d) \/ d = n => Queued(d)'
    BY <2>3 DEF Queued
  <2>5. n \notin deletes
    BY <2>1 DEF IInv, DeletesAsked, FreshClock
  <2> QED
    BY <2>2, <2>4, <2>5 DEF StoreBacked
<1>3. CASE CreateAcknowledged \/ CreateRejected
  <2> DEFINE h == Head(creates)
  <2>1. \A d : Queued(d) => Queued(d)' \/ d = h
    <3>1. /\ creates' = Tail(creates) /\ h = creates[1]
          /\ Len(creates) \in Nat \ {0} /\ Len(creates') = Len(creates) - 1
          /\ \A i \in 1..Len(creates') : creates'[i] = creates[i + 1]
      <4>1. creates # <<>> /\ creates' = Tail(creates)
        BY <1>3 DEF CreateAcknowledged, CreateRejected
      <4> QED
        BY <4>1 DEF IInv, TypeOK
    <3>2. \A i \in 1..Len(creates) :
            i = 1 \/ (i - 1 \in 1..Len(creates') /\ creates'[i - 1] = creates[i])
      BY <3>1
    <3> QED
      BY <3>1, <3>2 DEF Queued
  <2> QED
    BY <1>3, <2>1 DEF CreateAcknowledged, CreateRejected, StoreBacked
<1>4. ASSUME NEW d \in deletes, DeleteAcknowledged(d) \/ DeleteRejected(d)
      PROVE  StoreBacked'
  BY <1>4 DEF DeleteAcknowledged, DeleteRejected, StoreBacked, Queued
<1>5. ASSUME NEW q \in queries, ServerAnswers(q) PROVE StoreBacked'
  <2>1. Matching(q, remote \ deletes) \subseteq remote \ deletes
    BY DEF Matching
  <2> QED
    BY <1>1, <1>5, <2>1 DEF ServerAnswers, StoreBacked
<1>6. CASE RunCompletion
  <2>1. /\ UNCHANGED <<creates, remote>> /\ local' \subseteq local
        /\ deletes' \intersect local' = {}
    BY <1>6 DEF RunCompletion, RunSaved, RunSaveFailed, RunUnsave, RunUrls,
                RunNews, RunNewsFailed, RunOtherFailed, StoreBacked
  <2> QED
    BY <1>1, <2>1
<1>7. CASE UNCHANGED <<remote, local, creates, deletes>>
  BY <1>1, <1>7 DEF StoreBacked
<1>8. \/ (\E u \in Url : SaveArticle(u))
      \/ CreateAcknowledged \/ CreateRejected
      \/ (\E d \in deletes : DeleteAcknowledged(d) \/ DeleteRejected(d))
      \/ (\E q \in queries : ServerAnswers(q)) \/ RunCompletion
      \/ UNCHANGED <<remote, local, creates, deletes>>
  BY DEF Next, vars, Relaunch, UnsaveArticle, Ask, GetSavedNews, MemoryWarning,
         Connect, Disconnect, CacheAnswers, QueryFails
<1> QED
  BY <1>2, <1>3, <1>4, <1>5, <1>6, <1>7, <1>8

\* A document the app asked to delete does not slip back.
LEMMA NextDeletes ==
  ASSUME IInv, StoreBacked, DeletesTracked, [Next]_vars PROVE DeletesTracked'
<1> USE DEF store, calls, lists, history
<1>1. ASSUME UNCHANGED <<creates, remote, deletes, dropped>>, local \subseteq local'
      PROVE  DeletesTracked'
  BY <1>1 DEF DeletesTracked, Queued
<1>2. ASSUME NEW u \in Url, SaveArticle(u) PROVE DeletesTracked'
  <2> DEFINE n == [savedAt |-> clock, url |-> u]
  <2>1. n \in Doc /\ ~(n.savedAt < clock)
    BY DEF IInv, TypeOK, Doc
  <2> HIDE DEF n
  <2>2. /\ creates' = Append(creates, n) /\ local' = local \union {n}
        /\ UNCHANGED <<remote, deletes, dropped>>
    BY <1>2 DEF SaveArticle, n
  <2>3. \A d \in dropped : Queued(d)' => Queued(d)
    <3>1. /\ Len(creates) \in Nat /\ Len(creates') = Len(creates) + 1
          /\ \A i \in 1..Len(creates) : creates'[i] = creates[i]
          /\ creates'[Len(creates) + 1] = n
      BY <2>1, <2>2 DEF IInv, TypeOK
    <3>2. \A i \in 1..Len(creates') : i \in 1..Len(creates) \/ creates'[i] = n
      BY <3>1
    <3>3. n \notin dropped
      BY <2>1 DEF IInv, FreshClock
    <3> QED
      BY <3>1, <3>2, <3>3 DEF Queued
  <2> QED
    BY <2>2, <2>3 DEF DeletesTracked
<1>3. CASE CreateAcknowledged \/ CreateRejected
  <2>1. PICK h : h = Head(creates)
    OBVIOUS
  <2>2. creates # <<>> /\ creates' = Tail(creates) /\ UNCHANGED <<deletes, dropped>>
    BY <1>3 DEF CreateAcknowledged, CreateRejected
  <2>3. h \notin remote /\ Queued(h) /\ \A d : Queued(d)' => Queued(d) /\ d # h
    <3>1. /\ h = creates[1] /\ Len(creates) \in Nat \ {0} /\ h \notin remote
          /\ Len(creates') = Len(creates) - 1
          /\ \A i \in 1..Len(creates') : creates'[i] = creates[i + 1] /\ creates'[i] # h
      BY <2>1, <2>2, CreateHead DEF IInv, TypeOK
    <3>2. 1 \in 1..Len(creates) /\ \A i \in 1..Len(creates') : i + 1 \in 1..Len(creates)
      BY <3>1
    <3> QED
      BY <3>1, <3>2 DEF Queued
  <2>4. \/ remote' = remote \union {h} /\ local' = local
        \/ remote' = remote /\ local' = local \ {h}
    BY <1>3, <2>1 DEF CreateAcknowledged, CreateRejected
  <2> QED
    BY <2>2, <2>3, <2>4, Zenon DEF DeletesTracked
<1>4. ASSUME NEW d \in deletes, DeleteAcknowledged(d) \/ DeleteRejected(d)
      PROVE  DeletesTracked'
  <2>1. /\ ~Queued(d) /\ deletes' = deletes \ {d} /\ local \subseteq local'
        /\ remote' \subseteq remote /\ (d \in remote' => d \in local')
        /\ UNCHANGED <<creates, dropped>>
    BY <1>4 DEF DeleteAcknowledged, DeleteRejected
  <2>2. \A e : Queued(e)' <=> Queued(e)
    BY <2>1 DEF Queued
  <2> QED
    BY <2>1, <2>2 DEF DeletesTracked
<1>5. ASSUME NEW q \in queries, Answer(q) PROVE DeletesTracked'
  BY <1>1, <1>5 DEF Answer, ServerAnswers, CacheAnswers, QueryFails
<1>6. CASE RunCompletion
  <2>1. /\ UNCHANGED <<creates, remote>> /\ deletes \subseteq deletes'
        /\ \A d \in dropped' : d \in deletes' \/ (d \in dropped /\ (d \in local => d \in local'))
    BY <1>6 DEF RunCompletion, RunSaved, RunSaveFailed, RunUnsave, RunUrls,
                RunNews, RunNewsFailed, RunOtherFailed
  <2>2. \A d : Queued(d)' <=> Queued(d)
    BY <2>1 DEF Queued
  <2> QED
    BY <2>1, <2>2 DEF DeletesTracked
<1>7. CASE UNCHANGED <<remote, local, creates, deletes, dropped>>
  BY <1>1, <1>7
<1>8. \/ (\E u \in Url : SaveArticle(u))
      \/ CreateAcknowledged \/ CreateRejected
      \/ (\E d \in deletes : DeleteAcknowledged(d) \/ DeleteRejected(d))
      \/ (\E q \in queries : Answer(q)) \/ RunCompletion
      \/ UNCHANGED <<remote, local, creates, deletes, dropped>>
  BY DEF Next, vars, Answer, Relaunch, UnsaveArticle, Ask, GetSavedNews,
         MemoryWarning, Connect, Disconnect
<1> QED
  BY <1>2, <1>3, <1>4, <1>5, <1>6, <1>7, <1>8

\* Every save is answered once, the local store shows nothing that is neither
\* on the server nor on its way there, and a document once deleted is gone,
\* on its way out, or back by a refusal (Networking.swift:154-163, 173-175).
THEOREM WritesAreAccounted == Spec => []WritesAccounted
<1>1. Init => WritesAccounted
  <2> SUFFICES ASSUME Init PROVE WritesAccounted
    OBVIOUS
  <2>1. local \subseteq remote /\ deletes = {} /\ awaiting = {} /\ Len(mainQueue) = 0
    BY DEF Init
  <2> QED
    BY <2>1 DEF WritesAccounted, SavesTracked, AnsweredOnce, StoreBacked,
                DeletesTracked, Init
<1>2. IInv /\ WritesAccounted /\ [Next]_vars => WritesAccounted'
  BY NextTracked, NextBacked, NextDeletes DEF WritesAccounted
<1> QED
  BY <1>1, <1>2, InvariantHolds, PTL DEF Spec

\* A step that adds a deleted document to the local store.
LEMMA ReturnIsRefusal ==
  ASSUME IInv, WritesAccounted, [Next]_vars,
         NEW d \in dropped, d \in local' \ local
  PROVE  DeleteRejected(d)
<1> USE DEF store, calls, lists, history
<1>1. ASSUME NEW u \in Url, SaveArticle(u) PROVE FALSE
  <2>1. d = [savedAt |-> clock, url |-> u]
    BY <1>1 DEF SaveArticle
  <2> QED
    BY <2>1 DEF IInv, TypeOK, FreshClock
<1>2. ASSUME NEW q \in queries, ServerAnswers(q) PROVE FALSE
  <2>1. d \in remote /\ d \notin deletes
    BY <1>2 DEF ServerAnswers, Matching
  <2> QED
    BY <2>1 DEF WritesAccounted, DeletesTracked
<1>3. ASSUME NEW e \in deletes, DeleteRejected(e) PROVE DeleteRejected(d)
  <2>1. d = e
    BY <1>3 DEF DeleteRejected
  <2> QED
    BY <1>3, <2>1
<1>4. \/ (\E u \in Url : SaveArticle(u))
      \/ (\E e \in deletes : DeleteRejected(e))
      \/ (\E q \in queries : ServerAnswers(q))
      \/ local' \subseteq local
  BY DEF Next, vars, Relaunch, UnsaveArticle, Ask, GetSavedNews, MemoryWarning,
         Connect, Disconnect, CreateAcknowledged, CreateRejected,
         DeleteAcknowledged, CacheAnswers, QueryFails, RunCompletion, RunSaved,
         RunSaveFailed, RunUnsave, RunUrls, RunNews, RunNewsFailed, RunOtherFailed
<1> QED
  BY <1>1, <1>2, <1>3, <1>4

\* An unsaved article comes back by the refusal of its delete only, never by
\* a late answer to a query (Networking.swift:173-175, 192-211).
THEOREM UnsaveHoldsAlways == Spec => UnsaveHolds
<1>1. IInv /\ WritesAccounted /\ [Next]_vars =>
        [\A d \in dropped : d \in local' \ local => DeleteRejected(d)]_vars
  BY ReturnIsRefusal
<1> QED
  BY <1>1, InvariantHolds, WritesAreAccounted, PTL DEF Spec, UnsaveHolds

-----------------------------------------------------------------------------
(* SavedArticles implements Bookmarks.                                     *)

LEMMA InitRefines == Init => Promise!Init
BY DEF Init, Promise!Init, Kept, Urls

\* A step that adds nothing to Kept and leaves the marks alone.
LEMMA ShrinkRefines ==
  ASSUME Kept' \subseteq Kept, UNCHANGED savedUrls
  PROVE  Promise!Refuse
BY DEF Promise!Refuse, Urls

\* A step of the local store that teaches the app nothing.
LEMMA KeptShrinks ==
  ASSUME IInv, [Next]_vars, ~Relaunch, ~RunCompletion
  PROVE  Kept' \subseteq Kept /\ UNCHANGED savedUrls
<1> USE DEF store, calls, lists, history
<1>1. UNCHANGED <<known, dropped, savedUrls>>
  BY DEF Next, vars, SaveArticle, UnsaveArticle, Ask, GetSavedNews, MemoryWarning,
         Connect, Disconnect, CreateAcknowledged, CreateRejected,
         DeleteAcknowledged, DeleteRejected, ServerAnswers, CacheAnswers,
         QueryFails
<1>2. \A d \in known : d \in remote => d \in local \union dropped
  BY DEF IInv, ToldIsLocal, Told, ToldBefore
<1>3. \A d \in known : d \in Doc /\ d.savedAt < clock
  BY DEF IInv, TypeOK, FreshClock
<1>4. \A d \in known \ dropped : d \in local' => d \in local
  <2>1. ASSUME NEW u \in Url, SaveArticle(u)
        PROVE  \A d \in known : d \in local' => d \in local
    <3> DEFINE n == [savedAt |-> clock, url |-> u]
    <3>1. local' = local \union {n}
      BY <2>1 DEF SaveArticle
    <3>2. ~(n.savedAt < clock)
      BY DEF IInv, TypeOK
    <3> QED
      BY <1>3, <3>1, <3>2
  <2>2. ASSUME NEW d \in deletes, DeleteAcknowledged(d) \/ DeleteRejected(d)
        PROVE  local' \subseteq local \union dropped
    BY <2>2 DEF DeleteAcknowledged, DeleteRejected, IInv, DeletesAsked
  <2>3. ASSUME NEW q \in queries, ServerAnswers(q)
        PROVE  local' \subseteq local \union remote
    BY <2>3 DEF ServerAnswers, Matching
  <2>4. \/ \E u \in Url : SaveArticle(u)
        \/ \E d \in deletes : DeleteAcknowledged(d) \/ DeleteRejected(d)
        \/ \E q \in queries : ServerAnswers(q)
        \/ local' \subseteq local
    BY DEF Next, vars, UnsaveArticle, Ask, GetSavedNews, MemoryWarning,
         Connect, Disconnect, CreateAcknowledged, CreateRejected,
         CacheAnswers, QueryFails
  <2> QED
    BY <1>2, <2>1, <2>2, <2>3, <2>4
<1> QED
  BY <1>1, <1>4 DEF Kept

LEMMA RunRefines ==
  ASSUME IInv, TypeOK', NoLostBookmark', RunCompletion
  PROVE  [Promise!Next]_(Promise!bvars)
<1> DEFINE m == Head(mainQueue)
<1>1. m = mainQueue[1] /\ m \in Completion /\ Len(mainQueue) \in Nat \ {0}
  BY DEF RunCompletion, IInv, TypeOK
<1>2. m.docs \in SUBSET Doc /\ m.url \in Url \union {NoUrl}
  BY <1>1 DEF Completion
<1> HIDE DEF m
<1>3. \/ RunSaved(m)  \/ RunSaveFailed(m) \/ RunUnsave(m) \/ RunUrls(m)
      \/ RunNews(m)   \/ RunNewsFailed(m) \/ RunOtherFailed(m)
  BY DEF RunCompletion, m
<1>4. Urls(Kept') \subseteq savedUrls' /\ Urls(Kept') \in SUBSET Url
      /\ savedUrls' \in SUBSET Url
  BY DEF NoLostBookmark, Urls, Kept, TypeOK, Doc
<1>5. ASSUME Kept \subseteq Kept' PROVE Promise!Reload
  <2>1. Urls(Kept) \subseteq Urls(Kept')
    BY <1>5 DEF Urls
  <2> QED
    BY <1>4, <2>1 DEF Promise!Reload, Urls
<1>6. CASE RunSaved(m) \/ RunUrls(m) \/ RunNews(m)
  <2>1. Kept \subseteq Kept'
    BY <1>6 DEF RunSaved, RunUrls, RunNews, Kept
  <2> QED
    BY <1>5, <2>1 DEF Promise!Next
<1>7. CASE RunSaveFailed(m) \/ RunNewsFailed(m) \/ RunOtherFailed(m)
  <2>1. Kept' \subseteq Kept /\ UNCHANGED savedUrls
    BY <1>7 DEF RunSaveFailed, RunNewsFailed, RunOtherFailed, Kept, lists, history
  <2> QED
    BY <2>1, ShrinkRefines DEF Promise!Next
<1>8. CASE RunUnsave(m)
  <2>1. \A d \in Kept : d.url = m.url => d \in m.docs
    <3>1. \A d \in Kept : ToldBefore(1, d)
      BY DEF ToldBefore, Kept
    <3> QED
      BY <1>1, <1>8, <3>1 DEF IInv, SnapshotsCover, Covers, Kept, RunUnsave
  <2>2. Kept' = Kept \ m.docs
    BY <1>8 DEF RunUnsave, Kept
  <2>3. \A d \in m.docs : d.url = m.url
    BY <1>1, <1>8 DEF Completion, RunUnsave
  <2>4. Urls(Kept') = Urls(Kept) \ {m.url}
    BY <2>1, <2>2, <2>3 DEF Urls
  <2>5. savedUrls' = savedUrls \ {m.url}
    BY <1>8 DEF RunUnsave
  <2>6. CASE m.url \in Url
    <3>1. Promise!Remove(m.url)
      BY <2>4, <2>5 DEF Promise!Remove
    <3> QED
      BY <2>6, <3>1 DEF Promise!Next
  <2>7. CASE m.url = NoUrl
    <3>1. NoUrl \notin Urls(Kept) /\ NoUrl \notin savedUrls
      BY ConstantsAssumption DEF IInv, TypeOK, Kept, Urls, Doc
    <3>2. Urls(Kept') = Urls(Kept) /\ savedUrls' = savedUrls
      BY <2>4, <2>5, <2>7, <3>1
    <3>3. UNCHANGED Promise!bvars
      BY <3>2 DEF Promise!bvars, Urls
    <3> QED
      BY <3>3
  <2> QED
    BY <1>2, <2>6, <2>7
<1> QED
  BY <1>3, <1>6, <1>7, <1>8

LEMMA StepRefines ==
  ASSUME IInv, IInv', [Next]_vars
  PROVE  [Promise!Next]_(Promise!bvars)
<1>1. CASE Relaunch
  BY <1>1 DEF Relaunch, Promise!Next, Promise!Restart, Kept, Urls
<1>2. CASE RunCompletion
  BY <1>2, RunRefines DEF IInv
<1>3. CASE ~Relaunch /\ ~RunCompletion
  BY <1>3, KeptShrinks, ShrinkRefines DEF Promise!Next
<1> QED
  BY <1>1, <1>2, <1>3

THEOREM SavedArticlesImplementBookmarks == Spec => ImplementsBookmarks
BY InvariantHolds, InitRefines, StepRefines, PTL
   DEF Spec, ImplementsBookmarks, Promise!Spec

(***************************************************************************)
(* What Bookmarks is worth to a screen: in every behaviour it allows, each *)
(* url that the reader is known to keep is drawn as saved.  So whatever    *)
(* implements Bookmarks loses no bookmark.                                 *)
(***************************************************************************)
THEOREM KeptIsMarked == Promise!Spec => [](Urls(Kept) \subseteq savedUrls)
<1>1. Promise!Init => Urls(Kept) \subseteq savedUrls
  BY DEF Promise!Init, Urls
<1>2. ASSUME Urls(Kept) \subseteq savedUrls, [Promise!Next]_(Promise!bvars)
      PROVE  Urls(Kept') \subseteq savedUrls'
  <2>1. CASE UNCHANGED Promise!bvars
    BY <1>2, <2>1 DEF Promise!bvars, Urls
  <2>2. ASSUME NEW u \in Url, Promise!Confirm(u) \/ Promise!Remove(u)
        PROVE  Urls(Kept') \subseteq savedUrls'
    BY <1>2, <2>2 DEF Promise!Confirm, Promise!Remove, Urls
  <2>3. CASE Promise!Reload \/ Promise!Refuse \/ Promise!Restart
    BY <1>2, <2>3 DEF Promise!Reload, Promise!Refuse, Promise!Restart, Urls
  <2> QED
    BY <1>2, <2>1, <2>2, <2>3 DEF Promise!Next
<1>3. (Urls(Kept) \subseteq savedUrls)' <=> Urls(Kept') \subseteq savedUrls'
  BY DEF Urls
<1> QED
  BY <1>1, <1>2, <1>3, PTL DEF Promise!Spec
=============================================================================

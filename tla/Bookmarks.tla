------------------------------ MODULE Bookmarks ------------------------------
(***************************************************************************)
(* What the saved-articles component promises to the screens that draw a   *)
(* bookmark icon: the urls they find marked include every url the reader   *)
(* is known to keep, and a kept url is given up only when the reader       *)
(* unsaves it, the server refuses it, or the process starts again.         *)
(***************************************************************************)
CONSTANT Url

VARIABLES
  kept,     \* urls of bookmarks the app was told of
  marked    \* urls the screens show as saved

bvars == <<kept, marked>>

Init == kept = {} /\ marked = {}

\* A save is confirmed.
Confirm(u) ==
  /\ kept' \in {kept, kept \union {u}}
  /\ marked' = marked \union {u}

\* The reader unsaves an article.
Remove(u) ==
  /\ kept' = kept \ {u}
  /\ marked' = marked \ {u}

\* A load replaces what is marked and may teach the app of more bookmarks.
Reload ==
  \E k, m \in SUBSET Url :
    /\ kept \subseteq k /\ k \subseteq m
    /\ kept' = k
    /\ marked' = m

\* The server refuses a bookmark.
Refuse ==
  /\ \E k \in SUBSET kept : kept' = k
  /\ UNCHANGED marked

Restart == kept' = {} /\ marked' = {}

Next ==
  \/ \E u \in Url : Confirm(u) \/ Remove(u)
  \/ Reload
  \/ Refuse
  \/ Restart

Spec == Init /\ [][Next]_bvars
=============================================================================

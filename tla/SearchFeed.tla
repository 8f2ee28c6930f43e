------------------------------- MODULE SearchFeed -------------------------------
(***************************************************************************)
(* Searching: SearchResultsTableViewController, News.shared.searchResults  *)
(* and Networking.getSearchResults.                                        *)
(*                                                                         *)
(* URLSession runs the completion of a request on a background queue.  It  *)
(* appends a page to searchResults there, a read and a write that the main *)
(* thread may come between, and posts a block that reloads the table.  The *)
(* table asks for the cells of the rows it counted at its last reload.     *)
(* The controller goes with its home; closures it left behind refer to it  *)
(* as unowned.                                                             *)
(*                                                                         *)
(* An article is the query and the page it came from.                      *)
(***************************************************************************)
EXTENDS Naturals, Sequences, FiniteSets

CONSTANTS
  Text,          \* what a reader may search for
  NoText,        \* the empty query the controller starts with
  MaxArticles,   \* bound: articles of a page
  MaxPage,       \* bound: page asked for
  MaxSends       \* bound: requests ever sent

ASSUME SearchAssumption ==
  /\ NoText \notin Text
  /\ MaxArticles \in Nat /\ MaxPage \in Nat /\ MaxSends \in Nat

Hit     == [query : Text, page : Nat]
Request == [query : Text, page : Nat, nr : Nat]
Growth  == [base : Seq(Hit), news : Seq(Hit), live : BOOLEAN]

VARIABLES
  query,        \* currentQuery
  page,         \* currentPage
  keepLoading,
  results,      \* News.shared.searchResults
  rows,         \* rows the table counted
  requests,     \* requests without an answer
  sends,        \* requests sent so far
  appending,    \* the pages the background queue is appending, with the list
                \* it read: none or one; live: the controller exists
  reloads,      \* reloadData blocks posted to the main queue
  bookmarks,    \* whether bookmark calls of rows are without an answer
  orphans,      \* whether requests, blocks or bookmark calls are left of a
                \* controller that is gone
  trapped,      \* a run-time check of the app's own code failed
  wiped,        \* history: the list was emptied since the table counted it
  calm          \* history: so far the reader waited for each answer and swiped
                \* no loading row, no request failed and the system had memory
                \* enough

net  == <<requests, sends, appending, reloads, bookmarks, orphans>>
vars == <<query, page, keepLoading, results, rows, net, trapped, wiped,
          calm>>

Settled ==
  requests = {} /\ appending = {} /\ reloads = 0 /\ ~bookmarks /\ ~orphans

\* loadNewsForPage asks for a page of the titles that match.
Send(q, p) ==
  /\ sends' = sends + 1
  /\ requests' = requests \union {[query |-> q, page |-> p, nr |-> sends + 1]}
  /\ UNCHANGED <<appending, reloads, bookmarks, orphans>>

-----------------------------------------------------------------------------
Init ==
  /\ query = NoText
  /\ page = 1
  /\ keepLoading = TRUE
  /\ results = <<>>
  /\ rows = 1
  /\ requests = {} /\ sends = 0
  /\ appending = {} /\ reloads = 0
  /\ bookmarks = FALSE /\ orphans = FALSE
  /\ trapped = FALSE
  /\ wiped = FALSE
  /\ calm = TRUE

\* Mutant: the results so far stay.
SearchOnTop(q) ==
  /\ sends < MaxSends
  /\ query' = q
  /\ Send(q, page)
  /\ UNCHANGED <<page, keepLoading, results, rows, trapped, wiped>>

\* searchBarSearchButtonClicked: the page count goes on from where it is.
Search(q) ==
  /\ sends < MaxSends
  /\ query' = q
  /\ results' = <<>>
  /\ wiped' = TRUE
  /\ Send(q, page)
  /\ UNCHANGED <<page, keepLoading, rows, trapped>>

\* Mutant: the table is not told.
CancelUnseen ==
  /\ results' = <<>>
  /\ wiped' = TRUE
  /\ UNCHANGED <<query, page, keepLoading, rows, net, trapped>>

\* searchBarCancelButtonClicked.
Cancel ==
  /\ results' = <<>>
  /\ rows' = 1
  /\ wiped' = FALSE
  /\ UNCHANGED <<query, page, keepLoading, net, trapped>>

MemoryWarning ==
  /\ results' = <<>>
  /\ wiped' = TRUE
  /\ UNCHANGED <<query, page, keepLoading, rows, net, trapped>>

\* Mutant: pages are counted down.
DrawLoadingBack ==
  /\ Len(results) < rows /\ keepLoading /\ query # NoText
  /\ sends < MaxSends
  /\ page' = page - 1
  /\ Send(query, page - 1)
  /\ UNCHANGED <<query, keepLoading, results, rows, trapped, wiped>>

\* The table asks for the loading cell below the articles.
DrawLoading ==
  /\ Len(results) < rows /\ keepLoading /\ query # NoText
  /\ sends < MaxSends /\ page < MaxPage
  /\ page' = page + 1
  /\ Send(query, page + 1)
  /\ UNCHANGED <<query, keepLoading, results, rows, trapped, wiped>>

\* It asks for the cell of an article that is not there, or the reader taps
\* or swipes one.
DrawMissing ==
  /\ \E row \in Len(results)..(rows - 1) : row # Len(results) \/ ~keepLoading
  /\ trapped' = TRUE
  /\ UNCHANGED <<query, page, keepLoading, results, rows, net, wiped>>

\* Save or Unsave, on the row of an article.
SaveRow(row) ==
  /\ row < rows - 1 /\ row < Len(results)
  /\ bookmarks' = TRUE
  /\ UNCHANGED <<query, page, keepLoading, results, rows, requests, sends, appending,
                 reloads, orphans, trapped, wiped>>

\* The loading row is swiped: its cell is not one of an article.
SwipeLoading ==
  /\ query # NoText
  /\ trapped' = TRUE
  /\ UNCHANGED <<query, page, keepLoading, results, rows, net, wiped>>

\* One bookmark call, the last or not, ends with a message on the controller.
BookmarkAnswered ==
  /\ bookmarks /\ bookmarks' \in BOOLEAN
  /\ UNCHANGED <<query, page, keepLoading, results, rows, requests, sends, appending,
                 reloads, orphans, trapped, wiped>>

-----------------------------------------------------------------------------
(* The home.                                                               *)

\* Another home replaces it: deinit, and a new controller.
LeaveHome ==
  /\ query' = NoText /\ page' = 1 /\ keepLoading' = TRUE
  /\ results' = <<>> /\ rows' = 1 /\ wiped' = FALSE
  /\ requests' = {} /\ reloads' = 0 /\ bookmarks' = FALSE
  /\ appending' = {[a EXCEPT !.live = FALSE] : a \in appending}
  /\ orphans' = (orphans \/ requests # {} \/ reloads > 0 \/ bookmarks)
  /\ UNCHANGED <<sends, trapped>>

\* A closure reaches for a controller that is gone.
OrphanRuns ==
  /\ orphans
  /\ trapped' = TRUE
  /\ UNCHANGED <<query, page, keepLoading, results, rows, net, wiped>>

-----------------------------------------------------------------------------
(* The completion, on the background queue, and the block it posts.        *)

PageArrives(r, n) ==
  /\ r \in requests /\ appending = {}
  /\ requests' = requests \ {r}
  /\ keepLoading' = TRUE
  /\ appending' = {[base |-> results,
                    news |-> [i \in 1..n |-> [query |-> r.query, page |-> r.page]],
                    live |-> TRUE]}
  /\ UNCHANGED <<query, page, results, rows, sends, reloads, bookmarks, orphans,
                 trapped, wiped>>

PageAppended ==
  /\ \E a \in appending :
       /\ results' = a.base \o a.news
       /\ reloads' = IF a.live THEN reloads + 1 ELSE reloads
       /\ orphans' = (orphans \/ ~a.live)
  /\ appending' = {}
  /\ UNCHANGED <<query, page, keepLoading, rows, requests, sends, bookmarks, trapped,
                 wiped>>

PageFails(r) ==
  /\ r \in requests /\ appending = {}
  /\ requests' = requests \ {r}
  /\ keepLoading' = FALSE
  /\ UNCHANGED <<query, page, results, rows, sends, appending, reloads, bookmarks,
                 orphans, trapped, wiped>>

\* Mutant: the loading row is not counted.
ReloadTableShort ==
  /\ reloads > 0
  /\ reloads' = reloads - 1
  /\ rows' = Len(results)
  /\ wiped' = FALSE
  /\ UNCHANGED <<query, page, keepLoading, results, requests, sends, appending,
                 bookmarks, orphans, trapped>>

ReloadTable ==
  /\ reloads > 0
  /\ reloads' = reloads - 1
  /\ rows' = Len(results) + 1
  /\ wiped' = FALSE
  /\ UNCHANGED <<query, page, keepLoading, results, requests, sends, appending,
                 bookmarks, orphans, trapped>>

-----------------------------------------------------------------------------
Ask ==
  \/ \E q \in Text : Search(q)
  \/ Cancel \/ DrawLoading \/ DrawMissing \/ LeaveHome
  \/ \E row \in 0..(rows - 1) : SaveRow(row)

Mishap == MemoryWarning \/ SwipeLoading \/ \E r \in requests : PageFails(r)

Other ==
  \/ \E r \in requests, n \in 0..MaxArticles : PageArrives(r, n)
  \/ PageAppended
  \/ ReloadTable
  \/ BookmarkAnswered
  \/ OrphanRuns

Next ==
  /\ ~trapped
  /\ \/ Ask /\ calm' = (calm /\ Settled)
     \/ Mishap /\ calm' = FALSE
     \/ Other /\ UNCHANGED calm

Spec == Init /\ [][Next]_vars

-----------------------------------------------------------------------------
(* The properties.                                                         *)

TypeOK ==
  /\ query \in Text \union {NoText}
  /\ page \in Nat \ {0}
  /\ keepLoading \in BOOLEAN
  /\ results \in Seq(Hit)
  /\ rows \in Nat \ {0}
  /\ requests \subseteq Request
  /\ sends \in Nat /\ reloads \in Nat
  /\ appending \subseteq Growth
  /\ bookmarks \in BOOLEAN /\ orphans \in BOOLEAN
  /\ trapped \in BOOLEAN /\ wiped \in BOOLEAN /\ calm \in BOOLEAN

(***************************************************************************)
(* TableCatchesUp: when no answer is on its way into the table and none of *)
(* an earlier home, its rows are the results and the loading row, or else  *)
(* the list was emptied under it: no order of answers, failures and taps   *)
(* leaves articles undisplayed                                             *)
(* (SearchResultsTableViewController.swift:54-56, 220-227).                *)
(***************************************************************************)
TableCatchesUp ==
  reloads = 0 /\ appending = {} /\ ~orphans /\ ~wiped => rows = Len(results) + 1

(***************************************************************************)
(* PagesInOrder: for a reader who waits for each page the results are of   *)
(* one query and in the order of their pages, and no page is shown twice:  *)
(* rows a page's length apart are of different pages.  The answer of an    *)
(* earlier search breaks it (SearchResultsTableViewController.swift:80-86, *)
(* 184-189, 223).                                                          *)
(***************************************************************************)
PagesInOrder ==
  calm => \A i, j \in 1..Len(results) : i < j =>
    /\ results[i].query = results[j].query
    /\ results[i].page <= results[j].page
    /\ j - i >= MaxArticles => results[i].page # results[j].page

(***************************************************************************)
(* SearchNeverTraps: for a reader who waits for each answer and swipes no  *)
(* loading row, and while requests succeed, the table never asks for an    *)
(* article that is not there and no closure finds its controller gone      *)
(* (SearchResultsTableViewController.swift:79-116, 130-147, 218).          *)
(***************************************************************************)
SearchNeverTraps == calm => ~trapped

(***************************************************************************)
(* FindsFirstPage: searching the titles (README.md:6) shows the matching   *)
(* articles from the most recent on: a list starts with its first page.    *)
(***************************************************************************)
FindsFirstPage == calm /\ results # <<>> => results[1].page = 1
=============================================================================

# News Flash: a verification project

News Flash (`src/News Flash/News Flash`) is an iOS news reader in Swift: a deck
of top news, an explore screen with categories and a search, a feed chosen by
interests, saved articles and a profile. It is a small program (about 3 800
lines with its views) whose difficulties all have one shape: state in
singletons, `UserDefaults` and a Firestore collection, changed by completions
that arrive on other queues, later, in another order, or not at all, while the
reader keeps tapping. This directory holds TLA+ models of that state, the TLC
runs that check them on small instances, and TLAPS proofs of the results that
hold for every size.

## 1. Inventory

| component | state | operations | talks to |
|---|---|---|---|
| Saved articles (`Networking.swift:133-234`, `News.swift`) | `News.shared.savedUrls`, `savedNews`; the collection `users/<uid>/saved` | save, unsave, load the Saved screen, load the urls at launch, memory warning | Firestore, every screen with a bookmark icon |
| Account (`Authentication.swift`, `UserRepository.swift`, login, sign-up and profile controllers, `SceneDelegate.swift`) | the signed-in user, seven `UserDefaults` keys, the user's document, which screen and sheet is up | sign in, sign up, sign out, refresh at launch, edit details, interests and settings | Firebase Auth, Firestore, the news requests (country, interests) |
| Flash cards (`FlashCardsViewController.swift`, KolodaView) | `News.shared.topNews`, the deck's index, count and visible cards, the reload button | load, change of country, reload, swipe, bring back, save/share/open the top card, a new home and the end of the last one | the news API, UserDefaults (observer), saved articles |
| Search (`SearchResultsTableViewController.swift`) | `News.shared.searchResults`, query, page, `keepLoading`, the table's rows | search, cancel, load the next page, save a row, memory warning | the news API, saved articles |
| For You feed (`ForYouViewController.swift`) | `allNews`, page, `keepLoading`, the refresh control | load, refresh, next page, save a row, change of interests or language | the news API, UserDefaults (observers), saved articles |
| Explore and categories (`ExploreViewController.swift`, `CategoryViewController.swift`) | `categoryNews`, one controller per visit | open a category, load, refresh, save or unsave a row, leave, memory warning | the news API, saved articles, image loading |
| Saved news screen (`SavedNewsViewController.swift`) | table rows over `savedNews` | show, refresh, unsave a row | saved articles |
| Card and cell views (`Views/`) | `saved` of each card in the window, a cell's image and flag | toggle, draw | saved articles, image loading |
| Image loading (`Helpers/Extensions.swift`) | none but the views it fills | load, place | URLSession |
| Profile carousel (`ProfileViewController.swift:80-83, 165-201`) | a timer and a row | scroll | – |
| App delegate, push notifications (`AppDelegate.swift`) | none of the app's | register, print | Firebase Messaging |
| Base controller, styling, constants | none beside a reachability notifier | show a message | Reachability |

The hard behaviours are interleaving (a background completion between two taps),
ordering (answers of overlapping requests), partial failure (a write refused, a
document missing, a page that fails), process death with writes queued, stale
copies (a draft, a cached count, a snapshot), and run-time traps: the code uses
forced unwraps, forced casts, `unowned self` and unchecked indices freely, so an
unlucky order is a crash and not a wrong label.

What makes each component correct, in a sentence:

- *Saved articles*: a bookmark the reader was told of stays marked until it is
  removed, whatever loads, saves and unsaves overlap; each save is answered.
- *Account*: what is remembered is one reader's, also after a process that was
  killed between two stores, a user's document holds that user's data, the signed-in home is on screen only with a user, a finished
  sign-in or sign-up moves on, nothing traps.
- *Flash cards*: the button on a card acts on the article it shows; the deck
  becomes that of the last list, also when one home follows another; indices stay
  in range.
- *Search*: results belong to the query, in order, from the first page; the
  table shows what was loaded; indices stay in range.
- *For You*: the feed is of the interests and language that are stored, the table
  shows the list, a refresh ends, an answer finds its controller.
- *Categories, images*: the list under a title is that category's, the table
  counts it, an answer finds its controller, a cell shows the image and the flag
  of its article.
- *Saved screen, card views*: rows match the list when one is deleted, a swipe
  unsaves the article it was made on, a button says what is saved.

`PROJECT.json` lists the components with their files and the hazards with the
line where each bites and the properties that cover it.

## 2. Modules

| module | models | run by |
|---|---|---|
| `SavedArticles` | saved articles and the part of the Firestore client they rest on | `MCSavedArticles` |
| `Bookmarks` | the abstract promise to the screens with a bookmark icon | as a property of `SavedArticles` |
| `SavedArticlesProofs` | types, the inductive invariant, the account of writes, the refinement | TLAPS |
| `Account` | users, what is remembered, sheets and sign-in/up/out | `MCAccount` |
| `Session` | the abstract promise to the screens: who is signed in and which home is up | as a property of `Account` |
| `AccountProofs` | types, the inductive invariant and what follows, the refinement | TLAPS |
| `AccountReaderProofs` | what UserDefaults and documents hold for a reader who waits | TLAPS |
| `FlashCards` | the top news and the deck of cards | `MCFlashCards` |
| `FlashCardsProofs` | types, the deck and its list, the reader who waits | TLAPS |
| `SearchFeed` | search results and their table | `MCSearchFeed` |
| `SearchFeedProofs` | types, table and results, the reader who waits | TLAPS |
| `ForYouFeed` | the feed of interests and language | `MCForYouFeed` |
| `ForYouFeedProofs` | types, table and refresh control, the reader who waits | TLAPS |
| `CategoryFeed` | visits to categories that share one list, images, flags of rows | `MCCategoryFeed` |
| `CategoryFeedProofs` | types, table and list, the reader who waits | TLAPS |
| `SavedScreens` | `SavedArticles` composed with the Saved table, a card and the rows of other feeds | `MCSavedScreens` |
| `SavedScreensProofs` | types, that it implements `SavedArticles`, the reader who waits | TLAPS |

A definition whose comment says "Mutant" belongs to no specification. It is a
plausible slip in the definition that follows, and shows that a property would
notice it.

### SavedArticles

`remote` is the server's collection, `local` the client's local store with
pending writes applied, `creates` and `deletes` the writes the server has not
acknowledged, `awaiting` the creates whose completion is registered in this
process, `queries` the `getDocuments` calls under way, `mainQueue` the
completions posted and not yet run. `savedNews` and `savedUrls` are the two
lists of the singleton. Taps (`SaveArticle`, `UnsaveArticle`, `GetSavedNews`),
the worker queue (`ServerAnswers`, `CacheAnswers`, `CreateAcknowledged`,
`DeleteRejected` ...) and the main queue (`RunCompletion`, one disjunct per
closure) interleave freely; `Relaunch` drops what lives in memory and keeps the
store, as Firestore's persistence does.

Notes on the abstraction:

- `savedUrls` is a set: the code appends to it, filters it, empties it and asks
  `contains`, and nothing depends on order or multiplicity.
- An article in `savedNews` carries its document. The code has only the url; the
  identity is needed to say "none twice" and nothing is computed from it.
- Creates form a queue, since Firestore acknowledges writes in order and the
  order of the completions matters; deletes have no completion and form a set. A
  delete waits for the create of its document.
- A write enters the local store in the step of the call, although the client
  enqueues it: the worker queue is serial, so no query made later overtakes it.
- Firestore is modelled from the pod's sources in `src/News Flash/Pods`: when a
  listener raises its first snapshot (`query_listener.cc`), what an
  acknowledgement and a refusal do (`sync_engine.cc`), how the client goes
  offline and back (`online_state_tracker.cc`).
- `filter` is the set `Without` of the sequences that keep the other articles in
  their order; there is just one. `SelectSeq`, which says the same, is defined by
  recursion, out of the prover's reach.
- One device per account. `known` and `dropped` are history variables.

### Account

Data is abstracted to its owner: a key or a field holds the user whose data it
is, or `NoUser`. That is exactly what the properties tell apart, and "the
document of b holds a's interests" is then a plain inequality. `root`,
`profile` and `sheet` say what is on screen; `calls` are the closures waiting
for Firebase or for the end of a button's animation. A call knows the sheet whose
controller its closure captured and, as `live`, whether that controller still
exists: the closures hold it `unowned`, so that reaching a sheet that was swiped
away is a trap (`Reaches`). Editing sheets copy `UserDefaults` into `draft` when
they open and write when they disappear (`Write`: first both copies, then the
server may refuse its own).

- The sign-up is presented as a sheet by a storyboard segue, outside a navigation
  controller; the push of the interests step goes nowhere (`RevertEnds`), so that
  step is unreachable and not modelled.
- A handler is one step where a kill in the middle shows nothing new. Where it
  changes two things that persist, the process may also end in between: the
  actions named `...Cut` do the first of its stores and stop. `LoginCut`,
  `SetDocCut`, `RefreshCut` and `SettingsCut` end in the stores of a sign-in, a
  sign-up, a refresh or the settings sheet; `DetailsCut` in those of the details
  sheet; `SignOutCut` between Firebase forgetting the user
  (`Authentication.swift:48`) and the last of the seven removals (line 50,
  `UserRepository.swift:32-36`), and `SignOutEndsCut` in the second removal at the
  end of the animation. `MaxCuts` bounds the processes that may end so.
- What a cut sign-out leaves is the history variable `clean`: false from a sign-out
  that was cut short to the next complete sign-in or sign-out.
- A snapshot of a user document is taken and delivered in one step; identical
  calls of dismissed sheets are one element of the set.
- Editors are not opened while the sign-out's animation runs, and the sign-out
  that the keychain refuses is left out.
- `root = "trapped"` is a crash in the app's own code; `Launch` starts the app
  again from what persisted, as after a `Kill`.

### FlashCards

A list is the request it came from, its country and its length; an article is a
request and a position. `Complete` is the part of a completion on URLSession's
background queue, which assigns `topNews` and posts a block; `RunBlock` is that
block on the main queue. Swipe, bring-back and the top card's buttons come in
between. `Deck`, `ExtendDeck`, `Filled`, `Redrawn`, `Swipe` and `BringBack`
follow KolodaView's arithmetic on `currentCardIndex`, `countOfCards` (a cached
count) and the data source's own count (which reads `topNews`). Animations of the
deck are instantaneous; images are left out but for the controller they keep alive,
and the saved flag of a card is in `SavedScreens`.

Each sign-in and each sign-out replaces the home (`LoginViewController.swift:62`,
`ProfileViewController.swift:122`), and with it the controller and its KolodaView;
`topNews` belongs to a singleton and stays. `ReplaceHome` is the new `viewDidLoad`:
assigning `dataSource` deals a deck over the list that is there
(`KolodaView.swift:121-125`, `171-193`), then the first request goes out. The last
controller's `deinit` empties the list before that (`gone`) or after it
(`Release`), as late as an image load that holds `self` lets it
(`FlashCardsViewController.swift:134-136`); `kept` are the controllers still alive.
Those observe the country as well (`ChangeCountry` sends a request for each), and
their blocks move a deck nobody sees; a block of a controller that is gone reads
an unowned `self` and traps (`RunBlockOfLeft`). `trapped` tells that from an index
of the deck out of range.

- `ReplaceHome` chooses the country the new home loads for: a sign-in has stored
  one before, a sign-out removes it ("bg" then). The store or removal and the new
  home are one step here; the observers of the home that is left, which a sign-in's
  stores call, are `ChangeCountry` just before it.
- `Opening` is the first load of the home on screen, whose block only calls
  `reloadData`; `ToOpen` says that it was not shown yet.

### SearchFeed

`results += news` on the background queue is two steps, a read (`PageArrives`)
and a write (`PageAppended`), with the main thread free to empty or draw the
list in between. `rows` is what the table counted at its last reload, which need
not be `Len(results) + 1` any more. `DrawLoading` is the table asking for the
loading row, which requests the next page; `DrawMissing` is the table asking for
an article that is not there, a crash. The table is drawn also while it is
hidden. `page` is never reset: it is counted up by `DrawLoading` alone.

A row that is swiped starts a bookmark call (`SaveRow`; which of the two does not
matter here) whose completion holds the controller `unowned`; `bookmarks` says
that some are out. `SwipeLoading` is a swipe on the loading row, whose forced cast
fails. The controller lives and goes with the home (`LeaveHome`, its `deinit`):
what it has left out becomes `orphans`, and the first of them to run traps
(`OrphanRuns`); a page being appended then is written all the same, and its block
becomes an orphan.

### ForYouFeed

`interests` and `language` are the two keys of `UserDefaults` the controller
observes. Other screens store and remove them on the main thread, and `Observe` is
what the observer does in that same step: with both keys set it asks for a
refresh. `LoginStores` is one step of two stores, so that a language left from
another reader makes two requests of it. A request is "refresh" or "page" and is
answered, on the background queue, by `Refreshed`, by `PageArrives` and
`PageAppended` (`allNews += news`, a read and a write), or by `RequestFails`;
`RunBlock` is the block either posts to the main queue. `open` says that the
controller exists: `LeaveHome` is its `deinit`, after which the requests and
blocks that hold it `unowned` are not `live`, and the next one to be run traps;
`bookmarks` are the calls of swiped rows (`SaveRow`), live or not, and
`BookmarkAnswered` is the end of one. An
article is the wish and the page it came from, which is what the properties tell
apart. `found` is the count of the *search's* results, which `didSelectRowAt`
compares the row with.

Assumed of what is not the app's: a home that another one replaces is released;
the refresh control does not fire while it spins; storing the value that is there
may or may not notify an observer (`Told`); URLSession runs completions one at a
time (`Arrives` waits for the page being appended).

### CategoryFeed

A visit is one `CategoryViewController`; it counts its requests without an answer
and its posted `reloadData` blocks. `Open` pushes it, `Leave` pops it, and
`Release` is its `deinit`, which runs in the step that drops the last reference:
the closures of image loads and of bookmark calls (`calls`) hold a controller
strongly, those of the requests `unowned`. So a controller may outlive its place
on the screen, and its `deinit` empties the list the next one has loaded
(`BookmarkDone`, `ImageArrives`, `CallFails` all end in `Release`); or it is gone
when its answer comes (`ReloadNothing`: a trap). `Arrives` is the background half
of an answer, `ReloadTable` the block on the main queue. Of the table one reusable
cell is followed: `Draw` gives it a row's article and asks for its image,
`ImageArrives` stores whatever image comes, `BookmarkDone` marks the cell whatever
it shows by then.

The handlers on the main thread are one step each; a background answer that
assigns the list in the middle of one is not modelled, except between counting
and drawing. An index out of range in drawing, tapping or swiping is one action
(`TouchMissing`). Of another table than the one on the screen no cell is followed.

### SavedScreens

Each step is one of `SavedArticles` with what the closure of the calling screen
does, or a step of the screens alone: `SSpec` implements `Spec`, which is proved.
`asked` and `posted` carry the closures of the queries in flight and of the
completions that wait: "load" and "refresh" of the Saved table, "row" of a swipe
with the index path it captured, "card" of the button, "other" for the rows of the
search and of the feeds. `RunSwipe` filters `savedNews`, then deletes the captured
row: UIKit raises an exception unless there is now one row less. `reloads` is the
block a refresh posts in its completion (`Advance` moves it up the queue, for it
runs before completions posted later); a load on opening reloads in its own block.
`TouchMissing` draws or swipes a row that the list lost.

`cards` is Koloda's window: the url and the flag of each card shown, top first, at
most `Visible` of them (3 in the code). A flag is read from `savedUrls` when the card
is made (`Fresh`, `FlashCardsViewController.swift:126-128`): by `setupDeck` for the
whole window (`DealCards`), by `loadNextCard` for the one that enters below when the
top one is swiped (`SwipeCard`), by `revertAction` for the one that is brought back
(`BringBack`). From then on only the card's own button toggles it (`Toggled`), on the
card that was tapped, wherever in the window it is by the time of the answer.
`TouchReplaced` taps a card whose list was replaced, so that the button acts on
another article than the card shows.

The one process of a run does not end, which is what `SavedArticles` is for. The
cards are followed as long as the reader is `calm`, and they are dealt only when
nothing is under way: a card made before `updateSavedUrls` has answered stays
unmarked (see the behaviours below). One home is modelled: a sign-in or a sign-out
replaces these screens too, which is followed in `FlashCards`, `SearchFeed` and
`ForYouFeed` only.

### The history variable `calm`

Some properties hold only for a reader who is patient; the code promises
nothing to others, and each `calm` says precisely for whom. In `Account`: nobody
starts anything while a call is out or leaves a sheet that waits, no existing
document fails to be read, and nobody signed up (an account made by a sign-up
has no interests, and the next sign-in or launch runs into a forced cast). Kills
do not end it, wherever they fall; what a cut sign-out leaves is `clean`, above. In
`FlashCards`: each request, and each new home, starts only when all is answered and
every home that was left is released, no deck of a home is swiped before its first
load is shown, and there was no memory warning; the release itself may come at any
time, before or after the answer of the new home. In `SearchFeed`: the reader acts only when each
answer is shown, also that of a bookmark call, and swipes no loading row, no
request failed and there was no memory warning. In `ForYouFeed`: the same but for
the loading row, which he cannot swipe then, and no sign-in met a language that
was left. In
`CategoryFeed`: he acts when nothing is under way, and memory sufficed; the weaker
`patient` says only that no category was left before its requests ended. In
`SavedScreens`: he waits for each answer, saves nothing twice, swipes no row of a
table that was not told of a change, taps no card of a list that was replaced,
changes the bookmark of any card in the window, also one below the top, by its button
only, the urls in the window differ, and memory sufficed; the server may still refuse what it wants. `calm` never
becomes TRUE again and guards no action (but `ShowCards`, which would change nothing
for a hasty reader: `cards` is followed for the patient one only): the runs explore the other readers as
well, and properties without it hold for all.

## 3. Runs

| run | expects | bounds | shows |
|---|---|---|---|
| `saved_overlap` | pass | 2 urls, 2 documents, 2 calls in flight, 2 launches | `NoLostBookmark`, `WritesAccounted`, `UnsaveHolds`, `ImplementsBookmarks`, `SaveSettles`, and the strengthening `IInv` |
| `saved_screens` | pass | 2 urls, both top news, a window of 2 cards, 2 documents, 2 calls in flight, 1 launch | `SavedTableCatchesUp`, `SavedRowsCurrent`, `CardMarked`, `CalmNoPhantom`, `CalmNewestFirst` |
| `account_any` | pass | 2 users, any of whom may have an account at first, 3 launches, of which the first may end inside a handler, 2 calls in flight in each of the first two and 1 in the third | `ImplementsSession`, `RemembersOneReader`, `OwnDocument`, `NeverTraps`, and `IInv`, which implies `HomeNeedsUser` and `SpinnerMeansSignedIn` |
| `account_login` | violation | 2 users, 1 launch | `LoginGoesHome` |
| `account_signup` | violation | 2 users, 1 launch | `SignUpMovesOn` |
| `cards_any` | pass | 2 countries, window of 2, lists of up to 3, 4 requests, 2 homes | `DeckFollowsList`, `TrapsNeedNewList`, `ReloadOffered`, `DeckIsCurrent`, `NewsOfCountry` |
| `cards_offline` | violation | lists of up to 3, 2 requests | `LoadedNewsStay` |
| `search_any` | pass | 2 queries, pages of up to 2, 4 pages, 4 requests | `TableCatchesUp`, `PagesInOrder`, `SearchNeverTraps` |
| `search_again` | violation | the same | `FindsFirstPage` |
| `foryou_any` | pass | 2 interests, 2 languages, pages of up to 2, 2 pages, 3 calls | `FeedCatchesUp`, `SpinnerHasAnswer`, `FeedOfInterests`, `FeedNeverTraps`, `OnlyFirstPage` |
| `foryou_tap` | violation | the same | `TapOpens` |
| `category_any` | pass | 2 categories, answers of 0 or 2 articles, 2 visits, 2 calls, 1 article saved at a time | `ListOfShown`, `CategoryCatchesUp`, `CategoryNeverTraps`, `CellOfArticle` |

Why the bounds are enough to be interesting:

- *Saved articles.* Every conflict is between two calls: a load and a save, a
  save and an unsave of the same url, two unsaves. Two urls separate "this
  article" from "another". The document limit includes one from an earlier
  launch, so that a load has something to bring. The second launch meets writes
  the first one left queued.
- *Saved screens.* Two calls in flight let any two closures cross: a swipe and a
  refresh, two swipes, a save elsewhere and a load. One saved article and one
  that is not give a list that grows, shrinks and is empty; any url may be on a
  card. Two cards are one on top and one below it, whose flag is read a swipe before
  it comes to the top; a third would wait a swipe longer. `CalmNoPhantom` and `CalmNewestFirst` are for the reader who waits: for
  another, the acknowledgement of a save may follow the unsave of its article and
  append the url again (`Networking.swift:158-159`).
- *Account.* Two users are one whose data may be left over and one who comes
  next. Nothing in the code singles out a user and any set of them may exist at
  first, so `account_any` is checked up to their permutations; it has no liveness
  property, for which symmetry would be unsound, and `Session` singles out no user
  either. Three launches allow a process killed in the middle of a sign-in, twice.
  `MaxCalls` is 2, 2 and 1 for them: two calls of the reader cross in each of the first
  two processes, and the third shows what the two that ended left behind, for which one
  at a time is enough (the proofs hold for every `MaxCalls`).
  `MaxCuts` is 1: the first process may end between any two stores, and two more
  launches follow, one for the next reader to sign in over what was left and one to
  be killed between handlers as well. More cuts are covered by the proofs, which hold
  for every `MaxCuts`.
  With refresh and sign-out answers the calls in flight reach four.
- *Flash cards.* The window is 3 in the code (`countOfVisibleCards`) and 2 here;
  lists of 0 to 3 are shorter than, equal to and longer than it, and the proofs hold
  for every size. Two homes are the one on screen and the one it replaced; four
  requests are the first of each, with a change of country and a reload, or with the
  two requests that one change makes while the old controller lives. The code singles
  out no country, hence the symmetry. `MaxDeck` bounds bringing cards back: with a
  stale count the deck may keep more cards than its window.
- *Search.* Two queries, a page that is empty or holds two; four requests allow
  two searches with a further page each.
- *For You.* Two interests and two languages tell the stored wish from an earlier
  one; the code singles out none, hence the symmetry. Three calls of `getAllNews`
  are the first page and two refreshes that overlap, also across a change of home.
- *Categories.* The conflicts are between one visit and the next; two categories
  tell whose list is shown, up to their permutation, since the code singles out
  none. An answer of none and one of two articles make the list shrink and grow
  under a table with two rows. Two calls are an image and a bookmark call, or two
  images asked for by one cell.

`CHECK_DEADLOCK FALSE` stands where the system may really stop: after a crash
with no launch left, or with the requests used up.

### Fairness

Only `SaveSettles`, `LoginGoesHome` and `SignUpMovesOn` need it. In
`SavedArticles`: the main queue runs its blocks; each query gets a first snapshot,
from the server or offline from the cache; connected, Firestore's write pipeline
retries until the server accepts or refuses a write (strong fairness, for the
network may come and go); and the network comes back, an assumption on the
environment. `saved_overlap` checks `SaveSettles` with two launches: a save that
a killed process leaves queued is no longer awaited. In `Account`: Firebase answers
each call, animations end. Nothing is ever assumed of the reader, of the system
killing the process or of a refusal.

### Findings

- `account_login`: when the document of a user who signed in is missing or cannot
  be read, `Authentication.login` (`:38-40`) prints a message and forgets its
  completion; the button spins for ever. `SpinnerMeansSignedIn` says what is
  left: the next launch shows the home.
- `account_signup`: the sign-up ends at the basics (`SignUpBasicsViewController.swift:66`).
- `cards_offline`: a failed request throws away the news that were loaded,
  against `src/README.md:3`.
- `search_again`: a second search does not start at its first page.
- `foryou_tap`: the For You table ignores a tap on the row that equals the count of
  the search's results, against `src/README.md:3`.

Behaviours met while modelling that no run states as a finding, since no line of
the repository says otherwise: an account made by a sign-up crashes at each
launch (forced cast of the missing interests); `updateUserData` answering after a
sign-out stores the old names and then traps; a sheet swiped away under a sign-in
crashes when the answer comes; a sign-up left under way that is answered while
the next reader edits makes the sheet write to the new account's document (why
`OwnDocument` is about patient readers); a page that failed crashes the table when its loading row
is drawn again.

Account, after a process that ended between two stores: a sign-out cut short leaves a
device signed out with some of the old reader's keys. The guest's profile then shows
that reader as if signed in (it asks `UserDefaults`, not Firebase), so that the guest
may sign out or edit there; closing the interests sheet unwraps `currentUser` and
traps (`EditUserInterestsViewController.swift:41`), which is why `NeverTraps` asks for
`clean`. The keys a sign-in stores replace the old ones; if that sign-in is itself cut
short, the refresh of the next launch replaces five of the seven, and AppSettings' two
keys stay the old reader's (why `RemembersOneReader` sets `Settings` apart). All this
while no document gets another reader's data (`OwnDocument`).

Flash cards: the first answer arriving after that of a changed country, or on a deck
swiped before it came, leaves old cards on a new list. A home that is replaced
while its controller lives on has its list emptied later under the new deck, also
under news just loaded: a tap on the top card and its buttons then trap until the
reader reloads (the exception in `DeckIsCurrent`). While both controllers live, one
change of country sends two requests. A late answer to a request of the old home
replaces the list under the new deck, and its block traps if the controller is gone:
a guest who signs in stores the country, which the old home's observer answers with a
request just before the home is replaced.

In the For You feed, a refresh that fails, or one of a
reader without interests, leaves the control spinning, and a control that spins
cannot be pulled (why `SpinnerHasAnswer` excepts it); a guest with the tab open
who signs in is sent to a new home while the old one's refresh is out, whose
answer then traps; and no second page is ever loaded (`OnlyFirstPage`). In the
search, swiping the loading row crashes (`SearchResultsTableViewController.swift:119`);
in both, so does the answer to a bookmark call of a row, or to a page, that comes
after another home replaced the controller.

Categories: a pulled refresh never ends, since nothing calls `endRefreshing`
(`CategoryViewController.swift:70-74`), so that a visit can be pulled once; the
`deinit` of a controller that an image load or a bookmark call kept alive empties
the list under the next category (why `CategoryCatchesUp` excepts a list changed
behind the table); a category left before its answer crashes the app when the
answer comes. The request copies its URL before the country is appended
(`Networking.swift:22-27`), so that setting changes nothing.

Saved screen: saving or unsaving from another tab changes `savedNews` under rows
that nobody reloads; a swipe then unsaves the article that has moved to that index,
and `deleteRows` raises an exception when the counts differ. An article saved twice
is removed twice by one unsave, with the same exception. A second quick swipe uses
an index path from before the first. A memory warning empties `savedNews` under
counted rows, and a refresh that fails does so until its block runs. Cards: a double
tap saves twice, and a card made before the urls of a launch are loaded stays
unmarked, so that its button saves the article again; so does a card in the window,
on top or below, whose article is saved on another screen, since its flag is never
read again (why `calm` of `SavedScreens` asks for the button).

## 4. Proofs

`tlapm` checks every proof, for every value of the constants that satisfies the
named assumptions: `ConstantsAssumption`, `AccountAssumption`,
`FlashCardsAssumption`, `SearchAssumption`, `FeedAssumption`, `CategoryAssumption`
and `ScreensAssumption`. They say that the value for "nobody", "no query" or an
absent key is not among the users, queries, interests or languages, that bounds
are numbers, that the window shows a card, that documents of earlier launches
have different times, and, for the screens, that top news have urls and that no url was
saved twice in an earlier launch (it can be: see the double tap above).

**SavedArticles.** `NoLostBookmark` is not inductive: a reload replaces
`savedUrls` by a snapshot taken earlier, and what matters is what the app was
told between the snapshot and its use. The strengthening (`IInv`) follows the main
queue: `SnapshotsCover` says that a posted snapshot holds every document the app
is told of before that completion runs. It needs that the local store forgets no
document the app knows (`ToldIsLocal`), that a waiting create is not on the
server and waits once (`CreatesPending`), that deletes were asked for
(`DeletesAsked`) and that each document's time is new (`FreshClock`). Firestore's
FIFO posting is what makes it true: a snapshot taken before an acknowledgement is
posted before it. From `IInv`:

- `TypeCorrect`, `InvariantHolds`, `BookmarksNeverLost`;
- `SavedArticlesImplementBookmarks`: each step is a step of `Bookmarks` or a
  stutter under `kept <- Urls(Kept)`, `marked <- savedUrls`. `KeptIsMarked` says what
  the abstract module is worth by itself: whatever implements it marks each url
  that is known to be kept.

`WritesAccounted` is the safety half of `SaveSettles`. A save whose completion is
registered is in the write queue or has its answer posted, never both and never
neither (`SavesTracked`), and there is one such answer (`AnsweredOnce`); the local
store holds only what the server has or will be sent (`StoreBacked`); a document the
reader asked to delete is gone for good, its delete waits, or was refused
(`DeletesTracked`). Each part needs the earlier ones: an acknowledgement takes the
head of the queue, and only since a document is queued once (`CreatesPending` of
`IInv`) does the answer that it posts meet no other. From it `WritesAreAccounted`,
and the action property `UnsaveHoldsAlways`: of all that changes the local store (a
snapshot of the server, a save of the same url, a refusal) only a refused delete
brings an unsaved document back, since a snapshot from the server comes with the
deletes that wait taken off.

**Account.** `HomeNeedsUser` needs to know that nobody signs out while a sheet to
sign in waits. `IInv` says which screen may be up while which calls wait: the
sheets to sign in or up cover a guest's profile, a sign-out runs on a signed
profile, there is at most one, and a live answer to a sign-in has a user. From it
`AccountInvariant`, `AccountTypes`, `HomeHasUser`, `HangingLoginIsSignedIn`.

`AccountImplementsSession`: under `user <- currentUser` and `home <- Home` each step
is one of `Session` or a stutter. `Home` maps the signed-in root under a sign-out's
animation to "leaving", and both a crash and an app not started to "off". In `Session`
nobody signs in or out while the app is off. That no answer comes then needs an
invariant of its own, `Asleep`: where the app does not run it waits for nothing and
shows nothing. The end of a sign-in's animation enters the home only if somebody is
signed in by then, which is what `IInv` says of the calls. A sign-out that is cut
short is `SignOutAndEnd`: the user is forgotten and the app is off. `SessionHasUser` is the
worth of `Session` by itself: its home is "logged" only for a user.

For the reader who waits, `Steady` (`AccountReaderProofs`) says: at most one call is
under way, of the user signed in and to a controller that exists (`OneCall`); a
document is its user's and complete, so that none fails to be read (`OwnDocs`); and
for each key whose it is (`Remembered`). A process killed between a sign-in and the
last of its stores leaves the names of one reader to the next, and only the refresh of
the next launch puts them right: so the keys a refresh stores are owned only while no
such call is out. `Tidy`, the stronger claim about all seven keys, holds while `clean`
does: the two keys no refresh writes are then always the reader's, because one signs
in only over a guest's profile, and a guest's profile has no settings (`Screens`).
After a sign-out that was cut short nothing is claimed of a signed-out device, and a
complete sign-in, which stores all seven, makes it tidy again. A handler that is cut
short stores the first keys of a fixed order, so each key is afterwards what it was or
what the whole handler would have made it (`CutSteady`). An editing sheet opens at
rest, and either its fields are of the reader who is signed in or nobody is, and then
no document is written; so the writes go to that reader's document. From it
`PatientReader`, `OneReaderRemembered`, `DocumentsAreOwn`, `NothingTraps`.

**Flash cards.** `DeckFollowsList` speaks only of the moment; what is inductive
(`DeckInv`) says when a deck and its list still belong together. `LoadsDiffer`: the
number of a request tells its answer from the lists that are there, so no answer can
pass for the list a deck was built from. `SameLoadSameList`: that list changes only
by being emptied. `InWindow`: as long as the two agree, the cards are the window at
the index, the index is in the list, the cached `countOfCards` is the list's length,
and at the end the button is visible. Swiping and bringing back are then arithmetic
on rows of cards (`SwipeInWindow`, `BringBackInWindow`, over the lemmas `RowIsSeq`,
`DeckCards`, `DeckFromCards`). From it `CardTypes`, `DeckShowsItsList`,
`EmptyDeckReloads` and `OnlyNewListsTrap`, for every size of the window, and
`DeckIsReadInTurn`: while its list stays, a deck skips no article and shows none
again unasked, wherever answers and blocks fall between the swipes. A home that
replaces another starts a deck over the list that is there (`AskKeepsDeck`), and the
`deinit` of the last one changes that list only by emptying it (`EmptiedKeepsDeck`), as
a memory warning does; requests of several homes sent at once have numbers of their
own (`PlaceType`, `SendDiffers`). A second invariant (`Waits`) is for the reader who
waits: one request or one block at a time, and it is of the home on screen; the block
of `viewDidLoad`, the only one that keeps a deck's cards, meets a deck at its start;
and with no block pending the deck is of the list, or of the list that a home which was
left has emptied since (`Emptied`). No block of a home that was left can come
(`HeadFits`), and a late `Release` keeps all of it (`ReleaseWaits`). From it `PatientReadersDeck` and `PatientReadersCountry`.

**Search.** `TableCatchesUp` is inductive together with the types. `Steady` is what
a reader who waits can rely on: at most one request, page or reload is under way
(`OneAtATime`); the results are of the query and in the order of their pages; the
request asks for the current page, which the results do not have yet, so that what
it brings belongs at the end and is there once; no page has more rows than it
brought; a list emptied under its table is being loaded again; no closure of an
earlier home is left. From it `FeedTypes`, `TableShowsResults`, `ResultsInOrder` and
`TableStaysInRange`.

**For You.** `FeedCatchesUp` and `SpinnerHasAnswer` are inductive with the types, for
every reader. The other three rest on `Steady`, what holds while the reader waits: one
answer at most is on its way, to a controller that exists (`OneAnswer`); it is of the
first page and of the stored wish, and a page comes to an empty list (`Answers`); what
is shown is too, unless an answer is on its way (`Shown`); a closed tab has left
nothing behind (`Closed`), and every bookmark call is of the controller that
exists. A row that asks for a further page is never drawn, since
the rows are those of the list (`FeedCatchesUp`). From it `ForYouTypes`,
`ForYouCatchesUp`, `ForYouSpinner`, `ForYouFollows`, `ForYouNeverTraps` and
`ForYouOnePage`.

**Categories.** The counts of `visits` tell which controllers still wait
(`NoneLeftWaiting`: one who is patient left none); `Shape` says that the list is an
answer in its order and that the cell shows at most one article; `CalmScreen` says
that for a reader who waits the one controller alive is the one on the screen, the
list is its, and a call under way is for the article in the cell. Then an answer
can only bring what the cell shows. From it `CategoryTypes`, `TableShowsCategory`,
`ListIsOfCategoryShown`, `CategoryDoesNotTrap` and `CellShowsItsArticle`.

**Saved screens.** `Basis` are the types and the bookkeeping: each completion that
waits has its closure, each query its slot. With it each step is one of
`SavedArticles` (`ScreensImplementArticles`), so that `NoLostBookmark` and `IInv`
hold here too. `SavedTableFollows` is for every reader. For one who waits, `Calmly`
follows a single call through its four modes: nothing under way, a query asked
(`Asking`), a save not acknowledged (`Saving`), a completion to be run (`Ending`),
and in each says what that call knows: whose row and whose card it is about, and
that a save under way is the newest document. With that the rows are the list
(`RowsShow`), every card of the window tells the truth (`Marked`), and no url has two documents, so
that a swipe removes exactly one row. From it `CalmRowsAreCurrent`,
`CalmCardIsMarked`, `CalmHasNoPhantom` and `CalmListIsNewestFirst`.
`ScreensKeepBookmarks` carries over to the screens, for every reader, what is proved
of `SavedArticles`: the invariants, `UnsaveHolds` and the refinement of `Bookmarks`.

Only model-checked: `SaveSettles`, the liveness property, since it needs fairness
(that the save is not forgotten meanwhile is `WritesAreAccounted`). Every other
property of the passing runs is proved. Stated as theorems only, since they follow
from what a run checks: `HomeHasUser`, `HangingLoginIsSignedIn`, `DeckIsReadInTurn`,
`KeptIsMarked`, `SessionHasUser` and `ScreensKeepBookmarks`.

## 5. Not modelled

- Layout, styling, the carousel's timer (its last step asks for a row 3 of rows 0 to
  2, `ProfileViewController.swift:73`; a boundary for a unit test), push notifications (registered and
  printed only), the alert of the sign-out, opening and sharing an article, URLs
  and JSON (a list is a length).
- Saving from a row of the search or of the For You feed: the lifetime of its
  completion is in those modules, what it does to the bookmarks is
  `SaveElsewhere` and `UnsaveElsewhere` of `SavedScreens`, and the flag of the cell
  is modelled for the categories only, whose code is the same.
- A guest who taps Save runs into `currentUser!` (`Networking.swift:154`); the
  modules of saved articles have a signed-in reader throughout. `savedUrls`
  outlives a sign-out (`Authentication.swift:46`), which would need one store of
  documents per user: a hazard without a property.
- Third-party code beyond the two pieces named above, which is nearly all of the
  4 635 files of the repository: Firestore's streams and local persistence, gRPC,
  BoringSSL, Protobuf and the rest. It is not this program's logic, and the app
  meets it only through the completions modelled here.

- The Saved tab's and the cards' lives beyond one home (`SavedScreens`), and a kill
  inside handlers other than the account's: none of those stores two things that
  persist.

What would come next: `SavedArticles` and `Account` composed across a sign-out, with
one store of documents per user.

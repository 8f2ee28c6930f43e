-------------------------------- MODULE Account --------------------------------
(***************************************************************************)
(* Who is signed in, what the app remembers of them and which screen it    *)
(* shows: Authentication, UserRepository (the UserDefaults keys), the      *)
(* sheets that sign in, sign up and edit the profile, and SceneDelegate.   *)
(*                                                                         *)
(* Data is abstracted to its owner: a key or a field of a document holds   *)
(* the user whose data it is, or NoUser when it is absent.  Answers of     *)
(* Firebase come in any order between the reader's taps; a snapshot of a   *)
(* user document is taken and delivered in one step.  A handler is one     *)
(* step, or is cut short by the end of its process between two stores.     *)
(***************************************************************************)
EXTENDS Naturals, Sequences, FiniteSets

CONSTANTS
  User,          \* accounts the device may use
  NoUser,        \* nobody signed in; an absent key or field
  MaxCalls,      \* bound, for each process: the reader starts another call with
                 \* fewer in flight
  MaxLaunches,   \* bound: process starts
  MaxCuts        \* bound: this many processes may end inside a handler

ASSUME AccountAssumption ==
  /\ NoUser \notin User
  /\ MaxLaunches \in Nat /\ MaxCuts \in Nat
  /\ MaxCalls \in [1..MaxLaunches -> Nat]

Field == {"firstname", "lastname", "country", "interests"}
Key   == Field \union {"email", "isCountrySpecific", "resultLanguage"}

Owner == User \union {NoUser}
Empty == [k \in Key |-> NoUser]

\* AppSettings' two keys: no refresh stores them.
Settings == {"isCountrySpecific", "resultLanguage"}

\* An answer the app waits for, or an animation whose end runs a closure.
\* live: the sheet whose controller the closure captured still exists.
Call == [kind : {"signIn", "loginDoc", "stuck", "expand", "createUser",
                 "setDoc", "push", "revert", "signOut", "refresh"},
         user : Owner, sheet : {"none", "login", "signup"}, live : BOOLEAN]

VARIABLES
  account,      \* accounts that exist on the server
  doc,          \* users/<uid>: the owner of each field's value
  currentUser,  \* Auth.auth().currentUser, kept over process starts
  defaults,     \* UserDefaults: the owner of each key's value
  root,         \* "guest" (AuthVC), "logged" (LoggedVC); not running: "killed",
                \* or "trapped" by a run-time check of the app's own code
  profile,      \* how ProfileViewController configured itself
  sheet,        \* the sheet on top
  draft,        \* what an editing sheet read from defaults when it opened
  calls,
  launches,
  calm,         \* history: so far the reader waited for each answer, no read
                \* of a document failed and nobody signed up
  clean         \* history: no sign-out was cut short by the end of its process
                \* since the last one, or the last sign-in, that was complete

server == <<account, doc>>
screen == <<root, profile, sheet, draft>>
code   == <<server, currentUser, defaults, screen, calls, launches>>
vars   == <<code, calm, clean>>

Present(r) == {k \in DOMAIN r : r[k] # NoUser}
Exists(u)  == Present(doc[u]) # {}
Full(u)    == [f \in Field |-> u]
Basics(u)  == [f \in Field |-> IF f = "interests" THEN NoUser ELSE u]
Missing    == [f \in Field |-> NoUser]

\* The bound on the calls a reader starts.
MayCall == Cardinality(calls) < MaxCalls[launches]

Waiting(s) == \E c \in calls : c.sheet = s /\ c.live

\* The fields a sequence of forced casts reads before the first missing one.
ReadInOrder(order, r) ==
  {order[i] : i \in {n \in 1..Len(order) :
                       \A j \in 1..n : order[j] \in Present(r)}}

LaunchCalls ==
  IF currentUser = NoUser THEN {}
  ELSE {[kind |-> "refresh", user |-> currentUser, sheet |-> "none",
         live |-> TRUE]}

-----------------------------------------------------------------------------
Init ==
  /\ account \in SUBSET User
  /\ doc = [u \in User |-> IF u \in account THEN Full(u) ELSE Missing]
  /\ currentUser \in account \union {NoUser}
  /\ defaults = [k \in Key |-> currentUser]
  /\ root = IF currentUser = NoUser THEN "guest" ELSE "logged"
  /\ profile = "none" /\ sheet = "none" /\ draft = Missing
  /\ calls = LaunchCalls
  /\ launches = 1
  /\ calm = TRUE /\ clean = TRUE

Running == root \in {"guest", "logged"}

Stop(how) ==
  /\ root' = how /\ profile' = "none" /\ sheet' = "none"
  /\ draft' = Missing
  /\ calls' = {}

\* A forced unwrap or cast of nil, or an unowned reference to what is gone.
Trap == Stop("trapped")

\* The system or the reader ends the process.
Kill ==
  /\ Running
  /\ Stop("killed")
  /\ UNCHANGED <<server, currentUser, defaults, launches>>

\* The process ends inside a handler that stores in this order and would
\* leave these defaults behind: the first of its stores are done.
Cut(order, after) ==
  /\ launches <= MaxCuts
  /\ \E n \in 0..Len(order) :
       defaults' = [k \in Key |-> IF \E i \in 1..n : order[i] = k THEN after[k]
                                 ELSE defaults[k]]
  /\ Stop("killed")
  /\ UNCHANGED <<server, launches>>

\* SceneDelegate chooses the first screen and refreshes the profile.
Launch ==
  /\ ~Running /\ launches < MaxLaunches
  /\ launches' = launches + 1
  /\ root' = IF currentUser = NoUser THEN "guest" ELSE "logged"
  /\ calls' = LaunchCalls
  /\ UNCHANGED <<server, currentUser, defaults, profile, sheet, draft>>

Becomes(c, kind) == calls' = (calls \ {c}) \union {[c EXCEPT !.kind = kind]}

\* The closure uses its controller: gone with a dismissed sheet, it traps.
Reaches(c, kind) ==
  IF c.live THEN Becomes(c, kind) /\ UNCHANGED screen ELSE Trap

-----------------------------------------------------------------------------
(* Profile and the sheets it presents.                                     *)

OpenProfile ==
  /\ Running /\ profile = "none"
  /\ profile' = IF defaults["firstname"] = NoUser THEN "guest" ELSE "signed"
  /\ UNCHANGED <<server, currentUser, defaults, root, sheet, draft, calls,
                 launches>>

PressSignIn ==
  /\ profile = "guest" /\ sheet = "none"
  /\ sheet' = "login"
  /\ UNCHANGED <<server, currentUser, defaults, root, profile, draft, calls,
                 launches>>

\* Outside a navigation controller the storyboard's segue presents a sheet.
ShowSignUp ==
  /\ sheet = "login"
  /\ sheet' = "signup"
  /\ UNCHANGED <<server, currentUser, defaults, root, profile, draft, calls,
                 launches>>

\* The reader swipes the top sheet away; its calls outlive it.
Dismiss ==
  /\ sheet \in {"login", "signup"}
  /\ sheet' = IF sheet = "signup" THEN "login" ELSE "none"
  /\ calls' = {[c EXCEPT !.live = @ /\ c.sheet # sheet] :
                 c \in {d \in calls : ~(d.kind = "stuck" /\ d.sheet = sheet)}}
  /\ UNCHANGED <<server, currentUser, defaults, root, profile, draft, launches>>

-----------------------------------------------------------------------------
(* Authentication.login and LoginViewController.                           *)

PressLogin(u) ==
  /\ sheet = "login" /\ ~Waiting("login")
  /\ MayCall
  /\ calls' = calls \union {[kind |-> "signIn", user |-> u, sheet |-> "login",
                             live |-> TRUE]}
  /\ UNCHANGED <<server, currentUser, defaults, screen, launches>>

SignInSucceeds(c) ==
  /\ c.kind = "signIn" /\ c.user \in account
  /\ currentUser' = c.user
  /\ Becomes(c, "loginDoc")
  /\ UNCHANGED <<server, defaults, screen, launches>>

SignInFails(c) ==
  /\ c.kind = "signIn"
  /\ Reaches(c, "revert")
  /\ UNCHANGED <<server, currentUser, defaults, launches>>

LoginReads == <<"lastname", "firstname", "country", "interests">>

\* Mutant: keys that are present are kept.
LoginKeepsOld(c) ==
  LET u   == c.user
      all == ReadInOrder(LoginReads, doc[u]) = Field
  IN /\ c.kind = "loginDoc" /\ Exists(u)
     /\ defaults' = [k \in Key |-> IF defaults[k] = NoUser THEN u ELSE defaults[k]]
     /\ IF all THEN Reaches(c, "expand") ELSE Trap
     /\ UNCHANGED <<server, currentUser, launches>>

\* Seven stores, unless a field is missing.
AfterLogin(u) ==
  LET got == ReadInOrder(LoginReads, doc[u])
  IN [k \in Key |-> IF k \in got THEN doc[u][k]
                    ELSE IF got = Field /\ k \notin Field THEN u ELSE defaults[k]]

\* The document exists.
LoginStores(c) ==
  /\ c.kind = "loginDoc" /\ Exists(c.user)
  /\ defaults' = AfterLogin(c.user)
  /\ IF ReadInOrder(LoginReads, doc[c.user]) = Field THEN Reaches(c, "expand")
     ELSE Trap
  /\ UNCHANGED <<server, currentUser, launches>>

LoginOrder == <<"lastname", "firstname", "country", "interests", "email",
                "resultLanguage", "isCountrySpecific">>

LoginCut(c) ==
  /\ c.kind = "loginDoc" /\ Exists(c.user)
  /\ Cut(LoginOrder, AfterLogin(c.user))
  /\ UNCHANGED currentUser

\* No document, or the read failed: nothing is called back.
LoginStuck(c) ==
  /\ c.kind = "loginDoc"
  /\ IF c.live THEN Becomes(c, "stuck") ELSE calls' = calls \ {c}
  /\ UNCHANGED <<server, currentUser, defaults, screen, launches>>

\* Mutant: the calls of the sheets that are gone still reach them.
ExpandEndsKeepingCalls(c) ==
  /\ c.kind = "expand"
  /\ IF c.live
       THEN /\ root' = "logged" /\ profile' = "none" /\ sheet' = "none"
            /\ calls' = calls \ {c}
            /\ UNCHANGED draft
       ELSE Trap
  /\ UNCHANGED <<server, currentUser, defaults, launches>>

\* The expanding button covers the screen: the home screen replaces it.
ExpandEnds(c) ==
  /\ c.kind = "expand"
  /\ IF c.live
       THEN /\ root' = "logged" /\ profile' = "none" /\ sheet' = "none"
            /\ calls' = {[d EXCEPT !.live = @ /\ d.sheet = "none"] :
                           d \in {e \in calls \ {c} : e.kind # "stuck"}}
            /\ UNCHANGED draft
       ELSE Trap
  /\ UNCHANGED <<server, currentUser, defaults, launches>>

\* The button is itself again.  After a sign-up ("push") the next step is
\* pushed on a navigation controller that a presented sheet does not have.
RevertEnds(c) ==
  /\ c.kind \in {"revert", "push"}
  /\ IF c.live THEN calls' = calls \ {c} /\ UNCHANGED screen ELSE Trap
  /\ UNCHANGED <<server, currentUser, defaults, launches>>

-----------------------------------------------------------------------------
(* Authentication.signUpBasics and SignUpBasicsViewController.             *)

PressNext(u) ==
  /\ sheet = "signup" /\ ~Waiting("signup")
  /\ MayCall
  /\ calls' = calls \union {[kind |-> "createUser", user |-> u,
                             sheet |-> "signup", live |-> TRUE]}
  /\ UNCHANGED <<server, currentUser, defaults, screen, launches>>

CreateUserSucceeds(c) ==
  /\ c.kind = "createUser" /\ c.user \notin account
  /\ account' = account \union {c.user}
  /\ currentUser' = c.user
  /\ doc' = [doc EXCEPT ![c.user] = Basics(c.user)]
  /\ Becomes(c, "setDoc")
  /\ UNCHANGED <<defaults, screen, launches>>

CreateUserFails(c) ==
  /\ c.kind = "createUser"
  /\ Reaches(c, "revert")
  /\ UNCHANGED <<server, currentUser, defaults, launches>>

AfterSignUp(u) == [k \in Key |-> IF k = "interests" THEN defaults[k] ELSE u]

SetDocSucceeds(c) ==
  /\ c.kind = "setDoc"
  /\ defaults' = AfterSignUp(c.user)
  /\ Reaches(c, "push")
  /\ UNCHANGED <<server, currentUser, launches>>

SignUpOrder == <<"firstname", "lastname", "country", "email", "resultLanguage",
                 "isCountrySpecific">>

SetDocCut(c) ==
  /\ c.kind = "setDoc"
  /\ Cut(SignUpOrder, AfterSignUp(c.user))
  /\ UNCHANGED currentUser

SetDocFails(c) ==
  /\ c.kind = "setDoc"
  /\ doc' = [doc EXCEPT ![c.user] = Missing]
  /\ Reaches(c, "revert")
  /\ UNCHANGED <<account, currentUser, defaults, launches>>

-----------------------------------------------------------------------------
(* Signing out, and the refresh SceneDelegate starts.                      *)

SigningOut == \E c \in calls : c.kind = "signOut"

\* Mutant: what is remembered is removed only when the animation ends.
SignOutRemembering ==
  /\ profile = "signed" /\ sheet = "none" /\ ~SigningOut
  /\ MayCall
  /\ currentUser' = NoUser
  /\ calls' = calls \union {[kind |-> "signOut", user |-> currentUser,
                             sheet |-> "none", live |-> TRUE]}
  /\ UNCHANGED <<server, defaults, screen, launches>>

\* Firebase forgets the reader first, then every key is removed.
SignOut ==
  /\ profile = "signed" /\ sheet = "none" /\ ~SigningOut
  /\ MayCall
  /\ currentUser' = NoUser
  /\ defaults' = Empty
  /\ calls' = calls \union {[kind |-> "signOut", user |-> currentUser,
                             sheet |-> "none", live |-> TRUE]}
  /\ UNCHANGED <<server, screen, launches>>

\* Mutant: the screens of the signed-in reader stay.
SignOutEndsAtHome(c) ==
  /\ c.kind = "signOut"
  /\ defaults' = Empty
  /\ calls' = calls \ {c}
  /\ UNCHANGED <<server, currentUser, screen, launches>>

SignOutEnds(c) ==
  /\ c.kind = "signOut"
  /\ defaults' = Empty
  /\ root' = "guest" /\ profile' = "none"
  /\ calls' = calls \ {c}
  /\ UNCHANGED <<server, currentUser, sheet, draft, launches>>

RemoveOrder == <<"firstname", "lastname", "country", "interests", "email",
                 "isCountrySpecific", "resultLanguage">>

SignOutCut ==
  /\ profile = "signed" /\ sheet = "none" /\ ~SigningOut
  /\ MayCall
  /\ currentUser' = NoUser
  /\ Cut(RemoveOrder, Empty)

SignOutEndsCut(c) ==
  /\ c.kind = "signOut"
  /\ Cut(RemoveOrder, Empty)
  /\ UNCHANGED currentUser

RefreshReads == <<"firstname", "lastname", "country", "interests">>

\* Authentication.updateUserData: the names, then the email of whoever is
\* signed in by now, then the rest.
AfterRefresh(u) ==
  LET names == {"firstname", "lastname"}
      got   == ReadInOrder(RefreshReads, doc[u])
  IN [k \in Key |->
        CASE k \in got \intersect names -> doc[u][k]
          [] k \in got \ names /\ currentUser # NoUser -> doc[u][k]
          [] k = "email" /\ names \subseteq got /\ currentUser # NoUser ->
               currentUser
          [] OTHER -> defaults[k]]

RefreshStores(c) ==
  /\ c.kind = "refresh" /\ Exists(c.user)
  /\ defaults' = AfterRefresh(c.user)
  /\ IF ReadInOrder(RefreshReads, doc[c.user]) = Field /\ currentUser # NoUser
       THEN calls' = calls \ {c} /\ UNCHANGED screen
       ELSE Trap
  /\ UNCHANGED <<server, currentUser, launches>>

RefreshOrder == <<"firstname", "lastname", "email", "country", "interests">>

RefreshCut(c) ==
  /\ c.kind = "refresh" /\ Exists(c.user)
  /\ Cut(RefreshOrder, AfterRefresh(c.user))
  /\ UNCHANGED currentUser

RefreshFails(c) ==
  /\ c.kind = "refresh"
  /\ calls' = calls \ {c}
  /\ UNCHANGED <<server, currentUser, defaults, screen, launches>>

-----------------------------------------------------------------------------
(* The sheets that edit: each writes when it disappears.                   *)

\* Mutant: a sheet keeps every key.
OpenEditorOnAll(s) ==
  /\ profile = "signed" /\ sheet = "none" /\ ~SigningOut
  /\ sheet' = s
  /\ draft' = defaults
  /\ UNCHANGED <<server, currentUser, defaults, root, profile, calls, launches>>

OpenEditor(s) ==
  /\ profile = "signed" /\ sheet = "none" /\ ~SigningOut
  /\ sheet' = s
  /\ draft' = [f \in Field |-> defaults[f]]
  /\ UNCHANGED <<server, currentUser, defaults, root, profile, calls, launches>>

\* Mutant: the document is replaced by the edit.
WriteReplacing(edit) ==
  /\ defaults' = [k \in Key |-> IF k \in DOMAIN edit THEN edit[k]
                                ELSE defaults[k]]
  /\ doc' = [doc EXCEPT ![currentUser] =
        [f \in Field |-> IF f \in DOMAIN edit THEN edit[f] ELSE NoUser]]

\* Both copies get the edit; the server may refuse its own.
Write(edit) ==
  /\ defaults' = [k \in Key |-> IF k \in DOMAIN edit THEN edit[k]
                                ELSE defaults[k]]
  /\ \/ UNCHANGED doc
     \/ /\ Exists(currentUser)
        /\ doc' = [doc EXCEPT ![currentUser] =
             [f \in Field |-> IF f \in DOMAIN edit THEN edit[f] ELSE @[f]]]

Closed == sheet' = "none" /\ draft' = Missing

\* What the fields of the details show as the sheet goes; typed: the reader
\* replaced the text they were filled with.
Shown(typed, f) ==
  IF typed \/ (f = "country" /\ draft[f] = NoUser) THEN currentUser ELSE draft[f]

Filled(typed) == {f \in {"firstname", "lastname", "country"} :
                    Shown(typed, f) # NoUser}

CloseDetails(typed) ==
  /\ sheet = "details"
  /\ Closed
  /\ IF currentUser = NoUser THEN UNCHANGED <<defaults, doc>>
     ELSE Write([f \in Filled(typed) |-> Shown(typed, f)])
  /\ UNCHANGED <<account, currentUser, root, profile, calls, launches>>

DetailsCut(typed) ==
  /\ sheet = "details" /\ currentUser # NoUser
  /\ Cut(<<"firstname", "lastname", "country">>,
         [k \in Key |-> IF k \in Filled(typed) THEN Shown(typed, k)
                       ELSE defaults[k]])
  /\ UNCHANGED currentUser

CloseInterests(toggled) ==
  /\ sheet = "interests"
  /\ IF draft["interests"] = NoUser
       THEN Closed /\ UNCHANGED <<defaults, doc, root, profile, calls>>
       ELSE IF currentUser = NoUser
       THEN /\ defaults' = [defaults EXCEPT !["interests"] = draft["interests"]]
            /\ Trap
            /\ UNCHANGED doc
       ELSE /\ Closed
            /\ Write([f \in {"interests"} |->
                        IF toggled THEN currentUser ELSE draft[f]])
            /\ UNCHANGED <<root, profile, calls>>
  /\ UNCHANGED <<account, currentUser, launches>>

\* AppSettings writes to UserDefaults only, whoever is signed in.
AfterSettings ==
  [k \in Key |-> IF k \in Settings
                THEN IF currentUser # NoUser THEN currentUser
                     ELSE draft["firstname"]
                ELSE defaults[k]]

CloseSettings ==
  /\ sheet = "settings"
  /\ Closed
  /\ defaults' = AfterSettings
  /\ UNCHANGED <<server, currentUser, root, profile, calls, launches>>

SettingsCut ==
  /\ sheet = "settings"
  /\ Cut(<<"isCountrySpecific", "resultLanguage">>, AfterSettings)
  /\ UNCHANGED currentUser

-----------------------------------------------------------------------------
LoginStep(c) ==
  \/ SignInSucceeds(c) \/ SignInFails(c) \/ LoginStores(c) \/ ExpandEnds(c)

SignUpStep(c) ==
  \/ CreateUserSucceeds(c) \/ CreateUserFails(c)
  \/ SetDocSucceeds(c) \/ SetDocFails(c)

ProfileStep(c) == RevertEnds(c) \/ SignOutEnds(c) \/ RefreshStores(c)

\* The answers of documents that cannot be read.
NoDocument(c) == LoginStuck(c) \/ RefreshFails(c)

Answer(c) == LoginStep(c) \/ SignUpStep(c) \/ ProfileStep(c) \/ NoDocument(c)

Close ==
  \/ \E changed \in BOOLEAN : CloseDetails(changed) \/ CloseInterests(changed)
  \/ CloseSettings

\* The process ends between two stores; of the sheet of the interests, and
\* of whatever stores once, it ends before or after the step.
CutShort ==
  \/ \E c \in calls : LoginCut(c) \/ SetDocCut(c) \/ RefreshCut(c)
                      \/ SignOutEndsCut(c)
  \/ \E changed \in BOOLEAN : DetailsCut(changed)
  \/ SettingsCut

\* What a patient reader does when no answer is on its way.
Begin ==
  \/ \E u \in User : PressLogin(u)
  \/ \E s \in {"details", "interests", "settings"} : OpenEditor(s)

Patient == calm' = (calm /\ calls = {})

Next ==
  \/ /\ Kill \/ Launch \/ OpenProfile \/ PressSignIn \/ Close \/ CutShort
     /\ UNCHANGED <<calm, clean>>
  \/ Begin /\ Patient /\ UNCHANGED clean
  \/ SignOut /\ Patient /\ clean' = TRUE
  \/ SignOutCut /\ Patient /\ clean' = FALSE
  \/ (ShowSignUp \/ Dismiss) /\ calm' = (calm /\ ~Waiting(sheet))
     /\ UNCHANGED clean
  \/ (\E u \in User : PressNext(u)) /\ calm' = FALSE /\ UNCHANGED clean
  \/ \E c \in calls :
       \/ LoginStep(c) /\ UNCHANGED calm
          /\ clean' = (clean \/ (c.kind = "loginDoc" /\ Running'))
       \/ (SignUpStep(c) \/ ProfileStep(c)) /\ UNCHANGED <<calm, clean>>
       \/ NoDocument(c) /\ calm' = (calm /\ ~Exists(c.user)) /\ UNCHANGED clean

Spec == Init /\ [][Next]_vars

(***************************************************************************)
(* Firebase answers each call, animations end, and the main queue runs     *)
(* what they post.  Nothing is assumed of the reader.                      *)
(***************************************************************************)
Fairness ==
  \A s \in {"none", "login", "signup"} :
    WF_code(\E c \in calls : c.sheet = s /\ c.live /\ Answer(c))

FairSpec == Spec /\ Fairness

-----------------------------------------------------------------------------
(* The properties.                                                         *)

StateOK ==
  /\ account \subseteq User
  /\ doc \in [User -> [Field -> Owner]]
  /\ currentUser \in Owner
  /\ defaults \in [Key -> Owner]
  /\ root \in {"guest", "logged", "killed", "trapped"}
  /\ profile \in {"none", "guest", "signed"}
  /\ sheet \in {"none", "login", "signup", "details", "interests", "settings"}
  /\ draft \in [Field -> Owner]
  /\ calls \subseteq Call
  /\ launches \in Nat

TypeOK == StateOK /\ calm \in BOOLEAN /\ clean \in BOOLEAN

(***************************************************************************)
(* ImplementsSession: who is signed in and the screen that is up behave as *)
(* Session promises, step by step, however taps, late answers of sheets    *)
(* that are gone and process ends interleave (SceneDelegate.swift:20-34,   *)
(* Authentication.swift:18-42, ProfileViewController.swift:111-130).       *)
(***************************************************************************)
Home ==
  CASE root = "guest" -> "guest"
    [] root = "logged" -> IF SigningOut THEN "leaving" ELSE "logged"
    [] OTHER -> "off"

Promise == INSTANCE Session WITH user <- currentUser, home <- Home

ImplementsSession == Promise!Spec

(***************************************************************************)
(* HomeNeedsUser: the home of a signed-in reader is on screen only while   *)
(* somebody is signed in, or until the animation of a sign-out ends:       *)
(* saving and editing there unwrap Auth.auth().currentUser                 *)
(* (Networking.swift:154, EditUserInterestsViewController.swift:41).       *)
(***************************************************************************)
HomeNeedsUser == root = "logged" /\ currentUser = NoUser => SigningOut

(***************************************************************************)
(* SpinnerMeansSignedIn: a login button that spins for ever belongs to     *)
(* somebody who is signed in (Authentication.swift:38-40): starting the    *)
(* app again shows their home.                                             *)
(***************************************************************************)
SpinnerMeansSignedIn ==
  (\E c \in calls : c.kind = "stuck") => currentUser # NoUser

(***************************************************************************)
(* IInv: the inductive invariant behind the two above.  A sheet to sign in *)
(* or up covers a guest's profile, a sign-out runs on that of a reader who *)
(* is signed in, and there is one at a time: so nobody signs out while a   *)
(* sheet waits (LoginViewController.swift:51-66,                           *)
(* ProfileViewController.swift:111-130).                                   *)
(***************************************************************************)
OneSignOut ==
  \A c, d \in calls : c.kind = "signOut" /\ d.kind = "signOut" => c = d

CallOK(c) ==
  /\ c.kind = "signOut" => profile = "signed"
  /\ c.kind # "signOut" => c.user \in User
  /\ c.kind \in {"signIn", "loginDoc", "stuck", "expand"} => c.sheet = "login"
  /\ c.kind = "stuck" => c.live
  /\ c.live /\ c.sheet = "login" => sheet \in {"login", "signup"}
  /\ c.live /\ c.sheet = "signup" => sheet = "signup"
  /\ c.live /\ c.kind \in {"loginDoc", "stuck", "expand"} => currentUser # NoUser

IInv ==
  /\ StateOK
  /\ HomeNeedsUser
  /\ OneSignOut
  /\ sheet \in {"login", "signup"} => profile = "guest"
  /\ \A c \in calls : CallOK(c)

(***************************************************************************)
(* RemembersOneReader: at rest, what UserDefaults remember of somebody who *)
(* is signed in is theirs, as long as readers waited for answers and       *)
(* wherever processes were killed, also between two stores of a handler;   *)
(* and nothing at all is left of whoever signed out, unless the process    *)
(* was killed after Firebase had forgotten them and before every key was   *)
(* removed: then what is left stays until the next complete sign-in or     *)
(* sign-out, and of a sign-in that is cut short AppSettings' two keys stay *)
(* the other reader's (Authentication.swift:29-35, 48-50, 61-65,           *)
(* UserRepository.removeUserInfo).                                         *)
(***************************************************************************)
RemembersOneReader ==
  calm /\ Running /\ calls = {} =>
    /\ currentUser # NoUser =>
         \A k \in Key \ Settings : defaults[k] \in {currentUser, NoUser}
    /\ clean => \A k \in Key : defaults[k] \in {currentUser, NoUser}

(***************************************************************************)
(* OwnDocument: a user's document holds only that user's data, although    *)
(* the editing sheets copy it from UserDefaults, as long as readers waited *)
(* for answers, wherever processes were killed, also in a sign-out that    *)
(* leaves another reader's keys (EditUserDetailsViewController.swift:      *)
(* 37-67).                                                                 *)
(***************************************************************************)
OwnDocument ==
  calm => \A u \in User, f \in Field : doc[u][f] \in {u, NoUser}

(***************************************************************************)
(* NeverTraps: no forced unwrap, forced cast or unowned reference fails    *)
(* for a reader with a complete document who waits for each answer, also   *)
(* after handlers that were cut short, but for a sign-out: the profile it  *)
(* leaves shows the sheets that edit to nobody                             *)
(* (Authentication.swift:29-32, 48-50, 61-65;                              *)
(* LoginViewController.swift:51-66; EditUserInterestsViewController.swift: *)
(* 41).                                                                    *)
(***************************************************************************)
NeverTraps == calm /\ clean => root # "trapped"

(***************************************************************************)
(* LoginGoesHome: a successful sign-in leaves the login screen ("success   *)
(* -> go to home", Authentication.swift:22).                               *)
(***************************************************************************)
LoginGoesHome ==
  (\E c \in calls : c.kind = "loginDoc" /\ c.live) ~> ~Waiting("login")

(***************************************************************************)
(* SignUpMovesOn: a successful sign-up leaves the sheet of the basics      *)
(* ("success -> move to the next step", Authentication.swift:82).          *)
(***************************************************************************)
SignUpMovesOn ==
  (\E c \in calls : c.kind = "push" /\ c.live) ~> sheet # "signup"
=============================================================================

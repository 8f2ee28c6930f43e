-------------------------- MODULE AccountReaderProofs --------------------------
(***************************************************************************)
(* Proofs about Account for a reader who waits for each answer, for every  *)
(* set of users and every bound: UserDefaults hold one reader's data, each *)
(* document is its user's own, and the app's own checks do not fail.       *)
(***************************************************************************)
EXTENDS AccountProofs

Editors  == {"details", "interests", "settings"}

\* A document is its user's and complete, or there is none.
OwnDocs == \A u \in User, f \in Field :
             doc[u][f] = IF u \in account THEN u ELSE NoUser

NoCall(kinds) == \A c \in calls : c.kind \notin kinds
Of(keys)      == \A k \in keys : defaults[k] \in {currentUser, NoUser}
None(keys)    == \A k \in keys : defaults[k] = NoUser

\* What UserDefaults remember, also of a process that was killed.  What a
\* sign-out that was cut short leaves, a refresh replaces but for Settings.
Tidy ==
  /\ currentUser = NoUser => None(Key)
  /\ Of(Settings)
  /\ defaults["firstname"] = NoUser => None(Settings)

Remembered ==
  /\ clean => Tidy
  /\ currentUser # NoUser /\ Running /\ NoCall({"loginDoc", "refresh"}) =>
       Of(Key \ Settings)

\* Each step of a sign-in, a sign-out and a refresh.
CalmCall(c) ==
  /\ c.kind \in {"signIn", "revert", "loginDoc", "expand", "signOut", "refresh"}
  /\ c.live
  /\ c.kind \in {"signIn", "revert", "loginDoc", "expand"} =>
       c.sheet = "login" /\ sheet = "login"
  /\ c.kind \in {"signOut", "refresh"} => c.sheet = "none"
  /\ c.kind \in {"loginDoc", "expand", "refresh"} => c.user = currentUser
  /\ c.kind = "signOut" => currentUser = NoUser

OneCall ==
  /\ \A c, d \in calls : c = d
  /\ \A c \in calls : CalmCall(c)

Screens ==
  /\ clean => root # "trapped"
  /\ calls # {} \/ profile # "none" => Running
  /\ clean /\ profile = "guest" /\ NoCall({"expand"}) => None(Settings)
  /\ profile = "signed" /\ NoCall({"signOut"}) => defaults["firstname"] # NoUser
  /\ sheet \in Editors =>
       /\ calls = {} /\ profile = "signed"
       /\ currentUser # NoUser =>
            \A f \in Field : draft[f] \in {currentUser, NoUser}

\* What a reader who waits for each answer can rely on.
Steady ==
  /\ currentUser \in account \union {NoUser}
  /\ OwnDocs /\ Remembered /\ OneCall /\ Screens

-----------------------------------------------------------------------------
(* Lemmas about documents and calls.                                       *)

LEMMA FullDocument ==
  ASSUME StateOK, OwnDocs, NEW u \in account
  PROVE  /\ u \in User /\ u # NoUser
         /\ \A f \in Field : doc[u][f] = u
         /\ Exists(u)
         /\ ReadInOrder(LoginReads, doc[u]) = Field
         /\ ReadInOrder(RefreshReads, doc[u]) = Field
<1>1. u \in User /\ u # NoUser
  BY AccountAssumption DEF StateOK
<1>2. \A f \in Field : doc[u][f] = u
  BY <1>1 DEF OwnDocs
<1>3. DOMAIN doc[u] = Field
  BY <1>1 DEF StateOK
<1>4. Present(doc[u]) = Field
  BY <1>1, <1>2, <1>3 DEF Present
<1>5. Exists(u)
  BY <1>4 DEF Exists, Field
<1>6. ASSUME NEW order \in {LoginReads, RefreshReads}
      PROVE  ReadInOrder(order, doc[u]) = Field
  <2>1. /\ Len(order) = 4
        /\ \A i \in 1..4 : order[i] \in Field
        /\ \A f \in Field : \E i \in 1..4 : f = order[i]
    BY DEF LoginReads, RefreshReads, Field
  <2> QED
    BY <1>4, <2>1 DEF ReadInOrder
<1> QED
  BY <1>1, <1>2, <1>5, <1>6

\* The call that is under way is the only one.
LEMMA Alone ==
  ASSUME IInv, OneCall, NEW c \in calls
  PROVE  /\ calls = {c} /\ c \in Call /\ CallOK(c) /\ CalmCall(c)
         /\ calls \ {c} = {}
BY CallFields DEF OneCall

LEMMA AloneBecomes ==
  ASSUME IInv, OneCall, NEW c \in calls,
         NEW k \in {"loginDoc", "expand", "revert"}, Becomes(c, k)
  PROVE  \E m \in Call : /\ calls' = {m} /\ m.kind = k
                         /\ m.user = c.user /\ m.sheet = c.sheet
                         /\ m.live = c.live
<1> DEFINE m == [c EXCEPT !.kind = k]
<1>1. /\ m \in Call /\ m.kind = k
      /\ m.user = c.user /\ m.sheet = c.sheet /\ m.live = c.live
  BY CallFields DEF Call
<1>2. calls' = {m}
  BY Alone DEF Becomes
<1> QED
  BY <1>1, <1>2

-----------------------------------------------------------------------------
(* The initial states and the process.                                     *)

LEMMA LaunchCallsAlone ==
  /\ \A c, d \in LaunchCalls : c = d
  /\ \A c \in LaunchCalls : /\ c.kind = "refresh" /\ c.sheet = "none"
                             /\ c.user = currentUser /\ c.live
<1>1. CASE currentUser = NoUser
  BY <1>1 DEF LaunchCalls
<1>2. CASE currentUser # NoUser
  <2> LaunchCalls = {[kind |-> "refresh", user |-> currentUser,
                      sheet |-> "none", live |-> TRUE]}
    BY <1>2 DEF LaunchCalls
  <2> QED
    OBVIOUS
<1> QED
  BY <1>1, <1>2

LEMMA InitSteady == Init => Steady
<1> SUFFICES ASSUME Init PROVE Steady
  OBVIOUS
<1>1. account \subseteq User /\ currentUser \in account \union {NoUser}
  BY DEF Init
<1>2. OwnDocs
  BY DEF Init, OwnDocs, Full, Missing
<1>3. Remembered
  <2>1. /\ \A k \in Key : defaults[k] = currentUser
        /\ Settings \subseteq Key /\ "firstname" \in Key
    BY DEF Init, Settings, Key, Field
  <2> QED
    BY <2>1 DEF Remembered, Tidy, None, Of
<1>4. OneCall
  BY LaunchCallsAlone DEF Init, OneCall, CalmCall
<1>5. Screens
  BY DEF Init, Screens, Running, Editors
<1> QED
  BY <1>1, <1>2, <1>3, <1>4, <1>5 DEF Steady

LEMMA KillSteady == IInv /\ Steady /\ Kill /\ (clean' => clean) => Steady'
BY DEF Steady, Kill, Stop, server, OwnDocs, Remembered, Tidy, None, Of, NoCall,
       Running, OneCall, Screens, Editors

LEMMA LaunchSteady == IInv /\ Steady /\ Launch /\ (clean' => clean) => Steady'
<1> SUFFICES ASSUME IInv, Steady, Launch, clean' => clean PROVE Steady'
  OBVIOUS
<1>1. profile = "none" /\ sheet \notin Editors
  BY DEF Launch, Steady, Screens
<1>2. OneCall'
  BY LaunchCallsAlone DEF Launch, OneCall, CalmCall
<1>3. Remembered'
  <2>1. CASE currentUser = NoUser
    BY <2>1 DEF Launch, server, Steady, Remembered, Tidy, None, Of
  <2>2. CASE currentUser # NoUser
    <3>1. \E c \in calls' : c.kind = "refresh"
      BY <2>2 DEF Launch, LaunchCalls
    <3> QED
      BY <2>2, <3>1 DEF Launch, server, Steady, Remembered, Tidy, None, Of, NoCall
  <2> QED
    BY <2>1, <2>2
<1>4. Screens'
  BY <1>1 DEF Launch, server, Screens, Running
<1> QED
  BY <1>2, <1>3, <1>4 DEF Steady, Launch, server, OwnDocs

-----------------------------------------------------------------------------
(* Profile and its sheets.                                                 *)

LEMMA OpenProfileSteady == IInv /\ Steady /\ OpenProfile /\ (clean' => clean) => Steady'
BY DEF Steady, OpenProfile, server, OwnDocs, Remembered, Tidy, None, Of, NoCall,
       Running, OneCall, CalmCall, Screens

LEMMA PressSignInSteady == IInv /\ Steady /\ PressSignIn /\ (clean' => clean) => Steady'
BY DEF Steady, PressSignIn, server, OwnDocs, Remembered, Tidy, None, Of, NoCall,
       Running, OneCall, CalmCall, Screens, Editors

\* Nothing waits on the sheets: what is under way belongs to none.
LEMMA SheetlessCalls ==
  ASSUME IInv, Steady, sheet \in {"login", "signup"}, ~Waiting(sheet)
  PROVE  \A c \in calls : c.kind \in {"signOut", "refresh"} /\ c.sheet = "none"
                          /\ c.live /\ c \in Call
BY CallFields DEF Steady, OneCall, CalmCall, Waiting

LEMMA ShowSignUpSteady ==
  IInv /\ Steady /\ ShowSignUp /\ ~Waiting(sheet) /\ (clean' => clean) => Steady'
<1> SUFFICES ASSUME IInv, Steady, ShowSignUp, ~Waiting(sheet), clean' => clean PROVE Steady'
  OBVIOUS
<1>1. \A c \in calls : c.kind \in {"signOut", "refresh"}
  BY SheetlessCalls DEF ShowSignUp
<1> QED
  BY <1>1 DEF Steady, ShowSignUp, server, OwnDocs, Remembered, Tidy, None, Of, NoCall,
     Running, OneCall, CalmCall, Screens, Editors

LEMMA DismissSteady ==
  IInv /\ Steady /\ Dismiss /\ ~Waiting(sheet) /\ (clean' => clean) => Steady'
<1> SUFFICES ASSUME IInv, Steady, Dismiss, ~Waiting(sheet), clean' => clean PROVE Steady'
  OBVIOUS
<1>1. \A c \in calls : c.kind \in {"signOut", "refresh"} /\ c.sheet = "none"
                       /\ c.live /\ c \in Call
  BY SheetlessCalls DEF Dismiss
<1> DEFINE Left(c) == [c EXCEPT !.live = @ /\ c.sheet # sheet]
<1>2. ASSUME NEW c \in calls PROVE Left(c) = c
  <2>1. c.live = TRUE /\ c.sheet # sheet /\ c \in Call
    BY <1>1 DEF Dismiss, Call
  <2>2. c = [kind |-> c.kind, user |-> c.user, sheet |-> c.sheet,
             live |-> c.live]
    BY <2>1 DEF Call
  <2> QED
    BY <2>1, <2>2 DEF Call
<1>3. {d \in calls : ~(d.kind = "stuck" /\ d.sheet = sheet)} = calls
  BY <1>1
<1>4. calls' = {Left(c) : c \in calls}
  BY <1>3 DEF Dismiss
<1> HIDE DEF Left
<1>5. calls' = calls
  BY <1>2, <1>4
<1> QED
  BY <1>1, <1>5 DEF Steady, Dismiss, server, OwnDocs, Remembered, Tidy, None, Of,
     NoCall, Running, OneCall, CalmCall, Screens, Editors

-----------------------------------------------------------------------------
(* Signing in and out.                                                     *)

LEMMA PressLoginSteady ==
  ASSUME NEW u \in User
  PROVE  IInv /\ Steady /\ PressLogin(u) /\ calls = {} /\ (clean' => clean) => Steady'
<1> SUFFICES ASSUME IInv, Steady, PressLogin(u), calls = {}, clean' => clean PROVE Steady'
  OBVIOUS
<1>1. calls' = {[kind |-> "signIn", user |-> u, sheet |-> "login",
                 live |-> TRUE]}
  BY DEF PressLogin
<1>2. OneCall'
  BY <1>1 DEF PressLogin, screen, OneCall, CalmCall
<1>3. profile = "guest" /\ sheet = "login" /\ Running
  BY DEF PressLogin, IInv, Steady, Screens
<1>4. Remembered'
  BY <1>3 DEF PressLogin, screen, Steady, Remembered, Tidy, None, Of, NoCall, Running
<1>5. Screens'
  BY <1>3 DEF PressLogin, screen, Steady, Screens, None, NoCall, Running, Editors
<1> QED
  BY <1>2, <1>4, <1>5 DEF Steady, PressLogin, server, OwnDocs

LEMMA SignInSucceedsSteady ==
  ASSUME NEW c \in calls
  PROVE  IInv /\ Steady /\ SignInSucceeds(c) /\ (clean' => clean) => Steady'
<1> SUFFICES ASSUME IInv, Steady, SignInSucceeds(c), clean' => clean PROVE Steady'
  OBVIOUS
<1>1. /\ calls = {c} /\ CalmCall(c) /\ c.kind = "signIn"
      /\ currentUser' = c.user /\ c.user \in account /\ c.user # NoUser
  BY Alone, AccountAssumption DEF Steady, SignInSucceeds, IInv, StateOK
<1>2. /\ sheet = "login" /\ profile = "guest" /\ Running
      /\ UNCHANGED <<server, defaults, screen>>
  BY <1>1 DEF CalmCall, IInv, Steady, Screens, SignInSucceeds
<1>3. clean => None(Settings)
  BY <1>1, <1>2 DEF Steady, Screens, NoCall
<1>4. PICK m \in Call : /\ calls' = {m} /\ m.kind = "loginDoc"
                        /\ m.user = c.user /\ m.sheet = c.sheet
                        /\ m.live = c.live
  BY AloneBecomes DEF SignInSucceeds, Steady
<1>5. OneCall'
  BY <1>1, <1>2, <1>4 DEF OneCall, CalmCall, screen
<1>6. Remembered'
  BY <1>1, <1>2, <1>3, <1>4 DEF Remembered, Tidy, None, Of, NoCall
<1>7. Screens'
  BY <1>2, <1>3, <1>4 DEF Steady, Screens, None, Running, screen, Editors
<1> QED
  BY <1>1, <1>2, <1>5, <1>6, <1>7 DEF Steady, server, OwnDocs

LEMMA SignInFailsSteady ==
  ASSUME NEW c \in calls
  PROVE  IInv /\ Steady /\ SignInFails(c) /\ (clean' => clean) => Steady'
<1> SUFFICES ASSUME IInv, Steady, SignInFails(c), clean' => clean PROVE Steady'
  OBVIOUS
<1>1. /\ calls = {c} /\ CalmCall(c) /\ c.kind = "signIn"
  BY Alone DEF Steady, SignInFails
<1>2. /\ Becomes(c, "revert")
      /\ UNCHANGED <<server, currentUser, defaults, screen>>
  BY <1>1 DEF SignInFails, Reaches, CalmCall
<1>3. PICK m \in Call : /\ calls' = {m} /\ m.kind = "revert"
                        /\ m.user = c.user /\ m.sheet = c.sheet
                        /\ m.live = c.live
  BY <1>2, AloneBecomes DEF Steady
<1>4. OneCall'
  BY <1>1, <1>2, <1>3 DEF OneCall, CalmCall, screen
<1>5. Remembered'
  BY <1>1, <1>2, <1>3 DEF Steady, Remembered, Tidy, None, Of, NoCall, Running, screen
<1>6. Screens'
  BY <1>1, <1>2, <1>3 DEF CalmCall, Steady, Screens, None, NoCall, Running, screen,
     Editors
<1> QED
  BY <1>2, <1>4, <1>5, <1>6 DEF Steady, server, OwnDocs

LEMMA LoginStoresSteady ==
  ASSUME NEW c \in calls
  PROVE  IInv /\ Steady /\ LoginStores(c) => Steady'
<1> SUFFICES ASSUME IInv, Steady, LoginStores(c) PROVE Steady'
  OBVIOUS
<1>1. /\ calls = {c} /\ CalmCall(c) /\ c.kind = "loginDoc"
      /\ c.user = currentUser /\ c.user \in account /\ sheet = "login"
  BY Alone, CallFields, AccountAssumption DEF Steady, LoginStores, CalmCall
<1>2. ReadInOrder(LoginReads, doc[c.user]) = Field
      /\ (\A f \in Field : doc[c.user][f] = c.user) /\ c.user # NoUser
  BY <1>1, FullDocument DEF IInv, Steady
<1>3. \A k \in Key : defaults'[k] = currentUser
  BY <1>1, <1>2 DEF LoginStores, AfterLogin
<1>4. /\ Becomes(c, "expand")
      /\ UNCHANGED <<server, currentUser, screen>>
  BY <1>1, <1>2 DEF LoginStores, Reaches, CalmCall
<1>5. PICK m \in Call : /\ calls' = {m} /\ m.kind = "expand"
                        /\ m.user = c.user /\ m.sheet = c.sheet
                        /\ m.live = c.live
  BY <1>4, AloneBecomes DEF Steady
<1>6. OneCall'
  BY <1>1, <1>4, <1>5 DEF OneCall, CalmCall, screen
<1>7. Settings \subseteq Key /\ "firstname" \in Key
  BY DEF Settings, Key, Field
<1>8. Remembered'
  BY <1>1, <1>2, <1>3, <1>4, <1>7 DEF Remembered, Tidy, Of
<1>9. Screens'
  BY <1>1, <1>2, <1>3, <1>4, <1>5, <1>7
     DEF Steady, Screens, NoCall, Running, screen, Editors
<1> QED
  BY <1>4, <1>6, <1>8, <1>9 DEF Steady, server, OwnDocs

LEMMA ExpandEndsSteady ==
  ASSUME NEW c \in calls
  PROVE  IInv /\ Steady /\ ExpandEnds(c) /\ (clean' => clean) => Steady'
<1> SUFFICES ASSUME IInv, Steady, ExpandEnds(c), clean' => clean PROVE Steady'
  OBVIOUS
<1>1. /\ calls = {c} /\ calls \ {c} = {} /\ CalmCall(c) /\ c.kind = "expand"
  BY Alone DEF Steady, ExpandEnds
<1>2. /\ calls' = {} /\ root' = "logged" /\ profile' = "none" /\ sheet' = "none"
      /\ UNCHANGED <<server, currentUser, defaults>>
  BY <1>1 DEF ExpandEnds, CalmCall
<1>3. currentUser # NoUser => Of(Key \ Settings)
  BY <1>1 DEF Steady, Remembered, Tidy, Screens, NoCall
<1>4. Remembered'
  BY <1>2, <1>3 DEF Steady, Remembered, Tidy, None, Of
<1> QED
  BY <1>2, <1>4 DEF Steady, server, OwnDocs, OneCall, Screens, Running, Editors

LEMMA RevertEndsSteady ==
  ASSUME NEW c \in calls
  PROVE  IInv /\ Steady /\ RevertEnds(c) /\ (clean' => clean) => Steady'
<1> SUFFICES ASSUME IInv, Steady, RevertEnds(c), clean' => clean PROVE Steady'
  OBVIOUS
<1>1. /\ calls = {c} /\ calls \ {c} = {} /\ CalmCall(c) /\ c.kind = "revert"
  BY Alone DEF Steady, RevertEnds, CalmCall
<1>2. calls' = {} /\ UNCHANGED <<server, currentUser, defaults, screen>>
  BY <1>1 DEF RevertEnds, CalmCall
<1>3. (currentUser # NoUser => Of(Key \ Settings)) /\ sheet = "login"
  BY <1>1 DEF Steady, Remembered, Tidy, Screens, NoCall, CalmCall
<1>4. Remembered'
  BY <1>2, <1>3 DEF Steady, Remembered, Tidy, None, Of
<1>5. Screens'
  BY <1>1, <1>2, <1>3 DEF Steady, Screens, None, NoCall, Running, screen, Editors
<1> QED
  BY <1>2, <1>4, <1>5 DEF Steady, server, OwnDocs, OneCall

LEMMA SignOutSteady == IInv /\ Steady /\ SignOut /\ calls = {} => Steady'
<1> SUFFICES ASSUME IInv, Steady, SignOut, calls = {} PROVE Steady'
  OBVIOUS
<1>1. \E m \in {[kind |-> "signOut", user |-> currentUser, sheet |-> "none",
                 live |-> TRUE]} : calls' = {m}
  BY DEF SignOut
<1>2. PICK m : calls' = {m} /\ m.kind = "signOut" /\ m.sheet = "none" /\ m.live
  BY <1>1
<1>3. /\ currentUser' = NoUser /\ \A k \in Key : defaults'[k] = NoUser
      /\ UNCHANGED <<server, screen>> /\ sheet = "none" /\ profile = "signed"
  BY DEF SignOut, Empty
<1>4. Settings \subseteq Key
  BY DEF Settings, Key
<1>5. Remembered'
  BY <1>3, <1>4 DEF Remembered, Tidy, None, Of
<1>6. OneCall'
  BY <1>2, <1>3 DEF OneCall, CalmCall
<1>7. Screens'
  BY <1>2, <1>3 DEF Steady, Screens, NoCall, Running, screen, Editors
<1> QED
  BY <1>3, <1>5, <1>6, <1>7 DEF Steady, server, OwnDocs

LEMMA SignOutEndsSteady ==
  ASSUME NEW c \in calls
  PROVE  IInv /\ Steady /\ SignOutEnds(c) /\ (clean' => clean) => Steady'
<1> SUFFICES ASSUME IInv, Steady, SignOutEnds(c), clean' => clean PROVE Steady'
  OBVIOUS
<1>1. /\ calls \ {c} = {} /\ CalmCall(c) /\ c.kind = "signOut"
  BY Alone DEF Steady, SignOutEnds
<1>2. /\ currentUser = NoUser /\ sheet \notin Editors
      /\ calls' = {} /\ root' = "guest" /\ profile' = "none"
      /\ UNCHANGED <<server, currentUser, sheet>>
  BY <1>1 DEF CalmCall, SignOutEnds, Steady, Screens
<1>3. (\A k \in Key : defaults'[k] = NoUser) /\ Settings \subseteq Key
  BY DEF SignOutEnds, Empty, Settings, Key
<1>4. Remembered'
  BY <1>2, <1>3 DEF Remembered, Tidy, None, Of
<1> QED
  BY <1>2, <1>4 DEF Steady, server, OwnDocs, OneCall, Screens, Running

\* A refresh of a complete document stores every key but AppSettings' two.
LEMMA RefreshedKeys ==
  ASSUME NEW u \in User, ReadInOrder(RefreshReads, doc[u]) = Field,
         \A f \in Field : doc[u][f] = u, u = currentUser, u # NoUser
  PROVE  \A k \in Key : AfterRefresh(u)[k] = IF k \in Settings THEN defaults[k]
                                             ELSE u
BY DEF AfterRefresh, Key, Field, Settings

LEMMA RefreshStoresSteady ==
  ASSUME NEW c \in calls
  PROVE  IInv /\ Steady /\ RefreshStores(c) /\ (clean' => clean) => Steady'
<1> SUFFICES ASSUME IInv, Steady, RefreshStores(c), clean' => clean PROVE Steady'
  OBVIOUS
<1>1. /\ calls = {c} /\ calls \ {c} = {} /\ CalmCall(c) /\ c.kind = "refresh"
      /\ c.user = currentUser /\ c.user \in account /\ c.user \in User
  BY Alone, CallFields, AccountAssumption DEF Steady, RefreshStores, CalmCall
<1>2. ReadInOrder(RefreshReads, doc[c.user]) = Field
      /\ (\A f \in Field : doc[c.user][f] = c.user) /\ c.user # NoUser
  BY <1>1, FullDocument DEF IInv, Steady
<1>3. calls' = {} /\ UNCHANGED <<server, currentUser, screen>>
  BY <1>1, <1>2 DEF RefreshStores
<1>4. \A k \in Key : defaults'[k] = IF k \in Settings THEN defaults[k]
                                    ELSE currentUser
  BY <1>1, <1>2, RefreshedKeys DEF RefreshStores
<1>5. /\ Settings \subseteq Key /\ "firstname" \in Key
      /\ "firstname" \notin Settings
  BY DEF Settings, Key, Field
<1>6. Remembered'
  BY <1>1, <1>2, <1>3, <1>4, <1>5 DEF Steady, Remembered, Tidy, None, Of
<1>7. Screens'
  BY <1>1, <1>2, <1>3, <1>4, <1>5
     DEF Steady, Screens, None, NoCall, Running, screen
<1> QED
  BY <1>3, <1>6, <1>7 DEF Steady, server, OwnDocs, OneCall

\* A document that exists is read.
LEMMA DocumentsAreRead ==
  ASSUME NEW c \in calls
  PROVE  ~(IInv /\ Steady /\ NoDocument(c) /\ ~Exists(c.user))
<1> SUFFICES ASSUME IInv, Steady, NoDocument(c) PROVE Exists(c.user)
  OBVIOUS
<1>1. c.user = currentUser /\ c.user \in User
  BY Alone, CallFields DEF Steady, NoDocument, LoginStuck, RefreshFails, CalmCall
<1>2. c.user \in account
  BY <1>1, AccountAssumption DEF Steady
<1> QED
  BY <1>2, FullDocument DEF IInv, Steady

-----------------------------------------------------------------------------
(* The sheets that edit.                                                   *)

LEMMA OpenEditorSteady ==
  ASSUME NEW s \in Editors
  PROVE  IInv /\ Steady /\ OpenEditor(s) /\ calls = {} /\ (clean' => clean) => Steady'
<1> SUFFICES ASSUME IInv, Steady, OpenEditor(s), calls = {}, clean' => clean PROVE Steady'
  OBVIOUS
<1>1. currentUser # NoUser => Of(Key \ Settings)
  BY DEF OpenEditor, Steady, Screens, Remembered, NoCall
<1>2. currentUser # NoUser =>
        \A f \in Field : draft'[f] \in {currentUser, NoUser}
  BY <1>1 DEF OpenEditor, Of, Key, Field, Settings
<1>3. Screens'
  BY <1>2 DEF OpenEditor, Steady, Screens, None, NoCall, Running
<1>4. Remembered' /\ OneCall'
  BY <1>1 DEF OpenEditor, Steady, Remembered, Tidy, None, Of, OneCall
<1> QED
  BY <1>3, <1>4 DEF Steady, OpenEditor, server, OwnDocs

\* What such a sheet finds: nothing under way, and one reader's data, or a
\* profile that a sign-out cut short left behind.
LEMMA Editing ==
  ASSUME IInv, Steady, sheet \in Editors
  PROVE  /\ calls = {} /\ profile = "signed" /\ Running
         /\ defaults["firstname"] # NoUser
         /\ currentUser = NoUser => ~clean
         /\ currentUser # NoUser =>
              /\ currentUser \in account
              /\ Of(Key \ Settings)
              /\ \A f \in Field : draft[f] \in {currentUser, NoUser}
<1>1. /\ calls = {} /\ profile = "signed" /\ Running
      /\ defaults["firstname"] # NoUser
      /\ currentUser # NoUser =>
           \A f \in Field : draft[f] \in {currentUser, NoUser}
  BY DEF Steady, Screens, NoCall
<1>2. currentUser # NoUser => Of(Key \ Settings)
  BY <1>1 DEF Steady, Remembered, NoCall
<1>3. currentUser = NoUser => ~clean
  BY <1>1 DEF Steady, Remembered, Tidy, None, Key, Field
<1> QED
  BY <1>1, <1>2, <1>3 DEF Steady

\* It closes, and what it writes is that reader's.
LEMMA EditorCloses ==
  ASSUME IInv, Steady, sheet \in Editors, Closed, clean' => clean,
         UNCHANGED <<account, currentUser, root, profile, calls>>,
         currentUser # NoUser =>
           \A k \in Key : defaults'[k] \in {defaults[k], currentUser},
         currentUser = NoUser =>
           defaults'["firstname"] = defaults["firstname"],
         OwnDocs'
  PROVE  Steady'
<1>1. Settings \subseteq Key /\ "firstname" \in Key
  BY DEF Settings, Key, Field
<1>2. /\ calls' = {} /\ profile' = "signed" /\ Running' /\ sheet' = "none"
      /\ defaults'["firstname"] # NoUser
      /\ currentUser = NoUser => ~clean'
      /\ currentUser # NoUser =>
           \A k \in Key \ Settings : defaults'[k] \in {currentUser, NoUser}
  BY <1>1, Editing DEF Running, Closed, Of
<1>3. clean' => Of(Settings)'
  BY <1>1, <1>2 DEF Steady, Remembered, Tidy, Of
<1>4. Remembered'
  BY <1>1, <1>2, <1>3 DEF Remembered, Tidy, Of
<1>5. Screens'
  BY <1>2 DEF Steady, Screens, Editors, Running
<1> QED
  BY <1>2, <1>4, <1>5 DEF Steady, OneCall

LEMMA WriteIsOwn ==
  ASSUME IInv, Steady, currentUser \in account,
         NEW S \in SUBSET Field, NEW edit \in [S -> {currentUser}], Write(edit),
         UNCHANGED account
  PROVE  /\ \A k \in Key : defaults'[k] \in {defaults[k], currentUser}
         /\ OwnDocs'
<1> DOMAIN edit = S /\ \A k \in S : edit[k] = currentUser
  OBVIOUS
<1>1. \A k \in Key : defaults'[k] \in {defaults[k], currentUser}
  BY DEF Write
<1>2. CASE UNCHANGED doc
  BY <1>1, <1>2 DEF Steady, OwnDocs
<1>3. CASE doc' = [doc EXCEPT ![currentUser] =
             [f \in Field |-> IF f \in DOMAIN edit THEN edit[f] ELSE @[f]]]
  <2>1. ASSUME NEW u \in User, NEW f \in Field
        PROVE  doc'[u][f] = IF u \in account THEN u ELSE NoUser
    <3>1. CASE u = currentUser
      BY <1>3, <3>1 DEF IInv, StateOK, Steady, OwnDocs
    <3>2. CASE u # currentUser
      BY <1>3, <3>2 DEF IInv, StateOK, Steady, OwnDocs
    <3> QED
      BY <3>1, <3>2
  <2> QED
    BY <1>1, <2>1 DEF OwnDocs
<1> QED
  BY <1>1, <1>2, <1>3 DEF Write

\* Whatever the fields of the details show is the signed-in reader's.
LEMMA DetailsAreOwn ==
  ASSUME IInv, Steady, sheet = "details", currentUser # NoUser,
         NEW typed \in BOOLEAN
  PROVE  /\ Filled(typed) \in SUBSET Field
         /\ \A f \in Filled(typed) : Shown(typed, f) = currentUser
BY Editing DEF Filled, Shown, Field, Editors

LEMMA CloseDetailsSteady ==
  ASSUME NEW typed \in BOOLEAN
  PROVE  IInv /\ Steady /\ CloseDetails(typed) /\ (clean' => clean) => Steady'
<1> SUFFICES ASSUME IInv, Steady, CloseDetails(typed), clean' => clean PROVE Steady'
  OBVIOUS
<1>1. sheet \in Editors /\ sheet = "details"
  BY DEF CloseDetails, Editors
<1>2. CASE currentUser = NoUser
  <2>1. OwnDocs'
    BY <1>2 DEF CloseDetails, Steady, OwnDocs
  <2> QED
    BY <1>1, <1>2, <2>1, EditorCloses DEF CloseDetails
<1>3. CASE currentUser # NoUser
  <2> DEFINE edit == [f \in Filled(typed) |-> Shown(typed, f)]
  <2>1. /\ Filled(typed) \in SUBSET Field
        /\ edit \in [Filled(typed) -> {currentUser}]
    BY <1>1, <1>3, DetailsAreOwn
  <2>2. Write(edit)
    BY <1>3 DEF CloseDetails
  <2> HIDE DEF edit
  <2>3. /\ \A k \in Key : defaults'[k] \in {defaults[k], currentUser}
        /\ OwnDocs'
    BY <1>1, <1>3, <2>1, <2>2, Editing, WriteIsOwn DEF CloseDetails
  <2> QED
    BY <1>1, <1>3, <2>3, EditorCloses DEF CloseDetails
<1> QED
  BY <1>2, <1>3

LEMMA CloseInterestsSteady ==
  ASSUME NEW toggled \in BOOLEAN
  PROVE  IInv /\ Steady /\ CloseInterests(toggled) /\ (clean' => clean) => Steady'
<1> SUFFICES ASSUME IInv, Steady, CloseInterests(toggled), clean' => clean PROVE Steady'
  OBVIOUS
<1>1. sheet \in Editors
  BY DEF CloseInterests, Editors
<1>2. CASE draft["interests"] = NoUser
  <2>1. OwnDocs'
    BY <1>2 DEF CloseInterests, Steady, OwnDocs
  <2> QED
    BY <1>1, <1>2, <2>1, EditorCloses DEF CloseInterests
<1>3. CASE draft["interests"] # NoUser /\ currentUser # NoUser
  <2> DEFINE edit == [f \in {"interests"} |->
                        IF toggled THEN currentUser ELSE draft[f]]
  <2>1. {"interests"} \in SUBSET Field /\ edit \in [{"interests"} -> {currentUser}]
    BY <1>1, <1>3, Editing DEF Field
  <2>2. Write(edit)
    BY <1>3 DEF CloseInterests
  <2> HIDE DEF edit
  <2>3. /\ \A k \in Key : defaults'[k] \in {defaults[k], currentUser}
        /\ OwnDocs'
    BY <1>1, <1>3, <2>1, <2>2, Editing, WriteIsOwn DEF CloseInterests
  <2> QED
    BY <1>1, <1>3, <2>3, EditorCloses DEF CloseInterests
\* Nobody is signed in: it traps on what a sign-out left.
<1>4. CASE draft["interests"] # NoUser /\ currentUser = NoUser
  <2>1. /\ calls' = {} /\ profile' = "none" /\ sheet' = "none"
        /\ UNCHANGED <<doc, account, currentUser>>
    BY <1>4 DEF CloseInterests, Trap, Stop
  <2>2. ~clean'
    BY <1>1, <1>4, Editing
  <2>3. Remembered' /\ OneCall' /\ Screens'
    BY <1>4, <2>1, <2>2 DEF Remembered, OneCall, Screens, Editors
  <2> QED
    BY <2>1, <2>3 DEF Steady, OwnDocs
<1> QED
  BY <1>2, <1>3, <1>4

LEMMA CloseSettingsSteady ==
  IInv /\ Steady /\ CloseSettings /\ (clean' => clean) => Steady'
<1> SUFFICES ASSUME IInv, Steady, CloseSettings, clean' => clean PROVE Steady'
  OBVIOUS
<1>1. sheet \in Editors
  BY DEF CloseSettings, Editors
<1>2. /\ \A k \in Key : currentUser # NoUser =>
                         defaults'[k] \in {defaults[k], currentUser}
      /\ defaults'["firstname"] = defaults["firstname"]
  BY DEF CloseSettings, AfterSettings, Settings, Key, Field
<1>3. OwnDocs'
  BY DEF CloseSettings, server, Steady, OwnDocs
<1> QED
  BY <1>1, <1>2, <1>3, EditorCloses DEF CloseSettings, server

-----------------------------------------------------------------------------
(* Handlers that the end of their process cuts short.                      *)

\* A key holds what it held or what the handler would leave there.
LEMMA CutStores ==
  ASSUME NEW order, NEW after, Cut(order, after)
  PROVE  \A k \in Key : defaults'[k] \in {defaults[k], after[k]}
BY DEF Cut

LEMMA CutSteady ==
  ASSUME IInv, Steady, NEW order, NEW after, Cut(order, after),
         currentUser' \in {currentUser, NoUser}, clean' => Tidy'
  PROVE  Steady'
<1>1. /\ root' = "killed" /\ calls' = {} /\ profile' = "none" /\ sheet' = "none"
      /\ UNCHANGED <<account, doc>>
  BY DEF Cut, Stop, server
<1>2. Remembered' /\ OneCall' /\ Screens'
  BY <1>1 DEF Remembered, OneCall, Screens, Running, Editors
<1> QED
  BY <1>1, <1>2 DEF Steady, OwnDocs

LEMMA LoginCutSteady ==
  ASSUME NEW c \in calls
  PROVE  IInv /\ Steady /\ LoginCut(c) /\ (clean' => clean) => Steady'
<1> SUFFICES ASSUME IInv, Steady, LoginCut(c), clean' => clean PROVE Steady'
  OBVIOUS
<1> DEFINE after == AfterLogin(c.user)
<1>1. /\ c.kind = "loginDoc" /\ c.user = currentUser /\ c.user \in account
      /\ Cut(LoginOrder, after) /\ UNCHANGED currentUser
  BY Alone, CallFields, AccountAssumption DEF Steady, LoginCut, CalmCall
<1>2. ReadInOrder(LoginReads, doc[c.user]) = Field
      /\ (\A f \in Field : doc[c.user][f] = c.user) /\ c.user # NoUser
  BY <1>1, FullDocument DEF IInv, Steady
<1>3. \A k \in Key : after[k] = currentUser
  BY <1>1, <1>2 DEF AfterLogin
<1> HIDE DEF after
<1>4. Settings \subseteq Key /\ "firstname" \in Key
  BY DEF Settings, Key, Field
\* The names are stored before the settings.
<1>5. PICK n \in 0..Len(LoginOrder) :
        defaults' = [k \in Key |-> IF \E i \in 1..n : LoginOrder[i] = k
                                  THEN after[k] ELSE defaults[k]]
  BY <1>1 DEF Cut
<1>6. \A i \in 1..n : LoginOrder[i] \in Settings => i > 2 /\ 2 \in 1..n
  BY DEF LoginOrder, Settings
<1>7. LoginOrder[2] = "firstname"
  BY DEF LoginOrder
<1>8. ASSUME defaults'["firstname"] = NoUser
      PROVE  /\ defaults["firstname"] = NoUser
             /\ \A k \in Settings : defaults'[k] = defaults[k]
  BY <1>1, <1>2, <1>3, <1>4, <1>5, <1>6, <1>7, <1>8
<1>9. clean' => Tidy'
  BY <1>1, <1>2, <1>3, <1>4, <1>8, CutStores
     DEF Steady, Remembered, Tidy, None, Of
<1> QED
  BY <1>1, <1>9, CutSteady

LEMMA RefreshCutSteady ==
  ASSUME NEW c \in calls
  PROVE  IInv /\ Steady /\ RefreshCut(c) /\ (clean' => clean) => Steady'
<1> SUFFICES ASSUME IInv, Steady, RefreshCut(c), clean' => clean PROVE Steady'
  OBVIOUS
<1> DEFINE after == AfterRefresh(c.user)
<1>1. /\ c.kind = "refresh" /\ c.user = currentUser /\ c.user \in account
      /\ c.user \in User /\ Cut(RefreshOrder, after) /\ UNCHANGED currentUser
  BY Alone, CallFields, AccountAssumption DEF Steady, RefreshCut, CalmCall
<1>2. ReadInOrder(RefreshReads, doc[c.user]) = Field
      /\ (\A f \in Field : doc[c.user][f] = c.user) /\ c.user # NoUser
  BY <1>1, FullDocument DEF IInv, Steady
<1>3. \A k \in Key : after[k] = IF k \in Settings THEN defaults[k]
                                ELSE currentUser
  BY <1>1, <1>2, RefreshedKeys
<1> HIDE DEF after
<1>4. /\ Settings \subseteq Key /\ "firstname" \in Key
      /\ "firstname" \notin Settings
  BY DEF Settings, Key, Field
<1>5. clean' => Tidy'
  BY <1>1, <1>2, <1>3, <1>4, CutStores DEF Steady, Remembered, Tidy, None, Of
<1> QED
  BY <1>1, <1>5, CutSteady

LEMMA SignOutEndsCutSteady ==
  ASSUME NEW c \in calls
  PROVE  IInv /\ Steady /\ SignOutEndsCut(c) /\ (clean' => clean) => Steady'
<1> SUFFICES ASSUME IInv, Steady, SignOutEndsCut(c), clean' => clean PROVE Steady'
  OBVIOUS
<1>1. /\ currentUser = NoUser /\ UNCHANGED currentUser
      /\ Cut(RemoveOrder, Empty)
  BY Alone DEF Steady, SignOutEndsCut, CalmCall
<1>2. /\ \A k \in Key : Empty[k] = NoUser
      /\ Settings \subseteq Key
  BY DEF Empty, Settings, Key
<1>3. clean' => Tidy'
  BY <1>1, <1>2, CutStores DEF Steady, Remembered, Tidy, None, Of
<1> QED
  BY <1>1, <1>3, CutSteady

LEMMA SignOutCutSteady == IInv /\ Steady /\ SignOutCut /\ ~clean' => Steady'
BY CutSteady DEF SignOutCut

LEMMA DetailsCutSteady ==
  ASSUME NEW typed \in BOOLEAN
  PROVE  IInv /\ Steady /\ DetailsCut(typed) /\ (clean' => clean) => Steady'
<1> SUFFICES ASSUME IInv, Steady, DetailsCut(typed), clean' => clean PROVE Steady'
  OBVIOUS
<1> DEFINE after == [k \in Key |-> IF k \in Filled(typed) THEN Shown(typed, k)
                                  ELSE defaults[k]]
<1>1. /\ sheet = "details" /\ sheet \in Editors
      /\ currentUser # NoUser /\ UNCHANGED currentUser
      /\ Cut(<<"firstname", "lastname", "country">>, after)
  BY DEF DetailsCut, Editors
<1>2. \A k \in Key : after[k] \in {defaults[k], currentUser}
  BY <1>1, DetailsAreOwn
<1> HIDE DEF after
<1>3. Settings \subseteq Key /\ "firstname" \in Key
  BY DEF Settings, Key, Field
<1>4. clean' => Tidy'
  BY <1>1, <1>2, <1>3, CutStores, Editing
     DEF Steady, Remembered, Tidy, None, Of
<1> QED
  BY <1>1, <1>4, CutSteady

LEMMA SettingsCutSteady ==
  IInv /\ Steady /\ SettingsCut /\ (clean' => clean) => Steady'
<1> SUFFICES ASSUME IInv, Steady, SettingsCut, clean' => clean PROVE Steady'
  OBVIOUS
<1>1. /\ sheet \in Editors /\ UNCHANGED currentUser
      /\ Cut(<<"isCountrySpecific", "resultLanguage">>, AfterSettings)
  BY DEF SettingsCut, Editors
<1>2. \A k \in Key : currentUser # NoUser =>
                      AfterSettings[k] \in {defaults[k], currentUser}
  BY DEF AfterSettings
<1>3. Settings \subseteq Key /\ "firstname" \in Key
  BY DEF Settings, Key, Field
<1>4. clean' => Tidy'
  BY <1>1, <1>2, <1>3, CutStores, Editing
     DEF Steady, Remembered, Tidy, None, Of
<1> QED
  BY <1>1, <1>4, CutSteady

LEMMA CutShortSteady ==
  IInv /\ Steady /\ CutShort /\ (clean' => clean) => Steady'
<1> SUFFICES ASSUME IInv, Steady, CutShort, clean' => clean PROVE Steady'
  OBVIOUS
<1>1. \A c \in calls : ~SetDocCut(c)
  BY Alone DEF Steady, CalmCall, SetDocCut
<1> QED
  BY <1>1, LoginCutSteady, RefreshCutSteady, SignOutEndsCutSteady,
     DetailsCutSteady, SettingsCutSteady DEF CutShort

-----------------------------------------------------------------------------
(* The theorems.                                                           *)

CalmSteady == calm => Steady

LEMMA StutterSteady == Steady /\ UNCHANGED vars => Steady'
BY DEF vars, code, server, screen, Steady, OwnDocs, Remembered, Tidy, None, Of, NoCall,
       Running, OneCall, CalmCall, Screens

\* No other kind of call is under way.
LEMMA KindsAreCalm ==
  ASSUME IInv, Steady, NEW c \in calls
  PROVE  ~SignUpStep(c)
BY Alone DEF Steady, CalmCall, SignUpStep, CreateUserSucceeds, CreateUserFails,
   SetDocSucceeds, SetDocFails

LEMMA StepSteady == IInv /\ CalmSteady /\ [Next]_vars => CalmSteady'
<1> SUFFICES ASSUME IInv, CalmSteady, [Next]_vars, calm' PROVE Steady'
  BY DEF CalmSteady
<1>1. CASE UNCHANGED vars
  BY <1>1, StutterSteady DEF CalmSteady, vars
<1>2. CASE Next
  <2>1. calm /\ Steady
    BY <1>2 DEF Next, Patient, CalmSteady
  <2>2. ASSUME Kill \/ Launch \/ OpenProfile \/ PressSignIn \/ Close \/ CutShort,
               UNCHANGED clean
        PROVE  Steady'
    BY <2>1, <2>2, KillSteady, LaunchSteady, OpenProfileSteady,
       PressSignInSteady, CutShortSteady, CloseDetailsSteady,
       CloseInterestsSteady, CloseSettingsSteady DEF Close
  <2>3. ASSUME Begin, calls = {}, UNCHANGED clean PROVE Steady'
    BY <2>1, <2>3, PressLoginSteady, OpenEditorSteady DEF Begin, Editors
  <2>4. ASSUME SignOut, calls = {} PROVE Steady'
    BY <2>1, <2>4, SignOutSteady
  <2>5. ASSUME SignOutCut, ~clean' PROVE Steady'
    BY <2>1, <2>5, SignOutCutSteady
  <2>6. ASSUME ShowSignUp \/ Dismiss, ~Waiting(sheet), UNCHANGED clean
        PROVE  Steady'
    BY <2>1, <2>6, ShowSignUpSteady, DismissSteady
  <2>7. ASSUME NEW c \in calls, LoginStep(c),
               clean' = (clean \/ (c.kind = "loginDoc" /\ Running'))
        PROVE  Steady'
    <3>1. CASE LoginStores(c)
      BY <2>1, <3>1, LoginStoresSteady
    <3>2. CASE SignInSucceeds(c) \/ SignInFails(c) \/ ExpandEnds(c)
      <4>1. clean' => clean
        BY <2>7, <3>2 DEF SignInSucceeds, SignInFails, ExpandEnds
      <4> QED
        BY <2>1, <3>2, <4>1, SignInSucceedsSteady, SignInFailsSteady,
           ExpandEndsSteady
    <3> QED
      BY <2>7, <3>1, <3>2 DEF LoginStep
  <2>8. ASSUME NEW c \in calls, SignUpStep(c) \/ ProfileStep(c), UNCHANGED clean
        PROVE  Steady'
    BY <2>1, <2>8, KindsAreCalm, RevertEndsSteady, SignOutEndsSteady,
       RefreshStoresSteady DEF ProfileStep
  <2>9. ASSUME NEW c \in calls, NoDocument(c), ~Exists(c.user) PROVE Steady'
    BY <2>1, <2>9, DocumentsAreRead
  <2> QED
    BY <1>2, <2>1, <2>2, <2>3, <2>4, <2>5, <2>6, <2>7, <2>8, <2>9
       DEF Next, Patient
<1> QED
  BY <1>1, <1>2

(***************************************************************************)
(* PatientReader: a reader who waits for each answer has a complete        *)
(* document, one call at a time and, at rest, nobody else's data but what  *)
(* a sign-out that was cut short left, in every state, also after a        *)
(* process was killed between two stores of a handler.                     *)
(***************************************************************************)
THEOREM PatientReader == Spec => []CalmSteady
<1>1. Init => CalmSteady
  BY InitSteady DEF CalmSteady
<1> QED
  BY <1>1, StepSteady, AccountInvariant, PTL DEF Spec

(***************************************************************************)
(* OneReaderRemembered: what UserDefaults hold at rest of somebody who is  *)
(* signed in is theirs, and nothing is left of whoever signed out but by a *)
(* sign-out that was cut short                                             *)
(* (UserRepository.removeUserInfo, Authentication.swift:29-35, 48-50,      *)
(* 61-65).                                                                 *)
(***************************************************************************)
THEOREM OneReaderRemembered == Spec => []RemembersOneReader
<1>1. ASSUME CalmSteady, calm, Running, calls = {}
      PROVE  /\ currentUser # NoUser => Of(Key \ Settings)
             /\ clean => Of(Key)
  <2>1. currentUser # NoUser => Of(Key \ Settings)
    BY <1>1 DEF CalmSteady, Steady, Remembered, NoCall
  <2>2. clean => Tidy
    BY <1>1 DEF CalmSteady, Steady, Remembered
  <2> QED
    BY <2>1, <2>2 DEF Tidy, Of, None
<1>2. CalmSteady => RemembersOneReader
  BY <1>1 DEF RemembersOneReader, Of
<1> QED
  BY <1>2, PatientReader, PTL

(***************************************************************************)
(* DocumentsAreOwn: the editing sheets, which copy UserDefaults to the     *)
(* server, never write one user's data to another's document, not even     *)
(* what a sign-out that was cut short left behind                          *)
(* (EditUserDetailsViewController.swift:37-67).                            *)
(***************************************************************************)
THEOREM DocumentsAreOwn == Spec => []OwnDocument
<1>1. CalmSteady => OwnDocument
  BY DEF CalmSteady, Steady, OwnDocs, OwnDocument
<1> QED
  BY <1>1, PatientReader, PTL

(***************************************************************************)
(* NothingTraps: no forced unwrap or cast and no unowned reference of      *)
(* signing in, signing out, refreshing and editing fails for that reader,  *)
(* unless a sign-out was cut short (Authentication.swift:29-32, 61-65).    *)
(***************************************************************************)
THEOREM NothingTraps == Spec => []NeverTraps
<1>1. CalmSteady => NeverTraps
  BY DEF CalmSteady, Steady, Screens, NeverTraps
<1> QED
  BY <1>1, PatientReader, PTL
=============================================================================

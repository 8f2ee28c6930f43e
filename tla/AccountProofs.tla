----------------------------- MODULE AccountProofs -----------------------------
(***************************************************************************)
(* Proofs about Account, for every set of users and every bound: types,    *)
(* that the home of a signed-in reader has a user, and that Account        *)
(* implements Session.                                                     *)
(***************************************************************************)
EXTENDS Account, TLAPS

\* IInv without the types.
Inner ==
  /\ HomeNeedsUser
  /\ OneSignOut
  /\ sheet \in {"login", "signup"} => profile = "guest"
  /\ \A c \in calls : CallOK(c)

LoginKinds == {"signIn", "loginDoc", "stuck", "expand"}

-----------------------------------------------------------------------------
(* Lemmas about the calls in flight.                                       *)

LEMMA CallFields ==
  ASSUME IInv, NEW c \in calls
  PROVE  /\ c \in Call /\ CallOK(c)
         /\ c.live \in BOOLEAN
         /\ c.user \in Owner
         /\ c.kind # "signOut" => c.user \in User
BY DEF IInv, StateOK, Call, CallOK

\* A call that is replaced by, or joined by, one that is no sign-out.
LEMMA CallsKept ==
  ASSUME IInv, NEW m \in Call, m.kind # "signOut", CallOK(m)',
         calls' \subseteq calls \union {m},
         \A d \in calls : d.kind = "signOut" => d \in calls',
         UNCHANGED <<root, profile, sheet>>,
         currentUser' = currentUser \/ currentUser' \in User
  PROVE  calls' \subseteq Call /\ Inner'
<1>1. calls' \subseteq Call
  BY DEF IInv, StateOK
<1>2. HomeNeedsUser'
  BY AccountAssumption DEF IInv, HomeNeedsUser, SigningOut
<1>3. OneSignOut'
  BY DEF IInv, OneSignOut
<1>4. (sheet \in {"login", "signup"} => profile = "guest")'
  BY DEF IInv
<1>5. ASSUME NEW c \in calls' PROVE CallOK(c)'
  <2>1. CASE c = m
    BY <2>1
  <2>2. CASE c \in calls
    BY <2>2, AccountAssumption DEF IInv, CallOK
  <2> QED
    BY <2>1, <2>2
<1> QED
  BY <1>1, <1>2, <1>3, <1>4, <1>5 DEF Inner

\* Calls that only end, none of them a sign-out.
LEMMA CallsEnd ==
  ASSUME IInv, calls' \subseteq calls,
         \A d \in calls : d.kind = "signOut" => d \in calls',
         UNCHANGED <<root, profile, sheet, currentUser>>
  PROVE  calls' \subseteq Call /\ Inner'
BY DEF IInv, StateOK, Inner, HomeNeedsUser, SigningOut, OneSignOut, CallOK

\* The answer of a call turns it into the next one of its kind.
LEMMA CallContinues ==
  ASSUME IInv, NEW c \in calls, c.kind # "signOut",
         NEW k \in {"loginDoc", "stuck", "expand", "setDoc", "push", "revert"},
         k \in LoginKinds => c.kind \in LoginKinds,
         k = "stuck" => c.live,
         c.live /\ k \in LoginKinds => currentUser' \in User,
         Becomes(c, k),
         UNCHANGED <<root, profile, sheet>>,
         currentUser' = currentUser \/ currentUser' \in User
  PROVE  calls' \subseteq Call /\ Inner'
<1> DEFINE m == [c EXCEPT !.kind = k]
<1>1. /\ m \in Call /\ m.kind = k
      /\ m.user = c.user /\ m.sheet = c.sheet /\ m.live = c.live
  BY CallFields DEF Call
<1>2. CallOK(m)'
  BY <1>1, CallFields, AccountAssumption DEF CallOK, LoginKinds
<1>3. /\ calls' \subseteq calls \union {m}
      /\ \A d \in calls : d.kind = "signOut" => d \in calls'
  BY DEF Becomes
<1> HIDE DEF m
<1> QED
  BY <1>1, <1>2, <1>3, CallsKept

\* The process ends.
LEMMA StopKeeps ==
  ASSUME IInv, NEW how \in {"killed", "trapped"}, Stop(how)
  PROVE  /\ root' = how /\ profile' = "none" /\ sheet' = "none"
         /\ draft' \in [Field -> Owner]
         /\ calls' \subseteq Call /\ Inner'
BY DEF Stop, Inner, HomeNeedsUser, OneSignOut, Missing, Owner

\* The process ends inside a handler that stores one owner's data.
LEMMA CutKeeps ==
  ASSUME IInv, NEW order, NEW after \in [Key -> Owner], Cut(order, after),
         currentUser' \in Owner
  PROVE  IInv'
<1>1. defaults' \in [Key -> Owner]
  BY DEF Cut, IInv, StateOK
<1>2. Stop("killed")
  BY DEF Cut
<1> QED
  BY <1>1, <1>2, StopKeeps DEF Cut, server, IInv, Inner, StateOK

\* A closure that reaches its controller, or traps.
LEMMA ReachesKeeps ==
  ASSUME IInv, NEW c \in calls, c.kind # "signOut",
         NEW k \in {"expand", "push", "revert"},
         k = "expand" => c.kind = "loginDoc",
         Reaches(c, k), UNCHANGED currentUser
  PROVE  /\ root' \in {"guest", "logged", "killed", "trapped"}
         /\ profile' \in {"none", "guest", "signed"}
         /\ sheet' \in {"none", "login", "signup", "details", "interests",
                        "settings"}
         /\ draft' \in [Field -> Owner]
         /\ calls' \subseteq Call /\ Inner'
<1>1. CASE c.live
  <2>1. Becomes(c, k) /\ UNCHANGED screen
    BY <1>1 DEF Reaches
  <2>2. k \in LoginKinds => c.kind \in LoginKinds /\ currentUser' \in User
    BY <1>1, CallFields DEF LoginKinds, CallOK, IInv, StateOK, Owner
  <2>3. calls' \subseteq Call /\ Inner'
    BY <2>1, <2>2, CallContinues DEF screen
  <2> QED
    BY <2>1, <2>3 DEF screen, IInv, StateOK
<1>2. CASE ~c.live
  BY <1>2, StopKeeps DEF Reaches, Trap
<1> QED
  BY <1>1, <1>2, CallFields

-----------------------------------------------------------------------------
(* The initial states and the process.                                     *)

LEMMA LaunchCallsAreFine ==
  ASSUME currentUser \in Owner
  PROVE  /\ LaunchCalls \subseteq Call
         /\ \A c \in LaunchCalls : c.kind = "refresh" /\ c.sheet = "none"
                              /\ c.user \in User
<1>1. CASE currentUser = NoUser
  BY <1>1 DEF LaunchCalls
<1>2. CASE currentUser \in User
  <2> DEFINE m == [kind |-> "refresh", user |-> currentUser, sheet |-> "none",
                   live |-> TRUE]
  <2>1. /\ m \in Call
        /\ m.kind = "refresh" /\ m.sheet = "none" /\ m.user \in User
    BY <1>2 DEF Call, Owner
  <2>2. LaunchCalls \subseteq {m}
    BY DEF LaunchCalls
  <2> HIDE DEF m
  <2> QED
    BY <2>1, <2>2
<1> QED
  BY <1>1, <1>2 DEF Owner

LEMMA InitInvariant == Init => IInv
<1> SUFFICES ASSUME Init PROVE IInv
  OBVIOUS
<1>1. currentUser \in Owner /\ account \subseteq User
  BY DEF Init, Owner
<1>2. /\ calls \subseteq Call
      /\ \A c \in calls : c.kind = "refresh" /\ c.sheet = "none"
                          /\ c.user \in User
  BY <1>1, LaunchCallsAreFine DEF Init
<1>3. /\ doc \in [User -> [Field -> Owner]]
      /\ draft \in [Field -> Owner] /\ defaults \in [Key -> Owner]
  BY <1>1 DEF Init, Missing, Full, Owner
<1>4. StateOK
  BY <1>1, <1>2, <1>3 DEF Init, StateOK
<1>5. OneSignOut /\ \A c \in calls : CallOK(c)
  BY <1>2 DEF OneSignOut, CallOK
<1> QED
  BY <1>4, <1>5 DEF IInv, Init, HomeNeedsUser

LEMMA KillKeeps == IInv /\ Kill => IInv'
<1> SUFFICES ASSUME IInv, Kill PROVE IInv'
  OBVIOUS
<1>1. Stop("killed")
  BY DEF Kill
<1> QED
  BY <1>1, StopKeeps DEF Kill, server, IInv, Inner, StateOK

LEMMA LaunchKeeps == IInv /\ Launch => IInv'
<1> SUFFICES ASSUME IInv, Launch PROVE IInv'
  OBVIOUS
<1>1. currentUser \in Owner /\ calls' = LaunchCalls /\ UNCHANGED currentUser
  BY DEF Launch, IInv, StateOK
<1>2. /\ calls' \subseteq Call
      /\ \A c \in calls' : c.kind = "refresh" /\ c.sheet = "none"
                           /\ c.user \in User
  BY <1>1, LaunchCallsAreFine
<1>3. StateOK'
  BY <1>2 DEF Launch, server, IInv, StateOK
<1>4. OneSignOut' /\ (\A c \in calls : CallOK(c))'
  BY <1>2 DEF OneSignOut, CallOK
<1>5. HomeNeedsUser' /\ (sheet \in {"login", "signup"} => profile = "guest")'
  BY DEF Launch, IInv, HomeNeedsUser
<1> QED
  BY <1>3, <1>4, <1>5 DEF IInv

-----------------------------------------------------------------------------
(* Profile and its sheets.                                                 *)

LEMMA OpenProfileKeeps == IInv /\ OpenProfile => IInv'
BY DEF IInv, OpenProfile, server, StateOK, HomeNeedsUser, SigningOut,
       OneSignOut, CallOK

LEMMA PressSignInKeeps == IInv /\ PressSignIn => IInv'
BY DEF IInv, PressSignIn, server, StateOK, HomeNeedsUser, SigningOut,
       OneSignOut, CallOK

LEMMA ShowSignUpKeeps == IInv /\ ShowSignUp => IInv'
BY DEF IInv, ShowSignUp, server, StateOK, HomeNeedsUser, SigningOut,
       OneSignOut, CallOK

LEMMA OpenEditorKeeps ==
  ASSUME NEW s \in {"details", "interests", "settings"}
  PROVE  IInv /\ OpenEditor(s) => IInv'
<1> SUFFICES ASSUME IInv, OpenEditor(s) PROVE IInv'
  OBVIOUS
<1>1. draft' \in [Field -> Owner]
  BY DEF OpenEditor, IInv, StateOK, Key
<1>2. StateOK'
  BY <1>1 DEF OpenEditor, IInv, StateOK, server
<1>3. \A c \in calls : c.live => c.sheet = "none"
  BY CallFields DEF OpenEditor, CallOK, Call
<1> QED
  BY <1>2, <1>3 DEF IInv, OpenEditor, server, HomeNeedsUser, SigningOut,
     OneSignOut, CallOK

LEMMA DismissKeeps == IInv /\ Dismiss => IInv'
<1> SUFFICES ASSUME IInv, Dismiss PROVE IInv'
  OBVIOUS
<1> DEFINE Left(c) == [c EXCEPT !.live = @ /\ c.sheet # sheet]
<1>1. ASSUME NEW c \in calls
      PROVE  /\ Left(c) \in Call
             /\ Left(c).kind = c.kind /\ Left(c).user = c.user
             /\ Left(c).sheet = c.sheet
             /\ Left(c).live <=> c.live /\ c.sheet # sheet
  BY CallFields DEF Call
<1>2. /\ \A e \in calls' : \E c \in calls : e = Left(c)
                                /\ ~(c.kind = "stuck" /\ c.sheet = sheet)
      /\ \A c \in calls : c.kind = "signOut" => Left(c) \in calls'
  BY DEF Dismiss
<1> HIDE DEF Left
<1>3. calls' \subseteq Call
  BY <1>1, <1>2
<1>4. StateOK'
  BY <1>3 DEF Dismiss, IInv, StateOK, server
<1>5. OneSignOut'
  BY <1>1, <1>2 DEF IInv, OneSignOut
<1>6. HomeNeedsUser'
  BY <1>1, <1>2 DEF IInv, Dismiss, HomeNeedsUser, SigningOut, server
<1>7. (sheet \in {"login", "signup"} => profile = "guest")'
  BY DEF IInv, Dismiss
<1>8. ASSUME NEW e \in calls' PROVE CallOK(e)'
  <2>1. PICK c \in calls : e = Left(c) /\ ~(c.kind = "stuck" /\ c.sheet = sheet)
    BY <1>2
  <2>2. /\ e.kind = c.kind /\ e.user = c.user /\ e.sheet = c.sheet
        /\ e.live <=> c.live /\ c.sheet # sheet
    BY <1>1, <2>1
  <2>3. CallOK(c) /\ c.sheet \in {"none", "login", "signup"}
    BY CallFields DEF Call
  <2>4. CASE sheet = "signup"
    BY <2>1, <2>2, <2>3, <2>4 DEF CallOK, Dismiss
  <2>5. CASE sheet = "login"
    BY <2>1, <2>2, <2>3, <2>5 DEF CallOK, Dismiss
  <2> QED
    BY <2>4, <2>5 DEF Dismiss
<1> QED
  BY <1>4, <1>5, <1>6, <1>7, <1>8 DEF IInv

-----------------------------------------------------------------------------
(* Signing in.                                                             *)

\* A call that starts: it joins the others.
LEMMA CallStarts ==
  ASSUME IInv, NEW u \in User, NEW k \in {"signIn", "createUser"},
         NEW s \in {"login", "signup"}, k = "signIn" => s = "login", sheet = s,
         calls' = calls \union {[kind |-> k, user |-> u, sheet |-> s,
                                 live |-> TRUE]},
         UNCHANGED <<server, currentUser, defaults, screen, launches>>
  PROVE  IInv'
<1> DEFINE m == [kind |-> k, user |-> u, sheet |-> s, live |-> TRUE]
<1>1. /\ m \in Call /\ m.kind = k /\ m.user = u /\ m.sheet = s /\ m.live
  BY DEF Call, Owner
<1>2. calls' = calls \union {m}
  OBVIOUS
<1> HIDE DEF m
<1>3. CallOK(m)'
  BY <1>1 DEF CallOK, screen
<1>4. calls' \subseteq Call /\ Inner'
  BY <1>1, <1>2, <1>3, CallsKept DEF screen
<1> QED
  BY <1>4 DEF IInv, Inner, StateOK, server, screen

LEMMA PressLoginKeeps == ASSUME NEW u \in User PROVE IInv /\ PressLogin(u) => IInv'
<1> SUFFICES ASSUME IInv, PressLogin(u) PROVE IInv'
  OBVIOUS
<1> QED
  BY CallStarts DEF PressLogin

LEMMA PressNextKeeps == ASSUME NEW u \in User PROVE IInv /\ PressNext(u) => IInv'
<1> SUFFICES ASSUME IInv, PressNext(u) PROVE IInv'
  OBVIOUS
<1> QED
  BY CallStarts DEF PressNext

LEMMA SignInSucceedsKeeps ==
  ASSUME NEW c \in calls PROVE IInv /\ SignInSucceeds(c) => IInv'
<1> SUFFICES ASSUME IInv, SignInSucceeds(c) PROVE IInv'
  OBVIOUS
<1>1. c.kind = "signIn" /\ currentUser' = c.user /\ c.user \in User
  BY DEF SignInSucceeds, IInv, StateOK
<1>2. calls' \subseteq Call /\ Inner'
  BY <1>1, CallContinues DEF SignInSucceeds, screen, LoginKinds
<1> QED
  BY <1>1, <1>2 DEF SignInSucceeds, IInv, Inner, StateOK, server, screen, Owner

LEMMA SignInFailsKeeps ==
  ASSUME NEW c \in calls PROVE IInv /\ SignInFails(c) => IInv'
<1> SUFFICES ASSUME IInv, SignInFails(c) PROVE IInv'
  OBVIOUS
<1> QED
  BY ReachesKeeps DEF SignInFails, IInv, Inner, StateOK, server

LEMMA AfterLoginType ==
  ASSUME StateOK, NEW u \in User PROVE AfterLogin(u) \in [Key -> Owner]
<1>1. ReadInOrder(LoginReads, doc[u]) \subseteq Field
  BY DEF ReadInOrder, LoginReads, Field
<1> QED
  BY <1>1 DEF AfterLogin, StateOK, Owner

LEMMA LoginStoresKeeps ==
  ASSUME NEW c \in calls PROVE IInv /\ LoginStores(c) => IInv'
<1> SUFFICES ASSUME IInv, LoginStores(c) PROVE IInv'
  OBVIOUS
<1>1. c.kind = "loginDoc" /\ c.user \in User
  BY CallFields DEF LoginStores
<1>2. defaults' \in [Key -> Owner]
  BY <1>1, AfterLoginType DEF LoginStores, IInv
<1>3. CASE Reaches(c, "expand")
  BY <1>1, <1>2, <1>3, ReachesKeeps
     DEF LoginStores, IInv, Inner, StateOK, server
<1>4. CASE Trap
  BY <1>2, <1>4, StopKeeps DEF Trap, LoginStores, IInv, Inner, StateOK, server
<1> QED
  BY <1>3, <1>4 DEF LoginStores

LEMMA LoginCutKeeps ==
  ASSUME NEW c \in calls PROVE IInv /\ LoginCut(c) => IInv'
<1> SUFFICES ASSUME IInv, LoginCut(c) PROVE IInv'
  OBVIOUS
<1>1. AfterLogin(c.user) \in [Key -> Owner]
  BY CallFields, AfterLoginType DEF LoginCut, IInv
<1> QED
  BY <1>1, CutKeeps DEF LoginCut, IInv, StateOK

LEMMA LoginStuckKeeps ==
  ASSUME NEW c \in calls PROVE IInv /\ LoginStuck(c) => IInv'
<1> SUFFICES ASSUME IInv, LoginStuck(c) PROVE IInv'
  OBVIOUS
<1>1. /\ c.kind = "loginDoc" /\ UNCHANGED <<root, profile, sheet, currentUser>>
  BY DEF LoginStuck, screen
<1>2. CASE c.live
  <2>1. Becomes(c, "stuck") /\ currentUser' \in User
    BY <1>1, <1>2, CallFields DEF LoginStuck, CallOK, IInv, StateOK, Owner
  <2>2. calls' \subseteq Call /\ Inner'
    BY <1>1, <1>2, <2>1, CallContinues DEF LoginKinds
  <2> QED
    BY <2>2 DEF LoginStuck, IInv, Inner, StateOK, server, screen
<1>3. CASE ~c.live
  <2>1. calls' = calls \ {c}
    BY <1>3 DEF LoginStuck
  <2>2. calls' \subseteq Call /\ Inner'
    BY <1>1, <2>1, CallsEnd
  <2> QED
    BY <2>2 DEF LoginStuck, IInv, Inner, StateOK, server, screen
<1> QED
  BY <1>2, <1>3, CallFields

LEMMA ExpandEndsKeeps ==
  ASSUME NEW c \in calls PROVE IInv /\ ExpandEnds(c) => IInv'
<1> SUFFICES ASSUME IInv, ExpandEnds(c) PROVE IInv'
  OBVIOUS
<1>1. CASE ~c.live
  BY <1>1, StopKeeps DEF Trap, ExpandEnds, IInv, Inner, StateOK, server
<1>2. CASE c.live
  <2> DEFINE Left(d) == [d EXCEPT !.live = @ /\ d.sheet = "none"]
  <2>1. /\ profile = "guest" /\ currentUser # NoUser
        /\ profile' = "none" /\ sheet' = "none" /\ root' = "logged"
        /\ UNCHANGED <<currentUser, draft>>
    BY <1>2, CallFields DEF ExpandEnds, CallOK, IInv
  <2>2. ASSUME NEW d \in calls
        PROVE  /\ Left(d) \in Call
               /\ Left(d).kind = d.kind /\ Left(d).user = d.user
               /\ Left(d).sheet = d.sheet
               /\ Left(d).live <=> d.live /\ d.sheet = "none"
    BY CallFields DEF Call
  <2>3. \A e \in calls' : \E d \in calls : e = Left(d) /\ d.kind # "stuck"
    BY <1>2 DEF ExpandEnds
  <2> HIDE DEF Left
  <2>4. calls' \subseteq Call
    BY <2>2, <2>3
  <2>5. StateOK'
    BY <2>1, <2>4 DEF ExpandEnds, IInv, StateOK, server
  <2>6. ASSUME NEW e \in calls' PROVE CallOK(e)' /\ e.kind # "signOut"
    <3>1. PICK d \in calls : e = Left(d) /\ d.kind # "stuck"
      BY <2>3
    <3>2. /\ e.kind = d.kind /\ e.user = d.user /\ e.sheet = d.sheet
          /\ e.live <=> d.live /\ d.sheet = "none"
      BY <2>2, <3>1
    <3> QED
      BY <2>1, <3>1, <3>2, CallFields DEF CallOK
  <2>7. HomeNeedsUser' /\ OneSignOut'
    BY <2>1, <2>6 DEF HomeNeedsUser, OneSignOut
  <2> QED
    BY <2>1, <2>5, <2>6, <2>7 DEF IInv
<1> QED
  BY <1>1, <1>2, CallFields

LEMMA RevertEndsKeeps ==
  ASSUME NEW c \in calls PROVE IInv /\ RevertEnds(c) => IInv'
<1> SUFFICES ASSUME IInv, RevertEnds(c) PROVE IInv'
  OBVIOUS
<1>1. CASE ~c.live
  BY <1>1, StopKeeps DEF Trap, RevertEnds, IInv, Inner, StateOK, server
<1>2. CASE c.live
  <2>1. calls' = calls \ {c} /\ c.kind # "signOut"
        /\ UNCHANGED <<root, profile, sheet, currentUser>>
    BY <1>2 DEF RevertEnds, screen
  <2>2. calls' \subseteq Call /\ Inner'
    BY <2>1, CallsEnd
  <2> QED
    BY <1>2, <2>2 DEF RevertEnds, IInv, Inner, StateOK, server, screen
<1> QED
  BY <1>1, <1>2, CallFields

-----------------------------------------------------------------------------
(* Signing up.                                                             *)

LEMMA CreateUserSucceedsKeeps ==
  ASSUME NEW c \in calls PROVE IInv /\ CreateUserSucceeds(c) => IInv'
<1> SUFFICES ASSUME IInv, CreateUserSucceeds(c) PROVE IInv'
  OBVIOUS
<1>1. c.kind = "createUser" /\ c.user \in User /\ currentUser' = c.user
  BY CallFields DEF CreateUserSucceeds
<1>2. calls' \subseteq Call /\ Inner'
  BY <1>1, CallContinues DEF CreateUserSucceeds, screen, LoginKinds
<1>3. doc' \in [User -> [Field -> Owner]]
  BY <1>1 DEF CreateUserSucceeds, IInv, StateOK, Basics, Owner
<1> QED
  BY <1>1, <1>2, <1>3
     DEF CreateUserSucceeds, IInv, Inner, StateOK, screen, Owner

LEMMA CreateUserFailsKeeps ==
  ASSUME NEW c \in calls PROVE IInv /\ CreateUserFails(c) => IInv'
<1> SUFFICES ASSUME IInv, CreateUserFails(c) PROVE IInv'
  OBVIOUS
<1> QED
  BY ReachesKeeps DEF CreateUserFails, IInv, Inner, StateOK, server

LEMMA SetDocSucceedsKeeps ==
  ASSUME NEW c \in calls PROVE IInv /\ SetDocSucceeds(c) => IInv'
<1> SUFFICES ASSUME IInv, SetDocSucceeds(c) PROVE IInv'
  OBVIOUS
<1>1. defaults' \in [Key -> Owner]
  BY CallFields DEF SetDocSucceeds, AfterSignUp, IInv, StateOK
<1> QED
  BY <1>1, ReachesKeeps DEF SetDocSucceeds, IInv, Inner, StateOK, server

LEMMA SetDocCutKeeps ==
  ASSUME NEW c \in calls PROVE IInv /\ SetDocCut(c) => IInv'
<1> SUFFICES ASSUME IInv, SetDocCut(c) PROVE IInv'
  OBVIOUS
<1>1. AfterSignUp(c.user) \in [Key -> Owner]
  BY CallFields DEF AfterSignUp, IInv, StateOK
<1> QED
  BY <1>1, CutKeeps DEF SetDocCut, IInv, StateOK

LEMMA SetDocFailsKeeps ==
  ASSUME NEW c \in calls PROVE IInv /\ SetDocFails(c) => IInv'
<1> SUFFICES ASSUME IInv, SetDocFails(c) PROVE IInv'
  OBVIOUS
<1>1. doc' \in [User -> [Field -> Owner]]
  BY DEF SetDocFails, IInv, StateOK, Missing, Owner
<1> QED
  BY <1>1, ReachesKeeps DEF SetDocFails, IInv, Inner, StateOK

-----------------------------------------------------------------------------
(* Signing out, and the refresh at launch.                                 *)

LEMMA EmptyType == Empty \in [Key -> Owner]
  BY DEF Empty, Owner

LEMMA SignOutKeeps == IInv /\ SignOut => IInv'
<1> SUFFICES ASSUME IInv, SignOut PROVE IInv'
  OBVIOUS
<1> DEFINE m == [kind |-> "signOut", user |-> currentUser, sheet |-> "none",
                 live |-> TRUE]
<1>1. /\ m \in Call /\ m.kind = "signOut" /\ m.sheet = "none"
  BY DEF IInv, StateOK, Call
<1>2. /\ calls' = calls \union {m}
      /\ profile = "signed" /\ sheet = "none" /\ currentUser' = NoUser
      /\ \A c \in calls : c.kind # "signOut"
      /\ UNCHANGED <<root, profile, sheet>>
  BY DEF SignOut, SigningOut, screen
<1> HIDE DEF m
<1>3. StateOK'
  BY <1>1, <1>2, EmptyType DEF SignOut, IInv, StateOK, server, screen, Owner
<1>4. OneSignOut' /\ SigningOut'
  BY <1>1, <1>2 DEF OneSignOut, SigningOut
<1>5. ASSUME NEW c \in calls' PROVE CallOK(c)'
  <2>1. CASE c = m
    BY <1>1, <1>2, <2>1 DEF CallOK
  <2>2. CASE c \in calls
    BY <1>2, <2>2, CallFields DEF CallOK, IInv
  <2> QED
    BY <1>2, <2>1, <2>2
<1> QED
  BY <1>2, <1>3, <1>4, <1>5 DEF IInv, HomeNeedsUser

LEMMA SignOutEndsKeeps ==
  ASSUME NEW c \in calls PROVE IInv /\ SignOutEnds(c) => IInv'
<1> SUFFICES ASSUME IInv, SignOutEnds(c) PROVE IInv'
  OBVIOUS
<1>1. /\ c.kind = "signOut" /\ profile = "signed"
      /\ calls' = calls \ {c}
      /\ UNCHANGED <<currentUser, sheet>>
  BY CallFields DEF SignOutEnds, CallOK
<1>2. StateOK'
  BY <1>1, EmptyType DEF SignOutEnds, IInv, StateOK, server
<1>3. \A d \in calls' : d.kind # "signOut" /\ CallOK(d)'
  BY <1>1 DEF IInv, OneSignOut, CallOK
<1> QED
  BY <1>1, <1>2, <1>3 DEF SignOutEnds, IInv, HomeNeedsUser, OneSignOut

LEMMA SignOutCutKeeps == IInv /\ SignOutCut => IInv'
BY CutKeeps, EmptyType DEF SignOutCut, Owner

LEMMA SignOutEndsCutKeeps ==
  ASSUME NEW c \in calls PROVE IInv /\ SignOutEndsCut(c) => IInv'
BY CutKeeps, EmptyType DEF SignOutEndsCut, IInv, StateOK

LEMMA AfterRefreshType ==
  ASSUME StateOK, NEW u \in User PROVE AfterRefresh(u) \in [Key -> Owner]
<1>1. ReadInOrder(RefreshReads, doc[u]) \subseteq Field
  BY DEF ReadInOrder, RefreshReads, Field
<1> QED
  BY <1>1 DEF AfterRefresh, StateOK, Owner

LEMMA RefreshCutKeeps ==
  ASSUME NEW c \in calls PROVE IInv /\ RefreshCut(c) => IInv'
<1> SUFFICES ASSUME IInv, RefreshCut(c) PROVE IInv'
  OBVIOUS
<1>1. AfterRefresh(c.user) \in [Key -> Owner]
  BY CallFields, AfterRefreshType DEF RefreshCut, IInv
<1> QED
  BY <1>1, CutKeeps DEF RefreshCut, IInv, StateOK

LEMMA RefreshStoresKeeps ==
  ASSUME NEW c \in calls PROVE IInv /\ RefreshStores(c) => IInv'
<1> SUFFICES ASSUME IInv, RefreshStores(c) PROVE IInv'
  OBVIOUS
<1>1. c.kind = "refresh" /\ c.user \in User
  BY CallFields DEF RefreshStores
<1>2. defaults' \in [Key -> Owner]
  BY <1>1, AfterRefreshType DEF RefreshStores, IInv
<1>3. CASE Trap
  BY <1>2, <1>3, StopKeeps DEF Trap, RefreshStores, IInv, Inner, StateOK, server
<1>4. CASE calls' = calls \ {c} /\ UNCHANGED screen
  <2>1. calls' \subseteq Call /\ Inner'
    BY <1>1, <1>4, CallsEnd DEF RefreshStores, screen
  <2> QED
    BY <1>2, <1>4, <2>1 DEF RefreshStores, IInv, Inner, StateOK, server, screen
<1> QED
  BY <1>3, <1>4 DEF RefreshStores

LEMMA RefreshFailsKeeps ==
  ASSUME NEW c \in calls PROVE IInv /\ RefreshFails(c) => IInv'
<1> SUFFICES ASSUME IInv, RefreshFails(c) PROVE IInv'
  OBVIOUS
<1>1. calls' \subseteq Call /\ Inner'
  BY CallsEnd DEF RefreshFails, screen
<1> QED
  BY <1>1 DEF RefreshFails, IInv, Inner, StateOK, server, screen

-----------------------------------------------------------------------------
(* The sheets that edit.                                                   *)

LEMMA WriteType ==
  ASSUME StateOK, NEW S \in SUBSET Field, NEW edit \in [S -> Owner], Write(edit)
  PROVE  defaults' \in [Key -> Owner] /\ doc' \in [User -> [Field -> Owner]]
<1>1. defaults' \in [Key -> Owner]
  BY DEF Write, StateOK, Key
<1>2. CASE UNCHANGED doc
  BY <1>1, <1>2 DEF StateOK
<1>3. CASE doc' = [doc EXCEPT ![currentUser] =
             [f \in Field |-> IF f \in DOMAIN edit THEN edit[f] ELSE @[f]]]
  BY <1>1, <1>3 DEF StateOK
<1> QED
  BY <1>2, <1>3 DEF Write

\* A sheet that closes on a reader's home, or traps.
LEMMA ClosingKeeps ==
  ASSUME IInv, sheet \in {"details", "interests", "settings"},
         Closed, UNCHANGED <<account, currentUser, root, profile, calls, launches>>,
         defaults' \in [Key -> Owner], doc' \in [User -> [Field -> Owner]]
  PROVE  IInv'
<1>1. draft' \in [Field -> Owner] /\ sheet' = "none"
  BY DEF Closed, Missing, Owner
<1>2. StateOK'
  BY <1>1 DEF IInv, StateOK
<1>3. \A c \in calls : CallOK(c)'
  BY <1>1 DEF IInv, CallOK
<1> QED
  BY <1>1, <1>2, <1>3 DEF IInv, HomeNeedsUser, SigningOut, OneSignOut

LEMMA FilledType ==
  ASSUME StateOK, NEW typed \in BOOLEAN
  PROVE  /\ Filled(typed) \in SUBSET Field
         /\ \A f \in Filled(typed) : Shown(typed, f) \in Owner
BY DEF Filled, Shown, StateOK, Field

LEMMA CloseDetailsKeeps ==
  ASSUME NEW typed \in BOOLEAN PROVE IInv /\ CloseDetails(typed) => IInv'
<1> SUFFICES ASSUME IInv, CloseDetails(typed) PROVE IInv'
  OBVIOUS
<1> DEFINE edit == [f \in Filled(typed) |-> Shown(typed, f)]
<1>1. Filled(typed) \in SUBSET Field /\ edit \in [Filled(typed) -> Owner]
  BY FilledType DEF IInv
<1>2. IF currentUser = NoUser THEN UNCHANGED <<defaults, doc>> ELSE Write(edit)
  BY DEF CloseDetails
<1> HIDE DEF edit
<1>3. defaults' \in [Key -> Owner] /\ doc' \in [User -> [Field -> Owner]]
  BY <1>1, <1>2, WriteType DEF IInv, StateOK
<1> QED
  BY <1>3, ClosingKeeps DEF CloseDetails

LEMMA DetailsCutKeeps ==
  ASSUME NEW typed \in BOOLEAN PROVE IInv /\ DetailsCut(typed) => IInv'
<1> SUFFICES ASSUME IInv, DetailsCut(typed) PROVE IInv'
  OBVIOUS
<1>1. [k \in Key |-> IF k \in Filled(typed) THEN Shown(typed, k)
                    ELSE defaults[k]] \in [Key -> Owner]
  BY FilledType DEF IInv, StateOK
<1> QED
  BY <1>1, CutKeeps DEF DetailsCut, IInv, StateOK

LEMMA CloseInterestsKeeps ==
  ASSUME NEW toggled \in BOOLEAN PROVE IInv /\ CloseInterests(toggled) => IInv'
<1> SUFFICES ASSUME IInv, CloseInterests(toggled) PROVE IInv'
  OBVIOUS
<1>1. CASE draft["interests"] = NoUser
  BY <1>1, ClosingKeeps DEF CloseInterests, IInv, StateOK
<1>2. CASE draft["interests"] # NoUser /\ currentUser = NoUser
  <2>1. defaults' \in [Key -> Owner]
    BY <1>2 DEF CloseInterests, IInv, StateOK, Key, Field
  <2> QED
    BY <1>2, <2>1, StopKeeps DEF Trap, CloseInterests, IInv, Inner, StateOK
<1>3. CASE draft["interests"] # NoUser /\ currentUser # NoUser
  <2> DEFINE edit == [f \in {"interests"} |->
                        IF toggled THEN currentUser ELSE draft[f]]
  <2>1. {"interests"} \in SUBSET Field /\ edit \in [{"interests"} -> Owner]
    BY DEF IInv, StateOK, Field
  <2>2. Write(edit)
    BY <1>3 DEF CloseInterests
  <2> HIDE DEF edit
  <2>3. defaults' \in [Key -> Owner] /\ doc' \in [User -> [Field -> Owner]]
    BY <2>1, <2>2, WriteType DEF IInv
  <2> QED
    BY <1>3, <2>3, ClosingKeeps DEF CloseInterests
<1> QED
  BY <1>1, <1>2, <1>3

LEMMA AfterSettingsType == ASSUME StateOK PROVE AfterSettings \in [Key -> Owner]
BY DEF AfterSettings, StateOK, Field

LEMMA CloseSettingsKeeps == IInv /\ CloseSettings => IInv'
BY AfterSettingsType, ClosingKeeps DEF CloseSettings, server, IInv, StateOK

LEMMA SettingsCutKeeps == IInv /\ SettingsCut => IInv'
BY AfterSettingsType, CutKeeps DEF SettingsCut, IInv, StateOK

-----------------------------------------------------------------------------
(* The theorems.                                                           *)

LEMMA StutterKeeps == IInv /\ UNCHANGED vars => IInv'
BY DEF IInv, vars, code, server, screen, StateOK, HomeNeedsUser, SigningOut,
       OneSignOut, CallOK

LEMMA StepKeeps == IInv /\ [Next]_vars => IInv'
<1> SUFFICES ASSUME IInv, [Next]_vars PROVE IInv'
  OBVIOUS
<1>1. CASE Kill \/ Launch \/ OpenProfile \/ PressSignIn \/ ShowSignUp \/ Dismiss
  BY <1>1, KillKeeps, LaunchKeeps, OpenProfileKeeps, PressSignInKeeps,
     ShowSignUpKeeps, DismissKeeps
<1>2. CASE Close
  BY <1>2, CloseDetailsKeeps, CloseInterestsKeeps, CloseSettingsKeeps DEF Close
<1>3. CASE Begin \/ SignOut \/ SignOutCut
  BY <1>3, PressLoginKeeps, SignOutKeeps, SignOutCutKeeps, OpenEditorKeeps
     DEF Begin
<1>4. CASE \E u \in User : PressNext(u)
  BY <1>4, PressNextKeeps
<1>5. ASSUME NEW c \in calls,
             LoginStep(c) \/ SignUpStep(c) \/ ProfileStep(c) \/ NoDocument(c)
      PROVE IInv'
  <2>1. CASE LoginStep(c)
    BY <2>1, SignInSucceedsKeeps, SignInFailsKeeps, LoginStoresKeeps,
       ExpandEndsKeeps DEF LoginStep
  <2>2. CASE SignUpStep(c)
    BY <2>2, CreateUserSucceedsKeeps, CreateUserFailsKeeps,
       SetDocSucceedsKeeps, SetDocFailsKeeps DEF SignUpStep
  <2>3. CASE ProfileStep(c)
    BY <2>3, RevertEndsKeeps, SignOutEndsKeeps, RefreshStoresKeeps
       DEF ProfileStep
  <2>4. CASE NoDocument(c)
    BY <2>4, LoginStuckKeeps, RefreshFailsKeeps DEF NoDocument
  <2> QED
    BY <1>5, <2>1, <2>2, <2>3, <2>4
<1>6. CASE CutShort
  BY <1>6, LoginCutKeeps, SetDocCutKeeps, RefreshCutKeeps, SignOutEndsCutKeeps,
     DetailsCutKeeps, SettingsCutKeeps DEF CutShort
<1>7. CASE UNCHANGED vars
  BY <1>7, StutterKeeps
<1> QED
  BY <1>1, <1>2, <1>3, <1>4, <1>5, <1>6, <1>7 DEF Next

(***************************************************************************)
(* AccountInvariant: the inductive invariant holds in every state.         *)
(***************************************************************************)
THEOREM AccountInvariant == Spec => []IInv
BY InitInvariant, StepKeeps, PTL DEF Spec

(***************************************************************************)
(* AccountTypes: every state is well typed.                                *)
(***************************************************************************)
THEOREM AccountTypes == Spec => []TypeOK
<1> DEFINE Judged == calm \in BOOLEAN /\ clean \in BOOLEAN
<1>1. Init => Judged
  BY DEF Init
<1>2. Judged /\ [Next]_vars => Judged'
  BY DEF Next, Patient, vars
<1>3. IInv /\ Judged => TypeOK
  BY DEF IInv, TypeOK
<1> HIDE DEF Judged
<1> QED
  BY <1>1, <1>2, <1>3, AccountInvariant, PTL DEF Spec

(***************************************************************************)
(* HomeHasUser: the home of a signed-in reader never shows without a user, *)
(* but for the animation of a sign-out (ProfileViewController.swift:114).  *)
(***************************************************************************)
THEOREM HomeHasUser == Spec => []HomeNeedsUser
<1>1. IInv => HomeNeedsUser
  BY DEF IInv
<1> QED
  BY <1>1, AccountInvariant, PTL

(***************************************************************************)
(* HangingLoginIsSignedIn: a login whose answer never comes belongs to     *)
(* somebody who is signed in (Authentication.swift:38-40).                 *)
(***************************************************************************)
THEOREM HangingLoginIsSignedIn == Spec => []SpinnerMeansSignedIn
<1>1. IInv => SpinnerMeansSignedIn
  BY DEF IInv, CallOK, SpinnerMeansSignedIn
<1> QED
  BY <1>1, AccountInvariant, PTL

-----------------------------------------------------------------------------
(* Account implements Session.                                             *)

\* While the app does not run, it waits for nothing and shows nothing.
Asleep == ~Running => calls = {} /\ profile = "none" /\ sheet = "none"

Session == [Promise!Next]_(Promise!svars)

LEMMA InitAsleep == Init => Asleep
BY DEF Init, Asleep, Running

LEMMA StepAsleep == Asleep /\ [Next]_vars => Asleep'
<1> SUFFICES ASSUME Asleep, [Next]_vars PROVE Asleep'
  OBVIOUS
<1> USE DEF Asleep, Running, screen, code
<1>1. ASSUME Stop("killed") \/ Trap PROVE Asleep'
  BY <1>1 DEF Stop, Trap
<1>2. ASSUME UNCHANGED screen, Running PROVE Asleep'
  BY <1>2
<1>3. CASE Kill \/ CutShort \/ SignOutCut
  BY <1>1, <1>3 DEF Kill, CutShort, LoginCut, SetDocCut, RefreshCut,
     SignOutEndsCut, DetailsCut, SettingsCut, SignOutCut, Cut
<1>4. CASE Launch \/ OpenProfile \/ PressSignIn \/ ShowSignUp \/ Dismiss
  BY <1>4 DEF Launch, OpenProfile, PressSignIn, ShowSignUp, Dismiss
<1>5. CASE Begin \/ SignOut \/ \E u \in User : PressNext(u)
  BY <1>5 DEF Begin, PressLogin, SignOut, OpenEditor, PressNext
<1>6. CASE Close
  <2>1. ASSUME NEW toggled \in BOOLEAN, CloseInterests(toggled) PROVE Asleep'
    BY <1>1, <2>1 DEF CloseInterests, Closed
  <2>2. ASSUME NEW typed \in BOOLEAN, CloseDetails(typed) PROVE Asleep'
    BY <2>2 DEF CloseDetails, Closed
  <2>3. CASE CloseSettings
    BY <2>3 DEF CloseSettings, Closed
  <2> QED
    BY <1>6, <2>1, <2>2, <2>3 DEF Close
<1>7. ASSUME NEW c \in calls,
             LoginStep(c) \/ SignUpStep(c) \/ ProfileStep(c) \/ NoDocument(c)
      PROVE  Asleep'
  <2>1. Running
    OBVIOUS
  <2>2. UNCHANGED screen \/ Trap \/ ExpandEnds(c) \/ SignOutEnds(c)
    BY <1>7 DEF LoginStep, SignUpStep, ProfileStep, NoDocument, SignInSucceeds,
         SignInFails, LoginStores, CreateUserSucceeds, CreateUserFails,
         SetDocSucceeds, SetDocFails, RevertEnds, RefreshStores, LoginStuck,
         RefreshFails, Reaches
  <2>3. CASE ExpandEnds(c) \/ SignOutEnds(c)
    BY <1>1, <2>3 DEF ExpandEnds, SignOutEnds
  <2> QED
    BY <1>1, <1>2, <2>1, <2>2, <2>3
<1>8. CASE UNCHANGED vars
  BY <1>8 DEF vars
<1> QED
  BY <1>3, <1>4, <1>5, <1>6, <1>7, <1>8 DEF Next

\* A step that neither signs in nor out nor changes the root screen.
LEMMA SameSession ==
  ASSUME UNCHANGED <<currentUser, root>>, SigningOut' <=> SigningOut
  PROVE  Session
BY DEF Session, Promise!svars, Home

\* The end of the process, from outside or by a trap.
LEMMA EndOfSession ==
  ASSUME Stop("killed") \/ Trap, UNCHANGED currentUser PROVE Session
<1>1. Home' = "off"
  BY DEF Stop, Trap, Home
<1> QED
  BY <1>1 DEF Session, Promise!svars, Promise!Next, Promise!End

\* An answer that only turns its call into another, takes it off, or traps.
LEMMA AnswerInSession ==
  ASSUME NEW c \in calls, c.kind # "signOut", UNCHANGED currentUser,
         \/ Trap
         \/ /\ UNCHANGED root
            /\ \/ calls' = calls \ {c}
               \/ \E kind \in {"stuck", "expand", "revert", "push"} :
                    Becomes(c, kind)
  PROVE  Session
<1>1. CASE Trap
  BY <1>1, EndOfSession
<1>2. CASE UNCHANGED root /\ calls' = calls \ {c}
  <2>1. SigningOut' <=> SigningOut
    BY <1>2 DEF SigningOut
  <2> QED
    BY <1>2, <2>1, SameSession
<1>3. ASSUME UNCHANGED root,
             NEW kind \in {"stuck", "expand", "revert", "push"}, Becomes(c, kind)
      PROVE  Session
  <2>1. [c EXCEPT !.kind = kind].kind = kind \/ [c EXCEPT !.kind = kind].kind = c.kind
    OBVIOUS
  <2>2. SigningOut' <=> SigningOut
    BY <1>3, <2>1 DEF SigningOut, Becomes
  <2> QED
    BY <1>3, <2>2, SameSession
<1> QED
  BY <1>1, <1>2, <1>3

LEMMA SignInRefines ==
  ASSUME IInv, Asleep, NEW c \in calls, SignInSucceeds(c) \/ CreateUserSucceeds(c)
  PROVE  Session
<1>1. PICK kind \in {"loginDoc", "setDoc"} : Becomes(c, kind)
  BY DEF SignInSucceeds, CreateUserSucceeds
<1>2. /\ c.kind \in {"signIn", "createUser"} /\ c.user \in User
      /\ currentUser' = c.user /\ UNCHANGED root
  BY DEF SignInSucceeds, CreateUserSucceeds, screen, IInv, CallOK
<1>3. [c EXCEPT !.kind = kind].kind # "signOut"
  BY DEF IInv, StateOK, Call
<1>4. SigningOut' <=> SigningOut
  BY <1>1, <1>2, <1>3 DEF SigningOut, Becomes
<1>5. Home' = Home /\ Home # "off"
  BY <1>2, <1>4 DEF Home, Asleep, Running
<1>6. Promise!SignIn(c.user)
  BY <1>2, <1>5 DEF Promise!SignIn
<1> QED
  BY <1>2, <1>6 DEF Session, Promise!Next

LEMMA ExpandRefines ==
  ASSUME IInv, Asleep, NEW c \in calls, ExpandEnds(c) PROVE Session
<1>1. CASE ~c.live
  BY <1>1, EndOfSession DEF ExpandEnds
<1>2. CASE c.live
  <2>1. /\ c.sheet = "login" /\ currentUser # NoUser /\ ~SigningOut
    BY <1>2 DEF ExpandEnds, IInv, CallOK, SigningOut
  <2>2. /\ root' = "logged" /\ UNCHANGED currentUser
        /\ calls' = {[d EXCEPT !.live = @ /\ d.sheet = "none"] :
                       d \in {e \in calls \ {c} : e.kind # "stuck"}}
    BY <1>2 DEF ExpandEnds
  <2>3. ~SigningOut'
    <3>1. \A d \in calls : [d EXCEPT !.live = @ /\ d.sheet = "none"].kind = d.kind
      BY DEF IInv, StateOK, Call
    <3>2. \A e \in calls' : \E d \in calls : e.kind = d.kind
      BY <2>2, <3>1
    <3> QED
      BY <2>1, <3>2 DEF SigningOut
  <2>4. Home' = "logged" /\ Home \in {"guest", "logged"}
    BY <2>1, <2>2, <2>3 DEF Home, Asleep, Running
  <2> QED
    BY <2>1, <2>2, <2>4 DEF Session, Promise!Next, Promise!Enter, Promise!svars
<1> QED
  BY <1>1, <1>2

LEMMA SignOutRefines == ASSUME Asleep, SignOut PROVE Session
<1>1. Running /\ ~SigningOut /\ currentUser' = NoUser /\ UNCHANGED root
  BY DEF SignOut, Asleep, screen
<1>2. SigningOut'
  <2> DEFINE c == [kind |-> "signOut", user |-> currentUser, sheet |-> "none",
                   live |-> TRUE]
  <2>1. c \in calls' /\ c.kind = "signOut"
    BY DEF SignOut
  <2> QED
    BY <2>1, Zenon DEF SigningOut
<1>3. Promise!SignOut
  BY <1>1, <1>2 DEF Promise!SignOut, Home, Running
<1> QED
  BY <1>3 DEF Session, Promise!Next

\* The end of the process inside a sign-out.
LEMMA SignOutCutRefines == ASSUME Asleep, SignOutCut PROVE Session
<1>1. Home \in {"guest", "logged"} /\ Home' = "off" /\ currentUser' = NoUser
  BY DEF SignOutCut, Cut, Stop, Home, Asleep, Running
<1> QED
  BY <1>1 DEF Session, Promise!Next, Promise!SignOutAndEnd

LEMMA SignOutEndsRefines ==
  ASSUME Asleep, NEW c \in calls, SignOutEnds(c) PROVE Session
<1>1. Running /\ SigningOut /\ root' = "guest" /\ UNCHANGED currentUser
  BY DEF SignOutEnds, Asleep, SigningOut
<1>2. Home' = "guest" /\ Home \in {"guest", "leaving"}
  BY <1>1 DEF Home, Running
<1> QED
  BY <1>1, <1>2 DEF Session, Promise!Next, Promise!Leave, Promise!svars

LEMMA LaunchRefines == ASSUME Launch PROVE Session
<1>1. ~SigningOut'
  BY DEF Launch, LaunchCalls, SigningOut
<1>2. /\ Home = "off" /\ UNCHANGED currentUser
      /\ Home' = IF currentUser = NoUser THEN "guest" ELSE "logged"
  BY <1>1 DEF Launch, Home, Running
<1> QED
  BY <1>2 DEF Session, Promise!Next, Promise!Start, Promise!FirstScreen

LEMMA StepRefines ==
  ASSUME IInv, Asleep, [Next]_vars PROVE Session
<1>1. CASE Kill \/ CutShort
  BY <1>1, EndOfSession DEF Kill, CutShort, LoginCut, SetDocCut, RefreshCut,
     SignOutEndsCut, DetailsCut, SettingsCut, Cut
<1>2. CASE Launch
  BY <1>2, LaunchRefines
<1>3. CASE OpenProfile \/ PressSignIn \/ ShowSignUp
  BY <1>3, SameSession DEF OpenProfile, PressSignIn, ShowSignUp, SigningOut
<1>4. CASE Dismiss
  <2>1. \A c \in calls : [c EXCEPT !.live = @ /\ c.sheet # sheet].kind = c.kind
    BY DEF IInv, StateOK, Call
  <2>2. calls' = {[c EXCEPT !.live = @ /\ c.sheet # sheet] :
                    c \in {d \in calls : ~(d.kind = "stuck" /\ d.sheet = sheet)}}
    BY <1>4 DEF Dismiss
  <2>3. \A e \in calls' : \E d \in calls : e.kind = d.kind
    BY <2>1, <2>2
  <2>4. \A d \in calls : d.kind = "signOut" => \E e \in calls' : e.kind = "signOut"
    BY <2>1, <2>2
  <2>5. SigningOut' <=> SigningOut
    BY <2>3, <2>4 DEF SigningOut
  <2> QED
    BY <1>4, <2>5, SameSession DEF Dismiss
<1>5. CASE Close
  <2>1. \/ Trap /\ UNCHANGED currentUser
        \/ UNCHANGED <<root, calls, currentUser>>
    BY <1>5 DEF Close, CloseDetails, CloseInterests, CloseSettings
  <2> QED
    BY <2>1, EndOfSession, SameSession DEF SigningOut
<1>6. CASE SignOut \/ SignOutCut
  BY <1>6, SignOutRefines, SignOutCutRefines
<1>7. ASSUME NEW u \in User, PressLogin(u) \/ PressNext(u) PROVE Session
  <2>1. SigningOut' <=> SigningOut
    BY <1>7 DEF PressLogin, PressNext, SigningOut
  <2> QED
    BY <1>7, <2>1, SameSession DEF PressLogin, PressNext, screen
<1>8. ASSUME NEW s, OpenEditor(s) PROVE Session
  BY <1>8, SameSession DEF OpenEditor, SigningOut
<1>9. ASSUME NEW c \in calls,
             LoginStep(c) \/ SignUpStep(c) \/ ProfileStep(c) \/ NoDocument(c)
      PROVE  Session
  <2>1. CASE SignInSucceeds(c) \/ CreateUserSucceeds(c)
    BY <2>1, SignInRefines
  <2>2. CASE ExpandEnds(c)
    BY <2>2, ExpandRefines
  <2>3. CASE SignOutEnds(c)
    BY <2>3, SignOutEndsRefines
  <2>4. CASE \/ SignInFails(c) \/ LoginStores(c) \/ CreateUserFails(c)
             \/ SetDocSucceeds(c) \/ SetDocFails(c)
    BY <2>4, AnswerInSession DEF SignInFails, LoginStores, CreateUserFails,
         SetDocSucceeds, SetDocFails, Reaches, screen
  <2>5. CASE RevertEnds(c) \/ RefreshStores(c) \/ LoginStuck(c) \/ RefreshFails(c)
    BY <2>5, AnswerInSession DEF RevertEnds, RefreshStores, LoginStuck,
         RefreshFails, screen
  <2> QED
    BY <1>9, <2>1, <2>2, <2>3, <2>4, <2>5
       DEF LoginStep, SignUpStep, ProfileStep, NoDocument
<1>10. CASE UNCHANGED vars
  BY <1>10, SameSession DEF vars, code, screen, SigningOut
<1> QED
  BY <1>1, <1>2, <1>3, <1>4, <1>5, <1>6, <1>7, <1>8, <1>9, <1>10 DEF Next, Begin

(***************************************************************************)
(* AccountImplementsSession: who is signed in and the screen that is up    *)
(* behave as Session promises, whatever the reader does and whenever       *)
(* answers come (SceneDelegate.swift:24-40).                               *)
(***************************************************************************)
THEOREM AccountImplementsSession == Spec => ImplementsSession
<1>1. Init => Promise!Init
  BY DEF Init, Promise!Init, Promise!FirstScreen, Home, SigningOut, LaunchCalls
<1>2. IInv /\ Asleep /\ [Next]_vars => Session
  BY StepRefines
<1> QED
  BY <1>1, <1>2, InitAsleep, StepAsleep, AccountInvariant, PTL
     DEF Spec, ImplementsSession, Promise!Spec, Session

(***************************************************************************)
(* What Session is worth to a screen: in every behaviour it allows, the    *)
(* home of a signed-in reader is up only for somebody who is signed in;    *)
(* under a sign-out's animation alone it may be up for nobody.             *)
(***************************************************************************)
THEOREM SessionHasUser ==
  Promise!Spec => [](Home = "logged" => currentUser # NoUser)
<1> DEFINE P == Home = "logged" => currentUser # NoUser
<1>1. Promise!Init => P
  BY DEF Promise!Init, Promise!FirstScreen
<1>2. P /\ [Promise!Next]_(Promise!svars) => P'
  <2> SUFFICES ASSUME P, [Promise!Next]_(Promise!svars) PROVE P'
    OBVIOUS
  <2>1. CASE UNCHANGED Promise!svars
    BY <2>1 DEF Promise!svars
  <2>2. ASSUME NEW u \in User, Promise!SignIn(u) PROVE P'
    BY <2>2, AccountAssumption DEF Promise!SignIn
  <2>3. CASE Promise!Enter \/ Promise!SignOut \/ Promise!Leave
    BY <2>3 DEF Promise!Enter, Promise!SignOut, Promise!Leave
  <2>4. CASE Promise!End \/ Promise!SignOutAndEnd \/ Promise!Start
    BY <2>4 DEF Promise!End, Promise!SignOutAndEnd, Promise!Start,
       Promise!FirstScreen
  <2> QED
    BY <2>1, <2>2, <2>3, <2>4 DEF Promise!Next
<1> QED
  BY <1>1, <1>2, PTL DEF Promise!Spec
=============================================================================

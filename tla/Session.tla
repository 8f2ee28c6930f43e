-------------------------------- MODULE Session --------------------------------
(***************************************************************************)
(* What the account component promises to the screens: the home of a       *)
(* signed-in reader is entered by a reader who is signed in and left by    *)
(* signing out; nothing but a sign-out forgets who is signed in; and the   *)
(* app starts with the screen of whoever was signed in when it ended,      *)
(* however it ended.                                                       *)
(***************************************************************************)
CONSTANTS User, NoUser

VARIABLES
  user,     \* who is signed in, kept over process starts; NoUser: nobody
  home      \* "guest", "logged", "leaving" (a sign-out's animation covers the
            \* home it leaves), "off" (the app does not run)

svars == <<user, home>>

FirstScreen(u) == IF u = NoUser THEN "guest" ELSE "logged"

Init == user \in User \union {NoUser} /\ home = FirstScreen(user)

\* A sign-in or a sign-up: it changes the user, not yet the screen.
SignIn(u) ==
  /\ home # "off"
  /\ user' = u
  /\ UNCHANGED home

Enter ==
  /\ home = "guest" /\ user # NoUser
  /\ home' = "logged"
  /\ UNCHANGED user

SignOut ==
  /\ home \in {"guest", "logged"}
  /\ user' = NoUser
  /\ home' = IF home = "logged" THEN "leaving" ELSE home

Leave ==
  /\ home = "leaving"
  /\ home' = "guest"
  /\ UNCHANGED user

\* The app ends, by a crash or from outside.
End ==
  /\ home # "off"
  /\ home' = "off"
  /\ UNCHANGED user

\* The app ends inside a sign-out, which already forgot the user.
SignOutAndEnd ==
  /\ home \in {"guest", "logged"}
  /\ user' = NoUser
  /\ home' = "off"

Start ==
  /\ home = "off"
  /\ home' = FirstScreen(user)
  /\ UNCHANGED user

Next ==
  \/ \E u \in User : SignIn(u)
  \/ Enter \/ SignOut \/ Leave
  \/ End \/ SignOutAndEnd \/ Start

Spec == Init /\ [][Next]_svars
=============================================================================

--------------------------- MODULE MCSavedScreens ---------------------------
(* Instances of SavedScreens for TLC.                                       *)
EXTENDS SavedScreens

CONSTANTS a, b

MCUrl == {a, b}
MCInitial == {[savedAt |-> 0, url |-> a]}
=============================================================================

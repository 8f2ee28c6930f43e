--------------------------- MODULE MCSavedArticles ---------------------------
(* Instances of SavedArticles for TLC.                                      *)
EXTENDS SavedArticles

CONSTANTS a, b

MCUrl == {a, b}
MCInitial == {[savedAt |-> 0, url |-> a]}
=============================================================================

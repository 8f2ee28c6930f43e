------------------------------ MODULE MCSearchFeed ------------------------------
(* Instances of SearchFeed for TLC.                                         *)
EXTENDS SearchFeed

CONSTANTS p, q

MCText == {p, q}
=============================================================================

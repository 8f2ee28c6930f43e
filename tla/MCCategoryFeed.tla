---------------------------- MODULE MCCategoryFeed ----------------------------
(* An instance of CategoryFeed for TLC.                                     *)
EXTENDS CategoryFeed, TLC

CONSTANTS business, sports

MCCategory == {business, sports}
MCSymmetry == Permutations(MCCategory)
=============================================================================

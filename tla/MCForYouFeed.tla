------------------------------ MODULE MCForYouFeed ------------------------------
(* Instances of ForYouFeed for TLC.                                         *)
EXTENDS ForYouFeed, TLC

CONSTANTS i, j, en, bg

MCInterest == {i, j}
MCLanguage == {en, bg}

\* Nothing tells one interest, or one language, from another.
MCSymmetry == Permutations(MCInterest) \union Permutations(MCLanguage)
=============================================================================

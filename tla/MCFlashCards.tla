------------------------------ MODULE MCFlashCards ------------------------------
(* Instances of FlashCards for TLC.                                         *)
EXTENDS FlashCards, TLC

CONSTANTS c1, c2

MCCountry == {c1, c2}

\* No definition tells one country from another.
CountrySymmetry == Permutations(MCCountry)
=============================================================================

------------------------------- MODULE MCAccount -------------------------------
(* Instances of Account for TLC.                                            *)
EXTENDS Account, TLC

CONSTANTS a, b

MCUser == {a, b}

\* Two calls in each process but the third, which follows two that ended.
MCCalls == [n \in 1..MaxLaunches |-> IF n = 3 THEN 1 ELSE 2]

\* Users differ in the state only: the initial accounts are any set of them.
MCSymmetry == Permutations(MCUser)
=============================================================================

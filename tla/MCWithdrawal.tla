---------------------------- MODULE MCWithdrawal ----------------------------
(* A small instance of Withdrawal for TLC: interchangeable presses. *)
EXTENDS Withdrawal, TLC

CONSTANTS c1, c2, c3

MCCalls == {c1, c2, c3}
MCTwoCalls == {c1, c2}

Symmetric == Permutations(MCCalls)
=============================================================================

----------------------------- MODULE MCDeposits -----------------------------
(* Small instances of Deposits for TLC. *)
EXTENDS Deposits, TLC

CONSTANTS h1, h2

HandlerSymmetry == Permutations(Handler)
=============================================================================

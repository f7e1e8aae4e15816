----------------------- MODULE MCInternalWithdrawals -----------------------
(* Small instances of InternalWithdrawals for TLC. *)
EXTENDS InternalWithdrawals, TLC

CONSTANTS m1, m2

MemoSymmetry == Permutations(Memo)
=============================================================================

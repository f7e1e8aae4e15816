------------------------ MODULE MCJettonWithdrawals ------------------------
(* Small instances of JettonWithdrawals for TLC. *)
EXTENDS JettonWithdrawals, TLC

CONSTANTS m1, m2

MemoSymmetry == Permutations(Memo)
=============================================================================

----------------------- MODULE MCExternalWithdrawals -----------------------
(* Small instances of ExternalWithdrawals for TLC. *)
EXTENDS ExternalWithdrawals, TLC

CONSTANTS m1, m2

MsgSymmetry == Permutations(Msg)
=============================================================================

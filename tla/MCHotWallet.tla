---------------------------- MODULE MCHotWallet ----------------------------
(* Amounts per currency for TLC. *)
EXTENDS HotWallet

MCMaxBalance == [c \in Currency |-> IF c = TonSymbol THEN 3 ELSE 1]
MCHotWalletMax == [c \in Currency |-> IF c = TonSymbol THEN 2 ELSE 0]
MCResidual == [c \in Currency |-> IF c = TonSymbol THEN 1 ELSE 0]
=============================================================================

--------------------------- MODULE JettonIncomes ---------------------------
(***************************************************************************)
(* How the block scanner finds the payments to a Jetton deposit: from the  *)
(* transfer notifications of its Jetton wallet, and, for payments without  *)
(* one, from the balance before and after the block.                       *)
(*                                                                         *)
(* The logical time (lt) of a transaction is its place in txs.  A block    *)
(* ends where the scanner reads it.                                        *)
(***************************************************************************)
EXTENDS Integers, SequencesExt

CONSTANTS
  Kind,       \* the kinds of transactions of the Jetton wallet that happen
  Amount,     \* amounts of Jettons in a transaction
  MaxTx       \* bound on the number of transactions

(* A payment with a transfer notification, a payment without one, a transfer  *)
(* from an address of the service, a transfer to the hot wallet, one to       *)
(* another address, a failed transfer, and anything else.                     *)
AllKinds ==
  {"notified", "silent", "own", "sweep", "service", "failed", "other"}

Parameters == Kind \subseteq AllKinds /\ Amount \subseteq Nat \ {0} /\ MaxTx \in Nat

ASSUME ParametersAssumption == Parameters

VARIABLES
  txs,          \* transactions of the Jetton wallet
  saved,        \* the number of transactions in saved blocks
  incomes,      \* rows of external_incomes
  withdrawals   \* the blocks' events of internal withdrawals, failed ones included

vars == <<txs, saved, incomes, withdrawals>>

Tx == [kind : AllKinds, amount : Amount]

Row == [lt : 1..MaxTx, amount : Nat]

Init == txs = <<>> /\ saved = 0 /\ incomes = <<>> /\ withdrawals = {}

Of(kinds, lts) == {lt \in lts : txs[lt].kind \in kinds}

Total(lts) == MapThenSumSet(LAMBDA lt : txs[lt].amount, lts)

\* The Jetton wallet's balance after the first n transactions (external).
GetJettonBalance(n) ==
  Total(Of({"notified", "silent", "own"}, 1..n)) - Total(Of({"sweep", "service"}, 1..n))

\* A transaction of the Jetton wallet; it cannot transfer more than it has (external).
AddTx(x) ==
  /\ Len(txs) < MaxTx
  /\ x.kind \in {"sweep", "service"} => x.amount =< GetJettonBalance(Len(txs))
  /\ txs' = Append(txs, x)
  /\ UNCHANGED <<saved, incomes, withdrawals>>

-----------------------------------------------------------------------------
(* The block scanner.  B is the set of the block's transactions. *)

\* Notifications of the deposit's owner whose sender is not an address of the
\* service.
Notified(B) == Of({"notified"}, B)

\* Transactions with an out message that is not a notification: a transfer's
\* message to the recipient's Jetton wallet, or the bounced one of a failure.
OutUnknown(B) == Of({"sweep", "service", "failed", "other"}, B)

\* Transactions whose in message is not a transfer: every incoming payment's
\* is not.
InUnknown(B) == Of(AllKinds \ {"sweep", "service", "failed"}, B)

UnknownTransactions(B) == OutUnknown(B) \cup InUnknown(B)

\* (mutant: only transfers to the hot wallet are added)
TotalWithdrawalsToHot(B) == Total(Of({"sweep"}, B))

\* Successful transfers, to whatever address.
TotalWithdrawals(B) == Total(Of({"sweep", "service"}, B))

UnknownIncomeAmount(B) ==
  GetJettonBalance(Len(txs)) - GetJettonBalance(saved) + TotalWithdrawals(B) - Total(Notified(B))

RowsOf(lts, amount(_)) ==
  LET s == SetToSeq(lts) IN [i \in 1..Len(s) |-> [lt |-> s[i], amount |-> amount(s[i])]]

\* (mutant: one row for all of the unknown transactions)
ConvertUnknownJettonTxsOneRow(U, a) ==
  IF U = {} THEN <<>> ELSE <<[lt |-> Min(U), amount |-> a]>>

\* (mutant: PrevTxLT instead of LT)
ConvertUnknownJettonTxsPrevLt(U, a) ==
  RowsOf(U, LAMBDA lt : 0) \o (IF U = {} THEN <<>> ELSE <<[lt |-> Min(U) - 1, amount |-> a]>>)

\* A row with no amount for every transaction, and one more row with the whole
\* amount for the first of them.
ConvertUnknownJettonTxs(U, a) ==
  RowsOf(U, LAMBDA lt : 0) \o (IF U = {} THEN <<>> ELSE <<[lt |-> Min(U), amount |-> a]>>)

UnknownRows(B) ==
  IF UnknownIncomeAmount(B) > 0
  THEN ConvertUnknownJettonTxs(UnknownTransactions(B), UnknownIncomeAmount(B))
  ELSE <<>>

ProcessJettonDepositWalletTXs ==
  /\ saved < Len(txs)
  /\ LET B == (saved + 1)..Len(txs)
     IN  /\ incomes' = incomes \o RowsOf(Notified(B), LAMBDA lt : txs[lt].amount) \o UnknownRows(B)
         /\ withdrawals' = withdrawals \cup Of({"sweep", "failed"}, B)
  /\ saved' = Len(txs)
  /\ UNCHANGED txs

Next == (\E k \in Kind, a \in Amount : AddTx([kind |-> k, amount |-> a])) \/ ProcessJettonDepositWalletTXs

Spec == Init /\ [][Next]_vars

-----------------------------------------------------------------------------
(* Properties. *)

\* Types of the chain and of the recorded rows.
TypeOK ==
  /\ txs \in Seq(Tx) /\ saved \in 0..Len(txs) /\ incomes \in Seq(Row)
  /\ withdrawals \subseteq 1..Len(txs)

Recorded == MapThenSumSet(LAMBDA i : incomes[i].amount, 1..Len(incomes))

\* The incomes that the scanner records are exactly the payments from outside,
\* in whatever company of other transactions they arrive in a block.
IncomesExact == Recorded = Total(Of({"notified", "silent"}, 1..saved))

\* Every payment is known to the query of the next withdrawal task: it has a
\* row with its own lt, although unknown amounts are put in one row.
EveryPaymentHasRow ==
  \A lt \in Of({"notified", "silent"}, 1..saved) : \E i \in 1..Len(incomes) : incomes[i].lt = lt
=============================================================================

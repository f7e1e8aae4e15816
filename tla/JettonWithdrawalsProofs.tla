---------------------- MODULE JettonWithdrawalsProofs ----------------------
(***************************************************************************)
(* The scanner stops only after a failed transfer that somebody else sent, *)
(* a deposit has one withdrawal under way, the amounts of                  *)
(* internal_withdrawals are those of the transfers and no payment is       *)
(* forgotten unless a balance was read too early, for every set of Jetton  *)
(* deposits and memos, batches of any size, and every timing that          *)
(* satisfies SafeTiming.                                                   *)
(*                                                                         *)
(* At the end, the payments that make a deposit's balance: the recorded    *)
(* incomes of JettonIncomes.                                               *)
(***************************************************************************)
EXTENDS JettonWithdrawals, Aggregates, SequencesExt, TLAPS

-----------------------------------------------------------------------------
(* The inductive invariant. *)

TypeInv ==
  /\ now \in Time
  /\ txs \in Seq(Tx) /\ balance \in [Deposit -> Nat] /\ head \in Time /\ blocks \subseteq Time
  /\ sent \subseteq SUBSET Memo /\ transit \subseteq Memo
  /\ incomes \subseteq 1..Len(txs) /\ lastBlock \in Time
  /\ rows \subseteq Memo /\ from \in [Memo -> Deposit] /\ since \in [Memo -> 0..Len(txs)]
  /\ exp \in [Memo -> Nat] /\ sending \in [Memo -> 0..Len(txs)]
  /\ finish \in [Memo -> 0..Len(txs)] /\ failed \subseteq rows /\ amount \in [Memo -> Nat]
  /\ wpc \in {"sync", "tasks", "build", "save"} /\ tasks \in [Deposit -> 0..Len(txs)]
  /\ batch \subseteq Memo /\ unsaved \subseteq batch /\ value \in [Memo -> Nat]
  /\ stale \subseteq Memo
  /\ epc \in {"sync", "expire"} /\ etime \in Time

\* The transactions of a withdrawal: the hot wallet's and the Jetton wallet's.
IsSending(lt, m) == txs[lt].kind = "sending" /\ m \in txs[lt].memos

IsEnd(lt, m) == txs[lt].kind \in {"transfer", "failed"} /\ m \in txs[lt].memos

Lts == 1..Len(txs)

\* Blocks keep their distance, transactions are in the order of blocks, and
\* each is in a saved block or in one the scanner will still meet.
ChainInv ==
  /\ head = lastBlock \/ head \in blocks
  /\ \A b \in blocks : lastBlock + BlockGap =< b /\ b =< head
  /\ \A b, c \in blocks : b < c => b + BlockGap =< c
  /\ \A lt \in Lts : txs[lt].at =< lastBlock \/ txs[lt].at \in blocks
  /\ \A k, l \in Lts : k < l => txs[k].at =< txs[l].at

\* Where a batch is: its rows are not in the table while it is built, and not
\* all before it is sent.
BatchInv ==
  /\ wpc \in {"sync", "tasks"} => batch = {}
  /\ wpc # "save" => unsaved = {} /\ batch \cap rows = {}
  /\ wpc = "save" => unsaved \cap rows = {} /\ batch \ unsaved \subseteq rows

\* A message on its way has rows and no transaction yet; no memo is in two.
SentInv ==
  /\ \A M \in sent : \A m \in M :
       m \in rows \ batch /\ m \notin transit /\ \A lt \in Lts : ~IsSending(lt, m) /\ ~IsEnd(lt, m)
  /\ \A M, N \in sent : M # N => M \cap N = {}

\* A transfer on its way has left the hot wallet and has not ended.
TransitInv ==
  \A m \in transit :
    /\ m \in rows \ batch
    /\ \E lt \in Lts : IsSending(lt, m)
    /\ \A lt \in Lts : ~IsEnd(lt, m)

\* The hot wallet sends for a memo once, before the message expires, and the
\* Jetton wallet ends it once, afterwards.
SendingInv ==
  /\ \A lt \in Lts, m \in Memo : IsSending(lt, m) => m \in rows \ batch /\ txs[lt].at =< exp[m]
  /\ \A k, l \in Lts, m \in Memo : IsSending(k, m) /\ IsSending(l, m) => k = l

EndInv ==
  /\ \A lt \in Lts, m \in Memo : IsEnd(lt, m) => \E k \in Lts : k < lt /\ IsSending(k, m)
  /\ \A k, l \in Lts, m \in Memo : IsEnd(k, m) /\ IsEnd(l, m) => k = l

\* The columns sending_lt and finish_lt say what the saved blocks contain.
ColumnInv ==
  \A m \in Memo :
    /\ sending[m] # 0 <=> \E lt \in Saved("sending") : m \in txs[lt].memos
    /\ finish[m] # 0 <=> \E lt \in Saved("transfer") : m \in txs[lt].memos

\* m has ended in a saved block, or was given up when no block after the last
\* saved one could execute its message.
Over(m) ==
  \/ \E lt \in Lts : IsEnd(lt, m) /\ txs[lt].at =< lastBlock
  \/ /\ \A lt \in Lts : ~IsSending(lt, m)
     /\ exp[m] < lastBlock + BlockGap

\* A failed withdrawal is over, as long as the failed transfers are the
\* service's own.
FailedInv ==
  /\ epc = "expire" => etime - lastBlock < Lag
  /\ Undisturbed => \A m \in failed : Over(m)

\* The withdrawal under way is the newest of its deposit.
LastInv ==
  \A m, n \in rows \ failed :
    m # n /\ from[m] = from[n] /\ finish[m] = 0 => since[n] < since[m]

\* A deposit d can get a new row with this lt.
Free(d, lt) == \A n \in rows \ failed : from[n] = d => finish[n] # 0 /\ since[n] < lt

\* A task stays valid until its row is in the table, though other rows of the
\* batch are saved before.
TaskInv ==
  /\ \A d \in Deposit : tasks[d] # 0 => Free(d, tasks[d]) /\ \A m \in batch : from[m] # d
  /\ \A m \in batch \ rows : Free(from[m], since[m])
  /\ \A m, n \in batch : from[m] = from[n] => m = n

IInv ==
  /\ TypeInv /\ ChainInv /\ BatchInv /\ SentInv /\ TransitInv /\ SendingInv /\ EndInv
  /\ ColumnInv /\ FailedInv /\ LastInv /\ TaskInv /\ AmountsAgree /\ NoOwnFatal

-----------------------------------------------------------------------------
(* Lemmas about the operators. *)

\* A deposit with a withdrawal that is not failed has a newest one.
LEMMA LastExists ==
  ASSUME TypeInv, NEW d \in Deposit, NEW n \in rows \ failed, from[n] = d
  PROVE  LastWithdrawals(d) # {}
PROOF
  <1> DEFINE W == {m \in rows \ failed : from[m] = d}
             S == {since[m] : m \in W}
  <1>1. Len(txs) \in Nat
    BY DEF TypeInv
  <1>2. S \in SUBSET (0..Len(txs)) /\ S # {}
    <2>1. n \in W
      OBVIOUS
    <2>2. \A m \in W : since[m] \in 0..Len(txs)
      BY DEF TypeInv
    <2> HIDE DEF W
    <2> QED BY <2>1, <2>2
  <1>3. Max(S) \in S /\ \A x \in S : x =< Max(S)
    <2> HIDE DEF S
    <2> QED BY <1>1, <1>2, MaxOfBounded
  <1>4. PICK m \in W : since[m] = Max(S)
    BY <1>3
  <1>5. \A k \in W : since[k] =< since[m]
    BY <1>3, <1>4
  <1> QED BY <1>5 DEF LastWithdrawals

\* A transaction has the time of its block and concerns memos.
LEMMA TxType ==
  ASSUME TypeInv, NEW lt \in Lts
  PROVE  /\ txs[lt].at \in Nat /\ txs[lt].memos \subseteq Memo /\ lt \in Nat
         /\ txs[lt].left \in [Deposit -> Nat]
PROOF
  <1>1. txs \in Seq(Tx) /\ lt \in 1..Len(txs)
    BY DEF TypeInv, Lts
  <1>2. txs[lt] \in Tx
    BY <1>1
  <1>3. txs[lt].at \in Time /\ txs[lt].memos \in SUBSET Memo /\ txs[lt].left \in [Deposit -> Nat]
    BY <1>2 DEF Tx
  <1>4. Time \subseteq Nat /\ lt \in Nat
    BY <1>1, TimeAssumption DEF Time
  <1> QED BY <1>3, <1>4

\* The lt that a block gives to a withdrawal is that of one of its transactions.
LEMMA NewLtType ==
  ASSUME TypeInv, NEW b, NEW kind, NEW m \in Concerned(b, kind), NEW old
  PROVE  NewLt(b, kind, m, old) \in Events(b, kind, m)
PROOF
  <1>1. Events(b, kind, m) \in SUBSET (0..Len(txs)) /\ Events(b, kind, m) # {}
    BY DEF Events, BlockTxs, Concerned
  <1>2. Len(txs) \in Nat
    BY DEF TypeInv
  <1> QED BY <1>1, <1>2, MaxOfBounded DEF NewLt

\* The memos that a block's transactions of a kind concern.
LEMMA ConcernedIff ==
  ASSUME NEW b, NEW kind, NEW m
  PROVE  m \in Concerned(b, kind)
           <=> m \in Memo /\ \E lt \in Lts : txs[lt].at = b /\ txs[lt].kind = kind /\ m \in txs[lt].memos
PROOF BY DEF Concerned, Events, BlockTxs, Lts

LEMMA SavedIff ==
  ASSUME NEW lt, NEW kind
  PROVE  lt \in Saved(kind) <=> lt \in Lts /\ txs[lt].kind = kind /\ txs[lt].at =< lastBlock
PROOF BY DEF Saved, Lts

\* A new transaction has the next lt and changes no other.
LEMMA AppendEvents ==
  ASSUME TypeInv, NEW x \in Tx, txs' = Append(txs, x)
  PROVE  /\ txs' \in Seq(Tx) /\ Len(txs) \in Nat /\ Len(txs') = Len(txs) + 1
         /\ Lts' = Lts \cup {Len(txs')} /\ Len(txs') \notin Lts /\ Lts \subseteq Nat
         /\ \A lt \in Lts : txs'[lt] = txs[lt] /\ lt < Len(txs')
         /\ txs'[Len(txs')] = x
         /\ \A lt \in Lts, m \in Memo :
              (IsSending(lt, m)' <=> IsSending(lt, m)) /\ (IsEnd(lt, m)' <=> IsEnd(lt, m))
         /\ \A n, m : n = Len(txs') =>
              /\ IsSending(n, m)' <=> x.kind = "sending" /\ m \in x.memos
              /\ IsEnd(n, m)' <=> x.kind \in {"transfer", "failed"} /\ m \in x.memos
         /\ Undisturbed' => Undisturbed
PROOF
  <1>1. /\ txs' \in Seq(Tx) /\ Len(txs) \in Nat /\ Len(txs') = Len(txs) + 1
        /\ \A lt \in 1..Len(txs) : txs'[lt] = txs[lt]
        /\ txs'[Len(txs')] = x
    BY DEF TypeInv
  <1>2. Lts' = Lts \cup {Len(txs')} /\ Len(txs') \notin Lts /\ Lts \subseteq Nat
    BY <1>1 DEF Lts
  <1>3. \A lt \in Lts : txs'[lt] = txs[lt] /\ lt < Len(txs')
    BY <1>1 DEF Lts
  <1>4. \A lt \in Lts, m \in Memo :
          (IsSending(lt, m)' <=> IsSending(lt, m)) /\ (IsEnd(lt, m)' <=> IsEnd(lt, m))
    BY <1>3 DEF IsSending, IsEnd
  <1>5. \A n, m : n = Len(txs') =>
          /\ IsSending(n, m)' <=> x.kind = "sending" /\ m \in x.memos
          /\ IsEnd(n, m)' <=> x.kind \in {"transfer", "failed"} /\ m \in x.memos
    BY <1>1 DEF IsSending, IsEnd
  <1>6. Undisturbed' => Undisturbed
    BY <1>2, <1>3 DEF Undisturbed, Lts
  <1> QED BY <1>1, <1>2, <1>3, <1>4, <1>5, <1>6

-----------------------------------------------------------------------------
(* Types, whatever the timing. *)

\* A new transaction makes room for one more lt.
LEMMA AddTxType ==
  ASSUME TypeInv, NEW kind \in {"payment", "sending", "transfer", "failed", "foreign"}, NEW d \in Deposit,
         NEW M \in SUBSET Memo, NEW left \in [Deposit -> Nat], AddTx(kind, d, M, left),
         sent' \subseteq SUBSET Memo, transit' \subseteq Memo
  PROVE  TypeInv'
PROOF
  <1> DEFINE x == [kind |-> kind, dep |-> d, memos |-> M, at |-> head, left |-> left]
  <1> USE DEF table, processor, expirer
  <1>1. x \in Tx
    BY DEF Tx, TypeInv
  <1>2. txs' \in Seq(Tx) /\ Len(txs) \in Nat /\ Len(txs') = Len(txs) + 1
    BY <1>1, AppendEvents DEF AddTx
  <1>3. 0..Len(txs) \subseteq 0..Len(txs') /\ 1..Len(txs) \subseteq 1..Len(txs')
    BY <1>2
  <1>4. /\ since \in [Memo -> 0..Len(txs')] /\ sending \in [Memo -> 0..Len(txs')]
        /\ finish \in [Memo -> 0..Len(txs')] /\ tasks \in [Deposit -> 0..Len(txs')]
    BY <1>3 DEF TypeInv
  <1>5. incomes \subseteq 1..Len(txs')
    BY <1>3 DEF TypeInv
  <1>6. UNCHANGED <<head, blocks, now, incomes, lastBlock, table, processor, expirer>> /\ balance' = left
    BY DEF AddTx
  <1> QED BY <1>2, <1>4, <1>5, <1>6 DEF TypeInv

LEMMA VolatileType ==
  ASSUME TypeInv, Volatile
  PROVE  /\ since' \in [Memo -> 0..Len(txs)] /\ exp' \in [Memo -> Nat] /\ value' \in [Memo -> Nat]
         /\ tasks' \in [Deposit -> 0..Len(txs)] /\ wpc' = "sync" /\ epc' = "sync"
         /\ batch' = {} /\ unsaved' = {} /\ etime' \in Time /\ stale' \subseteq Memo
PROOF
  <1>1. 0 \in 0..Len(txs) /\ 0 \in Time
    BY TimeAssumption DEF TypeInv, Time
  <1> QED BY <1>1 DEF Volatile, Kept, NoTasks, TypeInv

\* An income that makes a task has an lt.
LEMMA TaskType ==
  ASSUME TypeInv, NEW d \in Deposit, UnsweptIncomes(d) # {}
  PROVE  Max(UnsweptIncomes(d)) \in UnsweptIncomes(d) /\ Max(UnsweptIncomes(d)) \in 1..Len(txs)
PROOF
  <1>1. Len(txs) \in Nat
    BY DEF TypeInv
  <1>2. UnsweptIncomes(d) \subseteq 1..Len(txs)
    BY DEF UnsweptIncomes, TypeInv
  <1>3. UnsweptIncomes(d) \in SUBSET (0..Len(txs))
    BY <1>1, <1>2
  <1>4. Max(UnsweptIncomes(d)) \in UnsweptIncomes(d)
    BY <1>1, <1>3, MaxOfBounded
  <1> QED BY <1>2, <1>4

\* The node answers a natural number.
LEMMA BalanceType ==
  ASSUME TypeInv, NEW d \in Deposit, NEW n \in 0..Len(txs)
  PROVE  GetLastJettonBalance(n, d) \in Nat
PROOF
  <1>1. CASE n = 0
    BY <1>1 DEF GetLastJettonBalance
  <1>2. CASE n # 0
    <2>1. n \in Lts
      BY <1>2 DEF Lts, TypeInv
    <2>2. txs[n].left \in [Deposit -> Nat]
      BY <2>1, TxType
    <2> QED BY <1>2, <2>2 DEF GetLastJettonBalance
  <1> QED BY <1>1, <1>2

LEMMA TypeNext ==
  ASSUME TypeInv, [Next]_vars
  PROVE  TypeInv'
PROOF
  <1>0. Len(txs) \in Nat /\ 0 \in 0..Len(txs)
    BY DEF TypeInv
  <1> USE TimeAssumption
  <1>1. CASE Tick
    BY <1>1 DEF Tick, chain, table, processor, expirer, TypeInv, Time
  <1>2. ASSUME NEW t \in Time, NewBlock(t) PROVE TypeInv'
    BY <1>2 DEF NewBlock, table, processor, expirer, TypeInv
  <1>3. ASSUME NEW d \in Deposit, Pay(d) PROVE TypeInv'
    <2>1. [balance EXCEPT ![d] = @ + 1] \in [Deposit -> Nat]
      BY DEF TypeInv
    <2>2. sent' \subseteq SUBSET Memo /\ transit' \subseteq Memo
      BY <1>3 DEF Pay, TypeInv
    <2> QED BY <1>3, <2>1, <2>2, AddTxType DEF Pay
  <1>4. ASSUME NEW M \in sent, NEW S \in SUBSET M, ExecuteBatch(M, S) PROVE TypeInv'
    <2>1. balance \in [Deposit -> Nat] /\ sent' \subseteq SUBSET Memo /\ transit' \subseteq Memo
      BY <1>4 DEF ExecuteBatch, TypeInv
    <2>2. (CHOOSE d \in Deposit : TRUE) \in Deposit /\ S \in SUBSET Memo
      BY SetAssumption DEF TypeInv
    <2>3. AddTx("sending", CHOOSE d \in Deposit : TRUE, S, balance)
      BY <1>4 DEF ExecuteBatch
    <2> QED BY <2>1, <2>2, <2>3, AddTxType
  <1>5. ASSUME NEW m \in Memo, Transfer(m) PROVE TypeInv'
    <2>1. /\ from[m] \in Deposit /\ value[m] \in Nat /\ balance \in [Deposit -> Nat]
          /\ balance[from[m]] \in Nat
      BY DEF TypeInv
    <2>2. PICK k \in {"transfer", "failed"}, left \in [Deposit -> Nat] : AddTx(k, from[m], {m}, left)
      <3>1. CASE /\ value[m] =< balance[from[m]]
                 /\ AddTx("transfer", from[m], {m}, [balance EXCEPT ![from[m]] = @ - value[m]])
        <4>1. balance[from[m]] - value[m] \in Nat
          BY <2>1, <3>1
        <4>2. [balance EXCEPT ![from[m]] = @ - value[m]] \in [Deposit -> Nat]
          BY <2>1, <4>1
        <4> QED BY <3>1, <4>2
      <3>2. CASE AddTx("failed", from[m], {m}, balance)
        BY <2>1, <3>2
      <3> QED BY <1>5, <3>1, <3>2 DEF Transfer
    <2>3. sent' \subseteq SUBSET Memo /\ transit' \subseteq Memo
      BY <1>5 DEF Transfer, TypeInv
    <2> QED BY <2>1, <2>2, <2>3, AddTxType
  <1>18. ASSUME NEW d \in Deposit, NEW M \in SUBSET Memo, ForeignTransfer(d, M) PROVE TypeInv'
    <2>1. balance \in [Deposit -> Nat] /\ sent' \subseteq SUBSET Memo /\ transit' \subseteq Memo
      BY <1>18 DEF ForeignTransfer, TypeInv
    <2> QED BY <1>18, <2>1, AddTxType DEF ForeignTransfer
  <1>6. CASE WithdrawalsWaitSync
    BY <1>6 DEF WithdrawalsWaitSync, chain, table, expirer, TypeInv
  <1>7. CASE GetJettonInternalWithdrawalTasks
    <2>1. tasks' \in [Deposit -> 0..Len(txs)]
      BY <1>0, <1>7, TaskType DEF GetJettonInternalWithdrawalTasks
    <2> QED BY <1>7, <2>1 DEF GetJettonInternalWithdrawalTasks, chain, table, expirer, TypeInv
  <1>8. ASSUME NEW d \in Deposit, SkipTask(d) PROVE TypeInv'
    <2>1. tasks' \in [Deposit -> 0..Len(txs)]
      BY <1>0, <1>8 DEF SkipTask, TypeInv
    <2> QED BY <1>8, <2>1 DEF SkipTask, chain, table, expirer, TypeInv
  <1>9. ASSUME NEW d \in Deposit, NEW m \in Memo, NEW n \in 0..Len(txs),
               BuildJettonInternalWithdrawalMessage(d, m, n)
        PROVE  TypeInv'
    <2> USE <1>9 DEF BuildJettonInternalWithdrawalMessage, chain, expirer
    <2>1. tasks[d] \in 0..Len(txs) /\ GetLastJettonBalance(n, d) \in Nat
      BY BalanceType DEF TypeInv
    <2>2. since' \in [Memo -> 0..Len(txs)] /\ from' \in [Memo -> Deposit] /\ value' \in [Memo -> Nat]
      BY <2>1 DEF TypeInv
    <2>3. tasks' \in [Deposit -> 0..Len(txs)]
      BY <1>0 DEF TypeInv
    <2>4. unsaved' \subseteq batch' /\ batch' \subseteq Memo /\ stale' \subseteq Memo
      BY DEF TypeInv
    <2> QED BY <2>2, <2>3, <2>4 DEF TypeInv
  <1>10. CASE BuildExternalMessage
    <2> USE <1>10 DEF BuildExternalMessage, chain, expirer
    <2>1. now + Lifetime \in Nat
      BY DEF TypeInv, Time
    <2>2. exp' \in [Memo -> Nat]
      BY <2>1 DEF TypeInv
    <2>3. wpc' \in {"sync", "tasks", "build", "save"} /\ unsaved' \subseteq batch'
      BY DEF TypeInv
    <2> QED BY <2>2, <2>3 DEF TypeInv
  <1>11. ASSUME NEW m \in Memo, SaveInternalWithdrawalTask(m) PROVE TypeInv'
    BY <1>11 DEF SaveInternalWithdrawalTask, chain, expirer, TypeInv
  <1>12. CASE SendExternalMessage
    BY <1>12 DEF SendExternalMessage, table, expirer, TypeInv
  <1>13. CASE ExpirationWaitSync
    BY <1>13 DEF ExpirationWaitSync, chain, table, processor, TypeInv
  <1>14. CASE SetExpired
    BY <1>14 DEF SetExpired, ExpiredRows, chain, processor, TypeInv, Time
  <1>15. ASSUME NEW b \in Time, NEW order \in Orders, SaveParsedBlockData(b, order) PROVE TypeInv'
    <2>1. CASE ~Impossible(b, order)
      <3>1. /\ incomes' = incomes \cup BlockTxs(b, "payment")
            /\ sending' = [m \in Memo |-> NewLt(b, "sending", m, sending[m])]
            /\ finish' = [m \in Memo |-> NewLt(b, "transfer", m, finish[m])]
            /\ amount' = [m \in Memo |-> IF m \in Succeeded(b) THEN amount[m] + value[m] ELSE amount[m]]
            /\ failed' = failed \cup {m \in Memo : Failures(b, m) # {}}
            /\ lastBlock' = b /\ blocks' = blocks \ {b}
            /\ UNCHANGED <<rows, from, since, exp, processor, expirer, now, txs, balance, head, sent, transit>>
        BY <1>15, <2>1 DEF SaveParsedBlockData
      <3>2. \A kind, m, old : NewLt(b, kind, m, old) = old \/ NewLt(b, kind, m, old) \in 0..Len(txs)
        <4>1. \A kind, m, old : m \in Concerned(b, kind) => NewLt(b, kind, m, old) \in 0..Len(txs)
          BY NewLtType DEF Events, BlockTxs
        <4> QED BY <4>1 DEF NewLt
      <3>3. finish' \in [Memo -> 0..Len(txs)] /\ sending' \in [Memo -> 0..Len(txs)]
        BY <3>1, <3>2 DEF TypeInv
      <3>4. incomes' \subseteq 1..Len(txs)
        BY <3>1 DEF TypeInv, BlockTxs
      <3>5. amount' \in [Memo -> Nat]
        <4>1. \A m \in Memo : amount[m] \in Nat /\ amount[m] + value[m] \in Nat
          BY DEF TypeInv
        <4> QED BY <3>1, <4>1
      <3>6. failed' \subseteq rows /\ blocks' \subseteq Time
        <4>1. \A m \in Memo : Failures(b, m) # {} => m \in rows
          BY <2>1 DEF Impossible, Ends
        <4> QED BY <3>1, <4>1 DEF TypeInv
      <3> QED BY <3>1, <3>3, <3>4, <3>5, <3>6 DEF TypeInv, processor, expirer
    <2>2. CASE Impossible(b, order)
      <3>1. /\ Volatile
            /\ UNCHANGED <<rows, from, sending, finish, failed, amount, incomes, lastBlock, blocks,
                           now, txs, balance, head, sent, transit>>
        BY <1>15, <2>2 DEF SaveParsedBlockData
      <3> QED BY <3>1, VolatileType DEF TypeInv
    <2> QED BY <2>1, <2>2
  <1>16. CASE Restart
    <2>1. Volatile /\ UNCHANGED <<rows, from, sending, finish, failed, amount, now, chain, incomes, lastBlock>>
      BY <1>16 DEF Restart
    <2> QED BY <2>1, VolatileType DEF TypeInv, chain
  <1>17. CASE UNCHANGED vars
    BY <1>17 DEF vars, chain, table, processor, expirer, TypeInv
  <1> QED BY <1>1, <1>2, <1>3, <1>4, <1>5, <1>6, <1>7, <1>8, <1>9, <1>10, <1>11, <1>12, <1>13, <1>14,
             <1>15, <1>16, <1>17, <1>18 DEF Next

-----------------------------------------------------------------------------
(* The initial state, and the steps that leave most of the state alone. *)

LEMMA InitIInv ==
  ASSUME Init
  PROVE  IInv
PROOF
  <1> USE TimeAssumption, SetAssumption DEF Init
  <1>1. TypeInv
    BY DEF TypeInv, Time, NoTasks, Tx
  <1>2. Lts = {}
    BY DEF Lts
  <1>3. ChainInv /\ BatchInv /\ SentInv /\ TransitInv /\ SendingInv /\ EndInv /\ FailedInv
    BY <1>2 DEF ChainInv, BatchInv, SentInv, TransitInv, SendingInv, EndInv, FailedInv
  <1>4. \A kind : Saved(kind) = {}
    BY <1>2, SavedIff
  <1>5. ColumnInv /\ AmountsAgree
    BY <1>4 DEF ColumnInv, AmountsAgree
  <1>6. LastInv /\ TaskInv /\ NoOwnFatal
    BY DEF LastInv, TaskInv, NoTasks, Free, NoOwnFatal
  <1> QED BY <1>1, <1>3, <1>5, <1>6 DEF IInv

\* Nothing but the clocks, the counters of the goroutines and the list of
\* tasks changes.
LEMMA QuietIInv ==
  ASSUME IInv, TypeInv', UNCHANGED <<chain, incomes, lastBlock, table, batch, unsaved, value, fatal>>,
         epc' = "expire" => etime' - lastBlock < Lag,
         wpc' = wpc \/ (batch = {} /\ wpc' # "save" /\ wpc # "save"),
         \A d \in Deposit : tasks'[d] # 0 => Free(d, tasks'[d]) /\ \A m \in batch : from[m] # d
  PROVE  IInv'
PROOF
  <1> USE DEF IInv, chain, table
  <1>1. (ChainInv /\ SentInv /\ TransitInv /\ SendingInv /\ EndInv)'
    BY DEF ChainInv, SentInv, TransitInv, SendingInv, EndInv, IsSending, IsEnd, Lts
  <1>2. BatchInv'
    BY DEF BatchInv
  <1>3. (ColumnInv /\ AmountsAgree)'
    BY DEF ColumnInv, AmountsAgree, Saved
  <1>4. FailedInv'
    BY DEF FailedInv, Over, IsSending, IsEnd, Lts, Undisturbed
  <1>5. (LastInv /\ TaskInv)'
    BY DEF LastInv, TaskInv, Free
  <1>6. NoOwnFatal'
    BY DEF NoOwnFatal, Undisturbed
  <1> QED BY <1>1, <1>2, <1>3, <1>4, <1>5, <1>6

LEMMA TickIInv ==
  ASSUME IInv, TypeInv', Tick
  PROVE  IInv'
PROOF
  <1>1. /\ UNCHANGED <<chain, incomes, lastBlock, table, batch, unsaved, value, fatal>>
        /\ UNCHANGED <<wpc, tasks, epc, etime>>
    BY DEF Tick, processor, expirer
  <1> QED BY <1>1, QuietIInv DEF IInv, FailedInv, TaskInv

LEMMA ProcessorQuietIInv ==
  ASSUME IInv, TypeInv', WithdrawalsWaitSync \/ \E d \in Deposit : SkipTask(d)
  PROVE  IInv'
PROOF
  <1> USE DEF IInv, WithdrawalsWaitSync, SkipTask
  <1>1. /\ UNCHANGED <<chain, incomes, lastBlock, table, batch, unsaved, value, fatal>>
        /\ UNCHANGED <<now, epc, etime>>
    BY DEF expirer
  <1>2. wpc' = wpc \/ (batch = {} /\ wpc' # "save" /\ wpc # "save")
    BY DEF BatchInv
  <1>3. \A d \in Deposit : tasks'[d] = tasks[d] \/ tasks'[d] = 0
    BY DEF TypeInv
  <1>4. \A d \in Deposit : tasks'[d] # 0 => Free(d, tasks'[d]) /\ \A m \in batch : from[m] # d
    BY <1>3 DEF TaskInv
  <1> HIDE DEF WithdrawalsWaitSync, SkipTask
  <1> QED BY <1>1, <1>2, <1>4, QuietIInv DEF FailedInv

\* The query returns a deposit only when its newest withdrawal is finished,
\* and with a payment newer than the one that caused it.
LEMMA GetTasksIInv ==
  ASSUME IInv, TypeInv', GetJettonInternalWithdrawalTasks
  PROVE  IInv'
PROOF
  <1> USE DEF IInv
  <1>0. Len(txs) \in Nat
    BY DEF TypeInv
  <1>1. \A d \in Deposit : tasks'[d] \in 0..Len(txs) /\ (tasks'[d] # 0 => tasks'[d] \in UnsweptIncomes(d))
    BY <1>0, TaskType DEF GetJettonInternalWithdrawalTasks
  <1>2. batch = {} /\ wpc # "save"
    BY DEF GetJettonInternalWithdrawalTasks, BatchInv
  <1>3. ASSUME NEW d \in Deposit, tasks'[d] # 0 PROVE Free(d, tasks'[d])
    <2> SUFFICES ASSUME NEW n \in rows \ failed, from[n] = d
                 PROVE  finish[n] # 0 /\ since[n] < tasks'[d]
      BY DEF Free
    <2>1. LastWithdrawals(d) # {}
      BY LastExists
    <2>2. PICK m \in LastWithdrawals(d) : finish[m] # 0 /\ tasks'[d] > since[m]
      BY <1>1, <1>3, <2>1 DEF UnsweptIncomes
    <2>3. m \in rows \ failed /\ from[m] = d /\ since[n] =< since[m]
      BY DEF LastWithdrawals
    <2>4. since[n] \in Nat /\ since[m] \in Nat /\ tasks'[d] \in Nat
      BY <1>0, <1>1, <2>3 DEF TypeInv
    <2>5. finish[n] # 0
      <3> SUFFICES ASSUME finish[n] = 0 PROVE FALSE
        OBVIOUS
      <3>1. since[m] < since[n]
        BY <2>2, <2>3 DEF LastInv
      <3> QED BY <2>3, <2>4, <3>1
    <2> QED BY <2>2, <2>3, <2>4, <2>5
  <1>4. /\ UNCHANGED <<chain, incomes, lastBlock, table, batch, unsaved, value, fatal>>
        /\ UNCHANGED <<now, epc, etime>> /\ wpc' = "build"
    BY DEF GetJettonInternalWithdrawalTasks, expirer
  <1> QED BY <1>2, <1>3, <1>4, QuietIInv DEF FailedInv

LEMMA ExpirationWaitSyncIInv ==
  ASSUME IInv, TypeInv', ExpirationWaitSync
  PROVE  IInv'
PROOF
  <1>1. /\ UNCHANGED <<chain, incomes, lastBlock, table, batch, unsaved, value, fatal>>
        /\ UNCHANGED <<now, wpc, tasks>> /\ epc' = "expire" /\ etime' = now
        /\ now - lastBlock < Lag
    BY DEF ExpirationWaitSync, IsActualBlockData, processor
  <1> QED BY <1>1, QuietIInv DEF IInv, TaskInv

LEMMA StutterIInv ==
  ASSUME IInv, TypeInv', UNCHANGED vars
  PROVE  IInv'
PROOF
  <1>1. /\ UNCHANGED <<chain, incomes, lastBlock, table, batch, unsaved, value, fatal>>
        /\ UNCHANGED <<now, wpc, tasks, epc, etime>>
    BY DEF vars, processor, expirer
  <1> QED BY <1>1, QuietIInv DEF IInv, TaskInv, FailedInv

-----------------------------------------------------------------------------
(* The steps of the chain. *)

LEMMA NewBlockIInv ==
  ASSUME IInv, TypeInv', NEW t \in Time, NewBlock(t)
  PROVE  IInv'
PROOF
  <1> USE TimeAssumption DEF NewBlock, IInv, table, processor, expirer
  <1>1. ChainInv'
    <2>1. head \in Nat /\ t \in Nat /\ lastBlock \in Nat /\ blocks \subseteq Nat
      BY DEF TypeInv, Time
    <2>2. lastBlock =< head /\ head + BlockGap =< t
      BY <2>1 DEF ChainInv
    <2>3. \A b \in blocks' : lastBlock + BlockGap =< b /\ b =< t
      BY <2>1, <2>2 DEF ChainInv
    <2>4. \A b, c \in blocks' : b < c => b + BlockGap =< c
      BY <2>1, <2>2 DEF ChainInv
    <2>5. Lts' = Lts
      BY DEF Lts
    <2> QED BY <2>3, <2>4, <2>5 DEF ChainInv
  <1>2. (SentInv /\ TransitInv /\ SendingInv /\ EndInv)'
    <2>1. UNCHANGED <<txs, sent, transit, rows, batch, exp>>
      OBVIOUS
    <2> HIDE DEF NewBlock
    <2> QED BY <2>1 DEF SentInv, TransitInv, SendingInv, EndInv, IsSending, IsEnd, Lts
  <1>3. BatchInv'
    BY DEF BatchInv
  <1>4. (ColumnInv /\ AmountsAgree)'
    BY DEF ColumnInv, AmountsAgree, Saved
  <1>5. FailedInv'
    BY DEF FailedInv, Over, IsSending, IsEnd, Lts, Undisturbed
  <1>6. (LastInv /\ TaskInv)'
    BY DEF LastInv, TaskInv, Free
  <1>7. NoOwnFatal'
    BY DEF NoOwnFatal, Undisturbed
  <1> QED BY <1>1, <1>2, <1>3, <1>4, <1>5, <1>6, <1>7

\* What a new transaction, in a block not yet saved, leaves alone.
LEMMA AppendIInv ==
  ASSUME IInv, TypeInv', NEW x \in Tx, txs' = Append(txs, x), x.at = head, head \in blocks,
         UNCHANGED <<head, blocks, now, incomes, lastBlock, table, processor, expirer, fatal>>
  PROVE  (ChainInv /\ BatchInv /\ ColumnInv /\ LastInv /\ TaskInv /\ AmountsAgree /\ NoOwnFatal)'
PROOF
  <1> USE TimeAssumption DEF IInv, table, processor, expirer
  <1>0. /\ txs' \in Seq(Tx) /\ Len(txs) \in Nat /\ Len(txs') = Len(txs) + 1
        /\ Lts' = Lts \cup {Len(txs')} /\ Len(txs') \notin Lts /\ Lts \subseteq Nat
        /\ \A lt \in Lts : txs'[lt] = txs[lt] /\ lt < Len(txs')
        /\ txs'[Len(txs')] = x
    BY AppendEvents
  <1>1. ChainInv'
    <2>1. /\ head \in Nat /\ lastBlock \in Nat /\ blocks \subseteq Nat
          /\ \A lt \in Lts : txs[lt].at \in Nat
      BY TxType DEF TypeInv, Time
    <2>2. \A lt \in Lts : txs[lt].at =< head
      BY <2>1 DEF ChainInv
    <2>3. \A lt \in Lts' : txs'[lt].at =< lastBlock \/ txs'[lt].at \in blocks
      BY <1>0 DEF ChainInv
    <2>4. \A k, l \in Lts' : k < l => txs'[k].at =< txs'[l].at
      <3> SUFFICES ASSUME NEW k \in Lts', NEW l \in Lts', k < l PROVE txs'[k].at =< txs'[l].at
        OBVIOUS
      <3>1. k \in Lts
        BY <1>0
      <3>2. CASE l \in Lts
        BY <1>0, <3>1, <3>2 DEF ChainInv
      <3>3. CASE l = Len(txs')
        BY <1>0, <2>2, <3>1, <3>3
      <3> QED BY <1>0, <3>2, <3>3
    <2> QED BY <2>3, <2>4 DEF ChainInv
  <1>2. BatchInv'
    BY DEF BatchInv
  <1>3. \A kind : Saved(kind)' = Saved(kind)
    <2> SUFFICES ASSUME NEW kind, NEW lt PROVE lt \in Saved(kind)' <=> lt \in Saved(kind)
      BY DEF Saved
    <2>1. lt \in Saved(kind) <=> lt \in Lts /\ txs[lt].kind = kind /\ txs[lt].at =< lastBlock
      BY SavedIff
    <2>2. lt \in Saved(kind)' <=> lt \in Lts' /\ txs'[lt].kind = kind /\ txs'[lt].at =< lastBlock
      BY DEF Saved, Lts
    <2>3. ~(head =< lastBlock)
      BY DEF ChainInv, TypeInv, Time
    <2> QED BY <1>0, <2>1, <2>2, <2>3
  <1>4. \A kind : \A lt \in Saved(kind) : txs'[lt] = txs[lt]
    BY <1>0, SavedIff
  <1>5. (ColumnInv /\ AmountsAgree)'
    <2>1. ASSUME NEW kind, NEW m
          PROVE  (\E lt \in Saved(kind)' : m \in txs'[lt].memos) <=> (\E lt \in Saved(kind) : m \in txs[lt].memos)
      BY <1>3, <1>4
    <2>2. UNCHANGED <<sending, finish, amount, value>>
      OBVIOUS
    <2> HIDE DEF IInv
    <2>3. ColumnInv'
      <3>1. ColumnInv
        BY DEF IInv
      <3> QED BY <2>1, <2>2, <3>1 DEF ColumnInv
    <2>4. AmountsAgree'
      <3>1. AmountsAgree
        BY DEF IInv
      <3> QED BY <2>1, <2>2, <3>1 DEF AmountsAgree
    <2> QED BY <2>3, <2>4
  <1>6. (LastInv /\ TaskInv)'
    BY DEF LastInv, TaskInv, Free
  <1>7. NoOwnFatal'
    BY AppendEvents DEF NoOwnFatal
  <1> QED BY <1>1, <1>2, <1>5, <1>6, <1>7

\* A payment and somebody else's failed transfer are neither the sending nor
\* the end of a withdrawal.
LEMMA OtherTxIInv ==
  ASSUME IInv, TypeInv', NEW kind \in {"payment", "foreign"}, NEW d \in Deposit, NEW M \in SUBSET Memo,
         NEW left \in [Deposit -> Nat], AddTx(kind, d, M, left), UNCHANGED <<sent, transit>>
  PROVE  IInv'
PROOF
  <1> DEFINE x == [kind |-> kind, dep |-> d, memos |-> M, at |-> head, left |-> left]
  <1>1. x \in Tx
    BY DEF Tx, IInv, TypeInv
  <1>2. txs' = Append(txs, x) /\ x.at = head /\ head \in blocks /\ x.kind \in {"payment", "foreign"}
    BY DEF AddTx
  <1>3. UNCHANGED <<head, blocks, now, incomes, lastBlock, table, processor, expirer, fatal, sent, transit>>
    BY DEF AddTx
  <1> HIDE DEF x
  <1>4. (ChainInv /\ BatchInv /\ ColumnInv /\ LastInv /\ TaskInv /\ AmountsAgree /\ NoOwnFatal)'
    BY <1>1, <1>2, <1>3, AppendIInv
  <1>5. /\ Lts' = Lts \cup {Len(txs')} /\ Lts \subseteq Lts'
        /\ \A lt \in Lts : txs'[lt] = txs[lt]
        /\ \A lt \in Lts, m \in Memo :
             (IsSending(lt, m)' <=> IsSending(lt, m)) /\ (IsEnd(lt, m)' <=> IsEnd(lt, m))
        /\ \A n, m : n = Len(txs') => ~IsSending(n, m)' /\ ~IsEnd(n, m)'
        /\ Undisturbed' => Undisturbed
    BY <1>1, <1>2, AppendEvents DEF IInv
  <1>6. \A lt \in Lts', m \in Memo :
          (IsSending(lt, m)' => lt \in Lts /\ IsSending(lt, m)) /\ (IsEnd(lt, m)' => lt \in Lts /\ IsEnd(lt, m))
    BY <1>5
  <1>7. /\ rows \subseteq Memo /\ transit \subseteq Memo /\ failed \subseteq Memo /\ \A N \in sent : N \subseteq Memo
        /\ UNCHANGED <<rows, batch, exp, failed, epc, etime, lastBlock>>
    BY <1>3 DEF IInv, TypeInv, table, processor, expirer
  <1>8. SentInv'
    BY <1>3, <1>6, <1>7 DEF IInv, SentInv
  <1>9. TransitInv'
    BY <1>3, <1>5, <1>6, <1>7 DEF IInv, TransitInv
  <1>10. SendingInv' /\ EndInv'
    BY <1>5, <1>6, <1>7 DEF IInv, SendingInv, EndInv
  <1>11. FailedInv'
    BY <1>5, <1>6, <1>7 DEF IInv, FailedInv, Over
  <1> QED BY <1>4, <1>8, <1>9, <1>10, <1>11 DEF IInv

LEMMA PayIInv ==
  ASSUME IInv, TypeInv', NEW d \in Deposit, Pay(d)
  PROVE  IInv'
PROOF
  <1>1. [balance EXCEPT ![d] = @ + 1] \in [Deposit -> Nat]
    BY DEF IInv, TypeInv
  <1> QED BY <1>1, OtherTxIInv DEF Pay

\* Whatever memo the failed transfer carries.
LEMMA ForeignTransferIInv ==
  ASSUME IInv, TypeInv', NEW d \in Deposit, NEW M \in SUBSET Memo, ForeignTransfer(d, M)
  PROVE  IInv'
PROOF
  <1>1. balance \in [Deposit -> Nat]
    BY DEF IInv, TypeInv
  <1> QED BY <1>1, OtherTxIInv DEF ForeignTransfer

\* The hot wallet's transaction: the message was not executed before, and it
\* is not one of those that were given up.
LEMMA ExecuteBatchIInv ==
  ASSUME IInv, TypeInv', NEW M \in sent, NEW S \in SUBSET M, ExecuteBatch(M, S)
  PROVE  IInv'
PROOF
  <1> DEFINE x == [kind |-> "sending", dep |-> CHOOSE d \in Deposit : TRUE, memos |-> S, at |-> head,
                   left |-> balance]
  <1>0. M \subseteq Memo /\ S \subseteq Memo
    BY DEF IInv, TypeInv
  <1>1. x \in Tx
    <2>1. (CHOOSE d \in Deposit : TRUE) \in Deposit
      BY SetAssumption
    <2>2. head \in Time /\ balance \in [Deposit -> Nat]
      BY DEF IInv, TypeInv
    <2> QED BY <1>0, <2>1, <2>2 DEF Tx
  <1>2. /\ txs' = Append(txs, x) /\ x.at = head /\ head \in blocks /\ x.kind = "sending" /\ x.memos = S
        /\ sent' = sent \ {M} /\ transit' = transit \cup S
        /\ \A m \in M : head =< exp[m]
    BY DEF ExecuteBatch, AddTx
  <1>3. UNCHANGED <<head, blocks, now, incomes, lastBlock, table, processor, expirer, fatal>>
    BY DEF ExecuteBatch, AddTx
  <1> HIDE DEF x
  <1>4. transit' \subseteq Memo
    BY DEF TypeInv
  <1>5. (ChainInv /\ BatchInv /\ ColumnInv /\ LastInv /\ TaskInv /\ AmountsAgree /\ NoOwnFatal)'
    BY <1>1, <1>2, <1>3, AppendIInv
  <1>6. /\ Lts' = Lts \cup {Len(txs')} /\ Len(txs') \notin Lts
        /\ \A lt \in Lts : txs'[lt] = txs[lt] /\ lt < Len(txs')
        /\ txs'[Len(txs')] = x
        /\ \A lt \in Lts, m \in Memo :
             (IsSending(lt, m)' <=> IsSending(lt, m)) /\ (IsEnd(lt, m)' <=> IsEnd(lt, m))
        /\ \A n, m : n = Len(txs') => (IsSending(n, m)' <=> m \in S) /\ ~IsEnd(n, m)'
        /\ Undisturbed' => Undisturbed
    BY <1>1, <1>2, AppendEvents DEF IInv
  <1>7. PICK n : n = Len(txs')
    OBVIOUS
  <1>8. \A lt \in Lts', m \in Memo :
          /\ IsSending(lt, m)' => (lt \in Lts /\ IsSending(lt, m)) \/ (lt = n /\ m \in S)
          /\ IsEnd(lt, m)' => lt \in Lts /\ IsEnd(lt, m)
    BY <1>6, <1>7
  <1>9. /\ rows \subseteq Memo /\ transit \subseteq Memo /\ failed \subseteq Memo /\ \A N \in sent : N \subseteq Memo
        /\ UNCHANGED <<rows, batch, exp, failed, epc, etime, lastBlock>>
    BY <1>3 DEF IInv, TypeInv, table, processor, expirer
  <1>10. \A m \in S : /\ m \in rows \ batch /\ m \notin transit
                      /\ \A lt \in Lts : ~IsSending(lt, m) /\ ~IsEnd(lt, m)
                      /\ \A N \in sent' : m \notin N
    BY <1>2 DEF IInv, SentInv
  <1>11. SentInv'
    <2>1. ASSUME NEW N \in sent', NEW m \in N
          PROVE  m \in rows \ batch /\ m \notin transit' /\ \A lt \in Lts' : ~IsSending(lt, m)' /\ ~IsEnd(lt, m)'
      <3>1. N \in sent /\ m \in Memo /\ m \notin S
        BY <1>2, <1>9, <1>10, <2>1
      <3>2. m \in rows \ batch /\ m \notin transit /\ \A lt \in Lts : ~IsSending(lt, m) /\ ~IsEnd(lt, m)
        BY <2>1, <3>1 DEF IInv, SentInv
      <3> QED BY <1>2, <1>8, <3>1, <3>2
    <2>2. \A K, N \in sent' : K # N => K \cap N = {}
      BY <1>2 DEF IInv, SentInv
    <2> QED BY <1>9, <2>1, <2>2 DEF SentInv
  <1>12. TransitInv'
    <2> SUFFICES ASSUME NEW m \in transit'
                 PROVE  /\ m \in rows \ batch
                        /\ \E lt \in Lts' : IsSending(lt, m)'
                        /\ \A lt \in Lts' : ~IsEnd(lt, m)'
      BY <1>9 DEF TransitInv
    <2>1. m \in Memo
      BY <1>4
    <2>2. CASE m \in S
      BY <1>6, <1>7, <1>8, <1>10, <2>1, <2>2
    <2>3. CASE m \in transit
      BY <1>6, <1>8, <2>1, <2>3 DEF IInv, TransitInv
    <2> QED BY <1>2, <2>2, <2>3
  <1>13. SendingInv'
    <2>1. ASSUME NEW lt \in Lts', NEW m \in Memo, IsSending(lt, m)'
          PROVE  m \in rows \ batch /\ txs'[lt].at =< exp[m]
      <3>1. CASE lt \in Lts /\ IsSending(lt, m)
        BY <1>6, <3>1 DEF IInv, SendingInv
      <3>2. CASE lt = n /\ m \in S
        BY <1>2, <1>6, <1>7, <1>10, <3>2
      <3> QED BY <1>8, <2>1, <3>1, <3>2
    <2>2. \A k, l \in Lts', m \in Memo : IsSending(k, m)' /\ IsSending(l, m)' => k = l
      BY <1>8, <1>10 DEF IInv, SendingInv
    <2> QED BY <1>9, <2>1, <2>2 DEF SendingInv
  <1>14. EndInv'
    BY <1>6, <1>8 DEF IInv, EndInv
  <1>15. FailedInv'
    <2>1. ASSUME Undisturbed', NEW m \in failed
          PROVE  \/ \E lt \in Lts' : IsEnd(lt, m)' /\ txs'[lt].at =< lastBlock
                 \/ (\A lt \in Lts' : ~IsSending(lt, m)') /\ exp[m] < lastBlock + BlockGap
      <3>1. CASE \E lt \in Lts : IsEnd(lt, m) /\ txs[lt].at =< lastBlock
        BY <1>6, <1>9, <3>1
      <3>2. CASE (\A lt \in Lts : ~IsSending(lt, m)) /\ exp[m] < lastBlock + BlockGap
        <4>1. lastBlock + BlockGap =< head
          BY <1>2 DEF IInv, ChainInv
        <4>2. head \in Int /\ lastBlock + BlockGap \in Int /\ exp[m] \in Int
          BY <1>9, TimeAssumption DEF IInv, TypeInv, Time
        <4>3. m \notin S
          <5>1. ~(head =< exp[m])
            BY <3>2, <4>1, <4>2
          <5> QED BY <1>2, <5>1
        <4> QED BY <1>8, <1>9, <3>2, <4>3
      <3> QED BY <1>6, <2>1, <3>1, <3>2 DEF IInv, FailedInv, Over
    <2> QED BY <1>9, <2>1 DEF IInv, FailedInv, Over
  <1> QED BY <1>5, <1>11, <1>12, <1>13, <1>14, <1>15 DEF IInv

\* The Jetton wallet's transaction: the withdrawal's first, and it was not
\* given up, since its sending is on the chain.
LEMMA TransferIInv ==
  ASSUME IInv, TypeInv', NEW m \in Memo, Transfer(m)
  PROVE  IInv'
PROOF
  <1>0. PICK k \in {"transfer", "failed"} :
          \E left : AddTx(k, from[m], {m}, left)
    BY DEF Transfer
  <1>a. PICK left : AddTx(k, from[m], {m}, left)
    BY <1>0
  <1>b. left \in [Deposit -> Nat]
    BY <1>a DEF AddTx, TypeInv
  <1> DEFINE x == [kind |-> k, dep |-> from[m], memos |-> {m}, at |-> head, left |-> left]
  <1>1. x \in Tx
    BY <1>b DEF Tx, IInv, TypeInv
  <1>2. /\ txs' = Append(txs, x) /\ x.at = head /\ head \in blocks
        /\ x.kind \in {"transfer", "failed"} /\ x.memos = {m}
        /\ m \in transit /\ transit' = transit \ {m} /\ sent' = sent
    BY <1>a DEF Transfer, AddTx
  <1>3. UNCHANGED <<head, blocks, now, incomes, lastBlock, table, processor, expirer, fatal>>
    BY <1>a DEF AddTx
  <1> HIDE DEF x
  <1>4. transit' \subseteq Memo
    BY DEF TypeInv
  <1>5. (ChainInv /\ BatchInv /\ ColumnInv /\ LastInv /\ TaskInv /\ AmountsAgree /\ NoOwnFatal)'
    BY <1>1, <1>2, <1>3, AppendIInv
  <1>6. /\ Lts' = Lts \cup {Len(txs')} /\ Len(txs') \notin Lts
        /\ \A lt \in Lts : txs'[lt] = txs[lt] /\ lt < Len(txs')
        /\ \A lt \in Lts, j \in Memo :
             (IsSending(lt, j)' <=> IsSending(lt, j)) /\ (IsEnd(lt, j)' <=> IsEnd(lt, j))
        /\ \A n, j : n = Len(txs') => ~IsSending(n, j)' /\ (IsEnd(n, j)' <=> j = m)
        /\ Undisturbed' => Undisturbed
    BY <1>1, <1>2, AppendEvents DEF IInv
  <1>7. PICK n : n = Len(txs')
    OBVIOUS
  <1>8. \A lt \in Lts', j \in Memo :
          /\ IsSending(lt, j)' => lt \in Lts /\ IsSending(lt, j)
          /\ IsEnd(lt, j)' => (lt \in Lts /\ IsEnd(lt, j)) \/ (lt = n /\ j = m)
    BY <1>6, <1>7
  <1>9. /\ rows \subseteq Memo /\ transit \subseteq Memo /\ failed \subseteq Memo /\ \A N \in sent : N \subseteq Memo
        /\ UNCHANGED <<rows, batch, exp, failed, epc, etime, lastBlock>>
    BY <1>3 DEF IInv, TypeInv, table, processor, expirer
  <1>10. PICK s \in Lts : IsSending(s, m) /\ \A lt \in Lts : ~IsEnd(lt, m)
    BY <1>2 DEF IInv, TransitInv
  <1>11. SentInv'
    <2>1. ASSUME NEW N \in sent, NEW j \in N
          PROVE  j \in rows \ batch /\ j \notin transit' /\ \A lt \in Lts' : ~IsSending(lt, j)' /\ ~IsEnd(lt, j)'
      <3>1. j \in rows \ batch /\ j \notin transit /\ \A lt \in Lts : ~IsSending(lt, j) /\ ~IsEnd(lt, j)
        BY DEF IInv, SentInv
      <3>2. j \in Memo /\ j # m
        BY <1>2, <1>9, <3>1
      <3> QED BY <1>2, <1>8, <3>1, <3>2
    <2> QED BY <1>2, <1>9, <2>1 DEF IInv, SentInv
  <1>12. TransitInv'
    <2> SUFFICES ASSUME NEW j \in transit'
                 PROVE  /\ j \in rows \ batch
                        /\ \E lt \in Lts' : IsSending(lt, j)'
                        /\ \A lt \in Lts' : ~IsEnd(lt, j)'
      BY <1>9 DEF TransitInv
    <2>1. j \in Memo /\ j \in transit /\ j # m
      BY <1>2, <1>4
    <2> QED BY <1>6, <1>8, <2>1 DEF IInv, TransitInv
  <1>13. SendingInv'
    BY <1>6, <1>8, <1>9 DEF IInv, SendingInv
  <1>14. EndInv'
    <2>1. ASSUME NEW lt \in Lts', NEW j \in Memo, IsEnd(lt, j)'
          PROVE  \E i \in Lts' : i < lt /\ IsSending(i, j)'
      <3>1. CASE lt \in Lts /\ IsEnd(lt, j)
        BY <1>6, <3>1 DEF IInv, EndInv
      <3>2. CASE lt = n /\ j = m
        BY <1>6, <1>7, <1>10, <3>2
      <3> QED BY <1>8, <2>1, <3>1, <3>2
    <2>2. \A i, l \in Lts', j \in Memo : IsEnd(i, j)' /\ IsEnd(l, j)' => i = l
      BY <1>8, <1>10 DEF IInv, EndInv
    <2> QED BY <2>1, <2>2 DEF EndInv
  <1>15. FailedInv'
    BY <1>6, <1>8, <1>9, <1>10 DEF IInv, FailedInv, Over
  <1> QED BY <1>5, <1>11, <1>12, <1>13, <1>14, <1>15 DEF IInv

-----------------------------------------------------------------------------
(* The steps of the processors.  They change neither the blocks nor what the *)
(* scanner has written.                                                      *)

\* Only a withdrawal that has a row, and is no longer in the processor's hands,
\* has transactions.
LEMMA EventRow ==
  ASSUME IInv, NEW lt \in Lts, NEW m \in Memo, IsSending(lt, m) \/ IsEnd(lt, m)
  PROVE  m \in rows \ batch
PROOF
  BY DEF IInv, SendingInv, EndInv

LEMMA FrameIInv ==
  ASSUME IInv, UNCHANGED <<txs, head, blocks, lastBlock, sending, finish, amount>>,
         \A m \in rows : value'[m] = value[m]
  PROVE  /\ (ChainInv /\ EndInv /\ ColumnInv /\ AmountsAgree)' /\ Lts' = Lts
         /\ \A lt, m : (IsSending(lt, m)' <=> IsSending(lt, m)) /\ (IsEnd(lt, m)' <=> IsEnd(lt, m))
         /\ Undisturbed' <=> Undisturbed
         /\ fatal' = fatal => NoOwnFatal'
PROOF
  <1>1. Lts' = Lts
    BY DEF Lts
  <1>2. \A lt, m : (IsSending(lt, m)' <=> IsSending(lt, m)) /\ (IsEnd(lt, m)' <=> IsEnd(lt, m))
    BY DEF IsSending, IsEnd
  <1>3. ChainInv'
    BY <1>1 DEF IInv, ChainInv
  <1>4. EndInv'
    BY <1>1, <1>2 DEF IInv, EndInv
  <1>5. \A kind : Saved(kind)' = Saved(kind)
    BY DEF Saved
  <1>6. ColumnInv'
    BY <1>5 DEF IInv, ColumnInv
  <1>7. AmountsAgree'
    <2> SUFFICES ASSUME NEW m \in Memo
                 PROVE  amount[m] = IF \E lt \in Saved("transfer") : m \in txs[lt].memos THEN value'[m] ELSE 0
      BY <1>5 DEF AmountsAgree
    <2>1. ASSUME NEW lt \in Saved("transfer"), m \in txs[lt].memos PROVE value'[m] = value[m]
      <3>1. lt \in Lts /\ IsEnd(lt, m)
        BY <2>1, SavedIff DEF IsEnd
      <3> QED BY <3>1, EventRow
    <2> QED BY <2>1 DEF IInv, AmountsAgree
  <1>8. Undisturbed' <=> Undisturbed
    BY DEF Undisturbed
  <1>9. fatal' = fatal => NoOwnFatal'
    BY <1>8 DEF IInv, NoOwnFatal
  <1> QED BY <1>1, <1>2, <1>3, <1>4, <1>6, <1>7, <1>8, <1>9

\* A message is added to the batch: its memo has no row, and its deposit has a
\* task, so nothing else of the deposit is in the batch or under way.
LEMMA BuildMessageIInv ==
  ASSUME IInv, TypeInv', NEW d \in Deposit, NEW m \in Memo, NEW w \in 0..Len(txs),
         BuildJettonInternalWithdrawalMessage(d, m, w)
  PROVE  IInv'
PROOF
  <1> USE TimeAssumption DEF BuildJettonInternalWithdrawalMessage, chain, expirer
  <1>0. /\ Len(txs) \in Nat /\ tasks[d] \in 0..Len(txs) /\ tasks[d] # 0
        /\ m \notin rows /\ m \notin batch /\ m \notin failed
    BY DEF IInv, TypeInv
  <1>1. \A k \in Memo : k # m => since'[k] = since[k] /\ from'[k] = from[k] /\ value'[k] = value[k]
    BY DEF IInv, TypeInv
  <1>2. since'[m] = tasks[d] /\ from'[m] = d
    BY DEF IInv, TypeInv
  <1>3. rows \subseteq Memo /\ batch \subseteq Memo /\ m \notin rows
    BY DEF IInv, TypeInv
  <1>4. \A c \in Deposit : tasks'[c] # 0 => tasks'[c] = tasks[c] /\ c # d
    BY DEF IInv, TypeInv
  <1>5. /\ (ChainInv /\ EndInv /\ ColumnInv /\ AmountsAgree)' /\ Lts' = Lts
        /\ \A lt, j : (IsSending(lt, j)' <=> IsSending(lt, j)) /\ (IsEnd(lt, j)' <=> IsEnd(lt, j))
        /\ Undisturbed' <=> Undisturbed
        /\ fatal' = fatal => NoOwnFatal'
    BY <1>1, <1>3, FrameIInv
  <1>6. BatchInv'
    BY <1>0 DEF IInv, BatchInv
  <1>7. SentInv'
    BY <1>0, <1>5 DEF IInv, SentInv
  <1>8. TransitInv' /\ SendingInv'
    BY <1>0, <1>5 DEF IInv, TransitInv, SendingInv
  <1>9. FailedInv'
    BY <1>5 DEF IInv, FailedInv, Over
  <1>10. LastInv'
    BY <1>1, <1>3 DEF IInv, LastInv
  <1>11. ASSUME NEW c, NEW lt PROVE Free(c, lt)' <=> Free(c, lt)
    <2>1. rows' \ failed' = rows \ failed
      OBVIOUS
    <2>2. \A k \in rows \ failed : since'[k] = since[k] /\ from'[k] = from[k] /\ finish'[k] = finish[k]
      BY <1>1, <1>3
    <2> HIDE DEF BuildJettonInternalWithdrawalMessage
    <2> QED BY <2>1, <2>2 DEF Free
  <1>12. TaskInv'
    <2>1. ASSUME NEW c \in Deposit, tasks'[c] # 0
          PROVE  Free(c, tasks[c])' /\ \A k \in batch' : from'[k] # c
      <3>1. c # d /\ tasks'[c] = tasks[c]
        BY <1>4, <2>1
      <3>2. Free(c, tasks[c]) /\ \A k \in batch : from[k] # c
        BY <2>1, <3>1 DEF IInv, TaskInv
      <3>3. Free(c, tasks[c])'
        <4>1. PICK q : q = tasks[c]
          OBVIOUS
        <4>2. Free(c, q)'
          BY <1>11, <3>2, <4>1
        <4> QED BY <3>1, <4>1, <4>2
      <3>4. \A k \in batch : from'[k] # c
        BY <1>0, <1>1, <1>3, <3>2
      <3> QED BY <1>2, <3>1, <3>3, <3>4
    <2>2. ASSUME NEW k \in batch' \ rows PROVE Free(from[k], since[k])'
      <3>1. CASE k = m
        <4>1. Free(d, tasks[d])
          BY <1>0 DEF IInv, TaskInv
        <4>2. PICK q : q = tasks[d]
          OBVIOUS
        <4>3. Free(d, q)'
          BY <1>11, <4>1, <4>2
        <4> QED BY <1>2, <3>1, <4>2, <4>3
      <3>2. CASE k # m
        <4>1. k \in batch \ rows /\ k \in Memo
          BY <1>3, <2>2, <3>2
        <4>2. Free(from[k], since[k])
          BY <4>1 DEF IInv, TaskInv
        <4>3. PICK c, q : c = from[k] /\ q = since[k]
          OBVIOUS
        <4>4. Free(c, q)'
          BY <1>11, <4>2, <4>3
        <4>5. from'[k] = c /\ since'[k] = q
          BY <1>1, <3>2, <4>1, <4>3
        <4> QED BY <4>4, <4>5
      <3> QED BY <3>1, <3>2
    <2>3. \A k, n \in batch' : from'[k] = from'[n] => k = n
      <3>1. \A k \in batch : from'[k] = from[k] /\ from[k] # d
        BY <1>0, <1>1, <1>3 DEF IInv, TaskInv
      <3> QED BY <1>2, <3>1 DEF IInv, TaskInv
    <2> QED BY <2>1, <2>2, <2>3 DEF TaskInv
  <1> QED BY <1>5, <1>6, <1>7, <1>8, <1>9, <1>10, <1>12 DEF IInv

\* The batch gets its expiration time; no row of it is in the table yet.
LEMMA BuildExternalMessageIInv ==
  ASSUME IInv, TypeInv', BuildExternalMessage
  PROVE  IInv'
PROOF
  <1> USE TimeAssumption DEF BuildExternalMessage, chain, expirer
  <1>0. now + Lifetime \in Nat /\ batch \cap rows = {} /\ unsaved = {}
    BY DEF IInv, TypeInv, Time, BatchInv
  <1>1. \A k \in Memo \ batch : exp'[k] = exp[k]
    BY DEF IInv, TypeInv
  <1>2. /\ (ChainInv /\ EndInv /\ ColumnInv /\ AmountsAgree)' /\ Lts' = Lts
        /\ \A lt, j : (IsSending(lt, j)' <=> IsSending(lt, j)) /\ (IsEnd(lt, j)' <=> IsEnd(lt, j))
        /\ Undisturbed' <=> Undisturbed
        /\ fatal' = fatal => NoOwnFatal'
    BY FrameIInv
  <1>3. BatchInv'
    BY <1>0 DEF IInv, BatchInv
  <1>4. SentInv' /\ TransitInv'
    BY <1>2 DEF IInv, SentInv, TransitInv
  <1>5. SendingInv'
    BY <1>1, <1>2 DEF IInv, SendingInv
  <1>6. FailedInv'
    <2>1. \A m \in failed : exp'[m] = exp[m]
      BY <1>0, <1>1 DEF IInv, TypeInv
    <2> QED BY <1>2, <2>1 DEF IInv, FailedInv, Over
  <1>7. LastInv' /\ TaskInv'
    BY DEF IInv, LastInv, TaskInv, Free
  <1> QED BY <1>2, <1>3, <1>4, <1>5, <1>6, <1>7 DEF IInv

\* A row is inserted only while its deposit is free: it becomes the deposit's
\* newest row, and the other rows of the batch belong to other deposits.
LEMMA SaveTaskIInv ==
  ASSUME IInv, TypeInv', NEW m \in Memo, SaveInternalWithdrawalTask(m)
  PROVE  IInv'
PROOF
  <1> USE DEF SaveInternalWithdrawalTask, chain, expirer
  <1>0. m \in batch /\ m \notin rows /\ m \notin failed /\ m \in unsaved /\ unsaved \subseteq batch
    BY DEF IInv, TypeInv, BatchInv
  <1>1. /\ (ChainInv /\ EndInv /\ ColumnInv /\ AmountsAgree)' /\ Lts' = Lts
        /\ \A lt, j : (IsSending(lt, j)' <=> IsSending(lt, j)) /\ (IsEnd(lt, j)' <=> IsEnd(lt, j))
        /\ Undisturbed' <=> Undisturbed
        /\ fatal' = fatal => NoOwnFatal'
    BY FrameIInv
  <1>2. BatchInv'
    BY <1>0 DEF IInv, BatchInv
  <1>3. SentInv' /\ TransitInv' /\ SendingInv'
    BY <1>1 DEF IInv, SentInv, TransitInv, SendingInv
  <1>4. FailedInv'
    BY <1>1 DEF IInv, FailedInv, Over
  <1>5. Free(from[m], since[m])
    BY <1>0 DEF IInv, TaskInv
  <1>6. LastInv'
    <2> SUFFICES ASSUME NEW k \in rows' \ failed, NEW n \in rows' \ failed,
                        k # n, from[k] = from[n], finish[k] = 0
                 PROVE  since[n] < since[k]
      BY DEF LastInv
    <2>1. CASE k = m
      BY <1>5, <2>1 DEF Free
    <2>2. CASE n = m
      BY <1>5, <2>2 DEF Free
    <2>3. CASE k # m /\ n # m
      BY <2>3 DEF IInv, LastInv
    <2> QED BY <2>1, <2>2, <2>3
  <1>7. ASSUME NEW c, NEW lt, Free(c, lt), from[m] # c PROVE Free(c, lt)'
    BY <1>7 DEF Free
  <1>8. TaskInv'
    <2>1. ASSUME NEW c \in Deposit, tasks[c] # 0 PROVE Free(c, tasks[c])' /\ \A k \in batch : from[k] # c
      <3>1. Free(c, tasks[c]) /\ \A k \in batch : from[k] # c
        BY <2>1 DEF IInv, TaskInv
      <3>2. PICK q : q = tasks[c]
        OBVIOUS
      <3>3. Free(c, q)'
        BY <1>0, <1>7, <3>1, <3>2
      <3> QED BY <3>1, <3>2, <3>3
    <2>2. ASSUME NEW k \in batch \ rows' PROVE Free(from[k], since[k])'
      <3>1. k \in batch \ rows /\ k # m /\ from[m] # from[k]
        BY <1>0, <2>2 DEF IInv, TaskInv
      <3>2. PICK c, q : c = from[k] /\ q = since[k]
        OBVIOUS
      <3>3. Free(c, q)
        BY <3>1, <3>2 DEF IInv, TaskInv
      <3>4. Free(c, q)'
        BY <1>7, <3>1, <3>2, <3>3
      <3> QED BY <3>2, <3>4
    <2>3. UNCHANGED <<tasks, batch, from, since>>
      OBVIOUS
    <2>4. \A k, n \in batch : from[k] = from[n] => k = n
      BY DEF IInv, TaskInv
    <2> HIDE DEF SaveInternalWithdrawalTask
    <2> QED BY <2>1, <2>2, <2>3, <2>4 DEF TaskInv
  <1> QED BY <1>1, <1>2, <1>3, <1>4, <1>6, <1>8 DEF IInv

\* The message leaves the processor when all of its rows are in the table.
LEMMA SendExternalMessageIInv ==
  ASSUME IInv, TypeInv', SendExternalMessage
  PROVE  IInv'
PROOF
  <1> USE DEF SendExternalMessage, table, expirer
  <1>0. batch \subseteq rows /\ batch \subseteq Memo
    BY DEF IInv, TypeInv, BatchInv
  <1>1. /\ (ChainInv /\ EndInv /\ ColumnInv /\ AmountsAgree)' /\ Lts' = Lts
        /\ \A lt, j : (IsSending(lt, j)' <=> IsSending(lt, j)) /\ (IsEnd(lt, j)' <=> IsEnd(lt, j))
        /\ Undisturbed' <=> Undisturbed
        /\ fatal' = fatal => NoOwnFatal'
    BY FrameIInv
  <1>2. BatchInv'
    BY DEF IInv, BatchInv
  <1>3. SentInv'
    <2>1. ASSUME NEW M \in sent', NEW m \in M
          PROVE  m \in rows /\ m \notin transit /\ \A lt \in Lts : ~IsSending(lt, m) /\ ~IsEnd(lt, m)
      <3>1. CASE M \in sent
        BY <2>1, <3>1 DEF IInv, SentInv
      <3>2. CASE M = batch
        <4>1. m \in rows /\ m \in batch /\ m \in Memo
          BY <1>0, <2>1, <3>2
        <4>2. m \notin transit
          BY <4>1 DEF IInv, TransitInv
        <4> QED BY <4>1, <4>2, EventRow
      <3> QED BY <2>1, <3>1, <3>2
    <2>2. \A M \in sent : M \cap batch = {}
      BY DEF IInv, SentInv
    <2>3. \A M, N \in sent' : M # N => M \cap N = {}
      BY <2>2 DEF IInv, SentInv
    <2> QED BY <1>1, <2>1, <2>3 DEF SentInv
  <1>4. TransitInv' /\ SendingInv'
    BY <1>1 DEF IInv, TransitInv, SendingInv
  <1>5. FailedInv'
    BY <1>1 DEF IInv, FailedInv, Over
  <1>6. LastInv' /\ TaskInv'
    BY DEF IInv, LastInv, TaskInv, Free
  <1> QED BY <1>1, <1>2, <1>3, <1>4, <1>5, <1>6 DEF IInv

\* A withdrawal given up has an expiration time before the next block, and no
\* transaction: a saved one would be confirmed, an unsaved one too late.
LEMMA SetExpiredIInv ==
  ASSUME SafeTiming, IInv, TypeInv', SetExpired
  PROVE  IInv'
PROOF
  <1> USE TimeAssumption DEF SetExpired, chain, processor
  <1>1. /\ (ChainInv /\ EndInv /\ ColumnInv /\ AmountsAgree)' /\ Lts' = Lts
        /\ \A lt, j : (IsSending(lt, j)' <=> IsSending(lt, j)) /\ (IsEnd(lt, j)' <=> IsEnd(lt, j))
        /\ Undisturbed' <=> Undisturbed
        /\ fatal' = fatal => NoOwnFatal'
    BY FrameIInv
  <1>2. BatchInv'
    BY DEF IInv, BatchInv
  <1>3. SentInv' /\ TransitInv' /\ SendingInv'
    BY <1>1 DEF IInv, SentInv, TransitInv, SendingInv
  <1>4. FailedInv'
    <2>1. ASSUME NEW m \in ExpiredRows
          PROVE  (\A lt \in Lts : ~IsSending(lt, m)) /\ exp[m] < lastBlock + BlockGap
      <3>1. /\ exp[m] \in Nat /\ now \in Nat /\ etime \in Nat /\ lastBlock \in Nat /\ m \in Memo
            /\ blocks \subseteq Nat
        BY DEF ExpiredRows, IInv, TypeInv, Time
      <3>2. /\ exp[m] < now - Lag /\ now =< etime + ExpireDelay /\ etime - lastBlock < Lag
            /\ sending[m] = 0
        BY DEF ExpiredRows, IInv, FailedInv
      <3>3. exp[m] < lastBlock + BlockGap
        BY <3>1, <3>2 DEF SafeTiming
      <3>4. ASSUME NEW lt \in Lts, IsSending(lt, m) PROVE FALSE
        <4>1. txs[lt].at =< exp[m] /\ txs[lt].at \in Nat
          BY <3>1, <3>4, TxType DEF IInv, SendingInv
        <4>2. ~(txs[lt].at =< lastBlock)
          BY <3>1, <3>2, <3>4, SavedIff DEF IInv, ColumnInv, IsSending
        <4>3. lastBlock + BlockGap =< txs[lt].at
          BY <4>2 DEF IInv, ChainInv
        <4> QED BY <3>1, <3>3, <4>1, <4>3
      <3> QED BY <3>3, <3>4
    <2> QED BY <1>1, <2>1 DEF IInv, FailedInv, Over
  <1>5. LastInv' /\ TaskInv'
    BY DEF IInv, LastInv, TaskInv, Free
  <1> QED BY <1>1, <1>2, <1>3, <1>4, <1>5 DEF IInv

\* The process starts again, by itself or after an error of the scanner.
LEMMA VolatileIInv ==
  ASSUME IInv, TypeInv', Volatile, fatal' = fatal \/ ~Undisturbed,
         UNCHANGED <<rows, from, sending, finish, failed, amount, now, chain, incomes, lastBlock>>
  PROVE  IInv'
PROOF
  <1> USE TimeAssumption DEF Volatile, chain
  <1>0. /\ \A m \in rows : value'[m] = value[m] /\ since'[m] = since[m] /\ exp'[m] = exp[m]
        /\ rows \subseteq Memo /\ failed \subseteq rows
    BY DEF Kept, IInv, TypeInv
  <1>1. /\ (ChainInv /\ EndInv /\ ColumnInv /\ AmountsAgree)' /\ Lts' = Lts
        /\ \A lt, j : (IsSending(lt, j)' <=> IsSending(lt, j)) /\ (IsEnd(lt, j)' <=> IsEnd(lt, j))
        /\ Undisturbed' <=> Undisturbed
        /\ fatal' = fatal => NoOwnFatal'
    BY <1>0, FrameIInv
  <1>2. BatchInv'
    BY DEF BatchInv
  <1>3. SentInv' /\ TransitInv'
    BY <1>1 DEF IInv, SentInv, TransitInv
  <1>4. SendingInv'
    BY <1>0, <1>1 DEF IInv, SendingInv
  <1>5. FailedInv'
    BY <1>0, <1>1 DEF IInv, FailedInv, Over
  <1>6. LastInv'
    BY <1>0 DEF IInv, LastInv
  <1>7. TaskInv'
    BY DEF TaskInv, NoTasks
  <1>8. NoOwnFatal'
    BY <1>1 DEF NoOwnFatal
  <1> QED BY <1>1, <1>2, <1>3, <1>4, <1>5, <1>6, <1>7, <1>8 DEF IInv

LEMMA RestartIInv ==
  ASSUME IInv, TypeInv', Restart
  PROVE  IInv'
PROOF
  BY VolatileIInv DEF Restart

-----------------------------------------------------------------------------
(* The scanner. *)

\* The blocks up to the next one are the saved ones and the next one.
LEMMA NextBlock ==
  ASSUME IInv, NEW b \in Time, IsNextBlock(b)
  PROVE  /\ b \in blocks /\ b \in Nat /\ lastBlock \in Nat /\ lastBlock < b
         /\ lastBlock + BlockGap =< b
         /\ \A lt \in Lts : txs[lt].at =< b <=> txs[lt].at =< lastBlock \/ txs[lt].at = b
PROOF
  <1> USE TimeAssumption DEF IInv
  <1>1. b \in blocks /\ \A c \in blocks : b =< c
    BY DEF IsNextBlock
  <1>2. b \in Nat /\ lastBlock \in Nat /\ blocks \subseteq Nat
    BY DEF TypeInv, Time
  <1>3. lastBlock + BlockGap =< b /\ lastBlock < b
    BY <1>1, <1>2 DEF ChainInv
  <1>4. ASSUME NEW lt \in Lts
        PROVE  txs[lt].at =< b <=> txs[lt].at =< lastBlock \/ txs[lt].at = b
    <2>1. txs[lt].at \in Nat
      BY TxType
    <2>2. txs[lt].at =< lastBlock \/ txs[lt].at \in blocks
      BY DEF ChainInv
    <2> QED BY <1>1, <1>2, <1>3, <2>1, <2>2
  <1> QED BY <1>1, <1>2, <1>3, <1>4

\* No transaction in the next block belongs to a withdrawal that has ended or
\* was given up, none is the end of one whose sending is not confirmed, and no
\* withdrawal ends twice: unless somebody else has sent a transfer, the scanner
\* saves the block, in whatever order it handles the accounts.
LEMMA BlockIsPossible ==
  ASSUME IInv, Undisturbed, NEW b \in Time, IsNextBlock(b), NEW order
  PROVE  ~Impossible(b, order)
PROOF
  <1>0. /\ b \in Nat /\ lastBlock \in Nat /\ lastBlock < b
        /\ \A lt \in Lts : txs[lt].at =< b <=> txs[lt].at =< lastBlock \/ txs[lt].at = b
    BY NextBlock
  <1>1. ASSUME NEW m \in Concerned(b, "sending") PROVE m \in rows \ failed
    <2>1. m \in Memo /\ \E lt \in Lts : txs[lt].at = b /\ IsSending(lt, m)
      BY <1>1, ConcernedIff DEF IsSending
    <2>2. PICK lt \in Lts : txs[lt].at = b /\ IsSending(lt, m)
      BY <2>1
    <2>3. m \in rows
      BY <2>1, <2>2, EventRow
    <2>4. ASSUME NEW l \in Lts, IsEnd(l, m), txs[l].at =< lastBlock PROVE FALSE
      <3>1. PICK k \in Lts : k < l /\ IsSending(k, m)
        BY <2>1, <2>4 DEF IInv, EndInv
      <3>2. k = lt
        BY <2>1, <2>2, <3>1 DEF IInv, SendingInv
      <3>3. txs[lt].at =< txs[l].at
        BY <3>1, <3>2 DEF IInv, ChainInv
      <3>4. txs[l].at \in Nat
        BY TxType DEF IInv
      <3> QED BY <1>0, <2>2, <2>4, <3>3, <3>4
    <2>5. m \notin failed
      BY <2>2, <2>4 DEF IInv, FailedInv, Over
    <2> QED BY <2>3, <2>5
  <1>2. ASSUME NEW m \in Concerned(b, "transfer") \cup Concerned(b, "failed")
        PROVE  m \in rows \ failed /\ m \in SendingConfirmed(b)
    <2>1. m \in Memo /\ \E lt \in Lts : txs[lt].at = b /\ IsEnd(lt, m)
      <3>1. PICK kind \in {"transfer", "failed"} : m \in Concerned(b, kind)
        BY <1>2
      <3> QED BY <3>1, ConcernedIff DEF IsEnd
    <2>2. PICK lt \in Lts : txs[lt].at = b /\ IsEnd(lt, m)
      BY <2>1
    <2>3. m \in rows
      BY <2>1, <2>2, EventRow
    <2>4. PICK k \in Lts : k < lt /\ IsSending(k, m)
      BY <2>1, <2>2 DEF IInv, EndInv
    <2>5. m \notin failed
      <3>1. ASSUME NEW l \in Lts, IsEnd(l, m), txs[l].at =< lastBlock PROVE FALSE
        <4>1. l = lt
          BY <2>1, <2>2, <3>1 DEF IInv, EndInv
        <4>2. b =< lastBlock
          BY <2>2, <3>1, <4>1
        <4> QED BY <1>0, <4>2
      <3> QED BY <2>4, <3>1 DEF IInv, FailedInv, Over
    <2>6. txs[k].at =< lastBlock \/ txs[k].at = b
      <3>1. txs[k].at =< b
        BY <2>2, <2>4 DEF IInv, ChainInv
      <3> QED BY <1>0, <3>1
    <2>7. CASE txs[k].at =< lastBlock
      <3>1. k \in Saved("sending") /\ m \in txs[k].memos
        BY <2>4, <2>7, SavedIff DEF IsSending
      <3> QED BY <2>1, <2>3, <2>5, <3>1 DEF IInv, ColumnInv, SendingConfirmed
    <2>8. CASE txs[k].at = b
      <3>1. m \in Concerned(b, "sending")
        BY <2>1, <2>4, <2>8, ConcernedIff DEF IsSending
      <3> QED BY <2>3, <2>5, <3>1 DEF SendingConfirmed
    <2> QED BY <2>6, <2>7, <2>8
  <1>3. \A lt \in Lts : txs[lt].kind # "foreign"
    BY DEF Undisturbed, Lts
  <1>4. BlockTxs(b, "foreign") = {} /\ \A m : Events(b, "foreign", m) = {}
    BY <1>3 DEF BlockTxs, Events, Lts
  <1>5. ASSUME NEW m \in Memo PROVE \A lt \in Ends(b, m) : lt \in Lts /\ IsEnd(lt, m)
    BY <1>4 DEF Ends, Failures, Events, BlockTxs, IsEnd, Lts
  <1>6. ASSUME NEW m \in Memo, Ends(b, m) # {} PROVE m \in Concerned(b, "transfer") \cup Concerned(b, "failed")
    BY <1>4, <1>6 DEF Ends, Failures, Concerned
  <1>7. ASSUME NEW m \in Memo, NEW k \in Failures(b, m), NEW l \in Ends(b, m) PROVE k = l
    <2>1. k \in Ends(b, m)
      BY DEF Ends
    <2> QED BY <1>5, <2>1 DEF IInv, EndInv
  <1> QED BY <1>1, <1>2, <1>4, <1>6, <1>7 DEF Impossible

\* A column is filled when the blocks up to b have a transaction of the kind.
Fills(lt, kind, m, b) ==
  lt # 0 <=> \E k \in Lts : txs[k].kind = kind /\ txs[k].at =< b /\ m \in txs[k].memos

\* A column that was right for the saved blocks is right with the next one.
LEMMA NewLtFills ==
  ASSUME IInv, NEW b \in Time, IsNextBlock(b), NEW kind, NEW m \in Memo, NEW old \in 0..Len(txs),
         Fills(old, kind, m, lastBlock)
  PROVE  /\ NewLt(b, kind, m, old) \in 0..Len(txs)
         /\ old # 0 => NewLt(b, kind, m, old) # 0
         /\ Fills(NewLt(b, kind, m, old), kind, m, b)
PROOF
  <1>0. \A lt \in Lts : txs[lt].at =< b <=> txs[lt].at =< lastBlock \/ txs[lt].at = b
    BY NextBlock
  <1>1. CASE m \in Concerned(b, kind)
    <2>1. NewLt(b, kind, m, old) \in Events(b, kind, m)
      BY <1>1, NewLtType DEF IInv
    <2>2. NewLt(b, kind, m, old) \in 1..Len(txs)
      BY <2>1 DEF Events, BlockTxs
    <2>3. \E lt \in Lts : txs[lt].kind = kind /\ txs[lt].at =< b /\ m \in txs[lt].memos
      BY <1>0, <1>1, ConcernedIff
    <2> QED BY <2>2, <2>3 DEF Fills
  <1>2. CASE m \notin Concerned(b, kind)
    <2>1. NewLt(b, kind, m, old) = old
      BY <1>2 DEF NewLt
    <2>2. \A lt \in Lts : txs[lt].kind = kind /\ m \in txs[lt].memos => txs[lt].at # b
      BY <1>2, ConcernedIff
    <2> QED BY <1>0, <2>1, <2>2 DEF Fills
  <1> QED BY <1>1, <1>2

\* The scanner accepts the block: its events are those that the tables expect.
LEMMA SaveParsedBlockDataIInv ==
  ASSUME IInv, TypeInv', NEW b \in Time, NEW order \in Orders, SaveParsedBlockData(b, order)
  PROVE  IInv'
PROOF
  <1>a. CASE Impossible(b, order)
    <2>1. /\ IsNextBlock(b) /\ Volatile
          /\ UNCHANGED <<rows, from, sending, finish, failed, amount, incomes, lastBlock, blocks,
                         now, txs, balance, head, sent, transit>>
      BY <1>a DEF SaveParsedBlockData
    <2>2. ~Undisturbed
      BY <1>a, <2>1, BlockIsPossible
    <2> QED BY <2>1, <2>2, VolatileIInv DEF chain
  <1> SUFFICES ASSUME ~Impossible(b, order) PROVE IInv'
    BY <1>a
  <1>0. /\ IsNextBlock(b)
        /\ incomes' = incomes \cup BlockTxs(b, "payment")
        /\ sending' = [m \in Memo |-> NewLt(b, "sending", m, sending[m])]
        /\ finish' = [m \in Memo |-> NewLt(b, "transfer", m, finish[m])]
        /\ amount' = [m \in Memo |-> IF m \in Succeeded(b) THEN amount[m] + value[m] ELSE amount[m]]
        /\ failed' = failed \cup {m \in Memo : Failures(b, m) # {}}
        /\ lastBlock' = b /\ blocks' = blocks \ {b}
        /\ UNCHANGED <<rows, from, since, exp, processor, expirer, fatal>>
        /\ UNCHANGED <<now, txs, balance, head, sent, transit>>
    BY DEF SaveParsedBlockData
  <1> USE TimeAssumption DEF processor, expirer
  <1>1. /\ b \in blocks /\ b \in Nat /\ lastBlock \in Nat /\ lastBlock < b
        /\ \A lt \in Lts : txs[lt].at =< b <=> txs[lt].at =< lastBlock \/ txs[lt].at = b
        /\ \A c \in blocks : b =< c
    BY <1>0, NextBlock DEF IsNextBlock
  <1>2. /\ Lts' = Lts
        /\ \A lt, m : (IsSending(lt, m)' <=> IsSending(lt, m)) /\ (IsEnd(lt, m)' <=> IsEnd(lt, m))
    BY <1>0 DEF Lts, IsSending, IsEnd
  <1>3. \A kind, lt : lt \in Saved(kind)' <=> lt \in Lts /\ txs[lt].kind = kind /\ txs[lt].at =< b
    BY <1>0 DEF Saved, Lts
  <1>4. ASSUME NEW m \in Memo
        PROVE  /\ finish'[m] \in 0..Len(txs) /\ sending'[m] \in 0..Len(txs)
               /\ finish[m] # 0 => finish'[m] # 0
               /\ sending'[m] # 0 <=> \E lt \in Saved("sending")' : m \in txs[lt].memos
               /\ finish'[m] # 0 <=> \E lt \in Saved("transfer")' : m \in txs[lt].memos
    <2>1. sending[m] \in 0..Len(txs) /\ finish[m] \in 0..Len(txs) /\ IsNextBlock(b)
      BY <1>0 DEF IInv, TypeInv
    <2>2. Fills(sending[m], "sending", m, lastBlock) /\ Fills(finish[m], "transfer", m, lastBlock)
      BY SavedIff DEF IInv, ColumnInv, Fills
    <2>3. /\ sending'[m] = NewLt(b, "sending", m, sending[m])
          /\ finish'[m] = NewLt(b, "transfer", m, finish[m])
      BY <1>0
    <2>4. sending'[m] \in 0..Len(txs) /\ Fills(sending'[m], "sending", m, b)
      BY <2>1, <2>2, <2>3, NewLtFills
    <2>5. /\ finish'[m] \in 0..Len(txs) /\ Fills(finish'[m], "transfer", m, b)
          /\ finish[m] # 0 => finish'[m] # 0
      BY <2>1, <2>2, <2>3, NewLtFills
    <2>6. /\ sending'[m] # 0 <=> \E lt \in Saved("sending")' : m \in txs[lt].memos
          /\ finish'[m] # 0 <=> \E lt \in Saved("transfer")' : m \in txs[lt].memos
      BY <1>3, <2>4, <2>5 DEF Fills
    <2> QED BY <2>4, <2>5, <2>6
  <1>5. NoOwnFatal' /\ (Undisturbed' <=> Undisturbed)
    BY <1>0 DEF IInv, NoOwnFatal, Undisturbed
  <1>6. ChainInv'
    <2>1. head \in Nat /\ blocks \subseteq Nat
      BY DEF IInv, TypeInv, Time
    <2>2. head = b \/ head \in blocks \ {b}
      BY <1>1, <2>1 DEF IInv, ChainInv
    <2>3. \A c \in blocks \ {b} : b + BlockGap =< c /\ c =< head
      BY <1>1, <2>1 DEF IInv, ChainInv
    <2>4. \A lt \in Lts : txs[lt].at =< b \/ txs[lt].at \in blocks \ {b}
      BY <1>1 DEF IInv, ChainInv
    <2>5. /\ \A c, e \in blocks \ {b} : c < e => c + BlockGap =< e
          /\ \A k, l \in Lts : k < l => txs[k].at =< txs[l].at
      BY DEF IInv, ChainInv
    <2> QED BY <1>0, <1>2, <2>2, <2>3, <2>4, <2>5 DEF ChainInv
  <1>7. BatchInv'
    BY <1>0 DEF IInv, BatchInv
  <1>8. SentInv' /\ TransitInv' /\ SendingInv' /\ EndInv'
    <2>1. UNCHANGED <<txs, sent, transit, rows, batch, exp>>
      BY <1>0
    <2> QED BY <1>2, <2>1 DEF IInv, SentInv, TransitInv, SendingInv, EndInv
  <1>9. ColumnInv'
    BY <1>0, <1>4 DEF ColumnInv
  <1>10. FailedInv'
    <2>1. ASSUME Undisturbed, NEW m \in failed'
          PROVE  \/ \E lt \in Lts : IsEnd(lt, m) /\ txs[lt].at =< b
                 \/ (\A lt \in Lts : ~IsSending(lt, m)) /\ exp[m] < b + BlockGap
      <3>1. CASE Failures(b, m) # {}
        <4>1. PICK lt \in Failures(b, m) : TRUE
          BY <3>1
        <4>2. lt \in Lts /\ txs[lt].at = b /\ txs[lt].kind = "failed" /\ m \in txs[lt].memos
          BY <2>1 DEF Failures, Events, BlockTxs, Lts, Undisturbed
        <4> QED BY <1>1, <4>2 DEF IsEnd
      <3>2. CASE m \in failed
        <4>1. exp[m] \in Nat
          BY <3>2 DEF IInv, TypeInv
        <4>2. exp[m] < lastBlock + BlockGap => exp[m] < b + BlockGap
          BY <1>1, <4>1
        <4> QED BY <1>1, <2>1, <3>2, <4>2 DEF IInv, FailedInv, Over
      <3> QED BY <1>0, <2>1, <3>1, <3>2
    <2>2. epc = "expire" => etime - b < Lag
      <3>1. etime \in Nat
        BY DEF IInv, TypeInv, Time
      <3>2. epc = "expire" => etime - lastBlock < Lag
        BY DEF IInv, FailedInv
      <3> QED BY <1>1, <3>1, <3>2
    <2> QED BY <1>0, <1>2, <1>5, <2>1, <2>2 DEF FailedInv, Over
  <1>11. LastInv'
    <2> SUFFICES ASSUME NEW m \in rows \ failed', NEW n \in rows \ failed',
                        m # n, from[m] = from[n], finish'[m] = 0
                 PROVE  since[n] < since[m]
      BY <1>0 DEF LastInv
    <2>1. m \in rows \ failed /\ n \in rows \ failed /\ m \in Memo
      BY <1>0 DEF IInv, TypeInv
    <2>2. finish[m] = 0
      BY <1>4, <2>1
    <2> QED BY <2>1, <2>2 DEF IInv, LastInv
  <1>12. TaskInv'
    <2>1. ASSUME NEW c, NEW lt, Free(c, lt) PROVE Free(c, lt)'
      <3> SUFFICES ASSUME NEW n \in rows \ failed', from[n] = c
                   PROVE  finish'[n] # 0 /\ since[n] < lt
        BY <1>0 DEF Free
      <3>1. n \in rows \ failed /\ n \in Memo
        BY <1>0 DEF IInv, TypeInv
      <3> QED BY <1>4, <2>1, <3>1 DEF Free
    <2>2. ASSUME NEW d \in Deposit, tasks[d] # 0 PROVE Free(d, tasks[d])'
      <3>1. PICK q : q = tasks[d]
        OBVIOUS
      <3>2. Free(d, q)'
        BY <2>1, <2>2, <3>1 DEF IInv, TaskInv
      <3> QED BY <1>0, <3>1, <3>2
    <2>3. ASSUME NEW m \in batch \ rows PROVE Free(from[m], since[m])'
      <3>1. PICK c, q : c = from[m] /\ q = since[m]
        OBVIOUS
      <3>2. Free(c, q)'
        BY <2>1, <2>3, <3>1 DEF IInv, TaskInv
      <3> QED BY <1>0, <3>1, <3>2
    <2>4. UNCHANGED <<tasks, batch, rows, from>>
      BY <1>0
    <2>5. /\ \A d \in Deposit : tasks[d] # 0 => \A m \in batch : from[m] # d
          /\ \A m, n \in batch : from[m] = from[n] => m = n
      BY DEF IInv, TaskInv
    <2> QED BY <2>2, <2>3, <2>4, <2>5 DEF TaskInv
  <1>13. AmountsAgree'
    <2> SUFFICES ASSUME NEW m \in Memo
                 PROVE  amount'[m] = IF \E lt \in Saved("transfer")' : m \in txs[lt].memos
                                     THEN value[m] ELSE 0
      BY <1>0 DEF AmountsAgree
    <2>0. amount[m] = IF \E lt \in Saved("transfer") : m \in txs[lt].memos THEN value[m] ELSE 0
      BY DEF IInv, AmountsAgree
    <2>1. CASE m \in Succeeded(b)
      <3>1. PICK lt \in Lts : txs[lt].at = b /\ txs[lt].kind = "transfer" /\ m \in txs[lt].memos
        BY <2>1, ConcernedIff DEF Succeeded
      <3>2. ASSUME NEW k \in Saved("transfer"), m \in txs[k].memos PROVE FALSE
        <4>1. k \in Lts /\ IsEnd(k, m) /\ IsEnd(lt, m) /\ txs[k].at =< lastBlock
          BY <3>1, <3>2, SavedIff DEF IsEnd
        <4>2. k = lt
          BY <4>1 DEF IInv, EndInv
        <4> QED BY <1>1, <3>1, <4>1, <4>2
      <3>3. amount[m] = 0 /\ value[m] \in Nat
        BY <2>0, <3>2 DEF IInv, TypeInv
      <3>4. lt \in Saved("transfer")'
        BY <1>1, <1>3, <3>1
      <3>5. amount'[m] = amount[m] + value[m]
        BY <1>0, <2>1
      <3> QED BY <3>1, <3>3, <3>4, <3>5
    <2>2. CASE m \notin Succeeded(b)
      <3>1. \A lt \in Lts : txs[lt].kind = "transfer" /\ m \in txs[lt].memos => txs[lt].at # b
        BY <2>2, ConcernedIff DEF Succeeded
      <3>2. (\E lt \in Saved("transfer")' : m \in txs[lt].memos)
              <=> (\E lt \in Saved("transfer") : m \in txs[lt].memos)
        BY <1>1, <1>3, <3>1, SavedIff
      <3> QED BY <1>0, <2>0, <2>2, <3>2
    <2> QED BY <2>1, <2>2
  <1> QED BY <1>5, <1>6, <1>7, <1>8, <1>9, <1>10, <1>11, <1>12, <1>13 DEF IInv

-----------------------------------------------------------------------------
(* The theorems. *)

\* Tables, chain and the goroutines' state keep their types, whatever the
\* timing of the expiration processor.
THEOREM TypeCorrect == Spec => []TypeOK
PROOF
  <1> DEFINE T == TypeInv /\ (fatal = TRUE \/ fatal = FALSE)
  <1>1. Init => T
    BY TimeAssumption, SetAssumption DEF Init, TypeInv, Time, NoTasks, Tx
  <1>2. T /\ [Next]_vars => T'
    <2> SUFFICES ASSUME T, [Next]_vars PROVE T'
      OBVIOUS
    <2>1. TypeInv'
      BY TypeNext
    <2>2. fatal' = fatal \/ fatal' = TRUE
      BY DEF Next, vars, Tick, NewBlock, AddTx, Pay, ExecuteBatch, Transfer, ForeignTransfer, WithdrawalsWaitSync,
             GetJettonInternalWithdrawalTasks, SkipTask, BuildJettonInternalWithdrawalMessage,
             BuildExternalMessage, SaveInternalWithdrawalTask, SendExternalMessage,
             ExpirationWaitSync, SetExpired, SaveParsedBlockData, Restart
    <2> QED BY <2>1, <2>2
  <1>3. T => TypeOK
    BY DEF TypeInv, TypeOK
  <1> QED BY <1>1, <1>2, <1>3, PTL DEF Spec

\* Every step of the processors, the scanner and the chain keeps IInv, as long
\* as SetExpired's delay fits the distance of blocks.
THEOREM Invariance == SafeTiming /\ Spec => []IInv
PROOF
  <1> SUFFICES ASSUME SafeTiming PROVE Spec => []IInv
    BY DEF SafeTiming
  <1>1. Init => IInv
    BY InitIInv
  <1>2. IInv /\ [Next]_vars => IInv'
    <2> SUFFICES ASSUME IInv, [Next]_vars PROVE IInv'
      OBVIOUS
    <2>0. TypeInv'
      BY TypeNext DEF IInv
    <2>1. CASE Tick
      BY <2>0, <2>1, TickIInv
    <2>2. ASSUME NEW t \in Time, NewBlock(t) PROVE IInv'
      BY <2>0, <2>2, NewBlockIInv
    <2>3. ASSUME NEW d \in Deposit, Pay(d) PROVE IInv'
      BY <2>0, <2>3, PayIInv
    <2>4. ASSUME NEW M \in sent, NEW S \in SUBSET M, ExecuteBatch(M, S) PROVE IInv'
      BY <2>0, <2>4, ExecuteBatchIInv
    <2>5. ASSUME NEW m \in Memo, Transfer(m) PROVE IInv'
      BY <2>0, <2>5, TransferIInv
    <2>6. CASE WithdrawalsWaitSync \/ \E d \in Deposit : SkipTask(d)
      BY <2>0, <2>6, ProcessorQuietIInv
    <2>7. CASE GetJettonInternalWithdrawalTasks
      BY <2>0, <2>7, GetTasksIInv
    <2>8. ASSUME NEW d \in Deposit, NEW m \in Memo, NEW n \in 0..Len(txs),
                 BuildJettonInternalWithdrawalMessage(d, m, n)
          PROVE  IInv'
      BY <2>0, <2>8, BuildMessageIInv
    <2>9. CASE BuildExternalMessage
      BY <2>0, <2>9, BuildExternalMessageIInv
    <2>10. ASSUME NEW m \in Memo, SaveInternalWithdrawalTask(m) PROVE IInv'
      BY <2>0, <2>10, SaveTaskIInv
    <2>11. CASE SendExternalMessage
      BY <2>0, <2>11, SendExternalMessageIInv
    <2>12. CASE ExpirationWaitSync
      BY <2>0, <2>12, ExpirationWaitSyncIInv
    <2>13. CASE SetExpired
      BY <2>0, <2>13, SetExpiredIInv
    <2>14. ASSUME NEW b \in Time, NEW order \in Orders, SaveParsedBlockData(b, order) PROVE IInv'
      BY <2>0, <2>14, SaveParsedBlockDataIInv
    <2>15. CASE Restart
      BY <2>0, <2>15, RestartIInv
    <2>16. CASE UNCHANGED vars
      BY <2>0, <2>16, StutterIInv
    <2>17. ASSUME NEW d \in Deposit, NEW M \in SUBSET Memo, ForeignTransfer(d, M) PROVE IInv'
      BY <2>0, <2>17, ForeignTransferIInv
    <2> QED BY <2>1, <2>2, <2>3, <2>4, <2>5, <2>6, <2>7, <2>8, <2>9, <2>10, <2>11, <2>12, <2>13, <2>14,
               <2>15, <2>16, <2>17 DEF Next
  <1> QED BY <1>1, <1>2, PTL DEF Spec

\* As long as nobody else sends a transfer to a deposit's Jetton wallet, the
\* scanner never meets a sending or a transfer that applySendingConfirmations
\* or updateInternalWithdrawal would refuse, for batches of any size, transfers
\* that fail or arrive late and accounts handled in any order.
THEOREM ScannerGoesOn == SafeTiming /\ Spec => []NoOwnFatal
PROOF
  <1>1. IInv => NoOwnFatal
    BY DEF IInv
  <1> QED BY <1>1, Invariance, PTL

\* A Jetton deposit never gets a second withdrawal while one is under way,
\* although the rows of a batch are inserted one by one.
THEOREM OneWithdrawalUnderWay == SafeTiming /\ Spec => []OnePending
PROOF
  <1>1. IInv => OnePending
    <2> SUFFICES ASSUME IInv, NEW m \in Pending, NEW n \in Pending, from[m] = from[n], m # n
                 PROVE  FALSE
      BY DEF OnePending
    <2>1. since[n] < since[m] /\ since[m] < since[n]
      BY DEF IInv, LastInv, Pending
    <2>2. since[m] \in Nat /\ since[n] \in Nat
      BY DEF IInv, TypeInv, Pending
    <2> QED BY <2>1, <2>2
  <1> QED BY <1>1, Invariance, PTL

\* The amount of a row is that of its one successful transfer, and nothing
\* while there is none, though the value in a message is lost with its batch.
THEOREM AmountsAreTransferred == SafeTiming /\ Spec => []AmountsAgree
PROOF
  <1>1. IInv => AmountsAgree
    BY DEF IInv
  <1> QED BY <1>1, Invariance, PTL

-----------------------------------------------------------------------------
(* What is left on a deposit.  The Jettons of d after the first n             *)
(* transactions are the payments less the values of the transfers, and no     *)
(* payment is forgotten because the value of a withdrawal that is not stale   *)
(* is what the deposit held at some point after the newest income of its      *)
(* task, before its own transfer.                                             *)

IsTransfer(lt, m) == txs[lt].kind = "transfer" /\ m \in txs[lt].memos

Payments(n, d) == {lt \in 1..n : txs[lt].kind = "payment" /\ txs[lt].dep = d}

Moved(n, d) == {m \in Memo : from[m] = d /\ \E lt \in 1..n : IsTransfer(lt, m)}

Held(n, d) == Cardinality(Payments(n, d)) - SumOf(value, Moved(n, d))

\* external_incomes has the payments of the saved blocks.
RecordInv == IsFiniteSet(rows) /\ incomes = Saved("payment")

\* The chain's balances, now and after every transaction.
BalanceInv ==
  \A d \in Deposit :
    /\ balance[d] = Held(Len(txs), d)
    /\ \A n \in 0..Len(txs) : Held(n, d) \in Nat
    /\ \A n \in Lts : txs[n].left[d] = Held(n, d)

ValueAt(m, n) ==
  /\ value[m] = Held(n, from[m])
  /\ \A lt \in Lts : IsTransfer(lt, m) => n < lt

ValueInv == \A m \in (batch \cup rows) \ stale : \E n \in since[m]..Len(txs) : ValueAt(m, n)

HeldInv == RecordInv /\ BalanceInv /\ ValueInv

\* The sets that Held counts are finite.
LEMMA MovedFinite ==
  ASSUME IInv, RecordInv, NEW n \in 0..Len(txs), NEW d
  PROVE  /\ Moved(n, d) \subseteq rows /\ IsFiniteSet(Moved(n, d)) /\ IsFiniteSet(Payments(n, d))
         /\ \A m \in Moved(n, d) : value[m] \in Nat
PROOF
  <1>1. Len(txs) \in Nat /\ value \in [Memo -> Nat]
    BY DEF IInv, TypeInv
  <1>2. ASSUME NEW m \in Moved(n, d) PROVE m \in rows /\ value[m] \in Nat
    <2>1. PICK lt \in 1..n : IsTransfer(lt, m)
      BY DEF Moved
    <2>2. lt \in Lts /\ IsEnd(lt, m) /\ m \in Memo
      BY <1>1, <2>1 DEF Lts, IsTransfer, IsEnd, Moved
    <2> QED BY <1>1, <2>2, EventRow
  <1>3. IsFiniteSet(Moved(n, d))
    BY <1>2, FS_Subset DEF RecordInv
  <1>4. IsFiniteSet(Payments(n, d))
    <2>1. IsFiniteSet(1..n)
      BY <1>1, FS_Interval
    <2>2. Payments(n, d) \in SUBSET (1..n)
      BY DEF Payments
    <2> QED BY <2>1, <2>2, FS_Subset
  <1> QED BY <1>2, <1>3, <1>4

\* What the first transactions left is never changed.
LEMMA HeldKept ==
  ASSUME IInv, RecordInv, NEW n \in 0..Len(txs), NEW d,
         \A lt \in Lts : txs'[lt] = txs[lt],
         \A m \in Memo, lt \in Lts : IsTransfer(lt, m) => from'[m] = from[m] /\ value'[m] = value[m]
  PROVE  Held(n, d)' = Held(n, d)
PROOF
  <1>1. Len(txs) \in Nat /\ 1..n \subseteq Lts
    BY DEF IInv, TypeInv, Lts
  <1>2. \A lt \in 1..n : txs'[lt] = txs[lt]
    BY <1>1
  <1>3. Payments(n, d)' = Payments(n, d)
    BY <1>2 DEF Payments
  <1>4. Moved(n, d)' = Moved(n, d)
    BY <1>1, <1>2 DEF Moved, IsTransfer
  <1>5. IsFiniteSet(Moved(n, d)) /\ \A m \in Moved(n, d) : value[m] \in Nat
    BY MovedFinite
  <1>6. \A m \in Moved(n, d) : value[m] = value'[m] /\ value[m] \in Int
    BY <1>1, <1>5 DEF Moved
  <1> DEFINE S == Moved(n, d)
             v == value'
  <1>7. SumOf(value, S) = SumOf(v, S)
    <2>1. IsFiniteSet(S) /\ \A m \in S : value[m] = v[m] /\ value[m] \in Int
      BY <1>5, <1>6
    <2> HIDE DEF S, v
    <2> QED BY <2>1, SumAgrees
  <1>8. Held(n, d)' = Cardinality(Payments(n, d)') - SumOf(value', Moved(n, d)')
    BY DEF Held
  <1> QED BY <1>3, <1>4, <1>7, <1>8 DEF Held

\* Steps that add no transaction.
LEMMA QuietHeld ==
  ASSUME IInv, HeldInv, TypeInv', UNCHANGED <<txs, balance>>,
         \A m \in rows : from'[m] = from[m] /\ since'[m] = since[m] /\ value'[m] = value[m],
         \A m \in (batch' \cup rows') \ stale' :
           \/ /\ m \in (batch \cup rows) \ stale
              /\ from'[m] = from[m] /\ since'[m] = since[m] /\ value'[m] = value[m]
           \/ /\ m \notin rows /\ since'[m] \in Nat
              /\ \E n \in since'[m]..Len(txs) : value'[m] = Held(n, from'[m])
  PROVE  BalanceInv' /\ ValueInv'
PROOF
  <1>0. Len(txs) \in Nat /\ Lts' = Lts /\ txs' = txs /\ balance' = balance
    BY DEF IInv, TypeInv, Lts
  <1>1. \A m \in Memo, lt \in Lts : IsTransfer(lt, m) => m \in rows
    BY EventRow DEF IsTransfer, IsEnd
  <1>2. \A lt, m : IsTransfer(lt, m)' <=> IsTransfer(lt, m)
    BY <1>0 DEF IsTransfer
  <1>3. \A n \in 0..Len(txs) : \A d : Held(n, d)' = Held(n, d)
    BY <1>0, <1>1, HeldKept DEF HeldInv
  <1>4. BalanceInv'
    <2> SUFFICES ASSUME NEW d \in Deposit
                 PROVE  /\ balance[d] = Held(Len(txs), d)' /\ \A n \in 0..Len(txs) : Held(n, d)' \in Nat
                        /\ \A n \in Lts : txs[n].left[d] = Held(n, d)'
      BY <1>0 DEF BalanceInv
    <2>1. /\ balance[d] = Held(Len(txs), d) /\ \A n \in 0..Len(txs) : Held(n, d) \in Nat
          /\ \A n \in Lts : txs[n].left[d] = Held(n, d)
      BY DEF HeldInv, BalanceInv
    <2>2. \A n \in 0..Len(txs) : Held(n, d)' = Held(n, d)
      BY <1>3
    <2>3. Len(txs) \in 0..Len(txs) /\ \A n \in Lts : n \in 0..Len(txs)
      BY <1>0 DEF Lts
    <2>4. PICK q : q = Len(txs)
      OBVIOUS
    <2>5. Held(q, d)' = Held(q, d)
      BY <2>2, <2>3, <2>4
    <2>6. Held(q, d)' = Held(Len(txs), d)'
      BY <1>0, <2>4
    <2> QED BY <2>1, <2>2, <2>3, <2>4, <2>5, <2>6
  <1>5. ASSUME NEW m \in (batch' \cup rows') \ stale'
        PROVE  \E n \in since'[m]..Len(txs) : ValueAt(m, n)'
    <2>0. m \in Memo
      BY DEF TypeInv
    <2>1. CASE /\ m \in (batch \cup rows) \ stale
               /\ from'[m] = from[m] /\ since'[m] = since[m] /\ value'[m] = value[m]
      <3>1. PICK n \in since[m]..Len(txs) : ValueAt(m, n)
        BY <2>1 DEF HeldInv, ValueInv
      <3>2. n \in 0..Len(txs)
        BY <1>0, <2>1 DEF IInv, TypeInv
      <3>3. value'[m] = Held(n, from[m])'
        BY <1>3, <2>1, <3>1, <3>2 DEF ValueAt
      <3>4. \A lt \in Lts : IsTransfer(lt, m)' => n < lt
        BY <1>2, <3>1 DEF ValueAt
      <3>5. ValueAt(m, n)'
        BY <1>0, <2>1, <3>3, <3>4 DEF ValueAt
      <3> QED BY <2>1, <3>1, <3>5
    <2>2. CASE /\ m \notin rows /\ since'[m] \in Nat
               /\ \E n \in since'[m]..Len(txs) : value'[m] = Held(n, from'[m])
      <3>1. PICK n \in since'[m]..Len(txs) : value'[m] = Held(n, from'[m])
        BY <2>2
      <3>2. PICK d : d = from'[m]
        OBVIOUS
      <3>3. n \in 0..Len(txs)
        BY <1>0, <2>2, <3>1
      <3>4. value'[m] = Held(n, d)'
        BY <1>3, <3>1, <3>2, <3>3
      <3>5. \A lt \in Lts : ~IsTransfer(lt, m)'
        BY <1>1, <1>2, <2>0, <2>2
      <3>6. ValueAt(m, n)'
        BY <1>0, <3>2, <3>4, <3>5 DEF ValueAt
      <3> QED BY <3>1, <3>6
    <2> QED BY <2>1, <2>2
  <1> QED BY <1>0, <1>4, <1>5 DEF ValueInv

\* Steps that change neither the transactions nor what the tables say of them.
LEMMA QuietRecords ==
  ASSUME RecordInv, UNCHANGED <<txs, incomes, lastBlock, rows>>
  PROVE  RecordInv'
PROOF
  BY DEF RecordInv, Saved

\* A transfer on its way has not moved anything.
LEMMA TransitNotMoved ==
  ASSUME IInv, NEW m \in transit
  PROVE  \A lt \in Lts : ~IsTransfer(lt, m)
PROOF
  BY DEF IInv, TransitInv, IsTransfer, IsEnd

\* A new transaction leaves what was held before, and the tables.
LEMMA AppendHeld ==
  ASSUME IInv, HeldInv, IInv', NEW x \in Tx, txs' = Append(txs, x), x.at = head, head \in blocks,
         UNCHANGED <<incomes, lastBlock, table, processor>>,
         balance' = x.left, \A d \in Deposit : balance'[d] = Held(Len(txs), d)' /\ balance'[d] \in Nat
  PROVE  HeldInv'
PROOF
  <1> USE DEF table, processor
  <1>0. /\ Len(txs) \in Nat /\ Len(txs') = Len(txs) + 1 /\ Lts' = Lts \cup {Len(txs')}
        /\ Len(txs') \notin Lts /\ Lts \subseteq Nat
        /\ \A lt \in Lts : txs'[lt] = txs[lt] /\ lt < Len(txs')
        /\ txs'[Len(txs')] = x
    BY AppendEvents DEF IInv
  <1>1. \A lt \in Lts : \A m : IsTransfer(lt, m)' <=> IsTransfer(lt, m)
    BY <1>0 DEF IsTransfer
  <1>2. \A n \in 0..Len(txs) : \A d : Held(n, d)' = Held(n, d)
    BY <1>0, HeldKept DEF HeldInv
  <1>3. RecordInv'
    <2>1. ~(x.at =< lastBlock)
      <3>1. head \in Nat /\ lastBlock \in Nat /\ lastBlock < head
        BY TimeAssumption DEF IInv, ChainInv, TypeInv, Time
      <3> QED BY <3>1
    <2>2. Saved("payment")' = Saved("payment")
      BY <1>0, <2>1 DEF Saved, Lts
    <2> QED BY <2>2 DEF HeldInv, RecordInv
  <1>4. BalanceInv'
    <2>0. ASSUME NEW d \in Deposit, NEW n \in Lts' PROVE txs'[n].left[d] = Held(n, d)'
      <3>1. CASE n \in Lts
        <4>1. n \in 0..Len(txs)
          BY <1>0, <3>1 DEF Lts
        <4> QED BY <1>0, <1>2, <3>1, <4>1 DEF HeldInv, BalanceInv
      <3>2. CASE n = Len(txs')
        BY <1>0, <3>2
      <3> QED BY <1>0, <3>1, <3>2
    <2> SUFFICES ASSUME NEW d \in Deposit, NEW n \in 0..Len(txs') PROVE Held(n, d)' \in Nat
      BY <2>0 DEF BalanceInv
    <2>1. CASE n \in 0..Len(txs)
      BY <1>2, <2>1 DEF HeldInv, BalanceInv
    <2>2. CASE n = Len(txs')
      BY <2>2
    <2> QED BY <1>0, <2>1, <2>2
  <1>5. ValueInv'
    <2> SUFFICES ASSUME NEW m \in (batch \cup rows) \ stale
                 PROVE  \E n \in since[m]..Len(txs') : ValueAt(m, n)'
      BY DEF ValueInv
    <2>1. PICK n \in since[m]..Len(txs) : ValueAt(m, n)
      BY DEF HeldInv, ValueInv
    <2>2. since[m] \in Nat /\ m \in Memo
      BY DEF IInv, TypeInv
    <2>3. n \in 0..Len(txs) /\ n \in since[m]..Len(txs') /\ n < Len(txs')
      BY <1>0, <2>1, <2>2
    <2>4. value'[m] = Held(n, from[m])'
      BY <1>2, <2>1, <2>3 DEF ValueAt
    <2>5. \A lt \in Lts' : IsTransfer(lt, m)' => n < lt
      BY <1>0, <1>1, <2>1, <2>3 DEF ValueAt
    <2>6. ValueAt(m, n)'
      BY <2>4, <2>5 DEF ValueAt
    <2> QED BY <2>3, <2>6
  <1> QED BY <1>3, <1>4, <1>5 DEF HeldInv

\* What the newest transaction changes.
LEMMA SetsAppended ==
  ASSUME IInv, RecordInv, NEW x \in Tx, txs' = Append(txs, x), UNCHANGED <<from, value>>, NEW d \in Deposit
  PROVE  /\ Held(Len(txs), d)' = Cardinality(Payments(Len(txs), d)') - SumOf(value, Moved(Len(txs), d)')
         /\ Payments(Len(txs), d)' = Payments(Len(txs), d)
              \cup (IF x.kind = "payment" /\ x.dep = d THEN {Len(txs')} ELSE {})
         /\ Moved(Len(txs), d)' = Moved(Len(txs), d)
              \cup {m \in Memo : from[m] = d /\ x.kind = "transfer" /\ m \in x.memos}
         /\ Len(txs') \notin Payments(Len(txs), d)
         /\ IsFiniteSet(Moved(Len(txs), d)) /\ IsFiniteSet(Payments(Len(txs), d))
         /\ \A m \in Moved(Len(txs), d) : value[m] \in Nat
         /\ Cardinality(Payments(Len(txs), d)) \in Nat /\ SumOf(value, Moved(Len(txs), d)) \in Nat
PROOF
  <1>0. /\ Len(txs) \in Nat /\ Len(txs') = Len(txs) + 1 /\ Lts' = Lts \cup {Len(txs')}
        /\ Len(txs') \notin Lts /\ Lts \subseteq Nat
        /\ \A lt \in Lts : txs'[lt] = txs[lt] /\ lt < Len(txs')
        /\ txs'[Len(txs')] = x
    BY AppendEvents DEF IInv
  <1>1. Held(Len(txs), d)' = Cardinality(Payments(Len(txs), d)') - SumOf(value, Moved(Len(txs), d)')
    BY DEF Held
  <1>2. Payments(Len(txs), d)' = Payments(Len(txs), d)
              \cup (IF x.kind = "payment" /\ x.dep = d THEN {Len(txs')} ELSE {})
    BY <1>0 DEF Payments, Lts
  <1>3. Moved(Len(txs), d)' = Moved(Len(txs), d)
              \cup {m \in Memo : from[m] = d /\ x.kind = "transfer" /\ m \in x.memos}
    BY <1>0 DEF Moved, Lts, IsTransfer
  <1>4. Len(txs') \notin Payments(Len(txs), d)
    BY <1>0 DEF Payments, Lts
  <1>5. /\ IsFiniteSet(Moved(Len(txs), d)) /\ IsFiniteSet(Payments(Len(txs), d))
        /\ \A m \in Moved(Len(txs), d) : value[m] \in Nat
    <2>1. Len(txs) \in 0..Len(txs)
      BY <1>0
    <2> QED BY <2>1, MovedFinite
  <1>6. Cardinality(Payments(Len(txs), d)) \in Nat
    BY <1>5, FS_CardinalityType
  <1>7. SumOf(value, Moved(Len(txs), d)) \in Nat
    BY <1>5, SumOfNaturals
  <1> QED BY <1>1, <1>2, <1>3, <1>4, <1>5, <1>6, <1>7

\* Payments, transfers and the rest.
LEMMA PayHeld ==
  ASSUME IInv, HeldInv, IInv', NEW d \in Deposit, Pay(d)
  PROVE  HeldInv'
PROOF
  <1> DEFINE x == [kind |-> "payment", dep |-> d, memos |-> {}, at |-> head,
                   left |-> [balance EXCEPT ![d] = @ + 1]]
  <1>1. x \in Tx
    <2>1. [balance EXCEPT ![d] = @ + 1] \in [Deposit -> Nat]
      BY DEF IInv, TypeInv
    <2> QED BY <2>1 DEF Tx, IInv, TypeInv
  <1>2. /\ txs' = Append(txs, x) /\ x.at = head /\ head \in blocks /\ x.kind = "payment" /\ x.dep = d
        /\ UNCHANGED <<incomes, lastBlock, table, processor, from, value>>
        /\ balance' = [balance EXCEPT ![d] = @ + 1] /\ balance' = x.left
    BY DEF Pay, AddTx, table, processor
  <1> HIDE DEF x
  <1>3. balance \in [Deposit -> Nat]
    BY DEF IInv, TypeInv
  <1>4. ASSUME NEW c \in Deposit
        PROVE  balance'[c] = Held(Len(txs), c)' /\ balance'[c] \in Nat
    <2> DEFINE P == Payments(Len(txs), c)
               M == Moved(Len(txs), c)
               N == Len(txs')
    <2>0. /\ Held(Len(txs), c)' = Cardinality(P') - SumOf(value, M')
          /\ P' = P \cup (IF x.kind = "payment" /\ x.dep = c THEN {Len(txs')} ELSE {})
          /\ M' = M \cup {j \in Memo : from[j] = c /\ x.kind = "transfer" /\ j \in x.memos}
          /\ Len(txs') \notin P /\ IsFiniteSet(P) /\ IsFiniteSet(M) /\ \A j \in M : value[j] \in Nat
          /\ Cardinality(P) \in Nat /\ SumOf(value, M) \in Nat
      <3>1. RecordInv /\ UNCHANGED <<from, value>>
        BY <1>2 DEF HeldInv
      <3> QED BY ONLY IInv, <1>1, <1>2, <3>1, c \in Deposit, SetsAppended
    <2>1. /\ Held(Len(txs), c)' = Cardinality(P') - SumOf(value, M')
          /\ P' = P \cup (IF x.dep = c THEN {N} ELSE {}) /\ M' = M
          /\ N \notin P /\ IsFiniteSet(P) /\ Cardinality(P) \in Nat /\ SumOf(value, M) \in Nat
      BY ONLY <1>2, <2>0
    <2>2. balance[c] = Cardinality(P) - SumOf(value, M) /\ balance[c] \in Nat
      BY <1>3 DEF HeldInv, BalanceInv, Held
    <2>3. balance'[c] = balance[c] + (IF c = d THEN 1 ELSE 0)
      BY <1>2, <1>3
    <2>4. IsFiniteSet(P) /\ N \notin P => Cardinality(P \cup {N}) = Cardinality(P) + 1
      BY FS_AddElement
    <2> HIDE DEF P, M, N
    <2>5. CASE c = d
      BY <1>2, <2>1, <2>2, <2>3, <2>4, <2>5
    <2>6. CASE c # d
      <3>1. P' = P
        BY <1>2, <2>1, <2>6
      <3>2. Held(Len(txs), c)' = Cardinality(P) - SumOf(value, M)
        BY ONLY <2>1, <3>1
      <3>3. balance'[c] = balance[c] + 0
        BY <2>3, <2>6
      <3> QED BY ONLY <2>1, <2>2, <3>2, <3>3
    <2> QED BY <2>5, <2>6
  <1> QED BY <1>1, <1>2, <1>4, AppendHeld

\* A transaction that is neither a payment nor a successful transfer.
LEMMA OtherTxHeld ==
  ASSUME IInv, HeldInv, IInv', NEW kind \in {"sending", "failed", "foreign"}, NEW d \in Deposit,
         NEW M \in SUBSET Memo, AddTx(kind, d, M, balance)
  PROVE  HeldInv'
PROOF
  <1> DEFINE x == [kind |-> kind, dep |-> d, memos |-> M, at |-> head, left |-> balance]
  <1>1. x \in Tx
    BY DEF Tx, IInv, TypeInv
  <1>2. /\ txs' = Append(txs, x) /\ x.at = head /\ head \in blocks /\ x.kind \in {"sending", "failed", "foreign"}
        /\ UNCHANGED <<incomes, lastBlock, table, processor, from, value, balance>> /\ balance' = x.left
    BY DEF AddTx, table, processor
  <1> HIDE DEF x
  <1>3. ASSUME NEW c \in Deposit
        PROVE  balance'[c] = Held(Len(txs), c)' /\ balance'[c] \in Nat
    <2> DEFINE P == Payments(Len(txs), c)
               W == Moved(Len(txs), c)
    <2>0. /\ Held(Len(txs), c)' = Cardinality(P') - SumOf(value, W')
          /\ P' = P \cup (IF x.kind = "payment" /\ x.dep = c THEN {Len(txs')} ELSE {})
          /\ W' = W \cup {j \in Memo : from[j] = c /\ x.kind = "transfer" /\ j \in x.memos}
          /\ Len(txs') \notin P /\ IsFiniteSet(P) /\ IsFiniteSet(W) /\ \A j \in W : value[j] \in Nat
          /\ Cardinality(P) \in Nat /\ SumOf(value, W) \in Nat
      <3>1. RecordInv /\ UNCHANGED <<from, value>>
        BY <1>2 DEF HeldInv
      <3> QED BY ONLY IInv, <1>1, <1>2, <3>1, c \in Deposit, SetsAppended
    <2>1. Payments(Len(txs), c)' = Payments(Len(txs), c) /\ Moved(Len(txs), c)' = Moved(Len(txs), c)
      BY ONLY <1>2, <2>0
    <2>2. Held(Len(txs), c)' = Cardinality(Payments(Len(txs), c)') - SumOf(value, Moved(Len(txs), c)')
      BY <1>2 DEF Held
    <2>3. balance[c] = Held(Len(txs), c) /\ balance[c] \in Nat
      BY DEF HeldInv, BalanceInv, IInv, TypeInv
    <2> QED BY <1>2, <2>1, <2>2, <2>3 DEF Held
  <1> QED BY <1>1, <1>2, <1>3, AppendHeld

LEMMA ExecuteBatchHeld ==
  ASSUME IInv, HeldInv, IInv', NEW M \in sent, NEW S \in SUBSET M, ExecuteBatch(M, S)
  PROVE  HeldInv'
PROOF
  <1>1. S \in SUBSET Memo /\ (CHOOSE d \in Deposit : TRUE) \in Deposit
    BY SetAssumption DEF IInv, TypeInv
  <1>2. AddTx("sending", CHOOSE d \in Deposit : TRUE, S, balance)
    BY DEF ExecuteBatch
  <1> QED BY <1>1, <1>2, OtherTxHeld

LEMMA TransferHeld ==
  ASSUME IInv, HeldInv, IInv', NEW m \in Memo, Transfer(m)
  PROVE  HeldInv'
PROOF
  <1> DEFINE left == [balance EXCEPT ![from[m]] = @ - value[m]]
             x == [kind |-> "transfer", dep |-> from[m], memos |-> {m}, at |-> head, left |-> left]
  <1>0. balance \in [Deposit -> Nat] /\ value[m] \in Nat /\ from[m] \in Deposit
    BY DEF IInv, TypeInv
  <1>a. CASE AddTx("failed", from[m], {m}, balance)
    BY <1>0, <1>a, OtherTxHeld
  <1> SUFFICES ASSUME m \in transit, value[m] =< balance[from[m]], AddTx("transfer", from[m], {m}, left)
               PROVE  HeldInv'
    BY <1>a DEF Transfer
  <1>1. x \in Tx
    <2>1. balance[from[m]] - value[m] \in Nat
      BY <1>0
    <2>2. left \in [Deposit -> Nat]
      BY <1>0, <2>1
    <2> HIDE DEF left
    <2> QED BY <2>2 DEF Tx, IInv, TypeInv
  <1>2. /\ txs' = Append(txs, x) /\ x.at = head /\ head \in blocks /\ x.kind = "transfer" /\ x.memos = {m}
        /\ UNCHANGED <<incomes, lastBlock, table, processor, from, value>>
        /\ balance' = left /\ balance' = x.left
    BY DEF AddTx, table, processor
  <1> HIDE DEF x
  <1>3. \A lt \in Lts : ~IsTransfer(lt, m)
    BY TransitNotMoved
  <1>5. txs' = Append(txs, x)
    BY <1>2
  <1>4. ASSUME NEW c \in Deposit
        PROVE  balance'[c] = Held(Len(txs), c)' /\ balance'[c] \in Nat
    <2> DEFINE P == Payments(Len(txs), c)
               M == Moved(Len(txs), c)
    <2>0. /\ Held(Len(txs), c)' = Cardinality(P') - SumOf(value, M')
          /\ P' = P \cup (IF x.kind = "payment" /\ x.dep = c THEN {Len(txs')} ELSE {})
          /\ M' = M \cup {j \in Memo : from[j] = c /\ x.kind = "transfer" /\ j \in x.memos}
          /\ Len(txs') \notin P /\ IsFiniteSet(P) /\ IsFiniteSet(M) /\ \A j \in M : value[j] \in Nat
          /\ Cardinality(P) \in Nat /\ SumOf(value, M) \in Nat
      <3>1. RecordInv /\ UNCHANGED <<from, value>>
        BY <1>2 DEF HeldInv
      <3> QED BY ONLY IInv, <1>1, <1>5, <3>1, c \in Deposit, SetsAppended
    <2>1. /\ Held(Len(txs), c)' = Cardinality(P') - SumOf(value, M')
          /\ P' = P /\ M' = M \cup {j \in Memo : from[j] = c /\ j = m}
          /\ IsFiniteSet(M) /\ Cardinality(P) \in Nat /\ SumOf(value, M) \in Nat
          /\ \A j \in M : value[j] \in Nat
      BY ONLY <1>2, <2>0
    <2>2. balance[c] = Cardinality(P) - SumOf(value, M) /\ balance[c] \in Nat
      BY <1>0 DEF HeldInv, BalanceInv, Held
    <2>3. m \notin M
      BY <1>3 DEF Moved, Lts
    <2> HIDE DEF P, M
    <2>4. CASE c = from[m]
      <3>1. M' = M \cup {m}
        BY <2>1, <2>4
      <3>2. SumOf(value, M \cup {m}) = SumOf(value, M) + value[m]
        <4>1. \A j \in M \cup {m} : value[j] \in Int
          BY <1>0, <2>1
        <4>2. IsFiniteSet(M)
          BY <2>1
        <4> QED BY ONLY <4>1, <4>2, <2>3, SumAdd
      <3>3. balance'[c] = balance[c] - value[m] /\ value[m] =< balance[c]
        BY <1>0, <1>2, <2>4
      <3>4. Held(Len(txs), c)' = Cardinality(P) - (SumOf(value, M) + value[m])
        BY ONLY <2>1, <3>1, <3>2
      <3>5. value[m] \in Nat /\ Cardinality(P) \in Nat /\ SumOf(value, M) \in Nat
        BY <1>0, <2>1
      <3> QED BY ONLY <2>2, <3>3, <3>4, <3>5
    <2>5. CASE c # from[m]
      <3>1. M' = M
        BY <2>1, <2>5
      <3>2. balance'[c] = balance[c]
        BY <1>0, <1>2, <2>5
      <3> QED BY <2>1, <2>2, <3>1, <3>2
    <2> QED BY <2>4, <2>5
  <1> HIDE DEF left
  <1> QED BY <1>1, <1>2, <1>4, AppendHeld

\* The steps of the goroutines.
LEMMA ProcessorHeld ==
  ASSUME IInv, HeldInv, IInv', UNCHANGED <<chain, incomes, lastBlock>>,
         \/ UNCHANGED <<batch, rows, from, since, value, stale>>
         \/ \E d \in Deposit, m \in Memo, n \in 0..Len(txs) : BuildJettonInternalWithdrawalMessage(d, m, n)
         \/ \E m \in Memo : SaveInternalWithdrawalTask(m)
  PROVE  HeldInv'
PROOF
  <1> USE DEF chain
  <1>0. TypeInv' /\ from \in [Memo -> Deposit] /\ rows \subseteq Memo /\ batch \subseteq Memo
    BY DEF IInv, TypeInv
  <1>1. CASE UNCHANGED <<batch, rows, from, since, value, stale>>
    <2>1. BalanceInv' /\ ValueInv'
      BY <1>0, <1>1, QuietHeld
    <2>2. RecordInv'
      BY <1>1, QuietRecords DEF HeldInv
    <2> QED BY <2>1, <2>2 DEF HeldInv
  <1>2. ASSUME NEW d \in Deposit, NEW m \in Memo, NEW n \in 0..Len(txs),
               BuildJettonInternalWithdrawalMessage(d, m, n)
        PROVE  HeldInv'
    <2>1. /\ m \notin rows \cup batch /\ rows' = rows /\ batch' = batch \cup {m}
          /\ tasks[d] \in 0..Len(txs) /\ tasks[d] # 0
          /\ value' = [value EXCEPT ![m] = GetLastJettonBalance(n, d)] /\ from' = [from EXCEPT ![m] = d]
          /\ since' = [since EXCEPT ![m] = tasks[d]]
          /\ stale' = IF n < tasks[d] THEN stale \cup {m} ELSE stale \ {m}
      BY <1>2 DEF BuildJettonInternalWithdrawalMessage, IInv, TypeInv
    <2>2. /\ value \in [Memo -> Nat] /\ since \in [Memo -> 0..Len(txs)]
      BY DEF IInv, TypeInv
    <2>3. \A k \in Memo : k # m => from'[k] = from[k] /\ since'[k] = since[k] /\ value'[k] = value[k]
      BY <1>0, <2>1, <2>2
    <2>4. from'[m] = d /\ since'[m] = tasks[d] /\ value'[m] = GetLastJettonBalance(n, d)
      BY <1>0, <2>1, <2>2
    <2>7. ASSUME m \notin stale' PROVE n \in tasks[d]..Len(txs) /\ value'[m] = Held(n, d)
      <3>1. Len(txs) \in Nat /\ ~(n < tasks[d])
        BY <2>1, <2>7 DEF IInv, TypeInv
      <3>2. n \in tasks[d]..Len(txs) /\ n \in Lts /\ n # 0
        BY <2>1, <3>1 DEF Lts
      <3> QED BY <2>4, <3>2 DEF GetLastJettonBalance, HeldInv, BalanceInv
    <2>5. BalanceInv' /\ ValueInv'
      <3>1. \A k \in rows : from'[k] = from[k] /\ since'[k] = since[k] /\ value'[k] = value[k]
        BY <1>0, <2>1, <2>3
      <3>2. ASSUME NEW k \in (batch' \cup rows') \ stale'
            PROVE  \/ /\ k \in (batch \cup rows) \ stale
                      /\ from'[k] = from[k] /\ since'[k] = since[k] /\ value'[k] = value[k]
                   \/ /\ k \notin rows /\ since'[k] \in Nat
                      /\ \E q \in since'[k]..Len(txs) : value'[k] = Held(q, from'[k])
        <4>1. CASE k = m
          BY <2>1, <2>4, <2>7, <4>1
        <4>2. CASE k # m
          BY <1>0, <2>1, <2>3, <4>2
        <4> QED BY <4>1, <4>2
      <3> QED BY <1>0, <3>1, <3>2, QuietHeld
    <2>6. RecordInv'
      BY <2>1, QuietRecords DEF HeldInv
    <2> QED BY <2>5, <2>6 DEF HeldInv
  <1>3. ASSUME NEW m \in Memo, SaveInternalWithdrawalTask(m) PROVE HeldInv'
    <2>1. m \in batch /\ rows' = rows \cup {m} /\ UNCHANGED <<batch, from, since, value, stale>>
      BY <1>3 DEF SaveInternalWithdrawalTask, IInv, TypeInv
    <2>2. BalanceInv' /\ ValueInv'
      BY <1>0, <2>1, QuietHeld
    <2>3. IsFiniteSet(rows')
      BY <2>1, FS_AddElement DEF HeldInv, RecordInv
    <2>4. RecordInv'
      BY <2>3 DEF HeldInv, RecordInv, Saved
    <2> QED BY <2>2, <2>4 DEF HeldInv
  <1> QED BY <1>1, <1>2, <1>3

\* Rows leave the processor, or the process restarts.
LEMMA SendHeld ==
  ASSUME IInv, HeldInv, IInv', SendExternalMessage
  PROVE  HeldInv'
PROOF
  <1>1. /\ UNCHANGED <<txs, balance, rows, from, since, value, stale, incomes, lastBlock>> /\ batch' = {}
    BY DEF SendExternalMessage, table
  <1>2. BalanceInv' /\ ValueInv'
    BY <1>1, QuietHeld DEF IInv
  <1>3. RecordInv'
    BY <1>1, QuietRecords DEF HeldInv
  <1> QED BY <1>2, <1>3 DEF HeldInv

LEMMA VolatileHeld ==
  ASSUME IInv, HeldInv, IInv', Volatile, UNCHANGED <<txs, balance, rows, from, incomes, lastBlock>>
  PROVE  HeldInv'
PROOF
  <1>1. batch' = {} /\ stale' = stale \cap rows
    BY DEF Volatile
  <1>2. \A m \in rows : since'[m] = since[m] /\ value'[m] = value[m]
    BY DEF Volatile, Kept, IInv, TypeInv
  <1>3. BalanceInv' /\ ValueInv'
    BY <1>1, <1>2, QuietHeld DEF IInv
  <1>4. RecordInv'
    BY QuietRecords DEF HeldInv
  <1> QED BY <1>3, <1>4 DEF HeldInv

\* Giving up a withdrawal changes nothing of what the deposits hold.
LEMMA SetExpiredHeld ==
  ASSUME IInv, HeldInv, IInv', SetExpired
  PROVE  HeldInv'
PROOF
  <1>1. UNCHANGED <<txs, balance, rows, batch, from, since, value, stale, incomes, lastBlock>>
    BY DEF SetExpired, chain, processor
  <1>2. BalanceInv' /\ ValueInv'
    BY <1>1, QuietHeld DEF IInv
  <1>3. RecordInv'
    BY <1>1, QuietRecords DEF HeldInv
  <1> QED BY <1>2, <1>3 DEF HeldInv

\* A saved block adds its payments; after a refused one the process starts
\* again.
LEMMA SaveBlockHeld ==
  ASSUME IInv, HeldInv, IInv', NEW b \in Time, NEW order \in Orders, SaveParsedBlockData(b, order)
  PROVE  HeldInv'
PROOF
  <1>1. CASE Impossible(b, order)
    BY <1>1, VolatileHeld DEF SaveParsedBlockData
  <1>2. CASE ~Impossible(b, order)
    <2>1. /\ IsNextBlock(b) /\ incomes' = incomes \cup BlockTxs(b, "payment") /\ lastBlock' = b
          /\ UNCHANGED <<txs, balance, rows, batch, from, since, value, stale>>
      BY <1>2 DEF SaveParsedBlockData, processor
    <2>2. BalanceInv' /\ ValueInv'
      BY <2>1, QuietHeld DEF IInv
    <2>3. \A lt \in Lts : txs[lt].at =< b <=> txs[lt].at =< lastBlock \/ txs[lt].at = b
      BY <2>1, NextBlock
    <2>4. Saved("payment")' = Saved("payment") \cup BlockTxs(b, "payment")
      BY <2>1, <2>3 DEF Saved, BlockTxs, Lts
    <2>5. RecordInv'
      BY <2>1, <2>4 DEF HeldInv, RecordInv
    <2> QED BY <2>2, <2>5 DEF HeldInv
  <1> QED BY <1>1, <1>2

\* The saved transactions are the first ones.
LEMMA SavedPrefix ==
  ASSUME IInv
  PROVE  \E n \in 0..Len(txs) : \A lt \in Lts : txs[lt].at =< lastBlock <=> lt =< n
PROOF
  <1> DEFINE S == {lt \in Lts : txs[lt].at =< lastBlock}
  <1>1. Len(txs) \in Nat /\ lastBlock \in Nat
    BY TimeAssumption DEF IInv, TypeInv, Time
  <1>2. CASE S = {}
    <2>1. \A lt \in Lts : ~(txs[lt].at =< lastBlock) /\ ~(lt =< 0)
      BY <1>1, <1>2 DEF Lts
    <2> QED BY <1>1, <2>1
  <1>3. CASE S # {}
    <2>1. S \in SUBSET (0..Len(txs))
      BY <1>1 DEF Lts
    <2>2. Max(S) \in S /\ \A x \in S : x =< Max(S)
      <3> HIDE DEF S
      <3> QED BY <1>1, <1>3, <2>1, MaxOfBounded
    <2>3. PICK n \in Lts : txs[n].at =< lastBlock /\ \A x \in S : x =< n
      BY <2>2
    <2>4. ASSUME NEW lt \in Lts, lt =< n PROVE txs[lt].at =< lastBlock
      <3>1. txs[lt].at \in Nat /\ txs[n].at \in Nat
        BY TxType DEF IInv
      <3>2. lt = n \/ lt < n
        BY <1>1, <2>4 DEF Lts
      <3>3. lt = n \/ txs[lt].at =< txs[n].at
        BY <3>2 DEF IInv, ChainInv
      <3> QED BY <1>1, <2>3, <3>1, <3>3
    <2>5. n \in 0..Len(txs)
      BY <1>1 DEF Lts
    <2>6. \A lt \in Lts : txs[lt].at =< lastBlock <=> lt =< n
      BY <2>3, <2>4
    <2> QED BY <2>5, <2>6
  <1> QED BY <1>2, <1>3

\* What the tables say of a deposit is what it held after the saved blocks.
LEMMA OnDepositIsHeld ==
  ASSUME IInv, HeldInv, NEW d \in Deposit, NEW n \in 0..Len(txs),
         \A lt \in Lts : txs[lt].at =< lastBlock <=> lt =< n
  PROVE  /\ OnDeposit(d) = Held(n, d)
         /\ {lt \in incomes : txs[lt].dep = d} = Payments(n, d)
PROOF
  <1> DEFINE R == {m \in rows : from[m] = d}
             M == Moved(n, d)
             Z == R \ M
  <1>0. Len(txs) \in Nat /\ Lts = 1..Len(txs) /\ rows \subseteq Memo /\ amount \in [Memo -> Nat]
    BY DEF IInv, TypeInv, Lts
  <1>1. {lt \in incomes : txs[lt].dep = d} = Payments(n, d)
    BY <1>0, SavedIff DEF HeldInv, RecordInv, Payments
  <1>2. M \subseteq rows /\ IsFiniteSet(M) /\ \A m \in M : value[m] \in Nat
    BY MovedFinite DEF HeldInv
  <1>3. M \subseteq R
    BY <1>2 DEF Moved
  <1>4. IsFiniteSet(Z)
    BY FS_Subset DEF HeldInv, RecordInv
  <1>5. ASSUME NEW m \in R PROVE amount[m] = IF m \in M THEN value[m] ELSE 0
    <2>1. m \in Memo
      BY <1>0
    <2>2. (\E lt \in Saved("transfer") : m \in txs[lt].memos) <=> m \in M
      BY <1>0, <2>1, SavedIff DEF Moved, IsTransfer
    <2> QED BY <2>1, <2>2 DEF IInv, AmountsAgree
  <1>6. /\ \A m \in M : amount[m] = value[m] /\ amount[m] \in Int
        /\ \A m \in Z : amount[m] = 0
        /\ \A m \in M \cup Z : amount[m] \in Int
        /\ M \cup Z = R /\ M \cap Z = {}
    BY <1>2, <1>3, <1>5
  <1>7. OnDeposit(d) = Cardinality({lt \in incomes : txs[lt].dep = d}) - SumOf(amount, R)
    BY DEF OnDeposit, SumOf
  <1>8. Held(n, d) = Cardinality(Payments(n, d)) - SumOf(value, M)
    BY DEF Held
  <1> HIDE DEF R, M, Z
  <1>9. SumOf(amount, M \cup Z) = SumOf(amount, M) + SumOf(amount, Z)
    <2>1. IsFiniteSet(M) /\ IsFiniteSet(Z)
      BY <1>2, <1>4
    <2> QED BY ONLY <1>6, <2>1, SumUnion
  <1>10. SumOf(amount, M) = SumOf(value, M)
    <2>1. IsFiniteSet(M)
      BY <1>2
    <2> QED BY ONLY <1>6, <2>1, SumAgrees
  <1>11. SumOf(amount, Z) = 0
    BY ONLY <1>4, <1>6, SumZero
  <1>12. SumOf(value, M) \in Nat
    BY ONLY <1>2, SumOfNaturals
  <1>13. SumOf(amount, R) = SumOf(value, M)
    <2>1. M \cup Z = R
      BY <1>6
    <2>2. SumOf(amount, R) = SumOf(amount, M \cup Z)
      BY ONLY <2>1, Zenon
    <2>3. SumOf(amount, M \cup Z) = SumOf(value, M) + 0
      BY ONLY <1>9, <1>10, <1>11, Zenon
    <2> QED BY ONLY <1>12, <2>2, <2>3
  <1> QED BY ONLY <1>1, <1>7, <1>8, <1>13

\* If nothing is under way, what the newest withdrawal left on the deposit was
\* paid after the state from which its value was read, thus, if that is not too
\* old, after the incomes of its task.
LEMMA HeldNothingStranded ==
  ASSUME IInv, HeldInv
  PROVE  NothingStranded
PROOF
  <1>1. PICK n \in 0..Len(txs) : \A lt \in Lts : txs[lt].at =< lastBlock <=> lt =< n
    BY SavedPrefix
  <1>2. Len(txs) \in Nat /\ Lts = 1..Len(txs) /\ n \in Nat
    BY DEF IInv, TypeInv, Lts
  <1>3. ASSUME NEW d \in Deposit PROVE OnDeposit(d) \in Nat
    BY <1>1, <1>3, OnDepositIsHeld DEF HeldInv, BalanceInv
  <1>4. ASSUME NEW d \in Deposit, OnDeposit(d) > 0, \A m \in Pending : from[m] # d,
               \A m \in LastWithdrawals(d) : m \notin stale
        PROVE  UnsweptIncomes(d) # {}
    <2>1. OnDeposit(d) = Held(n, d) /\ {lt \in incomes : txs[lt].dep = d} = Payments(n, d)
      BY <1>1, OnDepositIsHeld
    <2>2. IsFiniteSet(Moved(n, d)) /\ \A m \in Moved(n, d) : value[m] \in Nat
      BY MovedFinite DEF HeldInv
    <2>3. SumOf(value, Moved(n, d)) \in Nat
      BY <2>2, SumOfNaturals
    <2>4. CASE LastWithdrawals(d) = {}
      <3>1. Payments(n, d) # {}
        <4>1. SUFFICES ASSUME Payments(n, d) = {} PROVE FALSE
          OBVIOUS
        <4>2. Cardinality(Payments(n, d)) = 0
          BY <4>1, FS_EmptySet
        <4>3. OnDeposit(d) = 0 - SumOf(value, Moved(n, d))
          BY <2>1, <4>2 DEF Held
        <4> QED BY <1>4, <2>3, <4>3
      <3> QED BY <2>1, <2>4, <3>1 DEF UnsweptIncomes
    <2>5. ASSUME NEW m \in LastWithdrawals(d) PROVE UnsweptIncomes(d) # {}
      <3>1. m \in rows \ failed /\ m \in Memo /\ from[m] = d /\ finish[m] # 0 /\ m \notin stale
        BY <1>4 DEF LastWithdrawals, Pending, IInv, TypeInv
      <3>2. PICK t \in Lts : IsTransfer(t, m) /\ t =< n
        BY <1>1, <3>1, SavedIff DEF IInv, ColumnInv, IsTransfer
      <3>3. PICK p \in since[m]..Len(txs) : ValueAt(m, p)
        BY <3>1 DEF HeldInv, ValueInv
      <3>4. since[m] \in Nat /\ p \in 0..Len(txs) /\ p < t /\ p < n /\ value[m] = Held(p, d)
        BY <1>2, <3>1, <3>2, <3>3 DEF ValueAt, IInv, TypeInv
      <3>5. Moved(p, d) \cup {m} \subseteq Moved(n, d) /\ m \notin Moved(p, d)
        <4>1. m \in Moved(n, d)
          BY <1>2, <3>1, <3>2 DEF Moved
        <4>2. m \notin Moved(p, d)
          BY <1>2, <3>3, <3>4 DEF Moved, ValueAt
        <4>3. Moved(p, d) \subseteq Moved(n, d)
          BY <1>2, <3>4 DEF Moved
        <4> QED BY <4>1, <4>2, <4>3
      <3> DEFINE M == Moved(p, d)
      <3>6. IsFiniteSet(M) /\ \A k \in M : value[k] \in Nat
        BY <3>4, MovedFinite DEF HeldInv
      <3>7. SumOf(value, M \cup {m}) = SumOf(value, M) + value[m] /\ SumOf(value, M) \in Nat /\ value[m] \in Nat
        <4>1. value[m] \in Nat
          BY <3>1 DEF IInv, TypeInv
        <4>2. \A k \in M \cup {m} : value[k] \in Int
          BY <3>6, <4>1
        <4>3. IsFiniteSet(M) /\ m \notin M
          BY <3>5, <3>6
        <4>4. SumOf(value, M) \in Nat
          BY <3>6, SumOfNaturals
        <4> HIDE DEF M
        <4>5. SumOf(value, M \cup {m}) = SumOf(value, M) + value[m]
          BY ONLY <4>2, <4>3, SumAdd
        <4> QED BY <4>1, <4>4, <4>5
      <3>8. /\ IsFiniteSet(Payments(p, d)) /\ IsFiniteSet(Payments(n, d))
            /\ Cardinality(Payments(p, d)) \in Nat /\ Cardinality(Payments(n, d)) \in Nat
        BY <3>4, MovedFinite, FS_CardinalityType DEF HeldInv
      <3>9. OnDeposit(d) =< Cardinality(Payments(n, d)) - Cardinality(Payments(p, d))
        <4> DEFINE N == Moved(n, d)
                   U == M \cup {m}
                   Z == N \ U
        <4>1. /\ U \cup Z = N /\ U \cap Z = {} /\ IsFiniteSet(U) /\ IsFiniteSet(Z)
              /\ (\A k \in U \cup Z : value[k] \in Int) /\ \A k \in Z : value[k] \in Nat
          <5>1. U \subseteq N
            BY <3>5
          <5>2. IsFiniteSet(N) /\ \A k \in N : value[k] \in Nat
            BY <2>2
          <5> HIDE DEF N, U
          <5>3. U \cup Z = N /\ U \cap Z = {} /\ Z \subseteq N
            BY <5>1
          <5>4. IsFiniteSet(U) /\ IsFiniteSet(Z)
            BY <5>1, <5>2, <5>3, FS_Subset
          <5> QED BY <5>1, <5>2, <5>3, <5>4
        <4>2. Held(n, d) = Cardinality(Payments(n, d)) - SumOf(value, N)
          BY DEF Held
        <4>3. Held(p, d) = Cardinality(Payments(p, d)) - SumOf(value, M)
          BY DEF Held
        <4>4. SumOf(value, U) = SumOf(value, M) + value[m]
          BY <3>7
        <4> HIDE DEF N, U, Z, M
        <4>5. SumOf(value, U \cup Z) = SumOf(value, U) + SumOf(value, Z)
          BY ONLY <4>1, SumUnion
        <4>6. SumOf(value, Z) \in Nat
          BY ONLY <4>1, SumOfNaturals
        <4>7. SumOf(value, N) = SumOf(value, U \cup Z)
          BY ONLY <4>1, Zenon
        <4>8. SumOf(value, M) \in Nat /\ value[m] \in Nat
          BY <3>7 DEF M
        <4>9. SumOf(value, N) = (SumOf(value, M) + value[m]) + SumOf(value, Z)
          BY ONLY <4>4, <4>5, <4>7, Zenon
        <4>10. OnDeposit(d) = Cardinality(Payments(n, d)) - ((SumOf(value, M) + value[m]) + SumOf(value, Z))
          BY ONLY <2>1, <4>2, <4>9, Zenon
        <4>11. value[m] = Cardinality(Payments(p, d)) - SumOf(value, M)
          BY ONLY <3>4, <4>3, Zenon
        <4>12. Cardinality(Payments(p, d)) \in Nat /\ Cardinality(Payments(n, d)) \in Nat
          BY <3>8
        <4>13. PICK a, b, x, z : /\ a = Cardinality(Payments(n, d)) /\ b = Cardinality(Payments(p, d))
                                 /\ x = SumOf(value, M) /\ z = SumOf(value, Z)
          OBVIOUS
        <4>14. a \in Nat /\ b \in Nat /\ x \in Nat /\ z \in Nat /\ value[m] \in Nat
          BY ONLY <4>6, <4>8, <4>12, <4>13, Zenon
        <4>15. OnDeposit(d) = a - ((x + value[m]) + z) /\ value[m] = b - x
          BY ONLY <4>10, <4>11, <4>13, Zenon
        <4>16. OnDeposit(d) =< a - b
          BY ONLY <4>14, <4>15
        <4> QED BY ONLY <4>13, <4>16, Zenon
      <3>10. Payments(n, d) # Payments(p, d)
        <4> SUFFICES ASSUME Cardinality(Payments(n, d)) = Cardinality(Payments(p, d)) PROVE FALSE
          OBVIOUS
        <4>1. OnDeposit(d) \in Nat /\ OnDeposit(d) > 0 /\ Cardinality(Payments(p, d)) \in Nat
          BY <1>3, <1>4, <3>8
        <4>2. OnDeposit(d) =< Cardinality(Payments(p, d)) - Cardinality(Payments(p, d))
          BY <3>9
        <4> QED BY ONLY <4>1, <4>2
      <3>11. Payments(p, d) \subseteq Payments(n, d)
        BY <1>2, <3>4 DEF Payments
      <3>12. PICK lt \in Payments(n, d) : lt \notin Payments(p, d)
        BY <3>10, <3>11
      <3>13. lt > p /\ lt \in Nat
        BY <1>2, <3>4, <3>12 DEF Payments
      <3>14. lt \in incomes /\ txs[lt].dep = d /\ lt > since[m]
        BY <2>1, <3>3, <3>4, <3>12, <3>13
      <3> QED BY <2>5, <3>1, <3>14 DEF UnsweptIncomes
    <2> QED BY <2>4, <2>5
  <1> QED BY <1>3, <1>4 DEF NothingStranded

LEMMA InitHeld ==
  ASSUME Init
  PROVE  HeldInv
PROOF
  <1>1. txs = <<>> /\ Len(txs) = 0 /\ Lts = {} /\ rows = {} /\ batch = {} /\ incomes = {}
    BY DEF Init, Lts
  <1>2. RecordInv
    BY <1>1, FS_EmptySet DEF RecordInv, Saved, Lts
  <1>3. ASSUME NEW d \in Deposit PROVE balance[d] = 0 /\ Held(0, d) = 0
    <2>1. Payments(0, d) = {} /\ Moved(0, d) = {}
      BY DEF Payments, Moved
    <2>2. Cardinality({}) = 0 /\ SumOf(value, {}) = 0
      BY FS_EmptySet, SumEmpty
    <2>3. Held(0, d) = 0
      BY ONLY <2>1, <2>2 DEF Held
    <2>4. balance[d] = 0
      BY DEF Init
    <2> QED BY <2>3, <2>4
  <1>4. BalanceInv
    BY <1>1, <1>3 DEF BalanceInv
  <1> QED BY <1>1, <1>2, <1>4 DEF HeldInv, ValueInv

LEMMA NextHeld ==
  ASSUME IInv, HeldInv, IInv', [Next]_vars
  PROVE  HeldInv'
PROOF
  <1> DEFINE Quiet == UNCHANGED <<chain, incomes, lastBlock, batch, rows, from, since, value, stale>>
  <1>1. CASE \/ Tick \/ WithdrawalsWaitSync \/ GetJettonInternalWithdrawalTasks
             \/ (\E d \in Deposit : SkipTask(d)) \/ BuildExternalMessage \/ ExpirationWaitSync
             \/ UNCHANGED vars
    <2>1. Quiet
      BY <1>1 DEF Tick, WithdrawalsWaitSync, GetJettonInternalWithdrawalTasks, SkipTask, BuildExternalMessage,
                  ExpirationWaitSync, vars, table, processor
    <2> QED BY <2>1, ProcessorHeld
  <1>2. CASE \E t \in Time : NewBlock(t)
    <2>1. UNCHANGED <<txs, balance, incomes, lastBlock, batch, rows, from, since, value, stale>>
      BY <1>2 DEF NewBlock, table, processor
    <2>2. BalanceInv' /\ ValueInv'
      BY <2>1, QuietHeld DEF IInv
    <2>3. RecordInv'
      BY <2>1, QuietRecords DEF HeldInv
    <2> QED BY <2>2, <2>3 DEF HeldInv
  <1>3. CASE \E d \in Deposit : Pay(d)
    BY <1>3, PayHeld
  <1>4. CASE \E M \in sent : \E S \in SUBSET M : ExecuteBatch(M, S)
    BY <1>4, ExecuteBatchHeld
  <1>5. CASE \E m \in Memo : Transfer(m)
    BY <1>5, TransferHeld
  <1>6. CASE \E d \in Deposit, m \in Memo, n \in 0..Len(txs) : BuildJettonInternalWithdrawalMessage(d, m, n)
    <2>1. UNCHANGED <<chain, incomes, lastBlock>>
      BY <1>6 DEF BuildJettonInternalWithdrawalMessage
    <2> QED BY <1>6, <2>1, ProcessorHeld
  <1>7. CASE \E m \in Memo : SaveInternalWithdrawalTask(m)
    <2>1. UNCHANGED <<chain, incomes, lastBlock>>
      BY <1>7 DEF SaveInternalWithdrawalTask
    <2> QED BY <1>7, <2>1, ProcessorHeld
  <1>8. CASE SendExternalMessage
    BY <1>8, SendHeld
  <1>9. CASE SetExpired
    BY <1>9, SetExpiredHeld
  <1>10. CASE \E b \in Time, order \in Orders : SaveParsedBlockData(b, order)
    BY <1>10, SaveBlockHeld
  <1>11. CASE Restart
    BY <1>11, VolatileHeld DEF Restart, chain
  <1>12. CASE \E d \in Deposit, M \in SUBSET Memo : ForeignTransfer(d, M)
    BY <1>12, OtherTxHeld DEF ForeignTransfer
  <1> QED BY <1>1, <1>2, <1>3, <1>4, <1>5, <1>6, <1>7, <1>8, <1>9, <1>10, <1>11, <1>12 DEF Next

\* No payment is forgotten: the tables never count more transfers than
\* payments, and while they leave Jettons on a deposit a withdrawal is under way
\* or getJettonInternalWithdrawalTasks finds an income, whatever arrived between
\* the query, the reading of the balance and the transfer, whatever others send
\* and whether or not the scanner has stopped, unless the node answered with a
\* balance from before the newest income of the task.
THEOREM NoPaymentForgotten == SafeTiming /\ Spec => []NothingStranded
PROOF
  <1>1. Init => HeldInv
    BY InitHeld
  <1>2. IInv /\ IInv' /\ HeldInv /\ [Next]_vars => HeldInv'
    BY NextHeld
  <1>3. IInv /\ HeldInv => NothingStranded
    BY HeldNothingStranded
  <1> QED BY <1>1, <1>2, <1>3, Invariance, PTL DEF Spec

-----------------------------------------------------------------------------
(* Jetton incomes, for the transactions of the Jetton wallet of one deposit.  *)
(* Operators of the library are the instance's own in tlapm, so that lemmas   *)
(* say that they are the same.                                                *)

CONSTANTS WalletKind, WalletAmount, MaxWalletTx

VARIABLES walletTxs, walletSaved, walletIncomes, walletEvents

Incomes == INSTANCE JettonIncomes WITH
  Kind <- WalletKind, Amount <- WalletAmount, MaxTx <- MaxWalletTx,
  txs <- walletTxs, saved <- walletSaved, incomes <- walletIncomes, withdrawals <- walletEvents

\* The sequence of a finite set holds each of its elements once.
LEMMA SequenceOfSet ==
  ASSUME NEW S, IsFiniteSet(S)
  PROVE  /\ SetToSeq(S) \in Seq(S) /\ Len(SetToSeq(S)) = Cardinality(S) /\ Cardinality(S) \in Nat
         /\ SetToSeq(S) \in [1..Cardinality(S) -> S]
         /\ \A i, j \in 1..Cardinality(S) : SetToSeq(S)[i] = SetToSeq(S)[j] => i = j
         /\ \A x \in S : \E i \in 1..Cardinality(S) : SetToSeq(S)[i] = x
PROOF
  <1> DEFINE n == Cardinality(S)
             s == SetToSeq(S)
  <1>1. n \in Nat /\ ExistsBijection(1..n, S)
    BY FS_CardinalityType
  <1>2. \E f \in [1..n -> S] : IsInjective(f)
    BY <1>1 DEF ExistsBijection, Bijection, Injection
  <1>3. s \in [1..n -> S] /\ IsInjective(s)
    BY <1>2 DEF SetToSeq
  <1>4. s \in Injection(1..n, S)
    BY <1>3 DEF Injection
  <1>5. Cardinality(1..n) = n
    BY <1>1, FS_Interval
  <1> HIDE DEF s
  <1>6. s \in Surjection(1..n, S)
    <2> HIDE DEF n
    <2> DEFINE I == 1..n
    <2>1. s \in Injection(I, S) /\ Cardinality(I) = Cardinality(S)
      BY <1>4, <1>5 DEF n
    <2> HIDE DEF I
    <2>2. s \in Surjection(I, S)
      BY ONLY <2>1, IsFiniteSet(S), FS_Injection
    <2> QED BY <2>2 DEF I
  <1>7. \A x \in S : \E i \in 1..n : s[i] = x
    BY <1>6 DEF Surjection
  <1>8. \A i, j \in 1..n : s[i] = s[j] => i = j
    BY <1>3 DEF IsInjective
  <1>9. s \in Seq(S) /\ Len(s) = n
    BY <1>1, <1>3
  <1> QED BY <1>1, <1>3, <1>7, <1>8, <1>9 DEF s

WalletLts == 1..Len(walletTxs)

\* What the proofs use of the transactions.
WalletOK ==
  /\ Len(walletTxs) \in Nat /\ Len(walletTxs) =< MaxWalletTx /\ MaxWalletTx \in Nat
  /\ \A lt \in WalletLts : walletTxs[lt].kind \in Incomes!AllKinds /\ walletTxs[lt].amount \in Nat \ {0}

\* The model's totals are the sums of Aggregates.
LEMMA TotalIsSum ==
  ASSUME NEW S
  PROVE  Incomes!Total(S) = SumOfAmounts(walletTxs, S)
PROOF
  BY DEF Incomes!Total, SumOfAmounts, MapThenSumSet, MapThenFoldSet, Incomes!MapThenSumSet, Incomes!MapThenFoldSet

LEMMA RecordedIsSum ==
  Incomes!Recorded = SumOfAmounts(walletIncomes, 1..Len(walletIncomes))
PROOF
  BY DEF Incomes!Recorded, SumOfAmounts, MapThenSumSet, MapThenFoldSet, Incomes!MapThenSumSet, Incomes!MapThenFoldSet

LEMMA SameSequence ==
  ASSUME NEW S
  PROVE  Incomes!SetToSeq(S) = SetToSeq(S)
PROOF
  BY DEF Incomes!SetToSeq, SetToSeq, Incomes!IsInjective, IsInjective, Cardinality, Incomes!Cardinality

\* Sets of transactions are finite.
LEMMA WalletFinite ==
  ASSUME WalletOK, NEW S \in SUBSET WalletLts
  PROVE  IsFiniteSet(S)
PROOF
  <1>1. IsFiniteSet(WalletLts)
    BY FS_Interval DEF WalletOK, WalletLts
  <1> QED BY <1>1, FS_Subset

\* Totals of disjoint sets of transactions.
LEMMA TotalOfUnion ==
  ASSUME WalletOK, NEW S \in SUBSET WalletLts, NEW R \in SUBSET WalletLts, S \cap R = {}
  PROVE  /\ Incomes!Total(S \cup R) = Incomes!Total(S) + Incomes!Total(R)
         /\ Incomes!Total(S) \in Nat /\ \A lt \in S : walletTxs[lt].amount =< Incomes!Total(S)
PROOF
  <1>1. IsFiniteSet(S) /\ IsFiniteSet(R)
    BY WalletFinite
  <1>2. \A lt \in S \cup R : walletTxs[lt].amount \in Nat
    BY DEF WalletOK
  <1>3. \A lt \in S : walletTxs[lt].amount \in Nat
    BY <1>2
  <1>4. \A lt \in S \cup R : walletTxs[lt].amount \in Int
    BY <1>2
  <1>5. SumOfAmounts(walletTxs, S \cup R) = SumOfAmounts(walletTxs, S) + SumOfAmounts(walletTxs, R)
    BY ONLY <1>1, <1>4, S \cap R = {}, AmountsUnion
  <1>6. SumOfAmounts(walletTxs, S) \in Nat /\ \A lt \in S : walletTxs[lt].amount =< SumOfAmounts(walletTxs, S)
    BY ONLY <1>1, <1>3, AmountsType
  <1> QED BY <1>5, <1>6, TotalIsSum

\* Totals of disjoint kinds, and of disjoint blocks.
LEMMA TotalOfKinds ==
  ASSUME WalletOK, NEW S \in SUBSET WalletLts, NEW K, NEW L, K \cap L = {}
  PROVE  Incomes!Total(Incomes!Of(K \cup L, S)) = Incomes!Total(Incomes!Of(K, S)) + Incomes!Total(Incomes!Of(L, S))
PROOF
  <1>1. /\ Incomes!Of(K, S) \in SUBSET WalletLts /\ Incomes!Of(L, S) \in SUBSET WalletLts
        /\ Incomes!Of(K \cup L, S) = Incomes!Of(K, S) \cup Incomes!Of(L, S)
        /\ Incomes!Of(K, S) \cap Incomes!Of(L, S) = {}
    BY DEF Incomes!Of
  <1> QED BY <1>1, TotalOfUnion

LEMMA TotalOfBlocks ==
  ASSUME WalletOK, NEW S \in SUBSET WalletLts, NEW R \in SUBSET WalletLts, S \cap R = {}, NEW K
  PROVE  /\ Incomes!Total(Incomes!Of(K, S \cup R)) = Incomes!Total(Incomes!Of(K, S)) + Incomes!Total(Incomes!Of(K, R))
         /\ Incomes!Total(Incomes!Of(K, S)) \in Nat /\ Incomes!Total(Incomes!Of(K, R)) \in Nat
PROOF
  <1>1. /\ Incomes!Of(K, S) \in SUBSET WalletLts /\ Incomes!Of(K, R) \in SUBSET WalletLts
        /\ Incomes!Of(K, S \cup R) = Incomes!Of(K, S) \cup Incomes!Of(K, R)
        /\ Incomes!Of(K, S) \cap Incomes!Of(K, R) = {} /\ Incomes!Of(K, R) \cap Incomes!Of(K, S) = {}
    BY DEF Incomes!Of
  <1> QED BY <1>1, TotalOfUnion

\* The block that the scanner reads.
NewLts == (walletSaved + 1)..Len(walletTxs)

\* What the balances leave unexplained is what came without a notification.
LEMMA UnknownIncome ==
  ASSUME WalletOK, walletSaved \in 0..Len(walletTxs)
  PROVE  /\ Incomes!UnknownIncomeAmount(NewLts) = Incomes!Total(Incomes!Of({"silent", "own"}, NewLts))
         /\ Incomes!UnknownIncomeAmount(NewLts) \in Nat
PROOF
  <1> DEFINE O == 1..walletSaved
             B == NewLts
             T(K, S) == Incomes!Total(Incomes!Of(K, S))
             in == {"notified", "silent", "own"}
             out == {"sweep", "service"}
  <1>1. /\ O \in SUBSET WalletLts /\ B \in SUBSET WalletLts /\ O \cap B = {} /\ O \cup B = WalletLts
    BY DEF WalletOK, WalletLts, NewLts
  <1>2. T(in, WalletLts) = T(in, O) + T(in, B) /\ T(in, O) \in Nat /\ T(in, B) \in Nat
    BY <1>1, TotalOfBlocks
  <1>3. T(out, WalletLts) = T(out, O) + T(out, B) /\ T(out, O) \in Nat /\ T(out, B) \in Nat
    BY <1>1, TotalOfBlocks
  <1>4. T({"notified"}, B) \in Nat /\ T({"silent", "own"}, B) \in Nat
    BY <1>1, TotalOfBlocks
  <1>5. T(in, B) = T({"notified"}, B) + T({"silent", "own"}, B)
    <2>1. in = {"notified"} \cup {"silent", "own"} /\ {"notified"} \cap {"silent", "own"} = {}
      OBVIOUS
    <2> HIDE DEF in, B
    <2> QED BY <2>1, <1>1, TotalOfKinds
  <1>6. Incomes!UnknownIncomeAmount(B) =
          (T(in, WalletLts) - T(out, WalletLts)) - (T(in, O) - T(out, O)) + T(out, B) - T({"notified"}, B)
    BY DEF Incomes!UnknownIncomeAmount, Incomes!GetJettonBalance, Incomes!TotalWithdrawals, Incomes!Notified, WalletLts
  <1> HIDE DEF T, in, out, O, B
  <1>7. Incomes!UnknownIncomeAmount(B) = T({"silent", "own"}, B)
    BY <1>2, <1>3, <1>4, <1>5, <1>6
  <1> QED BY <1>4, <1>7 DEF T, B

\* The rows of notified payments carry their amounts, and each has its row.
NotifiedRowsOf(S) ==
  [i \in 1..Cardinality(S) |-> [lt |-> SetToSeq(S)[i], amount |-> walletTxs[SetToSeq(S)[i]].amount]]

LEMMA RowsOfNotified ==
  ASSUME WalletOK, NEW S \in SUBSET WalletLts, NEW r, r = NotifiedRowsOf(S)
  PROVE  /\ r \in Seq(Incomes!Row)
         /\ SumOfAmounts(r, 1..Len(r)) = Incomes!Total(S)
         /\ \A lt \in S : \E i \in 1..Len(r) : r[i].lt = lt
PROOF
  <1> DEFINE s == SetToSeq(S)
             n == Cardinality(S)
             I == 1..n
  <1>1. IsFiniteSet(S)
    BY WalletFinite
  <1>0. /\ n \in Nat /\ s \in [I -> S]
        /\ \A i, j \in I : s[i] = s[j] => i = j
        /\ \A x \in S : \E i \in I : s[i] = x
    BY <1>1, SequenceOfSet
  <1>r. r = [i \in I |-> [lt |-> s[i], amount |-> walletTxs[s[i]].amount]]
    BY DEF NotifiedRowsOf
  <1> HIDE DEF s, n
  <1>2. IsFiniteSet(I)
    BY ONLY <1>0, FS_Interval
  <1>3. \A lt \in S : lt \in 1..MaxWalletTx /\ walletTxs[lt].amount \in Nat
    BY DEF WalletOK, WalletLts
  <1>4. \A i \in I : s[i] \in S
    BY ONLY <1>0
  <1>5. \A i \in I : r[i] = [lt |-> s[i], amount |-> walletTxs[s[i]].amount]
    BY ONLY <1>r
  <1>6. ASSUME NEW i \in I
        PROVE  r[i].lt = s[i] /\ r[i].amount = walletTxs[s[i]].amount /\ r[i] \in Incomes!Row
    <2>1. s[i] \in 1..MaxWalletTx /\ walletTxs[s[i]].amount \in Nat
      BY ONLY <1>3, <1>4, i \in I
    <2>2. r[i] = [lt |-> s[i], amount |-> walletTxs[s[i]].amount]
      BY ONLY <1>5, i \in I
    <2> QED BY ONLY <2>1, <2>2 DEF Incomes!Row
  <1>7. \A i \in I : r[i].lt = s[i] /\ r[i].amount = walletTxs[s[i]].amount /\ r[i] \in Incomes!Row
    BY ONLY <1>6
  <1>8. DOMAIN r = 1..n
    BY ONLY <1>r
  <1>9. r = [i \in DOMAIN r |-> r[i]]
    BY ONLY <1>r
  <1>10. r \in Seq(Incomes!Row) /\ Len(r) = n
    BY ONLY <1>0, <1>7, <1>8, <1>9
  <1>11. \A i \in I : r[i].amount = walletTxs[s[i]].amount /\ r[i].amount \in Int
    BY ONLY <1>3, <1>4, <1>7
  <1>12. s \in [I -> S] /\ (\A i, j \in I : s[i] = s[j] => i = j) /\ \A x \in S : \E i \in I : s[i] = x
    BY ONLY <1>0
  <1> HIDE DEF I
  <1>13. SumOfAmounts(r, I) = SumOfAmounts(walletTxs, S)
    <2>1. \A i, j \in I : s[i] = s[j] => i = j
      BY <1>12
    <2>2. \A x \in S : \E i \in I : s[i] = x
      BY <1>12
    <2>3. s \in [I -> S]
      BY <1>12
    <2> QED BY ONLY <1>1, <1>2, <1>11, <2>1, <2>2, <2>3, AmountsRenamed
  <1>14. 1..Len(r) = I
    BY ONLY <1>10 DEF I
  <1>15. \A lt \in S : \E i \in I : r[i].lt = lt
    BY ONLY <1>7, <1>12
  <1> QED BY ONLY <1>10, <1>13, <1>14, <1>15, TotalIsSum

\* The rows without an amount: each transaction has one.
EmptyRowsOf(S) == [i \in 1..Cardinality(S) |-> [lt |-> SetToSeq(S)[i], amount |-> 0]]

LEMMA RowsOfUnknown ==
  ASSUME WalletOK, NEW S \in SUBSET WalletLts, NEW r, r = EmptyRowsOf(S)
  PROVE  /\ r \in Seq(Incomes!Row)
         /\ SumOfAmounts(r, 1..Len(r)) = 0
         /\ \A lt \in S : \E i \in 1..Len(r) : r[i].lt = lt
PROOF
  <1> DEFINE s == SetToSeq(S)
             n == Cardinality(S)
             I == 1..n
  <1>0. n \in Nat /\ s \in [I -> S] /\ \A x \in S : \E i \in I : s[i] = x
    BY WalletFinite, SequenceOfSet
  <1>r. r = [i \in I |-> [lt |-> s[i], amount |-> 0]]
    BY DEF EmptyRowsOf
  <1> HIDE DEF s, n
  <1>1. IsFiniteSet(I)
    BY ONLY <1>0, FS_Interval
  <1>2. \A lt \in S : lt \in 1..MaxWalletTx
    BY DEF WalletOK, WalletLts
  <1>3. \A i \in I : s[i] \in S
    BY ONLY <1>0
  <1>4. \A i \in I : r[i] = [lt |-> s[i], amount |-> 0]
    BY ONLY <1>r
  <1>5. ASSUME NEW i \in I
        PROVE  r[i].lt = s[i] /\ r[i].amount = 0 /\ r[i] \in Incomes!Row
    <2>1. s[i] \in 1..MaxWalletTx
      BY ONLY <1>2, <1>3, i \in I
    <2>2. r[i] = [lt |-> s[i], amount |-> 0]
      BY ONLY <1>4, i \in I
    <2> QED BY ONLY <2>1, <2>2 DEF Incomes!Row
  <1>6. \A i \in I : r[i].lt = s[i] /\ r[i].amount = 0 /\ r[i] \in Incomes!Row
    BY ONLY <1>5
  <1>7. DOMAIN r = 1..n
    BY ONLY <1>r
  <1>8. r = [i \in DOMAIN r |-> r[i]]
    BY ONLY <1>r
  <1>9. r \in Seq(Incomes!Row) /\ Len(r) = n
    BY ONLY <1>0, <1>6, <1>7, <1>8
  <1>10. \A lt \in S : \E i \in I : r[i].lt = lt
    BY ONLY <1>0, <1>6
  <1> HIDE DEF I
  <1>11. SumOfAmounts(r, I) = 0
    <2>1. \A i \in I : r[i].amount = 0
      BY <1>6
    <2> QED BY ONLY <1>1, <2>1, AmountsZero
  <1>12. 1..Len(r) = I
    BY ONLY <1>9 DEF I
  <1> QED BY ONLY <1>9, <1>10, <1>11, <1>12

LEMMA SameMin ==
  ASSUME NEW S
  PROVE  Incomes!Min(S) = Min(S)
PROOF
  BY DEF Incomes!Min, Min

\* One row with an amount.
LEMMA OneRow ==
  ASSUME NEW l \in 1..MaxWalletTx, NEW a \in Nat, NEW r, r = <<[lt |-> l, amount |-> a]>>
  PROVE  r \in Seq(Incomes!Row) /\ SumOfAmounts(r, 1..Len(r)) = a
PROOF
  <1>1. Len(r) = 1 /\ r[1] = [lt |-> l, amount |-> a]
    OBVIOUS
  <1>2. r[1].amount = a
    BY <1>1
  <1>3. [lt |-> l, amount |-> a] \in Incomes!Row
    BY DEF Incomes!Row
  <1>4. r \in Seq(Incomes!Row)
    BY <1>3
  <1>5. 1..Len(r) = {1}
    BY <1>1
  <1>6. SumOfAmounts(r, {1}) = r[1].amount
    <2>1. r[1].amount \in Int
      BY <1>2
    <2> QED BY ONLY <2>1, AmountsOne
  <1> QED BY <1>2, <1>4, <1>5, <1>6

\* Rows that follow other rows.
LEMMA RowsConcat ==
  ASSUME NEW s \in Seq(Incomes!Row), NEW t \in Seq(Incomes!Row)
  PROVE  /\ s \o t \in Seq(Incomes!Row)
         /\ SumOfAmounts(s \o t, 1..Len(s \o t)) = SumOfAmounts(s, 1..Len(s)) + SumOfAmounts(t, 1..Len(t))
         /\ \A i \in 1..Len(s) : i \in 1..Len(s \o t) /\ (s \o t)[i] = s[i]
         /\ \A i \in 1..Len(t) : Len(s) + i \in 1..Len(s \o t) /\ (s \o t)[Len(s) + i] = t[i]
PROOF
  <1>1. s \o t \in Seq(Incomes!Row)
    OBVIOUS
  <1>2. /\ \A i \in 1..Len(s) : i \in 1..Len(s \o t) /\ (s \o t)[i] = s[i]
        /\ \A i \in 1..Len(t) : Len(s) + i \in 1..Len(s \o t) /\ (s \o t)[Len(s) + i] = t[i]
    OBVIOUS
  <1>3. \A x \in Incomes!Row : x.amount \in Int
    BY DEF Incomes!Row
  <1>4. SumOfAmounts(s \o t, 1..Len(s \o t)) = SumOfAmounts(s, 1..Len(s)) + SumOfAmounts(t, 1..Len(t))
    BY <1>3, AmountsConcat
  <1> QED BY <1>1, <1>2, <1>4

\* The rows of the unknown transactions carry what is unexplained, and every
\* payment without a notification has one.
LEMMA UnknownRowsOK ==
  ASSUME WalletOK, walletSaved \in 0..Len(walletTxs), NEW r, r = Incomes!UnknownRows(NewLts)
  PROVE  /\ r \in Seq(Incomes!Row)
         /\ SumOfAmounts(r, 1..Len(r)) = Incomes!UnknownIncomeAmount(NewLts)
         /\ \A lt \in Incomes!Of({"silent"}, NewLts) : \E i \in 1..Len(r) : r[i].lt = lt
PROOF
  <1> DEFINE a == Incomes!UnknownIncomeAmount(NewLts)
             U == Incomes!UnknownTransactions(NewLts)
             P == Incomes!Of({"silent", "own"}, NewLts)
             Q == Incomes!Of({"silent"}, NewLts)
  <1>1. a = Incomes!Total(P) /\ a \in Nat
    BY UnknownIncome
  <1>2. NewLts \in SUBSET WalletLts
    BY DEF WalletOK, WalletLts, NewLts
  <1>3. U \in SUBSET WalletLts /\ P \subseteq U /\ Q \subseteq P
    BY <1>2 DEF Incomes!UnknownTransactions, Incomes!OutUnknown, Incomes!InUnknown, Incomes!Of, Incomes!AllKinds
  <1>4. IsFiniteSet(U) /\ P \in SUBSET WalletLts
    BY <1>3, WalletFinite
  <1>5. P = {} => a = 0
    BY <1>1, AmountsEmpty, TotalIsSum
  <1>6. \A lt \in P : 0 < a
    <2>1. {} \in SUBSET WalletLts /\ P \cap {} = {}
      OBVIOUS
    <2>2. \A lt \in P : walletTxs[lt].amount =< Incomes!Total(P)
      BY <1>4, <2>1, TotalOfUnion
    <2>3. \A lt \in P : walletTxs[lt].amount \in Nat \ {0}
      BY <1>4 DEF WalletOK
    <2> QED BY <1>1, <2>2, <2>3
  <1>7. r = IF a > 0 THEN Incomes!ConvertUnknownJettonTxs(U, a) ELSE <<>>
    BY DEF Incomes!UnknownRows
  <1> HIDE DEF a, U, P, Q
  <1>8. CASE a > 0
    <2>1. U # {}
      BY <1>3, <1>5, <1>8
    <2> DEFINE s == SetToSeq(U)
               n == Cardinality(U)
               e == EmptyRowsOf(U)
               o == <<[lt |-> Min(U), amount |-> a]>>
    <2>2. n \in Nat /\ Len(s) = n /\ s \in [1..n -> U] /\ \A x \in U : \E i \in 1..n : s[i] = x
      BY <1>4, SequenceOfSet
    <2>3. r = e \o o
      <3>1. Incomes!RowsOf(U, LAMBDA lt : 0) = e
        BY <2>2, SameSequence DEF Incomes!RowsOf, EmptyRowsOf
      <3>2. Incomes!ConvertUnknownJettonTxs(U, a) = e \o o
        BY <2>1, <2>2, SameSequence, SameMin DEF Incomes!ConvertUnknownJettonTxs, Incomes!RowsOf, EmptyRowsOf
      <3> QED BY <1>7, <1>8, <3>2
    <2>4. Min(U) \in 1..MaxWalletTx
      <3>1. U \in SUBSET Nat
        BY <1>3 DEF WalletLts, WalletOK
      <3>2. Min(U) \in U
        BY <2>1, <3>1, MinOfNaturals
      <3>3. \A lt \in U : lt \in 1..MaxWalletTx
        BY <1>3 DEF WalletLts, WalletOK
      <3> QED BY ONLY <3>2, <3>3
    <2> HIDE DEF s, n
    <2>5. /\ e \in Seq(Incomes!Row) /\ SumOfAmounts(e, 1..Len(e)) = 0
          /\ \A lt \in U : \E i \in 1..Len(e) : e[i].lt = lt
      BY <1>3, RowsOfUnknown
    <2>6. o \in Seq(Incomes!Row) /\ SumOfAmounts(o, 1..Len(o)) = a
      BY <1>1, <2>4, OneRow
    <2> HIDE DEF e, o
    <2>7. /\ r \in Seq(Incomes!Row)
          /\ SumOfAmounts(r, 1..Len(r)) = SumOfAmounts(e, 1..Len(e)) + SumOfAmounts(o, 1..Len(o))
          /\ \A i \in 1..Len(e) : i \in 1..Len(r) /\ r[i] = e[i]
      BY ONLY <2>3, <2>5, <2>6, RowsConcat
    <2>8. \A lt \in Q : \E i \in 1..Len(r) : r[i].lt = lt
      BY <1>3, <2>5, <2>7
    <2> QED BY <1>1, <2>5, <2>6, <2>7, <2>8 DEF a, Q
  <1>9. CASE ~(a > 0)
    <2>1. a = 0 /\ r = <<>> /\ Q = {}
      BY <1>1, <1>3, <1>6, <1>7, <1>9
    <2>2. 1..Len(r) = {}
      BY <2>1
    <2> QED BY <2>1, <2>2, AmountsEmpty DEF a, Q
  <1> QED BY <1>8, <1>9

\* The inductive invariant.  The scanner records every payment, also those
\* from an address of the service.
IncomesIInv ==
  /\ Incomes!TypeOK
  /\ Len(walletTxs) =< MaxWalletTx
  /\ \A lt \in WalletLts : walletTxs[lt].kind \in WalletKind
  /\ Incomes!EveryPaymentHasRow
  /\ Incomes!Recorded = Incomes!Total(Incomes!Of({"notified", "silent", "own"}, 1..walletSaved))

\* What the lemmas above need of the invariant.
LEMMA IncomesFacts ==
  ASSUME Incomes!Parameters, IncomesIInv
  PROVE  WalletOK /\ walletSaved \in 0..Len(walletTxs)
PROOF
  <1>1. walletTxs \in Seq(Incomes!Tx) /\ walletSaved \in 0..Len(walletTxs) /\ MaxWalletTx \in Nat
    BY DEF IncomesIInv, Incomes!TypeOK, Incomes!Parameters
  <1>2. \A lt \in WalletLts : walletTxs[lt] \in Incomes!Tx
    BY <1>1 DEF WalletLts
  <1>3. \A x \in Incomes!Tx : x.kind \in Incomes!AllKinds /\ x.amount \in Nat \ {0}
    BY DEF Incomes!Tx, Incomes!Parameters
  <1>4. Len(walletTxs) \in Nat /\ Len(walletTxs) =< MaxWalletTx
    BY <1>1 DEF IncomesIInv
  <1> QED BY ONLY <1>1, <1>2, <1>3, <1>4 DEF WalletOK

\* A new transaction leaves the totals of the saved blocks as they are.
LEMMA AddTxIncomes ==
  ASSUME Incomes!Parameters, IncomesIInv, NEW k \in WalletKind, NEW a \in WalletAmount,
         Incomes!AddTx([kind |-> k, amount |-> a])
  PROVE  IncomesIInv'
PROOF
  <1> DEFINE x == [kind |-> k, amount |-> a]
             O == 1..walletSaved
             n == Len(walletTxs)
  <1>1. WalletOK /\ walletSaved \in 0..n
    BY IncomesFacts
  <1>2. /\ n < MaxWalletTx /\ walletTxs' = Append(walletTxs, x)
        /\ walletSaved' = walletSaved /\ walletIncomes' = walletIncomes /\ walletEvents' = walletEvents
    BY DEF Incomes!AddTx
  <1>3. x \in Incomes!Tx
    BY DEF Incomes!Tx, Incomes!Parameters
  <1>4. walletTxs \in Seq(Incomes!Tx) /\ walletIncomes \in Seq(Incomes!Row) /\ walletEvents \subseteq 1..n
    BY DEF IncomesIInv, Incomes!TypeOK
  <1>5. x.kind = k
    OBVIOUS
  <1> HIDE DEF x
  <1>6. /\ walletTxs' \in Seq(Incomes!Tx) /\ Len(walletTxs') = n + 1 /\ n \in Nat
        /\ \A lt \in 1..n : walletTxs'[lt] = walletTxs[lt]
        /\ walletTxs'[n + 1] = x
    BY <1>2, <1>3, <1>4
  <1>7. Incomes!TypeOK'
    <2>1. walletSaved' \in 0..Len(walletTxs')
      BY <1>1, <1>2, <1>6
    <2>2. walletEvents' \subseteq 1..Len(walletTxs')
      BY <1>2, <1>4, <1>6
    <2>3. walletIncomes' \in Seq(Incomes!Row)
      BY <1>2, <1>4
    <2> QED BY <1>6, <2>1, <2>2, <2>3 DEF Incomes!TypeOK, Incomes!Tx, Incomes!Row
  <1>8. (Len(walletTxs) =< MaxWalletTx)'
    BY <1>1, <1>2, <1>6 DEF WalletOK
  <1>9. (\A lt \in WalletLts : walletTxs[lt].kind \in WalletKind)'
    <2> SUFFICES ASSUME NEW lt \in 1..(n + 1) PROVE walletTxs'[lt].kind \in WalletKind
      BY <1>6 DEF WalletLts
    <2>1. CASE lt \in 1..n
      BY <1>6, <2>1 DEF IncomesIInv, WalletLts
    <2>2. CASE lt = n + 1
      BY <1>5, <1>6, <2>2
    <2> QED BY <1>6, <2>1, <2>2
  <1>10. \A K : Incomes!Of(K, O)' = Incomes!Of(K, O)
    BY <1>1, <1>2, <1>6 DEF Incomes!Of
  <1>11. Incomes!EveryPaymentHasRow'
    BY <1>1, <1>2, <1>6 DEF IncomesIInv, Incomes!EveryPaymentHasRow, Incomes!Of
  <1>12. (Incomes!Recorded = Incomes!Total(Incomes!Of({"notified", "silent", "own"}, 1..walletSaved)))'
    <2> DEFINE S == Incomes!Of({"notified", "silent", "own"}, O)
    <2>1. S \in SUBSET WalletLts
      BY <1>1, <1>6 DEF WalletLts, Incomes!Of
    <2>2. \A lt \in S : walletTxs[lt].amount = walletTxs'[lt].amount /\ walletTxs[lt].amount \in Int
      BY <1>1, <1>6, <2>1 DEF WalletOK, WalletLts
    <2>3. IsFiniteSet(S)
      BY <1>1, <2>1, WalletFinite
    <2>4. S' = S
      BY <1>2, <1>10
    <2> HIDE DEF S
    <2>5. SumOfAmounts(walletTxs, S) = SumOfAmounts(walletTxs', S)
      BY ONLY <2>2, <2>3, AmountsKept
    <2>6. SumOfAmounts(walletTxs, S)' = SumOfAmounts(walletTxs', S)
      BY <2>4
    <2>7. Incomes!Recorded' = Incomes!Recorded
      BY <1>2 DEF Incomes!Recorded, Incomes!MapThenSumSet, Incomes!MapThenFoldSet
    <2>8. Incomes!Recorded = Incomes!Total(S)
      BY DEF IncomesIInv, S
    <2>9. Incomes!Total(S)' = Incomes!Total(S)
      <3>1. Incomes!Total(S) = SumOfAmounts(walletTxs, S)
        BY TotalIsSum
      <3>2. Incomes!Total(S)' = SumOfAmounts(walletTxs, S)'
        BY DEF Incomes!Total, SumOfAmounts, MapThenSumSet, MapThenFoldSet, Incomes!MapThenSumSet, Incomes!MapThenFoldSet
      <3> QED BY <2>5, <2>6, <3>1, <3>2
    <2> QED BY <2>7, <2>8, <2>9 DEF S
  <1> QED BY <1>7, <1>8, <1>9, <1>11, <1>12 DEF IncomesIInv

\* The scanner's step: what it records for a block is what was paid in it.
LEMMA ProcessIncomes ==
  ASSUME Incomes!Parameters, IncomesIInv, Incomes!ProcessJettonDepositWalletTXs
  PROVE  IncomesIInv'
PROOF
  <1> DEFINE B == NewLts
             O == 1..walletSaved
             N == Incomes!Notified(B)
             p == NotifiedRowsOf(N)
             q == Incomes!UnknownRows(B)
             T(K, S) == Incomes!Total(Incomes!Of(K, S))
             paid == {"notified", "silent", "own"}
  <1>1. WalletOK /\ walletSaved \in 0..Len(walletTxs)
    BY IncomesFacts
  <1>2. /\ walletTxs' = walletTxs /\ walletSaved' = Len(walletTxs)
        /\ walletEvents' = walletEvents \cup Incomes!Of({"sweep", "failed"}, B)
    BY DEF Incomes!ProcessJettonDepositWalletTXs, NewLts
  <1>3. /\ O \in SUBSET WalletLts /\ B \in SUBSET WalletLts /\ O \cap B = {} /\ O \cup B = WalletLts
        /\ N \in SUBSET WalletLts
    BY <1>1 DEF WalletOK, WalletLts, NewLts, Incomes!Notified, Incomes!Of
  <1>4. walletIncomes' = walletIncomes \o p \o q
    <2>1. IsFiniteSet(N)
      BY <1>1, <1>3, WalletFinite
    <2>2. Len(SetToSeq(N)) = Cardinality(N)
      BY <2>1, SequenceOfSet
    <2>3. walletIncomes' = walletIncomes
            \o [i \in 1..Len(SetToSeq(N)) |-> [lt |-> SetToSeq(N)[i], amount |-> walletTxs[SetToSeq(N)[i]].amount]]
            \o q
      BY SameSequence DEF Incomes!ProcessJettonDepositWalletTXs, Incomes!RowsOf, NewLts
    <2> QED BY ONLY <2>2, <2>3 DEF NotifiedRowsOf
  <1>5. walletTxs \in Seq(Incomes!Tx) /\ walletIncomes \in Seq(Incomes!Row) /\ walletEvents \subseteq WalletLts
    BY DEF IncomesIInv, Incomes!TypeOK, WalletLts
  <1>6. /\ p \in Seq(Incomes!Row) /\ SumOfAmounts(p, 1..Len(p)) = Incomes!Total(N)
        /\ \A lt \in N : \E i \in 1..Len(p) : p[i].lt = lt
    BY <1>1, <1>3, RowsOfNotified
  <1>7. /\ q \in Seq(Incomes!Row) /\ SumOfAmounts(q, 1..Len(q)) = Incomes!UnknownIncomeAmount(B)
        /\ \A lt \in Incomes!Of({"silent"}, B) : \E i \in 1..Len(q) : q[i].lt = lt
    BY <1>1, UnknownRowsOK
  <1> DEFINE r == walletIncomes \o p
  <1> HIDE DEF p, q
  <1>8. /\ r \in Seq(Incomes!Row)
        /\ SumOfAmounts(r, 1..Len(r)) = SumOfAmounts(walletIncomes, 1..Len(walletIncomes)) + SumOfAmounts(p, 1..Len(p))
        /\ \A i \in 1..Len(walletIncomes) : i \in 1..Len(r) /\ r[i] = walletIncomes[i]
        /\ \A i \in 1..Len(p) : Len(walletIncomes) + i \in 1..Len(r) /\ r[Len(walletIncomes) + i] = p[i]
    BY ONLY <1>5, <1>6, RowsConcat
  <1>9. walletIncomes' = r \o q
    BY <1>4
  <1> HIDE DEF r
  <1>10. /\ r \o q \in Seq(Incomes!Row)
         /\ SumOfAmounts(r \o q, 1..Len(r \o q)) = SumOfAmounts(r, 1..Len(r)) + SumOfAmounts(q, 1..Len(q))
         /\ \A i \in 1..Len(r) : i \in 1..Len(r \o q) /\ (r \o q)[i] = r[i]
         /\ \A i \in 1..Len(q) : Len(r) + i \in 1..Len(r \o q) /\ (r \o q)[Len(r) + i] = q[i]
    BY ONLY <1>7, <1>8, RowsConcat
  <1>11. Incomes!TypeOK'
    <2>1. walletSaved' \in 0..Len(walletTxs')
      BY <1>1, <1>2 DEF WalletOK
    <2>2. walletEvents' \subseteq 1..Len(walletTxs')
      BY <1>2, <1>3, <1>5 DEF WalletLts, Incomes!Of
    <2>3. walletIncomes' \in Seq(Incomes!Row)
      BY <1>9, <1>10
    <2>4. walletTxs' \in Seq(Incomes!Tx)
      BY <1>2, <1>5
    <2> QED BY <2>1, <2>2, <2>3, <2>4 DEF Incomes!TypeOK, Incomes!Tx, Incomes!Row
  <1>12. (Len(walletTxs) =< MaxWalletTx)' /\ (\A lt \in WalletLts : walletTxs[lt].kind \in WalletKind)'
    BY <1>2 DEF IncomesIInv, WalletLts
  <1>13. Incomes!EveryPaymentHasRow'
    <2> SUFFICES ASSUME NEW lt \in Incomes!Of({"notified", "silent"}, WalletLts)
                 PROVE  \E i \in 1..Len(r \o q) : (r \o q)[i].lt = lt
      BY <1>2, <1>9 DEF Incomes!EveryPaymentHasRow, Incomes!Of, WalletLts
    <2>1. CASE lt \in O
      <3>1. lt \in Incomes!Of({"notified", "silent"}, O)
        BY <2>1 DEF Incomes!Of
      <3>2. PICK i \in 1..Len(walletIncomes) : walletIncomes[i].lt = lt
        BY <3>1 DEF IncomesIInv, Incomes!EveryPaymentHasRow
      <3> QED BY <1>8, <1>10, <3>2
    <2>2. CASE lt \in B /\ lt \in N
      <3>1. PICK i \in 1..Len(p) : p[i].lt = lt
        BY <1>6, <2>2
      <3> QED BY <1>8, <1>10, <3>1
    <2>3. CASE lt \in B /\ lt \in Incomes!Of({"silent"}, B)
      <3>1. PICK i \in 1..Len(q) : q[i].lt = lt
        BY <1>7, <2>3
      <3> QED BY <1>10, <3>1
    <2> QED BY <1>3, <2>1, <2>2, <2>3 DEF Incomes!Of, Incomes!Notified
  <1>14. (Incomes!Recorded = Incomes!Total(Incomes!Of({"notified", "silent", "own"}, 1..walletSaved)))'
    <2>1. Incomes!Recorded = T(paid, O)
      BY DEF IncomesIInv
    <2>2. T(paid, WalletLts) = T(paid, O) + T(paid, B)
      BY <1>1, <1>3, TotalOfBlocks
    <2>3. T(paid, B) = T({"notified"}, B) + T({"silent", "own"}, B)
      <3>1. paid = {"notified"} \cup {"silent", "own"} /\ {"notified"} \cap {"silent", "own"} = {}
        OBVIOUS
      <3> HIDE DEF paid, B
      <3> QED BY <1>1, <1>3, <3>1, TotalOfKinds
    <2>4. Incomes!UnknownIncomeAmount(B) = T({"silent", "own"}, B)
      BY <1>1, UnknownIncome
    <2>5. Incomes!Total(N) = T({"notified"}, B)
      BY DEF Incomes!Notified
    <2>6. Incomes!Recorded = SumOfAmounts(walletIncomes, 1..Len(walletIncomes))
      BY RecordedIsSum
    <2>7. Incomes!Recorded' = SumOfAmounts(r \o q, 1..Len(r \o q))
      BY <1>9 DEF Incomes!Recorded, SumOfAmounts, MapThenSumSet, MapThenFoldSet, Incomes!MapThenSumSet, Incomes!MapThenFoldSet
    <2>8. Incomes!Total(Incomes!Of({"notified", "silent", "own"}, 1..walletSaved))' = T(paid, WalletLts)
      BY <1>2 DEF Incomes!Total, Incomes!Of, Incomes!MapThenSumSet, Incomes!MapThenFoldSet, WalletLts
    <2>9. T(paid, O) \in Nat /\ T({"notified"}, B) \in Nat /\ T({"silent", "own"}, B) \in Nat
      BY <1>1, <1>3, TotalOfBlocks
    <2> HIDE DEF T, B, O, N, paid
    <2>10. Incomes!Recorded' = T(paid, WalletLts)
      BY ONLY <1>6, <1>7, <1>8, <1>10, <2>1, <2>2, <2>3, <2>4, <2>5, <2>6, <2>7, <2>9
    <2> QED BY ONLY <2>8, <2>10
  <1> QED BY <1>11, <1>12, <1>13, <1>14 DEF IncomesIInv

\* The scanner records exactly the payments, an own one among them, whatever
\* transactions share a block and wherever the blocks end.
LEMMA IncomesInvariance == Incomes!Parameters /\ Incomes!Spec => []IncomesIInv
PROOF
  <1> SUFFICES ASSUME Incomes!Parameters PROVE Incomes!Spec => []IncomesIInv
    BY DEF Incomes!Parameters
  <1>1. Incomes!Init => IncomesIInv
    <2> SUFFICES ASSUME Incomes!Init PROVE IncomesIInv
      OBVIOUS
    <2>1. walletTxs = <<>> /\ walletSaved = 0 /\ walletIncomes = <<>> /\ walletEvents = {}
      BY DEF Incomes!Init
    <2>2. Incomes!TypeOK
      BY <2>1 DEF Incomes!TypeOK
    <2>3. Len(walletTxs) =< MaxWalletTx /\ WalletLts = {} /\ 1..walletSaved = {} /\ 1..Len(walletIncomes) = {}
      BY <2>1 DEF WalletLts, Incomes!Parameters
    <2>4. Incomes!Of({"notified", "silent", "own"}, 1..walletSaved) = {} /\ Incomes!Of({"notified", "silent"}, 1..walletSaved) = {}
      BY <2>3 DEF Incomes!Of
    <2>5. Incomes!Recorded = 0 /\ Incomes!Total({}) = 0
      BY <2>3, RecordedIsSum, TotalIsSum, AmountsEmpty
    <2> QED BY <2>2, <2>3, <2>4, <2>5 DEF IncomesIInv, Incomes!EveryPaymentHasRow
  <1>2. IncomesIInv /\ [Incomes!Next]_Incomes!vars => IncomesIInv'
    <2> SUFFICES ASSUME IncomesIInv, [Incomes!Next]_Incomes!vars PROVE IncomesIInv'
      OBVIOUS
    <2>1. CASE \E k \in WalletKind, a \in WalletAmount : Incomes!AddTx([kind |-> k, amount |-> a])
      BY <2>1, AddTxIncomes
    <2>2. CASE Incomes!ProcessJettonDepositWalletTXs
      BY <2>2, ProcessIncomes
    <2>3. CASE UNCHANGED Incomes!vars
      <3>1. walletTxs' = walletTxs /\ walletSaved' = walletSaved /\ walletIncomes' = walletIncomes /\ walletEvents' = walletEvents
        BY <2>3 DEF Incomes!vars
      <3> QED BY <3>1 DEF IncomesIInv, WalletLts, Incomes!TypeOK, Incomes!Tx, Incomes!Row, Incomes!EveryPaymentHasRow, Incomes!Of,
                         Incomes!Recorded, Incomes!Total, Incomes!MapThenSumSet, Incomes!MapThenFoldSet
    <2> QED BY <2>1, <2>2, <2>3 DEF Incomes!Next
  <1> QED BY <1>1, <1>2, PTL DEF Incomes!Spec

\* Type correctness: the rows and the events that processJettonDepositWalletTXs
\* makes name transactions of the wallet, and no amount is negative.
THEOREM IncomesTypeCorrect == Incomes!Parameters /\ Incomes!Spec => []Incomes!TypeOK
PROOF
  <1>1. IncomesIInv => Incomes!TypeOK
    BY DEF IncomesIInv
  <1> QED BY <1>1, IncomesInvariance, PTL

\* Every payment in a saved block has a row of external_incomes with its own lt,
\* although the amounts without a notification are put in one row.
THEOREM EveryPaymentIsKnown == Incomes!Parameters /\ Incomes!Spec => []Incomes!EveryPaymentHasRow
PROOF
  <1>1. IncomesIInv => Incomes!EveryPaymentHasRow
    BY DEF IncomesIInv
  <1> QED BY <1>1, IncomesInvariance, PTL

\* No address of the service pays to the deposit.
NoOwnTransfer == "own" \notin WalletKind

\* The amounts that the scanner records, partly from notifications and partly
\* from the difference of two balances, add up to exactly the payments from
\* outside, unless an address of the service pays to the deposit.
THEOREM IncomesAreExact == Incomes!Parameters /\ NoOwnTransfer /\ Incomes!Spec => []Incomes!IncomesExact
PROOF
  <1> SUFFICES ASSUME Incomes!Parameters, NoOwnTransfer PROVE Incomes!Spec => []Incomes!IncomesExact
    BY DEF Incomes!Parameters, NoOwnTransfer
  <1>1. IncomesIInv => Incomes!IncomesExact
    <2> SUFFICES ASSUME IncomesIInv PROVE Incomes!IncomesExact
      OBVIOUS
    <2>1. WalletOK /\ walletSaved \in 0..Len(walletTxs)
      BY IncomesFacts
    <2>2. \A lt \in 1..walletSaved : walletTxs[lt].kind # "own"
      BY <2>1 DEF IncomesIInv, WalletLts, WalletOK, NoOwnTransfer
    <2>3. Incomes!Of({"notified", "silent", "own"}, 1..walletSaved) = Incomes!Of({"notified", "silent"}, 1..walletSaved)
      BY <2>2 DEF Incomes!Of
    <2> QED BY <2>3 DEF IncomesIInv, Incomes!IncomesExact
  <1> QED BY <1>1, IncomesInvariance, PTL
=============================================================================

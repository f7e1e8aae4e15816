------------------------ MODULE InternalWithdrawals ------------------------
(***************************************************************************)
(* Internal TON withdrawals: payments to a deposit address are recorded as *)
(* external incomes; the internal withdrawals processor sweeps the whole   *)
(* deposit to the hot wallet with a message that carries a unique memo and *)
(* destroys the wallet contract.  The contract's seqno is reset by that,   *)
(* so the same message may be executed again while it is not expired and   *)
(* the deposit has received something.                                     *)
(*                                                                         *)
(* The logical time (lt) of a transaction is its place in txs.             *)
(*                                                                         *)
(* The memos of Jetton sweeps are in the same table.  A failed Jetton      *)
(* transfer of somebody else that carries the memo of a TON sweep is left  *)
(* out here; JettonWithdrawals shows what such a transfer does to a row.   *)
(***************************************************************************)
EXTENDS Integers, Sequences, FiniteSetsExt

CONSTANTS
  Deposit,       \* TON deposit addresses
  Memo,          \* memos of internal withdrawals
  NoMemo,        \* "no withdrawal is being sent"
  MinWithdrawal, \* config.Config.Ton.Withdrawal: only a greater balance is swept
  Lag,           \* config.AllowableBlockchainLagging
  Lifetime,      \* config.ExternalMessageLifetime
  SendDelay,     \* the time from computing expired_at to building the message
  ExpireDelay,   \* the time from the sync check to SetExpired's clock
  BlockGap,      \* least difference of gen_utime of two successive blocks
  MaxTime,       \* bound on the service's clock and on gen_utime
  MaxTx          \* bound on the number of transactions

ASSUME TimeAssumption ==
  /\ MinWithdrawal \in Nat /\ Lag \in Nat /\ Lifetime \in Nat
  /\ SendDelay \in Nat /\ ExpireDelay \in Nat
  /\ BlockGap \in Nat \ {0} /\ MaxTime \in Nat /\ MaxTx \in Nat

ASSUME SetAssumption == NoMemo \notin Memo /\ Deposit # {}

VARIABLES
  now,          \* the service's clock
  (* the blockchain *)
  txs,          \* transactions of the deposits
  balance,      \* balance[d]
  head,         \* gen_utime of the newest block, 0 before the first
  blocks,       \* gen_utimes of the blocks not yet saved by the scanner
  ttl,          \* ttl[m]: valid_until inside the message with memo m, 0 if none
  (* tables external_incomes, block_data and internal_withdrawals *)
  incomes,      \* lts of the rows of external_incomes
  lastBlock,    \* gen_utime of the newest saved block
  rows,         \* memos of the rows of internal_withdrawals
  from, since, exp, sending, finish, failed, amount,
  (* the internal withdrawals processor *)
  ipc,
  tasks,        \* tasks[d]: the task's lt, 0 if d has no task
  imemo, itime, \* the withdrawal that is being sent, when it was saved
  (* the expiration processor *)
  epc, etime,
  fatal         \* the scanner met an error it treats as impossible

chain == <<txs, balance, head, blocks, ttl>>
table == <<rows, from, since, exp, sending, finish, failed, amount>>
processor == <<ipc, tasks, imemo, itime>>
expirer == <<epc, etime>>
vars == <<now, chain, incomes, lastBlock, table, processor, expirer, fatal>>

Time == 0..MaxTime

NoTasks == [d \in Deposit |-> 0]

\* A payment to a deposit has no memo.
Tx == [dep : Deposit, memo : Memo \cup {NoMemo}, at : Time, amount : Nat]

Init ==
  /\ now = 0
  /\ txs = <<>> /\ balance = [d \in Deposit |-> 0] /\ head = 0 /\ blocks = {}
  /\ ttl = [m \in Memo |-> 0]
  /\ incomes = {} /\ lastBlock = 0
  /\ rows = {} /\ from = [m \in Memo |-> CHOOSE d \in Deposit : TRUE]
  /\ since = [m \in Memo |-> 0] /\ exp = [m \in Memo |-> 0]
  /\ sending = [m \in Memo |-> 0] /\ finish = [m \in Memo |-> 0]
  /\ failed = {} /\ amount = [m \in Memo |-> 0]
  /\ ipc = "sync" /\ tasks = NoTasks /\ imemo = NoMemo /\ itime = 0
  /\ epc = "sync" /\ etime = 0
  /\ fatal = FALSE

Tick ==
  /\ now < MaxTime
  /\ now' = now + 1
  /\ UNCHANGED <<chain, incomes, lastBlock, table, processor, expirer, fatal>>

-----------------------------------------------------------------------------
(* The blockchain and the deposits' wallet contracts (external). *)

\* A new block begins.  It grows until the next one begins or the scanner
\* reads it.
NewBlock(t) ==
  /\ t >= head + BlockGap /\ t =< now
  /\ head' = t
  /\ blocks' = blocks \cup {t}
  /\ UNCHANGED <<txs, balance, ttl, now, incomes, lastBlock, table, processor, expirer, fatal>>

\* Somebody pays one unit to a deposit.
Pay(d) ==
  /\ head \in blocks /\ Len(txs) < MaxTx
  /\ txs' = Append(txs, [dep |-> d, memo |-> NoMemo, at |-> head, amount |-> 1])
  /\ balance' = [balance EXCEPT ![d] = @ + 1]
  /\ UNCHANGED <<head, blocks, ttl, now, incomes, lastBlock, table, processor, expirer, fatal>>

\* The message with memo m is executed: it sends all and destroys the wallet.
Execute(m) ==
  /\ head \in blocks /\ head < ttl[m] /\ balance[from[m]] > 0 /\ Len(txs) < MaxTx
  /\ txs' = Append(txs, [dep |-> from[m], memo |-> m, at |-> head, amount |-> balance[from[m]]])
  /\ balance' = [balance EXCEPT ![from[m]] = 0]
  /\ UNCHANGED <<head, blocks, ttl, now, incomes, lastBlock, table, processor, expirer, fatal>>

-----------------------------------------------------------------------------
(* The internal TON withdrawals processor. *)

\* Not before the first block is saved.
IsActualBlockData == lastBlock > 0 /\ now - lastBlock < Lag

InternalWaitSync ==
  /\ ipc = "sync" /\ IsActualBlockData
  /\ ipc' = "tasks"
  /\ UNCHANGED <<tasks, imemo, itime, now, chain, incomes, lastBlock, table, expirer, fatal>>

\* (mutant: failed withdrawals count)
LastWithdrawalsFailedToo(d) ==
  {m \in rows : from[m] = d /\ \A n \in rows : from[n] = d => since[n] =< since[m]}

\* The withdrawals of d that count: the newest of those that are not failed.
LastWithdrawals(d) ==
  {m \in rows \ failed : from[m] = d /\ \A n \in rows \ failed : from[n] = d => since[n] =< since[m]}

\* (mutant: a withdrawal that is not finished does not count)
UnsweptIncomesAnyTime(d) ==
  {lt \in incomes : txs[lt].dep = d /\ \A m \in LastWithdrawals(d) : lt > finish[m]}

\* The incomes of d that make a task.
UnsweptIncomes(d) ==
  {lt \in incomes :
     /\ txs[lt].dep = d
     /\ \/ LastWithdrawals(d) = {}
        \/ \E m \in LastWithdrawals(d) : finish[m] # 0 /\ lt > finish[m]}

GetTonInternalWithdrawalTasks ==
  /\ ipc = "tasks"
  /\ tasks' = [d \in Deposit |-> IF UnsweptIncomes(d) = {} THEN 0 ELSE Max(UnsweptIncomes(d))]
  /\ ipc' = "next"
  /\ UNCHANGED <<imemo, itime, now, chain, incomes, lastBlock, table, expirer, fatal>>

\* The deposit's balance is not above the minimum, or the account does not exist.
SkipTask(d) ==
  /\ ipc = "next" /\ tasks[d] # 0
  /\ balance[d] =< MinWithdrawal
  /\ tasks' = [tasks EXCEPT ![d] = 0]
  /\ UNCHANGED <<ipc, imemo, itime, now, chain, incomes, lastBlock, table, expirer, fatal>>

SaveInternalWithdrawalTask(d, m) ==
  /\ ipc = "next" /\ tasks[d] # 0
  /\ balance[d] > MinWithdrawal
  /\ m \notin rows
  /\ rows' = rows \cup {m}
  /\ from' = [from EXCEPT ![m] = d]
  /\ since' = [since EXCEPT ![m] = tasks[d]]
  /\ exp' = [exp EXCEPT ![m] = now + Lifetime]
  /\ ipc' = "send" /\ imemo' = m /\ itime' = now
  /\ tasks' = [tasks EXCEPT ![d] = 0]
  /\ UNCHANGED <<sending, finish, failed, amount, now, chain, incomes, lastBlock, expirer, fatal>>

\* The message gets an expiration time of its own.  An error is only logged:
\* the message may get through or not.
WithdrawTONs ==
  /\ ipc = "send"
  /\ \/ now =< itime + SendDelay /\ ttl' = [ttl EXCEPT ![imemo] = now + Lifetime]
     \/ UNCHANGED ttl
  /\ ipc' = "next" /\ imemo' = NoMemo /\ itime' = 0
  /\ UNCHANGED <<tasks, now, txs, balance, head, blocks, incomes, lastBlock, table, expirer, fatal>>

TasksDone ==
  /\ ipc = "next" /\ tasks = NoTasks
  /\ ipc' = "sync"
  /\ UNCHANGED <<tasks, imemo, itime, now, chain, incomes, lastBlock, table, expirer, fatal>>

-----------------------------------------------------------------------------
(* The expiration processor. *)

ExpirationWaitSync ==
  /\ epc = "sync" /\ IsActualBlockData
  /\ epc' = "expire" /\ etime' = now
  /\ UNCHANGED <<now, chain, incomes, lastBlock, table, processor, fatal>>

\* (mutant: the allowable lagging is forgotten)
ExpiredRowsNoLag == {m \in rows \ failed : exp[m] < now /\ sending[m] = 0}

ExpiredRows == {m \in rows \ failed : exp[m] < now - Lag /\ sending[m] = 0}

SetExpired ==
  /\ epc = "expire"
  /\ now =< etime + ExpireDelay
  /\ failed' = failed \cup ExpiredRows
  /\ epc' = "sync" /\ etime' = 0
  /\ UNCHANGED <<rows, from, since, exp, sending, finish, amount,
                 now, chain, incomes, lastBlock, processor, fatal>>

-----------------------------------------------------------------------------
(* The block scanner. *)

Volatile ==
  /\ ipc' = "sync" /\ tasks' = NoTasks /\ imemo' = NoMemo /\ itime' = 0
  /\ epc' = "sync" /\ etime' = 0

\* The process ends anywhere and starts again.
Restart ==
  /\ Volatile
  /\ UNCHANGED <<now, chain, incomes, lastBlock, table, fatal>>

IsNextBlock(b) == b \in blocks /\ \A c \in blocks : b =< c

\* Transactions of block b with memo m.
BlockTxs(b, m) == {lt \in 1..Len(txs) : txs[lt].at = b /\ txs[lt].memo = m}

Confirmed(b) == {m \in Memo : BlockTxs(b, m) # {}}

\* (mutant: the lt that follows the message's)
NewLtNext(b, m, old) == IF m \in Confirmed(b) THEN Max(BlockTxs(b, m)) + 1 ELSE old

NewLt(b, m, old) == IF m \in Confirmed(b) THEN Max(BlockTxs(b, m)) ELSE old

\* (mutant: the amount of the last execution only)
NewAmountLast(b, m) ==
  IF m \in Confirmed(b) THEN MapThenSumSet(LAMBDA lt : txs[lt].amount, BlockTxs(b, m)) ELSE amount[m]

NewAmount(b, m) == amount[m] + MapThenSumSet(LAMBDA lt : txs[lt].amount, BlockTxs(b, m))

\* processBlock: incomes, sending confirmations and withdrawals of the block,
\* in one database transaction.  A confirmation of a withdrawal that is failed
\* or unknown ends the process.
SaveParsedBlockData(b) ==
  /\ IsNextBlock(b)
  /\ \/ /\ Confirmed(b) \subseteq rows \ failed
        /\ incomes' = incomes \cup BlockTxs(b, NoMemo)
        /\ sending' = [m \in Memo |-> NewLt(b, m, sending[m])]
        /\ finish' = [m \in Memo |-> NewLt(b, m, finish[m])]
        /\ amount' = [m \in Memo |-> NewAmount(b, m)]
        /\ lastBlock' = b /\ blocks' = blocks \ {b}
        /\ UNCHANGED <<rows, from, since, exp, failed, processor, expirer, fatal>>
     \/ /\ ~(Confirmed(b) \subseteq rows \ failed)
        /\ fatal' = TRUE
        /\ Volatile
        /\ UNCHANGED <<incomes, lastBlock, blocks, table>>
  /\ UNCHANGED <<now, txs, balance, head, ttl>>

-----------------------------------------------------------------------------
Next ==
  \/ Tick
  \/ \E t \in Time : NewBlock(t)
  \/ \E d \in Deposit : Pay(d)
  \/ \E m \in Memo : Execute(m)
  \/ InternalWaitSync
  \/ GetTonInternalWithdrawalTasks
  \/ \E d \in Deposit : SkipTask(d)
  \/ \E d \in Deposit, m \in Memo : SaveInternalWithdrawalTask(d, m)
  \/ WithdrawTONs
  \/ TasksDone
  \/ ExpirationWaitSync
  \/ SetExpired
  \/ \E b \in Time : SaveParsedBlockData(b)
  \/ Restart

Spec == Init /\ [][Next]_vars

-----------------------------------------------------------------------------
(* Properties. *)

\* Types of the chain, the tables and the goroutines' local state.
TypeOK ==
  /\ now \in Time
  /\ txs \in Seq(Tx) /\ balance \in [Deposit -> Nat] /\ head \in Time /\ blocks \subseteq Time
  /\ ttl \in [Memo -> Nat]
  /\ incomes \subseteq 1..Len(txs) /\ lastBlock \in Time
  /\ rows \subseteq Memo /\ from \in [Memo -> Deposit] /\ since \in [Memo -> 0..Len(txs)]
  /\ exp \in [Memo -> Nat] /\ sending \in [Memo -> 0..Len(txs)]
  /\ finish \in [Memo -> 0..Len(txs)] /\ failed \subseteq rows /\ amount \in [Memo -> Nat]
  /\ ipc \in {"sync", "tasks", "next", "send"} /\ tasks \in [Deposit -> 0..Len(txs)]
  /\ imemo \in Memo \cup {NoMemo} /\ itime \in Time
  /\ epc \in {"sync", "expire"} /\ etime \in Time
  /\ fatal \in BOOLEAN

\* The clocks that expired_at, the message and SetExpired read are close enough
\* for the distance of blocks.  The added two are ticks of those clocks, which
\* are finer than a second.
SafeTiming == SendDelay + ExpireDelay =< BlockGap + 2

\* The scanner never meets a sweep of a withdrawal that is already marked
\* failed ("invalid behavior of the expiration processor") or has no row.
NoFatal == ~fatal

\* A deposit never has two withdrawals under way, though tasks are read long
\* before they are carried out, old messages are executed again and the
\* process restarts.
OnePending ==
  \A m, n \in {k \in rows \ failed : finish[k] = 0} : from[m] = from[n] => m = n

\* internal_withdrawals accounts for every sweep in the saved blocks, repeated
\* executions of one message included ("amount = amount + $3").
AmountsAgree ==
  \A m \in Memo :
    amount[m] = MapThenSumSet(LAMBDA lt : txs[lt].amount,
                  {lt \in 1..Len(txs) : txs[lt].memo = m /\ txs[lt].at =< lastBlock})

Swept(lt) == \E s \in 1..Len(txs) : s > lt /\ txs[s].dep = txs[lt].dep /\ txs[s].memo # NoMemo

\* No payment is forgotten: one that is recorded and still on its deposit is
\* taken care of by a withdrawal under way, or makes a task.
NothingStranded ==
  \A lt \in incomes :
    Swept(lt) \/ lt \in UnsweptIncomes(txs[lt].dep)
      \/ \E m \in rows \ failed : from[m] = txs[lt].dep /\ finish[m] = 0
=============================================================================

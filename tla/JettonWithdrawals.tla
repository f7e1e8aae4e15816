------------------------- MODULE JettonWithdrawals -------------------------
(***************************************************************************)
(* Internal Jetton withdrawals: the hot wallet's batch message carries, for *)
(* each deposit, a message to the deposit's proxy contract, which forwards  *)
(* a Jetton transfer to the deposit's Jetton wallet.  The hot wallet's      *)
(* transaction confirms the sending; the Jetton wallet's, in the same or a  *)
(* later block, ends the withdrawal, successfully or not.  A transfer that  *)
(* anybody else sends to a Jetton wallet fails, and the scanner takes it    *)
(* for the end of the withdrawal with that memo.                            *)
(*                                                                         *)
(* The logical time (lt) of a transaction is its place in txs.  A batch     *)
(* message is the set of the memos in it.                                   *)
(***************************************************************************)
EXTENDS Integers, Sequences, FiniteSetsExt

CONSTANTS
  Deposit,          \* Jetton deposit wallets
  Memo,             \* memos of internal withdrawals
  WithdrawalCutoff, \* only a greater balance is swept
  Lag,              \* config.AllowableBlockchainLagging
  Lifetime,         \* config.ExternalMessageLifetime
  ExpireDelay,      \* the time from the sync check to SetExpired's clock
  BlockGap,         \* least difference of gen_utime of two successive blocks
  ViewLag,          \* how long the node's client keeps CurrentMasterchainInfo
  MaxTime,          \* bound on the service's clock and on gen_utime
  MaxTx             \* bound on the number of transactions

ASSUME TimeAssumption ==
  /\ WithdrawalCutoff \in Nat /\ Lag \in Nat /\ Lifetime \in Nat /\ ExpireDelay \in Nat
  /\ BlockGap \in Nat \ {0} /\ ViewLag \in Nat /\ MaxTime \in Nat /\ MaxTx \in Nat

ASSUME SetAssumption == Deposit # {}

VARIABLES
  now,        \* the service's clock
  (* the blockchain *)
  txs,        \* transactions of the hot wallet and of the deposits' Jetton wallets
  balance,    \* balance[d]: Jettons on d
  head,       \* gen_utime of the newest block, 0 before the first
  blocks,     \* gen_utimes of the blocks not yet saved by the scanner
  sent,       \* batch messages on their way to the hot wallet
  transit,    \* memos whose message has left the hot wallet, not yet at the Jetton wallet
  (* tables external_incomes, block_data and internal_withdrawals *)
  incomes,    \* lts of the rows of external_incomes
  lastBlock,  \* gen_utime of the newest saved block, 0 if there is none
  rows,       \* memos of the rows of internal_withdrawals
  from, since, exp, sending, finish, failed, amount,
  (* the withdrawals processor; value[m] is the amount in the transfer with    *)
  (* memo m, and m is stale if that balance is older than m's since_lt         *)
  wpc, tasks, batch, unsaved, value, stale,
  (* the expiration processor *)
  epc, etime,
  fatal       \* the scanner met an error it treats as impossible

chain == <<txs, balance, head, blocks, sent, transit>>
table == <<rows, from, since, exp, sending, finish, failed, amount>>
processor == <<wpc, tasks, batch, unsaved, value, stale>>
expirer == <<epc, etime>>
vars == <<now, chain, incomes, lastBlock, table, processor, expirer, fatal>>

Time == 0..MaxTime

\* left: the Jettons of each deposit after the transaction.
Tx == [kind : {"payment", "sending", "transfer", "failed", "foreign"},
       dep : Deposit, memos : SUBSET Memo, at : Time, left : [Deposit -> Nat]]

NoTasks == [d \in Deposit |-> 0]

Init ==
  /\ now = 0
  /\ txs = <<>> /\ balance = [d \in Deposit |-> 0] /\ head = 0 /\ blocks = {}
  /\ sent = {} /\ transit = {}
  /\ incomes = {} /\ lastBlock = 0
  /\ rows = {} /\ from = [m \in Memo |-> CHOOSE d \in Deposit : TRUE]
  /\ since = [m \in Memo |-> 0] /\ exp = [m \in Memo |-> 0]
  /\ sending = [m \in Memo |-> 0] /\ finish = [m \in Memo |-> 0]
  /\ failed = {} /\ amount = [m \in Memo |-> 0]
  /\ wpc = "sync" /\ tasks = NoTasks /\ batch = {} /\ unsaved = {}
  /\ value = [m \in Memo |-> 0] /\ stale = {}
  /\ epc = "sync" /\ etime = 0
  /\ fatal = FALSE

Tick ==
  /\ now < MaxTime
  /\ now' = now + 1
  /\ UNCHANGED <<chain, incomes, lastBlock, table, processor, expirer, fatal>>

-----------------------------------------------------------------------------
(* The blockchain, the hot wallet, the proxies and the Jetton wallets        *)
(* (external).                                                               *)

\* A new block begins.  It grows until the next one begins or the scanner
\* reads it.
NewBlock(t) ==
  /\ t >= head + BlockGap /\ t =< now
  /\ head' = t /\ blocks' = blocks \cup {t}
  /\ UNCHANGED <<txs, balance, sent, transit, now, incomes, lastBlock, table, processor, expirer, fatal>>

AddTx(kind, d, M, left) ==
  /\ head \in blocks /\ Len(txs) < MaxTx
  /\ txs' = Append(txs, [kind |-> kind, dep |-> d, memos |-> M, at |-> head, left |-> left])
  /\ balance' = left
  /\ UNCHANGED <<head, blocks, now, incomes, lastBlock, table, processor, expirer, fatal>>

\* Somebody pays one unit to a deposit.
Pay(d) ==
  /\ AddTx("payment", d, {}, [balance EXCEPT ![d] = @ + 1])
  /\ UNCHANGED <<sent, transit>>

\* The hot wallet accepts a batch message until it expires, once, and sends
\* some of its messages (all that its TON balance allows).
ExecuteBatch(M, S) ==
  /\ S \subseteq M
  /\ \A m \in M : head =< exp[m]
  /\ AddTx("sending", CHOOSE d \in Deposit : TRUE, S, balance)
  /\ sent' = sent \ {M} /\ transit' = transit \cup S

\* The transfer with memo m reaches the Jetton wallet and succeeds or fails.
Transfer(m) ==
  /\ m \in transit /\ transit' = transit \ {m}
  /\ \/ /\ value[m] =< balance[from[m]]
        /\ AddTx("transfer", from[m], {m}, [balance EXCEPT ![from[m]] = @ - value[m]])
     \/ AddTx("failed", from[m], {m}, balance)
  /\ UNCHANGED sent

\* The memos that anybody can read from a message to the hot wallet.
Public == UNION sent \cup UNION {txs[lt].memos : lt \in 1..Len(txs)}

\* A transfer that is not from the deposit's owner fails.  Its comment is no
\* memo of the service (M is empty), or the copy of one.
ForeignTransfer(d, M) ==
  /\ M = {} \/ \E m \in Public : M = {m}
  /\ AddTx("foreign", d, M, balance)
  /\ UNCHANGED <<sent, transit>>

-----------------------------------------------------------------------------
(* The withdrawals processor. *)

\* Not before the first block is saved.
IsActualBlockData == lastBlock > 0 /\ now - lastBlock < Lag

WithdrawalsWaitSync ==
  /\ wpc = "sync" /\ IsActualBlockData
  /\ wpc' = "tasks"
  /\ UNCHANGED <<tasks, batch, unsaved, value, stale, now, chain, incomes, lastBlock, table, expirer, fatal>>

\* The withdrawals of d that count: the newest of those that are not failed.
LastWithdrawals(d) ==
  {m \in rows \ failed : from[m] = d /\ \A n \in rows \ failed : from[n] = d => since[n] =< since[m]}

\* (mutant: a withdrawal that is not finished does not count)
UnsweptIncomesAnyTime(d) ==
  {lt \in incomes : txs[lt].dep = d /\ \A m \in LastWithdrawals(d) : lt > since[m]}

\* (mutant: the condition of the TON query, where a sweep takes everything)
UnsweptIncomesAfterFinish(d) ==
  {lt \in incomes :
     /\ txs[lt].dep = d
     /\ LastWithdrawals(d) = {} \/ \E m \in LastWithdrawals(d) : finish[m] # 0 /\ lt > finish[m]}

\* The incomes of d that make a task.
UnsweptIncomes(d) ==
  {lt \in incomes :
     /\ txs[lt].dep = d
     /\ LastWithdrawals(d) = {} \/ \E m \in LastWithdrawals(d) : finish[m] # 0 /\ lt > since[m]}

\* Deposits of the service withdrawals in the same batch are excluded.
GetJettonInternalWithdrawalTasks ==
  /\ wpc = "tasks"
  /\ \E used \in SUBSET Deposit :
       tasks' = [d \in Deposit |->
                   IF d \in used \/ UnsweptIncomes(d) = {} THEN 0 ELSE Max(UnsweptIncomes(d))]
  /\ wpc' = "build"
  /\ UNCHANGED <<batch, unsaved, value, stale, now, chain, incomes, lastBlock, table, expirer, fatal>>

\* The hot wallet has too few TONs, the batch is full, or the deposit has too
\* few Jettons.
SkipTask(d) ==
  /\ wpc = "build" /\ tasks[d] # 0
  /\ tasks' = [tasks EXCEPT ![d] = 0]
  /\ UNCHANGED <<wpc, batch, unsaved, value, stale, now, chain, incomes, lastBlock, table, expirer, fatal>>

\* The state after the first n transactions is one that GetLastJettonBalance
\* may ask for: that of the newest masterchain block, or of the one that the
\* client remembers from at most ViewLag ago.
Visible(n) ==
  \E t \in Time :
    /\ t = head \/ t >= now - ViewLag
    /\ \A lt \in 1..Len(txs) : lt =< n <=> txs[lt].at =< t

GetLastJettonBalance(n, d) == IF n = 0 THEN 0 ELSE txs[n].left[d]

\* The columns of the future row are known from here on; only rows says that
\* it is in the table.
BuildJettonInternalWithdrawalMessage(d, m, n) ==
  /\ wpc = "build" /\ tasks[d] # 0
  /\ Visible(n) /\ GetLastJettonBalance(n, d) > WithdrawalCutoff
  /\ m \notin rows \cup batch
  /\ value' = [value EXCEPT ![m] = GetLastJettonBalance(n, d)]
  /\ stale' = IF n < tasks[d] THEN stale \cup {m} ELSE stale \ {m}
  /\ from' = [from EXCEPT ![m] = d]
  /\ since' = [since EXCEPT ![m] = tasks[d]]
  /\ batch' = batch \cup {m}
  /\ tasks' = [tasks EXCEPT ![d] = 0]
  /\ UNCHANGED <<wpc, unsaved, rows, exp, sending, finish, failed, amount,
                 now, chain, incomes, lastBlock, expirer, fatal>>

\* All tasks are done: an empty batch is not sent, another one gets its
\* expiration time.
BuildExternalMessage ==
  /\ wpc = "build" /\ tasks = NoTasks
  /\ \/ batch = {} /\ wpc' = "sync" /\ UNCHANGED <<unsaved, exp>>
     \/ /\ batch # {} /\ wpc' = "save" /\ unsaved' = batch
        /\ exp' = [m \in Memo |-> IF m \in batch THEN now + Lifetime ELSE exp[m]]
  /\ UNCHANGED <<tasks, batch, value, stale, rows, from, since, sending, finish, failed, amount,
                 now, chain, incomes, lastBlock, expirer, fatal>>

\* One INSERT after the other, each on its own.
SaveInternalWithdrawalTask(m) ==
  /\ wpc = "save" /\ m \in unsaved
  /\ rows' = rows \cup {m} /\ unsaved' = unsaved \ {m}
  /\ UNCHANGED <<wpc, tasks, batch, value, stale, from, since, exp, sending, finish, failed, amount,
                 now, chain, incomes, lastBlock, expirer, fatal>>

\* An error of the call is only logged: the message may be executed or not.
SendExternalMessage ==
  /\ wpc = "save" /\ unsaved = {}
  /\ sent' = sent \cup {batch}
  /\ wpc' = "sync" /\ batch' = {}
  /\ UNCHANGED <<tasks, unsaved, value, stale, txs, balance, head, blocks, transit,
                 now, incomes, lastBlock, table, expirer, fatal>>

-----------------------------------------------------------------------------
(* The expiration processor. *)

ExpirationWaitSync ==
  /\ epc = "sync" /\ IsActualBlockData
  /\ epc' = "expire" /\ etime' = now
  /\ UNCHANGED <<now, chain, incomes, lastBlock, table, processor, fatal>>

ExpiredRows == {m \in rows \ failed : exp[m] < now - Lag /\ sending[m] = 0}

SetExpired ==
  /\ epc = "expire"
  /\ now =< etime + ExpireDelay
  /\ failed' = failed \cup ExpiredRows
  /\ epc' = "sync" /\ etime' = 0
  /\ UNCHANGED <<rows, from, since, exp, sending, finish, amount,
                 now, chain, incomes, lastBlock, processor, fatal>>

-----------------------------------------------------------------------------
(* The block scanner. *)

\* The columns of rows that have not reached the table are lost.
Kept(f) == [m \in Memo |-> IF m \in rows THEN f[m] ELSE 0]

Volatile ==
  /\ wpc' = "sync" /\ tasks' = NoTasks /\ batch' = {} /\ unsaved' = {}
  /\ value' = Kept(value) /\ since' = Kept(since) /\ exp' = Kept(exp)
  /\ stale' = stale \cap rows
  /\ epc' = "sync" /\ etime' = 0

\* The process ends anywhere and starts again.
Restart ==
  /\ Volatile
  /\ UNCHANGED <<rows, from, sending, finish, failed, amount,
                 now, chain, incomes, lastBlock, fatal>>

IsNextBlock(b) == b \in blocks /\ \A c \in blocks : b =< c

BlockTxs(b, kind) == {lt \in 1..Len(txs) : txs[lt].at = b /\ txs[lt].kind = kind}

\* lts of the transactions of a kind in block b that concern m.
Events(b, kind, m) == {lt \in BlockTxs(b, kind) : m \in txs[lt].memos}

Concerned(b, kind) == {m \in Memo : Events(b, kind, m) # {}}

\* (mutant: the lt that follows the message's)
NewLtNext(b, kind, m, old) == IF m \in Concerned(b, kind) THEN Max(Events(b, kind, m)) + 1 ELSE old

NewLt(b, kind, m, old) == IF m \in Concerned(b, kind) THEN Max(Events(b, kind, m)) ELSE old

\* (mutant: a confirmation in the same block comes too late)
SendingConfirmedBefore(b) == {m \in Memo : sending[m] # 0}

\* The withdrawals with a sending_lt once block b's confirmations are applied:
\* SaveParsedBlockData applies them before the withdrawals.
SendingConfirmed(b) == {m \in Memo : sending[m] # 0} \cup Concerned(b, "sending")

\* The end of m fails, or is somebody else's failed transfer.
Failures(b, m) == Events(b, "failed", m) \cup Events(b, "foreign", m)

Ends(b, m) == Events(b, "transfer", m) \cup Failures(b, m)

\* The accounts of a block are handled in any order (that of a Go map), the
\* transactions of one account in theirs.
Orders == {f \in [Deposit -> 1..Cardinality(Deposit)] : \A c, d \in Deposit : f[c] = f[d] => c = d}

Before(order, k, l) ==
  IF txs[k].dep = txs[l].dep THEN k < l ELSE order[txs[k].dep] < order[txs[l].dep]

\* The block's events are refused: the sending of a failed or unknown
\* withdrawal; a transfer with an unknown memo; or an end of a withdrawal that
\* is failed, by an event of the same block too, or whose sending is not
\* confirmed.
Impossible(b, order) ==
  \/ \E m \in Concerned(b, "sending") : m \notin rows \ failed
  \/ \E lt \in BlockTxs(b, "foreign") : txs[lt].memos = {}
  \/ \E m \in Memo :
       /\ Ends(b, m) # {}
       /\ \/ m \notin rows \ failed \/ m \notin SendingConfirmed(b)
          \/ \E k \in Failures(b, m), l \in Ends(b, m) : k # l /\ Before(order, k, l)

\* (mutant: IsFailed is not looked at)
EndedWell(b) == Concerned(b, "transfer") \cup Concerned(b, "failed")

\* Withdrawals of block b that succeeded.
Succeeded(b) == Concerned(b, "transfer")

SaveParsedBlockData(b, order) ==
  /\ IsNextBlock(b)
  /\ \/ /\ ~Impossible(b, order)
        /\ incomes' = incomes \cup BlockTxs(b, "payment")
        /\ sending' = [m \in Memo |-> NewLt(b, "sending", m, sending[m])]
        /\ finish' = [m \in Memo |-> NewLt(b, "transfer", m, finish[m])]
        /\ amount' = [m \in Memo |-> IF m \in Succeeded(b) THEN amount[m] + value[m] ELSE amount[m]]
        /\ failed' = failed \cup {m \in Memo : Failures(b, m) # {}}
        /\ lastBlock' = b /\ blocks' = blocks \ {b}
        /\ UNCHANGED <<rows, from, since, exp, processor, expirer, fatal>>
     \/ /\ Impossible(b, order)
        /\ fatal' = TRUE
        /\ Volatile
        /\ UNCHANGED <<rows, from, sending, finish, failed, amount, incomes, lastBlock, blocks>>
  /\ UNCHANGED <<now, txs, balance, head, sent, transit>>

-----------------------------------------------------------------------------
Next ==
  \/ Tick
  \/ \E t \in Time : NewBlock(t)
  \/ \E d \in Deposit : Pay(d)
  \/ \E M \in sent : \E S \in SUBSET M : ExecuteBatch(M, S)
  \/ \E m \in Memo : Transfer(m)
  \/ \E d \in Deposit, M \in SUBSET Memo : ForeignTransfer(d, M)
  \/ WithdrawalsWaitSync
  \/ GetJettonInternalWithdrawalTasks
  \/ \E d \in Deposit : SkipTask(d)
  \/ \E d \in Deposit, m \in Memo, n \in 0..Len(txs) : BuildJettonInternalWithdrawalMessage(d, m, n)
  \/ BuildExternalMessage
  \/ \E m \in Memo : SaveInternalWithdrawalTask(m)
  \/ SendExternalMessage
  \/ ExpirationWaitSync
  \/ SetExpired
  \/ \E b \in Time, order \in Orders : SaveParsedBlockData(b, order)
  \/ Restart

Spec == Init /\ [][Next]_vars

-----------------------------------------------------------------------------
(* Properties. *)

\* Types of the chain, the tables and the goroutines' local state.
TypeOK ==
  /\ now \in Time
  /\ txs \in Seq(Tx) /\ balance \in [Deposit -> Nat] /\ head \in Time /\ blocks \subseteq Time
  /\ sent \subseteq SUBSET Memo /\ transit \subseteq Memo
  /\ incomes \subseteq 1..Len(txs) /\ lastBlock \in Time
  /\ rows \subseteq Memo /\ from \in [Memo -> Deposit] /\ since \in [Memo -> 0..Len(txs)]
  /\ exp \in [Memo -> Nat] /\ sending \in [Memo -> 0..Len(txs)]
  /\ finish \in [Memo -> 0..Len(txs)] /\ failed \subseteq rows /\ amount \in [Memo -> Nat]
  /\ wpc \in {"sync", "tasks", "build", "save"} /\ tasks \in [Deposit -> 0..Len(txs)]
  /\ batch \subseteq Memo /\ unsaved \subseteq batch /\ value \in [Memo -> Nat]
  /\ stale \subseteq Memo
  /\ epc \in {"sync", "expire"} /\ etime \in Time
  /\ fatal \in BOOLEAN

\* The clock that SetExpired reads is close enough to the sync check for the
\* distance of blocks.  The added one is a tick of that clock, which is finer
\* than a second.
SafeTiming == ExpireDelay =< BlockGap + 1

\* Nobody has sent a transfer of his own to a deposit's Jetton wallet.
Undisturbed == \A lt \in 1..Len(txs) : txs[lt].kind # "foreign"

\* The scanner never stops for what the service itself has done: it meets no
\* sending or end of a withdrawal that is already failed ("invalid behavior of
\* the expiration processor") and no end without a confirmed sending ("invalid
\* event order"), even when the whole chain of transactions is in one block.
\* It does stop for a failed transfer of somebody else.
NoOwnFatal == fatal => ~Undisturbed

Pending == {m \in rows \ failed : finish[m] = 0}

\* A deposit never has two withdrawals under way, though the rows of a batch
\* are saved one by one, messages get lost, transfers fail and the process
\* restarts.
OnePending == \A m, n \in Pending : from[m] = from[n] => m = n

Saved(kind) == {lt \in 1..Len(txs) : txs[lt].kind = kind /\ txs[lt].at =< lastBlock}

\* internal_withdrawals accounts for exactly the transfers that succeeded.
AmountsAgree ==
  \A m \in Memo :
    amount[m] = IF \E lt \in Saved("transfer") : m \in txs[lt].memos THEN value[m] ELSE 0

\* Jettons of d according to the tables.
OnDeposit(d) ==
  Cardinality({lt \in incomes : txs[lt].dep = d})
    - MapThenSumSet(LAMBDA m : amount[m], {m \in rows : from[m] = d})

\* No payment is forgotten: while Jettons are left on a deposit, a withdrawal
\* is under way or the next query makes a task, payments that arrived between
\* the query, the reading of the balance and the transfer included.  The
\* exception is a last withdrawal whose balance the node answered from a state
\* older than the newest income of its task: what it missed waits for the next
\* payment.
NothingStranded ==
  \A d \in Deposit :
    /\ OnDeposit(d) >= 0
    /\ OnDeposit(d) > 0 =>
         \/ UnsweptIncomes(d) # {}
         \/ \E m \in Pending : from[m] = d
         \/ \E m \in LastWithdrawals(d) : m \in stale
=============================================================================

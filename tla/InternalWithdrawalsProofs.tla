--------------------- MODULE InternalWithdrawalsProofs ---------------------
(***************************************************************************)
(* The scanner never stops, a deposit has one withdrawal under way and no  *)
(* payment is stranded, for every set of deposits and memos and every      *)
(* timing that satisfies SafeTiming.  For any timing, types hold and the   *)
(* amounts of internal_withdrawals are those of the saved sweeps.          *)
(***************************************************************************)
EXTENDS InternalWithdrawals, Aggregates, TLAPS

-----------------------------------------------------------------------------
(* The inductive invariant. *)

TypeInv ==
  /\ now \in Time
  /\ txs \in Seq(Tx) /\ balance \in [Deposit -> Nat] /\ head \in Time /\ blocks \subseteq Time
  /\ ttl \in [Memo -> Nat]
  /\ incomes \subseteq 1..Len(txs) /\ lastBlock \in Time
  /\ rows \subseteq Memo /\ from \in [Memo -> Deposit] /\ since \in [Memo -> 0..Len(txs)]
  /\ exp \in [Memo -> Nat] /\ finish \in [Memo -> 0..Len(txs)] /\ failed \subseteq rows
  /\ ipc \in {"sync", "tasks", "next", "send"} /\ tasks \in [Deposit -> 0..Len(txs)]
  /\ imemo \in Memo \cup {NoMemo} /\ itime \in Time
  /\ epc \in {"sync", "expire"} /\ etime \in Time

\* Blocks keep their distance, and every transaction is in a saved block or in
\* one the scanner will still meet.
ChainInv ==
  /\ head = lastBlock \/ head \in blocks
  /\ \A b \in blocks : lastBlock + BlockGap =< b /\ b =< head
  /\ \A b, c \in blocks : b < c => b + BlockGap =< c
  /\ \A lt \in 1..Len(txs) : txs[lt].at =< lastBlock \/ txs[lt].at \in blocks

\* A sweep belongs to a row, is younger than the payment that caused the row
\* and was executed before the message's valid_until.
SweepOf(lt, m) ==
  m \in rows /\ txs[lt].dep = from[m] /\ since[m] < lt /\ txs[lt].at < exp[m] + SendDelay

SweepInv ==
  \A lt \in 1..Len(txs) : txs[lt].memo # NoMemo => SweepOf(lt, txs[lt].memo)

RowInv ==
  /\ \A m \in rows : ttl[m] =< exp[m] + SendDelay
  /\ \A m \in Memo \ rows : ttl[m] = 0
  /\ \A m \in Memo : finish[m] # 0 => txs[finish[m]].memo = m
  /\ \A lt \in incomes : txs[lt].memo = NoMemo
  /\ sending = finish

SendInv == ipc = "send" => imemo \in rows /\ exp[imemo] = itime + Lifetime

\* What the expiration processor gave up, no later block can execute.
ExpiryInv ==
  /\ epc = "expire" => etime - lastBlock < Lag
  /\ \A m \in failed : exp[m] + SendDelay =< lastBlock + BlockGap

\* The withdrawal under way is the newest of its deposit.
LastInv ==
  \A m, n \in rows \ failed :
    m # n /\ from[m] = from[n] /\ finish[m] = 0 => since[n] < since[m]

\* A task stays valid until it is carried out.
TaskInv ==
  \A d \in Deposit : tasks[d] # 0 =>
    \A m \in rows \ failed : from[m] = d => finish[m] # 0 /\ since[m] < tasks[d]

IInv ==
  /\ TypeInv /\ ChainInv /\ SweepInv /\ RowInv /\ SendInv /\ ExpiryInv
  /\ LastInv /\ TaskInv /\ ~fatal

-----------------------------------------------------------------------------
(* Lemmas about the operators. *)

\* A deposit with a withdrawal that is not failed has a newest one.
LEMMA LastExists ==
  ASSUME TypeInv, NEW d \in Deposit, NEW n \in rows \ failed, from[n] = d
  PROVE  LastWithdrawals(d) # {}
PROOF
  <1> DEFINE W == {m \in rows \ failed : from[m] = d}
             S == {since[m] : m \in W}
  <1>1. Len(txs) \in Nat
    BY DEF TypeInv
  <1>2. S \in SUBSET (0..Len(txs)) /\ S # {}
    <2>1. n \in W
      OBVIOUS
    <2>2. \A m \in W : since[m] \in 0..Len(txs)
      BY DEF TypeInv
    <2> HIDE DEF W
    <2> QED BY <2>1, <2>2
  <1>3. Max(S) \in S /\ \A x \in S : x =< Max(S)
    <2> HIDE DEF S
    <2> QED BY <1>1, <1>2, MaxOfBounded
  <1>4. PICK m \in W : since[m] = Max(S)
    BY <1>3
  <1>5. \A k \in W : since[k] =< since[m]
    BY <1>3, <1>4
  <1> QED BY <1>5 DEF LastWithdrawals

\* A transaction has a deposit and the time of its block.
LEMMA TxType ==
  ASSUME TypeInv, NEW lt \in 1..Len(txs)
  PROVE  txs[lt].dep \in Deposit /\ txs[lt].at \in Time
PROOF
  <1>1. txs \in Seq(Tx)
    BY DEF TypeInv
  <1>2. txs[lt] \in Tx
    BY <1>1
  <1> QED BY <1>2 DEF Tx

\* The lt a block gives to a withdrawal is that of one of its sweeps.
LEMMA NewLtType ==
  ASSUME TypeInv, NEW b \in Time, NEW m \in Confirmed(b), NEW old
  PROVE  NewLt(b, m, old) \in BlockTxs(b, m)
PROOF
  <1>1. BlockTxs(b, m) \in SUBSET (0..Len(txs)) /\ BlockTxs(b, m) # {}
    BY DEF BlockTxs, Confirmed
  <1>2. Len(txs) \in Nat
    BY DEF TypeInv
  <1> QED BY <1>1, <1>2, MaxOfBounded DEF NewLt

-----------------------------------------------------------------------------
(* The initial state and the steps. *)

LEMMA InitIInv ==
  ASSUME Init
  PROVE  IInv
PROOF
  <1> USE TimeAssumption, SetAssumption DEF Init
  <1>1. TypeInv
    BY DEF TypeInv, Time, NoTasks, Tx
  <1>2. ChainInv /\ SweepInv /\ RowInv /\ SendInv /\ ExpiryInv
    BY DEF ChainInv, SweepInv, RowInv, SendInv, ExpiryInv
  <1>3. LastInv /\ TaskInv
    BY DEF LastInv, TaskInv, NoTasks
  <1> QED BY <1>1, <1>2, <1>3 DEF IInv

LEMMA StutterIInv ==
  ASSUME IInv, UNCHANGED vars
  PROVE  IInv'
PROOF
  BY DEF IInv, TypeInv, ChainInv, SweepInv, SweepOf, RowInv, SendInv, ExpiryInv, LastInv, TaskInv,
         vars, chain, table, processor, expirer

LEMMA TickIInv ==
  ASSUME IInv, Tick
  PROVE  IInv'
PROOF
  <1> USE TimeAssumption DEF Tick, IInv, chain, table, processor, expirer
  <1>1. TypeInv'
    BY DEF TypeInv, Time
  <1>2. (ChainInv /\ SweepInv /\ RowInv /\ SendInv /\ ExpiryInv /\ LastInv /\ TaskInv)'
    BY DEF ChainInv, SweepInv, SweepOf, RowInv, SendInv, ExpiryInv, LastInv, TaskInv
  <1> QED BY <1>1, <1>2

LEMMA NewBlockIInv ==
  ASSUME IInv, NEW t \in Time, NewBlock(t)
  PROVE  IInv'
PROOF
  <1> USE TimeAssumption DEF NewBlock, IInv, table, processor, expirer
  <1>1. TypeInv'
    BY DEF TypeInv
  <1>2. ChainInv'
    BY DEF ChainInv, TypeInv, Time
  <1>3. (SweepInv /\ RowInv /\ SendInv /\ ExpiryInv /\ LastInv /\ TaskInv)'
    BY DEF SweepInv, SweepOf, RowInv, SendInv, ExpiryInv, LastInv, TaskInv
  <1> QED BY <1>1, <1>2, <1>3

\* Payments and sweeps only append a transaction of the newest block, which
\* the scanner has not saved.
LEMMA AppendFacts ==
  ASSUME TypeInv, NEW x \in Tx, txs' = Append(txs, x)
  PROVE  /\ txs' \in Seq(Tx) /\ Len(txs) \in Nat /\ Len(txs') = Len(txs) + 1
         /\ \A lt \in 1..Len(txs) : txs'[lt] = txs[lt]
         /\ txs'[Len(txs')] = x
PROOF
  BY DEF TypeInv

\* What an appended transaction leaves alone.
LEMMA AppendIInv ==
  ASSUME IInv, NEW x \in Tx, txs' = Append(txs, x), x.at = head, head \in blocks,
         balance' \in [Deposit -> Nat],
         x.memo # NoMemo => /\ x.memo \in rows /\ x.dep = from[x.memo]
                            /\ head < exp[x.memo] + SendDelay,
         UNCHANGED <<head, blocks, ttl, now, incomes, lastBlock, table, processor, expirer, fatal>>
  PROVE  IInv'
PROOF
  <1> USE TimeAssumption, SetAssumption DEF IInv, table, processor, expirer
  <1>0. /\ txs' \in Seq(Tx) /\ Len(txs) \in Nat /\ Len(txs') = Len(txs) + 1
        /\ \A lt \in 1..Len(txs) : txs'[lt] = txs[lt]
        /\ txs'[Len(txs')] = x
    BY AppendFacts
  <1>1. TypeInv'
    BY <1>0 DEF TypeInv
  <1>2. ChainInv'
    <2>1. \A lt \in 1..Len(txs') : txs'[lt].at =< lastBlock \/ txs'[lt].at \in blocks
      BY <1>0 DEF ChainInv
    <2> QED BY <2>1 DEF ChainInv
  <1>3. SweepInv'
    <2> SUFFICES ASSUME NEW lt \in 1..Len(txs'), txs'[lt].memo # NoMemo
                 PROVE  SweepOf(lt, txs[lt].memo)'
      BY DEF SweepInv
    <2>1. CASE lt \in 1..Len(txs)
      BY <1>0, <2>1 DEF SweepInv, SweepOf
    <2>2. CASE lt = Len(txs) + 1
      <3>1. txs'[lt] = x
        BY <1>0, <2>2
      <3>2. x.memo \in rows /\ since[x.memo] \in 0..Len(txs)
        BY <3>1 DEF TypeInv
      <3> QED BY <1>0, <2>2, <3>1, <3>2 DEF SweepOf
    <2> QED BY <1>0, <2>1, <2>2
  <1>4. RowInv'
    <2>0. \A m \in Memo : finish[m] \in 0..Len(txs)
      BY DEF TypeInv
    <2>1. \A m \in Memo : finish[m] # 0 => txs'[finish[m]].memo = m
      BY <1>0, <2>0 DEF RowInv
    <2>2. \A lt \in incomes : txs'[lt].memo = NoMemo
      BY <1>0 DEF RowInv, TypeInv
    <2> QED BY <2>1, <2>2 DEF RowInv
  <1>5. (SendInv /\ ExpiryInv /\ LastInv /\ TaskInv)'
    BY DEF SendInv, ExpiryInv, LastInv, TaskInv
  <1> QED BY <1>1, <1>2, <1>3, <1>4, <1>5

LEMMA PayIInv ==
  ASSUME IInv, NEW d \in Deposit, Pay(d)
  PROVE  IInv'
PROOF
  <1> DEFINE x == [dep |-> d, memo |-> NoMemo, at |-> head, amount |-> 1]
  <1>1. x \in Tx
    BY DEF Tx, IInv, TypeInv
  <1>2. balance' \in [Deposit -> Nat]
    BY DEF Pay, IInv, TypeInv
  <1>3. txs' = Append(txs, x) /\ x.at = head /\ head \in blocks /\ x.memo = NoMemo
    BY DEF Pay
  <1>4. UNCHANGED <<head, blocks, ttl, now, incomes, lastBlock, table, processor, expirer, fatal>>
    BY DEF Pay
  <1> HIDE DEF x
  <1> QED BY <1>1, <1>2, <1>3, <1>4, AppendIInv

LEMMA ExecuteIInv ==
  ASSUME IInv, NEW m \in Memo, Execute(m)
  PROVE  IInv'
PROOF
  <1> DEFINE x == [dep |-> from[m], memo |-> m, at |-> head, amount |-> balance[from[m]]]
  <1>1. x \in Tx
    BY DEF Tx, IInv, TypeInv
  <1>2. balance' \in [Deposit -> Nat]
    BY DEF Execute, IInv, TypeInv
  <1>3. txs' = Append(txs, x) /\ x.at = head /\ head \in blocks /\ x.memo = m /\ x.dep = from[m]
    BY DEF Execute
  <1>4. m \in rows /\ head < exp[m] + SendDelay
    BY TimeAssumption DEF Execute, IInv, TypeInv, RowInv, Time
  <1>5. UNCHANGED <<head, blocks, ttl, now, incomes, lastBlock, table, processor, expirer, fatal>>
    BY DEF Execute
  <1> HIDE DEF x
  <1> QED BY <1>1, <1>2, <1>3, <1>4, <1>5, AppendIInv

\* The processor's steps that touch neither a table nor the chain.
LEMMA InternalWaitSyncIInv ==
  ASSUME IInv, InternalWaitSync \/ TasksDone \/ \E d \in Deposit : SkipTask(d)
  PROVE  IInv'
PROOF
  <1> USE DEF InternalWaitSync, TasksDone, SkipTask, IInv, chain, table, expirer
  <1>1. TypeInv'
    <2>1. Len(txs) \in Nat
      BY DEF TypeInv
    <2>2. tasks' \in [Deposit -> 0..Len(txs)]
      BY <2>1 DEF TypeInv
    <2>3. ipc' \in {"sync", "tasks", "next", "send"}
      OBVIOUS
    <2>4. UNCHANGED <<imemo, itime, now, chain, incomes, lastBlock, table, expirer>>
      OBVIOUS
    <2> HIDE DEF InternalWaitSync, TasksDone, SkipTask
    <2> QED BY <2>2, <2>3, <2>4 DEF TypeInv
  <1>2. (ChainInv /\ SweepInv /\ RowInv /\ ExpiryInv /\ LastInv)'
    BY DEF ChainInv, SweepInv, SweepOf, RowInv, ExpiryInv, LastInv
  <1>3. SendInv'
    BY DEF SendInv
  <1>4. TaskInv'
    BY DEF TaskInv, TypeInv
  <1> QED BY <1>1, <1>2, <1>3, <1>4

\* The query returns a deposit only when its newest withdrawal is finished,
\* and with a payment newer than it.
LEMMA GetTasksIInv ==
  ASSUME IInv, GetTonInternalWithdrawalTasks
  PROVE  IInv'
PROOF
  <1> USE DEF GetTonInternalWithdrawalTasks, IInv, chain, table, expirer
  <1>0. Len(txs) \in Nat
    BY DEF TypeInv
  <1>1. \A d \in Deposit : UnsweptIncomes(d) \in SUBSET (0..Len(txs))
    <2>1. incomes \subseteq 0..Len(txs)
      BY <1>0 DEF TypeInv
    <2>2. \A d \in Deposit : UnsweptIncomes(d) \subseteq incomes
      BY DEF UnsweptIncomes
    <2> QED BY <2>1, <2>2
  <1>2. \A d \in Deposit : UnsweptIncomes(d) # {} => Max(UnsweptIncomes(d)) \in UnsweptIncomes(d)
    BY <1>0, <1>1, MaxOfBounded
  <1>3. \A d \in Deposit : tasks'[d] \in 0..Len(txs) /\ (tasks'[d] # 0 => tasks'[d] \in UnsweptIncomes(d))
    BY <1>0, <1>1, <1>2
  <1>4. TypeInv'
    BY <1>3 DEF TypeInv
  <1>5. TaskInv'
    <2> SUFFICES ASSUME NEW d \in Deposit, tasks'[d] # 0,
                        NEW n \in rows \ failed, from[n] = d
                 PROVE  finish[n] # 0 /\ since[n] < tasks'[d]
      BY DEF TaskInv
    <2>1. LastWithdrawals(d) # {}
      BY LastExists
    <2>2. PICK m \in LastWithdrawals(d) : finish[m] # 0 /\ tasks'[d] > finish[m]
      BY <1>3, <2>1 DEF UnsweptIncomes
    <2>3. m \in rows \ failed /\ from[m] = d /\ since[n] =< since[m]
      BY DEF LastWithdrawals
    <2>4. /\ since[n] \in Nat /\ since[m] \in Nat /\ m \in Memo
          /\ finish[m] \in 1..Len(txs) /\ tasks'[d] \in Nat
      BY <1>0, <1>3, <2>2, <2>3 DEF TypeInv
    <2>5. since[m] < finish[m]
      <3>1. txs[finish[m]].memo = m /\ m # NoMemo
        BY <2>2, <2>4, SetAssumption DEF RowInv
      <3> QED BY <2>4, <3>1 DEF SweepInv, SweepOf
    <2>6. finish[n] # 0
      <3> SUFFICES ASSUME finish[n] = 0 PROVE FALSE
        OBVIOUS
      <3>1. m # n
        BY <2>2
      <3>2. since[m] < since[n]
        BY <2>3, <3>1 DEF LastInv
      <3> QED BY <2>3, <2>4, <3>2
    <2> QED BY <2>2, <2>3, <2>4, <2>5, <2>6
  <1>6. (ChainInv /\ SweepInv /\ RowInv /\ SendInv /\ ExpiryInv /\ LastInv)'
    BY DEF ChainInv, SweepInv, SweepOf, RowInv, SendInv, ExpiryInv, LastInv
  <1> QED BY <1>4, <1>5, <1>6

\* A row is inserted only while its deposit has a valid task: it becomes the
\* deposit's newest row.
LEMMA SaveTaskIInv ==
  ASSUME IInv, NEW d \in Deposit, NEW m \in Memo, SaveInternalWithdrawalTask(d, m)
  PROVE  IInv'
PROOF
  <1> USE TimeAssumption, SetAssumption DEF SaveInternalWithdrawalTask, IInv, chain, expirer
  <1>0. /\ Len(txs) \in Nat /\ tasks[d] \in 0..Len(txs) /\ now \in Nat /\ now + Lifetime \in Nat
        /\ m \notin failed
    BY DEF TypeInv, Time
  <1>1. TypeInv'
    <2>1. since' \in [Memo -> 0..Len(txs)] /\ exp' \in [Memo -> Nat] /\ from' \in [Memo -> Deposit]
      BY <1>0 DEF TypeInv
    <2>2. tasks' \in [Deposit -> 0..Len(txs)]
      BY <1>0 DEF TypeInv
    <2> QED BY <2>1, <2>2 DEF TypeInv
  <1>2. ChainInv'
    BY DEF ChainInv
  <1>3. SweepInv'
    <2> SUFFICES ASSUME NEW lt \in 1..Len(txs), txs[lt].memo # NoMemo
                 PROVE  SweepOf(lt, txs[lt].memo)'
      BY DEF SweepInv
    <2>1. SweepOf(lt, txs[lt].memo) /\ txs[lt].memo # m
      BY DEF SweepInv, SweepOf
    <2> QED BY <2>1 DEF SweepOf, TypeInv
  <1>4. RowInv'
    <2>1. \A k \in rows' : ttl[k] =< exp'[k] + SendDelay
      <3>1. ttl[m] = 0 /\ exp'[m] = now + Lifetime
        BY DEF RowInv, TypeInv
      <3>2. \A k \in rows : exp'[k] = exp[k] /\ ttl[k] =< exp[k] + SendDelay
        BY DEF RowInv, TypeInv
      <3> QED BY <1>0, <3>1, <3>2
    <2> QED BY <2>1 DEF RowInv
  <1>5. SendInv'
    BY DEF SendInv, TypeInv
  <1>6. ExpiryInv'
    BY <1>0 DEF ExpiryInv, TypeInv
  <1>7. LastInv'
    <2> SUFFICES ASSUME NEW k \in rows' \ failed, NEW n \in rows' \ failed,
                        k # n, from'[k] = from'[n], finish[k] = 0
                 PROVE  since'[n] < since'[k]
      BY DEF LastInv
    <2>1. CASE k = m
      BY <2>1 DEF TaskInv, TypeInv
    <2>2. CASE n = m
      <3>1. k \in rows \ failed /\ from[k] = d
        BY <2>2 DEF TypeInv
      <3> QED BY <3>1 DEF TaskInv
    <2>3. CASE k # m /\ n # m
      BY <2>3 DEF LastInv, TypeInv
    <2> QED BY <2>1, <2>2, <2>3
  <1>8. TaskInv'
    <2> SUFFICES ASSUME NEW c \in Deposit, tasks'[c] # 0, NEW n \in rows' \ failed, from'[n] = c
                 PROVE  finish[n] # 0 /\ since'[n] < tasks'[c]
      BY DEF TaskInv
    <2>1. c # d /\ tasks'[c] = tasks[c]
      BY DEF TypeInv
    <2>2. n # m
      BY <2>1 DEF TypeInv
    <2>3. n \in rows \ failed /\ from[n] = c /\ since'[n] = since[n]
      BY <2>2 DEF TypeInv
    <2> QED BY <2>1, <2>3 DEF TaskInv
  <1> QED BY <1>1, <1>2, <1>3, <1>4, <1>5, <1>6, <1>7, <1>8

\* The message's own expiration time is at most SendDelay after expired_at.
LEMMA WithdrawTONsIInv ==
  ASSUME IInv, WithdrawTONs
  PROVE  IInv'
PROOF
  <1> USE TimeAssumption DEF WithdrawTONs, IInv, table, expirer
  <1>0. now \in Nat /\ itime \in Nat /\ imemo \in rows /\ exp[imemo] = itime + Lifetime
    BY DEF TypeInv, Time, SendInv
  <1>1. TypeInv'
    <2>1. ttl' \in [Memo -> Nat]
      <3>1. now + Lifetime \in Nat
        BY <1>0
      <3> QED BY <3>1 DEF TypeInv
    <2> QED BY <2>1 DEF TypeInv, Time
  <1>2. RowInv'
    <2>1. \A m \in rows : ttl'[m] =< exp[m] + SendDelay
      <3> SUFFICES ASSUME NEW m \in rows PROVE ttl'[m] =< exp[m] + SendDelay
        OBVIOUS
      <3>1. m \in Memo /\ ttl[m] =< exp[m] + SendDelay
        BY DEF RowInv, TypeInv
      <3>2. ttl'[m] = ttl[m] \/ (m = imemo /\ now =< itime + SendDelay /\ ttl'[m] = now + Lifetime)
        BY <3>1 DEF TypeInv
      <3> QED BY <1>0, <3>1, <3>2
    <2>2. \A m \in Memo \ rows : ttl'[m] = 0
      BY <1>0 DEF RowInv, TypeInv
    <2> QED BY <2>1, <2>2 DEF RowInv
  <1>3. (ChainInv /\ SweepInv /\ SendInv /\ ExpiryInv /\ LastInv /\ TaskInv)'
    BY DEF ChainInv, SweepInv, SweepOf, SendInv, ExpiryInv, LastInv, TaskInv
  <1> QED BY <1>1, <1>2, <1>3

LEMMA ExpirationWaitSyncIInv ==
  ASSUME IInv, ExpirationWaitSync
  PROVE  IInv'
PROOF
  <1> USE DEF ExpirationWaitSync, IInv, chain, table, processor
  <1>1. TypeInv'
    BY DEF TypeInv
  <1>2. ExpiryInv'
    BY DEF ExpiryInv, IsActualBlockData
  <1>3. (ChainInv /\ SweepInv /\ RowInv /\ SendInv /\ LastInv /\ TaskInv)'
    BY DEF ChainInv, SweepInv, SweepOf, RowInv, SendInv, LastInv, TaskInv
  <1> QED BY <1>1, <1>2, <1>3

\* A withdrawal given up was built so long ago that its message has expired
\* for every block after the last saved one.
LEMMA SetExpiredIInv ==
  ASSUME SafeTiming, IInv, SetExpired
  PROVE  IInv'
PROOF
  <1> USE TimeAssumption DEF SetExpired, IInv, chain, processor
  <1>1. TypeInv'
    BY DEF TypeInv, Time, ExpiredRows
  <1>2. ExpiryInv'
    <2> SUFFICES ASSUME NEW m \in failed' PROVE exp[m] + SendDelay =< lastBlock + BlockGap
      BY DEF ExpiryInv
    <2>1. CASE m \in failed
      BY <2>1 DEF ExpiryInv
    <2>2. CASE m \in ExpiredRows
      <3>1. exp[m] \in Nat /\ now \in Nat /\ etime \in Nat /\ lastBlock \in Nat
        BY <2>2 DEF ExpiredRows, TypeInv, Time
      <3>2. exp[m] < now - Lag /\ now =< etime + ExpireDelay /\ etime - lastBlock < Lag
        BY <2>2 DEF ExpiredRows, ExpiryInv
      <3> QED BY <3>1, <3>2 DEF SafeTiming
    <2> QED BY <2>1, <2>2
  <1>3. LastInv' /\ TaskInv'
    BY DEF LastInv, TaskInv
  <1>4. (ChainInv /\ SweepInv /\ RowInv /\ SendInv)'
    BY DEF ChainInv, SweepInv, SweepOf, RowInv, SendInv
  <1> QED BY <1>1, <1>2, <1>3, <1>4

LEMMA RestartIInv ==
  ASSUME IInv, Restart
  PROVE  IInv'
PROOF
  <1> USE TimeAssumption DEF Restart, Volatile, NoTasks, IInv, chain, table
  <1>1. TypeInv'
    BY DEF TypeInv, Time
  <1>2. (ChainInv /\ SweepInv /\ RowInv /\ SendInv /\ ExpiryInv /\ LastInv /\ TaskInv)'
    BY DEF ChainInv, SweepInv, SweepOf, RowInv, SendInv, ExpiryInv, LastInv, TaskInv
  <1> QED BY <1>1, <1>2

\* No sweep in the next block belongs to a withdrawal that was given up, so
\* the scanner saves the block.
LEMMA ConfirmedAreAlive ==
  ASSUME IInv, NEW b \in Time, IsNextBlock(b)
  PROVE  Confirmed(b) \subseteq rows \ failed
PROOF
  <1> USE TimeAssumption, SetAssumption DEF IInv
  <1> SUFFICES ASSUME NEW m \in Confirmed(b) PROVE m \in rows \ failed
    OBVIOUS
  <1>1. m \in Memo /\ \E lt \in 1..Len(txs) : txs[lt].at = b /\ txs[lt].memo = m
    BY DEF Confirmed, BlockTxs
  <1>2. PICK lt \in 1..Len(txs) : txs[lt].at = b /\ txs[lt].memo = m
    BY <1>1
  <1>3. m \in rows /\ b < exp[m] + SendDelay
    BY <1>1, <1>2 DEF SweepInv, SweepOf
  <1>4. lastBlock + BlockGap =< b
    BY DEF ChainInv, IsNextBlock
  <1>5. b \in Nat /\ lastBlock \in Nat /\ exp[m] \in Nat
    BY <1>1 DEF TypeInv, Time
  <1>6. m \notin failed
    BY <1>3, <1>4, <1>5 DEF ExpiryInv
  <1> QED BY <1>3, <1>6

LEMMA SaveParsedBlockDataIInv ==
  ASSUME IInv, NEW b \in Time, SaveParsedBlockData(b)
  PROVE  IInv'
PROOF
  <1> USE TimeAssumption, SetAssumption DEF IInv
  <1>0. /\ b \in blocks /\ \A c \in blocks : b =< c
        /\ incomes' = incomes \cup BlockTxs(b, NoMemo)
        /\ sending' = [m \in Memo |-> NewLt(b, m, sending[m])]
        /\ finish' = [m \in Memo |-> NewLt(b, m, finish[m])]
        /\ lastBlock' = b /\ blocks' = blocks \ {b}
        /\ UNCHANGED <<rows, from, since, exp, failed, processor, expirer, fatal>>
        /\ UNCHANGED <<now, txs, balance, head, ttl>>
    BY ConfirmedAreAlive DEF SaveParsedBlockData, IsNextBlock
  <1> USE DEF processor, expirer
  <1>1. Len(txs) \in Nat /\ b \in Nat /\ lastBlock \in Nat /\ head \in Nat /\ blocks \subseteq Nat
    BY DEF TypeInv, Time
  <1>2. \A m \in Memo : \/ finish'[m] = finish[m]
                        \/ finish'[m] \in 1..Len(txs) /\ txs[finish'[m]].memo = m
    <2> SUFFICES ASSUME NEW m \in Memo
                 PROVE  \/ NewLt(b, m, finish[m]) = finish[m]
                        \/ /\ NewLt(b, m, finish[m]) \in 1..Len(txs)
                           /\ txs[NewLt(b, m, finish[m])].memo = m
      BY <1>0
    <2>1. CASE m \notin Confirmed(b)
      BY <2>1 DEF NewLt
    <2>2. CASE m \in Confirmed(b)
      <3>1. NewLt(b, m, finish[m]) \in BlockTxs(b, m)
        BY <2>2, NewLtType
      <3> QED BY <3>1 DEF BlockTxs
    <2> QED BY <2>1, <2>2
  <1>3. \A m \in Memo : finish'[m] \in 0..Len(txs) /\ (finish'[m] = 0 => finish[m] = 0)
    <2>1. \A m \in Memo : finish[m] \in 0..Len(txs)
      BY DEF TypeInv
    <2> QED BY <1>1, <1>2, <2>1
  <1>4. TypeInv'
    <2>1. incomes' \subseteq 1..Len(txs)
      BY <1>0 DEF TypeInv, BlockTxs
    <2>2. finish' \in [Memo -> 0..Len(txs)]
      BY <1>0, <1>3
    <2> QED BY <1>0, <2>1, <2>2 DEF TypeInv
  <1>5. ChainInv'
    <2>1. head = b \/ head \in blocks \ {b}
      BY <1>0, <1>1 DEF ChainInv
    <2>2. \A c \in blocks \ {b} : b + BlockGap =< c /\ c =< head
      BY <1>0, <1>1 DEF ChainInv
    <2>3. \A lt \in 1..Len(txs) : txs[lt].at =< b \/ txs[lt].at \in blocks \ {b}
      <3>1. b >= lastBlock
        BY <1>0, <1>1 DEF ChainInv
      <3>2. \A lt \in 1..Len(txs) : txs[lt].at \in Nat
        BY TxType DEF Time
      <3> QED BY <1>1, <3>1, <3>2 DEF ChainInv
    <2> QED BY <1>0, <2>1, <2>2, <2>3 DEF ChainInv
  <1>6. SweepInv'
    BY <1>0 DEF SweepInv, SweepOf
  <1>7. RowInv'
    <2>1. \A m \in Memo : finish'[m] # 0 => txs[finish'[m]].memo = m
      BY <1>2 DEF RowInv
    <2>2. \A lt \in incomes' : txs[lt].memo = NoMemo
      BY <1>0 DEF RowInv, BlockTxs
    <2>3. sending' = finish'
      BY <1>0 DEF RowInv
    <2> QED BY <1>0, <2>1, <2>2, <2>3 DEF RowInv
  <1>8. SendInv'
    BY <1>0 DEF SendInv
  <1>9. ExpiryInv'
    <2>1. b >= lastBlock
      BY <1>0, <1>1 DEF ChainInv
    <2>2. \A m \in failed : exp[m] \in Nat
      BY DEF TypeInv
    <2>3. etime \in Nat
      BY DEF TypeInv, Time
    <2> QED BY <1>0, <1>1, <2>1, <2>2, <2>3 DEF ExpiryInv
  <1>10. LastInv'
    BY <1>0, <1>3 DEF LastInv, TypeInv
  <1>11. TaskInv'
    BY <1>0, <1>3 DEF TaskInv, TypeInv
  <1> QED BY <1>0, <1>4, <1>5, <1>6, <1>7, <1>8, <1>9, <1>10, <1>11

-----------------------------------------------------------------------------
(* Types and amounts, whatever the timing. *)

\* The sweeps with memo m in saved blocks.
SavedSweeps(m) == {lt \in 1..Len(txs) : txs[lt].memo = m /\ txs[lt].at =< lastBlock}

LEMMA AmountsAgreeDef == AmountsAgree <=> \A m \in Memo : amount[m] = SumOfAmounts(txs, SavedSweeps(m))
PROOF
  BY DEF AmountsAgree, SumOfAmounts, SavedSweeps, MapThenSumSet, MapThenFoldSet

\* What the scanner adds to a row.
LEMMA NewAmountDef ==
  ASSUME NEW b, NEW m
  PROVE  NewAmount(b, m) = amount[m] + SumOfAmounts(txs, BlockTxs(b, m))
PROOF
  BY DEF NewAmount, SumOfAmounts, MapThenSumSet, MapThenFoldSet

\* Sums of amounts of transactions are naturals.
LEMMA TotalType ==
  ASSUME TypeOK, NEW S \in SUBSET (1..Len(txs))
  PROVE  SumOfAmounts(txs, S) \in Nat /\ IsFiniteSet(S) /\ \A lt \in S : txs[lt].amount \in Nat
PROOF
  <1>1. txs \in Seq(Tx) /\ Len(txs) \in Nat
    BY DEF TypeOK
  <1>2. \A lt \in 1..Len(txs) : txs[lt] \in Tx
    BY <1>1
  <1>3. \A lt \in S : txs[lt].amount \in Nat
    BY <1>2 DEF Tx
  <1>4. IsFiniteSet(S)
    <2>1. IsFiniteSet(1..Len(txs))
      BY <1>1, FS_Interval
    <2> QED BY <2>1, FS_Subset
  <1> QED BY <1>3, <1>4, AmountsType

\* The steps keep the types.
LEMMA StepTypeOK ==
  ASSUME TypeOK, [Next]_vars
  PROVE  TypeOK'
PROOF
  <1> USE TimeAssumption, SetAssumption
  <1>0. TypeInv /\ Len(txs) \in Nat
    <2>1. TypeInv
      BY Zenon DEF TypeOK, TypeInv
    <2> QED BY <2>1 DEF TypeInv
  <1>1. CASE Tick
    BY <1>1 DEF TypeOK, Tick, Time, chain, table, processor, expirer
  <1>2. ASSUME NEW t \in Time, NewBlock(t) PROVE TypeOK'
    BY <1>2 DEF TypeOK, NewBlock, table, processor, expirer
  <1>3. ASSUME NEW x \in Tx, txs' = Append(txs, x), balance' \in [Deposit -> Nat],
               UNCHANGED <<head, blocks, ttl, now, incomes, lastBlock, table, processor, expirer, fatal>>
        PROVE  TypeOK'
    <2>1. txs' \in Seq(Tx) /\ Len(txs') = Len(txs) + 1
      BY <1>0, <1>3, AppendFacts
    <2>2. /\ incomes' \subseteq 1..Len(txs') /\ since' \in [Memo -> 0..Len(txs')]
          /\ tasks' \in [Deposit -> 0..Len(txs')]
      BY <1>0, <1>3, <2>1 DEF TypeOK, table, processor
    <2>3. sending' \in [Memo -> 0..Len(txs')] /\ finish' \in [Memo -> 0..Len(txs')]
      <3>1. 0..Len(txs) \subseteq 0..Len(txs')
        BY <1>0, <2>1
      <3>2. sending' = sending /\ finish' = finish
        BY <1>3 DEF table
      <3> QED BY <3>1, <3>2 DEF TypeOK
    <2> QED BY <1>3, <2>1, <2>2, <2>3 DEF TypeOK, table, processor, expirer
  <1>4. ASSUME NEW d \in Deposit, Pay(d) PROVE TypeOK'
    <2> DEFINE x == [dep |-> d, memo |-> NoMemo, at |-> head, amount |-> 1]
    <2>1. x \in Tx /\ txs' = Append(txs, x) /\ balance' \in [Deposit -> Nat]
      <3>1. head \in Time /\ balance \in [Deposit -> Nat]
        BY DEF TypeOK
      <3> QED BY <1>4, <3>1 DEF Tx, Pay
    <2>2. UNCHANGED <<head, blocks, ttl, now, incomes, lastBlock, table, processor, expirer, fatal>>
      BY <1>4 DEF Pay
    <2> HIDE DEF x
    <2> QED BY <1>3, <2>1, <2>2
  <1>5. ASSUME NEW m \in Memo, Execute(m) PROVE TypeOK'
    <2> DEFINE x == [dep |-> from[m], memo |-> m, at |-> head, amount |-> balance[from[m]]]
    <2>1. x \in Tx /\ txs' = Append(txs, x) /\ balance' \in [Deposit -> Nat]
      BY <1>5 DEF Tx, TypeOK, Execute
    <2>2. UNCHANGED <<head, blocks, ttl, now, incomes, lastBlock, table, processor, expirer, fatal>>
      BY <1>5 DEF Execute
    <2> HIDE DEF x
    <2> QED BY <1>3, <2>1, <2>2
  <1>6. CASE InternalWaitSync \/ TasksDone
    BY <1>6 DEF TypeOK, InternalWaitSync, TasksDone, chain, table, expirer
  <1>7. ASSUME NEW d \in Deposit, SkipTask(d) PROVE TypeOK'
    <2>1. tasks' \in [Deposit -> 0..Len(txs)]
      BY <1>0, <1>7 DEF TypeOK, SkipTask
    <2> QED BY <1>7, <2>1 DEF TypeOK, SkipTask, chain, table, expirer
  <1>8. CASE GetTonInternalWithdrawalTasks
    <2>1. \A d \in Deposit : UnsweptIncomes(d) \in SUBSET (0..Len(txs))
      <3>1. incomes \subseteq 0..Len(txs)
        BY <1>0 DEF TypeInv
      <3> QED BY <3>1 DEF UnsweptIncomes
    <2>2. \A d \in Deposit : UnsweptIncomes(d) # {} => Max(UnsweptIncomes(d)) \in 0..Len(txs)
      BY <1>0, <2>1, MaxOfBounded
    <2>3. tasks' \in [Deposit -> 0..Len(txs)]
      BY <1>0, <1>8, <2>2 DEF GetTonInternalWithdrawalTasks
    <2> QED BY <1>8, <2>3 DEF TypeOK, GetTonInternalWithdrawalTasks, chain, table, expirer
  <1>9. ASSUME NEW d \in Deposit, NEW m \in Memo, SaveInternalWithdrawalTask(d, m) PROVE TypeOK'
    <2>1. /\ since' \in [Memo -> 0..Len(txs)] /\ from' \in [Memo -> Deposit]
          /\ tasks' \in [Deposit -> 0..Len(txs)] /\ rows' \subseteq Memo /\ failed \subseteq rows'
      <3>1. /\ since \in [Memo -> 0..Len(txs)] /\ from \in [Memo -> Deposit]
            /\ tasks \in [Deposit -> 0..Len(txs)] /\ rows \subseteq Memo /\ failed \subseteq rows
        BY DEF TypeOK
      <3>2. tasks[d] \in 0..Len(txs) /\ 0 \in 0..Len(txs)
        BY <1>0, <3>1
      <3> QED BY <1>9, <3>1, <3>2 DEF SaveInternalWithdrawalTask
    <2>2. exp' \in [Memo -> Nat]
      <3>1. now + Lifetime \in Nat
        BY DEF TypeOK, Time
      <3> QED BY <1>9, <3>1 DEF TypeOK, SaveInternalWithdrawalTask
    <2> QED BY <1>9, <2>1, <2>2 DEF TypeOK, SaveInternalWithdrawalTask, chain, expirer
  <1>10. CASE WithdrawTONs
    <2>1. ttl' \in [Memo -> Nat]
      <3>1. now + Lifetime \in Nat
        BY DEF TypeOK, Time
      <3> QED BY <1>10, <3>1 DEF TypeOK, WithdrawTONs
    <2>2. ipc' \in {"sync", "tasks", "next", "send"} /\ imemo' \in Memo \cup {NoMemo} /\ itime' \in Time
      <3>1. 0 \in Time
        BY DEF Time
      <3> QED BY <1>10, <3>1 DEF WithdrawTONs
    <2>3. UNCHANGED <<tasks, now, txs, balance, head, blocks, incomes, lastBlock, table, expirer, fatal>>
      BY <1>10 DEF WithdrawTONs
    <2> QED BY ONLY TypeOK, <2>1, <2>2, <2>3 DEF TypeOK, table, expirer
  <1>11. CASE ExpirationWaitSync
    BY <1>11 DEF TypeOK, ExpirationWaitSync, chain, table, processor
  <1>12. CASE SetExpired
    BY <1>12 DEF TypeOK, SetExpired, ExpiredRows, Time, chain, processor
  <1>13. ASSUME NEW b \in Time, SaveParsedBlockData(b) PROVE TypeOK'
    <2>1. CASE Confirmed(b) \subseteq rows \ failed
      <3>1. \A m \in Memo : \A old \in 0..Len(txs) : NewLt(b, m, old) \in 0..Len(txs)
        <4>1. \A m \in Confirmed(b) : \A old : NewLt(b, m, old) \in 1..Len(txs)
          BY <1>0, NewLtType DEF BlockTxs
        <4> QED BY <1>0, <4>1 DEF NewLt
      <3>2. sending' \in [Memo -> 0..Len(txs)] /\ finish' \in [Memo -> 0..Len(txs)]
        <4>1. /\ sending' = [m \in Memo |-> NewLt(b, m, sending[m])]
              /\ finish' = [m \in Memo |-> NewLt(b, m, finish[m])]
          BY <1>13, <2>1 DEF SaveParsedBlockData
        <4>2. \A m \in Memo : sending[m] \in 0..Len(txs) /\ finish[m] \in 0..Len(txs)
          BY DEF TypeOK
        <4> QED BY <3>1, <4>1, <4>2
      <3>3. amount' \in [Memo -> Nat]
        <4>1. \A m \in Memo : SumOfAmounts(txs, BlockTxs(b, m)) \in Nat
          BY TotalType DEF BlockTxs
        <4>2. \A m \in Memo : NewAmount(b, m) \in Nat
          <5>1. \A m \in Memo : amount[m] \in Nat
            BY DEF TypeOK
          <5> QED BY <4>1, <5>1, NewAmountDef
        <4> QED BY <1>13, <2>1, <4>2 DEF SaveParsedBlockData
      <3>4. incomes' \subseteq 1..Len(txs) /\ blocks' \subseteq Time /\ lastBlock' \in Time
        BY <1>13, <2>1 DEF SaveParsedBlockData, TypeOK, BlockTxs
      <3> QED BY <1>13, <2>1, <3>2, <3>3, <3>4 DEF SaveParsedBlockData, TypeOK, processor, expirer
    <2>2. CASE ~(Confirmed(b) \subseteq rows \ failed)
      <3>1. /\ fatal' = TRUE /\ Volatile
            /\ UNCHANGED <<incomes, lastBlock, blocks, table, now, txs, balance, head, ttl>>
        BY <1>13, <2>2 DEF SaveParsedBlockData
      <3> QED BY <1>0, <3>1 DEF Volatile, NoTasks, TypeOK, Time, table
    <2> QED BY <2>1, <2>2
  <1>14. CASE Restart
    BY <1>0, <1>14 DEF Restart, Volatile, NoTasks, TypeOK, Time, chain, table
  <1>15. CASE UNCHANGED vars
    BY <1>15 DEF TypeOK, vars, chain, table, processor, expirer
  <1> QED BY <1>1, <1>2, <1>4, <1>5, <1>6, <1>7, <1>8, <1>9, <1>10, <1>11, <1>12, <1>13, <1>14, <1>15
          DEF Next

\* The steps keep the distance of blocks.
LEMMA StepChainInv ==
  ASSUME TypeOK, ChainInv, [Next]_vars
  PROVE  ChainInv'
PROOF
  <1> USE TimeAssumption
  <1>0. TypeInv /\ Len(txs) \in Nat
    <2>1. TypeInv
      BY Zenon DEF TypeOK, TypeInv
    <2> QED BY <2>1 DEF TypeInv
  <1>1. CASE UNCHANGED <<txs, head, blocks, lastBlock>>
    BY <1>1 DEF ChainInv
  <1>2. ASSUME NEW t \in Time, NewBlock(t) PROVE ChainInv'
    <2>1. /\ t >= head + BlockGap /\ head' = t /\ blocks' = blocks \cup {t}
          /\ UNCHANGED <<txs, lastBlock>>
      BY <1>2 DEF NewBlock
    <2>2. head \in Nat /\ lastBlock \in Nat /\ t \in Nat /\ blocks \subseteq Nat
      BY <1>0 DEF TypeInv, Time
    <2>3. lastBlock =< head /\ \A b \in blocks : b + BlockGap =< t
      BY <2>1, <2>2 DEF ChainInv
    <2>4. \A b \in blocks' : lastBlock + BlockGap =< b /\ b =< t
      BY <2>1, <2>2, <2>3 DEF ChainInv
    <2>5. \A b, c \in blocks' : b < c => b + BlockGap =< c
      BY <2>1, <2>2, <2>3 DEF ChainInv
    <2> QED BY <2>1, <2>4, <2>5 DEF ChainInv
  <1>3. ASSUME NEW x \in Tx, txs' = Append(txs, x), x.at \in blocks, UNCHANGED <<head, blocks, lastBlock>>
        PROVE  ChainInv'
    <2>1. /\ Len(txs') = Len(txs) + 1 /\ \A lt \in 1..Len(txs) : txs'[lt] = txs[lt]
          /\ txs'[Len(txs')] = x
      BY <1>0, <1>3, AppendFacts
    <2>2. \A lt \in 1..Len(txs') : txs'[lt].at =< lastBlock \/ txs'[lt].at \in blocks
      BY <1>0, <1>3, <2>1 DEF ChainInv
    <2> QED BY <1>3, <2>2 DEF ChainInv
  <1>4. ASSUME NEW d \in Deposit, Pay(d) PROVE ChainInv'
    <2> DEFINE x == [dep |-> d, memo |-> NoMemo, at |-> head, amount |-> 1]
    <2>1. head \in Time
      BY DEF TypeOK
    <2>2. x \in Tx /\ txs' = Append(txs, x) /\ x.at \in blocks /\ UNCHANGED <<head, blocks, lastBlock>>
      BY <1>4, <2>1 DEF Tx, Pay
    <2> HIDE DEF x
    <2> QED BY <1>3, <2>2
  <1>5. ASSUME NEW m \in Memo, Execute(m) PROVE ChainInv'
    <2> DEFINE x == [dep |-> from[m], memo |-> m, at |-> head, amount |-> balance[from[m]]]
    <2>1. head \in Time /\ from[m] \in Deposit /\ balance[from[m]] \in Nat
      BY DEF TypeOK
    <2>2. x \in Tx /\ txs' = Append(txs, x) /\ x.at \in blocks /\ UNCHANGED <<head, blocks, lastBlock>>
      BY <1>5, <2>1 DEF Tx, Execute
    <2> HIDE DEF x
    <2> QED BY <1>3, <2>2
  <1>6. ASSUME NEW b \in Time, SaveParsedBlockData(b) PROVE ChainInv'
    <2>1. CASE Confirmed(b) \subseteq rows \ failed
      <3>0. /\ b \in blocks /\ \A c \in blocks : b =< c
            /\ lastBlock' = b /\ blocks' = blocks \ {b} /\ txs' = txs /\ head' = head
        BY <1>6, <2>1 DEF SaveParsedBlockData, IsNextBlock
      <3>1. b \in Nat /\ lastBlock \in Nat /\ head \in Nat /\ blocks \subseteq Nat
        BY DEF TypeOK, Time
      <3>2. head = b \/ head \in blocks \ {b}
        BY <3>0, <3>1 DEF ChainInv
      <3>3. \A c \in blocks \ {b} : b + BlockGap =< c /\ c =< head
        BY <3>0, <3>1 DEF ChainInv
      <3>4. \A lt \in 1..Len(txs) : txs[lt].at =< b \/ txs[lt].at \in blocks \ {b}
        <4>1. b >= lastBlock
          BY <3>0, <3>1 DEF ChainInv
        <4>2. \A lt \in 1..Len(txs) : txs[lt].at \in Nat
          BY <1>0, TxType DEF Time
        <4> QED BY <3>1, <4>1, <4>2 DEF ChainInv
      <3> QED BY <3>0, <3>2, <3>3, <3>4 DEF ChainInv
    <2>2. CASE ~(Confirmed(b) \subseteq rows \ failed)
      BY <1>1, <1>6, <2>2 DEF SaveParsedBlockData
    <2> QED BY <2>1, <2>2
  <1>7. CASE InternalWaitSync \/ TasksDone \/ GetTonInternalWithdrawalTasks \/ WithdrawTONs
    BY <1>1, <1>7 DEF InternalWaitSync, TasksDone, GetTonInternalWithdrawalTasks, WithdrawTONs, chain
  <1>8. CASE \E d \in Deposit : SkipTask(d) \/ \E m \in Memo : SaveInternalWithdrawalTask(d, m)
    BY <1>1, <1>8 DEF SkipTask, SaveInternalWithdrawalTask, chain
  <1>9. CASE Tick \/ ExpirationWaitSync \/ SetExpired \/ Restart \/ UNCHANGED vars
    BY <1>1, <1>9 DEF Tick, ExpirationWaitSync, SetExpired, Restart, vars, chain
  <1> QED BY <1>2, <1>4, <1>5, <1>6, <1>7, <1>8, <1>9 DEF Next

\* The amounts change only with the block that is saved, by what it holds.
LEMMA StepAmountsAgree ==
  ASSUME TypeOK, ChainInv, AmountsAgree, [Next]_vars
  PROVE  AmountsAgree'
PROOF
  <1> USE TimeAssumption
  <1>0. TypeInv /\ Len(txs) \in Nat /\ lastBlock \in Nat
    <2>1. TypeInv
      BY Zenon DEF TypeOK, TypeInv
    <2> QED BY <2>1 DEF TypeInv, Time
  <1>1. \A m \in Memo : amount[m] = SumOfAmounts(txs, SavedSweeps(m))
    BY AmountsAgreeDef
  <1>2. AmountsAgree' <=> \A m \in Memo : amount'[m] = SumOfAmounts(txs', SavedSweeps(m)')
    BY DEF AmountsAgree, SumOfAmounts, SavedSweeps, MapThenSumSet, MapThenFoldSet
  <1>3. CASE UNCHANGED <<txs, lastBlock, amount>>
    BY <1>1, <1>2, <1>3 DEF SavedSweeps
  <1>4. ASSUME NEW x \in Tx, txs' = Append(txs, x), x.at = head, head \in blocks,
               UNCHANGED <<lastBlock, amount>>
        PROVE  AmountsAgree'
    <2>1. /\ Len(txs') = Len(txs) + 1 /\ \A lt \in 1..Len(txs) : txs'[lt] = txs[lt]
          /\ txs'[Len(txs')] = x
      BY <1>0, <1>4, AppendFacts
    <2>2. head > lastBlock
      BY <1>0, <1>4 DEF ChainInv, TypeInv, Time
    <2>3. \A m \in Memo : SavedSweeps(m)' = SavedSweeps(m)
      <3> SUFFICES ASSUME NEW m \in Memo PROVE SavedSweeps(m)' = SavedSweeps(m)
        OBVIOUS
      <3>1. \A lt \in SavedSweeps(m)' : lt # Len(txs) + 1
        BY <1>0, <1>4, <2>1, <2>2 DEF SavedSweeps, TypeInv, Time
      <3>2. SavedSweeps(m)' \subseteq SavedSweeps(m)
        BY <1>0, <1>4, <2>1, <3>1 DEF SavedSweeps
      <3>3. SavedSweeps(m) \subseteq SavedSweeps(m)'
        BY <1>0, <1>4, <2>1 DEF SavedSweeps
      <3> QED BY <3>2, <3>3
    <2>4. \A m \in Memo : SumOfAmounts(txs', SavedSweeps(m)) = SumOfAmounts(txs, SavedSweeps(m))
      <3> TAKE m \in Memo
      <3>1. SavedSweeps(m) \in SUBSET (1..Len(txs))
        BY DEF SavedSweeps
      <3>2. IsFiniteSet(SavedSweeps(m)) /\ \A lt \in SavedSweeps(m) : txs[lt].amount \in Nat
        BY <3>1, TotalType
      <3>3. \A lt \in SavedSweeps(m) : txs'[lt].amount = txs[lt].amount /\ txs'[lt].amount \in Int
        BY <2>1, <3>1, <3>2
      <3> QED BY ONLY <3>2, <3>3, AmountsKept
    <2> QED BY <1>1, <1>2, <1>4, <2>3, <2>4
  <1>5. ASSUME NEW d \in Deposit, Pay(d) PROVE AmountsAgree'
    <2> DEFINE x == [dep |-> d, memo |-> NoMemo, at |-> head, amount |-> 1]
    <2>1. head \in Time
      BY DEF TypeOK
    <2>2. /\ x \in Tx /\ txs' = Append(txs, x) /\ x.at = head /\ head \in blocks
          /\ UNCHANGED <<lastBlock, amount>>
      BY <1>5, <2>1 DEF Tx, Pay, table
    <2> HIDE DEF x
    <2> QED BY <1>4, <2>2
  <1>6. ASSUME NEW m \in Memo, Execute(m) PROVE AmountsAgree'
    <2> DEFINE x == [dep |-> from[m], memo |-> m, at |-> head, amount |-> balance[from[m]]]
    <2>1. head \in Time /\ from[m] \in Deposit /\ balance[from[m]] \in Nat
      BY DEF TypeOK
    <2>2. /\ x \in Tx /\ txs' = Append(txs, x) /\ x.at = head /\ head \in blocks
          /\ UNCHANGED <<lastBlock, amount>>
      BY <1>6, <2>1 DEF Tx, Execute, table
    <2> HIDE DEF x
    <2> QED BY <1>4, <2>2
  <1>7. ASSUME NEW b \in Time, SaveParsedBlockData(b), Confirmed(b) \subseteq rows \ failed
        PROVE  AmountsAgree'
    <2>0. /\ b \in blocks /\ \A c \in blocks : b =< c
          /\ amount' = [m \in Memo |-> NewAmount(b, m)] /\ lastBlock' = b /\ txs' = txs
      BY <1>7 DEF SaveParsedBlockData, IsNextBlock
    <2>1. b \in Nat /\ blocks \subseteq Nat /\ lastBlock < b
      BY <1>0, <2>0 DEF ChainInv, TypeInv, Time
    <2> SUFFICES ASSUME NEW m \in Memo
                 PROVE  amount'[m] = SumOfAmounts(txs', SavedSweeps(m)')
      BY <1>2
    <2>2. \A lt \in 1..Len(txs) : /\ txs[lt].at \in Nat
                                  /\ txs[lt].at =< b <=> txs[lt].at =< lastBlock \/ txs[lt].at = b
      <3>1. \A lt \in 1..Len(txs) : txs[lt].at \in Nat
        BY <1>0, TxType DEF Time
      <3>2. \A lt \in 1..Len(txs) : txs[lt].at =< lastBlock \/ txs[lt].at \in blocks
        BY DEF ChainInv
      <3> QED BY <1>0, <2>0, <2>1, <3>1, <3>2
    <2>3. SavedSweeps(m)' = SavedSweeps(m) \cup BlockTxs(b, m)
      <3>1. SavedSweeps(m)' = {lt \in 1..Len(txs) : txs[lt].memo = m /\ txs[lt].at =< b}
        BY <2>0 DEF SavedSweeps
      <3>2. \A lt \in 1..Len(txs) : txs[lt].at =< b <=> txs[lt].at =< lastBlock \/ txs[lt].at = b
        BY <2>2
      <3>3. SavedSweeps(m)' \subseteq SavedSweeps(m) \cup BlockTxs(b, m)
        BY <3>1, <3>2 DEF SavedSweeps, BlockTxs
      <3>4. SavedSweeps(m) \cup BlockTxs(b, m) \subseteq SavedSweeps(m)'
        BY <3>1, <3>2 DEF SavedSweeps, BlockTxs
      <3> QED BY <3>3, <3>4
    <2>4. SavedSweeps(m) \cap BlockTxs(b, m) = {}
      BY <1>0, <2>1 DEF SavedSweeps, BlockTxs
    <2>5. SavedSweeps(m) \in SUBSET (1..Len(txs)) /\ BlockTxs(b, m) \in SUBSET (1..Len(txs))
      BY DEF SavedSweeps, BlockTxs
    <2>6. SumOfAmounts(txs, SavedSweeps(m) \cup BlockTxs(b, m))
            = SumOfAmounts(txs, SavedSweeps(m)) + SumOfAmounts(txs, BlockTxs(b, m))
      <3>1. IsFiniteSet(SavedSweeps(m)) /\ \A lt \in SavedSweeps(m) : txs[lt].amount \in Nat
        BY <2>5, TotalType
      <3>2. IsFiniteSet(BlockTxs(b, m)) /\ \A lt \in BlockTxs(b, m) : txs[lt].amount \in Nat
        BY <2>5, TotalType
      <3>3. \A lt \in SavedSweeps(m) \cup BlockTxs(b, m) : txs[lt].amount \in Int
        BY <3>1, <3>2
      <3> QED BY ONLY <2>4, <3>1, <3>2, <3>3, AmountsUnion
    <2>7. amount'[m] = amount[m] + SumOfAmounts(txs, BlockTxs(b, m))
      BY <2>0, NewAmountDef
    <2> QED BY <1>1, <2>0, <2>3, <2>6, <2>7
  <1>8. ASSUME NEW b \in Time, SaveParsedBlockData(b), ~(Confirmed(b) \subseteq rows \ failed)
        PROVE  AmountsAgree'
    BY <1>3, <1>8 DEF SaveParsedBlockData, table
  <1>9. CASE InternalWaitSync \/ TasksDone \/ GetTonInternalWithdrawalTasks \/ WithdrawTONs
    BY <1>3, <1>9 DEF InternalWaitSync, TasksDone, GetTonInternalWithdrawalTasks, WithdrawTONs, chain, table
  <1>10. CASE \E d \in Deposit : SkipTask(d) \/ \E m \in Memo : SaveInternalWithdrawalTask(d, m)
    BY <1>3, <1>10 DEF SkipTask, SaveInternalWithdrawalTask, chain, table
  <1>11. CASE Tick \/ ExpirationWaitSync \/ SetExpired \/ Restart \/ UNCHANGED vars
    BY <1>3, <1>11 DEF Tick, ExpirationWaitSync, SetExpired, Restart, vars, chain, table
  <1>12. ASSUME NEW t \in Time, NewBlock(t) PROVE AmountsAgree'
    BY <1>3, <1>12 DEF NewBlock, table
  <1> QED BY <1>5, <1>6, <1>7, <1>8, <1>9, <1>10, <1>11, <1>12 DEF Next

-----------------------------------------------------------------------------
(* The theorems. *)

\* Every step of the processors, the scanner and the chain keeps IInv, as long
\* as the delays fit the distance of blocks.
THEOREM Invariance == SafeTiming /\ Spec => []IInv
PROOF
  <1> SUFFICES ASSUME SafeTiming PROVE Spec => []IInv
    BY DEF SafeTiming
  <1>1. Init => IInv
    BY InitIInv
  <1>2. IInv /\ [Next]_vars => IInv'
    <2> SUFFICES ASSUME IInv, [Next]_vars PROVE IInv'
      OBVIOUS
    <2>1. CASE Tick
      BY <2>1, TickIInv
    <2>2. ASSUME NEW t \in Time, NewBlock(t) PROVE IInv'
      BY <2>2, NewBlockIInv
    <2>3. ASSUME NEW d \in Deposit, Pay(d) PROVE IInv'
      BY <2>3, PayIInv
    <2>4. ASSUME NEW m \in Memo, Execute(m) PROVE IInv'
      BY <2>4, ExecuteIInv
    <2>5. CASE InternalWaitSync \/ TasksDone \/ \E d \in Deposit : SkipTask(d)
      BY <2>5, InternalWaitSyncIInv
    <2>6. CASE GetTonInternalWithdrawalTasks
      BY <2>6, GetTasksIInv
    <2>7. ASSUME NEW d \in Deposit, NEW m \in Memo, SaveInternalWithdrawalTask(d, m) PROVE IInv'
      BY <2>7, SaveTaskIInv
    <2>8. CASE WithdrawTONs
      BY <2>8, WithdrawTONsIInv
    <2>9. CASE ExpirationWaitSync
      BY <2>9, ExpirationWaitSyncIInv
    <2>10. CASE SetExpired
      BY <2>10, SetExpiredIInv
    <2>11. ASSUME NEW b \in Time, SaveParsedBlockData(b) PROVE IInv'
      BY <2>11, SaveParsedBlockDataIInv
    <2>12. CASE Restart
      BY <2>12, RestartIInv
    <2>13. CASE UNCHANGED vars
      BY <2>13, StutterIInv
    <2> QED BY <2>1, <2>2, <2>3, <2>4, <2>5, <2>6, <2>7, <2>8, <2>9, <2>10, <2>11, <2>12, <2>13
            DEF Next
  <1> QED BY <1>1, <1>2, PTL DEF Spec

\* The scanner never meets a sweep of a withdrawal that updateInternalWithdrawal
\* or applySendingConfirmations would refuse.
THEOREM ScannerGoesOn == SafeTiming /\ Spec => []NoFatal
PROOF
  <1>1. IInv => NoFatal
    BY DEF IInv, NoFatal
  <1> QED BY <1>1, Invariance, PTL

\* However long a list of tasks takes, a deposit never gets a second withdrawal
\* while one is under way.
THEOREM OneWithdrawalUnderWay == SafeTiming /\ Spec => []OnePending
PROOF
  <1>1. IInv => OnePending
    <2> SUFFICES ASSUME IInv, NEW m \in rows \ failed, NEW n \in rows \ failed,
                        finish[m] = 0, finish[n] = 0, from[m] = from[n], m # n
                 PROVE  FALSE
      BY DEF OnePending
    <2>1. since[n] < since[m] /\ since[m] < since[n]
      BY DEF IInv, LastInv
    <2>2. since[m] \in Nat /\ since[n] \in Nat
      BY DEF IInv, TypeInv
    <2> QED BY <2>1, <2>2
  <1> QED BY <1>1, Invariance, PTL

\* A recorded payment is swept, under way, or one of the incomes from which
\* GetTonInternalWithdrawalTasks makes a task.
THEOREM NoPaymentForgotten == SafeTiming /\ Spec => []NothingStranded
PROOF
  <1>1. IInv => NothingStranded
    <2> SUFFICES ASSUME IInv, NEW lt \in incomes, ~Swept(lt),
                        \A m \in rows \ failed : from[m] = txs[lt].dep => finish[m] # 0
                 PROVE  lt \in UnsweptIncomes(txs[lt].dep)
      BY DEF NothingStranded
    <2> DEFINE d == txs[lt].dep
    <2>1. lt \in 1..Len(txs) /\ Len(txs) \in Nat /\ d \in Deposit
      BY TxType DEF IInv, TypeInv
    <2>2. CASE LastWithdrawals(d) = {}
      BY <2>2 DEF UnsweptIncomes
    <2>3. CASE LastWithdrawals(d) # {}
      <3>1. PICK m \in LastWithdrawals(d) : TRUE
        BY <2>3
      <3>2. m \in rows \ failed /\ from[m] = d
        BY <3>1 DEF LastWithdrawals
      <3>3. m \in Memo /\ finish[m] \in 1..Len(txs) /\ finish[m] # 0
        BY <2>1, <3>2 DEF IInv, TypeInv
      <3>4. txs[finish[m]].memo = m /\ m # NoMemo
        BY <3>3, SetAssumption DEF IInv, RowInv
      <3>5. txs[finish[m]].dep = d
        BY <3>2, <3>3, <3>4 DEF IInv, SweepInv, SweepOf
      <3>6. ~(finish[m] > lt)
        BY <3>3, <3>4, <3>5 DEF Swept
      <3>7. finish[m] # lt
        BY <3>4 DEF IInv, RowInv
      <3>8. lt > finish[m]
        BY <2>1, <3>3, <3>6, <3>7
      <3> QED BY <3>1, <3>3, <3>8 DEF UnsweptIncomes
    <2> QED BY <2>2, <2>3
  <1> QED BY <1>1, Invariance, PTL

\* Types, the distance of blocks and the amounts need no assumption about the
\* timing.
LEMMA TimelessInvariance == Spec => [](TypeOK /\ ChainInv /\ AmountsAgree)
PROOF
  <1>1. Init => TypeOK /\ ChainInv /\ AmountsAgree
    <2> SUFFICES ASSUME Init PROVE TypeOK /\ ChainInv /\ AmountsAgree
      OBVIOUS
    <2> USE TimeAssumption, SetAssumption DEF Init
    <2>1. TypeOK
      <3>1. txs \in Seq(Tx) /\ Len(txs) = 0 /\ 0 \in Time
        BY DEF Time
      <3>2. since \in [Memo -> 0..Len(txs)] /\ tasks \in [Deposit -> 0..Len(txs)]
        BY <3>1 DEF NoTasks
      <3>3. sending \in [Memo -> 0..Len(txs)] /\ finish \in [Memo -> 0..Len(txs)]
        BY <3>1
      <3>4. from \in [Memo -> Deposit]
        OBVIOUS
      <3> QED BY <3>1, <3>2, <3>3, <3>4 DEF TypeOK
    <2>2. ChainInv
      BY DEF ChainInv
    <2>3. AmountsAgree
      <3>1. \A m \in Memo : SavedSweeps(m) = {}
        BY DEF SavedSweeps
      <3> QED BY <3>1, AmountsEmpty, AmountsAgreeDef
    <2> QED BY <2>1, <2>2, <2>3
  <1>2. TypeOK /\ ChainInv /\ AmountsAgree /\ [Next]_vars => (TypeOK /\ ChainInv /\ AmountsAgree)'
    BY StepTypeOK, StepChainInv, StepAmountsAgree
  <1> QED BY <1>1, <1>2, PTL DEF Spec

\* Every variable keeps its type, whatever the timing.
THEOREM TypeCorrect == Spec => []TypeOK
PROOF
  BY TimelessInvariance, PTL

\* A row's amount is the sum of all executions of its message in the blocks
\* that updateInternalWithdrawal has seen, however often a wallet that is
\* created again executes it.
THEOREM AmountsAreSwept == Spec => []AmountsAgree
PROOF
  BY TimelessInvariance, PTL
=============================================================================

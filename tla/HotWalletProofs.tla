-------------------------- MODULE HotWalletProofs --------------------------
(***************************************************************************)
(* A message that the hot wallet can execute is covered by its balances,   *)
(* recipients of a batch differ, the cold wallet's withdrawals leave the   *)
(* residual and no request is passed over without a reason: for every set  *)
(* of currencies, addresses and amounts, and all times that satisfy        *)
(* TimeAssumption.                                                         *)
(***************************************************************************)
EXTENDS HotWallet, TLAPS, FiniteSetTheorems

-----------------------------------------------------------------------------
(* The inductive invariant. *)

Sleeping == wpc \in {"sync", "sleep"}
Building == wpc \in {"service", "internal", "external", "send"}

\* What was never saved has its initial values.
RowInv == \A q \in Query \ saved : taken[q] = 0

\* A message was handed over at most Lifetime before its expiration time.  The
\* processor sleeps so long that none can be executed, and none that was is
\* missing in a node's answer, when it wakes.
MessageInv ==
  /\ \A m \in inflight : m.exp =< now + Lifetime
  /\ wpc = "send" => exp =< now + Lifetime
  /\ wpc = "sleep" => \A m \in inflight : m.exp + ViewLag < wake
  /\ ~Sleeping => \A m \in inflight : m.exp < now

\* A message that can be executed is the only one, its requests are processing
\* and their rows have its expiration time, so none expires before it.
LiveInv ==
  /\ \A m, n \in inflight : now =< m.exp /\ now =< n.exp => m = n
  /\ \A m \in inflight : now =< m.exp =>
       \A q \in m.body : q \in processing /\ until[q] = m.exp
  /\ wpc = "send" /\ now =< exp => \A q \in Body : q \in processing /\ until[q] = exp

\* A node shows a balance that is too high only while the processor does not
\* look at it: then a message was executed less than ViewLag ago.
NodeInv ==
  /\ staleSince =< now
  /\ shown # balance => now =< staleSince + ViewLag
  /\ ~Covers(balance, shown) =>
       Sleeping /\ (wpc = "sleep" => staleSince + ViewLag < wake)
  /\ wpc = "cold" => tonBalance =< balance[TonSymbol]

\* What the batch costs and what it leaves are covered by the balances.
CostInv ==
  /\ Building => Covers(balance, Plus(left, total))
  /\ ~Building => batch = {} /\ total = Nothing

\* Messages to owners of deposits have different recipients, and so have the
\* requests in the batch and those that may still get into it.
RecipientInv ==
  /\ IsFiniteSet(batch)
  /\ \A m \in batch :
       \/ m \in {"service", "internal"} \X Owner
       \/ m \in {"external"} \X saved /\ dest[m[2]] \notin Owner
  /\ wpc = "service" => \A m \in batch : m[1] = "service"
  /\ wpc \in {"service", "internal"} => Body = {}
  /\ wpc = "internal" =>
       \A o \in tasks : <<"service", o>> \notin batch
  /\ \A o \in Owner : <<"service", o>> \in batch => <<"internal", o>> \notin batch
  /\ wpc = "external" =>
       \A p, q \in Body \cup tasks : dest[p] = dest[q] => p = q
  /\ wpc = "send" => \A p, q \in Body : dest[p] = dest[q] => p = q

\* Why a request that waited is not in the batch.
LeftOut(q) ==
  \/ q \notin FirstOfDest(open)
  \/ dest[q] \in Owner
  \/ ~Covers(left, Cost(cur[q], amount[q]))
  \/ BatchFull
  \/ Cardinality(LowerDests(open, q)) >= Limit

QueueInv == wpc = "external" => \A q \in open \ (Body \cup tasks) : LeftOut(q)

IInv ==
  /\ TypeOK /\ RowInv /\ MessageInv /\ LiveInv /\ NodeInv /\ CostInv
  /\ RecipientInv /\ QueueInv /\ BatchCovered /\ ResidualLeft

-----------------------------------------------------------------------------
(* Lemmas about the operators. *)

\* Sums and differences of amounts are amounts, as far as they are covered.
LEMMA AmountType ==
  ASSUME NEW f \in [Currency -> Nat], NEW g \in [Currency -> Nat]
  PROVE  /\ Plus(f, g) \in [Currency -> Nat]
         /\ Covers(f, g) => Minus(f, g) \in [Currency -> Nat]
PROOF BY DEF Plus, Minus, Covers

LEMMA CostType ==
  ASSUME NEW c \in Currency, NEW n \in Nat
  PROVE  Cost(c, n) \in [Currency -> Nat]
PROOF BY AmountAssumption DEF Cost

\* What is taken from the balances left is added to what the batch costs.
LEMMA CostMoves ==
  ASSUME NEW b \in [Currency -> Nat], NEW l \in [Currency -> Nat], NEW t \in [Currency -> Nat],
         NEW k \in [Currency -> Nat], Covers(l, k), Covers(b, Plus(l, t))
  PROVE  Covers(b, Plus(Minus(l, k), Plus(t, k))) /\ Covers(b, Plus(Minus(l, k), t))
PROOF BY DEF Covers, Plus, Minus

\* Less is left, so what was not covered is not covered now.
LEMMA NotCoveredStays ==
  ASSUME NEW l \in [Currency -> Nat], NEW k \in [Currency -> Nat],
         NEW x \in [Currency -> Nat], ~Covers(l, x)
  PROVE  ~Covers(Minus(l, k), x)
PROOF BY DEF Covers, Minus

LEMMA CoversTransitive ==
  ASSUME NEW f \in [Currency -> Nat], NEW g \in [Currency -> Nat], NEW h \in [Currency -> Nat],
         Covers(f, g), Covers(g, h)
  PROVE  Covers(f, h)
PROOF BY DEF Covers

\* A set that is full stays full when a message is added.
LEMMA FullStays ==
  ASSUME NEW S, NEW x, IsFiniteSet(S), Cardinality(S) > Limit
  PROVE  Cardinality(S \cup {x}) > Limit
PROOF
  <1>1. IsFiniteSet(S \cup {x}) /\ Cardinality(S) \in Nat /\ Cardinality(S \cup {x}) \in Nat
    BY FS_AddElement, FS_CardinalityType
  <1>2. Cardinality(S) =< Cardinality(S \cup {x})
    BY <1>1, FS_Subset
  <1> QED BY <1>1, <1>2, AmountAssumption

LEMMA LowerDestsFinite ==
  ASSUME TypeOK, NEW S \in SUBSET Query, NEW q \in Query
  PROVE  Cardinality(LowerDests(S, q)) \in Nat
PROOF
  <1>1. LowerDests(S, q) \in SUBSET Nat /\ dest[q] \in Nat
    BY SetAssumption DEF LowerDests, TypeOK
  <1>2. \A a \in LowerDests(S, q) : a =< dest[q]
    BY <1>1 DEF LowerDests
  <1>3. IsFiniteSet(LowerDests(S, q))
    BY <1>1, <1>2, FS_BoundedSetOfNaturals
  <1> QED BY <1>3, FS_CardinalityType

-----------------------------------------------------------------------------
(* The initial state and the steps. *)

LEMMA InitIInv ==
  ASSUME Init
  PROVE  IInv
PROOF
  <1> USE SetAssumption, AmountAssumption, TimeAssumption DEF Init
  <1>1. TypeOK
    <2>1. TonSymbol \in Currency /\ Nothing \in [Currency -> Nat] /\ 0 \in Time
      BY DEF Currency, Nothing, Time
    <2> QED BY <2>1 DEF TypeOK
  <1>2. RowInv /\ MessageInv /\ LiveInv
    BY DEF RowInv, MessageInv, LiveInv, Sleeping
  <1>3. NodeInv /\ CostInv
    BY DEF NodeInv, CostInv, Sleeping, Building, Covers, Nothing
  <1>4. RecipientInv
    BY FS_EmptySet DEF RecipientInv, Body
  <1>5. QueueInv /\ BatchCovered /\ ResidualLeft
    BY DEF QueueInv, BatchCovered, ResidualLeft
  <1> QED BY <1>1, <1>2, <1>3, <1>4, <1>5 DEF IInv

LEMMA StutterIInv ==
  ASSUME IInv, UNCHANGED vars
  PROVE  IInv'
PROOF
  <1> USE DEF IInv, vars, requests, chain, coldLocal, building
  <1>1. TypeOK' /\ RowInv' /\ ResidualLeft'
    BY DEF TypeOK, RowInv, ResidualLeft
  <1>2. MessageInv' /\ LiveInv' /\ NodeInv' /\ CostInv' /\ BatchCovered'
    BY DEF MessageInv, LiveInv, NodeInv, CostInv, BatchCovered, Sleeping, Building, Body
  <1>3. Body' = Body /\ RecipientInv'
    BY DEF RecipientInv, Body
  <1>4. QueueInv'
    BY <1>3 DEF QueueInv, LeftOut, FirstOfDest, LowerDests, BatchFull
  <1> QED BY <1>1, <1>2, <1>3, <1>4

\* A request is saved: the rows of the others stay.
LEMMA SaveRows ==
  ASSUME TypeOK, NEW c \in Currency, NEW a \in Dest \cup {Cold}, NEW n \in Nat,
         NEW q \in Query \ saved,
         cur' = [cur EXCEPT ![q] = c], dest' = [dest EXCEPT ![q] = a],
         amount' = [amount EXCEPT ![q] = n]
  PROVE  /\ cur'[q] = c /\ dest'[q] = a /\ amount'[q] = n
         /\ \A p \in saved : cur'[p] = cur[p] /\ dest'[p] = dest[p] /\ amount'[p] = amount[p]
         /\ cur' \in [Query -> Currency] /\ dest' \in [Query -> Dest \cup {Cold}]
         /\ amount' \in [Query -> Nat]
PROOF BY DEF TypeOK

\* The batch and the queue only look at rows that were saved before.
LEMMA SaveKeepsBatch ==
  ASSUME IInv, NEW q \in Query \ saved, saved' = saved \cup {q},
         \A p \in saved : cur'[p] = cur[p] /\ dest'[p] = dest[p] /\ amount'[p] = amount[p],
         UNCHANGED <<wpc, batch, open, tasks, left>>
  PROVE  RecipientInv' /\ QueueInv'
PROOF
  <1> USE DEF IInv
  <1>1. Body' = Body /\ Body \subseteq saved
    BY DEF Body, RecipientInv
  <1>2. RecipientInv'
    BY <1>1 DEF RecipientInv, TypeOK
  <1>3. QueueInv'
    <2> SUFFICES ASSUME wpc = "external", NEW p \in open \ (Body \cup tasks)
                 PROVE  LeftOut(p)'
      BY <1>1 DEF QueueInv
    <2>1. LeftOut(p) /\ open \subseteq saved
      BY DEF QueueInv, TypeOK
    <2>2. FirstOfDest(open)' = FirstOfDest(open)
      BY <2>1 DEF FirstOfDest
    <2>3. LowerDests(open, p)' = LowerDests(open, p)
      BY <2>1 DEF LowerDests
    <2> QED BY <2>1, <2>2, <2>3 DEF LeftOut, BatchFull
  <1> QED BY <1>2, <1>3

LEMMA SendWithdrawalIInv ==
  ASSUME IInv, NEW c \in Currency, NEW a \in Dest, NEW n \in 1..MaxAmount, SendWithdrawal(c, a, n)
  PROVE  IInv'
PROOF
  <1> USE AmountAssumption DEF IInv, SendWithdrawal, chain, coldLocal, building
  <1>1. PICK q \in Query \ saved :
          /\ saved' = saved \cup {q} /\ cold' = cold
          /\ cur' = [cur EXCEPT ![q] = c] /\ dest' = [dest EXCEPT ![q] = a]
          /\ amount' = [amount EXCEPT ![q] = n]
          /\ UNCHANGED <<processing, processed, until>>
    BY DEF SaveWithdrawalRequest
  <1>2. /\ \A p \in saved : cur'[p] = cur[p] /\ dest'[p] = dest[p] /\ amount'[p] = amount[p]
        /\ cur' \in [Query -> Currency] /\ dest' \in [Query -> Dest \cup {Cold}]
        /\ amount' \in [Query -> Nat]
    <2>1. a \in Dest \cup {Cold} /\ n \in Nat
      OBVIOUS
    <2> QED BY <1>1, <2>1, SaveRows
  <1>3. TypeOK'
    BY <1>1, <1>2 DEF TypeOK
  <1>4. RowInv'
    BY <1>1 DEF RowInv
  <1>5. Body' = Body
    BY DEF Body
  <1>6. MessageInv' /\ LiveInv' /\ NodeInv' /\ CostInv' /\ BatchCovered'
    BY <1>1, <1>5 DEF MessageInv, LiveInv, NodeInv, CostInv, BatchCovered, Sleeping, Building
  <1>7. RecipientInv' /\ QueueInv'
    BY <1>1, <1>2, SaveKeepsBatch
  <1>8. ResidualLeft'
    BY <1>1, <1>2 DEF ResidualLeft, TypeOK
  <1> QED BY <1>3, <1>4, <1>6, <1>7, <1>8

LEMMA WaitSyncIInv ==
  ASSUME IInv, WaitSync
  PROVE  IInv'
PROOF
  <1> USE TimeAssumption, SetAssumption DEF IInv, WaitSync, requests, chain, coldLocal, building
  <1>1. TypeOK' /\ RowInv' /\ ResidualLeft' /\ BatchCovered'
    BY DEF TypeOK, RowInv, ResidualLeft, BatchCovered, Time
  <1>2. MessageInv'
    BY DEF MessageInv, TypeOK, Sleeping, Time
  <1>3. LiveInv' /\ CostInv'
    BY DEF LiveInv, CostInv, Building
  <1>4. NodeInv'
    BY DEF NodeInv, TypeOK, Sleeping, Time
  <1>5. Body' = Body /\ RecipientInv' /\ QueueInv'
    BY DEF RecipientInv, QueueInv, Body
  <1> QED BY <1>1, <1>2, <1>3, <1>4, <1>5

\* The processor wakes after every message has expired, and a node no longer
\* shows what the last one has taken.
LEMMA ReadTonBalanceIInv ==
  ASSUME IInv, ReadTonBalance
  PROVE  IInv'
PROOF
  <1> USE TimeAssumption, SetAssumption DEF IInv, ReadTonBalance, requests, chain, building
  <1>1. TonSymbol \in Currency
    BY DEF Currency
  <1>2. Covers(balance, shown)
    BY DEF NodeInv, TypeOK, Time, Covers
  <1>3. TypeOK' /\ RowInv' /\ ResidualLeft' /\ BatchCovered'
    BY <1>1 DEF TypeOK, RowInv, ResidualLeft, BatchCovered
  <1>4. MessageInv'
    BY DEF MessageInv, TypeOK, Sleeping, Time
  <1>5. LiveInv' /\ CostInv'
    BY DEF LiveInv, CostInv, Building
  <1>6. NodeInv'
    BY <1>1, <1>2 DEF NodeInv, TypeOK, Sleeping, Covers
  <1>7. Body' = Body /\ RecipientInv' /\ QueueInv'
    BY DEF RecipientInv, QueueInv, Body
  <1> QED BY <1>3, <1>4, <1>5, <1>6, <1>7

\* A cold wallet request over what the processor has read, which is there.
LEMMA ColdRequest ==
  ASSUME IInv, wpc = "cold", NEW c \in Currency, NEW b \in Int,
         HotWalletMax[c] < b, b =< balance[c],
         SaveWithdrawalRequest(c, Cold, ColdAmount(c, b), TRUE),
         UNCHANGED <<now, chain, batch, open, tasks, left>>,
         wpc' \in {"cold", "balances"}
  PROVE  /\ RowInv' /\ BatchCovered' /\ ResidualLeft' /\ RecipientInv' /\ QueueInv'
         /\ saved' \subseteq Query /\ saved \subseteq saved' /\ cold' \subseteq saved'
         /\ cur' \in [Query -> Currency] /\ dest' \in [Query -> Dest \cup {Cold}]
         /\ amount' \in [Query -> Nat]
         /\ UNCHANGED <<processing, processed, until>>
PROOF
  <1> USE AmountAssumption DEF IInv, chain
  <1>1. b - Residual[c] \in Nat /\ ColdAmount(c, b) = b - Residual[c]
    BY DEF ColdAmount
  <1>2. PICK q \in Query \ saved :
          /\ saved' = saved \cup {q} /\ cold' = cold \cup {q}
          /\ cur' = [cur EXCEPT ![q] = c] /\ dest' = [dest EXCEPT ![q] = Cold]
          /\ amount' = [amount EXCEPT ![q] = b - Residual[c]]
          /\ UNCHANGED <<processing, processed, until>>
    BY <1>1 DEF SaveWithdrawalRequest
  <1>3. /\ \A p \in saved : cur'[p] = cur[p] /\ dest'[p] = dest[p] /\ amount'[p] = amount[p]
        /\ cur' \in [Query -> Currency] /\ dest' \in [Query -> Dest \cup {Cold}]
        /\ amount' \in [Query -> Nat]
        /\ cur'[q] = c /\ amount'[q] = b - Residual[c]
    BY <1>1, <1>2, SaveRows
  <1>4. RowInv' /\ BatchCovered'
    BY <1>2 DEF RowInv, BatchCovered
  <1>5. ResidualLeft'
    <2> SUFFICES ASSUME NEW p \in cold' \ (processed \cup paid)
                 PROVE  (balance[cur[p]] - amount[p] >= Residual[cur[p]] - taken[p])'
      BY <1>2 DEF ResidualLeft
    <2>1. CASE p = q
      BY <1>2, <1>3, <2>1 DEF RowInv, TypeOK
    <2>2. CASE p # q
      BY <1>2, <1>3, <2>2 DEF ResidualLeft, TypeOK
    <2> QED BY <2>1, <2>2
  <1>6. RecipientInv' /\ QueueInv'
    <2>1. batch = {} /\ Body = {} /\ Body' = {}
      BY DEF CostInv, Building, Body
    <2> QED BY <2>1, FS_EmptySet DEF RecipientInv, QueueInv
  <1>7. saved' \subseteq Query /\ saved \subseteq saved' /\ cold' \subseteq saved'
    BY <1>2 DEF TypeOK
  <1> QED BY <1>2, <1>3, <1>4, <1>5, <1>6, <1>7

LEMMA ColdJettonIInv ==
  ASSUME IInv, NEW c \in Jetton, ColdJetton(c)
  PROVE  IInv'
PROOF
  <1> USE AmountAssumption, SetAssumption DEF IInv, ColdJetton, building
  <1>1. c \in Currency /\ TonSymbol \in Currency /\ wpc = "cold" /\ wpc' = "cold"
    BY DEF Currency
  <1>2. UNCHANGED <<now, chain, batch, open, tasks, left, total, exp, wake>>
    OBVIOUS
  <1>3. PICK b \in {balance[c], shown[c]} :
          IF IsInProgressInternalWithdrawalRequest(c) \/ b =< HotWalletMax[c]
          THEN UNCHANGED <<requests, tonBalance>>
          ELSE /\ SaveWithdrawalRequest(c, Cold, ColdAmount(c, b), TRUE)
               /\ tonBalance' = tonBalance - Fee
    OBVIOUS
  <1>4. b \in Int /\ b =< balance[c] /\ HotWalletMax[c] \in Nat
    BY <1>1 DEF NodeInv, Sleeping, Covers, TypeOK
  <1>5. CASE UNCHANGED <<requests, tonBalance>>
    <2> USE DEF requests, chain
    <2>1. TypeOK' /\ RowInv' /\ ResidualLeft' /\ BatchCovered'
      BY <1>2, <1>5 DEF TypeOK, RowInv, ResidualLeft, BatchCovered
    <2>2. Body' = Body /\ MessageInv' /\ LiveInv' /\ NodeInv' /\ CostInv'
      BY <1>1, <1>2, <1>5 DEF MessageInv, LiveInv, NodeInv, CostInv, Sleeping, Building, Body
    <2>3. RecipientInv' /\ QueueInv'
      BY <1>1, <1>2, <1>5, <2>2 DEF RecipientInv, QueueInv
    <2> QED BY <2>1, <2>2, <2>3
  <1>6. CASE /\ HotWalletMax[c] < b
             /\ SaveWithdrawalRequest(c, Cold, ColdAmount(c, b), TRUE)
             /\ tonBalance' = tonBalance - Fee
    <2>1. /\ RowInv' /\ BatchCovered' /\ ResidualLeft' /\ RecipientInv' /\ QueueInv'
          /\ saved' \subseteq Query /\ saved \subseteq saved' /\ cold' \subseteq saved'
          /\ cur' \in [Query -> Currency] /\ dest' \in [Query -> Dest \cup {Cold}]
          /\ amount' \in [Query -> Nat]
          /\ UNCHANGED <<processing, processed, until>>
      BY <1>1, <1>2, <1>4, <1>6, ColdRequest
    <2>2. TypeOK'
      BY <1>1, <1>2, <1>6, <2>1 DEF TypeOK, chain
    <2>3. MessageInv' /\ LiveInv' /\ CostInv'
      BY <1>1, <1>2, <2>1 DEF MessageInv, LiveInv, CostInv, Sleeping, Building, chain
    <2>4. NodeInv'
      BY <1>1, <1>2, <1>6 DEF NodeInv, Sleeping, chain, TypeOK
    <2> QED BY <2>1, <2>2, <2>3, <2>4
  <1>7. b =< HotWalletMax[c] \/ HotWalletMax[c] < b
    BY <1>4
  <1> QED BY <1>3, <1>5, <1>6, <1>7

LEMMA ColdTonIInv ==
  ASSUME IInv, ColdTon
  PROVE  IInv'
PROOF
  <1> USE AmountAssumption, SetAssumption DEF IInv, ColdTon, building
  <1>1. TonSymbol \in Currency /\ wpc = "cold" /\ wpc' = "balances"
    BY DEF Currency
  <1>2. UNCHANGED <<now, chain, batch, open, tasks, left, total, exp, wake, todo>>
    OBVIOUS
  <1>3. /\ tonBalance \in Int /\ tonBalance =< balance[TonSymbol]
        /\ HotWalletMax[TonSymbol] \in Nat /\ tonBalance' = 0
    BY <1>1 DEF NodeInv, TypeOK
  <1>4. MessageInv' /\ NodeInv' /\ CostInv'
    BY <1>1, <1>2 DEF MessageInv, NodeInv, CostInv, Sleeping, Building, chain
  <1>5. CASE UNCHANGED requests
    <2> USE DEF requests, chain
    <2>1. TypeOK' /\ RowInv' /\ ResidualLeft' /\ BatchCovered'
      BY <1>1, <1>2, <1>3, <1>5 DEF TypeOK, RowInv, ResidualLeft, BatchCovered
    <2>2. Body' = Body /\ LiveInv'
      BY <1>1, <1>2, <1>5 DEF LiveInv, Body
    <2>3. RecipientInv' /\ QueueInv'
      BY <1>1, <1>2, <1>5, <2>2 DEF RecipientInv, QueueInv
    <2> QED BY <1>4, <2>1, <2>2, <2>3
  <1>6. CASE /\ HotWalletMax[TonSymbol] < tonBalance
             /\ SaveWithdrawalRequest(TonSymbol, Cold, ColdAmount(TonSymbol, tonBalance), TRUE)
    <2>1. /\ RowInv' /\ BatchCovered' /\ ResidualLeft' /\ RecipientInv' /\ QueueInv'
          /\ saved' \subseteq Query /\ saved \subseteq saved' /\ cold' \subseteq saved'
          /\ cur' \in [Query -> Currency] /\ dest' \in [Query -> Dest \cup {Cold}]
          /\ amount' \in [Query -> Nat]
          /\ UNCHANGED <<processing, processed, until>>
      BY <1>1, <1>2, <1>3, <1>6, ColdRequest
    <2>2. TypeOK'
      BY <1>1, <1>2, <1>3, <2>1 DEF TypeOK, chain
    <2>3. LiveInv'
      BY <1>1, <1>2, <2>1 DEF LiveInv, chain
    <2> QED BY <1>4, <2>1, <2>2, <2>3
  <1>7. tonBalance =< HotWalletMax[TonSymbol] \/ HotWalletMax[TonSymbol] < tonBalance
    BY <1>3
  <1> QED BY <1>5, <1>6, <1>7

LEMMA GetHotWalletBalancesIInv ==
  ASSUME IInv, NEW T \in SUBSET Owner, GetHotWalletBalances(T)
  PROVE  IInv'
PROOF
  <1> USE DEF IInv, GetHotWalletBalances, requests, chain, coldLocal
  <1>1. PICK fresh \in SUBSET Currency :
          left' = [c \in Currency |-> IF c \in fresh THEN balance[c] ELSE shown[c]]
    OBVIOUS
  <1>2. Covers(balance, shown)
    BY DEF NodeInv, Sleeping
  <1>3. left' \in [Currency -> Nat] /\ \A c \in Currency : left'[c] =< balance[c]
    BY <1>1, <1>2 DEF Covers, TypeOK
  <1>4. TypeOK' /\ RowInv' /\ ResidualLeft' /\ BatchCovered'
    BY <1>3 DEF TypeOK, RowInv, ResidualLeft, BatchCovered
  <1>5. batch = {} /\ Body' = {} /\ MessageInv' /\ LiveInv' /\ NodeInv'
    BY DEF MessageInv, LiveInv, NodeInv, CostInv, Sleeping, Building, Body
  <1>6. CostInv'
    BY <1>3 DEF CostInv, Building, Covers, Plus, Nothing, TypeOK
  <1>7. RecipientInv' /\ QueueInv'
    BY <1>5, FS_EmptySet DEF RecipientInv, QueueInv
  <1> QED BY <1>4, <1>5, <1>6, <1>7

\* A message over the fee to an owner, or none, when the balances cover it.
LEMMA FillingCosts ==
  ASSUME TypeOK, CostInv, Building, NEW kind, NEW o, NEW some \in BOOLEAN,
         Covers(left, Cost(TonSymbol, Fee)), AddFilling(kind, o, some), UNCHANGED <<balance, wpc>>
  PROVE  /\ CostInv' /\ left' \in [Currency -> Nat] /\ total' \in [Currency -> Nat]
         /\ batch' \in {batch, batch \cup {<<kind, o>>}}
PROOF
  <1> DEFINE k == Cost(TonSymbol, Fee)
  <1>1. TonSymbol \in Currency /\ Fee \in Nat
    BY AmountAssumption DEF Currency
  <1>2. k \in [Currency -> Nat]
    BY <1>1, CostType
  <1>3. left' = Minus(left, k) /\ total' \in {total, Plus(total, k)}
    BY DEF AddFilling
  <1>4. left \in [Currency -> Nat] /\ total \in [Currency -> Nat] /\ balance \in [Currency -> Nat]
    BY DEF TypeOK
  <1> HIDE DEF k
  <1>5. left' \in [Currency -> Nat] /\ total' \in [Currency -> Nat]
    BY <1>2, <1>3, <1>4, AmountType DEF k
  <1>6. Covers(balance, Plus(left, total))
    BY DEF CostInv
  <1>7. Covers(balance, Plus(left', total'))
    BY <1>2, <1>3, <1>4, <1>6, CostMoves DEF k
  <1>8. CostInv'
    BY <1>7 DEF CostInv, Building
  <1> QED BY <1>5, <1>8 DEF AddFilling

LEMMA ServiceTaskIInv ==
  ASSUME IInv, NEW o \in Owner, NEW some \in BOOLEAN, ServiceTask(o, some)
  PROVE  IInv'
PROOF
  <1> USE DEF IInv, ServiceTask, requests, chain, coldLocal
  <1>1. wpc = "service" /\ wpc' = "service" /\ Building
    BY DEF Building
  <1>2. /\ CostInv' /\ left' \in [Currency -> Nat] /\ total' \in [Currency -> Nat]
        /\ batch' \in {batch, batch \cup {<<"service", o>>}}
    <2>1. CASE Covers(left, Cost(TonSymbol, Fee))
      BY <1>1, <2>1, FillingCosts
    <2>2. CASE ~Covers(left, Cost(TonSymbol, Fee))
      BY <1>1, <2>2 DEF CostInv, TypeOK, Building
    <2> QED BY <2>1, <2>2
  <1>3. TypeOK' /\ RowInv' /\ ResidualLeft' /\ BatchCovered'
    BY <1>1, <1>2 DEF TypeOK, RowInv, ResidualLeft, BatchCovered
  <1>4. MessageInv' /\ LiveInv' /\ NodeInv'
    BY <1>1 DEF MessageInv, LiveInv, NodeInv, Sleeping
  <1>5. RecipientInv'
    <2>1. IsFiniteSet(batch')
      <3>1. IsFiniteSet(batch)
        BY DEF RecipientInv
      <3>2. IsFiniteSet(batch \cup {<<"service", o>>})
        BY <3>1, FS_AddElement
      <3> QED BY <1>2, <3>1, <3>2
    <2>2. Body' = {} /\ \A m \in batch' : m \in {"service"} \X Owner
      BY <1>1, <1>2 DEF RecipientInv, Body
    <2> QED BY <1>1, <2>1, <2>2 DEF RecipientInv
  <1> QED BY <1>1, <1>2, <1>3, <1>4, <1>5 DEF QueueInv

LEMMA GetJettonInternalWithdrawalTasksIInv ==
  ASSUME IInv, NEW T \in SUBSET Owner, GetJettonInternalWithdrawalTasks(T)
  PROVE  IInv'
PROOF
  <1> USE DEF IInv, GetJettonInternalWithdrawalTasks, requests, chain, coldLocal
  <1>1. TypeOK' /\ RowInv' /\ ResidualLeft' /\ BatchCovered'
    BY DEF TypeOK, RowInv, ResidualLeft, BatchCovered
  <1>2. MessageInv' /\ LiveInv' /\ NodeInv' /\ CostInv'
    BY DEF MessageInv, LiveInv, NodeInv, CostInv, Sleeping, Building
  <1>3. \A u \in T : <<"service", u>> \notin batch
    BY DEF UsedAddresses
  <1>4. Body' = Body
    BY DEF Body
  <1>5. RecipientInv' /\ QueueInv'
    BY <1>3, <1>4 DEF RecipientInv, QueueInv
  <1> QED BY <1>1, <1>2, <1>5

LEMMA InternalTaskIInv ==
  ASSUME IInv, NEW o \in Owner, NEW some \in BOOLEAN, InternalTask(o, some)
  PROVE  IInv'
PROOF
  <1> USE DEF IInv, InternalTask, requests, chain, coldLocal
  <1>1. wpc = "internal" /\ wpc' = "internal" /\ Building /\ o \in tasks
    BY DEF Building
  <1>2. /\ CostInv' /\ left' \in [Currency -> Nat] /\ total' \in [Currency -> Nat]
        /\ batch' \in {batch, batch \cup {<<"internal", o>>}}
    <2>1. CASE ~BatchFull /\ Covers(left, Cost(TonSymbol, Fee))
      BY <1>1, <2>1, FillingCosts
    <2>2. CASE BatchFull \/ ~Covers(left, Cost(TonSymbol, Fee))
      BY <1>1, <2>2 DEF CostInv, TypeOK, Building
    <2> QED BY <2>1, <2>2
  <1>3. tasks' \subseteq tasks
    OBVIOUS
  <1>4. TypeOK' /\ RowInv' /\ ResidualLeft' /\ BatchCovered'
    BY <1>1, <1>2, <1>3 DEF TypeOK, RowInv, ResidualLeft, BatchCovered
  <1>5. MessageInv' /\ LiveInv' /\ NodeInv'
    BY <1>1 DEF MessageInv, LiveInv, NodeInv, Sleeping
  <1>6. RecipientInv'
    <2>1. IsFiniteSet(batch')
      <3>1. IsFiniteSet(batch)
        BY DEF RecipientInv
      <3>2. IsFiniteSet(batch \cup {<<"internal", o>>})
        BY <3>1, FS_AddElement
      <3> QED BY <1>2, <3>1, <3>2
    <2>2. Body' = {}
      BY <1>1, <1>2 DEF RecipientInv, Body
    <2>3. \A u \in tasks' \cup {o} : <<"service", u>> \notin batch'
      <3> SUFFICES ASSUME NEW u \in tasks
                   PROVE  <<"service", u>> \notin batch'
        BY <1>1, <1>3
      <3>1. <<"service", u>> \notin batch
        BY <1>1 DEF RecipientInv
      <3>2. <<"service", u>> # <<"internal", o>>
        OBVIOUS
      <3> HIDE DEF InternalTask
      <3> QED BY <1>2, <3>1, <3>2
    <2>4. \A m \in batch' : m \in {"service", "internal"} \X Owner
      BY <1>1, <1>2 DEF RecipientInv, Body, TypeOK
    <2>5. \A u \in Owner : <<"service", u>> \in batch' => <<"internal", u>> \notin batch'
      BY <1>1, <1>2, <2>3 DEF RecipientInv
    <2> QED BY <1>1, <2>1, <2>2, <2>3, <2>4, <2>5 DEF RecipientInv
  <1> QED BY <1>1, <1>2, <1>4, <1>5, <1>6 DEF QueueInv

LEMMA GetExternalWithdrawalTasksIInv ==
  ASSUME IInv, GetExternalWithdrawalTasks
  PROVE  IInv'
PROOF
  <1> USE DEF IInv, GetExternalWithdrawalTasks, requests, chain, coldLocal
  <1>1. TypeOK' /\ RowInv' /\ ResidualLeft' /\ BatchCovered'
    BY DEF TypeOK, RowInv, ResidualLeft, BatchCovered, FirstOfDest
  <1>2. MessageInv' /\ LiveInv' /\ NodeInv' /\ CostInv'
    BY DEF MessageInv, LiveInv, NodeInv, CostInv, Sleeping, Building
  <1>3. Body' = {}
    BY DEF Body, RecipientInv
  <1>4. \A p, q \in tasks' : dest[p] = dest[q] => p = q
    BY DEF FirstOfDest, Query, TypeOK
  <1>5. RecipientInv'
    BY <1>3, <1>4 DEF RecipientInv
  <1>6. QueueInv'
    <2> SUFFICES ASSUME NEW q \in open' \ tasks'
                 PROVE  LeftOut(q)'
      BY DEF QueueInv
    <2>1. \/ q \notin FirstOfDest(open')
          \/ ~(Cardinality(LowerDests(open', q)) < Limit)
      OBVIOUS
    <2>2. Cardinality(LowerDests(open', q)) \in Nat
      BY LowerDestsFinite DEF TypeOK
    <2>3. FirstOfDest(open)' = FirstOfDest(open') /\ LowerDests(open, q)' = LowerDests(open', q)
      BY DEF FirstOfDest, LowerDests
    <2> QED BY <2>1, <2>2, <2>3, AmountAssumption DEF LeftOut
  <1> QED BY <1>1, <1>2, <1>5, <1>6

\* A request is passed over or becomes a message.
LEMMA ExternalTaskIInv ==
  ASSUME IInv, NEW q \in Query, ExternalTask(q)
  PROVE  IInv'
PROOF
  <1> USE DEF IInv, ExternalTask, requests, chain, coldLocal
  <1> DEFINE k == Cost(cur[q], amount[q])
             Taken == /\ ~BatchFull /\ dest[q] \notin Owner /\ Covers(left, k)
                      /\ tasks' = tasks \ {q}
                      /\ left' = Minus(left, k)
                      /\ batch' = batch \cup {<<"external", q>>}
                      /\ total' = Plus(total, k)
             Passed == /\ BatchFull \/ dest[q] \in Owner \/ ~Covers(left, k)
                       /\ BatchFull \/ tasks' = tasks \ {q}
                       /\ tasks' \subseteq tasks
                       /\ UNCHANGED <<left, batch, total>>
  <1>1. /\ wpc = "external" /\ wpc' = "external" /\ Building /\ q \in tasks /\ q \in saved
        /\ UNCHANGED <<cur, dest, amount, saved, open>>
    BY DEF Building, IsNextTask, TypeOK
  <1>2. Taken \/ Passed
    OBVIOUS
  <1>3. k \in [Currency -> Nat]
    BY CostType DEF TypeOK
  <1>4. /\ left \in [Currency -> Nat] /\ total \in [Currency -> Nat] /\ balance \in [Currency -> Nat]
        /\ IsFiniteSet(batch)
    BY DEF TypeOK, RecipientInv
  <1>5. Covers(balance, Plus(left, total))
    BY <1>1 DEF CostInv
  <1>6. MessageInv' /\ LiveInv' /\ NodeInv' /\ RowInv' /\ ResidualLeft' /\ BatchCovered'
    BY <1>1 DEF MessageInv, LiveInv, NodeInv, Sleeping, RowInv, ResidualLeft, BatchCovered
  <1>7. FirstOfDest(open)' = FirstOfDest(open)
    BY <1>1 DEF FirstOfDest
  <1>8. \A p : LowerDests(open, p)' = LowerDests(open, p)
    BY <1>1 DEF LowerDests
  <1>9. ASSUME Taken PROVE IInv'
    <2> HIDE DEF k
    <2> USE <1>9
    <2>1. left' \in [Currency -> Nat] /\ total' \in [Currency -> Nat]
      BY <1>3, <1>4, AmountType
    <2>2. TypeOK'
      BY <1>1, <2>1 DEF TypeOK
    <2>3. CostInv'
      BY <1>1, <1>3, <1>4, <1>5, CostMoves DEF CostInv, Building
    <2>4. Body' = Body \cup {q}
      BY DEF Body
    <2>5. RecipientInv'
      <3>1. IsFiniteSet(batch')
        BY <1>4, FS_AddElement
      <3>2. \A p, r \in Body' \cup tasks' : dest[p] = dest[r] => p = r
        BY <1>1, <2>4 DEF RecipientInv
      <3> QED BY <1>1, <3>1, <3>2 DEF RecipientInv
    <2>6. QueueInv'
      <3> SUFFICES ASSUME NEW p \in open \ (Body' \cup tasks')
                   PROVE  LeftOut(p)'
        BY <1>1 DEF QueueInv
      <3>1. LeftOut(p) /\ p \in Query
        BY <1>1, <2>4 DEF QueueInv, TypeOK
      <3>2. Cost(cur[p], amount[p]) \in [Currency -> Nat]
        BY <3>1, CostType DEF TypeOK
      <3>3. ~Covers(left, Cost(cur[p], amount[p])) => ~Covers(left', Cost(cur[p], amount[p]))
        BY <1>3, <1>4, <3>2, NotCoveredStays
      <3>4. BatchFull => BatchFull'
        BY <1>4, FullStays DEF BatchFull
      <3> QED BY <1>1, <1>7, <1>8, <3>1, <3>3, <3>4 DEF LeftOut
    <2> QED BY <1>6, <2>2, <2>3, <2>5, <2>6
  <1>10. ASSUME Passed PROVE IInv'
    <2> HIDE DEF k
    <2> USE <1>10
    <2>1. Body' = Body
      BY DEF Body
    <2>2. TypeOK' /\ CostInv' /\ RecipientInv'
      BY <1>1, <2>1 DEF TypeOK, CostInv, RecipientInv, Building
    <2>3. QueueInv'
      <3> SUFFICES ASSUME NEW p \in open \ (Body \cup tasks')
                   PROVE  LeftOut(p)'
        BY <1>1, <2>1 DEF QueueInv
      <3>1. LeftOut(p)
        <4>1. CASE p \in tasks /\ ~BatchFull
          BY <4>1 DEF LeftOut, k
        <4>2. CASE BatchFull
          BY <4>2 DEF LeftOut
        <4>3. CASE p \notin tasks
          BY <1>1, <4>3 DEF QueueInv
        <4> QED BY <4>1, <4>2, <4>3
      <3> QED BY <1>1, <1>7, <1>8, <3>1 DEF LeftOut, BatchFull
    <2> QED BY <1>6, <2>2, <2>3
  <1> QED BY <1>2, <1>9, <1>10

\* The batch is empty or forgotten.
LEMMA NoBatch ==
  ASSUME batch' = {}, wpc' \notin {"service", "internal", "external", "send"}, total' = Nothing
  PROVE  CostInv' /\ RecipientInv' /\ QueueInv' /\ Body' = {}
PROOF
  <1>1. Body' = {}
    BY DEF Body
  <1> QED BY <1>1, FS_EmptySet DEF CostInv, RecipientInv, QueueInv, Building

LEMMA NothingType ==
  Nothing \in [Currency -> Nat] /\ Nothing' = Nothing
PROOF BY DEF Nothing

LEMMA NoMessagesIInv ==
  ASSUME IInv, NoMessages
  PROVE  IInv'
PROOF
  <1> USE DEF IInv, NoMessages, ForgetBatch, requests, chain, coldLocal
  <1>1. TypeOK' /\ RowInv' /\ ResidualLeft' /\ BatchCovered'
    BY NothingType DEF TypeOK, RowInv, ResidualLeft, BatchCovered
  <1>2. MessageInv' /\ LiveInv' /\ NodeInv'
    BY DEF MessageInv, LiveInv, NodeInv, Sleeping
  <1> QED BY <1>1, <1>2, NoBatch

LEMMA RestartIInv ==
  ASSUME IInv, Restart
  PROVE  IInv'
PROOF
  <1> USE DEF IInv, Restart, ForgetBatch, requests, chain
  <1>1. TypeOK' /\ RowInv' /\ ResidualLeft' /\ BatchCovered'
    BY NothingType DEF TypeOK, RowInv, ResidualLeft, BatchCovered
  <1>2. MessageInv' /\ LiveInv' /\ NodeInv'
    BY DEF MessageInv, LiveInv, NodeInv, Sleeping
  <1> QED BY <1>1, <1>2, NoBatch

LEMMA CreateWithdrawalsIInv ==
  ASSUME IInv, CreateWithdrawals
  PROVE  IInv'
PROOF
  <1> USE TimeAssumption, SetAssumption DEF IInv, CreateWithdrawals, chain, coldLocal, building
  <1>1. Body' = Body /\ Body \subseteq saved /\ Body \subseteq Query
    BY DEF Body, RecipientInv
  <1>2. TypeOK' /\ RowInv' /\ ResidualLeft' /\ BatchCovered'
    BY <1>1 DEF TypeOK, RowInv, ResidualLeft, BatchCovered, Time
  <1>3. MessageInv'
    BY DEF MessageInv, Sleeping, TypeOK, Time
  <1>4. NodeInv' /\ CostInv' /\ QueueInv'
    BY DEF NodeInv, CostInv, QueueInv, Sleeping, Building
  <1>5. LiveInv'
    <2>1. \A m \in inflight : m.exp < now /\ m.exp \in Nat /\ now \in Nat
      BY DEF MessageInv, Sleeping, TypeOK, Time
    <2>2. \A q \in Body : q \in processing' /\ until'[q] = exp'
      BY <1>1
    <2> QED BY <1>1, <2>1, <2>2 DEF LiveInv
  <1>6. RecipientInv'
    BY <1>1 DEF RecipientInv
  <1> QED BY <1>2, <1>3, <1>4, <1>5, <1>6

\* The message that is handed over is the only one that can be executed.
LEMMA SendExternalMessageIInv ==
  ASSUME IInv, SendExternalMessage
  PROVE  IInv'
PROOF
  <1> USE TimeAssumption, SetAssumption DEF IInv, SendExternalMessage, ForgetBatch, requests, coldLocal
  <1> DEFINE new == [body |-> Body, total |-> total, exp |-> exp]
  <1>1. inflight' = inflight \cup {new} /\ Body \subseteq saved
    BY DEF Body, RecipientInv
  <1>2. \A m \in inflight : m.exp < now /\ m.exp \in Nat /\ now \in Nat
    BY DEF MessageInv, Sleeping, TypeOK, Time
  <1>3. new.exp = exp /\ new.total = total /\ new.body = Body
    OBVIOUS
  <1>4. new \in [body : SUBSET saved, total : [Currency -> Nat], exp : Nat]
    BY <1>1 DEF TypeOK
  <1> HIDE DEF new
  <1>5. TypeOK'
    BY <1>1, <1>4, NothingType DEF TypeOK
  <1>6. MessageInv'
    BY <1>1, <1>3 DEF MessageInv, Sleeping
  <1>7. LiveInv'
    <2>1. ASSUME NEW m \in inflight', now =< m.exp
          PROVE  m = new
      BY <1>1, <1>2, <2>1
    <2>2. now =< exp => \A q \in Body : q \in processing /\ until[q] = exp
      BY DEF LiveInv
    <2> QED BY <1>3, <2>1, <2>2 DEF LiveInv
  <1>8. NodeInv' /\ RowInv' /\ ResidualLeft'
    BY DEF NodeInv, Sleeping, RowInv, ResidualLeft
  <1>9. BatchCovered'
    <2>1. Covers(balance, total)
      BY DEF CostInv, Building, Covers, Plus, TypeOK
    <2> QED BY <1>1, <1>2, <1>3, <2>1 DEF BatchCovered
  <1> QED BY <1>5, <1>6, <1>7, <1>8, <1>9, NoBatch

-----------------------------------------------------------------------------
(* Steps of the others leave the processor alone. *)

LEMMA ProcessorKept ==
  ASSUME IInv, UNCHANGED <<wpc, building, saved, cur, dest, amount>>
  PROVE  RecipientInv' /\ QueueInv' /\ Body' = Body
PROOF
  <1> USE DEF IInv, building
  <1>1. Body' = Body
    BY DEF Body
  <1>2. RecipientInv'
    BY <1>1 DEF RecipientInv
  <1>3. QueueInv'
    BY <1>1 DEF QueueInv, LeftOut, FirstOfDest, LowerDests, BatchFull
  <1> QED BY <1>1, <1>2, <1>3

LEMMA ScanPaidIInv ==
  ASSUME IInv, NEW q \in Query, ScanPaid(q)
  PROVE  IInv'
PROOF
  <1> USE DEF IInv, ScanPaid, coldLocal, building
  <1>1. TypeOK' /\ RowInv' /\ ResidualLeft' /\ BatchCovered'
    BY DEF TypeOK, RowInv, ResidualLeft, BatchCovered
  <1>2. RecipientInv' /\ QueueInv' /\ Body' = Body
    BY ProcessorKept
  <1>3. MessageInv' /\ LiveInv' /\ NodeInv' /\ CostInv'
    BY <1>2 DEF MessageInv, LiveInv, NodeInv, CostInv, Sleeping, Building
  <1> QED BY <1>1, <1>2, <1>3

LEMMA ExpireIInv ==
  ASSUME IInv, NEW q \in Query, Expire(q)
  PROVE  IInv'
PROOF
  <1> USE DEF IInv, Expire, chain, coldLocal, building
  <1>1. TypeOK' /\ RowInv' /\ ResidualLeft' /\ BatchCovered'
    BY DEF TypeOK, RowInv, ResidualLeft, BatchCovered
  <1>2. RecipientInv' /\ QueueInv' /\ Body' = Body
    BY ProcessorKept
  <1>3. MessageInv' /\ NodeInv' /\ CostInv'
    BY <1>2 DEF MessageInv, NodeInv, CostInv, Sleeping, Building
  <1>4. LiveInv'
    BY <1>2, SetAssumption DEF LiveInv, TypeOK, Time
  <1> QED BY <1>1, <1>2, <1>3, <1>4

LEMMA MessageExpiresIInv ==
  ASSUME IInv, NEW m \in inflight, MessageExpires(m)
  PROVE  IInv'
PROOF
  <1> USE DEF IInv, MessageExpires, requests, coldLocal, building
  <1>1. TypeOK' /\ RowInv' /\ ResidualLeft' /\ BatchCovered'
    BY DEF TypeOK, RowInv, ResidualLeft, BatchCovered
  <1>2. RecipientInv' /\ QueueInv' /\ Body' = Body
    BY ProcessorKept
  <1>3. MessageInv' /\ LiveInv' /\ NodeInv' /\ CostInv'
    BY <1>2 DEF MessageInv, LiveInv, NodeInv, CostInv, Sleeping, Building
  <1> QED BY <1>1, <1>2, <1>3

\* Other messages have expired, so only the balances of this one change.
LEMMA ExecuteIInv ==
  ASSUME IInv, NEW m \in inflight, Execute(m)
  PROVE  IInv'
PROOF
  <1> USE SetAssumption, TimeAssumption DEF IInv, Execute, requests, coldLocal, building
  <1>1. /\ m.total \in [Currency -> Nat] /\ m.exp \in Nat /\ m.body \subseteq saved
        /\ balance \in [Currency -> Nat] /\ now \in Nat /\ staleSince \in Nat /\ wake \in Nat
    BY DEF TypeOK, Time
  <1>2. /\ balance' = Minus(balance, m.total) /\ balance' \in [Currency -> Nat] /\ shown' = shown
        /\ staleSince' = IF shown = balance THEN now ELSE staleSince
    BY <1>1, AmountType DEF Changed
  <1>3. m.body \subseteq processing
    BY DEF LiveInv
  <1>4. taken' \in [Query -> Nat]
    BY <1>1 DEF TypeOK
  <1>5. TypeOK'
    BY <1>2, <1>3, <1>4 DEF TypeOK
  <1>6. RecipientInv' /\ QueueInv' /\ Body' = Body
    BY ProcessorKept
  <1>7. Sleeping
    BY <1>1 DEF MessageInv
  <1>8. MessageInv' /\ LiveInv'
    BY <1>6 DEF MessageInv, LiveInv, Sleeping
  <1>9. NodeInv'
    <2>1. staleSince' \in Nat /\ staleSince' =< now
      BY <1>1, <1>2 DEF NodeInv
    <2>2. now =< staleSince' + ViewLag
      BY <1>1, <1>2 DEF NodeInv
    <2>3. wpc = "sleep" => staleSince' + ViewLag < wake
      <3>1. now =< m.exp /\ (wpc = "sleep" => m.exp + ViewLag < wake)
        BY DEF MessageInv
      <3> HIDE DEF Execute
      <3> QED BY <1>1, <2>1, <3>1
    <2> QED BY <1>7, <2>1, <2>2, <2>3 DEF NodeInv, Sleeping
  <1>10. CostInv' /\ RowInv'
    BY <1>7 DEF CostInv, RowInv, Building, Sleeping, TypeOK
  <1>11. BatchCovered'
    BY DEF BatchCovered, LiveInv
  <1>12. ResidualLeft'
    <2> SUFFICES ASSUME NEW q \in cold \ (processed \cup paid)
                 PROVE  balance'[cur[q]] - amount[q] >= Residual[cur[q]] - taken'[q]
      BY DEF ResidualLeft
    <2>1. cur[q] \in Currency /\ q \in Query /\ amount[q] \in Nat /\ taken[q] \in Nat
      BY DEF TypeOK
    <2>2. balance'[cur[q]] = balance[cur[q]] - m.total[cur[q]]
      BY <1>2, <2>1 DEF Minus
    <2>3. taken'[q] = taken[q] + m.total[cur[q]]
      BY <2>1
    <2>4. balance[cur[q]] - amount[q] >= Residual[cur[q]] - taken[q]
      BY DEF ResidualLeft
    <2> QED BY <1>1, <2>1, <2>2, <2>3, <2>4, AmountAssumption
  <1> QED BY <1>5, <1>6, <1>8, <1>9, <1>10, <1>11, <1>12

LEMMA IncomeIInv ==
  ASSUME IInv, NEW c \in Currency, Income(c)
  PROVE  IInv'
PROOF
  <1> USE SetAssumption, TimeAssumption DEF IInv, Income, requests, coldLocal, building
  <1>1. balance \in [Currency -> Nat] /\ now \in Nat /\ staleSince \in Nat
    BY DEF TypeOK, Time
  <1>2. /\ balance' \in [Currency -> Nat] /\ shown' = shown /\ balance' # balance
        /\ \A d \in Currency : balance[d] =< balance'[d]
        /\ staleSince' = IF shown = balance THEN now ELSE staleSince
    BY <1>1 DEF Changed
  <1>3. TypeOK' /\ RowInv'
    BY <1>2 DEF TypeOK, RowInv
  <1>4. RecipientInv' /\ QueueInv' /\ Body' = Body
    BY ProcessorKept
  <1>5. MessageInv' /\ LiveInv'
    BY <1>4 DEF MessageInv, LiveInv, Sleeping
  <1>6. NodeInv'
    <2>1. ~Covers(balance', shown) => ~Covers(balance, shown)
      BY <1>1, <1>2 DEF Covers, TypeOK
    <2>2. shown = balance => Covers(balance, shown)
      BY <1>1 DEF Covers
    <2>3. TonSymbol \in Currency
      BY DEF Currency
    <2> QED BY <1>1, <1>2, <2>1, <2>2, <2>3 DEF NodeInv, Sleeping, TypeOK
  <1>7. CostInv'
    BY <1>1, <1>2 DEF CostInv, Building, Covers, Plus, TypeOK
  <1>8. BatchCovered'
    BY <1>1, <1>2 DEF BatchCovered, Covers, TypeOK
  <1>9. ResidualLeft'
    BY <1>1, <1>2, AmountAssumption DEF ResidualLeft, TypeOK
  <1> QED BY <1>3, <1>4, <1>5, <1>6, <1>7, <1>8, <1>9

LEMMA TickIInv ==
  ASSUME IInv, Tick
  PROVE  IInv'
PROOF
  <1> USE SetAssumption, TimeAssumption DEF IInv, Tick, requests, coldLocal, building
  <1>1. now \in Nat /\ now' = now + 1 /\ staleSince \in Nat
    BY DEF TypeOK, Time
  <1>2. TypeOK' /\ RowInv' /\ ResidualLeft'
    BY DEF TypeOK, RowInv, ResidualLeft, Time
  <1>3. RecipientInv' /\ QueueInv' /\ Body' = Body
    BY ProcessorKept
  <1>4. \A m \in inflight : m.exp \in Nat
    BY DEF TypeOK
  <1>5. MessageInv'
    BY <1>1, <1>4 DEF MessageInv, Sleeping, TypeOK
  <1>6. LiveInv' /\ BatchCovered'
    BY <1>1, <1>3, <1>4 DEF LiveInv, BatchCovered, TypeOK
  <1>7. NodeInv'
    <2>1. Covers(balance, balance)
      BY DEF Covers, TypeOK
    <2> QED BY <1>1, <2>1 DEF NodeInv, Sleeping
  <1>8. CostInv'
    BY DEF CostInv, Building
  <1> QED BY <1>2, <1>3, <1>5, <1>6, <1>7, <1>8

-----------------------------------------------------------------------------
LEMMA NextIInv ==
  ASSUME IInv, [Next]_vars
  PROVE  IInv'
PROOF
  <1>1. CASE UNCHANGED vars
    BY <1>1, StutterIInv
  <1>2. CASE \E c \in Currency, a \in Dest, n \in 1..MaxAmount : SendWithdrawal(c, a, n)
    BY <1>2, SendWithdrawalIInv
  <1>3. CASE WaitSync \/ ReadTonBalance \/ ColdTon
    BY <1>3, WaitSyncIInv, ReadTonBalanceIInv, ColdTonIInv
  <1>4. CASE \E c \in Jetton : ColdJetton(c)
    BY <1>4, ColdJettonIInv
  <1>5. CASE \E T \in SUBSET Owner : GetHotWalletBalances(T)
    BY <1>5, GetHotWalletBalancesIInv
  <1>6. CASE \E o \in Owner, some \in BOOLEAN : ServiceTask(o, some)
    BY <1>6, ServiceTaskIInv
  <1>7. CASE \E T \in SUBSET Owner : GetJettonInternalWithdrawalTasks(T)
    BY <1>7, GetJettonInternalWithdrawalTasksIInv
  <1>8. CASE \E o \in Owner, some \in BOOLEAN : InternalTask(o, some)
    BY <1>8, InternalTaskIInv
  <1>9. CASE GetExternalWithdrawalTasks \/ NoMessages \/ CreateWithdrawals
    BY <1>9, GetExternalWithdrawalTasksIInv, NoMessagesIInv, CreateWithdrawalsIInv
  <1>10. CASE \E q \in Query : ExternalTask(q)
    BY <1>10, ExternalTaskIInv
  <1>11. CASE SendExternalMessage \/ Restart \/ Tick
    BY <1>11, SendExternalMessageIInv, RestartIInv, TickIInv
  <1>12. CASE \E q \in Query : ScanPaid(q) \/ Expire(q)
    BY <1>12, ScanPaidIInv, ExpireIInv
  <1>13. CASE \E m \in inflight : Execute(m) \/ MessageExpires(m)
    BY <1>13, ExecuteIInv, MessageExpiresIInv
  <1>14. CASE \E c \in Currency : Income(c)
    BY <1>14, IncomeIInv
  <1> QED
    BY <1>1, <1>2, <1>3, <1>4, <1>5, <1>6, <1>7, <1>8, <1>9, <1>10, <1>11, <1>12, <1>13, <1>14
    DEF Next

\* The inductive invariant holds in every state of the specification.
THEOREM Invariance == Spec => []IInv
PROOF
  <1>1. Init => IInv
    BY InitIInv
  <1>2. IInv /\ [Next]_vars => IInv'
    BY NextIInv
  <1> QED BY <1>1, <1>2, PTL DEF Spec

\* Types, and the balances of decreaseBalances never become negative.
THEOREM TypeCorrect == Spec => []TypeOK
PROOF
  <1>1. IInv => TypeOK
    BY DEF IInv
  <1> QED BY <1>1, Invariance, PTL

\* Whenever the hot wallet can execute a message, its balances cover it: the
\* sleep of ExternalWithdrawalPeriod before the balances are read is enough,
\* whatever stops and restarts happen.
THEOREM MessagesAreCovered == Spec => []BatchCovered
PROOF
  <1>1. IInv => BatchCovered
    BY DEF IInv
  <1> QED BY <1>1, Invariance, PTL

\* The three queries of buildWithdrawalMessages never put two messages to one
\* recipient into a batch, so the scanner can tell them apart.
THEOREM OneMessagePerRecipient == Spec => []RecipientsDistinct
PROOF
  <1>1. IInv => RecipientsDistinct
    <2> SUFFICES ASSUME IInv, NEW m \in batch, NEW n \in batch, Recipient(m) = Recipient(n)
                 PROVE  m = n
      BY DEF RecipientsDistinct
    <2> USE DEF IInv, RecipientInv, Recipient
    <2>1. CASE m[1] = "external" /\ n[1] = "external"
      <3>1. m = <<"external", m[2]>> /\ n = <<"external", n[2]>> /\ m[2] \in Body /\ n[2] \in Body
        BY <2>1 DEF Body, TypeOK
      <3>2. wpc \in {"external", "send"}
        BY <3>1 DEF CostInv, Building
      <3> QED BY <2>1, <3>1, <3>2
    <2>2. CASE m[1] = "external" /\ n[1] # "external"
      BY <2>2
    <2>3. CASE m[1] # "external" /\ n[1] = "external"
      BY <2>3
    <2>4. CASE m[1] # "external" /\ n[1] # "external"
      <3>1. m = <<m[1], m[2]>> /\ n = <<n[1], n[2]>> /\ m[2] = n[2] /\ m[2] \in Owner
        BY <2>4
      <3>2. m[1] \in {"service", "internal"} /\ n[1] \in {"service", "internal"}
        BY <2>4
      <3> QED BY <3>1, <3>2
    <2> QED BY <2>1, <2>2, <2>3, <2>4
  <1> QED BY <1>1, Invariance, PTL

\* A request that waits is left out of a batch for one of the reasons the code
\* gives, never by an accident of the loops.
THEOREM LeftOutForAReason == Spec => []NobodyPassedOver
PROOF
  <1>1. IInv => NobodyPassedOver
    BY DEF IInv, QueueInv, LeftOut, NobodyPassedOver
  <1> QED BY <1>1, Invariance, PTL

\* The cold wallet's withdrawals leave the residual balance, less what was
\* paid to others since their amount was computed.
THEOREM ResidualStays == Spec => []ResidualLeft
PROOF
  <1>1. IInv => ResidualLeft
    BY DEF IInv
  <1> QED BY <1>1, Invariance, PTL
=============================================================================

---------------------- MODULE ServiceWithdrawalsProofs ----------------------
(***************************************************************************)
(* A service withdrawal is carried out at most once, never disappears, and *)
(* its transfer finds the Jettons it was built for, for every number of    *)
(* requests, wallets, masters and restarts, and whatever the limits of the *)
(* two queries are.                                                        *)
(***************************************************************************)
EXTENDS ServiceWithdrawals, TLAPS

-----------------------------------------------------------------------------
(* The inductive invariant: TypeOK, and the following. *)

KindOf(r) ==
  IF from[r] \in Deposit THEN "filling" ELSE IF master[r] = NoMaster THEN "TONs" ELSE "Jettons"

RowInv ==
  /\ \A r \in Saved : from[r] \in Owner /\ (master[r] = NoMaster => from[r] \in Proxy)
  /\ \A r \in Request \ Saved : jettonAmount[r] = 0

\* A message is handed over only after its row is marked as processed.
HandedInv ==
  \A r \in Request : handed[r] \in {0, 1} /\ (handed[r] = 1 => r \in processed)

\* The rows of the batch of the withdrawals processor are unmarked until they
\* are updated; then those of proxies are processed and not handed over.
HotInv ==
  /\ wpc = "idle" => batch = {} /\ updated = {}
  /\ \A m, n \in batch : from[m.request] = from[n.request] => m = n
  /\ \A m \in batch :
       /\ m.request \in Saved /\ m.kind = KindOf(m.request)
       /\ m.request \notin updated => m.request \notin processed /\ m.request \notin filled
  /\ \A r \in updated :
       /\ \E m \in batch : m.request = r
       /\ from[r] \notin Deposit => r \in processed /\ handed[r] = 0

\* Sending is the deposit whose row is marked and whose message is not sent.
Sending(r) == dpc = "send" /\ IsNextTask(r)

\* The tasks of the processor of TON deposits are rows of its query, but for
\* the one that is being sent.
TaskInv ==
  /\ dpc = "idle" => tasks = {}
  /\ \A r, s \in tasks : from[r] = from[s] => r = s
  /\ \A r \in tasks : from[r] \in Deposit
  /\ \A r \in tasks : ~Sending(r) => r \in filled /\ r \notin processed
  /\ \A r \in tasks : Sending(r) => r \in processed /\ handed[r] = 0

\* Where a request is: RequestsAccountedFor with the reason why.
PlaceInv ==
  \A r \in Saved :
    \/ r \in HotRows \cup DepositRows \cup rejected \cup dropped
    \/ handed[r] = 1
    \/ r \in updated /\ from[r] \notin Deposit
    \/ r \in tasks /\ Sending(r)

\* Messages on their way.
MessageInv ==
  /\ \A b \in batches : \A m, n \in b : from[m.request] = from[n.request] => m = n
  /\ \A b \in batches : \A m \in b : m.request \in Saved /\ m.kind = KindOf(m.request)
  /\ \A r \in transfers : from[r] \in Deposit

\* No other request is for the same Jetton wallet.
Lone(r) == \A s \in Saved \ {r} : WalletOf(s) # WalletOf(r)

Waits(r) == r \notin executed /\ master[r] \in Master /\ Lone(r)

\* What was read of a balance is still there: TransferCovered from the moment
\* the message is built, and not only for messages on their way.
CoverInv ==
  /\ \A r \in Saved : Waits(r) =>
       /\ jettonAmount[r] =< jettons[WalletOf(r)]
       /\ jettonAmount[r] = 0 \/ WalletOf(r) \notin book
  /\ \A m \in batch : Waits(m.request) =>
       m.amount =< jettons[WalletOf(m.request)] /\ WalletOf(m.request) \notin book

IInv ==
  TypeOK /\ RowInv /\ HandedInv /\ HotInv /\ TaskInv /\ PlaceInv /\ MessageInv /\ CoverInv

-----------------------------------------------------------------------------
(* Lemmas about the operators. *)

LEMMA SavedType ==
  ASSUME TypeOK
  PROVE  /\ requests \in Nat /\ requests =< MaxRequests /\ Saved \subseteq Request
         /\ requests \notin 1..(requests - 1) /\ requests + 1 \notin Saved
PROOF
  <1>1. requests \in 0..MaxRequests /\ MaxRequests \in Nat
    BY BoundAssumption DEF TypeOK
  <1> QED BY <1>1 DEF Saved, Request

\* A request for Jettons names a Jetton wallet, and its balance is a number.
LEMMA WalletType ==
  ASSUME TypeOK, RowInv, NEW r \in Saved, master[r] \in Master
  PROVE  /\ WalletOf(r) \in Wallet
         /\ jettons[WalletOf(r)] \in 0..MaxJettons /\ jettons[WalletOf(r)] \in Nat
PROOF
  <1>1. WalletOf(r) \in Wallet
    BY DEF RowInv, WalletOf, Wallet
  <1>2. jettons[WalletOf(r)] \in 0..MaxJettons
    BY <1>1 DEF TypeOK
  <1> QED BY <1>1, <1>2, BoundAssumption

\* There is one next task.
LEMMA OneNextTask ==
  ASSUME TypeOK, RowInv, TaskInv, NEW r, NEW s, IsNextTask(r), IsNextTask(s)
  PROVE  r = s
PROOF
  <1>1. r \in tasks /\ s \in tasks /\ from[r] =< from[s] /\ from[s] =< from[r]
    BY DEF IsNextTask
  <1>2. from[r] \in Nat /\ from[s] \in Nat
    BY <1>1, SetAssumption DEF TypeOK, RowInv
  <1>3. from[r] = from[s]
    BY <1>1, <1>2
  <1> QED BY <1>1, <1>3 DEF TaskInv

-----------------------------------------------------------------------------
(* What the steps of one part leave alone of the others. *)

LEMMA InitIInv ==
  ASSUME Init
  PROVE  IInv
PROOF
  <1> USE BoundAssumption, SetAssumption DEF Init
  <1>1. Saved = {}
    BY DEF Saved
  <1>2. TypeOK
    <2>1. requests \in 0..MaxRequests /\ restarts \in 0..MaxRestarts /\ 0 \in 0..MaxJettons
      OBVIOUS
    <2>2. book \subseteq Wallet
      BY DEF Wallet, Owner
    <2>3. jettonAmount \in [Request -> 0..MaxJettons] /\ jettons \in [Wallet -> 0..MaxJettons]
      BY <2>1
    <2> QED BY <2>1, <2>2, <2>3 DEF TypeOK
  <1>3. RowInv /\ HandedInv /\ HotInv
    BY <1>1 DEF RowInv, HandedInv, HotInv
  <1>4. TaskInv /\ PlaceInv /\ MessageInv /\ CoverInv
    BY <1>1 DEF TaskInv, PlaceInv, MessageInv, CoverInv
  <1> QED BY <1>2, <1>3, <1>4 DEF IInv

LEMMA StutterIInv ==
  ASSUME IInv, UNCHANGED vars
  PROVE  IInv'
PROOF
  <1> USE DEF IInv, vars, table, hot, deposit, chain, history, Saved, WalletOf, KindOf
  <1>1. TypeOK' /\ RowInv' /\ HandedInv'
    BY DEF TypeOK, RowInv, HandedInv
  <1>2. HotInv' /\ TaskInv' /\ MessageInv'
    BY DEF HotInv, TaskInv, MessageInv, Sending, IsNextTask
  <1>3. PlaceInv'
    BY DEF PlaceInv, HotRows, DepositRows, Sending, IsNextTask
  <1>4. CoverInv'
    BY DEF CoverInv, Waits, Lone
  <1> QED BY <1>1, <1>2, <1>3, <1>4

\* The chain does not touch the table or the processors.
LEMMA TableKept ==
  ASSUME IInv, UNCHANGED <<table, book, hot, deposit, history, restarts>>
  PROVE  RowInv' /\ HandedInv' /\ HotInv' /\ TaskInv' /\ PlaceInv'
PROOF
  <1> USE DEF IInv, table, hot, deposit, history, Saved
  <1>1. RowInv' /\ HandedInv'
    BY DEF RowInv, HandedInv
  <1>2. HotInv' /\ TaskInv'
    BY DEF HotInv, KindOf, TaskInv, Sending, IsNextTask
  <1>3. PlaceInv'
    BY DEF PlaceInv, HotRows, DepositRows, Sending, IsNextTask
  <1> QED BY <1>1, <1>2, <1>3

\* Messages on their way depend on the table's constant columns only.
LEMMA MessagesKept ==
  ASSUME IInv, UNCHANGED <<requests, from, master>>, batches' \subseteq batches, transfers' \subseteq transfers
  PROVE  MessageInv'
PROOF BY DEF IInv, MessageInv, KindOf, Saved

\* Balances that only grow, or lose what no lone request waits for, or lose
\* what belongs to a Jetton deposit, keep every message covered.
LEMMA CoverKept ==
  ASSUME IInv, UNCHANGED <<requests, from, master, jettonAmount, book>>,
         batch' \subseteq batch, executed \subseteq executed',
         jettons' \in [Wallet -> 0..MaxJettons],
         \A r \in Saved : r \notin executed' /\ Waits(r) =>
           jettons[WalletOf(r)] =< jettons'[WalletOf(r)] \/ WalletOf(r) \in book
  PROVE  CoverInv'
PROOF
  <1>1. \A r : WalletOf(r)' = WalletOf(r) /\ (Waits(r)' => Waits(r) /\ r \notin executed')
    BY DEF WalletOf, Waits, Lone, Saved
  <1>2. Saved' = Saved
    BY DEF Saved
  <1>3. ASSUME NEW r \in Saved, Waits(r)'
        PROVE  /\ jettons[WalletOf(r)] \in Nat /\ jettons'[WalletOf(r)] \in Nat
               /\ jettons[WalletOf(r)] =< jettons'[WalletOf(r)] \/ WalletOf(r) \in book
    <2>1. Waits(r) /\ master[r] \in Master
      BY <1>1, <1>3 DEF Waits
    <2>2. WalletOf(r) \in Wallet /\ jettons[WalletOf(r)] \in Nat
      BY <2>1, WalletType DEF IInv
    <2>3. jettons'[WalletOf(r)] \in 0..MaxJettons
      BY <2>2
    <2>4. jettons'[WalletOf(r)] \in Nat
      BY <2>3, BoundAssumption
    <2> QED BY <1>1, <1>3, <2>1, <2>2, <2>4
  <1>4. ASSUME NEW r \in Saved, Waits(r)'
        PROVE  /\ jettonAmount[r] =< jettons'[WalletOf(r)]
               /\ jettonAmount[r] = 0 \/ WalletOf(r) \notin book
    <2>1. /\ jettonAmount[r] =< jettons[WalletOf(r)]
          /\ jettonAmount[r] = 0 \/ WalletOf(r) \notin book
      BY <1>1, <1>4 DEF IInv, CoverInv
    <2>2. jettonAmount[r] \in 0..MaxJettons
      BY SavedType DEF IInv, TypeOK
    <2> QED BY <1>3, <1>4, <2>1, <2>2, BoundAssumption
  <1>5. ASSUME NEW m \in batch, Waits(m.request)'
        PROVE  m.amount =< jettons'[WalletOf(m.request)] /\ WalletOf(m.request) \notin book
    <2>1. m.request \in Saved /\ m.amount \in 0..MaxJettons
      BY DEF IInv, HotInv, TypeOK, Message
    <2>2. m.amount =< jettons[WalletOf(m.request)] /\ WalletOf(m.request) \notin book
      BY <1>1, <1>5 DEF IInv, CoverInv
    <2> QED BY <1>3, <1>5, <2>1, <2>2, BoundAssumption
  <1> QED BY <1>1, <1>2, <1>4, <1>5 DEF CoverInv

-----------------------------------------------------------------------------
(* The chain. *)

\* A step of the chain keeps the invariant if it keeps types and balances.
LEMMA ChainStep ==
  ASSUME IInv, UNCHANGED <<table, book, hot, deposit, history, restarts>>,
         batches' \subseteq batches, transfers' \subseteq transfers,
         executed \subseteq executed', executed' \subseteq Saved, ton' \subseteq Owner,
         jettons' \in [Wallet -> 0..MaxJettons],
         \A r \in Saved : r \notin executed' /\ Waits(r) =>
           jettons[WalletOf(r)] =< jettons'[WalletOf(r)] \/ WalletOf(r) \in book
  PROVE  IInv'
PROOF
  <1>1. RowInv' /\ HandedInv' /\ HotInv' /\ TaskInv' /\ PlaceInv'
    BY TableKept
  <1>2. MessageInv'
    BY MessagesKept DEF table
  <1>3. CoverInv'
    BY CoverKept DEF table, hot
  <1>4. TypeOK'
    BY DEF IInv, TypeOK, Saved, table, hot, deposit, history
  <1> QED BY <1>1, <1>2, <1>3, <1>4 DEF IInv

\* Balances that do not change.
LEMMA SameBalances ==
  ASSUME IInv
  PROVE  /\ jettons \in [Wallet -> 0..MaxJettons] /\ executed \subseteq Saved /\ ton \subseteq Owner
         /\ \A r \in Saved : Waits(r) => jettons[WalletOf(r)] =< jettons[WalletOf(r)]
PROOF
  <1>1. \A r \in Saved : Waits(r) => jettons[WalletOf(r)] \in Nat
    BY WalletType DEF IInv, Waits
  <1> QED BY <1>1 DEF IInv, TypeOK

LEMMA TonStepsIInv ==
  ASSUME IInv, NEW a \in Owner, PayTons(a) \/ SweepTons(a)
  PROVE  IInv'
PROOF
  <1>1. /\ UNCHANGED <<table, book, hot, deposit, history, restarts>>
        /\ UNCHANGED <<jettons, batches, transfers, executed>>
        /\ ton' \subseteq Owner
    BY SameBalances DEF PayTons, SweepTons
  <1> QED BY <1>1, SameBalances, ChainStep

LEMMA TransferExpiresIInv ==
  ASSUME IInv, NEW r \in transfers, TransferExpires(r)
  PROVE  IInv'
PROOF BY SameBalances, ChainStep DEF TransferExpires

LEMMA PayJettonsIInv ==
  ASSUME IInv, NEW w \in Wallet, PayJettons(w)
  PROVE  IInv'
PROOF
  <1>1. jettons[w] \in 0..MaxJettons /\ jettons[w] < MaxJettons /\ jettons' = [jettons EXCEPT ![w] = @ + 1]
    BY DEF PayJettons, IInv, TypeOK
  <1>2. jettons[w] \in Nat /\ jettons[w] + 1 \in 0..MaxJettons
    BY <1>1, BoundAssumption
  <1>3. jettons' \in [Wallet -> 0..MaxJettons]
    BY <1>1, <1>2 DEF IInv, TypeOK
  <1>4. \A r \in Saved : Waits(r) => jettons[WalletOf(r)] =< jettons'[WalletOf(r)]
    <2> SUFFICES ASSUME NEW r \in Saved, Waits(r) PROVE jettons[WalletOf(r)] =< jettons'[WalletOf(r)]
      OBVIOUS
    <2>1. WalletOf(r) \in Wallet /\ jettons[WalletOf(r)] \in Nat
      BY WalletType DEF IInv, Waits
    <2>2. jettons'[WalletOf(r)] = IF WalletOf(r) = w THEN jettons[w] + 1 ELSE jettons[WalletOf(r)]
      BY <1>1, <2>1 DEF IInv, TypeOK
    <2> QED BY <1>2, <2>1, <2>2
  <1> QED BY <1>3, <1>4, SameBalances, ChainStep DEF PayJettons

LEMMA SweepJettonsIInv ==
  ASSUME IInv, NEW w \in Wallet, SweepJettons(w)
  PROVE  IInv'
PROOF
  <1>1. w \in book /\ jettons' = [jettons EXCEPT ![w] = 0]
    BY DEF SweepJettons
  <1>2. jettons' \in [Wallet -> 0..MaxJettons]
    <2>1. 0 \in 0..MaxJettons
      BY BoundAssumption
    <2> QED BY <1>1, <2>1 DEF IInv, TypeOK
  <1>3. \A r \in Saved : Waits(r) => jettons[WalletOf(r)] =< jettons'[WalletOf(r)] \/ WalletOf(r) \in book
    <2> SUFFICES ASSUME NEW r \in Saved, Waits(r), WalletOf(r) \notin book
                 PROVE  jettons[WalletOf(r)] =< jettons'[WalletOf(r)]
      OBVIOUS
    <2>1. WalletOf(r) \in Wallet /\ WalletOf(r) # w
      BY <1>1, WalletType DEF IInv, Waits
    <2>2. jettons'[WalletOf(r)] = jettons[WalletOf(r)]
      BY <1>1, <2>1 DEF IInv, TypeOK
    <2> QED BY <2>2, SameBalances
  <1> QED BY <1>2, <1>3, SameBalances, ChainStep DEF SweepJettons

LEMMA ExecuteTransferIInv ==
  ASSUME IInv, NEW r \in transfers, ExecuteTransfer(r)
  PROVE  IInv'
PROOF
  <1>1. r \in Saved /\ from[r] \in Deposit /\ master[r] \in Master
    <2>1. r \in Saved /\ from[r] \in Deposit
      BY DEF IInv, TypeOK, MessageInv
    <2>2. master[r] \in Master \cup {NoMaster}
      BY <2>1, SavedType DEF IInv, TypeOK
    <2> QED BY <2>1, <2>2, SetAssumption DEF IInv, RowInv
  <1>2. /\ WalletOf(r) \in Wallet /\ jettons[WalletOf(r)] \in 0..MaxJettons
        /\ jettonAmount[r] \in 0..MaxJettons
    BY <1>1, SavedType, WalletType DEF IInv, TypeOK
  <1>3. \/ jettons' = jettons
        \/ jettons[WalletOf(r)] >= jettonAmount[r]
           /\ jettons' = [jettons EXCEPT ![WalletOf(r)] = jettons[WalletOf(r)] - jettonAmount[r]]
    BY DEF ExecuteTransfer, Take
  <1>4. jettons[WalletOf(r)] >= jettonAmount[r] => jettons[WalletOf(r)] - jettonAmount[r] \in 0..MaxJettons
    BY <1>2, BoundAssumption
  <1>5. jettons' \in [Wallet -> 0..MaxJettons]
    BY <1>2, <1>3, <1>4 DEF IInv, TypeOK
  <1>6. \A s \in Saved : s \notin executed' /\ Waits(s) => jettons[WalletOf(s)] =< jettons'[WalletOf(s)]
    <2> SUFFICES ASSUME NEW s \in Saved, s \notin executed', Waits(s)
                 PROVE  jettons[WalletOf(s)] =< jettons'[WalletOf(s)]
      OBVIOUS
    <2>1. s # r
      BY DEF ExecuteTransfer
    <2>2. WalletOf(s) # WalletOf(r)
      BY <1>1, <2>1 DEF Waits, Lone
    <2>3. WalletOf(s) \in Wallet
      BY WalletType DEF IInv, Waits
    <2>4. jettons'[WalletOf(s)] = jettons[WalletOf(s)]
      BY <1>3, <2>2, <2>3 DEF IInv, TypeOK
    <2> QED BY <2>4, SameBalances
  <1>7. ton' \subseteq Owner /\ executed' \subseteq Saved /\ executed \subseteq executed'
    BY <1>1, SameBalances DEF ExecuteTransfer
  <1>8. /\ UNCHANGED <<table, book, hot, deposit, history, restarts>>
        /\ batches' = batches /\ transfers' = transfers
    BY DEF ExecuteTransfer
  <1> QED BY <1>5, <1>6, <1>7, <1>8, ChainStep

LEMMA ExecuteBatchIInv ==
  ASSUME IInv, NEW b \in batches, NEW outs \in SUBSET b, ExecuteBatch(b, outs)
  PROVE  IInv'
PROOF
  <1> DEFINE moves == {m \in outs : m.kind = "Jettons"}
             mine(w) == CHOOSE m \in moves : WalletOf(m.request) = w
  <1>1. \A m \in outs : m \in Message /\ m.request \in Saved /\ m.kind = KindOf(m.request)
    BY DEF IInv, TypeOK, MessageInv
  <1>2. ASSUME NEW m \in moves, NEW n \in moves, WalletOf(m.request) = WalletOf(n.request)
        PROVE  m = n
    <2>1. from[m.request] = from[n.request]
      BY <1>2 DEF WalletOf
    <2> QED BY <2>1 DEF IInv, MessageInv
  <1>3. \A w \in Wallet : jettons'[w] = IF \E m \in moves : WalletOf(m.request) = w /\ jettons[w] >= m.amount
                                        THEN jettons[w] - mine(w).amount ELSE jettons[w]
    BY DEF ExecuteBatch
  <1>4. ASSUME NEW w \in Wallet PROVE jettons'[w] \in 0..MaxJettons
    <2>1. jettons[w] \in 0..MaxJettons
      BY DEF IInv, TypeOK
    <2>2. CASE \E m \in moves : WalletOf(m.request) = w /\ jettons[w] >= m.amount
      <3>1. PICK m \in moves : WalletOf(m.request) = w /\ jettons[w] >= m.amount
        BY <2>2
      <3>2. mine(w) \in moves /\ WalletOf(mine(w).request) = w
        BY <3>1
      <3>3. mine(w) = m
        BY <1>2, <3>1, <3>2
      <3>4. jettons'[w] = jettons[w] - m.amount
        BY <1>3, <2>2, <3>3
      <3>5. m.amount \in 0..MaxJettons
        BY <1>1 DEF Message
      <3> QED BY <2>1, <3>1, <3>4, <3>5, BoundAssumption
    <2>3. CASE ~ \E m \in moves : WalletOf(m.request) = w /\ jettons[w] >= m.amount
      BY <1>3, <2>1, <2>3
    <2> QED BY <2>2, <2>3
  <1>5. jettons' \in [Wallet -> 0..MaxJettons]
    <2>1. jettons' = [w \in Wallet |-> jettons'[w]]
      BY DEF ExecuteBatch
    <2> QED BY <1>4, <2>1
  <1>6. executed' = executed \cup {m.request : m \in moves}
    BY DEF ExecuteBatch
  <1>7. executed' \subseteq Saved /\ executed \subseteq executed'
    BY <1>1, <1>6, SameBalances
  <1>8. ton' \subseteq Owner
    <2>1. \A m \in outs : from[m.request] \in Owner
      BY <1>1 DEF IInv, RowInv
    <2> QED BY <2>1, SameBalances DEF ExecuteBatch
  <1>9. \A s \in Saved : s \notin executed' /\ Waits(s) => jettons[WalletOf(s)] =< jettons'[WalletOf(s)]
    <2> SUFFICES ASSUME NEW s \in Saved, s \notin executed', Waits(s)
                 PROVE  jettons[WalletOf(s)] =< jettons'[WalletOf(s)]
      OBVIOUS
    <2>1. \A m \in moves : m.request \in Saved /\ m.request # s
      BY <1>1, <1>6
    <2>2. \A m \in moves : WalletOf(m.request) # WalletOf(s)
      BY <2>1 DEF Waits, Lone
    <2>3. WalletOf(s) \in Wallet
      BY WalletType DEF IInv, Waits
    <2>4. jettons'[WalletOf(s)] = jettons[WalletOf(s)]
      BY <1>3, <2>2, <2>3
    <2> QED BY <2>4, SameBalances
  <1>10. /\ UNCHANGED <<table, book, hot, deposit, history, restarts>>
         /\ batches' \subseteq batches /\ transfers' = transfers
    BY DEF ExecuteBatch
  <1> QED BY <1>5, <1>7, <1>8, <1>9, <1>10, ChainStep

-----------------------------------------------------------------------------
(* The endpoints. *)

LEMMA SaveRequestIInv ==
  ASSUME IInv, NEW a \in Owner, NEW k \in Master \cup {NoMaster}, k = NoMaster => a \in Proxy,
         SaveServiceWithdrawalRequest(a, k)
  PROVE  IInv'
PROOF
  <1>0. PICK n : n = requests + 1
    OBVIOUS
  <1>1. /\ requests \in Nat /\ Saved \subseteq Request /\ n \notin Saved
        /\ requests' = n /\ requests < MaxRequests
    BY <1>0, SavedType DEF IInv, SaveServiceWithdrawalRequest
  <1>2. requests' \in 0..MaxRequests /\ n \in Request /\ Saved' = Saved \cup {n}
    BY <1>0, <1>1, BoundAssumption DEF Saved, Request
  <1>3. /\ from' = [from EXCEPT ![n] = a] /\ master' = [master EXCEPT ![n] = k]
        /\ UNCHANGED <<jettonAmount, filled, processed, book, hot, deposit, chain, history, restarts>>
    BY <1>1 DEF SaveServiceWithdrawalRequest
  <1>4. TypeOK'
    BY <1>2, <1>3 DEF IInv, TypeOK, hot, deposit, chain, history
  <1>5. \A r \in Saved : from'[r] = from[r] /\ master'[r] = master[r]
    BY <1>1, <1>3 DEF IInv, TypeOK
  <1>6. \A r \in Saved : WalletOf(r)' = WalletOf(r) /\ KindOf(r)' = KindOf(r)
    BY <1>5 DEF WalletOf, KindOf
  <1>7. from'[n] = a /\ master'[n] = k
    BY <1>2, <1>3 DEF IInv, TypeOK
  <1>8. RowInv' /\ HandedInv'
    BY <1>2, <1>3, <1>5, <1>7 DEF IInv, RowInv, HandedInv, history
  <1>9. HotInv'
    BY <1>2, <1>3, <1>5, <1>6 DEF IInv, TypeOK, HotInv, hot, history
  <1>10. \A r \in tasks : r \in Saved /\ (Sending(r)' <=> Sending(r))
    BY <1>3, <1>5 DEF IInv, TypeOK, Sending, IsNextTask, deposit
  <1>11. TaskInv'
    BY <1>3, <1>5, <1>10 DEF IInv, TaskInv, deposit, history
  <1>12. PlaceInv'
    <2>1. n \in HotRows'
      BY <1>1, <1>2, <1>3 DEF HotRows, IInv, TypeOK
    <2>2. \A r \in Saved : (r \in HotRows => r \in HotRows') /\ (r \in DepositRows => r \in DepositRows')
      BY <1>2, <1>3, <1>5 DEF HotRows, DepositRows
    <2>3. UNCHANGED <<updated, tasks, rejected, dropped, handed>>
      BY <1>3 DEF hot, deposit, history
    <2> QED BY <1>2, <1>5, <1>10, <2>1, <2>2, <2>3 DEF IInv, PlaceInv
  <1>13. MessageInv'
    BY <1>2, <1>3, <1>5, <1>6 DEF IInv, TypeOK, MessageInv, chain
  <1>14. CoverInv'
    <2>1. \A r \in Saved : Waits(r)' => Waits(r)
      BY <1>2, <1>3, <1>5, <1>6 DEF Waits, Lone, chain
    <2>2. jettonAmount[n] = 0
      BY <1>1, <1>2 DEF IInv, RowInv
    <2>3. Waits(n)' => jettons[WalletOf(n)'] \in 0..MaxJettons
      <3>1. Waits(n)' => WalletOf(n)' \in Wallet
        BY <1>7 DEF Waits, WalletOf, Wallet
      <3> QED BY <3>1 DEF IInv, TypeOK
    <2>4. Waits(n)' => jettonAmount[n] =< jettons[WalletOf(n)']
      BY <2>2, <2>3, BoundAssumption
    <2>5. UNCHANGED <<jettonAmount, jettons, batch, book>>
      BY <1>3 DEF chain, hot
    <2>6. \A r \in Saved' : Waits(r)' =>
            /\ jettonAmount'[r] =< jettons'[WalletOf(r)']
            /\ jettonAmount'[r] = 0 \/ WalletOf(r)' \notin book'
      BY <1>2, <1>6, <2>1, <2>2, <2>4, <2>5 DEF IInv, CoverInv
    <2>7. \A m \in batch : m.request \in Saved
      BY DEF IInv, HotInv
    <2> QED BY <1>6, <2>1, <2>5, <2>6, <2>7 DEF IInv, CoverInv
  <1> QED BY <1>4, <1>8, <1>9, <1>11, <1>12, <1>13, <1>14 DEF IInv

-----------------------------------------------------------------------------
(* The withdrawals processor. *)

LEMMA MessageType ==
  ASSUME IInv, NEW r \in Saved
  PROVE  LET m == BuildServiceWithdrawalMessage(r)
         IN  /\ m \in Message /\ m.request = r /\ m.kind = KindOf(r)
             /\ master[r] # NoMaster => m.amount = jettons[WalletOf(r)]
PROOF
  <1>1. r \in Request /\ (master[r] # NoMaster => master[r] \in Master)
    BY SavedType DEF IInv, TypeOK
  <1>2. (IF master[r] = NoMaster THEN 0 ELSE jettons[WalletOf(r)]) \in 0..MaxJettons
    <2>1. 0 \in 0..MaxJettons
      BY BoundAssumption
    <2>2. master[r] \in Master => jettons[WalletOf(r)] \in 0..MaxJettons
      BY WalletType DEF IInv
    <2> QED BY <1>1, <2>1, <2>2
  <1>3. KindOf(r) \in Kind
    BY DEF KindOf, Kind
  <1> QED BY <1>1, <1>2, <1>3 DEF BuildServiceWithdrawalMessage, Message, KindOf

\* The task that is being sent is not touched by the withdrawals processor.
LEMMA TasksKept ==
  ASSUME IInv, UNCHANGED <<from, deposit>>,
         \A r \in tasks : (r \in filled => r \in filled') /\ (r \in processed' <=> r \in processed)
                          /\ handed'[r] = handed[r]
  PROVE  TaskInv' /\ \A r : r \in tasks' /\ Sending(r)' <=> r \in tasks /\ Sending(r)
PROOF
  <1>1. \A r : Sending(r)' <=> Sending(r)
    BY DEF Sending, IsNextTask, deposit
  <1> QED BY <1>1 DEF IInv, TaskInv, deposit

LEMMA BuildIInv ==
  ASSUME IInv, NEW n \in 0..MaxRequests, BuildWithdrawalMessages(n)
  PROVE  IInv'
PROOF
  <1>1. PICK T \in GetServiceHotWithdrawalTasks :
          LET paid == {r \in T : from[r] \in Lowest(n, AddressesOf(T))}
              refused == {r \in paid : NothingToWithdraw(r)}
          IN /\ batch' = {BuildServiceWithdrawalMessage(r) : r \in paid \ refused}
             /\ processed' = processed \cup refused
             /\ rejected' = rejected \cup refused
    BY DEF BuildWithdrawalMessages
  <1> DEFINE paid == {r \in T : from[r] \in Lowest(n, AddressesOf(T))}
             refused == {r \in paid : NothingToWithdraw(r)}
             good == paid \ refused
  <1>2. /\ batch' = {BuildServiceWithdrawalMessage(r) : r \in good}
        /\ processed' = processed \cup refused /\ rejected' = rejected \cup refused
    BY <1>1
  <1>3. T \subseteq HotRows /\ \A r, s \in T : from[r] = from[s] => r = s
    BY DEF GetServiceHotWithdrawalTasks, DistinctOnAddress
  <1>4. /\ good \subseteq HotRows /\ refused \subseteq HotRows /\ good \cap refused = {}
        /\ \A r, s \in good : from[r] = from[s] => r = s
        /\ \A r \in good : ~NothingToWithdraw(r)
    BY <1>3
  <1> HIDE DEF paid, refused, good
  <1>5. /\ wpc = "idle" /\ batch = {} /\ updated = {}
        /\ wpc' = (IF batch' = {} THEN "idle" ELSE "update")
        /\ UNCHANGED <<requests, from, master, jettonAmount, filled, updated, book, deposit, chain, handed,
                       dropped, restarts>>
    BY DEF BuildWithdrawalMessages, IInv, HotInv
  <1>6. HotRows \subseteq Saved /\ HotRows \cap processed = {} /\ HotRows \cap filled = {}
    BY DEF HotRows
  <1>7. Saved' = Saved /\ \A r : WalletOf(r)' = WalletOf(r) /\ KindOf(r)' = KindOf(r)
    BY <1>5 DEF Saved, WalletOf, KindOf
  <1>8. ASSUME NEW m \in batch'
        PROVE  /\ m \in Message /\ m.request \in good /\ m.kind = KindOf(m.request)
               /\ m = BuildServiceWithdrawalMessage(m.request)
               /\ master[m.request] # NoMaster => m.amount = jettons[WalletOf(m.request)]
    <2>1. PICK r \in good : m = BuildServiceWithdrawalMessage(r)
      BY <1>2
    <2> QED BY <1>4, <1>6, <2>1, MessageType
  <1>9. TypeOK'
    <2>1. batch' \subseteq Message
      BY <1>8
    <2>2. processed' \subseteq Saved /\ rejected' \subseteq Saved /\ filled \cap processed' = {}
      BY <1>2, <1>4, <1>6 DEF IInv, TypeOK
    <2> QED BY <1>5, <1>7, <2>1, <2>2 DEF IInv, TypeOK, deposit, chain
  <1>10. RowInv' /\ HandedInv'
    BY <1>2, <1>5, <1>7 DEF IInv, RowInv, HandedInv
  <1>11. HotInv'
    <2>1. \A m \in batch' : m.request \in Saved /\ m.request \notin processed' /\ m.request \notin filled
      BY <1>2, <1>4, <1>6, <1>8
    <2>2. \A m, k \in batch' : from[m.request] = from[k.request] => m = k
      BY <1>4, <1>8
    <2> QED BY <1>5, <1>7, <1>8, <2>1, <2>2 DEF HotInv
  <1>12. TaskInv' /\ \A r : r \in tasks' /\ Sending(r)' <=> r \in tasks /\ Sending(r)
    <2>1. \A r \in tasks : r \in filled \/ r \in processed
      BY DEF IInv, TaskInv
    <2> QED BY <1>2, <1>4, <1>5, <1>6, <2>1, TasksKept
  <1>13. PlaceInv'
    BY <1>2, <1>5, <1>7, <1>12 DEF IInv, PlaceInv, HotRows, DepositRows
  <1>14. MessageInv'
    BY <1>5, MessagesKept DEF chain
  <1>15. CoverInv'
    <2>1. \A r : Waits(r)' <=> Waits(r)
      BY <1>5, <1>7 DEF Waits, Lone, chain
    <2>2. ASSUME NEW m \in batch', Waits(m.request)
          PROVE  m.amount =< jettons[WalletOf(m.request)] /\ WalletOf(m.request) \notin book
      <3>1. m.request \in Saved /\ master[m.request] \in Master /\ master[m.request] # NoMaster
        BY <1>4, <1>6, <1>8, <2>2, SetAssumption DEF Waits
      <3>2. m.amount = jettons[WalletOf(m.request)] /\ jettons[WalletOf(m.request)] \in Nat
        BY <1>8, <3>1, WalletType DEF IInv
      <3>3. WalletOf(m.request) \notin book
        BY <1>4, <1>8, <3>1 DEF NothingToWithdraw
      <3> QED BY <3>2, <3>3
    <2> QED BY <1>5, <1>7, <2>1, <2>2 DEF IInv, CoverInv, chain
  <1> QED BY <1>9, <1>10, <1>11, <1>12, <1>13, <1>14, <1>15 DEF IInv

LEMMA UpdateServiceIInv ==
  ASSUME IInv, NEW m \in batch, UpdateService(m)
  PROVE  IInv'
PROOF
  <1>0. PICK r : r = m.request
    OBVIOUS
  <1>1. /\ r \in Saved /\ r \notin updated /\ r \notin processed /\ r \notin filled
        /\ m.kind = KindOf(r) /\ m \in Message /\ wpc = "update"
    BY <1>0 DEF UpdateService, IInv, HotInv, TypeOK
  <1>2. /\ jettonAmount' = [jettonAmount EXCEPT ![r] = m.amount] /\ updated' = updated \cup {r}
        /\ UNCHANGED <<requests, from, master, wpc, batch, book, deposit, chain, history, restarts>>
    BY <1>0 DEF UpdateService, UpdateServiceWithdrawalRequest
  <1>3. \/ from[r] \in Deposit /\ filled' = filled \cup {r} /\ processed' = processed
        \/ from[r] \notin Deposit /\ filled' = filled /\ processed' = processed \cup {r}
    <2>1. m.kind = "filling" <=> from[r] \in Deposit
      BY <1>1 DEF KindOf
    <2> QED BY <1>0, <1>1, <2>1 DEF UpdateService, UpdateServiceWithdrawalRequest, SetFlags
  <1>4. Saved' = Saved /\ \A s : WalletOf(s)' = WalletOf(s) /\ KindOf(s)' = KindOf(s)
    BY <1>2 DEF Saved, WalletOf, KindOf
  <1>5. r \in Request /\ m.amount \in 0..MaxJettons
    BY <1>1, SavedType DEF IInv, Message
  <1>6. \A s \in Request : jettonAmount'[s] = IF s = r THEN m.amount ELSE jettonAmount[s]
    BY <1>2 DEF IInv, TypeOK
  <1>7. TypeOK'
    <2>1. jettonAmount' \in [Request -> 0..MaxJettons]
      BY <1>2, <1>5 DEF IInv, TypeOK
    <2>2. filled' \subseteq Saved /\ processed' \subseteq Saved /\ filled' \cap processed' = {} /\ updated' \subseteq Saved
      BY <1>1, <1>2, <1>3 DEF IInv, TypeOK
    <2> QED BY <1>2, <1>4, <2>1, <2>2 DEF IInv, TypeOK, deposit, chain, history
  <1>8. RowInv' /\ HandedInv'
    <2>1. RowInv'
      BY <1>1, <1>2, <1>4, <1>6 DEF IInv, RowInv
    <2>2. HandedInv'
      BY <1>2, <1>3 DEF IInv, HandedInv, history
    <2> QED BY <2>1, <2>2
  <1>9. HotInv'
    <2>1. \A k \in batch : k.request \notin updated' => k.request \notin processed' /\ k.request \notin filled'
      BY <1>2, <1>3 DEF IInv, HotInv
    <2>2. handed[r] = 0
      BY <1>1, <1>5 DEF IInv, HandedInv
    <2>3. \A s \in updated' : /\ \E k \in batch : k.request = s
                              /\ from[s] \notin Deposit => s \in processed' /\ handed[s] = 0
      BY <1>0, <1>2, <1>3, <2>2 DEF IInv, HotInv
    <2>4. \A k, l \in batch : from[k.request] = from[l.request] => k = l
      BY DEF IInv, HotInv
    <2>5. \A k \in batch : k.request \in Saved' /\ k.kind = KindOf(k.request)
      BY <1>4 DEF IInv, HotInv
    <2> QED BY <1>1, <1>2, <1>4, <2>1, <2>3, <2>4, <2>5 DEF HotInv, history
  <1>10. TaskInv' /\ \A s : s \in tasks' /\ Sending(s)' <=> s \in tasks /\ Sending(s)
    <2>1. \A s \in tasks : s # r
      BY <1>1 DEF IInv, TaskInv
    <2> QED BY <1>2, <1>3, <2>1, TasksKept DEF history
  <1>11. PlaceInv'
    <2>1. r \in DepositRows' \/ (r \in updated' /\ from'[r] \notin Deposit)
      BY <1>1, <1>2, <1>3, <1>4 DEF DepositRows
    <2>2. \A s \in Saved \ {r} : (s \in HotRows => s \in HotRows') /\ (s \in DepositRows => s \in DepositRows')
      BY <1>2, <1>3, <1>4 DEF HotRows, DepositRows
    <2> QED BY <1>2, <1>4, <1>10, <2>1, <2>2 DEF IInv, PlaceInv, history
  <1>12. MessageInv'
    BY <1>2, MessagesKept DEF chain
  <1>13. CoverInv'
    <2>1. \A s : Waits(s)' <=> Waits(s)
      BY <1>2, <1>4 DEF Waits, Lone, chain
    <2>2. UNCHANGED <<jettons, book, batch>>
      BY <1>2 DEF chain
    <2>3. Waits(r) => m.amount =< jettons[WalletOf(r)] /\ WalletOf(r) \notin book
      BY <1>0 DEF IInv, CoverInv
    <2>4. \A s \in Saved : Waits(s) =>
            /\ jettonAmount'[s] =< jettons[WalletOf(s)]
            /\ jettonAmount'[s] = 0 \/ WalletOf(s) \notin book
      BY <1>6, <2>3, SavedType DEF IInv, CoverInv
    <2> QED BY <1>4, <2>1, <2>2, <2>4 DEF IInv, CoverInv
  <1> QED BY <1>7, <1>8, <1>9, <1>10, <1>11, <1>12, <1>13 DEF IInv

\* Handing a set of requests over that are marked and were not handed over.
LEMMA HandedOver ==
  ASSUME IInv, NEW R \in SUBSET Request, handed' = Withdrawn(R), processed' = processed,
         \A r \in R : r \in processed /\ handed[r] = 0
  PROVE  /\ handed' \in [Request -> Nat] /\ HandedInv'
         /\ \A r \in Request : handed'[r] = IF r \in R THEN 1 ELSE handed[r]
PROOF
  <1>1. \A r \in Request : handed'[r] = IF r \in R THEN handed[r] + 1 ELSE handed[r]
    BY DEF Withdrawn
  <1>2. \A r \in Request : handed'[r] = IF r \in R THEN 1 ELSE handed[r]
    <2> SUFFICES ASSUME NEW r \in Request PROVE handed'[r] = IF r \in R THEN 1 ELSE handed[r]
      OBVIOUS
    <2>1. CASE r \in R
      <3>1. handed[r] = 0 /\ handed'[r] = handed[r] + 1
        BY <1>1, <2>1
      <3> QED BY <2>1, <3>1
    <2>2. CASE r \notin R
      BY <1>1, <2>2
    <2> QED BY <2>1, <2>2
  <1>3. \A r \in Request : handed'[r] \in Nat
    BY <1>2 DEF IInv, TypeOK
  <1>4. handed' = [r \in Request |-> handed'[r]]
    BY DEF Withdrawn
  <1>5. HandedInv'
    BY <1>2 DEF IInv, HandedInv
  <1> QED BY <1>2, <1>3, <1>4, <1>5

\* What a step keeps that leaves the columns from, master and amount alone.
LEMMA CoverKeptByProcessors ==
  ASSUME IInv, UNCHANGED <<requests, from, master, jettonAmount, book, jettons, executed>>, batch' \subseteq batch
  PROVE  RowInv' /\ CoverInv' /\ Saved' = Saved /\ \A r : KindOf(r)' = KindOf(r)
PROOF
  <1>1. CoverInv'
    BY SameBalances, CoverKept
  <1> QED BY <1>1 DEF IInv, RowInv, Saved, KindOf

LEMMA SendExternalMessageIInv ==
  ASSUME IInv, SendExternalMessage
  PROVE  IInv'
PROOF
  <1> DEFINE R == {m.request : m \in {n \in batch : n.kind # "filling"}}
  <1>1. /\ updated = {m.request : m \in batch} /\ handed' = Withdrawn(R) /\ batches' = batches \cup {batch}
        /\ wpc' = "idle" /\ batch' = {} /\ updated' = {}
        /\ UNCHANGED <<table, book, deposit, ton, jettons, transfers, executed, rejected, dropped, restarts>>
    BY DEF SendExternalMessage
  <1>2. \A r \in R : r \in updated /\ from[r] \notin Deposit /\ r \in Request
    <2> SUFFICES ASSUME NEW m \in batch, m.kind # "filling"
                 PROVE  m.request \in updated /\ from[m.request] \notin Deposit /\ m.request \in Request
      OBVIOUS
    <2>1. m.request \in updated /\ m.request \in Saved /\ m.kind = KindOf(m.request)
      BY <1>1 DEF IInv, HotInv
    <2> QED BY <2>1, SavedType DEF IInv, KindOf
  <1>3. \A r \in updated : from[r] \notin Deposit => r \in R
    BY <1>1 DEF IInv, HotInv, KindOf
  <1> HIDE DEF R
  <1>4. \A r \in R : r \in processed /\ handed[r] = 0
    BY <1>2 DEF IInv, HotInv
  <1>5. /\ handed' \in [Request -> Nat] /\ HandedInv'
        /\ \A r \in Request : handed'[r] = IF r \in R THEN 1 ELSE handed[r]
    BY <1>1, <1>2, <1>4, HandedOver DEF table
  <1>6. RowInv' /\ CoverInv' /\ Saved' = Saved /\ \A r : KindOf(r)' = KindOf(r)
    BY <1>1, CoverKeptByProcessors DEF table
  <1>7. TypeOK'
    BY <1>1, <1>5, <1>6 DEF IInv, TypeOK, table, deposit
  <1>8. HotInv'
    BY <1>1 DEF HotInv
  <1>9. TaskInv' /\ \A s : s \in tasks' /\ Sending(s)' <=> s \in tasks /\ Sending(s)
    <2>1. \A s \in tasks : s \notin R /\ s \in Request
      BY <1>2, SavedType DEF IInv, TaskInv, TypeOK
    <2> QED BY <1>1, <1>5, <2>1, TasksKept DEF table
  <1>10. PlaceInv'
    <2> SUFFICES ASSUME NEW r \in Saved
                 PROVE  \/ r \in HotRows \cup DepositRows \cup rejected \cup dropped
                        \/ handed'[r] = 1
                        \/ r \in tasks' /\ Sending(r)'
      BY <1>1, <1>6 DEF PlaceInv, HotRows, DepositRows, table
    <2>1. r \in Request
      BY SavedType DEF IInv
    <2> QED BY <1>3, <1>5, <1>9, <2>1 DEF IInv, PlaceInv
  <1>11. MessageInv'
    <2>1. \A m, n \in batch : from[m.request] = from[n.request] => m = n
      BY DEF IInv, HotInv
    <2>2. \A m \in batch : m.request \in Saved /\ m.kind = KindOf(m.request)
      BY DEF IInv, HotInv
    <2> QED BY <1>1, <1>6, <2>1, <2>2 DEF IInv, MessageInv, table
  <1> QED BY <1>5, <1>6, <1>7, <1>8, <1>9, <1>10, <1>11 DEF IInv

-----------------------------------------------------------------------------
(* The processor of TON deposits. *)

\* A step that only moves the list of tasks.
LEMMA TaskListStep ==
  ASSUME IInv, UNCHANGED <<table, book, hot, chain, history, restarts>>,
         dpc' \in {"idle", "check"}, tasks' \subseteq DepositRows,
         dpc' = "idle" => tasks' = {}, dpc # "send",
         \A r, s \in tasks' : from[r] = from[s] => r = s
  PROVE  IInv'
PROOF
  <1>1. RowInv' /\ CoverInv' /\ Saved' = Saved /\ \A r : KindOf(r)' = KindOf(r)
    BY CoverKeptByProcessors DEF table, hot, chain
  <1>2. HandedInv' /\ HotInv' /\ MessageInv'
    BY <1>1 DEF IInv, HandedInv, HotInv, MessageInv, table, hot, chain, history
  <1>3. TypeOK'
    BY <1>1 DEF IInv, TypeOK, DepositRows, table, hot, chain, history
  <1>4. TaskInv'
    BY DEF TaskInv, Sending, DepositRows, table
  <1>5. PlaceInv'
    BY <1>1 DEF IInv, PlaceInv, Sending, HotRows, DepositRows, table, hot, history
  <1> QED BY <1>1, <1>2, <1>3, <1>4, <1>5 DEF IInv

LEMMA GetTasksIInv ==
  ASSUME IInv, GetTasks
  PROVE  IInv'
PROOF
  <1>1. /\ dpc = "idle" /\ dpc' = "check"
        /\ UNCHANGED <<table, book, hot, chain, history, restarts>>
    BY DEF GetTasks
  <1>2. tasks' \subseteq DepositRows /\ \A r, s \in tasks' : from[r] = from[s] => r = s
    BY DEF GetTasks, GetServiceDepositWithdrawalTasks, DistinctOnAddress
  <1> QED BY <1>1, <1>2, TaskListStep

\* While no task is being sent the tasks are rows of the query.
LEMMA TasksAreRows ==
  ASSUME IInv, NEW r \in tasks, ~Sending(r)
  PROVE  r \in DepositRows
PROOF BY DEF IInv, TypeOK, TaskInv, DepositRows

LEMMA SkipTaskIInv ==
  ASSUME IInv, NEW r \in tasks, SkipTask(r)
  PROVE  IInv'
PROOF
  <1>1. /\ dpc = "check" /\ tasks' = tasks \ {r} /\ dpc' = (IF tasks' = {} THEN "idle" ELSE "check")
        /\ UNCHANGED <<table, book, hot, chain, history, restarts>>
    BY DEF SkipTask
  <1>2. tasks' \subseteq DepositRows
    BY <1>1, TasksAreRows DEF Sending
  <1>3. \A s, t \in tasks' : from[s] = from[t] => s = t
    BY <1>1 DEF IInv, TaskInv
  <1> QED BY <1>1, <1>2, <1>3, TaskListStep

LEMMA UpdateTaskIInv ==
  ASSUME IInv, NEW r \in tasks, UpdateTask(r)
  PROVE  IInv'
PROOF
  <1>1. /\ dpc = "check" /\ dpc' = "send" /\ tasks' = tasks /\ IsNextTask(r)
        /\ processed' = processed \cup {r} /\ filled' = filled \ {r}
        /\ UNCHANGED <<requests, from, master, book, hot, chain, history, restarts>>
    BY DEF UpdateTask, UpdateServiceWithdrawalRequest, SetFlags
  <1>2. r \in Saved /\ r \in Request /\ from[r] \in Deposit /\ r \in filled /\ r \notin processed
    BY <1>1, SavedType DEF IInv, TypeOK, TaskInv, Sending
  <1>3. jettonAmount' = jettonAmount
    BY <1>2 DEF UpdateTask, UpdateServiceWithdrawalRequest, IInv, TypeOK
  <1>4. RowInv' /\ CoverInv' /\ Saved' = Saved /\ \A s : KindOf(s)' = KindOf(s)
    BY <1>1, <1>3, CoverKeptByProcessors DEF hot, chain
  <1>5. handed[r] = 0 /\ HandedInv'
    BY <1>1, <1>2 DEF IInv, HandedInv, history
  <1>6. TypeOK'
    BY <1>1, <1>2, <1>3, <1>4 DEF IInv, TypeOK, hot, chain, history
  <1>7. HotInv'
    <2>1. \A m \in batch : m.request # r \/ m.request \in updated
      BY <1>2 DEF IInv, HotInv
    <2>2. \A m \in batch : m.request \notin updated => m.request \notin processed' /\ m.request \notin filled'
      BY <1>1, <2>1 DEF IInv, HotInv
    <2>3. \A s \in updated : from[s] \notin Deposit => s \in processed' /\ handed[s] = 0
      BY <1>1 DEF IInv, HotInv
    <2> QED BY <1>1, <1>4, <2>2, <2>3 DEF IInv, HotInv, hot, history
  <1>8. \A s : IsNextTask(s)' <=> IsNextTask(s)
    BY <1>1 DEF IsNextTask
  <1>9. \A s : Sending(s)' <=> s = r
    BY <1>1, <1>8, OneNextTask DEF IInv, Sending
  <1>10. TaskInv'
    <2>1. \A s \in tasks \ {r} : s \in filled' /\ s \notin processed'
      BY <1>1 DEF IInv, TaskInv, Sending
    <2>2. UNCHANGED handed
      BY <1>1 DEF history
    <2>3. \A s \in tasks : from[s] \in Deposit
      BY DEF IInv, TaskInv
    <2>4. \A s, t \in tasks : from[s] = from[t] => s = t
      BY DEF IInv, TaskInv
    <2> QED BY <1>1, <1>5, <1>9, <2>1, <2>2, <2>3, <2>4 DEF TaskInv
  <1>11. PlaceInv'
    <2>1. \A s \in Saved \ {r} : (s \in HotRows => s \in HotRows') /\ (s \in DepositRows => s \in DepositRows')
      BY <1>1, <1>4 DEF HotRows, DepositRows
    <2>2. \A s : ~Sending(s)
      BY <1>1 DEF Sending
    <2> QED BY <1>1, <1>4, <1>9, <2>1, <2>2 DEF IInv, PlaceInv, hot, history
  <1>12. MessageInv'
    BY <1>1, MessagesKept DEF chain
  <1> QED BY <1>4, <1>5, <1>6, <1>7, <1>10, <1>11, <1>12 DEF IInv

LEMMA WithdrawJettonsIInv ==
  ASSUME IInv, NEW r \in tasks, WithdrawJettons(r)
  PROVE  IInv'
PROOF
  <1>1. /\ dpc = "send" /\ IsNextTask(r) /\ transfers' = transfers \cup {r} /\ handed' = Withdrawn({r})
        /\ tasks' = tasks \ {r} /\ dpc' = (IF tasks' = {} THEN "idle" ELSE "check")
        /\ UNCHANGED <<table, book, hot, ton, jettons, batches, executed, rejected, dropped, restarts>>
    BY DEF WithdrawJettons
  <1>2. r \in Saved /\ r \in Request /\ from[r] \in Deposit /\ r \in processed /\ handed[r] = 0
    BY <1>1, SavedType DEF IInv, TypeOK, TaskInv, Sending
  <1>3. /\ handed' \in [Request -> Nat] /\ HandedInv'
        /\ \A s \in Request : handed'[s] = IF s = r THEN 1 ELSE handed[s]
    <2>1. {r} \in SUBSET Request /\ \A s \in {r} : s \in processed /\ handed[s] = 0
      BY <1>2
    <2>2. processed' = processed
      BY <1>1 DEF table
    <2> QED BY <1>1, <2>1, <2>2, HandedOver
  <1>4. RowInv' /\ CoverInv' /\ Saved' = Saved /\ \A s : KindOf(s)' = KindOf(s)
    BY <1>1, CoverKeptByProcessors DEF table, hot
  <1>5. TypeOK'
    BY <1>1, <1>2, <1>3, <1>4 DEF IInv, TypeOK, table, hot
  <1>6. HotInv'
    <2>1. \A s \in updated : from[s] \notin Deposit => handed'[s] = handed[s]
      BY <1>2, <1>3, SavedType DEF IInv, TypeOK
    <2> QED BY <1>1, <1>4, <2>1 DEF IInv, HotInv, table, hot
  <1>7. \A s \in tasks : Sending(s) <=> s = r
    BY <1>1, OneNextTask DEF IInv, Sending
  <1>8. TaskInv'
    BY <1>1, <1>7 DEF IInv, TaskInv, Sending, table
  <1>9. PlaceInv'
    <2> SUFFICES ASSUME NEW s \in Saved
                 PROVE  \/ s \in HotRows \cup DepositRows \cup rejected \cup dropped
                        \/ handed'[s] = 1
                        \/ s \in updated /\ from[s] \notin Deposit
      BY <1>1, <1>4 DEF PlaceInv, HotRows, DepositRows, table, hot
    <2>1. s \in Request
      BY SavedType DEF IInv
    <2> QED BY <1>3, <1>7, <2>1 DEF IInv, PlaceInv
  <1>10. MessageInv'
    BY <1>1, <1>2, <1>4 DEF IInv, MessageInv, table
  <1> QED BY <1>3, <1>4, <1>5, <1>6, <1>8, <1>9, <1>10 DEF IInv

LEMMA RestartIInv ==
  ASSUME IInv, Restart
  PROVE  IInv'
PROOF
  <1>1. /\ dropped' = dropped \cup updated \cup (IF dpc = "send" THEN {r \in tasks : IsNextTask(r)} ELSE {})
        /\ wpc' = "idle" /\ batch' = {} /\ updated' = {} /\ dpc' = "idle" /\ tasks' = {}
        /\ UNCHANGED <<table, book, chain, handed, rejected>>
    BY DEF Restart
  <1>2. RowInv' /\ CoverInv' /\ Saved' = Saved /\ \A r : KindOf(r)' = KindOf(r)
    BY <1>1, CoverKeptByProcessors DEF table, chain
  <1>3. restarts' \in 0..MaxRestarts
    <2>1. restarts \in 0..MaxRestarts /\ restarts < MaxRestarts /\ restarts' = restarts + 1
      BY DEF Restart, IInv, TypeOK
    <2> QED BY <2>1, BoundAssumption
  <1>4. dropped \subseteq dropped' /\ updated \subseteq dropped' /\ dropped' \subseteq Saved
        /\ \A r \in tasks : Sending(r) => r \in dropped'
    BY <1>1 DEF IInv, TypeOK, Sending
  <1>5. TypeOK'
    BY <1>1, <1>2, <1>3, <1>4 DEF IInv, TypeOK, table, chain
  <1>6. HandedInv' /\ HotInv' /\ TaskInv'
    BY <1>1 DEF IInv, HandedInv, HotInv, TaskInv, table
  <1>7. PlaceInv'
    BY <1>1, <1>2, <1>4 DEF IInv, PlaceInv, HotRows, DepositRows, table
  <1>8. MessageInv'
    BY <1>1, MessagesKept DEF table, chain
  <1> QED BY <1>2, <1>5, <1>6, <1>7, <1>8 DEF IInv

-----------------------------------------------------------------------------
(* The theorems. *)

LEMMA NextIInv ==
  ASSUME IInv, [Next]_vars
  PROVE  IInv'
PROOF
  <1>1. ASSUME NEW a \in Owner, ServiceTonWithdrawal(a) PROVE IInv'
    BY <1>1, SaveRequestIInv DEF ServiceTonWithdrawal
  <1>2. ASSUME NEW a \in Owner, NEW m \in Master, ServiceJettonWithdrawal(a, m) PROVE IInv'
    BY <1>2, SaveRequestIInv, SetAssumption DEF ServiceJettonWithdrawal
  <1>3. ASSUME NEW n \in 0..MaxRequests, BuildWithdrawalMessages(n) PROVE IInv'
    BY <1>3, BuildIInv
  <1>4. ASSUME NEW m \in batch, UpdateService(m) PROVE IInv'
    BY <1>4, UpdateServiceIInv
  <1>5. CASE SendExternalMessage \/ GetTasks \/ Restart
    BY <1>5, SendExternalMessageIInv, GetTasksIInv, RestartIInv
  <1>6. ASSUME NEW r \in tasks, SkipTask(r) \/ UpdateTask(r) \/ WithdrawJettons(r) PROVE IInv'
    BY <1>6, SkipTaskIInv, UpdateTaskIInv, WithdrawJettonsIInv
  <1>7. ASSUME NEW b \in batches, NEW outs \in SUBSET b, ExecuteBatch(b, outs) PROVE IInv'
    BY <1>7, ExecuteBatchIInv
  <1>8. ASSUME NEW r \in transfers, ExecuteTransfer(r) \/ TransferExpires(r) PROVE IInv'
    BY <1>8, ExecuteTransferIInv, TransferExpiresIInv
  <1>9. ASSUME NEW a \in Owner, PayTons(a) \/ SweepTons(a) PROVE IInv'
    BY <1>9, TonStepsIInv
  <1>10. ASSUME NEW w \in Wallet, PayJettons(w) \/ SweepJettons(w) PROVE IInv'
    BY <1>10, PayJettonsIInv, SweepJettonsIInv
  <1>11. CASE UNCHANGED vars
    BY <1>11, StutterIInv
  <1>12. Deposit \subseteq Owner
    BY DEF Owner
  <1> QED BY <1>1, <1>2, <1>3, <1>4, <1>5, <1>6, <1>7, <1>8, <1>9, <1>10, <1>11, <1>12 DEF Next

\* The inductive invariant holds in every state of the two processors.
THEOREM Invariance == Spec => []IInv
PROOF
  <1>1. Init => IInv
    BY InitIInv
  <1>2. IInv /\ [Next]_vars => IInv'
    BY NextIInv
  <1> QED BY <1>1, <1>2, PTL DEF Spec

\* The table, the processors' locals and the chain stay within their types,
\* and the flags filled and processed of a row are never both set.
THEOREM TypeCorrect == Spec => []TypeOK
PROOF
  <1>1. IInv => TypeOK
    BY DEF IInv
  <1> QED BY <1>1, Invariance, PTL

\* A request is marked before its message is handed over, so no interleaving
\* of the two processors and no restart withdraws it a second time.
THEOREM NeverTwice == Spec => []WithdrawnAtMostOnce
PROOF
  <1>1. IInv => WithdrawnAtMostOnce
    <2> SUFFICES ASSUME IInv, NEW r \in Request PROVE handed[r] =< 1
      BY DEF WithdrawnAtMostOnce
    <2>1. handed[r] \in {0, 1}
      BY DEF IInv, HandedInv
    <2> QED BY <2>1
  <1> QED BY <1>1, Invariance, PTL

\* A saved request is a task of one of the two queries, or is on its way
\* through a processor, or was handed over, refused, or dropped by a restart.
THEOREM NoRequestLost == Spec => []RequestsAccountedFor
PROOF
  <1>1. IInv => RequestsAccountedFor
    BY DEF IInv, PlaceInv, RequestsAccountedFor
  <1> QED BY <1>1, Invariance, PTL

\* The Jettons of a lone request, counted when its message was built, are
\* still in the wallet when the transfer is executed, two messages and any
\* number of payments and sweeps later.
THEOREM TransfersFindTheirJettons == Spec => []TransferCovered
PROOF
  <1>1. IInv => TransferCovered
    <2> SUFFICES ASSUME IInv, NEW r \in Saved \ executed, PendingTransfer(r),
                        \A s \in Saved \ {r} : WalletOf(s) # WalletOf(r)
                 PROVE  jettonAmount[r] =< jettons[WalletOf(r)]
      BY DEF TransferCovered
    <2>1. master[r] # NoMaster
      <3>1. CASE r \in transfers
        BY <3>1, SetAssumption DEF IInv, MessageInv, RowInv
      <3>2. CASE \E b \in batches : \E m \in b : m.request = r /\ m.kind = "Jettons"
        <4>1. KindOf(r) = "Jettons"
          BY <3>2 DEF IInv, MessageInv
        <4> QED BY <4>1 DEF KindOf
      <3> QED BY <3>1, <3>2 DEF PendingTransfer
    <2>2. master[r] \in Master
      BY <2>1, SavedType DEF IInv, TypeOK
    <2> QED BY <2>2 DEF IInv, CoverInv, Waits, Lone
  <1> QED BY <1>1, Invariance, PTL
=============================================================================

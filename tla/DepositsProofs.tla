--------------------------- MODULE DepositsProofs ---------------------------
(***************************************************************************)
(* Ids of deposits are free when they are saved, the scanner always knows  *)
(* the owner of a payment and misses no payment to an answered address,    *)
(* for every number of handlers, ids, blocks, payments and restarts, and   *)
(* wherever the addresses lie.                                             *)
(***************************************************************************)
EXTENDS Deposits, Aggregates, TLAPS

-----------------------------------------------------------------------------
(* The inductive invariant. *)

\* TypeOK but for fatal, which is never TRUE.
TypeInv ==
  /\ tonWallets \subseteq Address /\ jettonWallets \subseteq Address
  /\ book \subseteq Address /\ incomes \subseteq payments
  /\ mpc \in {"load", "hot", "jetton hot", "track", "run"} /\ mutex \subseteq Handler
  /\ hpc \in [Handler -> {"idle", "lock", "last", "save", "put owner", "put wallet", "reply"}]
  /\ cur \in [Handler -> Currency] /\ last \in [Handler -> Id]
  /\ spc \in {"next", "save", "notify"} /\ found \subseteq payments
  /\ cursor \in 0..head /\ lastSaved \in 0..head /\ start \in 0..head
  /\ head \in 0..MaxBlock /\ payments \subseteq Payment
  /\ known \subseteq Deposit \X {"new", "all"}
  /\ restarts \in 0..MaxRestarts

\* Nothing runs before the start-up is over.
StartInv ==
  mpc # "run" =>
    /\ mutex = {} /\ \A h \in Handler : hpc[h] = "idle"
    /\ spc = "next" /\ found = {}

\* One handler is past the lock.  The greatest id it has read is still that of
\* the table when it saves its own.
MutexInv ==
  /\ \A h \in Handler : h \in mutex <=> hpc[h] \notin {"idle", "lock"}
  /\ \A g, h \in mutex : g = h
  /\ \A h \in Handler : hpc[h] = "save" => \A w \in tonWallets : w[2] =< last[h]

\* What a handler has put into the tables and into the book so far.
HandlerInv ==
  \A h \in Handler :
    /\ hpc[h] \in {"put owner", "put wallet", "reply"} =>
         /\ NewDeposit(h) \in tonWallets \cup jettonWallets
         /\ InShard(NewDeposit(h))
         /\ cur[h] = "Jetton" => JettonOwner(last[h]) \in tonWallets
    /\ hpc[h] = "put owner" => cur[h] = "Jetton"
    /\ hpc[h] \in {"put wallet", "reply"} /\ cur[h] = "Jetton" => JettonOwner(last[h]) \in book
    /\ hpc[h] = "reply" => NewDeposit(h) \in book

\* A Jetton deposit never comes without its owner, and what a customer was
\* answered is in the tables and, once it is loaded, in the book.
BookInv ==
  /\ \A i \in Id : JettonDeposit(i) \in tonWallets \cup jettonWallets => JettonOwner(i) \in tonWallets
  /\ \A i \in Id : JettonDeposit(i) \in book => JettonOwner(i) \in book
  /\ \A d \in Deposit : <<d, "new">> \in known =>
       /\ d \in tonWallets \cup jettonWallets /\ InShard(d)
       /\ mpc # "load" => d \in book

\* The scanner has every payment of its block to an address in the book.
ScanInv ==
  /\ \A p \in found : p.to \in book
  /\ spc = "save" =>
       /\ cursor = lastSaved + 1 \/ (lastSaved = None /\ cursor = start + 1)
       /\ \A p \in payments : p.via = "new" /\ p.block = cursor => p \in found
  /\ mpc = "run" /\ spc # "save" =>
       cursor = lastSaved \/ (lastSaved = None /\ cursor = start)

PaymentInv ==
  \A p \in payments : p.block =< head /\ (p.via = "new" => <<p.to, "new">> \in known)

IInv ==
  /\ TypeInv /\ StartInv /\ MutexInv /\ HandlerInv /\ BookInv /\ ScanInv /\ PaymentInv
  /\ PaymentsRecorded /\ fatal = FALSE

-----------------------------------------------------------------------------
(* Lemmas about the operators. *)

LEMMA IdType ==
  Id \subseteq Nat /\ DefaultSubwallet \in Id /\ \A i \in Id : i \in 0..MaxId
PROOF BY IdAssumption DEF Id

\* Wallets of different kinds or ids have different addresses.
LEMMA Addresses ==
  ASSUME NEW i, NEW j
  PROVE  /\ JettonDeposit(i) # TonDeposit(j) /\ JettonDeposit(i) # JettonOwner(j)
         /\ JettonDeposit(i) # HotWallet /\ JettonDeposit(i) # JettonHotWallet
         /\ JettonDeposit(i) = JettonDeposit(j) => i = j
PROOF BY DEF JettonDeposit, TonDeposit, JettonOwner, HotWallet, JettonHotWallet

LEMMA AddressType ==
  ASSUME NEW i \in Id
  PROVE  /\ {TonDeposit(i), JettonOwner(i), JettonDeposit(i), HotWallet, JettonHotWallet} \subseteq Address
         /\ TonDeposit(i) \in Deposit /\ JettonDeposit(i) \in Deposit
PROOF BY DEF Address, Deposit, TonDeposits, JettonDeposits

\* Every wallet has an id, and every deposit is one of the two kinds.
LEMMA AddressId ==
  ASSUME NEW a \in Address
  PROVE  a[2] \in Id
PROOF
  <1>1. \/ \E i \in Id : a = TonDeposit(i) \/ a = JettonDeposit(i) \/ a = JettonOwner(i)
        \/ a = HotWallet \/ a = JettonHotWallet
    BY DEF Address, Deposit, TonDeposits, JettonDeposits
  <1>2. \E k, i : i \in Id /\ a = <<k, i>>
    BY <1>1, IdType DEF TonDeposit, JettonDeposit, JettonOwner, HotWallet, JettonHotWallet
  <1> QED BY <1>2

\* The id that a handler chooses is behind the greatest one it has read, is a
\* legal one and has its address in the service's shard.
LEMMA NewIdFacts ==
  ASSUME TypeInv, NEW h \in Handler, Candidates(h) # {}
  PROVE  /\ NewId(h) \in Id /\ last[h] < NewId(h)
         /\ cur[h] = "TON" => InShard(TonDeposit(NewId(h)))
         /\ cur[h] = "Jetton" => InShard(JettonDeposit(NewId(h)))
PROOF
  <1>1. last[h] \in Id /\ last[h] \in Nat /\ DefaultSubwallet \in Nat /\ MaxId \in Nat
    BY IdType, IdAssumption DEF TypeInv
  <1>2. Candidates(h) \in SUBSET Nat
    BY <1>1 DEF Candidates
  <1>3. NewId(h) \in Candidates(h)
    BY <1>2, MinOfNaturals DEF NewId
  <1> QED BY <1>1, <1>3 DEF Candidates, Id

-----------------------------------------------------------------------------
(* The initial state and the steps. *)

LEMMA InitIInv ==
  ASSUME Init
  PROVE  IInv
PROOF
  <1> USE IdAssumption DEF Init
  <1>1. TypeInv
    <2>1. hpc \in [Handler -> {"idle"}] /\ cur \in [Handler -> Currency] /\ last \in [Handler -> Id]
      BY IdType DEF Currency
    <2>2. cursor \in 0..head /\ lastSaved \in 0..head /\ start \in 0..head /\ head \in 0..MaxBlock
      BY DEF None
    <2> QED BY <2>1, <2>2 DEF TypeInv
  <1>2. StartInv /\ MutexInv /\ HandlerInv
    BY DEF StartInv, MutexInv, HandlerInv
  <1>3. BookInv /\ ScanInv /\ PaymentInv /\ PaymentsRecorded /\ fatal = FALSE
    BY DEF BookInv, ScanInv, PaymentInv, PaymentsRecorded
  <1> QED BY <1>1, <1>2, <1>3 DEF IInv

LEMMA StutterIInv ==
  ASSUME IInv, UNCHANGED vars
  PROVE  IInv'
PROOF
  <1> USE DEF IInv, vars, tables, api, scan, world
  <1>1. TypeInv' /\ StartInv' /\ MutexInv'
    BY DEF TypeInv, StartInv, MutexInv
  <1>2. HandlerInv' /\ BookInv'
    BY DEF HandlerInv, BookInv, NewDeposit
  <1>3. ScanInv' /\ PaymentInv' /\ PaymentsRecorded' /\ fatal' = FALSE
    BY DEF ScanInv, PaymentInv, PaymentsRecorded
  <1> QED BY <1>1, <1>2, <1>3

\* Before the goroutines run there is nothing to say about handlers.
LEMMA NoHandlers ==
  ASSUME \A h \in Handler : hpc'[h] = "idle", mutex' = {}
  PROVE  MutexInv' /\ HandlerInv'
PROOF BY DEF MutexInv, HandlerInv

LEMMA LoadAddressBookIInv ==
  ASSUME IInv, LoadAddressBook
  PROVE  IInv'
PROOF
  <1> USE DEF IInv, LoadAddressBook, tables, api, scan, world
  <1>1. TypeInv' /\ StartInv' /\ MutexInv' /\ HandlerInv'
    BY NoHandlers DEF TypeInv, StartInv
  <1>2. BookInv'
    BY DEF BookInv
  <1>3. ScanInv' /\ PaymentInv' /\ PaymentsRecorded' /\ fatal' = FALSE
    BY DEF ScanInv, StartInv, PaymentInv, PaymentsRecorded
  <1> QED BY <1>1, <1>2, <1>3

LEMMA InitTonHotWalletIInv ==
  ASSUME IInv, InitTonHotWallet
  PROVE  IInv'
PROOF
  <1> USE DEF IInv, InitTonHotWallet, api, scan, world
  <1>1. HotWallet \in Address
    BY AddressType, IdType
  <1>2. TypeInv' /\ StartInv' /\ MutexInv' /\ HandlerInv'
    BY <1>1, NoHandlers DEF TypeInv, StartInv
  <1>3. BookInv'
    BY Addresses DEF BookInv
  <1>4. ScanInv' /\ PaymentInv' /\ PaymentsRecorded' /\ fatal' = FALSE
    BY DEF ScanInv, StartInv, PaymentInv, PaymentsRecorded
  <1> QED BY <1>2, <1>3, <1>4

LEMMA InitJettonHotWalletIInv ==
  ASSUME IInv, InitJettonHotWallet
  PROVE  IInv'
PROOF
  <1> USE DEF IInv, InitJettonHotWallet, api, scan, world
  <1>1. JettonHotWallet \in Address
    BY AddressType, IdType
  <1>2. TypeInv' /\ StartInv' /\ MutexInv' /\ HandlerInv'
    BY <1>1, NoHandlers DEF TypeInv, StartInv
  <1>3. BookInv'
    BY Addresses DEF BookInv
  <1>4. ScanInv' /\ PaymentInv' /\ PaymentsRecorded' /\ fatal' = FALSE
    BY DEF ScanInv, StartInv, PaymentInv, PaymentsRecorded
  <1> QED BY <1>2, <1>3, <1>4

LEMMA StartServicesIInv ==
  ASSUME IInv, StartServices
  PROVE  IInv'
PROOF
  <1> USE DEF IInv, StartServices, tables, api, world
  <1>1. TypeInv' /\ StartInv'
    BY DEF TypeInv, StartInv
  <1>2. MutexInv' /\ HandlerInv' /\ BookInv'
    BY NoHandlers DEF StartInv, BookInv
  <1>3. ScanInv' /\ PaymentInv' /\ PaymentsRecorded' /\ fatal' = FALSE
    BY DEF ScanInv, StartInv, PaymentInv, PaymentsRecorded
  <1> QED BY <1>1, <1>2, <1>3

LEMMA ProcessEndsIInv ==
  ASSUME IInv, ProcessEnds, UNCHANGED <<tables, incomes, lastSaved, fatal, world, start>>,
         restarts' \in 0..MaxRestarts
  PROVE  IInv'
PROOF
  <1> USE DEF IInv, ProcessEnds, tables, world
  <1>1. TypeInv' /\ StartInv'
    <2>1. hpc' \in [Handler -> {"idle"}] /\ cur' \in [Handler -> Currency] /\ last' \in [Handler -> Id]
      BY IdType DEF Currency
    <2>2. head \in 0..MaxBlock /\ cursor' = 0
      BY DEF None, TypeInv
    <2>3. cursor' \in 0..head
      BY <2>2, IdAssumption
    <2> QED BY <2>1, <2>3 DEF TypeInv, StartInv
  <1>2. MutexInv' /\ HandlerInv' /\ BookInv'
    BY NoHandlers DEF BookInv
  <1>3. ScanInv' /\ PaymentInv' /\ PaymentsRecorded' /\ fatal' = FALSE
    BY DEF ScanInv, PaymentInv, PaymentsRecorded
  <1> QED BY <1>1, <1>2, <1>3

LEMMA RestartIInv ==
  ASSUME IInv, Restart
  PROVE  IInv'
PROOF
  <1>1. restarts \in 0..MaxRestarts /\ restarts < MaxRestarts /\ restarts' = restarts + 1
    BY DEF Restart, IInv, TypeInv
  <1>2. restarts' \in 0..MaxRestarts
    BY <1>1, IdAssumption
  <1> QED BY <1>2, ProcessEndsIInv DEF Restart

-----------------------------------------------------------------------------
(* The endpoints. *)

\* A step of a handler leaves the scanner alone and takes nothing away from
\* the book.
LEMMA ScannerKept ==
  ASSUME IInv, mpc = "run", book \subseteq book',
         UNCHANGED <<incomes, lastSaved, mpc, scan, fatal, restarts, world, start>>
  PROVE  StartInv' /\ ScanInv' /\ PaymentInv' /\ PaymentsRecorded' /\ fatal' = FALSE
PROOF
  <1> USE DEF IInv, scan, world
  <1>1. StartInv' /\ PaymentInv' /\ PaymentsRecorded' /\ fatal' = FALSE
    BY DEF StartInv, PaymentInv, PaymentsRecorded
  <1>2. ScanInv'
    BY DEF ScanInv
  <1> QED BY <1>1, <1>2

LEMMA HandlerRuns ==
  ASSUME IInv, NEW h \in Handler, hpc[h] # "idle"
  PROVE  mpc = "run"
PROOF BY DEF IInv, StartInv

LEMMA GetNewAddressIInv ==
  ASSUME IInv, NEW h \in Handler, NEW c \in Currency, GetNewAddress(h, c)
  PROVE  IInv'
PROOF
  <1> USE DEF GetNewAddress, Step
  <1>1. StartInv' /\ ScanInv' /\ PaymentInv' /\ PaymentsRecorded' /\ fatal' = FALSE
    BY ScannerKept
  <1> USE DEF IInv, tables, scan, world
  <1>2. TypeInv'
    BY DEF TypeInv
  <1>3. MutexInv'
    BY DEF MutexInv, TypeInv
  <1>4. HandlerInv' /\ BookInv'
    BY DEF HandlerInv, BookInv, TypeInv, NewDeposit
  <1> QED BY <1>1, <1>2, <1>3, <1>4

LEMMA LockIInv ==
  ASSUME IInv, NEW h \in Handler, Lock(h)
  PROVE  IInv'
PROOF
  <1> USE DEF Lock, Step
  <1>1. StartInv' /\ ScanInv' /\ PaymentInv' /\ PaymentsRecorded' /\ fatal' = FALSE
    BY ScannerKept, HandlerRuns
  <1> USE DEF IInv, tables, scan, world
  <1>2. TypeInv'
    BY DEF TypeInv
  <1>3. MutexInv'
    BY DEF MutexInv, TypeInv
  <1>4. HandlerInv' /\ BookInv'
    BY DEF HandlerInv, BookInv, TypeInv, NewDeposit
  <1> QED BY <1>1, <1>2, <1>3, <1>4

LEMMA GetLastSubwalletIDIInv ==
  ASSUME IInv, NEW h \in Handler, GetLastSubwalletID(h)
  PROVE  IInv'
PROOF
  <1> DEFINE Ids == {DefaultSubwallet} \cup {w[2] : w \in tonWallets}
  <1>1. StartInv' /\ ScanInv' /\ PaymentInv' /\ PaymentsRecorded' /\ fatal' = FALSE
    BY ScannerKept, HandlerRuns DEF GetLastSubwalletID, Step
  <1>2. Ids \in SUBSET Id
    BY AddressId, IdType DEF IInv, TypeInv
  <1>3. Ids \in SUBSET (0..MaxId) /\ MaxId \in Nat
    BY <1>2, IdType, IdAssumption
  <1>4. Max(Ids) \in Ids /\ \A x \in Ids : x =< Max(Ids)
    <2>1. Ids # {}
      OBVIOUS
    <2> HIDE DEF Ids
    <2> QED BY <1>3, <2>1, MaxOfBounded
  <1>5. Max(Ids) \in Id /\ \A w \in tonWallets : w[2] =< Max(Ids)
    BY <1>2, <1>4
  <1>6. last' = [last EXCEPT ![h] = Max(Ids)]
    BY DEF GetLastSubwalletID
  <1> HIDE DEF Ids
  <1> USE DEF IInv, GetLastSubwalletID, Step, tables, scan, world
  <1>7. TypeInv'
    BY <1>5, <1>6 DEF TypeInv
  <1>8. MutexInv'
    <2>1. \A g \in Handler : g \in mutex' <=> hpc'[g] \notin {"idle", "lock"}
      BY DEF MutexInv, TypeInv
    <2>2. \A g \in Handler : hpc'[g] = "save" => g = h
      BY DEF MutexInv, TypeInv
    <2>3. last'[h] = Max(Ids) /\ tonWallets' = tonWallets
      BY <1>6 DEF TypeInv
    <2>4. \A g \in Handler : hpc'[g] = "save" => \A w \in tonWallets' : w[2] =< last'[g]
      BY <1>5, <2>2, <2>3
    <2> QED BY <2>1, <2>4 DEF MutexInv
  <1>9. HandlerInv' /\ BookInv'
    BY <1>6 DEF HandlerInv, BookInv, TypeInv, NewDeposit
  <1> QED BY <1>1, <1>7, <1>8, <1>9

\* The end of a call keeps what concerns the handlers, whatever it has saved.
LEMMA EndCallKeeps ==
  ASSUME IInv, NEW h \in Handler, EndCall(h), h \in mutex,
         tonWallets \subseteq tonWallets', jettonWallets \subseteq jettonWallets', book' = book
  PROVE  /\ mutex' \subseteq Handler /\ cur' \in [Handler -> Currency] /\ last' \in [Handler -> Id]
         /\ hpc' \in [Handler -> {"idle", "lock", "last", "save", "put owner", "put wallet", "reply"}]
         /\ MutexInv' /\ HandlerInv'
PROOF
  <1> USE DEF IInv, EndCall, Step
  <1>1. /\ mutex' \subseteq Handler /\ cur' \in [Handler -> Currency] /\ last' \in [Handler -> Id]
        /\ hpc' \in [Handler -> {"idle", "lock", "last", "save", "put owner", "put wallet", "reply"}]
    BY IdType DEF TypeInv, Currency
  <1>2. mutex' = {} /\ \A g \in Handler : hpc'[g] \in {"idle", "lock"}
    BY DEF MutexInv, TypeInv
  <1>3. MutexInv' /\ HandlerInv'
    BY <1>2 DEF MutexInv, HandlerInv
  <1> QED BY <1>1, <1>3

LEMMA GenerateFailsIInv ==
  ASSUME IInv, NEW h \in Handler, GenerateFails(h)
  PROVE  IInv'
PROOF
  <1>1. StartInv' /\ ScanInv' /\ PaymentInv' /\ PaymentsRecorded' /\ fatal' = FALSE
    BY ScannerKept, HandlerRuns DEF GenerateFails
  <1>2. h \in mutex /\ EndCall(h)
    BY DEF IInv, MutexInv, GenerateFails
  <1> USE DEF GenerateFails, tables, scan, world
  <1>3. /\ mutex' \subseteq Handler /\ cur' \in [Handler -> Currency] /\ last' \in [Handler -> Id]
        /\ hpc' \in [Handler -> {"idle", "lock", "last", "save", "put owner", "put wallet", "reply"}]
        /\ MutexInv' /\ HandlerInv'
    BY <1>2, EndCallKeeps
  <1>4. TypeInv' /\ BookInv'
    BY <1>3 DEF IInv, TypeInv, BookInv
  <1> QED BY <1>1, <1>3, <1>4 DEF IInv

LEMMA SaveWalletIInv ==
  ASSUME IInv, NEW h \in Handler, SaveWallet(h)
  PROVE  IInv'
PROOF
  <1> DEFINE i == NewId(h)
             d == IF cur[h] = "TON" THEN TonDeposit(i) ELSE JettonDeposit(i)
  <1>1. StartInv' /\ ScanInv' /\ PaymentInv' /\ PaymentsRecorded' /\ fatal' = FALSE
    BY ScannerKept, HandlerRuns DEF SaveWallet
  <1>2. h \in mutex /\ hpc[h] = "save"
    BY DEF IInv, MutexInv, SaveWallet
  <1>3. i \in Id /\ InShard(d) /\ cur[h] \in {"TON", "Jetton"}
    BY NewIdFacts DEF IInv, TypeInv, SaveWallet, Currency
  <1>4. /\ tonWallets \subseteq tonWallets' /\ jettonWallets \subseteq jettonWallets'
        /\ tonWallets' \subseteq Address /\ jettonWallets' \subseteq Address
        /\ d \in tonWallets' \cup jettonWallets'
        /\ cur[h] = "Jetton" => JettonOwner(i) \in tonWallets'
        /\ UNCHANGED <<incomes, lastSaved, book, mpc, scan, fatal, restarts, world, start>>
    BY <1>3, AddressType DEF IInv, TypeInv, SaveWallet, SaveTonRow, SaveJettonRows
  <1>5. \A j \in Id : JettonDeposit(j) \in tonWallets' \cup jettonWallets' => JettonOwner(j) \in tonWallets'
    <2>1. \/ cur[h] = "TON" /\ tonWallets' = tonWallets \cup {TonDeposit(i)} /\ jettonWallets' = jettonWallets
          \/ /\ tonWallets' = tonWallets \cup {JettonOwner(i)}
             /\ jettonWallets' = jettonWallets \cup {JettonDeposit(i)}
      BY DEF SaveWallet, SaveTonRow, SaveJettonRows
    <2> HIDE DEF i
    <2>2. \A j \in Id : JettonDeposit(j) \in tonWallets \cup jettonWallets => JettonOwner(j) \in tonWallets
      BY DEF IInv, BookInv
    <2> SUFFICES ASSUME NEW j \in Id, JettonDeposit(j) \in tonWallets' \cup jettonWallets'
                 PROVE  JettonOwner(j) \in tonWallets'
      OBVIOUS
    <2>3. /\ JettonDeposit(j) # TonDeposit(i) /\ JettonDeposit(j) # JettonOwner(i)
          /\ JettonDeposit(j) = JettonDeposit(i) => j = i
      BY Addresses
    <2>4. JettonDeposit(j) \in tonWallets \cup jettonWallets \/ (j = i /\ JettonOwner(i) \in tonWallets')
      <3>1. CASE tonWallets' = tonWallets \cup {TonDeposit(i)} /\ jettonWallets' = jettonWallets
        BY <2>3, <3>1
      <3>2. CASE /\ tonWallets' = tonWallets \cup {JettonOwner(i)}
                 /\ jettonWallets' = jettonWallets \cup {JettonDeposit(i)}
        BY <2>3, <3>2
      <3> QED BY <2>1, <3>1, <3>2
    <2> QED BY <1>4, <2>2, <2>4
  <1>6. /\ mutex' \subseteq Handler /\ cur' \in [Handler -> Currency] /\ last' \in [Handler -> Id]
        /\ hpc' \in [Handler -> {"idle", "lock", "last", "save", "put owner", "put wallet", "reply"}]
        /\ MutexInv' /\ HandlerInv'
    <2>1. CASE EndCall(h)
      BY <1>2, <1>4, <2>1, EndCallKeeps
    <2>2. CASE /\ Step(h, IF cur[h] = "TON" THEN "put wallet" ELSE "put owner")
               /\ last' = [last EXCEPT ![h] = i]
               /\ UNCHANGED <<mutex, cur>>
      <3> HIDE DEF i, d
      <3>1. /\ mutex' \subseteq Handler /\ cur' \in [Handler -> Currency] /\ last' \in [Handler -> Id]
            /\ hpc' \in [Handler -> {"idle", "lock", "last", "save", "put owner", "put wallet", "reply"}]
        BY <1>3, <2>2 DEF IInv, TypeInv, Step
      <3>2. \A g \in Handler \ {h} : hpc'[g] = hpc[g] /\ hpc'[g] \in {"idle", "lock"}
        BY <1>2, <2>2 DEF IInv, TypeInv, MutexInv, Step
      <3>3. hpc'[h] = IF cur[h] = "TON" THEN "put wallet" ELSE "put owner"
        BY <2>2 DEF IInv, TypeInv, Step
      <3>4. MutexInv'
        BY <1>2, <2>2, <3>2, <3>3 DEF IInv, MutexInv
      <3>5. last'[h] = i /\ cur'[h] = cur[h] /\ NewDeposit(h)' = d
        BY <2>2 DEF IInv, TypeInv, NewDeposit, d
      <3>6. HandlerInv'
        BY <1>3, <1>4, <3>2, <3>3, <3>5 DEF HandlerInv
      <3> QED BY <3>1, <3>4, <3>6
    <2> QED BY <2>1, <2>2 DEF SaveWallet
  <1> HIDE DEF i, d
  <1>7. TypeInv'
    BY <1>4, <1>6 DEF IInv, TypeInv, scan, world
  <1>8. BookInv'
    BY <1>4, <1>5 DEF IInv, BookInv, world
  <1> QED BY <1>1, <1>6, <1>7, <1>8 DEF IInv

LEMMA PutAddressIInv ==
  ASSUME IInv, NEW h \in Handler, PutAddress(h)
  PROVE  IInv'
PROOF
  <1>1. StartInv' /\ ScanInv' /\ PaymentInv' /\ PaymentsRecorded' /\ fatal' = FALSE
    BY ScannerKept, HandlerRuns DEF PutAddress
  <1>2. h \in mutex /\ last[h] \in Id /\ cur[h] \in {"TON", "Jetton"} /\ hpc[h] \in {"put owner", "put wallet"}
    BY DEF IInv, MutexInv, TypeInv, PutAddress, Currency
  <1>3. \A g \in Handler \ {h} : hpc'[g] = hpc[g] /\ hpc'[g] \in {"idle", "lock"}
    BY <1>2 DEF IInv, TypeInv, MutexInv, PutAddress, Step
  <1>4. hpc'[h] = IF hpc[h] = "put owner" THEN "put wallet" ELSE "reply"
    BY DEF IInv, TypeInv, PutAddress, Step
  <1>5. NewEntry(h) \in Address /\ book' = book \cup {NewEntry(h)}
    BY <1>2, AddressType DEF NewEntry, PutAddress
  <1>6. TypeInv'
    BY <1>5 DEF IInv, TypeInv, PutAddress, Step, tables, scan, world
  <1>7. MutexInv'
    BY <1>2, <1>3, <1>4 DEF IInv, MutexInv, PutAddress, tables
  <1>8. HandlerInv'
    <2>1. NewDeposit(h)' = NewDeposit(h) /\ UNCHANGED <<cur, last, tonWallets, jettonWallets>>
      BY DEF NewDeposit, PutAddress, tables
    <2>2. hpc[h] = "put owner" => JettonOwner(last[h]) \in book'
      BY <1>5 DEF NewEntry
    <2>3. hpc[h] = "put wallet" => NewDeposit(h) \in book'
      BY <1>5 DEF NewEntry, NewDeposit
    <2>4. /\ NewDeposit(h) \in tonWallets \cup jettonWallets /\ InShard(NewDeposit(h))
          /\ cur[h] = "Jetton" => JettonOwner(last[h]) \in tonWallets
          /\ hpc[h] = "put owner" => cur[h] = "Jetton"
          /\ hpc[h] = "put wallet" /\ cur[h] = "Jetton" => JettonOwner(last[h]) \in book
      BY <1>2 DEF IInv, HandlerInv
    <2>5. \A g \in Handler : g = h \/ hpc'[g] \in {"idle", "lock"}
      BY <1>3
    <2> QED BY <1>2, <1>4, <1>5, <2>1, <2>2, <2>3, <2>4, <2>5 DEF HandlerInv
  <1>9. BookInv'
    <2>1. \A j \in Id : JettonDeposit(j) = NewEntry(h) => JettonOwner(j) \in book
      BY <1>2, Addresses DEF NewEntry, IInv, HandlerInv
    <2> QED BY <1>5, <2>1 DEF IInv, BookInv, PutAddress, tables, world
  <1> QED BY <1>1, <1>6, <1>7, <1>8, <1>9 DEF IInv

LEMMA ReplyIInv ==
  ASSUME IInv, NEW h \in Handler, Reply(h)
  PROVE  IInv'
PROOF
  <1>1. h \in mutex /\ EndCall(h) /\ mpc = "run"
    BY HandlerRuns DEF IInv, MutexInv, Reply
  <1>2. /\ NewDeposit(h) \in Deposit /\ NewDeposit(h) \in book
        /\ NewDeposit(h) \in tonWallets \cup jettonWallets /\ InShard(NewDeposit(h))
    BY AddressType DEF IInv, TypeInv, HandlerInv, Reply, NewDeposit
  <1>3. /\ mutex' \subseteq Handler /\ cur' \in [Handler -> Currency] /\ last' \in [Handler -> Id]
        /\ hpc' \in [Handler -> {"idle", "lock", "last", "save", "put owner", "put wallet", "reply"}]
        /\ MutexInv' /\ HandlerInv'
    BY <1>1, EndCallKeeps DEF Reply, tables
  <1>4. known' = known \cup {<<NewDeposit(h), "new">>}
    BY DEF Reply
  <1>5. TypeInv'
    <2>1. known' \subseteq Deposit \X {"new", "all"}
      <3>1. <<NewDeposit(h), "new">> \in Deposit \X {"new", "all"}
        BY <1>2
      <3> QED BY <1>4, <3>1 DEF IInv, TypeInv
    <2> QED BY <1>3, <2>1 DEF IInv, TypeInv, Reply, tables, scan
  <1>6. BookInv'
    BY <1>2, <1>4 DEF IInv, BookInv, Reply, tables
  <1>7. StartInv' /\ ScanInv' /\ PaymentInv' /\ PaymentsRecorded' /\ fatal' = FALSE
    BY <1>1, <1>4 DEF IInv, StartInv, ScanInv, PaymentInv, PaymentsRecorded, Reply, scan
  <1> QED BY <1>3, <1>5, <1>6, <1>7 DEF IInv

LEMMA GetAddressesIInv ==
  ASSUME IInv, GetAddresses
  PROVE  IInv'
PROOF
  <1> USE DEF IInv, GetAddresses, tables, api, scan
  <1>1. \A d : <<d, "new">> \in known' => <<d, "new">> \in known
    OBVIOUS
  <1>2. TypeInv' /\ StartInv' /\ MutexInv'
    <2>1. known' \subseteq Deposit \X {"new", "all"}
      <3>1. \A d \in Deposit : <<d, "all">> \in Deposit \X {"new", "all"}
        OBVIOUS
      <3> QED BY <3>1 DEF TypeInv
    <2> QED BY <2>1 DEF TypeInv, StartInv, MutexInv
  <1>3. HandlerInv' /\ BookInv'
    BY <1>1 DEF HandlerInv, BookInv, NewDeposit
  <1>4. ScanInv' /\ PaymentInv' /\ PaymentsRecorded' /\ fatal' = FALSE
    BY DEF ScanInv, PaymentInv, PaymentsRecorded
  <1> QED BY <1>2, <1>3, <1>4

-----------------------------------------------------------------------------
(* The chain and the scanner. *)

\* A step of the scanner or of the chain leaves the handlers alone.
LEMMA HandlersKept ==
  ASSUME IInv, UNCHANGED <<tables, book, mpc, api, known>>
  PROVE  MutexInv' /\ HandlerInv' /\ BookInv'
PROOF BY DEF IInv, MutexInv, HandlerInv, BookInv, NewDeposit, tables, api

LEMMA NewBlockIInv ==
  ASSUME IInv, NEW k \in SUBSET known, NewBlock(k)
  PROVE  IInv'
PROOF
  <1> DEFINE new == {[to |-> e[1], via |-> e[2], block |-> head'] : e \in k}
  <1>1. MutexInv' /\ HandlerInv' /\ BookInv' /\ StartInv' /\ fatal' = FALSE
    BY HandlersKept DEF IInv, StartInv, NewBlock, api, scan
  <1>2. head \in 0..MaxBlock /\ head < MaxBlock /\ head' = head + 1 /\ payments' = payments \cup new
    BY DEF IInv, TypeInv, NewBlock
  <1>3. head \in Nat /\ head' \in 1..MaxBlock /\ head' \in 0..MaxBlock /\ 0..head \subseteq 0..head'
    BY <1>2, IdAssumption
  <1>4. \A p \in new : /\ p \in Payment /\ p.block = head'
                       /\ p.via = "new" => <<p.to, "new">> \in known
    <2> SUFFICES ASSUME NEW e \in k
                 PROVE  /\ [to |-> e[1], via |-> e[2], block |-> head'] \in Payment
                        /\ e[2] = "new" => <<e[1], "new">> \in known
      OBVIOUS
    <2>1. e \in known /\ e \in Deposit \X {"new", "all"}
      BY DEF IInv, TypeInv
    <2>2. e = <<e[1], e[2]>> /\ e[1] \in Deposit /\ e[2] \in {"new", "all"}
      BY <2>1
    <2> QED BY <1>3, <2>1, <2>2 DEF Payment
  <1> HIDE DEF new
  <1>5. UNCHANGED <<known, tables, incomes, lastSaved, book, mpc, api, scan, fatal, restarts, start>>
    BY DEF NewBlock
  <1>6. TypeInv'
    BY <1>2, <1>3, <1>4, <1>5 DEF IInv, TypeInv, tables, api, scan
  <1>7. /\ lastSaved \in 0..head /\ cursor \in 0..head /\ \A p \in payments : p.block =< head /\ p.block \in Nat
        /\ \A p \in payments : p.via = "new" => <<p.to, "new">> \in known
    <2>1. \A p \in payments : p.block \in 1..MaxBlock
      BY DEF IInv, TypeInv, Payment
    <2>2. \A p \in payments : p.block \in Nat
      BY <2>1, IdAssumption
    <2> QED BY <2>2 DEF IInv, TypeInv, PaymentInv
  <1>8. PaymentInv'
    <2> SUFFICES ASSUME NEW p \in payments \cup new
                 PROVE  p.block =< head' /\ (p.via = "new" => <<p.to, "new">> \in known)
      BY <1>2, <1>5 DEF PaymentInv
    <2>1. CASE p \in payments
      <3>1. p.block =< head /\ p.block \in Nat
        BY <1>7, <2>1
      <3> QED BY <1>2, <1>3, <1>7, <2>1, <3>1
    <2>2. CASE p \in new
      BY <1>3, <1>4, <2>2
    <2> QED BY <2>1, <2>2
  <1>9. PaymentsRecorded'
    <2> SUFFICES ASSUME NEW p \in payments \cup new, p.via = "new", start < p.block, p.block =< lastSaved
                 PROVE  p \in incomes
      BY <1>2, <1>5 DEF PaymentsRecorded
    <2>1. p \notin new
      <3>1. p \in new => p.block = head + 1
        BY <1>2, <1>4
      <3>2. head \in Nat /\ lastSaved \in 0..head
        BY <1>3, <1>7
      <3> QED BY <3>1, <3>2
    <2> QED BY <2>1 DEF IInv, PaymentsRecorded
  <1>10. ScanInv'
    <2>1. \A p \in new : p.block # cursor
      <3>1. head' # cursor
        BY <1>2, <1>3, <1>7
      <3> QED BY <1>4, <3>1
    <2> QED BY <1>2, <1>5, <2>1 DEF IInv, ScanInv, scan
  <1> QED BY <1>1, <1>6, <1>8, <1>9, <1>10 DEF IInv

LEMMA FirstBlockIInv ==
  ASSUME IInv, FirstBlock
  PROVE  IInv'
PROOF
  <1>1. MutexInv' /\ HandlerInv' /\ BookInv' /\ StartInv' /\ fatal' = FALSE
    BY HandlersKept DEF IInv, StartInv, FirstBlock, api, world
  <1>2. UNCHANGED <<tables, incomes, lastSaved, book, mpc, api, spc, found, fatal, restarts, world>>
    BY DEF FirstBlock
  <1>3. head \in 0..MaxBlock /\ start \in 0..head /\ lastSaved \in 0..head /\ cursor \in 0..head
    BY DEF IInv, TypeInv
  <1>4. /\ cursor' = head /\ start' = head /\ head \in 0..head
        /\ head \in Nat /\ start \in Nat /\ lastSaved \in Nat
    BY <1>3, IdAssumption DEF FirstBlock
  <1>5. lastSaved = None /\ mpc = "run" /\ spc = "next"
    <2>1. mpc = "run" /\ spc = "next" /\ cursor = None
      BY DEF FirstBlock
    <2> QED BY <2>1 DEF IInv, ScanInv
  <1>6. TypeInv' /\ PaymentInv'
    BY <1>2, <1>4 DEF IInv, TypeInv, PaymentInv, tables, api, world
  <1>7. PaymentsRecorded'
    <2> SUFFICES ASSUME NEW p \in payments, head < p.block PROVE FALSE
      BY <1>2, <1>4 DEF PaymentsRecorded, world
    <2>1. p.block =< head /\ p.block \in 1..MaxBlock
      BY DEF IInv, TypeInv, Payment, PaymentInv
    <2> QED BY <1>4, <2>1, IdAssumption
  <1>8. ScanInv'
    BY <1>2, <1>4, <1>5 DEF IInv, ScanInv, world
  <1> QED BY <1>1, <1>6, <1>7, <1>8 DEF IInv

LEMMA FilterTXsIInv ==
  ASSUME IInv, FilterTXs
  PROVE  IInv'
PROOF
  <1>1. MutexInv' /\ HandlerInv' /\ BookInv' /\ StartInv' /\ fatal' = FALSE
    BY HandlersKept DEF IInv, StartInv, FilterTXs, api, world
  <1>2. UNCHANGED <<tables, incomes, lastSaved, book, mpc, api, fatal, restarts, world, start>>
    BY DEF FilterTXs
  <1>3. head \in 0..MaxBlock /\ start \in 0..head /\ lastSaved \in 0..head /\ cursor \in 0..head
    BY DEF IInv, TypeInv
  <1>4. mpc = "run" /\ spc = "next" /\ spc' = "save" /\ cursor < head /\ cursor' = cursor + 1
    BY DEF FilterTXs
  <1>5. cursor' \in 0..head
    BY <1>3, <1>4, IdAssumption
  <1>6. /\ found' \subseteq payments /\ \A p \in found' : p.to \in book
        /\ \A p \in payments : p.block = cursor' /\ InShard(p.to) /\ p.to \in book => p \in found'
    BY DEF FilterTXs, TransactionsOf
  <1>7. TypeInv' /\ PaymentInv' /\ PaymentsRecorded'
    BY <1>2, <1>4, <1>5, <1>6 DEF IInv, TypeInv, PaymentInv, PaymentsRecorded, tables, api, world
  <1>8. \A p \in payments : p.via = "new" /\ p.block = cursor' => p \in found'
    <2> SUFFICES ASSUME NEW p \in payments, p.via = "new", p.block = cursor'
                 PROVE  InShard(p.to) /\ p.to \in book
      BY <1>6
    <2>1. p.to \in Deposit /\ <<p.to, "new">> \in known
      BY DEF IInv, TypeInv, PaymentInv, Payment
    <2> QED BY <1>4, <2>1 DEF IInv, BookInv
  <1>9. ScanInv'
    BY <1>2, <1>4, <1>6, <1>8 DEF IInv, ScanInv, world
  <1> QED BY <1>1, <1>7, <1>9 DEF IInv

LEMMA SaveParsedBlockDataIInv ==
  ASSUME IInv, SaveParsedBlockData
  PROVE  IInv'
PROOF
  <1>1. MutexInv' /\ HandlerInv' /\ BookInv' /\ StartInv' /\ fatal' = FALSE
    BY HandlersKept DEF IInv, StartInv, SaveParsedBlockData, api, world
  <1>2. /\ UNCHANGED <<tables, book, mpc, api, cursor, found, fatal, restarts, world, start>>
        /\ incomes' = incomes \cup found /\ lastSaved' = cursor /\ spc = "save" /\ spc' = "notify"
    BY DEF SaveParsedBlockData
  <1>3. TypeInv' /\ PaymentInv'
    BY <1>2 DEF IInv, TypeInv, PaymentInv, tables, api, world
  <1>4. ScanInv'
    BY <1>2 DEF IInv, ScanInv, world
  <1>5. PaymentsRecorded'
    <2> SUFFICES ASSUME NEW p \in payments, p.via = "new", start < p.block, p.block =< cursor
                 PROVE  p \in incomes \cup found
      BY <1>2 DEF PaymentsRecorded, world
    <2>1. CASE p.block = cursor
      BY <1>2, <2>1 DEF IInv, ScanInv
    <2>2. CASE p.block # cursor
      <3>1. head \in 0..MaxBlock /\ p.block \in 1..MaxBlock /\ start \in 0..head /\ lastSaved \in 0..head /\ cursor \in 0..head
        BY DEF IInv, TypeInv, Payment
      <3>2. cursor = lastSaved + 1 \/ cursor = start + 1
        BY <1>2 DEF IInv, ScanInv
      <3>3. p.block =< lastSaved
        BY <2>2, <3>1, <3>2, IdAssumption
      <3> QED BY <3>3 DEF IInv, PaymentsRecorded
    <2> QED BY <2>1, <2>2
  <1> QED BY <1>1, <1>3, <1>4, <1>5 DEF IInv

LEMMA PushNotificationsIInv ==
  ASSUME IInv, PushNotifications
  PROVE  IInv'
PROOF
  <1>1. ASSUME NEW p \in found PROVE OwnerOf(p.to) \in book
    <2>1. p.to \in book
      BY DEF IInv, ScanInv
    <2>2. CASE p.to \in JettonDeposits
      <3>1. PICK i \in Id : p.to = JettonDeposit(i)
        BY <2>2 DEF JettonDeposits
      <3>2. OwnerOf(p.to) = JettonOwner(i)
        <4>1. JettonDeposit(i)[2] = i
          BY DEF JettonDeposit
        <4>2. OwnerOf(JettonDeposit(i)) = JettonOwner(JettonDeposit(i)[2])
          BY DEF OwnerOf, JettonDeposits
        <4> QED BY <3>1, <4>1, <4>2
      <3> QED BY <2>1, <3>1, <3>2 DEF IInv, BookInv
    <2> QED BY <2>1, <2>2 DEF OwnerOf
  <1>2. /\ spc = "notify" /\ spc' = "next" /\ found' = {} /\ UNCHANGED <<cursor, book, mpc, api, fatal>>
        /\ UNCHANGED <<tables, incomes, lastSaved, restarts, world, start>>
    BY <1>1 DEF PushNotifications
  <1>3. MutexInv' /\ HandlerInv' /\ BookInv'
    BY <1>2, HandlersKept DEF world
  <1>4. StartInv' /\ fatal' = FALSE
    BY <1>2 DEF IInv, StartInv, api
  <1>5. TypeInv' /\ PaymentInv'
    BY <1>2 DEF IInv, TypeInv, PaymentInv, tables, api, world
  <1>6. ScanInv' /\ PaymentsRecorded'
    BY <1>2 DEF IInv, ScanInv, PaymentsRecorded, world
  <1> QED BY <1>3, <1>4, <1>5, <1>6 DEF IInv

-----------------------------------------------------------------------------
(* The theorems. *)

LEMMA NextIInv ==
  ASSUME IInv, [Next]_vars
  PROVE  IInv'
PROOF
  <1>1. CASE LoadAddressBook \/ InitTonHotWallet \/ InitJettonHotWallet \/ StartServices \/ Restart
    BY <1>1, LoadAddressBookIInv, InitTonHotWalletIInv, InitJettonHotWalletIInv, StartServicesIInv, RestartIInv
  <1>2. ASSUME NEW h \in Handler, NEW c \in Currency, GetNewAddress(h, c) PROVE IInv'
    BY <1>2, GetNewAddressIInv
  <1>3. ASSUME NEW h \in Handler, Lock(h) \/ GetLastSubwalletID(h) \/ GenerateFails(h) PROVE IInv'
    BY <1>3, LockIInv, GetLastSubwalletIDIInv, GenerateFailsIInv
  <1>4. ASSUME NEW h \in Handler, SaveWallet(h) \/ PutAddress(h) \/ Reply(h) PROVE IInv'
    BY <1>4, SaveWalletIInv, PutAddressIInv, ReplyIInv
  <1>5. ASSUME NEW k \in SUBSET known, NewBlock(k) PROVE IInv'
    BY <1>5, NewBlockIInv
  <1>6. CASE GetAddresses \/ FirstBlock \/ FilterTXs \/ SaveParsedBlockData \/ PushNotifications
    BY <1>6, GetAddressesIInv, FirstBlockIInv, FilterTXsIInv, SaveParsedBlockDataIInv, PushNotificationsIInv
  <1>7. CASE UNCHANGED vars
    BY <1>7, StutterIInv
  <1> QED BY <1>1, <1>2, <1>3, <1>4, <1>5, <1>6, <1>7 DEF Next

\* The inductive invariant holds in every state of the start-up, the address
\* endpoints and the scanner.
THEOREM Invariance == Spec => []IInv
PROOF
  <1>1. Init => IInv
    BY InitIInv
  <1>2. IInv /\ [Next]_vars => IInv'
    BY NextIInv
  <1> QED BY <1>1, <1>2, PTL DEF Spec

\* The tables, the book, the handlers' locals and the scanner stay within
\* their types.
THEOREM TypeCorrect == Spec => []TypeOK
PROOF
  <1>1. IInv => TypeOK
    BY DEF IInv, TypeInv, TypeOK
  <1> QED BY <1>1, Invariance, PTL

\* The id that GenerateTonWallet or GenerateDepositJettonWalletForProxy finds
\* from the greatest one it read is free when the wallet is saved, for any
\* number of concurrent calls: the mutex of the handler is enough.
THEOREM IdsAreFree == Spec => []ChosenIdIsFree
PROOF
  <1>1. IInv => ChosenIdIsFree
    <2> SUFFICES ASSUME IInv, NEW h \in Handler, hpc[h] = "save", Candidates(h) # {}, NEW w \in tonWallets
                 PROVE  w[2] # NewId(h)
      BY DEF ChosenIdIsFree, IsFree
    <2>1. NewId(h) \in Id /\ last[h] < NewId(h)
      BY NewIdFacts DEF IInv
    <2>2. w[2] =< last[h] /\ w[2] \in Id /\ last[h] \in Id
      BY AddressId DEF IInv, MutexInv, TypeInv
    <2>3. w[2] \in Nat /\ last[h] \in Nat /\ NewId(h) \in Nat
      BY <2>1, <2>2, IdType
    <2> QED BY <2>1, <2>2, <2>3
  <1> QED BY <1>1, Invariance, PTL

\* No payment to an address that getNewAddress answered is missed in a block
\* that is saved, for every interleaving of calls, blocks and restarts.
THEOREM NoPaymentMissed == Spec => []PaymentsRecorded
PROOF
  <1>1. IInv => PaymentsRecorded
    BY DEF IInv
  <1> QED BY <1>1, Invariance, PTL

\* The scanner finds the user of every deposit it found a payment for: the
\* owner of a Jetton deposit is in the book whenever the deposit is.
THEOREM OwnerAlwaysKnown == Spec => []NoFatal
PROOF
  <1>1. IInv => NoFatal
    BY DEF IInv, NoFatal
  <1> QED BY <1>1, Invariance, PTL
=============================================================================

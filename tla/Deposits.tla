----------------------------- MODULE Deposits -----------------------------
(***************************************************************************)
(* Deposit addresses: from the start of the service, through the endpoint  *)
(* that generates an address, to the scanner that finds the payments made  *)
(* to it.  What connects them is the address book, a cache of two tables:  *)
(* the scanner sees only the transactions of addresses in the book, and    *)
(* only the blocks of the service's shard.                                 *)
(*                                                                         *)
(* An address is a pair of the kind of its wallet and the subwallet id it  *)
(* is derived from.  A customer of a Jetton deposit is given the owner's   *)
(* address; the transaction of the payment is one of the Jetton wallet.    *)
(* Which blocks the tracker delivers is the subject of ShardTracker: here  *)
(* they are numbered and come one after the other.                         *)
(***************************************************************************)
EXTENDS Integers, FiniteSets, FiniteSetsExt

CONSTANTS
  Handler,           \* concurrent calls of the address endpoints
  DefaultSubwallet,  \* wallet.DefaultSubwallet, the id of the hot wallet
  MaxId,             \* math.MaxUint32: ids below it are tried
  TonInShard,        \* ids whose wallet lies in the hot wallet's shard
  JettonInShard,     \* ids whose proxy's Jetton wallet lies in it
  MaxBlock,          \* bound on the length of the shard's chain
  MaxPerBlock,       \* bound on the number of payments in a block
  MaxRestarts        \* bound on the number of restarts

ASSUME IdAssumption ==
  /\ DefaultSubwallet \in Nat /\ MaxId \in Nat /\ DefaultSubwallet < MaxId
  /\ TonInShard \subseteq Nat /\ JettonInShard \subseteq Nat
  /\ MaxBlock \in Nat /\ MaxPerBlock \in Nat /\ MaxRestarts \in Nat

VARIABLES
  (* database *)
  tonWallets,      \* table ton_wallets
  jettonWallets,   \* table jetton_wallets
  incomes,         \* table external_incomes: the payments it has a row for
  lastSaved,       \* the newest block of block_data, 0 if the table is empty
  (* the process *)
  book,            \* the address book
  mpc,             \* main(): where the start-up is
  mutex,           \* the handlers that are past h.mutex.Lock()
  hpc, cur, last,  \* per handler: step, currency, answer of GetLastSubwalletID
  spc, cursor,     \* the scanner: step, and the last block taken, 0 if none
  found,           \* payments of the block being processed
  fatal,           \* the scanner met an error it treats as impossible
  restarts,
  (* the world *)
  known,           \* what customers know: pairs of a deposit and an endpoint
  head,            \* the number of blocks
  payments,        \* payments made, with the number of their block
  start            \* the block from which an empty block_data was filled

tables == <<tonWallets, jettonWallets>>
api    == <<mutex, hpc, cur, last>>
scan   == <<spc, cursor, found>>
world  == <<known, head, payments>>
vars == <<tables, incomes, lastSaved, book, mpc, api, scan, fatal, restarts, world, start>>

Id == DefaultSubwallet..MaxId
Currency == {"TON", "Jetton"}
None == 0

HotWallet == <<"ton hot", DefaultSubwallet>>
JettonHotWallet == <<"jetton hot", DefaultSubwallet>>
TonDeposit(i) == <<"ton deposit", i>>
JettonOwner(i) == <<"jetton owner", i>>
JettonDeposit(i) == <<"jetton deposit", i>>

TonDeposits == {TonDeposit(i) : i \in Id}
JettonDeposits == {JettonDeposit(i) : i \in Id}
Deposit == TonDeposits \cup JettonDeposits
Address == Deposit \cup {JettonOwner(i) : i \in Id} \cup {HotWallet, JettonHotWallet}

\* A payer learned the deposit from the endpoint that made it ("new") or from
\* the one that lists a user's addresses ("all").
Payment == [to : Deposit, via : {"new", "all"}, block : 1..MaxBlock]

InShard(a) ==
  \/ a[1] = "ton deposit" /\ a[2] \in TonInShard
  \/ a[1] = "jetton deposit" /\ a[2] \in JettonInShard

Init ==
  /\ tonWallets = {} /\ jettonWallets = {} /\ incomes = {} /\ lastSaved = None
  /\ book = {} /\ mpc = "load" /\ mutex = {}
  /\ hpc = [h \in Handler |-> "idle"] /\ cur = [h \in Handler |-> "TON"]
  /\ last = [h \in Handler |-> DefaultSubwallet]
  /\ spc = "next" /\ cursor = None /\ found = {}
  /\ fatal = FALSE /\ restarts = 0
  /\ known = {} /\ head = 0 /\ payments = {} /\ start = None

-----------------------------------------------------------------------------
(* Start-up. *)

LoadAddressBook ==
  /\ mpc = "load"
  /\ book' = tonWallets \cup jettonWallets
  /\ mpc' = "hot"
  /\ UNCHANGED <<tables, incomes, lastSaved, api, scan, fatal, restarts, world, start>>

\* The hot wallet is saved once; the seed is assumed to stay the same.
InitTonHotWallet ==
  /\ mpc = "hot"
  /\ tonWallets' = tonWallets \cup {HotWallet}
  /\ book' = book \cup {HotWallet}
  /\ mpc' = "jetton hot"
  /\ UNCHANGED <<jettonWallets, incomes, lastSaved, api, scan, fatal, restarts, world, start>>

InitJettonHotWallet ==
  /\ mpc = "jetton hot"
  /\ jettonWallets' = jettonWallets \cup {JettonHotWallet}
  /\ book' = book \cup {JettonHotWallet}
  /\ mpc' = "track"
  /\ UNCHANGED <<tonWallets, incomes, lastSaved, api, scan, fatal, restarts, world, start>>

\* The tracker is given the newest saved block; then the goroutines start.
StartServices ==
  /\ mpc = "track"
  /\ cursor' = lastSaved
  /\ mpc' = "run"
  /\ UNCHANGED <<tables, incomes, lastSaved, book, api, spc, found, fatal, restarts, world, start>>

\* The process ends, wherever it is, and is started again.
ProcessEnds ==
  /\ book' = {} /\ mpc' = "load" /\ mutex' = {}
  /\ hpc' = [h \in Handler |-> "idle"] /\ cur' = [h \in Handler |-> "TON"]
  /\ last' = [h \in Handler |-> DefaultSubwallet]
  /\ spc' = "next" /\ cursor' = None /\ found' = {}

Restart ==
  /\ restarts < MaxRestarts
  /\ restarts' = restarts + 1
  /\ ProcessEnds
  /\ UNCHANGED <<tables, incomes, lastSaved, fatal, world, start>>

-----------------------------------------------------------------------------
(* The endpoints. *)

Step(h, to) == hpc' = [hpc EXCEPT ![h] = to]

GetNewAddress(h, c) ==
  /\ mpc = "run" /\ hpc[h] = "idle"
  /\ Step(h, "lock")
  /\ cur' = [cur EXCEPT ![h] = c]
  /\ UNCHANGED <<mutex, last, tables, incomes, lastSaved, book, mpc, scan, fatal, restarts, world, start>>

\* (mutant: the mutex is not awaited)
LockNoWait(h) ==
  /\ hpc[h] = "lock"
  /\ mutex' = mutex \cup {h}
  /\ Step(h, "last")
  /\ UNCHANGED <<cur, last, tables, incomes, lastSaved, book, mpc, scan, fatal, restarts, world, start>>

Lock(h) ==
  /\ hpc[h] = "lock"
  /\ mutex = {}
  /\ mutex' = mutex \cup {h}
  /\ Step(h, "last")
  /\ UNCHANGED <<cur, last, tables, incomes, lastSaved, book, mpc, scan, fatal, restarts, world, start>>

\* The greatest id of ton_wallets (at least the hot wallet's is there).
GetLastSubwalletID(h) ==
  /\ hpc[h] = "last"
  /\ last' = [last EXCEPT ![h] = Max({DefaultSubwallet} \cup {w[2] : w \in tonWallets})]
  /\ Step(h, "save")
  /\ UNCHANGED <<mutex, cur, tables, incomes, lastSaved, book, mpc, scan, fatal, restarts, world, start>>

\* (mutant: the shard of the address is not looked at)
CandidatesAnyShard(h) == (last[h] + 1)..(MaxId - 1)

\* The ids the search may end with; the loop stops below math.MaxUint32.
Candidates(h) ==
  {i \in (last[h] + 1)..(MaxId - 1) :
     InShard(IF cur[h] = "TON" THEN TonDeposit(i) ELSE JettonDeposit(i))}

NewId(h) == Min(Candidates(h))

\* The call ends, and its deferred Unlock with it.
EndCall(h) ==
  /\ mutex' = mutex \ {h}
  /\ Step(h, "idle")
  /\ cur' = [cur EXCEPT ![h] = "TON"]
  /\ last' = [last EXCEPT ![h] = DefaultSubwallet]

\* No id is left, or the node did not answer: an error for the client.
GenerateFails(h) ==
  /\ hpc[h] = "save"
  /\ EndCall(h)
  /\ UNCHANGED <<tables, incomes, lastSaved, book, mpc, scan, fatal, restarts, world, start>>

\* ton_wallets.subwallet_id is unique.
IsFree(i) == \A w \in tonWallets : w[2] # i

SaveTonRow(h) ==
  /\ cur[h] = "TON"
  /\ tonWallets' = tonWallets \cup {TonDeposit(NewId(h))}
  /\ UNCHANGED jettonWallets

\* The owner and the Jetton wallet, in one transaction.
SaveJettonRows(h) ==
  /\ cur[h] = "Jetton"
  /\ tonWallets' = tonWallets \cup {JettonOwner(NewId(h))}
  /\ jettonWallets' = jettonWallets \cup {JettonDeposit(NewId(h))}

\* The rows are committed.  The statement runs under the request's context:
\* when the client is gone it may report an error all the same.
SaveWallet(h) ==
  /\ hpc[h] = "save" /\ Candidates(h) # {}
  /\ IsFree(NewId(h))
  /\ SaveTonRow(h) \/ SaveJettonRows(h)
  /\ \/ /\ Step(h, IF cur[h] = "TON" THEN "put wallet" ELSE "put owner")
        /\ last' = [last EXCEPT ![h] = NewId(h)]
        /\ UNCHANGED <<mutex, cur>>
     \/ EndCall(h)
  /\ UNCHANGED <<incomes, lastSaved, book, mpc, scan, fatal, restarts, world, start>>

\* (mutant: the Jetton wallet enters the book before its owner)
NewEntrySwapped(h) ==
  IF hpc[h] = "put owner" THEN JettonDeposit(last[h])
  ELSE IF cur[h] = "TON" THEN TonDeposit(last[h]) ELSE JettonOwner(last[h])

NewEntry(h) ==
  IF hpc[h] = "put owner" THEN JettonOwner(last[h])
  ELSE IF cur[h] = "TON" THEN TonDeposit(last[h]) ELSE JettonDeposit(last[h])

\* addressBook.put, for a Jetton deposit once for the owner and once for the
\* wallet: each call takes the book's own mutex.
PutAddress(h) ==
  /\ hpc[h] \in {"put owner", "put wallet"}
  /\ book' = book \cup {NewEntry(h)}
  /\ Step(h, IF hpc[h] = "put owner" THEN "put wallet" ELSE "reply")
  /\ UNCHANGED <<mutex, cur, last, tables, incomes, lastSaved, mpc, scan, fatal, restarts, world, start>>

NewDeposit(h) == IF cur[h] = "TON" THEN TonDeposit(last[h]) ELSE JettonDeposit(last[h])

\* The address is sent to the client, who gives it to a customer.
Reply(h) ==
  /\ hpc[h] = "reply"
  /\ known' = known \cup {<<NewDeposit(h), "new">>}
  /\ EndCall(h)
  /\ UNCHANGED <<tables, incomes, lastSaved, book, mpc, scan, fatal, restarts, head, payments, start>>

\* The list of a user's addresses comes from the tables and needs no mutex.
GetAddresses ==
  /\ mpc = "run"
  /\ known' = known \cup {<<d, "all">> : d \in (tonWallets \cup jettonWallets) \cap Deposit}
  /\ UNCHANGED <<tables, incomes, lastSaved, book, mpc, api, scan, fatal, restarts, head, payments, start>>

-----------------------------------------------------------------------------
(* The chain (external): the next block of the shard, and the payments that *)
(* customers make at that time.  A payment to an address of another shard   *)
(* is in another shard's block.                                             *)

NewBlock(k) ==
  /\ head < MaxBlock /\ Cardinality(k) =< MaxPerBlock
  /\ head' = head + 1
  /\ payments' = payments \cup {[to |-> e[1], via |-> e[2], block |-> head'] : e \in k}
  /\ UNCHANGED <<known, tables, incomes, lastSaved, book, mpc, api, scan, fatal, restarts, start>>

TransactionsOf(b) == {p \in payments : p.block = b /\ InShard(p.to)}

-----------------------------------------------------------------------------
(* The block scanner. *)

\* (mutant: the tracker is set to the block that comes after the newest one)
FirstBlockNext ==
  /\ mpc = "run" /\ spc = "next" /\ cursor = None /\ head > 0
  /\ cursor' = head + 1 /\ start' = head
  /\ UNCHANGED <<tables, incomes, lastSaved, book, mpc, api, spc, found, fatal, restarts, world>>

\* Without a last known block the tracker takes the newest one for known.
FirstBlock ==
  /\ mpc = "run" /\ spc = "next" /\ cursor = None /\ head > 0
  /\ cursor' = head /\ start' = head
  /\ UNCHANGED <<tables, incomes, lastSaved, book, mpc, api, spc, found, fatal, restarts, world>>

\* Only transactions of addresses in the book are fetched.
FilterTXs ==
  /\ mpc = "run" /\ spc = "next" /\ cursor # None /\ cursor < head
  /\ cursor' = cursor + 1
  /\ found' = {p \in TransactionsOf(cursor') : p.to \in book}
  /\ spc' = "save"
  /\ UNCHANGED <<tables, incomes, lastSaved, book, mpc, api, fatal, restarts, world, start>>

SaveParsedBlockData ==
  /\ spc = "save"
  /\ incomes' = incomes \cup found
  /\ lastSaved' = cursor
  /\ spc' = "notify"
  /\ UNCHANGED <<tables, book, mpc, api, cursor, found, fatal, restarts, world, start>>

\* The user of the deposit, for a Jetton deposit that of its owner.
OwnerOf(d) == IF d \in JettonDeposits THEN JettonOwner(d[2]) ELSE d

\* A notificator that fails ends the process too, which is a Restart.
PushNotifications ==
  /\ spc = "notify"
  /\ \/ /\ \A p \in found : OwnerOf(p.to) \in book
        /\ spc' = "next" /\ found' = {}
        /\ UNCHANGED <<cursor, book, mpc, api, fatal>>
     \/ /\ \E p \in found : OwnerOf(p.to) \notin book
        /\ ProcessEnds
        /\ fatal' = TRUE
  /\ UNCHANGED <<tables, incomes, lastSaved, restarts, world, start>>

-----------------------------------------------------------------------------
Next ==
  \/ LoadAddressBook
  \/ InitTonHotWallet
  \/ InitJettonHotWallet
  \/ StartServices
  \/ Restart
  \/ \E h \in Handler, c \in Currency : GetNewAddress(h, c)
  \/ \E h \in Handler : Lock(h)
  \/ \E h \in Handler : GetLastSubwalletID(h)
  \/ \E h \in Handler : GenerateFails(h)
  \/ \E h \in Handler : SaveWallet(h)
  \/ \E h \in Handler : PutAddress(h)
  \/ \E h \in Handler : Reply(h)
  \/ GetAddresses
  \/ \E k \in SUBSET known : NewBlock(k)
  \/ FirstBlock
  \/ FilterTXs
  \/ SaveParsedBlockData
  \/ PushNotifications

Spec == Init /\ [][Next]_vars

-----------------------------------------------------------------------------
(* Properties. *)

\* Types of the tables, the handlers' local state, the scanner and the chain.
TypeOK ==
  /\ tonWallets \subseteq Address /\ jettonWallets \subseteq Address
  /\ book \subseteq Address /\ incomes \subseteq payments
  /\ mpc \in {"load", "hot", "jetton hot", "track", "run"} /\ mutex \subseteq Handler
  /\ hpc \in [Handler -> {"idle", "lock", "last", "save", "put owner", "put wallet", "reply"}]
  /\ cur \in [Handler -> Currency] /\ last \in [Handler -> Id]
  /\ spc \in {"next", "save", "notify"} /\ found \subseteq payments
  /\ cursor \in 0..head /\ lastSaved \in 0..head /\ start \in 0..head
  /\ head \in 0..MaxBlock /\ payments \subseteq Payment
  /\ known \subseteq Deposit \X {"new", "all"}
  /\ fatal \in BOOLEAN /\ restarts \in 0..MaxRestarts

\* The id a call has chosen from the greatest one it has read is still free
\* when it is saved, whatever calls run beside it: the INSERT never meets the
\* unique constraint, so no call fails because of another one.
ChosenIdIsFree ==
  \A h \in Handler : hpc[h] = "save" /\ Candidates(h) # {} => IsFree(NewId(h))

\* Once a block is saved, every payment in it to an address that
\* getNewAddress answered has a row of external_incomes: neither concurrent
\* calls, restarts, the order of commit and cache, nor the choice of the
\* address make the scanner miss it.  Blocks up to the first one that a
\* service with an empty block_data saw are not scanned.
PaymentsRecorded ==
  \A p \in payments :
    p.via = "new" /\ start < p.block /\ p.block =< lastSaved => p \in incomes

\* The scanner never meets a deposit whose user it cannot name ("not found
\* UserID for deposit").
NoFatal == ~fatal

\* docs/api.apib:48: "Get all created addresses by user_id": an address from
\* that list is a deposit address like any other, and README.md:36 says that
\* payments to it are accumulated: the scanner records every payment to it.
ListedPaymentsRecorded ==
  \A p \in payments : start < p.block /\ p.block =< lastSaved => p \in incomes
=============================================================================

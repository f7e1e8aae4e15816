# Verification of gobicycle

gobicycle is a payment processor for the TON blockchain: it gives users deposit addresses, notices
payments to them, collects ("sweeps") deposits into a hot wallet and pays withdrawals from it. This
directory holds TLA+ modules that model its core, TLC configurations that check them on small
instances and TLAPS proofs of the most important results for every value of the constants.
`PROJECT.json` connects definitions to source lines, runs to properties, and hazards to the
properties that would catch them.

    tlc -workers 2 -config external.cfg MCExternalWithdrawals   # a run
    tlapm ExternalWithdrawalsProofs.tla                         # proofs of a module

## 1. The system

One process with several goroutines, a PostgreSQL database and a TON node. Only the database
survives a stop; nearly every error ends the process (`log.Fatalf`) and a supervisor starts it again.

| component | state | operations | how it interacts |
|---|---|---|---|
| HTTP API (`api/`) | none | new address, withdrawal request, status, history, service withdrawals | reads and writes the tables, concurrently with everything else |
| withdrawals processor (`core/withdrawal_processor.go`) | the batch being made | wait for sync, sleep, cold wallet requests, build one batch (service, Jetton sweeps, external), save it, send it | tables; hot wallet's message |
| internal TON processor (same file) | list of tasks | sweep each deposit that has incomes newer than its last sweep | tables; deposits' messages |
| expiration processor (same file) | none | mark withdrawals failed whose message is too old; give their requests back | tables only: it guesses from clocks what the chain can no longer do |
| shard tracker (`blockchain/shard_tracker.go`) | last known block, buffer, walk | find the blocks of the service's shard between the last known one and a masterchain block | inside the scanner's goroutine; node |
| block scanner (`core/block_scanner.go`) | block being processed | turn transactions into events, save them in one database transaction, notify | tables; webhook, queue |
| database (`db/db.go`, `deploy/db`) | withdrawal_requests, external_withdrawals, internal_withdrawals, external_incomes, internal_incomes, block_data, service_withdrawal_requests, wallets, address book cache | the queries that decide what is a task, what is expired, what a status is | |
| hot wallet, deposits, proxies, Jetton wallets | on the chain (external) | highload wallet v2, wallet v3, proxy, Jetton wallet | execute messages late, once or again, or never |
| notifications (`webhook/`, `queue/`) | none | publish an income | after the commit of a block |
| address book (`db/db.go`, `core/wallets.go`, `blockchain.go`) | cache of ton_wallets and jetton_wallets | load at the start, search for a free subwallet id whose address lies in the service's shard, put | API writes it, scanner and processors read it |
| trusted sources (`pkg/trust`, `proofs.go`), audit, metrics, configuration, test utilities | | | not modelled, see section 7 |

What is hard here:

* A message handed to the network may be executed now, later, or never; the service learns it from
  blocks that it scans with a delay. The only protection against paying twice is that the
  expiration processor never gives up a message that a block not yet scanned may still execute. It
  decides with clocks: the service's own, `gen_utime` of the last saved block, `expired_at`.
* A sync check is followed by sleeps, network calls and database calls before its result is used.
* Table rows, messages and transactions of one withdrawal are matched by keys (message uuid and
  address, memo); the scanner stops for ever when it meets something that it cannot match.
* Deposits are paid while they are swept; sweeps may be repeated or lost or fail.
* Shards split and merge, nodes answer with old blocks, and blocks must be scanned exactly once.
* A deposit's rows are committed before the cache that the scanner looks at is updated, and a
  customer may pay at any time.
* A service withdrawal is marked before its message is sent, its amount is read long before it is
  used, and queries with a limit may have tasks at their head that never go away.
* A batch counts on balances that a node shows late, while the batch before may still be executed.
* The process may stop between any two steps.

What makes each component correct:

* withdrawals: a request is paid at most once, its reported status is true and final, a retry never
  races an older message, the scanner never stops for what the service itself did;
* sweeps: one under way per deposit, every recorded payment swept or about to be, amounts right;
* incomes: what is recorded is what was paid;
* tracker: an unbroken line of blocks, caught up eventually, every notification at most once;
* deposit addresses: no two calls choose the same id, and no payment to an answered address is missed;
* service withdrawals: handed over at most once, never lost but by a stop at one known place, never
  competing with sweeps, starved only by lower addresses;
* balances: what a valid message sends is there, recipients in a batch differ, the residual stays,
  and what a batch leaves out has a reason.

`PROJECT.json` lists under `hazards` where in the code each of these can go wrong.

## 2. Modules and their order

| module | models | composes / uses |
|---|---|---|
| `WithdrawalLedger` | abstract: what a client and the recipients see of a withdrawal | |
| `ExternalWithdrawals` | API requests, cold wallet requests, withdrawals processor, expiration processor, scanner, hot wallet | implements `WithdrawalLedger` |
| `ExternalWithdrawalsProofs` | proofs | `ExternalWithdrawals` |
| `ShardTracker` | shard tracker, scanner loop, notifications, chain with splits and merges | |
| `ShardTrackerProofs` | proofs | `ShardTracker`, `Aggregates` |
| `InternalWithdrawals` | sweeps of TON deposits | |
| `InternalWithdrawalsProofs` | proofs | `InternalWithdrawals`, `Aggregates` |
| `JettonWithdrawals` | sweeps of Jetton deposits through their proxies | |
| `JettonWithdrawalsProofs` | proofs | `JettonWithdrawals`, `JettonIncomes` (an instance), `Aggregates` |
| `JettonIncomes` | how the scanner finds payments to a Jetton deposit | |
| `Deposits` | start-up, address endpoints, address book, and the scanner's view of it | blocks in order, as `ShardTracker` promises |
| `DepositsProofs` | proofs | `Deposits`, `Aggregates` |
| `ServiceWithdrawals` | the two service endpoints, both processors' service tasks, TON deposits and proxies | sweeps as abstract actions |
| `ServiceWithdrawalsProofs` | proofs | `ServiceWithdrawals` |
| `HotWallet` | cold wallet requests, building of a batch from all three queries, balances of the chain and of a node | the fate of a request as `ExternalWithdrawals` promises |
| `HotWalletProofs` | proofs | `HotWallet` |
| `Aggregates` | lemmas: what `Min`, `Max` and sums over sets compute; powers of two and division | |
| `MC...` | symmetry sets and amounts for TLC | the module of that name |

Still to be done, in this order:

1. A composition of `JettonIncomes` and `JettonWithdrawals` for transfers that bounce.
2. Internal incomes and the statistics over them (`GetIncome` and others) as operators over the tables.

## 3. Model and code

### ExternalWithdrawals

A table is a set of keys and a function or set per column. A row of `external_withdrawals` is a pair
of a message and a query; `failed[m]`, `done[m]`, `hashed[m]` are the queries whose row of message `m`
has `failed`, `processed_lt`, `tx_hash`. Each goroutine has a program counter and is cut at its database
and network calls:

* withdrawals processor `wpc`: `WithdrawalsWaitSync`; the sleep; `MakeColdWalletWithdrawal`;
  `BuildWithdrawalMessages` (the batch is any part of the candidates: balances and limits are open);
  `CreateExternalWithdrawals`; `SendExternalMessage`;
* expiration processor `epc`: `ExpirationWaitSync`, `SetExpired` (with the clock as it is then);
* scanner `spc`: `ParseBlock`, `CheckAlreadyFailed` (the SELECT of `updateExternalWithdrawal`),
  `SaveParsedBlockData`; the two are separate since the transaction runs under READ COMMITTED;
* the API: `SendWithdrawal`, `GetExternalWithdrawalStatus` (an operator), `SaveWallet`;
* the chain: `NewBlock(t, X, o)`: the messages `X` are executed at `t`, each sends the part `o[m]` of
  its out messages. `Executable` is the highload wallet: once per message, until the time in it.
* `Restart` and every fatal error: the goroutines' state is lost, the tables stay.

A destination may become an address of the service after its request was accepted (`SaveWallet`; "Withdrawals
to internal address" in `threat_model.md:93`). What the scanner then does depends on the kind of the address: an
out message to a deposit is a fee payment, of which it makes no event (`SentWithdrawals`); an out message to a
`JettonOwner` is read as a message to a proxy (`block_scanner.go:710`), and since that of a TON withdrawal has no
payload for it, the scanner stops, and stops again after each restart (`IsProxyMsg`, `IsParsable`). `Owners` are
the addresses that are proxies. `FatalOnlyForOwner` says that nothing else stops it.

`IsWithdrawalRequestUnique` is left to the table's constraint, which refuses the same requests.

`WithdrawalLedger` has two variables, the reported status of every query and the set of paid
queries, and says which moves are allowed. The refinement mapping is `Ledger` in
`ExternalWithdrawals`.

### ShardTracker

Shard blocks are pairs of shard identifier and seqno; identifiers are words of `WordBits` bits in the
chain's own encoding (prefix, a one, zeros), and `IsInShard` is the code's comparison of leading bits.
The walk of `getShardBlocks` is one action per header read; the batch is reversed into the buffer at
its end; `GetLastSavedBlockID` is the query a restart makes. `SaveBlock` is `processBlock` up to the
commit, `Publish` the notifications to one channel.

### InternalWithdrawals, JettonWithdrawals

The lt of a transaction is its place in one sequence of transactions, so the queries' comparisons
`lt > finish_lt` and `lt > since_lt` are comparisons of places. Blocks grow while they are the newest.
The TON module has the peculiarity that a sweep destroys the contract, so the same message is executed
again while it is valid and the deposit is paid again; `valid_until` in the message and `expired_at` in
the table come from two clock readings at most `SendDelay` apart. All deposits with a task are in its list:
`LIMIT` of the query (`db.go:753`) is left out. The Jetton module separates the
reading of the balance, the hot wallet's transaction (`ExecuteBatch`, any part of the batch) and the
Jetton wallet's (`Transfer`, success or failure); the rows of a batch are saved one by one.

Two things that the service does not control are in the Jetton module:

* *Transfers of others.* Anybody may send a transfer to a deposit's Jetton wallet. It fails, and the scanner
  records each failed transfer as the failed end of the withdrawal with that comment, whoever sent it
  (`block_scanner.go:1049`); `threat_model.md:39` speaks of such copies of messages. `ForeignTransfer` has a
  comment that is no memo, or a copy of a memo that is public by then. The former, or a copy for a withdrawal
  that is over or not yet sent, stops the scanner (`Impossible`); a copy for a withdrawal under way marks it
  failed. `NoOwnFatal` therefore says that the scanner does not stop as long as no such transfer was sent
  (`Undisturbed`); the other properties hold with them.
* *Old balances.* `GetLastJettonBalance` asks at the masterchain block that the client remembers
  (`blockchain.go:516`), and the tracker follows the newest one. `BuildJettonInternalWithdrawalMessage` reads the
  state after any prefix of the transactions that is `Visible`: that of the newest block, or of the one of at
  most `ViewLag` ago. If it does not reach the newest income of the task, the withdrawal is `stale`: a payment
  that it misses is older than `since_lt` and is swept only after the next payment. That is the one exception
  in `NothingStranded`. A TON sweep takes everything there is, whatever balance was read before.

The accounts of a block come out of a Go map, so `SaveParsedBlockData` takes them in any order (`Orders`).

The memos of TON sweeps are in the same table, and the copy of one in a failed Jetton transfer would mark that
sweep failed or stop the scanner just as well. `InternalWithdrawals` leaves such transfers out: its properties are
those of a service that nobody disturbs in this way.

### JettonIncomes

One Jetton wallet, transactions of seven kinds: payments with and without a notification (`notified`,
`silent`), transfers from an address of the service (`own`), transfers to the hot wallet and elsewhere
(`sweep`, `service`), failed withdrawals (`failed`) and whatever moves nothing (`other`). A block is whatever has happened since the last
block; the operators are the functions of `block_scanner.go` that classify in and out messages,
compute the unknown amount from the balances and make the rows.

### Deposits

An address is a kind of wallet and a subwallet id; `TonInShard` and `JettonInShard` say which ids lead to
an address in the hot wallet's shard. Start-up is `main()` in its order: load the book, the two hot
wallets, the tracker's first block, then the goroutines. A call of an address endpoint takes the
handler's mutex, reads the greatest id, searches (`Candidates`), commits the rows (the context may end
at that moment, so a commit may report an error), and puts its one or two addresses into the book, each
under the book's own lock. The scanner's `FilterTXs` keeps what the book holds at that moment;
`PushNotifications` needs the owner of a Jetton deposit. `start` is the block the scanner begins after; with an
empty `block_data` a restart moves it to the newest block, and payments before it are outside `PaymentsRecorded`.

### ServiceWithdrawals

The row of a request has two flags, `filled` and `processed`. A TON deposit first gets TONs from the hot
wallet (`filling`), then sends its Jettons itself in the other goroutine; a proxy does it in one message.
`DistinctOnAddress` is the query, `Lowest(n, ...)` both its limit and the point where the hot wallet's
TONs end. Rows are updated one by one, before the batch is sent. `handed`, `rejected` and `dropped`
record what became of a request.

### HotWallet

A node answers with `balance` or with `shown`, which is at most `ViewLag` old, separately for every
currency and every call; the states between the newest and the oldest one are not offered. The steps are those of the processor's loop: sleep, the cold wallet's requests
(Jettons, then TON from the TONs left), balances, service tasks, sweeps, external tasks, rows, message.
`Covers` and `Minus` are `decreaseBalances`. Requests are paid, scanned and expired as `ExternalWithdrawals`
shows that they are. Gas on top of the amounts is not counted, as the code does not count it.

Data that no property tells apart is left out: comments, user ids, workchains, hashes.

## 4. Runs

| run | states | shows |
|---|---|---|
| `external` | 3.1 M | one request, two attempts: paid at most once, status true and final, one settled row, retry exclusive, scanner stops only for TONs paid to a new Jetton owner, implements the ledger |
| `slow_expiry` | violated | finding: `SetExpired` later than the blocks' distance allows |
| `tracker` | 60 k | splits, merges, old answers, two restarts: saved blocks are one line, one suitable block exists, notifications at most once, and every masterchain block is reached |
| `internal` | 0.9 M | one TON deposit, two sweeps: scanner goes on, one sweep under way, amounts, nothing stranded |
| `slow_send` | violated | finding: message sent later than the blocks' distance allows |
| `jetton` | 2.7 M | one Jetton deposit, two sweeps, failures, late transfers, transfers of others, old balances: the same properties, with the exceptions that `NoOwnFatal` and `NothingStranded` name |
| `jetton_income` | 90 k | incomes exact, every payment has a row with its lt |
| `service_transfer` | violated | finding: transfers from the service's own addresses are recorded as incomes |
| `deposits` | 1.0 M | two concurrent calls, payments and a restart at any moment: ids are free, payments to answered addresses recorded, the owner of a payment known |
| `listed` | violated | finding: an address in a user's list may be unknown to the scanner |
| `service` | 0.6 M | two requests, both kinds of owners, sweeps and payments beside them, a restart: at most once, none lost, amounts still there, starved only by lower addresses |
| `hot_wallet` | 2.4 M | two batches, two currencies, late balances, restarts: messages covered, recipients distinct, residual left, nobody passed over without a reason |

Every property of a passing run has a mutant of the code (`mutants` in `PROJECT.json`) that violates it.

### Bounds

Clocks and `gen_utime` count ticks of one length, and strict comparisons of equal times are where the code
could be off by one. The code compares `time.Now()`, which is finer than a second, with `gen_utime` in whole
seconds, so a tick is to be read as short; the ticks that `SafeTiming` adds to `BlockGap` are not seconds. Lifetimes and lags are scaled down together, from minutes to one to three units;
only their order relative to the delays and the distance of blocks matters to the guards, and the
proofs of section 5 do not depend on them at all:

* `Lag`, `Lifetime`, `ExpireDelay`, `SendDelay` are one to three units. The passing runs are at the
  limit of `SafeTiming`, and the violated ones one tick beyond it.
* `MaxTime` leaves room for a whole attempt (sync, batch, lifetime, lag, expiry) and a second one.
* two messages or memos: one attempt and its retry. `external` has one request, and the proofs of
  section 5 hold for any number of requests, currencies and destinations in a batch; `hot_wallet` has
  two requests in one batch or in two, of the same or of different currencies and destinations.
* `Query = {1}`, `Deposits = {"a", "b"}`, `Owners = {"b"}`: the destination of the request may become a deposit or
  the owner of one at any step. `slow_expiry` has no owner, so that only the clocks can stop its scanner.
* `WordBits = 4`, `ShardBits = 2`: every shard from the whole chain to the smallest, both neighbours
  of the service's shard, splits and merges at each level. `MaxSeqno = 2`, `MaxMaster = 4`: enough for a
  split, a merge, an old answer, and a restart before and after each; `SavedLine` is proved for any.
* `MaxTx` four to six transactions: payment, sweep, payment, repeated or second sweep. In `jetton` it is five,
  with `ViewLag = 1`: payment, sending, transfer and two more payments, endings or transfers of others. It has one
  deposit, so one order of accounts; the proofs hold for any number of deposits and any order.
* Amounts are one or two units; TON payments are one unit.
* `deposits`: two handlers, ids 1 and 2 below `MaxId = 3`, of which the shard has one for TON and both for
  Jettons, so ids are skipped and run out; three blocks with a payment each: before, during and after
  the generation of an address.
* `service`: two requests on two deposits and a proxy; `DepositLimit = 1` instead of 5, so that one lost
  filling crowds out the other request; `HotLimit = 2`.
* `hot_wallet`: `Limit = 1` instead of 250, so that batches are full and destinations crowd each other
  out; balances of up to 3 TON and 1 Jetton around a maximum of 2 and 0; `MaxTime = 6` is two periods
  of 3. `Period = Lifetime + ViewLag + 1` is the least that `TimeAssumption` (the comment at
  `config.go:27`) allows; one less, and a batch may count on coins the batch before it takes.

Symmetry is used for messages, memos and handlers only, in runs without liveness. Deadlock is checked
except in `tracker`, `jetton_income` and `service_transfer`, where the chain is bounded and the scanner really
waits for a block that does not come, and in `hot_wallet`, where the clock is bounded and everyone may
sleep.

### Fairness

Two runs use it (`FairSpec` of their modules).

* `tracker`: weak fairness of `Walk` and `Scan`: the scanner's goroutine does not stop and its calls
  return or fail; a failure is a restart, of which there are finitely many. Strong fairness of asking
  for the newest masterchain block: nodes may answer with old blocks again and again, but not always.
  Nothing is assumed about the chain: it may stop at any time.
* `service`: weak fairness of `DepositStep`: the goroutine of the TON deposits keeps running. Nothing is
  assumed about the hot wallet, the chain or the clients.

## 5. Proofs

All theorems hold for every value of the constants that satisfies the named assumptions of their
modules (`TimeAssumption`, `SetAssumption`, `ShardAssumption`, `IdAssumption`, `BoundAssumption` and so
on): naturals, positive block distance, distinct null values, and in `HotWallet` a period longer than
lifetime and lag. Each component's proof module has one inductive invariant `IInv` (`Invariance`), which
TLC has checked too, with one lemma per action; the properties follow from it.

**ExternalWithdrawalsProofs.** `TypeCorrect` needs nothing else. The others need
`SafeTiming == ExpireDelay =< BlockGap + 1`, under which `NeverPaidTwice`, `StopsOnlyForOwner`, `StatusIsTrue`,
`SettledOnce` and `RetryExcludesOlder` follow from `Invariance` of `IInv`. None of the properties is
inductive. The chain of reasoning: the expiration processor acts only if at its sync check the last
saved block was younger than `Lag` (`ExpirerInv`), hence what it expires is too old for every block
after the last saved one (`ExpiredInv`, the only place where `SafeTiming` is used). Therefore a message
that the scanner has not met yet has only open rows (`UnscannedIsOpen`), an open row is the only open
row of its request and keeps it processing (`OpenInv`), and a request that is pending is unpaid or was
paid at an address that became internal (`RecordInv`, `PendingIsUnpaid`) and is not batched again. The
remaining conjuncts say how rows agree with messages (`MessageInv`), with the chain (`ChainInv`,
`RowInv`, `PaidInv`) and with the events in the scanner's hands (`EventInv`).

The same invariant carries the refinement (`ImplementsTheLedger`). `LedgerInit` maps the initial states;
then one lemma per move of the ledger (`LedgerAccept`, `LedgerStart`, `LedgerPay`, `LedgerRetry`,
`LedgerSettle`) says which step of the service it is, and `LedgerStutter` which steps the client does not
see: the sync checks, the rows' columns, parsing, restarts. `Pay` of the ledger demands that a request is
processing and unpaid, `Retry` that it is unpaid: this is what `OpenInv` and `PendingIsUnpaid` are for.
`FinalForGood` is then a property of the ledger's steps (`LedgerKeepsFinal`).

**ShardTrackerProofs.** For any width, shard and chain, and whatever `isInShard` decides, saved blocks
are a lineage (`SavedLine`), notifications do not repeat (`NotifiedOnce`), and types hold. `IInv` says
that saved blocks, the block at hand and the buffer are one line that ends in the last known block
(`FeedInv`), that the batch of a walk is linked down to the block it looks at (`WalkInv`), and that
`block_data` is ordered by seqno, so a restart finds its last row (`SortedInv`).

What `isInShard` decides is the subject of `ShardCovered`. A shard identifier is a prefix, a one and zeros
(`ShardShape`, `ShapeZeros`); equal leading bits are equal quotients (`LeadingEqualBitsAtLeast`), so the
comparison asks whether the first account of the service's byte lies in the shard (`InShardContains`); a
shard whose prefix is not longer than the byte does not divide the byte's accounts (`Aligned`); and a shard
is suitable exactly when one of its halves is (`HalvesCover`), which serves splits and merges alike. The
inductive part is `CoverInv`: the newest blocks and those of each masterchain block contain a suitable one,
each suitable block but the first has a suitable parent, and the walk stays on suitable blocks. It cannot
ask for the parent of the first block, since it ends at or above the last known block. Therefore
`filterByShard` never ends the process.

**InternalWithdrawalsProofs.** `TypeCorrect` and `AmountsAreSwept` need nothing else: the amount of a row is
the sum of its sweeps in saved blocks, and a block's sweeps are added to it before the block counts as saved
(`AmountsUnion`). Under `SafeTiming == SendDelay + ExpireDelay =< BlockGap + 2`:
`ScannerGoesOn`, `OneWithdrawalUnderWay`, `NoPaymentForgotten`. The core of `IInv`: what the expiration
processor gave up, no later block executes (`ExpiryInv`); a sweep is younger than the payment that
caused its row (`SweepInv`); the withdrawal under way is the newest of its deposit (`LastInv`), and a
task stays valid until it is carried out (`TaskInv`).

**JettonWithdrawalsProofs.** `TypeCorrect` needs nothing else; `ScannerGoesOn`, `OneWithdrawalUnderWay` and
`AmountsAreTransferred` need `SafeTiming == ExpireDelay =< BlockGap + 1`, and all four allow any transfers of
others. A batch has many memos, so `IInv`
first says where each memo is: in the processor's batch with or without a row (`BatchInv`), in one message
on its way (`SentInv`), between hot wallet and Jetton wallet (`TransitInv`), and that the hot wallet sends
for it once and before `expired_at` (`SendingInv`) and the Jetton wallet ends it once and afterwards
(`EndInv`). `ColumnInv` says that `sending_lt` and `finish_lt` are set exactly by the saved blocks, and
`FailedInv` that a failed withdrawal has ended or can never be executed (`Over`) unless somebody else's transfer
has marked it (`Undisturbed`); this is where `SafeTiming` is used. From this `BlockIsPossible` concludes that an
undisturbed block is never refused, in any order of its accounts. `TaskInv` keeps a deposit free from the query to the INSERT of its row, while other rows of the
batch are inserted (`Free`), and `LastInv` is as for TON deposits.

`NoPaymentForgotten` (`NothingStranded`) compares sums, and needs a second invariant `HeldInv` on top of `IInv`.
`Held(n, d)` is what the first `n` transactions leave on deposit `d`: the payments minus the transfers.
`BalanceInv` says that the balance after each transaction (`left`) is `Held` there and never negative, `RecordInv`
that the tables have the payments of the saved blocks. The core is `ValueInv`: the value in a message that is not
`stale` is what was held at some moment not before `since_lt`, and the message's own transfer comes later. So a transfer takes all that was held at
that moment, and what stays afterwards are payments younger than `since_lt`, which the query finds.

**Jetton incomes** (end of `JettonWithdrawalsProofs`, about the instance `Incomes` of `JettonIncomes`). For any
number and amounts of transactions and wherever the blocks end, rows and events keep their types
(`IncomesTypeCorrect`) and each payment in a saved block has a row with its own lt (`EveryPaymentIsKnown`).
If no address of the service pays to the deposit (`NoOwnTransfer`), the recorded amounts add up to exactly
the payments (`IncomesAreExact`). The inductive invariant `IncomesIInv` does not need that condition: recorded
is the total of all payments, those from the service's own addresses included. This is just what
`service_transfer` shows, and why the condition is needed. `Parameters` is the module's assumption on
its constants, repeated as a hypothesis since an instance does not inherit it.

**DepositsProofs.** Needs only `IdAssumption`. One handler is past the mutex, and while it searches, the
greatest id it read stays the greatest (`MutexInv`), hence `IdsAreFree`. The owner of a Jetton deposit is in
the tables, and in the book, no later than the deposit (`HandlerInv`, `BookInv`), hence `OwnerAlwaysKnown`.
An address is in the book before it is answered, and the customer pays after that, so a block that holds
the payment is filtered with a book that holds the address (`ScanInv`, `PaymentInv`), and the scanner's
cursor is the last saved block or one ahead of it, so no block is left out: `NoPaymentMissed`.

**ServiceWithdrawalsProofs.** A row is marked before its message is handed over (`HandedInv`), and a marked
row is in no query; the batch (`HotInv`) and the list of tasks (`TaskInv`) hold rows that are not marked yet,
but for the one being sent: `NeverTwice`. `PlaceInv` names the place of every saved request: `NoRequestLost`.
`TransferCovered` speaks of messages on their way only; `CoverInv` says the same from the moment the amount
is read, when the deposit has left the sweeps' book (`TransfersFindTheirJettons`).

**HotWalletProofs.** Needs `TimeAssumption`: `Period > Lifetime + ViewLag`. A message expires, and a node's
answer forgets the balance before it, while the processor sleeps; hence after the sleep no message can be
executed (`MessageInv`), no answer is too high (`NodeInv`), and what the batch costs and what is left of the
answers are covered together (`CostInv`). A message that can be executed is the only one, and the expiration
processor does not give its requests back (`LiveInv`). `RecipientInv` follows the recipients through the
three queries, `QueueInv` says why a request that the loop has passed is not in the batch; the sizes of
sets in it (`Limit`) rest on the library's theorems about finite sets. Theorems: `MessagesAreCovered`,
`OneMessagePerRecipient`, `LeftOutForAReason`, `ResidualStays`.

**Aggregates.** `Min` and `Max` of the community modules choose a least and a greatest element, from the
library's theorem that a well-founded relation has minimal elements. The same theorem gives induction for a
*set* of naturals (`SetOfNaturalsInduction`), where the library's own principles take an operator as a
parameter and cannot be used. With it: the equation of the fold behind a sum has one solution
(`SolutionExists`, `SolutionsAgree`), which does not depend on the order of the elements
(`SolutionAnyElement`), so a sum grows by the element that is added (`SumAdd`) and is additive
(`SumUnion`, `AmountsUnion`, `AmountsConcat`). Powers of two rest on the library's theorem that a set of `n`
elements has `2^n` subsets (`PowerCounts`, `PowerStep`, `PowerSum`).

The conditions named `SafeTiming` are not guaranteed by the code: the delays are limited by
timeouts of 3 s and 120 s, the distance of blocks by the chain. See section 6.

Only model-checked:

* `CatchesUp` and `NotStarved`: liveness under fairness.

Every invariant of the passing runs is proved, `SafeTiming` or `NoOwnTransfer` given where it says so above.

## 6. Findings

* `slow_expiry` (`db.go:1034`): `SetExpired` reads the clock anew, up to three seconds after the sync
  check. If that exceeds the distance of two blocks, a message that the next block
  still executes is marked failed, and the scanner stops with "invalid behavior of the expiration
  processor".
* `slow_send` (`withdrawal_processor.go:529`): a sweep's `expired_at` and the message's `valid_until` are
  assumed to be "very close"; network calls of up to the loop's 120 seconds lie between them.
* `service_transfer` (`block_scanner.go:1046`): a comment says that transfers from the service's
  own addresses are not interpreted as unknown incomes; the in message's classification does just that.
* `listed` (`db.go:97`): the rows of a deposit are committed before the address book learns of it, and the
  list of a user's addresses is read from the tables. Until the book is updated, or until the next
  start if the call ended in between, a listed address can be paid and the payment is not recorded.

Three behaviours that the properties name as exceptions, and that a reader of the code should know of (section 3):
the scanner stops for good when TONs were paid to an address that then became the owner of a Jetton deposit
(`FatalOnlyForOwner`), and when somebody else's Jetton transfer to a deposit's Jetton wallet fails (`NoOwnFatal`);
a sweep whose balance was answered from an old state leaves a payment behind until the next one arrives
(`NothingStranded`), though the comment at `blockchain.go:514` promises the balance of the last block.

## 7. Not modelled

* Internal incomes, statistics: planned, section 2.
* The three attempts of the webhook: whether the request's body can be sent again is a matter of the
  HTTP library; a failed notification is a stop of the service in `ShardTracker` and `Deposits`.
* A Jetton transfer bounced by the recipient's wallet, and a Jetton wallet that never receives the
  proxy's message: the chain of `JettonWithdrawals` delivers it. See the hazards.
* Failed Jetton transfers of others with the memo of a TON sweep: see section 3.
* Gas on top of the amounts, deployment of wallets, and a seed that changes between two starts.
* Encoding of messages and cells, authorization, proofs of blocks, trusted sources, rate limits,
  configuration, metrics and audit log: input, output or cryptography without state of their own.
* Test utilities: not part of the service.

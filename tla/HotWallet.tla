----------------------------- MODULE HotWallet -----------------------------
(***************************************************************************)
(* The hot wallet's balances: how the withdrawals processor reads them,    *)
(* moves the surplus to the cold wallet and fills a batch, task by task,   *)
(* with service withdrawals, sweeps of Jetton deposits and external        *)
(* withdrawals, as long as the balances it has read last.  The balances    *)
(* are those of a node, which lags behind the chain; the batch before may  *)
(* have been executed just now, or may still be on its way.                *)
(*                                                                         *)
(* What happens to a request after its batch is sent is the subject of     *)
(* ExternalWithdrawals and is abstract here.  Addresses are numbers, in    *)
(* the order of the bytes the database sorts by.                           *)
(***************************************************************************)
EXTENDS Integers, FiniteSets

CONSTANTS
  MaxQuery,        \* bound on the number of requests
  Jetton,          \* currencies besides TON
  Owner,           \* addresses of the address book: TON deposits and proxies
  Dest, Cold,      \* destinations of clients' requests, the cold wallet's address
  MaxAmount,       \* bound on the amount of a client's request
  MaxBalance,      \* per currency, bound on the hot wallet's balance
  Fee,             \* config.JettonTransferTonAmount
  HotWalletMax,    \* per currency, hot_wallet_max_balance
  Residual,        \* per currency, hot_wallet_residual_balance
  Limit,           \* 250
  Lifetime,        \* config.ExternalMessageLifetime
  Period,          \* config.ExternalWithdrawalPeriod
  ViewLag,         \* how long a transaction may not show in a node's balances
  MaxTime          \* bound on the clock

TonSymbol == "TON"
Currency == Jetton \cup {TonSymbol}
Query == 1..MaxQuery
Time == 0..MaxTime

ASSUME SetAssumption ==
  /\ MaxQuery \in Nat /\ MaxTime \in Nat
  /\ TonSymbol \notin Jetton
  /\ Owner \subseteq Nat /\ Dest \subseteq Nat /\ Cold \in Nat \ Owner

ASSUME AmountAssumption ==
  /\ MaxAmount \in Nat /\ Fee \in Nat /\ Limit \in Nat
  /\ MaxBalance \in [Currency -> Nat]
  /\ HotWalletMax \in [Currency -> Nat] /\ Residual \in [Currency -> Nat]
  /\ \A c \in Currency : Residual[c] =< HotWalletMax[c]

\* config.go: ExternalWithdrawalPeriod > ExternalMessageLifetime and some time
\* for the update of the balances.
ASSUME TimeAssumption ==
  /\ Lifetime \in Nat /\ ViewLag \in Nat /\ Period \in Nat
  /\ Period > Lifetime + ViewLag

VARIABLES
  now,               \* the service's clock
  (* table withdrawal_requests *)
  saved, cur, dest, amount,
  cold,              \* requests with is_internal = true
  processing, processed,
  until,             \* expired_at of the newest row of a request
  (* the chain *)
  balance,           \* the hot wallet's balances
  shown, staleSince, \* what a node may still answer, and since when it differs
  inflight,          \* batch messages that may still be executed
  paid,              \* requests paid by a message, not yet seen by the scanner
  taken,             \* per cold request, what others took since it was saved
  (* the withdrawals processor *)
  wpc, wake,         \* its step, and the end of its sleep
  tonBalance, todo,  \* makeColdWalletWithdrawals: TONs left, Jettons to look at
  left,              \* buildWithdrawalMessages: balances
  tasks, open,       \* tasks of the current query; requests when it was made
  batch, total,      \* messages, and what they cost
  exp                \* expiration time inside the message

requests  == <<saved, cur, dest, amount, cold, processing, processed, until>>
chain     == <<balance, shown, staleSince, inflight, paid, taken>>
coldLocal == <<tonBalance, todo>>
building  == <<left, tasks, open, batch, total>>
vars == <<now, requests, chain, wpc, wake, coldLocal, building, exp>>

Nothing == [c \in Currency |-> 0]
Plus(f, g) == [c \in Currency |-> f[c] + g[c]]
Minus(f, g) == [c \in Currency |-> f[c] - g[c]]

Init ==
  /\ now = 0
  /\ saved = {} /\ cold = {} /\ processing = {} /\ processed = {}
  /\ cur = [q \in Query |-> TonSymbol] /\ dest = [q \in Query |-> Cold]
  /\ amount = [q \in Query |-> 0] /\ until = [q \in Query |-> 0]
  /\ balance = Nothing /\ shown = Nothing /\ staleSince = 0
  /\ inflight = {} /\ paid = {} /\ taken = [q \in Query |-> 0]
  /\ wpc = "sync" /\ wake = 0 /\ tonBalance = 0 /\ todo = {}
  /\ left = Nothing /\ tasks = {} /\ open = {} /\ batch = {} /\ total = Nothing /\ exp = 0

-----------------------------------------------------------------------------
(* Requests. *)

\* An INSERT with the next value of the query_id serial.
SaveWithdrawalRequest(c, a, n, isInternal) ==
  \E q \in Query \ saved :
    /\ \A p \in Query : p < q => p \in saved
    /\ saved' = saved \cup {q}
    /\ cur' = [cur EXCEPT ![q] = c]
    /\ dest' = [dest EXCEPT ![q] = a]
    /\ amount' = [amount EXCEPT ![q] = n]
    /\ cold' = IF isInternal THEN cold \cup {q} ELSE cold
    /\ UNCHANGED <<processing, processed, until>>

\* A client's request.  Its destination may become a deposit later, so it may
\* be in the address book.
SendWithdrawal(c, a, n) ==
  /\ SaveWithdrawalRequest(c, a, n, FALSE)
  /\ UNCHANGED <<now, chain, wpc, wake, coldLocal, building, exp>>

-----------------------------------------------------------------------------
(* The withdrawals processor: wait for sync, sleep, cold wallet, batch. *)

WaitSync ==
  /\ wpc = "sync"
  /\ wpc' = "sleep" /\ wake' = now + Period
  /\ UNCHANGED <<now, requests, chain, coldLocal, building, exp>>

\* makeColdWalletWithdrawals: the TON balance is read first.
ReadTonBalance ==
  /\ wpc = "sleep" /\ now >= wake
  /\ tonBalance' \in {balance[TonSymbol], shown[TonSymbol]}
  /\ todo' = Jetton
  /\ wpc' = "cold" /\ wake' = 0
  /\ UNCHANGED <<now, requests, chain, building, exp>>

IsInProgressInternalWithdrawalRequest(c) ==
  \E q \in cold \ processed : cur[q] = c /\ dest[q] = Cold

\* (mutant: the residual is not left)
ColdAmountAll(c, b) == b

ColdAmount(c, b) == b - Residual[c]

ColdJetton(c) ==
  /\ wpc = "cold" /\ c \in todo
  /\ todo' = todo \ {c}
  /\ \E b \in {balance[c], shown[c]} :
       IF IsInProgressInternalWithdrawalRequest(c) \/ b =< HotWalletMax[c]
       THEN UNCHANGED <<requests, tonBalance>>
       ELSE /\ SaveWithdrawalRequest(c, Cold, ColdAmount(c, b), TRUE)
            /\ tonBalance' = tonBalance - Fee
  /\ UNCHANGED <<now, chain, wpc, wake, building, exp>>

ColdTon ==
  /\ wpc = "cold" /\ todo = {}
  /\ IF IsInProgressInternalWithdrawalRequest(TonSymbol) \/ tonBalance =< HotWalletMax[TonSymbol]
     THEN UNCHANGED requests
     ELSE SaveWithdrawalRequest(TonSymbol, Cold, ColdAmount(TonSymbol, tonBalance), TRUE)
  /\ wpc' = "balances" /\ tonBalance' = 0
  /\ UNCHANGED <<now, chain, todo, wake, building, exp>>

-----------------------------------------------------------------------------
(* buildWithdrawalMessages. *)

\* What a message takes from the balances: a Jetton withdrawal also takes the
\* TONs for its fee.
Cost(c, n) ==
  [x \in Currency |-> IF x = c THEN n ELSE IF x = TonSymbol THEN Fee ELSE 0]

\* (mutant: the fee of a Jetton withdrawal is not tested)
CoversOneCurrency(b, cost) == \A c \in Jetton : cost[c] > 0 => cost[c] =< b[c]

\* decreaseBalances returns false and decreases the balances if they cover
\* the cost.
Covers(b, cost) == \A c \in Currency : cost[c] =< b[c]

\* Every currency is asked for in a call of its own.  The service tasks, of
\* deposits and proxies, are any.
GetHotWalletBalances(T) ==
  /\ wpc = "balances"
  /\ \E fresh \in SUBSET Currency :
       left' = [c \in Currency |-> IF c \in fresh THEN balance[c] ELSE shown[c]]
  /\ T \subseteq Owner /\ Cardinality(T) =< Limit
  /\ tasks' = T /\ wpc' = "service"
  /\ UNCHANGED <<now, requests, chain, wake, coldLocal, open, batch, total, exp>>

Lowest(S) == {a \in S : \A b \in S : a =< b}

\* (mutant: the fee of the message is not taken from the balances)
AddFillingFree(kind, o, some) ==
  /\ UNCHANGED left
  /\ IF some
     THEN /\ batch' = batch \cup {<<kind, o>>}
          /\ total' = Plus(total, Cost(TonSymbol, Fee))
     ELSE UNCHANGED <<batch, total>>

\* Adds a message to the batch, or leaves it out when there is nothing to
\* withdraw from the wallet: then the balances are decreased all the same.
AddFilling(kind, o, some) ==
  /\ left' = Minus(left, Cost(TonSymbol, Fee))
  /\ IF some
     THEN /\ batch' = batch \cup {<<kind, o>>}
          /\ total' = Plus(total, Cost(TonSymbol, Fee))
     ELSE UNCHANGED <<batch, total>>

ServiceTask(o, some) ==
  /\ wpc = "service" /\ o \in Lowest(tasks)
  /\ tasks' = tasks \ {o}
  /\ IF Covers(left, Cost(TonSymbol, Fee))
     THEN AddFilling("service", o, some)
     ELSE UNCHANGED <<left, batch, total>>
  /\ UNCHANGED <<now, requests, chain, wpc, wake, coldLocal, open, exp>>

UsedAddresses == {m[2] : m \in batch}

\* (mutant: proxies with a service withdrawal are not excluded)
GetJettonInternalWithdrawalTasksAny(T) ==
  /\ wpc = "service" /\ tasks = {}
  /\ T \subseteq Owner /\ Cardinality(T) =< Limit
  /\ tasks' = T /\ wpc' = "internal"
  /\ UNCHANGED <<now, requests, chain, wake, coldLocal, left, open, batch, total, exp>>

GetJettonInternalWithdrawalTasks(T) ==
  /\ wpc = "service" /\ tasks = {}
  /\ T \subseteq Owner \ UsedAddresses /\ Cardinality(T) =< Limit
  /\ tasks' = T /\ wpc' = "internal"
  /\ UNCHANGED <<now, requests, chain, wake, coldLocal, left, open, batch, total, exp>>

BatchFull == Cardinality(batch) > Limit

\* Ordered by the amounts paid to the deposits, which are not modelled.
InternalTask(o, some) ==
  /\ wpc = "internal" /\ o \in tasks
  /\ IF BatchFull
     THEN tasks' = {} /\ UNCHANGED <<left, batch, total>>
     ELSE /\ tasks' = tasks \ {o}
          /\ IF Covers(left, Cost(TonSymbol, Fee))
             THEN AddFilling("internal", o, some)
             ELSE UNCHANGED <<left, batch, total>>
  /\ UNCHANGED <<now, requests, chain, wpc, wake, coldLocal, open, exp>>

\* Per destination the oldest request that is not processing; the lowest
\* destinations.
FirstOfDest(S) == {q \in S : \A p \in S : dest[p] = dest[q] => q =< p}

LowerDests(S, q) == {a \in {dest[p] : p \in S} : a < dest[q]}

\* (mutant: one task less than the limit)
GetExternalWithdrawalTasksLess ==
  /\ wpc = "internal" /\ tasks = {}
  /\ open' = saved \ processing
  /\ tasks' = {q \in FirstOfDest(open') : Cardinality(LowerDests(open', q)) < Limit - 1}
  /\ wpc' = "external"
  /\ UNCHANGED <<now, requests, chain, wake, coldLocal, left, batch, total, exp>>

GetExternalWithdrawalTasks ==
  /\ wpc = "internal" /\ tasks = {}
  /\ open' = saved \ processing
  /\ tasks' = {q \in FirstOfDest(open') : Cardinality(LowerDests(open', q)) < Limit}
  /\ wpc' = "external"
  /\ UNCHANGED <<now, requests, chain, wake, coldLocal, left, batch, total, exp>>

IsNextTask(q) == q \in tasks /\ \A p \in tasks : dest[q] =< dest[p]

\* Requests to internal addresses, and those the balances do not cover, are
\* passed over.
ExternalTask(q) ==
  /\ wpc = "external" /\ IsNextTask(q)
  /\ IF BatchFull
     THEN tasks' = {} /\ UNCHANGED <<left, batch, total>>
     ELSE /\ tasks' = tasks \ {q}
          /\ IF dest[q] \in Owner \/ ~Covers(left, Cost(cur[q], amount[q]))
             THEN UNCHANGED <<left, batch, total>>
             ELSE /\ left' = Minus(left, Cost(cur[q], amount[q]))
                  /\ batch' = batch \cup {<<"external", q>>}
                  /\ total' = Plus(total, Cost(cur[q], amount[q]))
  /\ UNCHANGED <<now, requests, chain, wpc, wake, coldLocal, open, exp>>

Body == {q \in Query : <<"external", q>> \in batch}

ForgetBatch ==
  left' = Nothing /\ tasks' = {} /\ open' = {} /\ batch' = {} /\ total' = Nothing /\ exp' = 0

NoMessages ==
  /\ wpc = "external" /\ tasks = {} /\ batch = {}
  /\ wpc' = "sync" /\ ForgetBatch
  /\ UNCHANGED <<now, requests, chain, wake, coldLocal>>

\* The message gets its expiration time and its rows are saved.
CreateWithdrawals ==
  /\ wpc = "external" /\ tasks = {} /\ batch # {}
  /\ exp' = now + Lifetime
  /\ processing' = processing \cup Body
  /\ until' = [q \in Query |-> IF q \in Body THEN exp' ELSE until[q]]
  /\ wpc' = "send"
  /\ UNCHANGED <<now, saved, cur, dest, amount, cold, processed, chain, wake, coldLocal,
                 building>>

SendExternalMessage ==
  /\ wpc = "send"
  /\ inflight' = inflight \cup {[body |-> Body, total |-> total, exp |-> exp]}
  /\ wpc' = "sync" /\ ForgetBatch
  /\ UNCHANGED <<now, requests, balance, shown, staleSince, paid, taken, wake, coldLocal>>

\* The process ends and is started again.
Restart ==
  /\ wpc' = "sync" /\ wake' = 0 /\ tonBalance' = 0 /\ todo' = {} /\ ForgetBatch
  /\ UNCHANGED <<now, requests, chain>>

-----------------------------------------------------------------------------
(* The scanner and the expiration processor, see ExternalWithdrawals. *)

ScanPaid(q) ==
  /\ q \in paid
  /\ paid' = paid \ {q}
  /\ processed' = processed \cup {q}
  /\ UNCHANGED <<now, saved, cur, dest, amount, cold, processing, until, balance, shown,
                 staleSince, inflight, taken, wpc, wake, coldLocal, building, exp>>

\* Nothing is expired that was paid or may still be.
Expire(q) ==
  /\ q \in processing \ (processed \cup paid)
  /\ until[q] < now
  /\ processing' = processing \ {q}
  /\ UNCHANGED <<now, saved, cur, dest, amount, cold, processed, until, chain, wpc, wake,
                 coldLocal, building, exp>>

-----------------------------------------------------------------------------
(* The chain and the node (external). *)

Changed(b) ==
  /\ balance' = b
  /\ staleSince' = IF shown = balance THEN now ELSE staleSince
  /\ UNCHANGED shown

\* The hot wallet executes a message once, until its expiration time.
Execute(m) ==
  /\ m \in inflight /\ now =< m.exp
  /\ Covers(balance, m.total)
  /\ Changed(Minus(balance, m.total))
  /\ inflight' = inflight \ {m}
  /\ paid' = paid \cup m.body
  /\ taken' = [q \in Query |-> IF q \in cold THEN taken[q] + m.total[cur[q]] ELSE taken[q]]
  /\ UNCHANGED <<now, requests, wpc, wake, coldLocal, building, exp>>

MessageExpires(m) ==
  /\ m \in inflight /\ m.exp < now
  /\ inflight' = inflight \ {m}
  /\ UNCHANGED <<now, requests, balance, shown, staleSince, paid, taken, wpc, wake,
                 coldLocal, building, exp>>

\* Sweeps, returned fees and other payments come in.
Income(c) ==
  /\ balance[c] < MaxBalance[c]
  /\ Changed([balance EXCEPT ![c] = @ + 1])
  /\ UNCHANGED <<now, requests, inflight, paid, taken, wpc, wake, coldLocal, building, exp>>

\* A node's answer is at most ViewLag old: then it shows what has changed.
Tick ==
  /\ now < MaxTime
  /\ now' = now + 1
  /\ shown' = IF now' > staleSince + ViewLag THEN balance ELSE shown
  /\ staleSince' = IF shown' = balance THEN 0 ELSE staleSince
  /\ UNCHANGED <<requests, balance, inflight, paid, taken, wpc, wake, coldLocal, building, exp>>

-----------------------------------------------------------------------------
Next ==
  \/ \E c \in Currency, a \in Dest, n \in 1..MaxAmount : SendWithdrawal(c, a, n)
  \/ WaitSync
  \/ ReadTonBalance
  \/ \E c \in Jetton : ColdJetton(c)
  \/ ColdTon
  \/ \E T \in SUBSET Owner : GetHotWalletBalances(T)
  \/ \E o \in Owner, some \in BOOLEAN : ServiceTask(o, some)
  \/ \E T \in SUBSET Owner : GetJettonInternalWithdrawalTasks(T)
  \/ \E o \in Owner, some \in BOOLEAN : InternalTask(o, some)
  \/ GetExternalWithdrawalTasks
  \/ \E q \in Query : ExternalTask(q)
  \/ NoMessages
  \/ CreateWithdrawals
  \/ SendExternalMessage
  \/ Restart
  \/ \E q \in Query : ScanPaid(q)
  \/ \E q \in Query : Expire(q)
  \/ \E m \in inflight : Execute(m)
  \/ \E m \in inflight : MessageExpires(m)
  \/ \E c \in Currency : Income(c)
  \/ Tick

Spec == Init /\ [][Next]_vars

-----------------------------------------------------------------------------
(* Properties. *)

\* Types of the table, the chain and the processor's local state; the balances
\* that decreaseBalances works on never become negative.
TypeOK ==
  /\ now \in Time
  /\ saved \subseteq Query /\ cold \subseteq saved
  /\ processing \subseteq saved /\ processed \subseteq processing
  /\ cur \in [Query -> Currency] /\ dest \in [Query -> Dest \cup {Cold}]
  /\ amount \in [Query -> Nat] /\ until \in [Query -> Nat]
  /\ balance \in [Currency -> Nat] /\ shown \in [Currency -> Nat] /\ staleSince \in Time
  /\ inflight \subseteq [body : SUBSET saved, total : [Currency -> Nat], exp : Nat]
  /\ paid \subseteq processing /\ taken \in [Query -> Nat]
  /\ wpc \in {"sync", "sleep", "cold", "balances", "service", "internal", "external", "send"}
  /\ wake \in Nat /\ tonBalance \in Int /\ todo \subseteq Jetton
  /\ left \in [Currency -> Nat] /\ total \in [Currency -> Nat] /\ exp \in Nat
  /\ open \subseteq saved
  /\ tasks \subseteq IF wpc = "external" THEN saved ELSE Owner

\* Whenever the hot wallet can execute a message, it has what the message
\* sends, in every currency and with the fees of Jetton transfers: the batch
\* was built from balances that already showed the batch before it, or that
\* one can no longer be executed.  A restart in between changes nothing.
BatchCovered ==
  \A m \in inflight : now =< m.exp => Covers(balance, m.total)

Recipient(m) == IF m[1] = "external" THEN dest[m[2]] ELSE m[2]

\* No two messages of a batch have the same recipient, by which the scanner
\* tells them apart: it stops for ever if they have.
RecipientsDistinct ==
  \A m, n \in batch : Recipient(m) = Recipient(n) => m = n

\* A request that waited when the query was made and is left out of the batch
\* has an older one to the same destination before it, has an internal
\* destination, is not covered by what the batch leaves, or is kept out by a
\* limit: the batch is full, or there are Limit lower destinations.
NobodyPassedOver ==
  (wpc = "external" /\ tasks = {}) =>
    \A q \in open \ Body :
      \/ q \notin FirstOfDest(open)
      \/ dest[q] \in Owner
      \/ ~Covers(left, Cost(cur[q], amount[q]))
      \/ BatchFull
      \/ Cardinality(LowerDests(open, q)) >= Limit

\* A withdrawal to the cold wallet leaves the residual balance, less what
\* other messages took since the amount was computed: the amount of a request
\* that waits is not computed anew.
ResidualLeft ==
  \A q \in cold \ (processed \cup paid) :
    balance[cur[q]] - amount[q] >= Residual[cur[q]] - taken[q]
=============================================================================

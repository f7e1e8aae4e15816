------------------------ MODULE ServiceWithdrawals ------------------------
(***************************************************************************)
(* Service withdrawals: an operator moves to the hot wallet what was sent  *)
(* by mistake: TONs on a proxy contract, Jettons of an unexpected kind on  *)
(* a proxy contract, Jettons on a TON deposit.  The last case takes two    *)
(* messages of two processors: the hot wallet fills the deposit with TONs  *)
(* for the fee, then the deposit itself transfers the Jettons.             *)
(*                                                                         *)
(* Addresses are numbers, in the order of the bytes the database sorts by. *)
(* TONs matter only as there being some or none: a deposit without TONs    *)
(* has no account.                                                         *)
(***************************************************************************)
EXTENDS Integers, FiniteSets

CONSTANTS
  MaxRequests,   \* bound on the number of requests
  Deposit,       \* TON deposits
  Proxy,         \* proxy contracts, owners of Jetton deposits
  Master,        \* Jetton masters
  NoMaster,      \* jetton_master is null: a request for TONs
  HotLimit,      \* the limit of GetServiceHotWithdrawalTasks
  DepositLimit,  \* the limit of GetServiceDepositWithdrawalTasks
  MaxJettons,    \* bound on the Jettons of a wallet
  MaxRestarts    \* bound on the number of restarts

Owner == Deposit \cup Proxy
Wallet == Owner \X Master

ASSUME SetAssumption ==
  /\ Owner \subseteq Nat /\ Deposit \cap Proxy = {}
  /\ NoMaster \notin Master

ASSUME BoundAssumption ==
  /\ MaxRequests \in Nat /\ MaxJettons \in Nat /\ MaxRestarts \in Nat
  /\ HotLimit \in Nat \ {0} /\ DepositLimit \in Nat \ {0}

VARIABLES
  (* table service_withdrawal_requests; a request is numbered as it is saved *)
  requests,       \* how many there are
  from, master,   \* from_address, jetton_master
  jettonAmount,   \* jetton_amount
  filled,         \* requests with filled = true
  processed,      \* requests with processed = true
  book,           \* the Jetton wallets of proxies that are Jetton deposits
  (* the withdrawals processor: its batch, and the requests already updated *)
  wpc, batch, updated,
  (* the processor of TON deposits: its tasks *)
  dpc, tasks,
  (* the chain and the messages on their way to it *)
  ton,            \* owners with TONs
  jettons,        \* the Jettons of every Jetton wallet
  batches,        \* batch messages of the hot wallet
  transfers,      \* messages to deposits, by their request
  executed,       \* requests whose Jetton transfer was executed
  (* history *)
  handed,         \* per request, how often a message to withdraw was handed over
  rejected,       \* requests for which nothing was found
  dropped,        \* requests whose message a restart has dropped
  restarts

table   == <<requests, from, master, jettonAmount, filled, processed>>
hot     == <<wpc, batch, updated>>
deposit == <<dpc, tasks>>
chain   == <<ton, jettons, batches, transfers, executed>>
history == <<handed, rejected, dropped>>
vars == <<table, book, hot, deposit, chain, history, restarts>>

Request == 1..MaxRequests
Saved == 1..requests

Kind == {"filling", "TONs", "Jettons"}
Message == [request : Request, kind : Kind, amount : 0..MaxJettons]

WalletOf(r) == <<from[r], master[r]>>

Init ==
  /\ requests = 0
  /\ from = [r \in Request |-> 0] /\ master = [r \in Request |-> NoMaster]
  /\ jettonAmount = [r \in Request |-> 0] /\ filled = {} /\ processed = {}
  /\ book \in SUBSET (Proxy \X Master)
  /\ wpc = "idle" /\ batch = {} /\ updated = {}
  /\ dpc = "idle" /\ tasks = {}
  /\ ton = {} /\ jettons = [w \in Wallet |-> 0]
  /\ batches = {} /\ transfers = {} /\ executed = {}
  /\ handed = [r \in Request |-> 0] /\ rejected = {} /\ dropped = {}
  /\ restarts = 0

-----------------------------------------------------------------------------
(* The endpoints. *)

SaveServiceWithdrawalRequest(a, m) ==
  /\ requests < MaxRequests
  /\ requests' = requests + 1
  /\ from' = [from EXCEPT ![requests'] = a]
  /\ master' = [master EXCEPT ![requests'] = m]
  /\ UNCHANGED <<jettonAmount, filled, processed, book, hot, deposit, chain, history, restarts>>

\* TONs are withdrawn from owners of Jetton deposits only.
ServiceTonWithdrawal(a) ==
  a \in Proxy /\ SaveServiceWithdrawalRequest(a, NoMaster)

ServiceJettonWithdrawal(a, m) ==
  a \in Owner /\ SaveServiceWithdrawalRequest(a, m)

-----------------------------------------------------------------------------
(* The queries.  DISTINCT ON the address leaves open which request of an   *)
(* address is returned; the lowest addresses come first.                   *)

Lowest(n, S) == {a \in S : Cardinality({b \in S : b < a}) < n}

AddressesOf(R) == {from[r] : r \in R}

\* The answers the query may give for the rows R.
DistinctOnAddress(R, limit) ==
  {T \in SUBSET R :
     /\ \A r, s \in T : from[r] = from[s] => r = s
     /\ AddressesOf(T) = Lowest(limit, AddressesOf(R))}

HotRows == {r \in Saved : r \notin processed /\ r \notin filled}

DepositRows == {r \in Saved : r \notin processed /\ r \in filled /\ from[r] \in Deposit}

GetServiceHotWithdrawalTasks == DistinctOnAddress(HotRows, HotLimit)

\* (mutant: one task less than the limit)
GetServiceDepositWithdrawalTasksLess == DistinctOnAddress(DepositRows, DepositLimit - 1)

GetServiceDepositWithdrawalTasks == DistinctOnAddress(DepositRows, DepositLimit)

-----------------------------------------------------------------------------
(* The withdrawals processor. *)

\* (mutant: the wallet of a Jetton deposit is not refused)
NothingToWithdrawAny(r) ==
  IF master[r] = NoMaster THEN from[r] \notin ton ELSE jettons[WalletOf(r)] = 0

\* A request is refused when the balance is zero, or when the wallet is that
\* of a Jetton deposit, which has withdrawals of its own.
NothingToWithdraw(r) ==
  IF master[r] = NoMaster THEN from[r] \notin ton
  ELSE WalletOf(r) \in book \/ jettons[WalletOf(r)] = 0

BuildServiceWithdrawalMessage(r) ==
  [request |-> r,
   kind |-> IF from[r] \in Deposit THEN "filling"
            ELSE IF master[r] = NoMaster THEN "TONs" ELSE "Jettons",
   amount |-> IF master[r] = NoMaster THEN 0 ELSE jettons[WalletOf(r)]]

\* The hot wallet pays the fee of the first tasks only, as far as its TONs go
\* (n).  Refused requests are saved as processed at once.
BuildWithdrawalMessages(n) ==
  /\ wpc = "idle"
  /\ \E T \in GetServiceHotWithdrawalTasks :
       LET paid == {r \in T : from[r] \in Lowest(n, AddressesOf(T))}
           refused == {r \in paid : NothingToWithdraw(r)}
       IN /\ batch' = {BuildServiceWithdrawalMessage(r) : r \in paid \ refused}
          /\ processed' = processed \cup refused
          /\ rejected' = rejected \cup refused
  /\ wpc' = IF batch' = {} THEN "idle" ELSE "update"
  /\ UNCHANGED <<requests, from, master, jettonAmount, filled, updated, book, deposit, chain, handed,
                 dropped, restarts>>

\* (mutant: a filled request is processed as well)
SetFlagsAlways(r, isFilled) ==
  /\ processed' = processed \cup {r}
  /\ filled' = IF isFilled THEN filled \cup {r} ELSE filled \ {r}

\* processed = not filled
SetFlags(r, isFilled) ==
  /\ processed' = IF isFilled THEN processed \ {r} ELSE processed \cup {r}
  /\ filled' = IF isFilled THEN filled \cup {r} ELSE filled \ {r}

UpdateServiceWithdrawalRequest(r, amount, isFilled) ==
  /\ jettonAmount' = [jettonAmount EXCEPT ![r] = amount]
  /\ SetFlags(r, isFilled)
  /\ UNCHANGED <<requests, from, master>>

UpdateService(m) ==
  /\ wpc = "update" /\ m \in batch /\ m.request \notin updated
  /\ UpdateServiceWithdrawalRequest(m.request, m.amount, m.kind = "filling")
  /\ updated' = updated \cup {m.request}
  /\ UNCHANGED <<wpc, batch, book, deposit, chain, history, restarts>>

Withdrawn(R) == [r \in Request |-> IF r \in R THEN handed[r] + 1 ELSE handed[r]]

\* (mutant: the batch goes out before the requests are updated)
SendExternalMessageEarly ==
  /\ wpc = "update"
  /\ batches' = batches \cup {batch}
  /\ handed' = Withdrawn({m.request : m \in {n \in batch : n.kind # "filling"}})
  /\ wpc' = "idle" /\ batch' = {} /\ updated' = {}
  /\ UNCHANGED <<table, book, deposit, ton, jettons, transfers, executed, rejected, dropped, restarts>>

SendExternalMessage ==
  /\ wpc = "update" /\ updated = {m.request : m \in batch}
  /\ batches' = batches \cup {batch}
  /\ handed' = Withdrawn({m.request : m \in {n \in batch : n.kind # "filling"}})
  /\ wpc' = "idle" /\ batch' = {} /\ updated' = {}
  /\ UNCHANGED <<table, book, deposit, ton, jettons, transfers, executed, rejected, dropped, restarts>>

-----------------------------------------------------------------------------
(* The processor of TON deposits: service tasks, one after the other. *)

GetTasks ==
  /\ dpc = "idle"
  /\ tasks' \in GetServiceDepositWithdrawalTasks
  /\ tasks' # {}
  /\ dpc' = "check"
  /\ UNCHANGED <<table, book, hot, chain, history, restarts>>

IsNextTask(r) == r \in tasks /\ \A s \in tasks : from[r] =< from[s]

\* Without an account there is nothing to send from; the task stays a task.
SkipTask(r) ==
  /\ dpc = "check" /\ IsNextTask(r)
  /\ from[r] \notin ton
  /\ tasks' = tasks \ {r}
  /\ dpc' = IF tasks' = {} THEN "idle" ELSE "check"
  /\ UNCHANGED <<table, book, hot, chain, history, restarts>>

UpdateTask(r) ==
  /\ dpc = "check" /\ IsNextTask(r)
  /\ from[r] \in ton
  /\ UpdateServiceWithdrawalRequest(r, jettonAmount[r], FALSE)
  /\ dpc' = "send"
  /\ UNCHANGED <<tasks, book, hot, chain, history, restarts>>

\* An error is only logged.
WithdrawJettons(r) ==
  /\ dpc = "send" /\ IsNextTask(r)
  /\ transfers' = transfers \cup {r}
  /\ handed' = Withdrawn({r})
  /\ tasks' = tasks \ {r}
  /\ dpc' = IF tasks' = {} THEN "idle" ELSE "check"
  /\ UNCHANGED <<table, book, hot, ton, jettons, batches, executed, rejected, dropped, restarts>>

\* The process ends and is started again.
Restart ==
  /\ restarts < MaxRestarts
  /\ restarts' = restarts + 1
  /\ dropped' = dropped \cup updated \cup (IF dpc = "send" THEN {r \in tasks : IsNextTask(r)} ELSE {})
  /\ wpc' = "idle" /\ batch' = {} /\ updated' = {}
  /\ dpc' = "idle" /\ tasks' = {}
  /\ UNCHANGED <<table, book, chain, handed, rejected>>

-----------------------------------------------------------------------------
(* The chain (external). *)

\* A transfer takes the Jettons if there are enough, and is refused if not.
Take(w, amount, bal) == IF bal[w] >= amount THEN [bal EXCEPT ![w] = @ - amount] ELSE bal

\* A batch is executed, once, by the hot wallet, or expires (outs is empty).
\* A proxy sends on all it has.
ExecuteBatch(b, outs) ==
  /\ b \in batches /\ outs \subseteq b
  /\ batches' = batches \ {b}
  /\ LET fills == {from[m.request] : m \in {n \in outs : n.kind = "filling"}}
         proxies == {from[m.request] : m \in {n \in outs : n.kind # "filling"}}
         moves == {m \in outs : m.kind = "Jettons"}
     IN /\ ton' = (ton \cup fills) \ proxies
        /\ jettons' = [w \in Wallet |->
             IF \E m \in moves : WalletOf(m.request) = w /\ jettons[w] >= m.amount
             THEN jettons[w] - (CHOOSE m \in moves : WalletOf(m.request) = w).amount
             ELSE jettons[w]]
        /\ executed' = executed \cup {m.request : m \in moves}
  /\ UNCHANGED <<table, book, hot, deposit, transfers, history, restarts>>

\* The deposit sends all its TONs with the transfer and is destroyed, so the
\* same message may be executed again; a refused transfer gives them back.
ExecuteTransfer(r) ==
  /\ r \in transfers /\ from[r] \in ton
  /\ ton' = IF jettons[WalletOf(r)] >= jettonAmount[r] THEN ton \ {from[r]} ELSE ton
  /\ jettons' = Take(WalletOf(r), jettonAmount[r], jettons)
  /\ executed' = executed \cup {r}
  /\ UNCHANGED <<table, book, hot, deposit, batches, transfers, history, restarts>>

TransferExpires(r) ==
  /\ r \in transfers
  /\ transfers' = transfers \ {r}
  /\ UNCHANGED <<table, book, hot, deposit, ton, jettons, batches, executed, history, restarts>>

\* TONs or Jettons arrive, by mistake or for other reasons.
PayTons(a) ==
  /\ a \notin ton
  /\ ton' = ton \cup {a}
  /\ UNCHANGED <<table, book, hot, deposit, jettons, batches, transfers, executed, history, restarts>>

PayJettons(w) ==
  /\ jettons[w] < MaxJettons
  /\ jettons' = [jettons EXCEPT ![w] = @ + 1]
  /\ UNCHANGED <<table, book, hot, deposit, ton, batches, transfers, executed, history, restarts>>

\* An internal withdrawal takes all TONs of a deposit, or all Jettons of a
\* Jetton deposit.
SweepTons(a) ==
  /\ a \in ton \cap Deposit
  /\ ton' = ton \ {a}
  /\ UNCHANGED <<table, book, hot, deposit, jettons, batches, transfers, executed, history, restarts>>

SweepJettons(w) ==
  /\ w \in book /\ jettons[w] > 0
  /\ jettons' = [jettons EXCEPT ![w] = 0]
  /\ UNCHANGED <<table, book, hot, deposit, ton, batches, transfers, executed, history, restarts>>

-----------------------------------------------------------------------------
Next ==
  \/ \E a \in Owner : ServiceTonWithdrawal(a)
  \/ \E a \in Owner, m \in Master : ServiceJettonWithdrawal(a, m)
  \/ \E n \in 0..MaxRequests : BuildWithdrawalMessages(n)
  \/ \E m \in batch : UpdateService(m)
  \/ SendExternalMessage
  \/ GetTasks
  \/ \E r \in tasks : SkipTask(r)
  \/ \E r \in tasks : UpdateTask(r)
  \/ \E r \in tasks : WithdrawJettons(r)
  \/ Restart
  \/ \E b \in batches : \E outs \in SUBSET b : ExecuteBatch(b, outs)
  \/ \E r \in transfers : ExecuteTransfer(r)
  \/ \E r \in transfers : TransferExpires(r)
  \/ \E a \in Owner : PayTons(a)
  \/ \E w \in Wallet : PayJettons(w)
  \/ \E a \in Deposit : SweepTons(a)
  \/ \E w \in Wallet : SweepJettons(w)

Spec == Init /\ [][Next]_vars

DepositStep ==
  GetTasks \/ \E r \in Request : SkipTask(r) \/ UpdateTask(r) \/ WithdrawJettons(r)

\* The goroutine of the TON deposits keeps running.
FairSpec == Spec /\ WF_vars(DepositStep)

-----------------------------------------------------------------------------
(* Properties. *)

\* Types of the table, the processors' local state and the chain; the two flags
\* of a row are never both set.
TypeOK ==
  /\ requests \in 0..MaxRequests /\ from \in [Request -> Owner \cup {0}]
  /\ master \in [Request -> Master \cup {NoMaster}]
  /\ jettonAmount \in [Request -> 0..MaxJettons]
  /\ filled \subseteq Saved /\ processed \subseteq Saved /\ filled \cap processed = {}
  /\ book \subseteq Wallet
  /\ wpc \in {"idle", "update"} /\ batch \subseteq Message /\ updated \subseteq Saved
  /\ dpc \in {"idle", "check", "send"} /\ tasks \subseteq Saved
  /\ ton \subseteq Owner /\ jettons \in [Wallet -> 0..MaxJettons]
  /\ batches \subseteq SUBSET Message /\ transfers \subseteq Saved /\ executed \subseteq Saved
  /\ handed \in [Request -> Nat] /\ rejected \subseteq Saved /\ dropped \subseteq Saved
  /\ restarts \in 0..MaxRestarts

\* No request is carried out by two messages, wherever the process stops: a
\* request is marked before its message is sent, so a restart never repeats it.
WithdrawnAtMostOnce == \A r \in Request : handed[r] =< 1

\* A request never disappears: it is still a task of one of the two queries, or
\* its message was sent, or nothing was found for it, or the process ended
\* between the update of the row and the sending.
RequestsAccountedFor ==
  \A r \in Saved :
    r \in HotRows \cup DepositRows \cup updated \cup tasks \cup rejected \cup dropped
      \/ handed[r] = 1

PendingTransfer(r) ==
  \/ r \in transfers
  \/ \E b \in batches : \E m \in b : m.request = r /\ m.kind = "Jettons"

\* The amount of a transfer, read when its message was built (for a TON deposit
\* before the filling), is still there when the transfer is executed, unless
\* another request took from the same Jetton wallet.  Sweeps of Jetton
\* deposits, which run beside it, never compete with a service withdrawal.
TransferCovered ==
  \A r \in Saved \ executed :
    /\ PendingTransfer(r)
    /\ \A s \in Saved \ {r} : WalletOf(s) # WalletOf(r)
    => jettonAmount[r] =< jettons[WalletOf(r)]

Crowded(r) ==
  Cardinality({a \in AddressesOf(DepositRows) : a < from[r]}) >= DepositLimit

\* A filled request waits for ever on a deposit that has an account only if
\* at least DepositLimit lower addresses are tasks again and again: those whose
\* filling was lost stay at the head of the query.
NotStarved ==
  \A r \in Request :
    <>[](r \in DepositRows /\ from[r] \in ton) => []<>Crowded(r)
=============================================================================

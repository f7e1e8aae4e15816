------------------------ MODULE ExternalWithdrawals ------------------------
(***************************************************************************)
(* External withdrawals: from a saved request, through the hot wallet's    *)
(* batch message and the block scanner, to a settled request.  The         *)
(* concurrent parts are the API, the withdrawals processor, the expiration *)
(* processor, the block scanner and the blockchain; they share the         *)
(* database.  Every goroutine is cut into steps at its database and        *)
(* network calls, so the steps of the others interleave between them.      *)
(*                                                                         *)
(* A row of external_withdrawals belongs to a message and a query: the     *)
(* code's key is (msg_uuid, address), and the addresses of one message are *)
(* pairwise different (ParseBlock is fatal when they are not).  A column   *)
(* is the function that gives each message the queries whose row has it.   *)
(***************************************************************************)
EXTENDS Integers

CONSTANTS
  Query,        \* the query_ids the withdrawal_requests table may give out
  Jetton,       \* the queries whose currency is a Jetton (the others are TON)
  Addr,         \* destination addresses
  Cold,         \* the cold wallet's address, one of Addr
  Deposits,     \* the addresses that may become deposit addresses
  Owners,       \* those of them that are JettonOwner (proxy) addresses
  Msg,          \* uuids of hot wallet external messages
  NoMsg,        \* "no message is being built"
  Lag,          \* config.AllowableBlockchainLagging
  Lifetime,     \* config.ExternalMessageLifetime
  ExpireDelay,  \* the time SetExpired may take: its context's timeout
  BlockGap,     \* least difference of gen_utime of two successive blocks
  Skew,         \* how far gen_utime may be ahead of the service's clock
  MaxTime       \* bound on the service's clock and on gen_utime

ASSUME TimeAssumption ==
  /\ Lag \in Nat /\ Lifetime \in Nat /\ ExpireDelay \in Nat
  /\ Skew \in Nat /\ MaxTime \in Nat
  /\ BlockGap \in Nat \ {0}

ASSUME SetAssumption ==
  /\ Query \subseteq Nat /\ Jetton \subseteq Query
  /\ Cold \in Addr /\ Deposits \subseteq Addr /\ Owners \subseteq Deposits
  /\ NoMsg \notin Msg

VARIABLES
  now,          \* the service's clock
  book,         \* addresses in the address book
  (* table withdrawal_requests *)
  saved,        \* the query_ids in the table
  dest,         \* dest_address
  internal,     \* is_internal
  processing,   \* requests with processing = true
  processed,    \* requests with processed = true
  (* table external_withdrawals *)
  rows,         \* rows[m]: the queries with a row for message m
  failed,       \* rows with failed = true
  done,         \* rows with processed_lt
  hashed,       \* rows with tx_hash
  (* table block_data *)
  lastBlock,    \* gen_utime of the newest saved block
  (* the blockchain and the messages on their way to it *)
  head,         \* gen_utime of the newest block
  blocks,       \* gen_utimes of the blocks not yet saved by the scanner
  body,         \* body[m]: the queries paid by message m
  exp,          \* exp[m]: the expiration time inside m, and expired_at of its rows
  sent,         \* messages handed to the network
  execAt,       \* execAt[m]: gen_utime of the block that executed m, 0 if none
  outs,         \* outs[m]: the queries whose out message m's transaction sent
  (* the withdrawals processor *)
  wpc, wmsg,
  (* the expiration processor; etime is when it found the service synced *)
  epc, etime,
  (* the block scanner and the events it parsed from the current block *)
  spc, evDone, evFailed,
  fatal         \* the scanner met an error it treats as impossible

requests   == <<saved, dest, internal, processing, processed>>
table      == <<rows, failed, done, hashed>>
chain      == <<head, blocks, execAt, outs>>
message    == <<body, exp, sent>>
withdrawer == <<wpc, wmsg>>
expirer    == <<epc, etime>>
scanner    == <<spc, evDone, evFailed, lastBlock>>
vars == <<now, book, requests, table, chain, message, withdrawer, expirer, scanner, fatal>>

Time == 0..MaxTime

NoRows == [m \in Msg |-> {}]

Merge(f, g) == [m \in Msg |-> f[m] \cup g[m]]

Init ==
  /\ now = 0 /\ book = {}
  /\ saved = {} /\ dest = [q \in Query |-> Cold] /\ internal = {}
  /\ processing = {} /\ processed = {}
  /\ rows = NoRows /\ failed = NoRows /\ done = NoRows /\ hashed = NoRows
  /\ lastBlock = 0 /\ head = 0 /\ blocks = {}
  /\ body = NoRows /\ exp = [m \in Msg |-> 0] /\ sent = {}
  /\ execAt = [m \in Msg |-> 0] /\ outs = NoRows
  /\ wpc = "sync" /\ wmsg = NoMsg
  /\ epc = "sync" /\ etime = 0
  /\ spc = "next" /\ evDone = NoRows /\ evFailed = NoRows
  /\ fatal = FALSE

Tick ==
  /\ now < MaxTime
  /\ now' = now + 1
  /\ UNCHANGED <<book, requests, table, chain, message, withdrawer, expirer, scanner, fatal>>

-----------------------------------------------------------------------------
(* Requests: the API, and the address book that its address generation fills. *)

\* An INSERT: q is the next value of the query_id serial.
SaveWithdrawalRequest(q, a) ==
  /\ q \in Query \ saved
  /\ \A p \in Query : p < q => p \in saved
  /\ saved' = saved \cup {q}
  /\ dest' = [dest EXCEPT ![q] = a]
  /\ UNCHANGED <<processing, processed>>

\* The withdrawal endpoint refuses a destination of the address book.  A
\* repeated (user_id, query_id) is refused by IsWithdrawalRequestUnique or by the
\* table's constraint, and changes nothing.
SendWithdrawal(q, a) ==
  /\ a \notin book
  /\ SaveWithdrawalRequest(q, a)
  /\ UNCHANGED <<internal, now, book, table, chain, message, withdrawer, expirer, scanner, fatal>>

\* A new deposit address enters the address book; its kind goes with the
\* address, whose contract is a deposit wallet or a proxy.
SaveWallet(a) ==
  /\ a \notin book
  /\ book' = book \cup {a}
  /\ UNCHANGED <<now, requests, table, chain, message, withdrawer, expirer, scanner, fatal>>

\* What the status endpoint answers for a request.
SettledRows(q) == {m \in Msg : q \in hashed[m] \cup done[m]}

\* (mutant: the failed flag of the settled row is not read)
GetExternalWithdrawalStatusNoFailed(q) ==
  IF q \in processing /\ q \in processed THEN "processed"
  ELSE IF q \in processing THEN "processing"
  ELSE IF q \notin processed THEN "pending"
  ELSE "bad status"

GetExternalWithdrawalStatus(q) ==
  IF q \in processing /\ q \in processed
  THEN IF \E m \in SettledRows(q) : q \in failed[m] THEN "failed" ELSE "processed"
  ELSE IF q \in processing THEN "processing"
  ELSE IF q \notin processed THEN "pending"
  ELSE "bad status"

-----------------------------------------------------------------------------
(* The withdrawals processor: wait for sync, sleep, then make one batch. *)

\* (mutant: <= instead of <)
IsActualBlockDataOffByOne == lastBlock > 0 /\ now - lastBlock =< Lag

\* Not before the first block is saved.
IsActualBlockData == lastBlock > 0 /\ now - lastBlock < Lag

WithdrawalsWaitSync ==
  /\ wpc = "sync" /\ IsActualBlockData
  /\ wpc' = "build"
  /\ UNCHANGED <<wmsg, now, book, requests, table, chain, message, expirer, scanner, fatal>>

SameCurrency(p, q) == p \in Jetton <=> q \in Jetton

IsInProgressInternalWithdrawalRequest(q) ==
  \E p \in internal \ processed : dest[p] = Cold /\ SameCurrency(p, q)

\* Before the batch is built: one currency of the hot wallet is above its
\* maximum (which one, and whether there is one, is left open) and q is the
\* request that brings it down.
MakeColdWalletWithdrawal(q) ==
  /\ wpc = "build"
  /\ ~IsInProgressInternalWithdrawalRequest(q)
  /\ SaveWithdrawalRequest(q, Cold)
  /\ internal' = internal \cup {q}
  /\ UNCHANGED <<now, book, table, chain, message, withdrawer, expirer, scanner, fatal>>

\* Per destination the oldest request that is not processing.
GetExternalWithdrawalTasks ==
  {q \in saved \ processing :
     \A p \in saved \ processing : dest[p] = dest[q] => q =< p}

\* (mutant: the address book is not consulted)
BatchCandidatesToAnyone == GetExternalWithdrawalTasks

\* Requests to internal addresses are skipped.
BatchCandidates == {q \in GetExternalWithdrawalTasks : dest[q] \notin book}

FreshMsg(m) == m \notin sent /\ rows[m] = {}

\* The batch is whatever part of the candidates the hot wallet's balances and
\* the limit of 250 allow.
BuildWithdrawalMessages(b) ==
  /\ wpc = "build"
  /\ b \subseteq BatchCandidates
  /\ \/ /\ b = {}
        /\ wpc' = "sync"
        /\ UNCHANGED <<wmsg, message>>
     \/ /\ b # {}
        /\ wpc' = "save"
        /\ \E m \in Msg :
             /\ FreshMsg(m)
             /\ wmsg' = m
             /\ body' = [body EXCEPT ![m] = b]
             /\ exp' = [exp EXCEPT ![m] = now + Lifetime]
        /\ UNCHANGED sent
  /\ UNCHANGED <<now, book, requests, table, chain, expirer, scanner, fatal>>

CreateExternalWithdrawals ==
  /\ wpc = "save"
  /\ rows' = [rows EXCEPT ![wmsg] = body[wmsg]]
  /\ processing' = processing \cup body[wmsg]
  /\ wpc' = "send"
  /\ UNCHANGED <<wmsg, now, book, saved, dest, internal, processed, failed, done, hashed,
                 chain, message, expirer, scanner, fatal>>

\* (mutant: the message is dropped before it is sent)
SendExternalMessageCleared ==
  /\ wpc = "send"
  /\ wpc' = "sync" /\ wmsg' = NoMsg
  /\ sent' = sent \cup {wmsg'}
  /\ UNCHANGED <<body, exp, now, book, requests, table, chain, expirer, scanner, fatal>>

\* An error of the call is only logged: the message may or may not get through.
SendExternalMessage ==
  /\ wpc = "send"
  /\ sent' = sent \cup {wmsg}
  /\ wpc' = "sync" /\ wmsg' = NoMsg
  /\ UNCHANGED <<body, exp, now, book, requests, table, chain, expirer, scanner, fatal>>

-----------------------------------------------------------------------------
(* The expiration processor. *)

ExpirationWaitSync ==
  /\ epc = "sync" /\ IsActualBlockData
  /\ epc' = "expire" /\ etime' = now
  /\ UNCHANGED <<now, book, requests, table, chain, message, withdrawer, scanner, fatal>>

\* (mutant: the allowable lagging is forgotten)
ExpiredRowsNoLag ==
  [m \in Msg |-> {q \in rows[m] \ (done[m] \cup failed[m]) : exp[m] < now}]

\* (mutant: processed_lt is not tested)
ExpiredRowsAlsoDone ==
  [m \in Msg |-> {q \in rows[m] \ failed[m] : exp[m] < now - Lag}]

\* now is time.Now(), which ticks faster than the seconds of gen_utime.
ExpiredRows ==
  [m \in Msg |-> {q \in rows[m] \ (done[m] \cup failed[m]) : exp[m] < now - Lag}]

\* Reads the clock again: up to ExpireDelay after the sync check.  A longer
\* delay fails the call, which ends the process (Restart).
SetExpired ==
  /\ epc = "expire"
  /\ now =< etime + ExpireDelay
  /\ failed' = Merge(failed, ExpiredRows)
  /\ processing' = {q \in processing : \A m \in Msg : q \notin ExpiredRows[m]}
  /\ epc' = "sync" /\ etime' = 0
  /\ UNCHANGED <<now, book, saved, dest, internal, processed, rows, done, hashed,
                 chain, message, withdrawer, scanner, fatal>>

-----------------------------------------------------------------------------
(* The blockchain and the hot wallet contract (external). *)

\* The contract accepts a message once, and only until its expiration time.
Executable(m, t) == m \in sent /\ execAt[m] = 0 /\ t =< exp[m]

\* A block: the hot wallet's messages in it (X), and for each the out messages
\* its transaction really sent (o).
NewBlock(t, X, o) ==
  /\ t >= head + BlockGap /\ t =< now + Skew
  /\ \A m \in X : Executable(m, t) /\ o[m] \subseteq body[m]
  /\ head' = t
  /\ blocks' = blocks \cup {t}
  /\ execAt' = [m \in Msg |-> IF m \in X THEN t ELSE execAt[m]]
  /\ outs' = [m \in Msg |-> IF m \in X THEN o[m] ELSE outs[m]]
  /\ UNCHANGED <<now, book, requests, table, message, withdrawer, expirer, scanner, fatal>>

-----------------------------------------------------------------------------
(* The block scanner. *)

\* The process ends and starts again: the goroutines' state is lost.
Volatile ==
  /\ wpc' = "sync" /\ wmsg' = NoMsg
  /\ epc' = "sync" /\ etime' = 0
  /\ spc' = "next" /\ evDone' = NoRows /\ evFailed' = NoRows

Restart ==
  /\ Volatile
  /\ UNCHANGED <<now, book, requests, table, chain, message, lastBlock, fatal>>

ScannerFatal ==
  /\ Volatile
  /\ fatal' = TRUE
  /\ UNCHANGED <<now, book, requests, table, chain, message, lastBlock>>

IsNextBlock(b) == b \in blocks /\ \A c \in blocks : b =< c

\* All recipients of a message differ.
IsValidWithdrawal(m) ==
  \A p, q \in body[m] : dest[p] = dest[q] => p = q

\* An out message to a JettonOwner must carry a message for its proxy: that of
\* a TON withdrawal does not, and is an error ("no internal payload to proxy
\* contract").
IsProxyMsg(q) == q \notin Jetton /\ dest[q] \in book \cap Owners

IsParsable(m) == IsValidWithdrawal(m) /\ \A q \in outs[m] : ~IsProxyMsg(q)

\* Out messages to other internal addresses are fee payments, not withdrawals;
\* the out message of a Jetton withdrawal goes to the Jetton hot wallet.
SentWithdrawals(m) ==
  {q \in outs[m] : q \in Jetton \/ dest[q] \notin book}

FailedWithdrawals(m) ==
  {q \in body[m] \ outs[m] : dest[q] \notin book}

ParseBlock(b) ==
  /\ spc = "next" /\ IsNextBlock(b)
  /\ \/ /\ \A m \in Msg : execAt[m] = b => IsParsable(m)
        /\ evDone' = [m \in Msg |-> IF execAt[m] = b THEN SentWithdrawals(m) ELSE {}]
        /\ evFailed' = [m \in Msg |-> IF execAt[m] = b THEN FailedWithdrawals(m) ELSE {}]
        /\ spc' = "check"
        /\ UNCHANGED <<lastBlock, now, book, requests, table, chain, message, withdrawer,
                       expirer, fatal>>
     \/ /\ \E m \in Msg : execAt[m] = b /\ ~IsParsable(m)
        /\ ScannerFatal

\* updateExternalWithdrawal reads the row before it writes it.
CheckAlreadyFailed ==
  /\ spc = "check"
  /\ \/ /\ \A m \in Msg : evDone[m] \cup evFailed[m] \subseteq rows[m] \ failed[m]
        /\ spc' = "apply"
        /\ UNCHANGED <<evDone, evFailed, lastBlock, now, book, requests, table, chain,
                       message, withdrawer, expirer, fatal>>
     \/ /\ \E m \in Msg : ~(evDone[m] \cup evFailed[m] \subseteq rows[m] \ failed[m])
        /\ ScannerFatal

\* (mutant: no tx_hash for a failed withdrawal)
NewTxHashesNoFailed == evDone

NewTxHashes == Merge(evDone, evFailed)

SaveParsedBlockData(b) ==
  /\ spc = "apply" /\ IsNextBlock(b)
  /\ done' = Merge(done, evDone)
  /\ failed' = Merge(failed, evFailed)
  /\ hashed' = Merge(hashed, NewTxHashes)
  /\ processed' = processed \cup {q \in saved : \E m \in Msg : q \in evDone[m] \cup evFailed[m]}
  /\ lastBlock' = b
  /\ blocks' = blocks \ {b}
  /\ spc' = "next" /\ evDone' = NoRows /\ evFailed' = NoRows
  /\ UNCHANGED <<now, book, saved, dest, internal, processing, rows, head, execAt, outs,
                 message, withdrawer, expirer, fatal>>

-----------------------------------------------------------------------------
Next ==
  \/ Tick
  \/ \E q \in Query, a \in Addr : SendWithdrawal(q, a)
  \/ \E a \in Deposits : SaveWallet(a)
  \/ WithdrawalsWaitSync
  \/ \E q \in Query : MakeColdWalletWithdrawal(q)
  \/ \E b \in SUBSET Query : BuildWithdrawalMessages(b)
  \/ CreateExternalWithdrawals
  \/ SendExternalMessage
  \/ ExpirationWaitSync
  \/ SetExpired
  \/ \E t \in Time, X \in SUBSET Msg :
       \E o \in [X -> SUBSET Query] : NewBlock(t, X, o)
  \/ \E b \in Time : ParseBlock(b)
  \/ CheckAlreadyFailed
  \/ \E b \in Time : SaveParsedBlockData(b)
  \/ Restart

Spec == Init /\ [][Next]_vars

-----------------------------------------------------------------------------
(* Properties. *)

\* Types of the tables, of the goroutines' local state and of the chain.
TypeOK ==
  /\ now \in Time /\ book \subseteq Addr
  /\ saved \subseteq Query /\ dest \in [Query -> Addr] /\ internal \subseteq saved
  /\ processing \subseteq saved /\ processed \subseteq saved
  /\ rows \in [Msg -> SUBSET saved] /\ failed \in [Msg -> SUBSET saved]
  /\ done \in [Msg -> SUBSET saved] /\ hashed \in [Msg -> SUBSET saved]
  /\ lastBlock \in Time /\ head \in Time /\ blocks \subseteq Time
  /\ body \in [Msg -> SUBSET saved] /\ exp \in [Msg -> Nat] /\ sent \subseteq Msg
  /\ execAt \in [Msg -> Time] /\ outs \in [Msg -> SUBSET saved]
  /\ wpc \in {"sync", "build", "save", "send"} /\ wmsg \in Msg \cup {NoMsg}
  /\ epc \in {"sync", "expire"} /\ etime \in Time
  /\ spc \in {"next", "check", "apply"}
  /\ evDone \in [Msg -> SUBSET saved] /\ evFailed \in [Msg -> SUBSET saved]
  /\ fatal \in BOOLEAN

\* The time SetExpired may take is covered by the distance of blocks: the
\* condition under which the expiration processor is right.  The added one is a
\* tick of the clock: the code's clock is finer than a second, so in seconds the
\* delay may hardly exceed BlockGap.
SafeTiming == ExpireDelay =< BlockGap + 1

\* The hot wallet never pays a request twice, whatever messages are delayed,
\* lost or repeated and wherever the process is restarted: no query is in the
\* out messages of two external messages (retry after SetExpired).
NoDoublePayment ==
  \A m, n \in Msg : m # n => outs[m] \cap outs[n] = {}

Paid(q) == \E m \in Msg : q \in outs[m]

\* The scanner never meets what the code calls impossible: a transaction for a
\* withdrawal already marked failed ("invalid behavior of the expiration
\* processor"), one without a row ("anomalous behavior of the TON hot wallet"),
\* or a message with a repeated recipient ("not valid message").  It stops only
\* after TONs were paid to an address that was then given out as the owner of a
\* Jetton deposit.
FatalOnlyForOwner == fatal => \E q \in saved : Paid(q) /\ IsProxyMsg(q)

\* A message can still be executed in some later block.
Live(m) == m \in sent /\ execAt[m] = 0 /\ head + BlockGap =< exp[m]

\* What GetExternalWithdrawalStatus tells a client is true of the chain:
\* "processed" only if the hot wallet paid; "failed" only if it did not and no
\* message can still pay; "pending" only if nothing was paid, except to an
\* address that became internal meanwhile; and it never runs into "bad status".
StatusTruthful ==
  \A q \in saved :
    LET status == GetExternalWithdrawalStatus(q) IN
    /\ status = "processed" => Paid(q)
    /\ status = "failed" => ~Paid(q) /\ \A m \in Msg : q \in body[m] => ~Live(m)
    /\ status = "pending" => dest[q] \in book \/ ~Paid(q)
    /\ status # "bad status"

\* GetExternalWithdrawalStatus reads one record with LIMIT 1 and says "must be
\* only one record": a request with a final status has exactly one settled row.
OneSettledRow ==
  \A q \in processed : \E m \in Msg : SettledRows(q) = {m}

\* A request goes back to pending (SetExpired) only when no message that pays
\* it can be executed any more: a retry never races an older attempt.
RetryIsExclusive ==
  \A q \in saved \ processing, m \in Msg :
    q \in body[m] => ~Live(m)

\* A final status reported to a client never changes again.
FinalStatusIsFinal ==
  [][\A q \in saved :
       GetExternalWithdrawalStatus(q) \in {"processed", "failed"}
         => GetExternalWithdrawalStatus(q)' = GetExternalWithdrawalStatus(q)]_vars

Ledger == INSTANCE WithdrawalLedger WITH
  status <- [q \in Query |-> IF q \in saved THEN GetExternalWithdrawalStatus(q) ELSE "none"],
  paid <- {q \in Query : Paid(q)}

\* The tables, the goroutines and the hot wallet together implement the ledger
\* of WithdrawalLedger: every step moves the reported statuses and the set of
\* paid requests as that ledger allows, or leaves them alone.
ImplementsLedger == Ledger!Spec
=============================================================================

--------------------- MODULE ExternalWithdrawalsProofs ---------------------
(***************************************************************************)
(* Proofs about ExternalWithdrawals, for every set of queries, addresses   *)
(* and messages and every value of the time parameters that satisfies      *)
(* SafeTiming.                                                             *)
(***************************************************************************)
EXTENDS ExternalWithdrawals, TLAPS

\* TypeOK is inductive once the message at hand in the last two steps of the
\* withdrawals processor is known to be one.
TypeInv ==
  /\ TypeOK
  /\ wpc \in {"save", "send"} => wmsg \in Msg

\* The empty table and a merge of two tables are tables.
LEMMA TableType ==
  ASSUME NEW S
  PROVE  /\ NoRows \in [Msg -> SUBSET S]
         /\ \A f, g \in [Msg -> SUBSET S] : Merge(f, g) \in [Msg -> SUBSET S]
BY DEF NoRows, Merge

\* The tables, the local state of the goroutines and the chain start with their types.
LEMMA TypeInvInit == Init => TypeInv
<1> SUFFICES ASSUME Init PROVE TypeInv
  OBVIOUS
<1>1. NoRows \in [Msg -> SUBSET saved]
  BY TableType
<1>2. 0 \in Time
  BY TimeAssumption DEF Time
<1> QED
  BY <1>1, <1>2, SetAssumption DEF Init, TypeInv, TypeOK

\* Every step keeps TypeInv.
LEMMA TypeInvNext == TypeInv /\ [Next]_vars => TypeInv'
<1> SUFFICES ASSUME TypeInv, [Next]_vars PROVE TypeInv'
  OBVIOUS
<1> USE TimeAssumption, SetAssumption DEF TypeInv, TypeOK, Time, requests, table, chain,
        message, withdrawer, expirer, scanner
<1>1. CASE Tick
  BY <1>1 DEF Tick
<1>2. ASSUME NEW q \in Query, NEW a \in Addr, SendWithdrawal(q, a) PROVE TypeInv'
  <2>1. saved \subseteq saved' /\ saved' \subseteq Query
    BY <1>2 DEF SendWithdrawal, SaveWithdrawalRequest
  <2>2. dest' \in [Query -> Addr]
    BY <1>2 DEF SendWithdrawal, SaveWithdrawalRequest
  <2> QED
    BY <1>2, <2>1, <2>2 DEF SendWithdrawal, SaveWithdrawalRequest
<1>3. ASSUME NEW a \in Deposits, SaveWallet(a) PROVE TypeInv'
  BY <1>3 DEF SaveWallet
<1>4. CASE WithdrawalsWaitSync
  BY <1>4 DEF WithdrawalsWaitSync
<1>5. ASSUME NEW q \in Query, MakeColdWalletWithdrawal(q) PROVE TypeInv'
  <2>1. saved \subseteq saved' /\ saved' \subseteq Query /\ internal' \subseteq saved'
    BY <1>5 DEF MakeColdWalletWithdrawal, SaveWithdrawalRequest
  <2>2. dest' \in [Query -> Addr]
    BY <1>5 DEF MakeColdWalletWithdrawal, SaveWithdrawalRequest
  <2> QED
    BY <1>5, <2>1, <2>2 DEF MakeColdWalletWithdrawal, SaveWithdrawalRequest
<1>6. ASSUME NEW b \in SUBSET Query, BuildWithdrawalMessages(b) PROVE TypeInv'
  <2>1. b \subseteq saved
    BY <1>6 DEF BuildWithdrawalMessages, BatchCandidates, GetExternalWithdrawalTasks
  <2>2. now + Lifetime \in Nat
    OBVIOUS
  <2>3. body' \in [Msg -> SUBSET saved]
    <3>1. body' = body \/ \E m \in Msg : body' = [body EXCEPT ![m] = b]
      BY <1>6 DEF BuildWithdrawalMessages
    <3> QED
      BY <2>1, <3>1
  <2>4. exp' \in [Msg -> Nat]
    BY <1>6, <2>2 DEF BuildWithdrawalMessages
  <2> QED
    BY <1>6, <2>3, <2>4 DEF BuildWithdrawalMessages
<1>7. CASE CreateExternalWithdrawals
  BY <1>7 DEF CreateExternalWithdrawals
<1>8. CASE SendExternalMessage
  BY <1>8 DEF SendExternalMessage
<1>9. CASE ExpirationWaitSync
  BY <1>9 DEF ExpirationWaitSync
<1>10. CASE SetExpired
  <2>1. ExpiredRows \in [Msg -> SUBSET saved]
    BY DEF ExpiredRows
  <2>2. failed' \in [Msg -> SUBSET saved]
    BY <1>10, <2>1, TableType DEF SetExpired
  <2>3. processing' \subseteq saved
    BY <1>10 DEF SetExpired
  <2> QED
    BY <1>10, <2>2, <2>3 DEF SetExpired
<1>11. ASSUME NEW t \in Time, NEW X \in SUBSET Msg, NEW o \in [X -> SUBSET Query],
              NewBlock(t, X, o)
       PROVE TypeInv'
  <2>1. outs' \in [Msg -> SUBSET saved]
    BY <1>11 DEF NewBlock
  <2> QED
    BY <1>11, <2>1 DEF NewBlock
<1>12. CASE Restart
  BY <1>12 DEF Restart, Volatile, NoRows
<1>13. CASE ScannerFatal
  BY <1>13 DEF ScannerFatal, Volatile, NoRows
<1>14. ASSUME NEW b \in Time, ParseBlock(b) PROVE TypeInv'
  <2>1. \A m \in Msg : SentWithdrawals(m) \subseteq saved /\ FailedWithdrawals(m) \subseteq saved
    BY DEF SentWithdrawals, FailedWithdrawals
  <2>2. CASE ScannerFatal
    BY <1>13, <2>2
  <2>3. CASE ~ScannerFatal
    <3>1. evDone' \in [Msg -> SUBSET saved]
      BY <1>14, <2>1, <2>3 DEF ParseBlock
    <3>2. evFailed' \in [Msg -> SUBSET saved]
      BY <1>14, <2>1, <2>3 DEF ParseBlock
    <3> QED
      BY <1>14, <2>3, <3>1, <3>2 DEF ParseBlock
  <2> QED
    BY <2>2, <2>3
<1>15. CASE CheckAlreadyFailed
  BY <1>13, <1>15 DEF CheckAlreadyFailed
<1>16. ASSUME NEW b \in Time, SaveParsedBlockData(b) PROVE TypeInv'
  <2>1. /\ done' \in [Msg -> SUBSET saved]
        /\ failed' \in [Msg -> SUBSET saved]
        /\ hashed' \in [Msg -> SUBSET saved]
    BY <1>16, TableType DEF SaveParsedBlockData, NewTxHashes
  <2>2. evDone' \in [Msg -> SUBSET saved] /\ evFailed' \in [Msg -> SUBSET saved]
    BY <1>16, TableType DEF SaveParsedBlockData
  <2>3. processed' \subseteq saved
    BY <1>16 DEF SaveParsedBlockData
  <2> QED
    BY <1>16, <2>1, <2>2, <2>3 DEF SaveParsedBlockData
<1>17. CASE UNCHANGED vars
  BY <1>17 DEF vars
<1> QED
  BY <1>1, <1>2, <1>3, <1>4, <1>5, <1>6, <1>7, <1>8, <1>9, <1>10, <1>11, <1>12, <1>14,
     <1>15, <1>16, <1>17 DEF Next

\* Type correctness of the tables, goroutines and chain, for all constants.
THEOREM TypeCorrect == Spec => []TypeOK
<1>1. TypeInv => TypeOK
  BY DEF TypeInv
<1> QED
  BY TypeInvInit, TypeInvNext, <1>1, PTL DEF Spec

-----------------------------------------------------------------------------
(***************************************************************************)
(* The inductive invariant behind the safety properties.                   *)
(***************************************************************************)

\* A row nobody has settled, and a row SetExpired has given up.
Open(m, q)    == q \in rows[m] /\ q \notin failed[m] /\ q \notin done[m]
Expired(m, q) == q \in failed[m] /\ q \notin hashed[m]

\* Blocks the scanner has not saved are at least BlockGap apart from each
\* other and from the last saved one; an executed message was sent, in time.
ChainInv ==
  /\ lastBlock =< head
  /\ \A b \in blocks : lastBlock + BlockGap =< b /\ b =< head
  /\ \A b, c \in blocks : b < c => b + BlockGap =< c
  /\ \A m \in Msg :
       /\ outs[m] \subseteq body[m]
       /\ execAt[m] = 0 => outs[m] = {}
       /\ execAt[m] # 0 => /\ m \in sent /\ execAt[m] =< exp[m]
                           /\ execAt[m] =< lastBlock \/ execAt[m] \in blocks

\* A message is saved before it is sent, with the rows of its body, for
\* requests that were pending and unpaid; its recipients differ.
MessageInv ==
  /\ \A m \in Msg : rows[m] \subseteq body[m] /\ IsValidWithdrawal(m)
  /\ \A m \in sent : body[m] \subseteq rows[m]
  /\ wpc \in {"save", "send"} => wmsg \in Msg /\ wmsg \notin sent
  /\ wpc = "save" => /\ rows[wmsg] = {}
                     /\ \A q \in body[wmsg] : q \notin processing /\ ~Paid(q)
  /\ wpc = "send" => body[wmsg] \subseteq rows[wmsg]

\* The columns of a row are consistent, and with the chain.
RowInv ==
  \A m \in Msg :
    /\ failed[m] \subseteq rows[m] /\ hashed[m] \subseteq rows[m]
    /\ done[m] \subseteq hashed[m] /\ hashed[m] \subseteq done[m] \cup failed[m]
    /\ \A q \in hashed[m] : q \in processed /\ execAt[m] # 0 /\ execAt[m] =< lastBlock
    /\ done[m] \subseteq outs[m]
    /\ \A q \in hashed[m] : q \in failed[m] => q \notin outs[m]

\* An open row makes its request processing; it is the request's only one.
OpenInv ==
  /\ \A m \in Msg, q \in Query : Open(m, q) => q \in processing /\ q \notin processed
  /\ \A m, n \in Msg, q \in Query : Open(m, q) /\ Open(n, q) => m = n

\* A final request is processing and has exactly one settled row.
SettledInv ==
  \A q \in processed :
    /\ q \in processing
    /\ \E m \in Msg : q \in hashed[m]
    /\ \A m, n \in Msg : q \in hashed[m] /\ q \in hashed[n] => m = n

\* An expired message is too old for every block that is not saved yet.
ExpiredInv ==
  \A m \in Msg, q \in Query : Expired(m, q) => exp[m] < lastBlock + BlockGap

\* An outcome the scanner did not record belongs to an internal address.
RecordInv ==
  \A m \in Msg : execAt[m] # 0 /\ execAt[m] =< lastBlock =>
    \A q \in body[m] : q \in hashed[m] \/ dest[q] \in book

\* Only its own message can have paid a request that is open or settled.
PaidInv ==
  \A m, n \in Msg : \A q \in outs[m] : q \in rows[n] /\ ~Expired(n, q) => m = n

\* The events at hand are those of the next block to save.
EventInv ==
  spc # "next" => \E b \in blocks :
    /\ IsNextBlock(b)
    /\ \A m \in Msg :
         /\ evDone[m] \subseteq outs[m]
         /\ evFailed[m] \subseteq body[m] \ outs[m]
         /\ evDone[m] \cup evFailed[m] # {} => execAt[m] = b
         /\ execAt[m] = b =>
              \A q \in body[m] : q \in evDone[m] \cup evFailed[m] \/ dest[q] \in book

\* At its sync check the expiration processor saw a block younger than Lag.
ExpirerInv == epc = "expire" => etime < lastBlock + Lag

IInv ==
  /\ TypeInv /\ ChainInv /\ MessageInv /\ RowInv /\ OpenInv /\ SettledInv
  /\ ExpiredInv /\ RecordInv /\ PaidInv /\ NoDoublePayment /\ EventInv /\ ExpirerInv
  /\ FatalOnlyForOwner
-----------------------------------------------------------------------------
\* A sent message that the scanner has not met, and that is not too old for a
\* block to come, has only open rows.
LEMMA UnscannedIsOpen ==
  ASSUME TypeInv, ChainInv, MessageInv, RowInv, ExpiredInv,
         NEW m \in sent, NEW q \in body[m],
         execAt[m] = 0 \/ execAt[m] > lastBlock,
         lastBlock + BlockGap =< exp[m]
  PROVE  Open(m, q)
<1>1. m \in Msg /\ q \in rows[m] /\ q \in Query
  BY DEF MessageInv, TypeInv, TypeOK
<1>2. q \notin hashed[m]
  BY <1>1, TimeAssumption DEF RowInv, TypeInv, TypeOK, Time
<1>3. q \notin done[m]
  BY <1>1, <1>2 DEF RowInv
<1>4. exp[m] \in Nat /\ lastBlock \in Nat
  BY <1>1, TimeAssumption DEF TypeInv, TypeOK, Time
<1>5. ~Expired(m, q)
  BY <1>1, <1>4, TimeAssumption DEF ExpiredInv
<1> QED
  BY <1>1, <1>2, <1>3, <1>5 DEF Open, Expired

\* A message in a block the scanner has not saved has only open rows.
LEMMA UnsavedIsOpen ==
  ASSUME TypeInv, ChainInv, MessageInv, RowInv, ExpiredInv,
         NEW m \in Msg, NEW q \in body[m], execAt[m] \in blocks
  PROVE  Open(m, q)
<1>1. execAt[m] \in Nat /\ lastBlock \in Nat /\ exp[m] \in Nat
  BY TimeAssumption DEF TypeInv, TypeOK, Time
<1>2. lastBlock + BlockGap =< execAt[m]
  BY DEF ChainInv
<1>3. execAt[m] # 0 /\ execAt[m] > lastBlock
  BY <1>1, <1>2, TimeAssumption
<1>4. m \in sent /\ execAt[m] =< exp[m]
  BY <1>3 DEF ChainInv
<1>5. lastBlock + BlockGap =< exp[m]
  BY <1>1, <1>2, <1>4, TimeAssumption
<1> QED
  BY <1>3, <1>4, <1>5, UnscannedIsOpen

\* A pending request to an address outside the address book is unpaid: what
\* buildWithdrawalMessages relies on when it takes a request again.
LEMMA PendingIsUnpaid ==
  ASSUME IInv, NEW q \in saved \ processing, dest[q] \notin book
  PROVE  ~Paid(q)
<1> SUFFICES ASSUME NEW m \in Msg, q \in outs[m] PROVE FALSE
  BY DEF Paid
<1> USE DEF IInv
<1>1. q \in body[m] /\ execAt[m] # 0 /\ m \in sent
  BY DEF ChainInv
<1>2. q \in Query
  BY DEF TypeInv, TypeOK
<1>3. ~Open(m, q)
  BY <1>2 DEF OpenInv
<1>4. execAt[m] =< lastBlock
  BY <1>1, <1>3, UnsavedIsOpen DEF ChainInv
<1>5. q \in hashed[m]
  BY <1>1, <1>4 DEF RecordInv
<1> QED
  BY <1>5 DEF RowInv, SettledInv
-----------------------------------------------------------------------------
\* The invariant holds initially.
LEMMA IInvInit == Init => IInv
<1> SUFFICES ASSUME Init PROVE IInv
  OBVIOUS
<1>1. TypeInv
  BY TypeInvInit
<1>2. ChainInv /\ MessageInv /\ RowInv
  BY TimeAssumption
  DEF Init, ChainInv, MessageInv, RowInv, NoRows, IsValidWithdrawal
<1>3. OpenInv /\ SettledInv /\ ExpiredInv /\ RecordInv /\ PaidInv /\ NoDoublePayment
  BY DEF Init, OpenInv, SettledInv, ExpiredInv, RecordInv, PaidInv, NoDoublePayment, Open,
         Expired, NoRows
<1>4. EventInv /\ ExpirerInv /\ FatalOnlyForOwner
  BY DEF Init, EventInv, ExpirerInv, FatalOnlyForOwner
<1> QED
  BY <1>1, <1>2, <1>3, <1>4 DEF IInv

\* A payment to the owner of a Jetton deposit stays one.
LEMMA FatalKept ==
  ASSUME FatalOnlyForOwner, saved \subseteq saved', book \subseteq book',
         \A q \in saved : dest'[q] = dest[q], \A m \in Msg : outs[m] \subseteq outs'[m],
         fatal' = fatal
  PROVE  FatalOnlyForOwner'
<1> SUFFICES ASSUME fatal PROVE \E q \in saved' : Paid(q)' /\ IsProxyMsg(q)'
  BY DEF FatalOnlyForOwner
<1>1. PICK q \in saved : Paid(q) /\ IsProxyMsg(q)
  BY DEF FatalOnlyForOwner
<1>2. Paid(q)'
  BY <1>1 DEF Paid
<1>3. IsProxyMsg(q)'
  BY <1>1 DEF IsProxyMsg
<1> QED
  BY <1>1, <1>2, <1>3

\* Steps that leave the tables and the chain alone: the clock, the sync checks,
\* the hand-over of a message to the network, a restart.
LEMMA IInvLocal ==
  ASSUME IInv, TypeInv', UNCHANGED <<book, requests, table, chain, body, exp, lastBlock>>,
         \/ UNCHANGED <<sent, withdrawer>>
         \/ sent' = sent /\ wpc' \in {"sync", "build"}
         \/ SendExternalMessage,
         \/ UNCHANGED <<spc, evDone, evFailed>>
         \/ spc' = "next"
         \/ spc # "next" /\ UNCHANGED <<evDone, evFailed>>,
         ExpirerInv', fatal' = fatal \/ FatalOnlyForOwner'
  PROVE  IInv'
<1> USE DEF IInv, requests, table, chain, withdrawer
<1>1. ChainInv'
  <2>1. sent \subseteq sent'
    BY DEF SendExternalMessage
  <2> QED
    BY <2>1 DEF ChainInv
<1>2. MessageInv'
  BY DEF MessageInv, SendExternalMessage, IsValidWithdrawal, Paid
<1>3. RowInv' /\ OpenInv' /\ SettledInv'
  BY DEF RowInv, OpenInv, SettledInv, Open
<1>4. ExpiredInv' /\ RecordInv' /\ PaidInv' /\ NoDoublePayment'
  BY DEF ExpiredInv, RecordInv, PaidInv, NoDoublePayment, Expired
<1>5. EventInv'
  BY DEF EventInv, IsNextBlock
<1>6. FatalOnlyForOwner'
  BY FatalKept
<1> QED
  BY <1>1, <1>2, <1>3, <1>4, <1>5, <1>6

\* A new request, whoever inserts it, and a new deposit address.
LEMMA IInvRequest ==
  ASSUME IInv, TypeInv', saved \subseteq saved', book \subseteq book',
         \A q \in saved : dest'[q] = dest[q],
         UNCHANGED <<processing, processed, table, chain, message, withdrawer, expirer,
                     scanner, fatal>>
  PROVE  IInv'
<1> USE DEF IInv, table, chain, message, withdrawer, expirer, scanner
<1>1. ChainInv' /\ ExpirerInv'
  BY DEF ChainInv, ExpirerInv
<1>2. \A m \in Msg : \A q \in body[m] : q \in saved
  BY DEF TypeInv, TypeOK
<1>3. MessageInv'
  BY <1>2 DEF MessageInv, IsValidWithdrawal, Paid
<1>4. RowInv' /\ OpenInv' /\ SettledInv'
  BY DEF RowInv, OpenInv, SettledInv, Open
<1>5. ExpiredInv' /\ PaidInv' /\ NoDoublePayment'
  BY DEF ExpiredInv, PaidInv, NoDoublePayment, Expired
<1>6. RecordInv'
  BY <1>2 DEF RecordInv
<1>7. EventInv'
  BY <1>2 DEF EventInv, IsNextBlock
<1>8. FatalOnlyForOwner'
  BY FatalKept
<1> QED
  BY <1>1, <1>3, <1>4, <1>5, <1>6, <1>7, <1>8
\* Building a batch takes pending, hence unpaid, requests with different
\* destinations and puts them in a message nobody has seen.
LEMMA IInvBuild ==
  ASSUME IInv, TypeInv', NEW b \in SUBSET Query, BuildWithdrawalMessages(b), b # {}
  PROVE  IInv'
<1> USE DEF IInv, requests, table, chain, expirer, scanner
<1>1. PICK m \in Msg : /\ FreshMsg(m) /\ wmsg' = m
                       /\ body' = [body EXCEPT ![m] = b]
                       /\ exp' = [exp EXCEPT ![m] = now + Lifetime]
  BY DEF BuildWithdrawalMessages
<1>2. /\ wpc' = "save" /\ sent' = sent
      /\ UNCHANGED <<now, book, requests, table, chain, expirer, scanner, fatal>>
      /\ \A q \in b : q \in GetExternalWithdrawalTasks /\ dest[q] \notin book
  BY DEF BuildWithdrawalMessages, BatchCandidates
<1>3. m \notin sent /\ rows[m] = {} /\ failed[m] = {} /\ hashed[m] = {}
  BY <1>1 DEF FreshMsg, RowInv
<1>4. execAt[m] = 0 /\ outs[m] = {}
  BY <1>3 DEF ChainInv
<1>5. \A n \in Msg : n # m => body'[n] = body[n] /\ exp'[n] = exp[n]
  BY <1>1 DEF TypeInv, TypeOK
<1>6. body'[m] = b
  BY <1>1 DEF TypeInv, TypeOK
<1>7. ChainInv'
  <2>1. ASSUME NEW n \in Msg
        PROVE  /\ outs[n] \subseteq body'[n]
               /\ execAt[n] = 0 => outs[n] = {}
               /\ execAt[n] # 0 => /\ n \in sent /\ execAt[n] =< exp'[n]
                                   /\ execAt[n] =< lastBlock \/ execAt[n] \in blocks
    BY <1>4, <1>5 DEF ChainInv
  <2> QED
    BY <1>2, <2>1 DEF ChainInv
<1>8. \A q \in b : q \in saved /\ q \notin processing /\ ~Paid(q)
  BY <1>2, PendingIsUnpaid DEF GetExternalWithdrawalTasks
<1>9. \A p, q \in b : dest[p] = dest[q] => p = q
  <2>1. \A p, q \in b : dest[p] = dest[q] => p =< q /\ q =< p
    BY <1>2 DEF GetExternalWithdrawalTasks
  <2> QED
    BY <2>1, SetAssumption
<1>10. MessageInv'
  <2>1. \A n \in Msg : rows[n] \subseteq body'[n] /\ IsValidWithdrawal(n)'
    BY <1>2, <1>3, <1>5, <1>6, <1>9 DEF MessageInv, IsValidWithdrawal
  <2>2. \A n \in sent : body'[n] \subseteq rows[n]
    BY <1>3, <1>5 DEF MessageInv, TypeInv, TypeOK
  <2>3. \A q \in b : q \notin processing' /\ ~Paid(q)'
    BY <1>2, <1>8 DEF Paid
  <2> QED
    BY <1>1, <1>2, <1>3, <1>6, <2>1, <2>2, <2>3 DEF MessageInv
<1>11. RowInv' /\ OpenInv' /\ SettledInv'
  BY <1>2 DEF RowInv, OpenInv, SettledInv, Open
<1>12. ExpiredInv'
  BY <1>2, <1>3, <1>5 DEF ExpiredInv, Expired
<1>13. RecordInv'
  BY <1>2, <1>4, <1>5 DEF RecordInv
<1>14. PaidInv' /\ NoDoublePayment'
  BY <1>2 DEF PaidInv, NoDoublePayment, Expired
<1>15. EventInv'
  <2> SUFFICES ASSUME spc # "next" PROVE EventInv'
    BY <1>2 DEF EventInv
  <2>1. PICK c \in blocks :
          /\ IsNextBlock(c)
          /\ \A n \in Msg :
               /\ evDone[n] \subseteq outs[n]
               /\ evFailed[n] \subseteq body[n] \ outs[n]
               /\ evDone[n] \cup evFailed[n] # {} => execAt[n] = c
               /\ execAt[n] = c =>
                    \A q \in body[n] : q \in evDone[n] \cup evFailed[n] \/ dest[q] \in book
    BY DEF EventInv
  <2>2. c # 0
    BY TimeAssumption DEF ChainInv, TypeInv, TypeOK, Time
  <2>3. \A n \in Msg :
               /\ evDone[n] \subseteq outs[n]
               /\ evFailed[n] \subseteq body'[n] \ outs[n]
               /\ evDone[n] \cup evFailed[n] # {} => execAt[n] = c
               /\ execAt[n] = c =>
                    \A q \in body'[n] : q \in evDone[n] \cup evFailed[n] \/ dest[q] \in book
    <3>1. evFailed[m] = {}
      BY <1>4, <2>1, <2>2
    <3> QED
      BY <1>4, <1>5, <2>1, <2>2, <3>1
  <2>4. IsNextBlock(c)'
    BY <1>2, <2>1 DEF IsNextBlock
  <2> QED
    BY <1>2, <2>3, <2>4 DEF EventInv
<1>16. ExpirerInv' /\ FatalOnlyForOwner'
  BY <1>2, FatalKept DEF ExpirerInv
<1> QED
  BY <1>7, <1>10, <1>11, <1>12, <1>13, <1>14, <1>15, <1>16

\* Saving the batch opens the rows of unpaid, pending requests.
LEMMA IInvCreate ==
  ASSUME IInv, TypeInv', CreateExternalWithdrawals
  PROVE  IInv'
<1> USE DEF IInv, chain, message, expirer, scanner
<1>1. /\ wpc = "save" /\ wpc' = "send" /\ wmsg' = wmsg
      /\ rows' = [rows EXCEPT ![wmsg] = body[wmsg]]
      /\ processing' = processing \cup body[wmsg]
      /\ UNCHANGED <<now, book, saved, dest, internal, processed, failed, done, hashed,
                     chain, message, expirer, scanner, fatal>>
  BY DEF CreateExternalWithdrawals
<1>2. /\ wmsg \in Msg /\ wmsg \notin sent /\ rows[wmsg] = {}
      /\ \A q \in body[wmsg] : q \notin processing /\ ~Paid(q)
  BY <1>1 DEF MessageInv
<1>3. /\ failed[wmsg] = {} /\ hashed[wmsg] = {} /\ done[wmsg] = {}
  BY <1>2 DEF RowInv
<1>4. \A n \in Msg : n # wmsg => rows'[n] = rows[n]
  BY <1>1 DEF TypeInv, TypeOK
<1>5. rows'[wmsg] = body[wmsg]
  BY <1>1, <1>2 DEF TypeInv, TypeOK
<1>6. ChainInv' /\ NoDoublePayment' /\ ExpirerInv' /\ FatalOnlyForOwner'
  BY <1>1, FatalKept DEF ChainInv, NoDoublePayment, ExpirerInv
<1>7. MessageInv'
  <2>1. \A n \in Msg : rows'[n] \subseteq body[n] /\ IsValidWithdrawal(n)'
    BY <1>1, <1>4, <1>5 DEF MessageInv, IsValidWithdrawal
  <2>2. \A n \in sent : body[n] \subseteq rows'[n]
    BY <1>2, <1>4 DEF MessageInv, TypeInv, TypeOK
  <2> QED
    BY <1>1, <1>2, <1>5, <2>1, <2>2 DEF MessageInv
<1>8. RowInv'
  BY <1>1, <1>3, <1>4 DEF RowInv
<1>9. \A n \in Msg, q \in Query : n # wmsg => (Open(n, q)' <=> Open(n, q))
  BY <1>1, <1>4 DEF Open
<1>10. \A q \in Query : Open(wmsg, q)' => q \in body[wmsg]
  BY <1>1, <1>5 DEF Open
<1>11. \A q \in processed : q \in processing
  BY DEF SettledInv
<1>12. OpenInv'
  <2>1. \A n \in Msg, q \in Query : Open(n, q)' => q \in processing' /\ q \notin processed'
    BY <1>1, <1>2, <1>9, <1>10, <1>11 DEF OpenInv
  <2>2. \A m, n \in Msg, q \in Query : Open(m, q)' /\ Open(n, q)' => m = n
    <3> SUFFICES ASSUME NEW m \in Msg, NEW n \in Msg, NEW q \in Query, Open(m, q)', Open(n, q)'
                 PROVE  m = n
      OBVIOUS
    <3>1. CASE m # wmsg /\ n # wmsg
      BY <1>9, <3>1 DEF OpenInv
    <3>2. CASE m = wmsg /\ n # wmsg
      BY <1>1, <1>2, <1>9, <1>10, <3>2 DEF OpenInv
    <3>3. CASE m # wmsg /\ n = wmsg
      BY <1>1, <1>2, <1>9, <1>10, <3>3 DEF OpenInv
    <3> QED
      BY <3>1, <3>2, <3>3
  <2> QED
    BY <2>1, <2>2 DEF OpenInv
<1>13. SettledInv'
  BY <1>1 DEF SettledInv
<1>14. ExpiredInv' /\ RecordInv'
  BY <1>1 DEF ExpiredInv, RecordInv, Expired
<1>15. PaidInv'
  <2>1. \A m \in Msg : \A q \in outs[m] : q \notin body[wmsg]
    BY <1>2 DEF Paid
  <2> QED
    BY <1>1, <1>4, <1>5, <2>1 DEF PaidInv, Expired
<1>16. EventInv'
  BY <1>1 DEF EventInv, IsNextBlock
<1> QED
  BY <1>6, <1>7, <1>8, <1>12, <1>13, <1>14, <1>15, <1>16
\* SetExpired gives up a row only when its message is too old for every block
\* the scanner has not saved: the sync check bounds the last saved block from
\* below, and SafeTiming bounds the time that has passed since.
LEMMA IInvExpire ==
  ASSUME SafeTiming, IInv, TypeInv', SetExpired
  PROVE  IInv'
<1> USE DEF IInv, chain, message, withdrawer, scanner
<1>1. /\ failed' = Merge(failed, ExpiredRows)
      /\ processing' = {q \in processing : \A m \in Msg : q \notin ExpiredRows[m]}
      /\ epc' = "sync"
      /\ UNCHANGED <<now, book, saved, dest, internal, processed, rows, done, hashed,
                     chain, message, withdrawer, scanner, fatal>>
  BY DEF SetExpired
<1>2. \A m \in Msg, q \in Query :
        q \in ExpiredRows[m] <=> Open(m, q) /\ exp[m] < now - Lag
  BY DEF ExpiredRows, Open, TypeInv, TypeOK
<1>3. \A m \in Msg, q \in Query : q \in failed'[m] <=> q \in failed[m] \/ q \in ExpiredRows[m]
  BY <1>1 DEF Merge
<1>4. \A m \in Msg, q \in Query : q \in ExpiredRows[m] => exp[m] < lastBlock + BlockGap
  <2> SUFFICES ASSUME NEW m \in Msg, exp[m] < now - Lag
               PROVE  exp[m] < lastBlock + BlockGap
    BY <1>2
  <2>1. etime < lastBlock + Lag /\ now =< etime + ExpireDelay
    BY DEF SetExpired, ExpirerInv
  <2>2. exp[m] \in Nat /\ now \in Nat /\ etime \in Nat /\ lastBlock \in Nat
    BY TimeAssumption DEF TypeInv, TypeOK, Time
  <2> QED
    BY <2>1, <2>2, TimeAssumption DEF SafeTiming
<1>5. \A m \in Msg : \A q \in hashed[m] : q \notin ExpiredRows[m] /\ q \in Query
  BY <1>2 DEF RowInv, Open, TypeInv, TypeOK
<1>6. ChainInv' /\ NoDoublePayment' /\ ExpirerInv' /\ FatalOnlyForOwner'
  BY <1>1, FatalKept DEF ChainInv, NoDoublePayment, ExpirerInv
<1>7. MessageInv'
  <2>1. \A m \in Msg : IsValidWithdrawal(m)'
    BY <1>1 DEF MessageInv, IsValidWithdrawal
  <2>2. wpc = "save" => \A q \in body[wmsg] : q \notin processing' /\ ~Paid(q)'
    BY <1>1 DEF MessageInv, Paid
  <2> QED
    BY <1>1, <2>1, <2>2 DEF MessageInv
<1>8. RowInv'
  <2> SUFFICES ASSUME NEW m \in Msg
               PROVE  /\ failed'[m] \subseteq rows[m]
                      /\ hashed[m] \subseteq done[m] \cup failed'[m]
                      /\ \A q \in hashed[m] : q \in failed'[m] => q \notin outs[m]
    BY <1>1 DEF RowInv
  <2>1. failed'[m] \subseteq Query /\ hashed[m] \subseteq Query
    BY DEF TypeInv, TypeOK
  <2>2. failed'[m] \subseteq rows[m]
    BY <1>2, <1>3, <2>1 DEF RowInv, Open
  <2>3. hashed[m] \subseteq done[m] \cup failed'[m]
    BY <1>3, <2>1 DEF RowInv
  <2>4. \A q \in hashed[m] : q \in failed'[m] => q \notin outs[m]
    BY <1>3, <1>5 DEF RowInv
  <2> QED
    BY <2>2, <2>3, <2>4
<1>9. \A m \in Msg, q \in Query : Open(m, q)' <=> Open(m, q) /\ q \notin ExpiredRows[m]
  BY <1>1, <1>3 DEF Open
<1>10. OpenInv'
  <2>1. ASSUME NEW m \in Msg, NEW q \in Query, Open(m, q)'
        PROVE  q \in processing' /\ q \notin processed'
    <3>1. q \in processing /\ q \notin processed
      BY <1>9, <2>1 DEF OpenInv
    <3>2. \A n \in Msg : q \notin ExpiredRows[n]
      BY <1>2, <1>9, <2>1 DEF OpenInv
    <3> QED
      BY <1>1, <3>1, <3>2
  <2>2. \A m, n \in Msg, q \in Query : Open(m, q)' /\ Open(n, q)' => m = n
    BY <1>9 DEF OpenInv
  <2> QED
    BY <2>1, <2>2 DEF OpenInv
<1>11. SettledInv'
  <2>1. \A q \in processed : q \in processing'
    BY <1>1, <1>2 DEF SettledInv, OpenInv, TypeInv, TypeOK
  <2> QED
    BY <1>1, <2>1 DEF SettledInv
<1>12. ExpiredInv'
  BY <1>1, <1>3, <1>4 DEF ExpiredInv, Expired
<1>13. RecordInv'
  BY <1>1 DEF RecordInv
<1>14. PaidInv'
  <2>1. \A n \in Msg, q \in Query : Expired(n, q) => Expired(n, q)'
    BY <1>1, <1>3 DEF Expired
  <2>2. \A m \in Msg : outs[m] \subseteq Query
    BY DEF TypeInv, TypeOK
  <2> QED
    BY <1>1, <2>1, <2>2 DEF PaidInv
<1>15. EventInv'
  BY <1>1 DEF EventInv, IsNextBlock
<1> QED
  BY <1>6, <1>7, <1>8, <1>10, <1>11, <1>12, <1>13, <1>14, <1>15
\* A block executes messages whose rows are all open, so each of them is the
\* only one that can pay its requests.
LEMMA IInvBlock ==
  ASSUME IInv, TypeInv', NEW t \in Time, NEW X \in SUBSET Msg, NEW o \in [X -> SUBSET Query],
         NewBlock(t, X, o)
  PROVE  IInv'
<1> USE DEF IInv, requests, table, message, withdrawer, expirer, scanner
<1>1. /\ t >= head + BlockGap /\ head' = t /\ blocks' = blocks \cup {t}
      /\ \A m \in X : Executable(m, t) /\ o[m] \subseteq body[m]
      /\ \A m \in Msg : execAt'[m] = IF m \in X THEN t ELSE execAt[m]
      /\ \A m \in Msg : outs'[m] = IF m \in X THEN o[m] ELSE outs[m]
      /\ UNCHANGED <<now, book, requests, table, message, withdrawer, expirer, scanner, fatal>>
  BY DEF NewBlock
<1>2. /\ t \in Nat /\ head \in Nat /\ lastBlock \in Nat
      /\ \A m \in Msg : exp[m] \in Nat /\ execAt[m] \in Nat
      /\ \A b \in blocks : b \in Nat
  BY TimeAssumption DEF TypeInv, TypeOK, Time
<1>3. t > head /\ t >= lastBlock + BlockGap /\ t # 0 /\ \A b \in blocks : b < t /\ b + BlockGap =< t
  BY <1>1, <1>2, TimeAssumption DEF ChainInv
<1>4. \A m \in X : m \in sent /\ execAt[m] = 0 /\ t =< exp[m] /\ outs[m] = {}
  BY <1>1 DEF Executable, ChainInv
<1>5. \A m \in X : \A q \in body[m] : Open(m, q)
  BY <1>2, <1>3, <1>4, TimeAssumption, UnscannedIsOpen
<1>6. \A m \in Msg, q \in Query : /\ Open(m, q)' <=> Open(m, q)
                                  /\ Expired(m, q)' <=> Expired(m, q)
  BY <1>1 DEF Open, Expired
<1>7. ChainInv'
  <2>1. /\ lastBlock' =< head'
        /\ \A b \in blocks' : lastBlock' + BlockGap =< b /\ b =< head'
        /\ \A b, c \in blocks' : b < c => b + BlockGap =< c
    BY <1>1, <1>2, <1>3, TimeAssumption DEF ChainInv
  <2>2. ASSUME NEW m \in Msg
        PROVE  /\ outs'[m] \subseteq body[m]
               /\ execAt'[m] = 0 => outs'[m] = {}
               /\ execAt'[m] # 0 => /\ m \in sent /\ execAt'[m] =< exp[m]
                                    /\ execAt'[m] =< lastBlock \/ execAt'[m] \in blocks'
    BY <1>1, <1>3, <1>4 DEF ChainInv
  <2> QED
    BY <1>1, <2>1, <2>2 DEF ChainInv
<1>8. \A m \in X : \A q \in o[m] : Open(m, q) /\ q \in Query
  BY <1>1, <1>5 DEF TypeInv, TypeOK
<1>9. MessageInv'
  <2>1. \A m \in Msg : IsValidWithdrawal(m)'
    BY <1>1 DEF MessageInv, IsValidWithdrawal
  <2>2. ASSUME wpc = "save", NEW q \in body[wmsg]
        PROVE  ~Paid(q)'
    BY <1>1, <1>8, <2>2 DEF MessageInv, OpenInv, Paid
  <2> QED
    BY <1>1, <2>1, <2>2 DEF MessageInv
<1>10. \A m \in Msg : \A q \in hashed[m] : m \notin X
  BY <1>4 DEF RowInv
<1>11. RowInv'
  <2>1. ASSUME NEW m \in Msg
        PROVE  /\ \A q \in hashed[m] : execAt'[m] # 0 /\ execAt'[m] =< lastBlock
               /\ done[m] \subseteq outs'[m]
               /\ \A q \in hashed[m] : q \in failed[m] => q \notin outs'[m]
    BY <1>1, <1>10 DEF RowInv
  <2> QED
    BY <1>1, <2>1 DEF RowInv
<1>12. OpenInv' /\ SettledInv'
  BY <1>1, <1>6 DEF OpenInv, SettledInv
<1>13. ExpiredInv'
  BY <1>1, <1>6 DEF ExpiredInv
<1>14. RecordInv'
  BY <1>1, <1>2, <1>3, TimeAssumption DEF RecordInv
<1>15. PaidInv'
  <2> SUFFICES ASSUME NEW m \in Msg, NEW n \in Msg, NEW q \in outs'[m],
                      q \in rows[n], ~Expired(n, q)
               PROVE  m = n
    BY <1>1, <1>6 DEF PaidInv, TypeInv, TypeOK
  <2>1. q \in Query
    BY DEF TypeInv, TypeOK
  <2>2. CASE m \notin X
    BY <1>1, <2>2 DEF PaidInv
  <2>3. CASE m \in X
    <3>1. Open(m, q)
      BY <1>1, <1>8, <2>3
    <3>2. CASE q \in hashed[n]
      BY <2>1, <3>1, <3>2 DEF OpenInv, RowInv
    <3>3. CASE q \notin hashed[n]
      <4>1. Open(n, q)
        BY <3>3 DEF Open, Expired, RowInv
      <4> QED
        BY <2>1, <3>1, <4>1 DEF OpenInv
    <3> QED
      BY <3>2, <3>3
  <2> QED
    BY <2>2, <2>3
<1>16. EventInv'
  <2> SUFFICES ASSUME spc # "next" PROVE EventInv'
    BY <1>1 DEF EventInv
  <2>1. PICK c \in blocks :
          /\ IsNextBlock(c)
          /\ \A n \in Msg :
               /\ evDone[n] \subseteq outs[n]
               /\ evFailed[n] \subseteq body[n] \ outs[n]
               /\ evDone[n] \cup evFailed[n] # {} => execAt[n] = c
               /\ execAt[n] = c =>
                    \A q \in body[n] : q \in evDone[n] \cup evFailed[n] \/ dest[q] \in book
    BY DEF EventInv
  <2>2. c # t /\ c # 0 /\ c < t
    BY <1>2, <1>3, TimeAssumption DEF ChainInv
  <2>3. \A n \in X : evDone[n] = {} /\ evFailed[n] = {}
    BY <1>4, <2>1, <2>2
  <2>4. \A n \in Msg :
               /\ evDone[n] \subseteq outs'[n]
               /\ evFailed[n] \subseteq body[n] \ outs'[n]
               /\ evDone[n] \cup evFailed[n] # {} => execAt'[n] = c
               /\ execAt'[n] = c =>
                    \A q \in body[n] : q \in evDone[n] \cup evFailed[n] \/ dest[q] \in book
    BY <1>1, <2>1, <2>2, <2>3
  <2>5. IsNextBlock(c)'
    BY <1>1, <1>2, <2>1, <2>2 DEF IsNextBlock
  <2> QED
    BY <1>1, <2>4, <2>5 DEF EventInv
<1>17. ExpirerInv' /\ FatalOnlyForOwner'
  <2>1. \A m \in Msg : outs[m] \subseteq outs'[m]
    BY <1>1, <1>4
  <2> QED
    BY <1>1, <2>1, FatalKept DEF ExpirerInv
<1>18. NoDoublePayment'
  <2> SUFFICES ASSUME NEW m \in Msg, NEW n \in Msg, NEW q \in outs'[m], q \in outs'[n]
               PROVE  m = n
    BY DEF NoDoublePayment
  <2>1. q \in Query
    BY DEF TypeInv, TypeOK
  <2>2. CASE m \notin X /\ n \notin X
    BY <1>1, <2>2 DEF NoDoublePayment
  <2>3. ASSUME NEW k \in X, q \in outs'[k], NEW j \in Msg, q \in outs'[j]
        PROVE  j = k
    <3>1. Open(k, q)
      BY <1>1, <1>8, <2>3
    <3>2. q \in rows'[k] /\ ~Expired(k, q)'
      BY <1>1, <1>6, <2>1, <2>3, <3>1 DEF Open, Expired
    <3> QED
      BY <1>15, <2>3, <3>2 DEF PaidInv
  <2> QED
    BY <2>2, <2>3
<1> QED
  BY <1>7, <1>9, <1>11, <1>12, <1>13, <1>14, <1>15, <1>16, <1>17, <1>18

\* The scanner parses the next block into events for all its outcomes, except
\* those of internal addresses.
LEMMA IInvParse ==
  ASSUME IInv, TypeInv', NEW b \in Time, ParseBlock(b), ~ScannerFatal
  PROVE  IInv'
<1> USE DEF IInv, requests, table, chain, message, withdrawer, expirer
<1>2. /\ IsNextBlock(b)
      /\ \A m \in Msg : evDone'[m] = IF execAt[m] = b THEN SentWithdrawals(m) ELSE {}
      /\ \A m \in Msg : evFailed'[m] = IF execAt[m] = b THEN FailedWithdrawals(m) ELSE {}
      /\ UNCHANGED <<lastBlock, now, book, requests, table, chain, message, withdrawer,
                     expirer, fatal>>
  BY DEF ParseBlock
<1>3. ChainInv' /\ NoDoublePayment' /\ ExpirerInv' /\ FatalOnlyForOwner'
  BY <1>2, FatalKept DEF ChainInv, NoDoublePayment, ExpirerInv
<1>4. MessageInv'
  BY <1>2 DEF MessageInv, IsValidWithdrawal, Paid
<1>5. RowInv' /\ OpenInv' /\ SettledInv'
  BY <1>2 DEF RowInv, OpenInv, SettledInv, Open
<1>6. ExpiredInv' /\ RecordInv' /\ PaidInv'
  BY <1>2 DEF ExpiredInv, RecordInv, PaidInv, Expired
<1>7. EventInv'
  <2>1. ASSUME NEW m \in Msg
        PROVE  /\ evDone'[m] \subseteq outs[m]
               /\ evFailed'[m] \subseteq body[m] \ outs[m]
               /\ evDone'[m] \cup evFailed'[m] # {} => execAt[m] = b
               /\ execAt[m] = b =>
                    \A q \in body[m] : q \in evDone'[m] \cup evFailed'[m] \/ dest[q] \in book
    BY <1>2 DEF SentWithdrawals, FailedWithdrawals
  <2>2. IsNextBlock(b)' /\ b \in blocks'
    BY <1>2 DEF IsNextBlock
  <2> QED
    BY <1>2, <2>1, <2>2 DEF EventInv
<1> QED
  BY <1>3, <1>4, <1>5, <1>6, <1>7

\* A block that cannot be parsed has a TON payment to the owner of a Jetton
\* deposit: the recipients of a message always differ.
LEMMA IInvParseFatal ==
  ASSUME IInv, TypeInv', NEW b \in Time, ParseBlock(b), ScannerFatal
  PROVE  IInv'
<1> USE DEF requests, table, chain, message
<1>1. fatal' # fatal => \E m \in Msg : ~IsParsable(m)
  BY DEF ParseBlock
<1>2. FatalOnlyForOwner' \/ fatal' = fatal
  <2> SUFFICES ASSUME fatal' # fatal PROVE FatalOnlyForOwner'
    OBVIOUS
  <2>1. PICK m \in Msg : ~IsParsable(m)
    BY <1>1
  <2>2. PICK q \in outs[m] : IsProxyMsg(q)
    BY <2>1 DEF IsParsable, IInv, MessageInv
  <2>3. q \in saved
    BY <2>2 DEF IInv, TypeInv, TypeOK
  <2>4. Paid(q)' /\ IsProxyMsg(q)' /\ q \in saved'
    BY <2>2, <2>3 DEF ScannerFatal, Paid, IsProxyMsg
  <2> QED
    BY <2>4 DEF FatalOnlyForOwner
<1> QED
  BY <1>2, IInvLocal DEF ScannerFatal, Volatile, ExpirerInv, IInv

\* Rows with an event at hand are open: a transaction in a block that is not
\* saved yet is never one of an expired message.
LEMMA EventIsOpen ==
  ASSUME IInv, spc # "next", NEW m \in Msg, NEW q \in evDone[m] \cup evFailed[m]
  PROVE  Open(m, q)
<1>1. q \in body[m] /\ execAt[m] \in blocks
  BY DEF IInv, EventInv, ChainInv
<1> QED
  BY <1>1, UnsavedIsOpen DEF IInv

\* Saving a block settles the open rows of its events.
LEMMA IInvSave ==
  ASSUME IInv, TypeInv', NEW b \in Time, SaveParsedBlockData(b)
  PROVE  IInv'
<1> USE DEF IInv, message, withdrawer, expirer
<1> DEFINE Ev(m) == evDone[m] \cup evFailed[m]
<1>1. /\ spc = "apply" /\ IsNextBlock(b)
      /\ \A m \in Msg : done'[m] = done[m] \cup evDone[m]
      /\ \A m \in Msg : failed'[m] = failed[m] \cup evFailed[m]
      /\ \A m \in Msg : hashed'[m] = hashed[m] \cup Ev(m)
      /\ processed' = processed \cup {q \in saved : \E m \in Msg : q \in Ev(m)}
      /\ lastBlock' = b /\ blocks' = blocks \ {b} /\ spc' = "next"
      /\ UNCHANGED <<now, book, saved, dest, internal, processing, rows, head, execAt, outs,
                     message, withdrawer, expirer, fatal>>
  BY DEF SaveParsedBlockData, NewTxHashes, Merge
<1>2. /\ b \in Nat /\ head \in Nat /\ lastBlock \in Nat /\ b \in blocks
      /\ \A m \in Msg : exp[m] \in Nat /\ execAt[m] \in Nat
      /\ \A c \in blocks : c \in Nat
  BY <1>1, TimeAssumption DEF TypeInv, TypeOK, Time, IsNextBlock
<1>3. lastBlock + BlockGap =< b /\ b =< head /\ b # 0 /\ lastBlock < b
  BY <1>2, TimeAssumption DEF ChainInv
<1>4. \A m \in Msg : /\ evDone[m] \subseteq outs[m]
                     /\ evFailed[m] \subseteq body[m] \ outs[m]
                     /\ Ev(m) # {} => execAt[m] = b
                     /\ execAt[m] = b => \A q \in body[m] : q \in Ev(m) \/ dest[q] \in book
  <2>1. PICK c \in blocks :
          /\ IsNextBlock(c)
          /\ \A m \in Msg :
               /\ evDone[m] \subseteq outs[m]
               /\ evFailed[m] \subseteq body[m] \ outs[m]
               /\ evDone[m] \cup evFailed[m] # {} => execAt[m] = c
               /\ execAt[m] = c =>
                    \A q \in body[m] : q \in evDone[m] \cup evFailed[m] \/ dest[q] \in book
    BY <1>1 DEF EventInv
  <2>2. c = b
    BY <1>1, <1>2, <2>1 DEF IsNextBlock
  <2> QED
    BY <2>1, <2>2
<1>5. \A m \in Msg : \A q \in Ev(m) : Open(m, q) /\ q \in saved /\ q \in Query
  BY <1>1, EventIsOpen DEF TypeInv, TypeOK
<1>6. ChainInv'
  <2>1. /\ lastBlock' =< head'
        /\ \A c \in blocks' : lastBlock' + BlockGap =< c /\ c =< head'
        /\ \A c, d \in blocks' : c < d => c + BlockGap =< d
    BY <1>1, <1>2, <1>3, TimeAssumption DEF ChainInv, IsNextBlock
  <2>2. \A m \in Msg : execAt[m] =< lastBlock \/ execAt[m] \in blocks
                         => execAt[m] =< b \/ execAt[m] \in blocks'
    BY <1>1, <1>2, <1>3
  <2> QED
    BY <1>1, <2>1, <2>2 DEF ChainInv
<1>7. MessageInv'
  <2>1. \A m \in Msg : IsValidWithdrawal(m)'
    BY <1>1 DEF MessageInv, IsValidWithdrawal
  <2>2. \A q : Paid(q)' <=> Paid(q)
    BY <1>1 DEF Paid
  <2> QED
    BY <1>1, <2>1, <2>2 DEF MessageInv
<1>8. RowInv'
  <2> SUFFICES ASSUME NEW m \in Msg
               PROVE  /\ failed'[m] \subseteq rows[m] /\ hashed'[m] \subseteq rows[m]
                      /\ done'[m] \subseteq hashed'[m]
                      /\ hashed'[m] \subseteq done'[m] \cup failed'[m]
                      /\ \A q \in hashed'[m] : q \in processed' /\ execAt[m] # 0 /\ execAt[m] =< b
                      /\ done'[m] \subseteq outs[m]
                      /\ \A q \in hashed'[m] : q \in failed'[m] => q \notin outs[m]
    BY <1>1 DEF RowInv
  <2>1. \A q \in Ev(m) : q \in rows[m] /\ q \notin failed[m] /\ q \notin done[m]
    BY <1>5 DEF Open
  <2>2. failed'[m] \subseteq rows[m] /\ hashed'[m] \subseteq rows[m]
    BY <1>1, <2>1 DEF RowInv
  <2>3. done'[m] \subseteq hashed'[m] /\ hashed'[m] \subseteq done'[m] \cup failed'[m]
    BY <1>1 DEF RowInv
  <2>4. \A q \in hashed'[m] : q \in processed' /\ execAt[m] # 0 /\ execAt[m] =< b
    BY <1>1, <1>2, <1>3, <1>4, <1>5 DEF RowInv
  <2>5. done'[m] \subseteq outs[m]
    BY <1>1, <1>4 DEF RowInv
  <2>6. \A q \in hashed[m] : q \notin Ev(m)
    BY <2>1 DEF RowInv
  <2>7. \A q \in hashed'[m] : q \in failed'[m] => q \notin outs[m]
    BY <1>1, <1>4, <2>1, <2>6 DEF RowInv
  <2> QED
    BY <2>2, <2>3, <2>4, <2>5, <2>7
<1>9. \A m \in Msg, q \in Query : Open(m, q)' => Open(m, q) /\ q \notin Ev(m)
  BY <1>1 DEF Open
<1>10. OpenInv'
  <2>1. ASSUME NEW m \in Msg, NEW q \in Query, Open(m, q)'
        PROVE  q \in processing' /\ q \notin processed'
    <3>1. Open(m, q) /\ q \notin Ev(m)
      BY <1>9, <2>1
    <3>2. \A n \in Msg : q \notin Ev(n)
      BY <1>5, <3>1 DEF OpenInv
    <3> QED
      BY <1>1, <3>1, <3>2 DEF OpenInv
  <2>2. \A m, n \in Msg, q \in Query : Open(m, q)' /\ Open(n, q)' => m = n
    BY <1>9 DEF OpenInv
  <2> QED
    BY <2>1, <2>2 DEF OpenInv
<1>11. SettledInv'
  <2> SUFFICES ASSUME NEW q \in processed'
               PROVE  /\ q \in processing
                      /\ \E m \in Msg : q \in hashed'[m]
                      /\ \A m, n \in Msg : q \in hashed'[m] /\ q \in hashed'[n] => m = n
    BY <1>1 DEF SettledInv
  <2>1. \A m, n \in Msg : q \in Ev(m) => q \notin hashed[n]
    BY <1>5 DEF OpenInv, RowInv
  <2>2. \A m, n \in Msg : q \in Ev(m) /\ q \in Ev(n) => m = n
    BY <1>5 DEF OpenInv
  <2>3. \A m, n \in Msg : q \in hashed[m] /\ q \in hashed[n] => m = n
    BY DEF SettledInv, RowInv
  <2>4. q \in processing
    BY <1>1, <1>5 DEF SettledInv, OpenInv
  <2>5. \E m \in Msg : q \in hashed'[m]
    BY <1>1 DEF SettledInv
  <2> QED
    BY <1>1, <2>1, <2>2, <2>3, <2>4, <2>5
<1>12. \A m \in Msg, q \in Query : Expired(m, q)' <=> Expired(m, q)
  BY <1>1, <1>5 DEF Expired, Open
<1>13. ExpiredInv'
  BY <1>1, <1>2, <1>3, <1>12, TimeAssumption DEF ExpiredInv
<1>14. RecordInv'
  <2> SUFFICES ASSUME NEW m \in Msg, execAt[m] # 0, execAt[m] =< b, NEW q \in body[m]
               PROVE  q \in hashed'[m] \/ dest[q] \in book
    BY <1>1 DEF RecordInv
  <2>1. CASE execAt[m] =< lastBlock
    BY <1>1, <2>1 DEF RecordInv
  <2>2. CASE execAt[m] \in blocks
    <3>1. execAt[m] = b
      BY <1>1, <1>2, <2>2 DEF IsNextBlock
    <3> QED
      BY <1>1, <1>4, <3>1
  <2> QED
    BY <2>1, <2>2 DEF ChainInv
<1>15. PaidInv' /\ NoDoublePayment'
  BY <1>1, <1>12 DEF PaidInv, NoDoublePayment, TypeInv, TypeOK
<1>16. EventInv'
  BY <1>1 DEF EventInv
<1>17. ExpirerInv'
  BY <1>1, <1>2, <1>3, TimeAssumption DEF ExpirerInv, TypeInv, TypeOK, Time
<1>18. FatalOnlyForOwner'
  BY <1>1, FatalKept
<1> QED
  BY <1>1, <1>6, <1>7, <1>8, <1>10, <1>11, <1>13, <1>14, <1>15, <1>16, <1>17, <1>18
\* Every step keeps the invariant.
LEMMA IInvNext == SafeTiming /\ IInv /\ [Next]_vars => IInv'
<1> SUFFICES ASSUME SafeTiming, IInv, [Next]_vars PROVE IInv'
  OBVIOUS
<1>0. TypeInv'
  BY TypeInvNext DEF IInv
<1> USE DEF requests, table, chain, message, withdrawer, expirer, scanner
<1>1. CASE Tick
  BY <1>0, <1>1, IInvLocal DEF Tick, ExpirerInv, IInv
<1>2. ASSUME NEW q \in Query, NEW a \in Addr, SendWithdrawal(q, a) PROVE IInv'
  <2>1. \A p \in saved : dest'[p] = dest[p]
    BY <1>2 DEF SendWithdrawal, SaveWithdrawalRequest, IInv, TypeInv, TypeOK
  <2> QED
    BY <1>0, <1>2, <2>1, IInvRequest DEF SendWithdrawal, SaveWithdrawalRequest
<1>3. ASSUME NEW a \in Deposits, SaveWallet(a) PROVE IInv'
  BY <1>0, <1>3, IInvRequest DEF SaveWallet
<1>4. CASE WithdrawalsWaitSync
  BY <1>0, <1>4, IInvLocal DEF WithdrawalsWaitSync, ExpirerInv, IInv
<1>5. ASSUME NEW q \in Query, MakeColdWalletWithdrawal(q) PROVE IInv'
  <2>1. \A p \in saved : dest'[p] = dest[p]
    BY <1>5 DEF MakeColdWalletWithdrawal, SaveWithdrawalRequest, IInv, TypeInv, TypeOK
  <2> QED
    BY <1>0, <1>5, <2>1, IInvRequest DEF MakeColdWalletWithdrawal, SaveWithdrawalRequest
<1>6. ASSUME NEW b \in SUBSET Query, BuildWithdrawalMessages(b) PROVE IInv'
  <2>1. CASE b = {}
    BY <1>0, <1>6, <2>1, IInvLocal DEF BuildWithdrawalMessages, ExpirerInv, IInv
  <2>2. CASE b # {}
    BY <1>0, <1>6, <2>2, IInvBuild
  <2> QED
    BY <2>1, <2>2
<1>7. CASE CreateExternalWithdrawals
  BY <1>0, <1>7, IInvCreate
<1>8. CASE SendExternalMessage
  BY <1>0, <1>8, IInvLocal DEF SendExternalMessage, ExpirerInv, IInv
<1>9. CASE ExpirationWaitSync
  <2>1. ExpirerInv'
    BY <1>9, TimeAssumption
    DEF ExpirationWaitSync, IsActualBlockData, ExpirerInv, IInv, TypeInv, TypeOK, Time
  <2> QED
    BY <1>0, <1>9, <2>1, IInvLocal DEF ExpirationWaitSync
<1>10. CASE SetExpired
  BY <1>0, <1>10, IInvExpire
<1>11. ASSUME NEW t \in Time, NEW X \in SUBSET Msg, NEW o \in [X -> SUBSET Query],
              NewBlock(t, X, o)
       PROVE IInv'
  BY <1>0, <1>11, IInvBlock
<1>12. ASSUME NEW b \in Time, ParseBlock(b) PROVE IInv'
  BY <1>0, <1>12, IInvParse, IInvParseFatal
<1>13. CASE CheckAlreadyFailed
  <2>1. \A m \in Msg : evDone[m] \cup evFailed[m] \subseteq rows[m] \ failed[m]
    BY <1>13, EventIsOpen DEF CheckAlreadyFailed, Open
  <2> QED
    BY <1>0, <1>13, <2>1, IInvLocal DEF CheckAlreadyFailed, ExpirerInv, IInv
<1>14. ASSUME NEW b \in Time, SaveParsedBlockData(b) PROVE IInv'
  BY <1>0, <1>14, IInvSave
<1>15. CASE Restart
  BY <1>0, <1>15, IInvLocal DEF Restart, Volatile, ExpirerInv, IInv
<1>16. CASE UNCHANGED vars
  BY <1>0, <1>16, IInvLocal DEF vars, ExpirerInv, IInv
<1> QED
  BY <1>1, <1>2, <1>3, <1>4, <1>5, <1>6, <1>7, <1>8, <1>9, <1>10, <1>11, <1>12, <1>13,
     <1>14, <1>15, <1>16 DEF Next

\* The inductive invariant is an invariant, under SafeTiming.
THEOREM Invariance == SafeTiming /\ Spec => []IInv
<1> SUFFICES ASSUME SafeTiming PROVE Spec => []IInv
  BY DEF SafeTiming
<1>1. IInv /\ [Next]_vars => IInv'
  BY IInvNext
<1> QED
  BY IInvInit, <1>1, PTL DEF Spec

-----------------------------------------------------------------------------
(* The properties of the runs follow from the invariant. *)

\* A request the API calls "failed" was not paid and no message can pay it.
LEMMA FailedIsUnpaid ==
  ASSUME IInv, NEW m \in Msg, NEW q \in hashed[m], q \in failed[m]
  PROVE  ~Paid(q)
<1> USE DEF IInv
<1>1. q \in rows[m] /\ ~Expired(m, q) /\ q \notin outs[m]
  BY DEF RowInv, Expired
<1> QED
  BY <1>1 DEF PaidInv, Paid

\* A live message has only open rows, so its requests are processing.
LEMMA LiveIsOpen ==
  ASSUME IInv, NEW m \in Msg, Live(m), NEW q \in body[m]
  PROVE  q \in processing /\ q \notin processed
<1> USE DEF IInv
<1>1. lastBlock + BlockGap =< exp[m]
  BY TimeAssumption DEF Live, ChainInv, TypeInv, TypeOK, Time
<1>2. Open(m, q)
  BY <1>1, UnscannedIsOpen DEF Live
<1> QED
  BY <1>2 DEF OpenInv, TypeInv, TypeOK

\* The properties as consequences of the invariant.
LEMMA IInvImplies ==
  ASSUME IInv
  PROVE  NoDoublePayment /\ FatalOnlyForOwner /\ StatusTruthful /\ OneSettledRow /\ RetryIsExclusive
<1>1. NoDoublePayment /\ FatalOnlyForOwner
  BY DEF IInv
<1>2. RetryIsExclusive
  BY LiveIsOpen DEF RetryIsExclusive
<1>3. OneSettledRow
  <2> SUFFICES ASSUME NEW q \in processed PROVE \E m \in Msg : SettledRows(q) = {m}
    BY DEF OneSettledRow
  <2>1. PICK m \in Msg : q \in hashed[m]
    BY DEF IInv, SettledInv
  <2>2. \A n \in Msg : q \in hashed[n] \cup done[n] => n = m
    BY <2>1 DEF IInv, SettledInv, RowInv
  <2> QED
    BY <2>1, <2>2 DEF SettledRows
<1>4. StatusTruthful
  <2> SUFFICES ASSUME NEW q \in saved
               PROVE  LET status == GetExternalWithdrawalStatus(q) IN
                      /\ status = "processed" => Paid(q)
                      /\ status = "failed" => ~Paid(q) /\ \A m \in Msg : q \in body[m] => ~Live(m)
                      /\ status = "pending" => dest[q] \in book \/ ~Paid(q)
                      /\ status # "bad status"
    BY DEF StatusTruthful
  <2>1. CASE q \in processing /\ q \in processed
    <3>1. PICK m \in Msg : SettledRows(q) = {m}
      BY <1>3, <2>1 DEF OneSettledRow
    <3>2. q \in hashed[m]
      BY <3>1 DEF SettledRows, IInv, RowInv
    <3>3. CASE q \in failed[m]
      <4>1. GetExternalWithdrawalStatus(q) = "failed"
        BY <2>1, <3>1, <3>3 DEF GetExternalWithdrawalStatus
      <4>2. ~Paid(q)
        BY <3>2, <3>3, FailedIsUnpaid
      <4>3. \A n \in Msg : q \in body[n] => ~Live(n)
        BY <2>1, LiveIsOpen
      <4> QED
        BY <4>1, <4>2, <4>3
    <3>4. CASE q \notin failed[m]
      <4>1. GetExternalWithdrawalStatus(q) = "processed"
        BY <2>1, <3>1, <3>4 DEF GetExternalWithdrawalStatus
      <4>2. Paid(q)
        BY <3>2, <3>4 DEF IInv, RowInv, Paid
      <4> QED
        BY <4>1, <4>2
    <3> QED
      BY <3>3, <3>4
  <2>2. CASE q \in processing /\ q \notin processed
    BY <2>2 DEF GetExternalWithdrawalStatus
  <2>3. CASE q \notin processing
    <3>1. q \notin processed
      BY <2>3 DEF IInv, SettledInv
    <3>2. GetExternalWithdrawalStatus(q) = "pending"
      BY <2>3, <3>1 DEF GetExternalWithdrawalStatus
    <3> QED
      BY <2>3, <3>2, PendingIsUnpaid
  <2> QED
    BY <2>1, <2>2, <2>3
<1> QED
  BY <1>1, <1>2, <1>3, <1>4

\* Under SafeTiming the hot wallet never pays a request twice, for any number of
\* requests, messages and restarts and any clock skew.
THEOREM NeverPaidTwice == SafeTiming /\ Spec => []NoDoublePayment
BY Invariance, IInvImplies, PTL

\* Under SafeTiming the scanner never runs into one of its "impossible" errors:
\* it stops only after TONs were paid to an address that was then given out as
\* the owner of a Jetton deposit.
THEOREM StopsOnlyForOwner == SafeTiming /\ Spec => []FatalOnlyForOwner
BY Invariance, IInvImplies, PTL

\* Under SafeTiming the status the API reports agrees with the chain.
THEOREM StatusIsTrue == SafeTiming /\ Spec => []StatusTruthful
BY Invariance, IInvImplies, PTL

\* Under SafeTiming a final request has exactly one settled record.
THEOREM SettledOnce == SafeTiming /\ Spec => []OneSettledRow
BY Invariance, IInvImplies, PTL

\* Under SafeTiming a pending request is in no message that can still execute.
THEOREM RetryExcludesOlder == SafeTiming /\ Spec => []RetryIsExclusive
BY Invariance, IInvImplies, PTL

-----------------------------------------------------------------------------
(***************************************************************************)
(* The refinement: every step is a step of WithdrawalLedger, or changes    *)
(* neither what the API reports nor what is paid.                          *)
(***************************************************************************)

Reported(q) == IF q \in saved THEN GetExternalWithdrawalStatus(q) ELSE "none"

ReportedStatus == [q \in Query |-> Reported(q)]
PaidRequests == {q \in Query : Paid(q)}

LedgerVars == <<ReportedStatus, PaidRequests>>

\* The tables and the outcomes start empty.
LEMMA LedgerInit == Init => Ledger!Init
<1> SUFFICES ASSUME Init PROVE Ledger!Init
  OBVIOUS
<1>1. [q \in Query |-> IF q \in saved THEN GetExternalWithdrawalStatus(q) ELSE "none"]
        = [q \in Query |-> "none"]
  BY DEF Init
<1>2. {q \in Query : Paid(q)} = {}
  BY DEF Init, Paid, NoRows
<1> QED
  BY <1>1, <1>2 DEF Ledger!Init

\* The reported statuses, by the flags of the request.
LEMMA StatusCases ==
  ASSUME IInv, NEW q \in saved
  PROVE  /\ q \notin processing => q \notin processed /\ Reported(q) = "pending"
         /\ q \in processing /\ q \notin processed => Reported(q) = "processing"
         /\ q \in processed => /\ q \in processing
                               /\ Reported(q) = IF \E m \in SettledRows(q) : q \in failed[m]
                                                THEN "failed" ELSE "processed"
BY DEF IInv, SettledInv, Reported, GetExternalWithdrawalStatus

LEMMA LedgerIn ==
  ASSUME NEW s, NEW q \in Query
  PROVE  q \in Ledger!In(s) <=> Reported(q) = s
BY DEF Ledger!In, Reported

LEMMA LedgerMove ==
  ASSUME NEW S, NEW s, \A q \in Query : Reported(q)' = IF q \in S THEN s ELSE Reported(q)
  PROVE  Ledger!Move(S, s)
BY DEF Ledger!Move, Reported

\* Steps that leave the flags, the rows and the outcomes alone.
LEMMA LedgerStutter ==
  ASSUME UNCHANGED <<saved, processing, processed, failed, done, hashed, outs>>
  PROVE  UNCHANGED LedgerVars
BY DEF LedgerVars, ReportedStatus, PaidRequests, Reported, GetExternalWithdrawalStatus, SettledRows, Paid

\* A new request is pending: the API or the cold wallet check accepts it.
LEMMA LedgerAccept ==
  ASSUME IInv, IInv', NEW q \in Query, NEW a \in Addr, SaveWithdrawalRequest(q, a), UNCHANGED <<table, outs>>
  PROVE  Ledger!Next
<1>1. q \notin saved /\ saved' = saved \cup {q} /\ UNCHANGED <<processing, processed>>
  BY DEF SaveWithdrawalRequest
<1>2. q \notin processing'
  BY <1>1 DEF IInv, TypeInv, TypeOK
<1>3. Reported(q) = "none" /\ Reported(q)' = "pending"
  BY <1>1, <1>2, StatusCases DEF Reported, GetExternalWithdrawalStatus, IInv, TypeInv, TypeOK
<1>4. \A p \in Query \ {q} : Reported(p)' = Reported(p)
  BY <1>1 DEF Reported, GetExternalWithdrawalStatus, SettledRows, table
<1>5. Ledger!Move({q}, "pending")
  <2>1. \A p \in Query : Reported(p)' = IF p \in {q} THEN "pending" ELSE Reported(p)
    BY <1>3, <1>4
  <2> QED
    BY <2>1, LedgerMove
<1>6. q \in Ledger!In("none")
  BY <1>3, LedgerIn
<1>7. {p \in Query : Paid(p)}' = {p \in Query : Paid(p)}
  BY DEF Paid
<1> QED
  BY <1>5, <1>6, <1>7 DEF Ledger!Next, Ledger!Accept

\* CreateExternalWithdrawals starts an attempt for unpaid requests only.
LEMMA LedgerStart ==
  ASSUME IInv, IInv', CreateExternalWithdrawals
  PROVE  Ledger!Next
<1>0. PICK S : S = body[wmsg]
  OBVIOUS
<1>1. /\ wpc = "save" /\ processing' = processing \cup S
      /\ UNCHANGED <<saved, processed, failed, done, hashed, outs>>
  BY <1>0 DEF CreateExternalWithdrawals, chain
<1>2. S \subseteq saved /\ S \subseteq Query
  BY <1>0, <1>1 DEF IInv, TypeInv, TypeOK
<1>3. \A q \in S : q \notin processing /\ ~Paid(q)
  BY <1>0, <1>1 DEF IInv, MessageInv
<1>4. \A q \in S : q \notin processed /\ Reported(q) = "pending"
  BY <1>2, <1>3, StatusCases
<1>5. \A q \in S : Reported(q)' = "processing"
  BY <1>1, <1>2, <1>4 DEF Reported, GetExternalWithdrawalStatus
<1>6. \A q \in Query \ S : Reported(q)' = Reported(q)
  BY <1>1 DEF Reported, GetExternalWithdrawalStatus, SettledRows
<1>7. Ledger!Move(S, "processing")
  BY <1>5, <1>6, LedgerMove
<1>8. S \subseteq Ledger!In("pending") \ {q \in Query : Paid(q)}
  BY <1>2, <1>3, <1>4, LedgerIn
<1>9. {q \in Query : Paid(q)}' = {q \in Query : Paid(q)}
  BY <1>1 DEF Paid
<1>10. Ledger!Start(S)
  BY <1>7, <1>8, <1>9 DEF Ledger!Start
<1>11. S \in SUBSET Query
  BY <1>2
<1> QED
  BY <1>10, <1>11 DEF Ledger!Next

\* SetExpired sends the requests of open rows back to pending.
LEMMA LedgerRetry ==
  ASSUME IInv, IInv', SetExpired
  PROVE  Ledger!Next
<1>0. PICK S \in SUBSET Query : S = {q \in processing : \E m \in Msg : q \in ExpiredRows[m]}
  BY DEF IInv, TypeInv, TypeOK
<1>1. /\ processing' = processing \ S /\ failed' = Merge(failed, ExpiredRows)
      /\ UNCHANGED <<saved, processed, done, hashed, outs>>
  BY <1>0 DEF SetExpired, chain
<1>2. \A m \in Msg : \A q \in ExpiredRows[m] : Open(m, q) /\ q \in saved /\ q \in Query
  BY DEF ExpiredRows, Open, IInv, TypeInv, TypeOK
<1>3. \A m \in Msg : \A q \in ExpiredRows[m] : q \in S /\ q \notin processed
  BY <1>0, <1>2 DEF IInv, OpenInv
<1>4. \A q \in S : q \in saved /\ q \in processing /\ q \notin processed
  BY <1>0, <1>2, <1>3
<1>5. \A q \in S : Reported(q) = "processing" /\ Reported(q)' = "pending"
  BY <1>1, <1>4 DEF Reported, GetExternalWithdrawalStatus
<1>6. \A q \in Query \ S : Reported(q)' = Reported(q)
  <2>1. \A q \in Query \ S, m \in Msg : q \in failed'[m] <=> q \in failed[m]
    BY <1>1, <1>3 DEF Merge
  <2> QED
    BY <1>1, <2>1 DEF Reported, GetExternalWithdrawalStatus, SettledRows
<1>7. Ledger!Move(S, "pending")
  BY <1>5, <1>6, LedgerMove
<1>8. S \subseteq Ledger!In("processing")
  BY <1>5, LedgerIn
<1>9. {q \in Query : Paid(q)}' = {q \in Query : Paid(q)}
  BY <1>1 DEF Paid
<1>10. Ledger!Retry(S)
  BY <1>7, <1>8, <1>9 DEF Ledger!Retry
<1> QED
  BY <1>10 DEF Ledger!Next

\* A block pays requests that are processing and that no message has paid.
LEMMA LedgerPay ==
  ASSUME IInv, IInv', NEW t \in Time, NEW X \in SUBSET Msg, NEW o \in [X -> SUBSET Query], NewBlock(t, X, o)
  PROVE  Ledger!Next
<1> DEFINE S == {q \in Query : \E m \in X : q \in o[m]}
<1>1. /\ t >= head + BlockGap
      /\ \A m \in X : Executable(m, t) /\ o[m] \subseteq body[m]
      /\ outs' = [m \in Msg |-> IF m \in X THEN o[m] ELSE outs[m]]
      /\ UNCHANGED <<saved, processing, processed, failed, done, hashed>>
  BY DEF NewBlock, requests, table
<1>2. ASSUME NEW m \in X, NEW q \in o[m]
      PROVE  Open(m, q) /\ q \in saved /\ q \in Query /\ execAt[m] = 0
  <2>1. m \in Msg /\ m \in sent /\ execAt[m] = 0 /\ t =< exp[m] /\ q \in body[m]
    BY <1>1 DEF Executable
  <2>2. lastBlock =< head /\ lastBlock \in Nat /\ head \in Nat /\ t \in Nat /\ exp[m] \in Nat
    BY <2>1, TimeAssumption DEF IInv, ChainInv, TypeInv, TypeOK, Time
  <2>3. lastBlock + BlockGap =< exp[m]
    BY <1>1, <2>1, <2>2, TimeAssumption
  <2>4. Open(m, q)
    BY <2>1, <2>3, UnscannedIsOpen DEF IInv
  <2> QED
    BY <2>1, <2>4 DEF IInv, TypeInv, TypeOK
<1>3. ASSUME NEW q \in S
      PROVE  Reported(q) = "processing" /\ ~Paid(q)
  <2>1. PICK m \in X : q \in o[m]
    OBVIOUS
  <2>2. Open(m, q) /\ q \in saved /\ q \in Query /\ execAt[m] = 0
    BY <1>2, <2>1
  <2>3. q \in processing /\ q \notin processed
    BY <2>2 DEF IInv, OpenInv
  <2>4. q \in rows[m] /\ ~Expired(m, q) /\ outs[m] = {}
    BY <2>2 DEF Open, Expired, IInv, ChainInv
  <2>5. ~Paid(q)
    BY <2>4 DEF IInv, PaidInv, Paid
  <2> QED
    BY <2>2, <2>3, <2>5, StatusCases
<1>4. {q \in Query : Paid(q)}' = {q \in Query : Paid(q)} \cup S
  <2>1. \A m \in X : outs[m] = {}
    BY <1>1 DEF Executable, IInv, ChainInv
  <2>2. \A q \in Query : Paid(q)' <=> Paid(q) \/ q \in S
    BY <1>1, <2>1 DEF Paid
  <2> QED
    BY <2>2
<1> HIDE DEF S
<1>5. S \in SUBSET Query
  BY DEF S
<1>6. S \subseteq Ledger!In("processing") \ {q \in Query : Paid(q)}
  BY <1>3, <1>5, LedgerIn
<1>7. UNCHANGED ReportedStatus
  BY <1>1 DEF ReportedStatus, Reported, GetExternalWithdrawalStatus, SettledRows
<1>8. Ledger!Pay(S)
  BY <1>4, <1>6, <1>7 DEF Ledger!Pay, ReportedStatus, Reported
<1> QED
  BY <1>5, <1>8 DEF Ledger!Next

\* The scanner reports the outcome of requests that are processing, as it is.
LEMMA LedgerSettle ==
  ASSUME IInv, IInv', NEW b \in Time, SaveParsedBlockData(b)
  PROVE  Ledger!Next
<1>0. PICK P \in SUBSET Query, F \in SUBSET Query :
        /\ P = {q \in Query : \E m \in Msg : q \in evDone[m]}
        /\ F = {q \in Query : \E m \in Msg : q \in evFailed[m]}
  OBVIOUS
<1>1. /\ spc = "apply"
      /\ \A m \in Msg : done'[m] = done[m] \cup evDone[m]
      /\ \A m \in Msg : failed'[m] = failed[m] \cup evFailed[m]
      /\ \A m \in Msg : hashed'[m] = hashed[m] \cup evDone[m] \cup evFailed[m]
      /\ processed' = processed \cup {q \in saved : \E m \in Msg : q \in evDone[m] \cup evFailed[m]}
      /\ UNCHANGED <<saved, processing, outs>>
  BY DEF SaveParsedBlockData, NewTxHashes, Merge
<1>2. \A m \in Msg : evDone[m] \subseteq outs[m] /\ evFailed[m] \subseteq body[m] \ outs[m]
  BY <1>1 DEF IInv, EventInv
<1>3. ASSUME NEW m \in Msg, NEW q \in evDone[m] \cup evFailed[m]
      PROVE  /\ Open(m, q) /\ q \in saved /\ q \in Query /\ q \in processing
             /\ Reported(q) = "processing" /\ (Paid(q) <=> q \in outs[m])
  <2>1. Open(m, q)
    BY <1>1, EventIsOpen
  <2>2. q \in saved /\ q \in Query
    BY DEF IInv, TypeInv, TypeOK
  <2>3. q \in processing /\ q \notin processed
    BY <2>1, <2>2 DEF IInv, OpenInv
  <2>4. q \in rows[m] /\ ~Expired(m, q)
    BY <2>1 DEF Open, Expired
  <2>5. Paid(q) <=> q \in outs[m]
    BY <2>4 DEF IInv, PaidInv, Paid
  <2> QED
    BY <2>1, <2>2, <2>3, <2>5, StatusCases
<1>4. P \subseteq Ledger!In("processing") \cap {q \in Query : Paid(q)}
  BY <1>0, <1>2, <1>3, LedgerIn
<1>5. F \subseteq Ledger!In("processing") \ {q \in Query : Paid(q)}
  BY <1>0, <1>2, <1>3, LedgerIn
<1>6. ASSUME NEW m \in Msg, NEW q \in evDone[m] \cup evFailed[m]
      PROVE  Reported(q)' = IF q \in evFailed[m] THEN "failed" ELSE "processed"
  <2>1. q \in saved' /\ q \in processed' /\ q \in hashed'[m]
    BY <1>1, <1>3
  <2>2. \A n \in Msg : q \in hashed'[n] \cup done'[n] => n = m
    BY <2>1 DEF IInv, SettledInv, RowInv
  <2>3. q \in failed'[m] <=> q \in evFailed[m]
    BY <1>1, <1>3 DEF Open
  <2>4. (\E n \in Msg : q \in hashed'[n] \cup done'[n] /\ q \in failed'[n]) <=> q \in evFailed[m]
    BY <2>1, <2>2, <2>3
  <2>5. q \in processing'
    BY <1>1, <1>3
  <2> QED
    BY <2>1, <2>4, <2>5 DEF Reported, GetExternalWithdrawalStatus, SettledRows
<1>7. \A q \in P : Reported(q)' = "processed"
  BY <1>0, <1>2, <1>6
<1>8. \A q \in F : Reported(q)' = "failed"
  BY <1>0, <1>6
<1>9. \A q \in Query : q \notin P /\ q \notin F => Reported(q)' = Reported(q)
  <2> SUFFICES ASSUME NEW q \in Query, q \notin P, q \notin F PROVE Reported(q)' = Reported(q)
    OBVIOUS
  <2>1. \A m \in Msg : q \notin evDone[m] /\ q \notin evFailed[m]
    BY <1>0
  <2>2. /\ \A m \in Msg : /\ q \in done'[m] <=> q \in done[m]
                          /\ q \in failed'[m] <=> q \in failed[m]
                          /\ q \in hashed'[m] <=> q \in hashed[m]
        /\ q \in processed' <=> q \in processed
    BY <1>1, <2>1
  <2>3. SettledRows(q)' = SettledRows(q)
    BY <2>2 DEF SettledRows
  <2>4. (\E m \in SettledRows(q) : q \in failed[m]) <=> (\E m \in SettledRows(q) : q \in failed'[m])
    BY <2>2 DEF SettledRows
  <2> QED
    BY <1>1, <2>2, <2>3, <2>4 DEF Reported, GetExternalWithdrawalStatus
<1>10. \A q \in Query : Reported(q)' = IF q \in P THEN "processed"
                                       ELSE IF q \in F THEN "failed" ELSE Reported(q)
  BY <1>7, <1>8, <1>9
<1>11. {q \in Query : Paid(q)}' = {q \in Query : Paid(q)}
  BY <1>1 DEF Paid
<1>12. Ledger!Settle(P, F)
  BY <1>4, <1>5, <1>10, <1>11 DEF Ledger!Settle, Reported
<1> QED
  BY <1>12 DEF Ledger!Next

\* Every step maps to a step of the ledger or to a stutter.
LEMMA LedgerNext ==
  ASSUME IInv, IInv', [Next]_vars
  PROVE  Ledger!Next \/ UNCHANGED LedgerVars
<1> USE DEF requests, table, chain, message, withdrawer, expirer, scanner
<1>1. CASE Tick \/ WithdrawalsWaitSync \/ SendExternalMessage \/ ExpirationWaitSync
            \/ CheckAlreadyFailed \/ Restart
  BY <1>1, LedgerStutter DEF Tick, WithdrawalsWaitSync, SendExternalMessage, ExpirationWaitSync,
       CheckAlreadyFailed, ScannerFatal, Restart
<1>2. ASSUME NEW q \in Query, NEW a \in Addr, SendWithdrawal(q, a) PROVE Ledger!Next
  BY <1>2, LedgerAccept DEF SendWithdrawal
<1>3. ASSUME NEW a \in Deposits, SaveWallet(a) PROVE UNCHANGED LedgerVars
  BY <1>3, LedgerStutter DEF SaveWallet
<1>4. ASSUME NEW q \in Query, MakeColdWalletWithdrawal(q) PROVE Ledger!Next
  BY <1>4, LedgerAccept, SetAssumption DEF MakeColdWalletWithdrawal
<1>5. ASSUME NEW b \in SUBSET Query, BuildWithdrawalMessages(b) PROVE UNCHANGED LedgerVars
  BY <1>5, LedgerStutter DEF BuildWithdrawalMessages
<1>6. CASE CreateExternalWithdrawals
  BY <1>6, LedgerStart
<1>7. CASE SetExpired
  BY <1>7, LedgerRetry
<1>8. ASSUME NEW t \in Time, NEW X \in SUBSET Msg, NEW o \in [X -> SUBSET Query], NewBlock(t, X, o)
      PROVE  Ledger!Next
  BY <1>8, LedgerPay
<1>9. ASSUME NEW b \in Time, ParseBlock(b) PROVE UNCHANGED LedgerVars
  BY <1>9, LedgerStutter DEF ParseBlock, ScannerFatal
<1>10. ASSUME NEW b \in Time, SaveParsedBlockData(b) PROVE Ledger!Next
  BY <1>10, LedgerSettle
<1>11. CASE UNCHANGED vars
  BY <1>11, LedgerStutter DEF vars
<1> QED
  BY <1>1, <1>2, <1>3, <1>4, <1>5, <1>6, <1>7, <1>8, <1>9, <1>10, <1>11 DEF Next

\* Under SafeTiming the tables, the goroutines and the hot wallet implement
\* the ledger: the initial states map to its initial state and every step to
\* one of its steps or to none, for any number of requests and messages.
THEOREM ImplementsTheLedger == SafeTiming /\ Spec => ImplementsLedger
<1>1. IInv /\ IInv' /\ [Next]_vars => [Ledger!Next]_LedgerVars
  BY LedgerNext
<1>2. SafeTiming /\ Spec => Ledger!Init /\ [][Ledger!Next]_LedgerVars
  BY <1>1, LedgerInit, Invariance, PTL DEF Spec
<1> QED
  BY <1>2, PTL DEF ImplementsLedger, Ledger!Spec, LedgerVars, ReportedStatus, PaidRequests, Reported

\* A step of the ledger leaves a final status alone.
LEMMA LedgerKeepsFinal ==
  ASSUME Ledger!Next \/ UNCHANGED LedgerVars, NEW q \in Query, Reported(q) \in {"processed", "failed"}
  PROVE  Reported(q)' = Reported(q)
<1>1. ASSUME NEW S, NEW s, Ledger!Move(S, s) PROVE Reported(q)' = IF q \in S THEN s ELSE Reported(q)
  BY <1>1 DEF Ledger!Move, Reported
<1>2. q \notin Ledger!In("none") /\ q \notin Ledger!In("pending") /\ q \notin Ledger!In("processing")
  BY LedgerIn
<1>3. ASSUME NEW p \in Query, Ledger!Accept(p) PROVE Reported(q)' = Reported(q)
  BY <1>1, <1>2, <1>3 DEF Ledger!Accept
<1>4. ASSUME NEW S \in SUBSET Query, Ledger!Start(S) \/ Ledger!Retry(S) PROVE Reported(q)' = Reported(q)
  BY <1>1, <1>2, <1>4 DEF Ledger!Start, Ledger!Retry
<1>5. ASSUME NEW S \in SUBSET Query, Ledger!Pay(S) PROVE Reported(q)' = Reported(q)
  BY <1>5 DEF Ledger!Pay, Reported
<1>6. ASSUME NEW P \in SUBSET Query, NEW F \in SUBSET Query, Ledger!Settle(P, F) PROVE Reported(q)' = Reported(q)
  <2>1. q \notin P /\ q \notin F
    BY <1>2, <1>6 DEF Ledger!Settle
  <2> QED
    BY <1>6, <2>1 DEF Ledger!Settle, Reported
<1>7. CASE UNCHANGED LedgerVars
  BY <1>7 DEF LedgerVars, ReportedStatus
<1> QED
  BY <1>3, <1>4, <1>5, <1>6, <1>7 DEF Ledger!Next

\* Under SafeTiming no step of any goroutine or of the chain changes a final
\* status: what the API has told a client once stays true.
THEOREM FinalForGood == SafeTiming /\ Spec => FinalStatusIsFinal
<1> DEFINE Kept == \A q \in saved :
             GetExternalWithdrawalStatus(q) \in {"processed", "failed"}
               => GetExternalWithdrawalStatus(q)' = GetExternalWithdrawalStatus(q)
<1>1. ASSUME IInv, IInv', [Next]_vars PROVE Kept
  <2> SUFFICES ASSUME NEW q \in saved, GetExternalWithdrawalStatus(q) \in {"processed", "failed"}
               PROVE  GetExternalWithdrawalStatus(q)' = GetExternalWithdrawalStatus(q)
    OBVIOUS
  <2>1. q \in Query /\ Reported(q) = GetExternalWithdrawalStatus(q)
    BY <1>1 DEF IInv, TypeInv, TypeOK, Reported
  <2>2. Reported(q)' = Reported(q)
    BY <1>1, <2>1, LedgerNext, LedgerKeepsFinal
  <2>3. Reported(q)' # "none"
    BY <2>1, <2>2
  <2>4. Reported(q)' = GetExternalWithdrawalStatus(q)'
    BY <2>3 DEF Reported
  <2> QED
    BY <2>1, <2>2, <2>4
<1>2. IInv /\ IInv' /\ [Next]_vars => [Kept]_vars
  BY <1>1
<1> HIDE DEF Kept
<1>3. SafeTiming /\ Spec => [][Kept]_vars
  BY <1>2, Invariance, PTL DEF Spec
<1> QED
  BY <1>3 DEF FinalStatusIsFinal, Kept
=============================================================================

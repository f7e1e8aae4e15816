-------------------------- MODULE WithdrawalLedger --------------------------
(***************************************************************************)
(* What the service promises about withdrawal requests, without tables,    *)
(* messages, clocks or blocks: a request has the status the API reports,   *)
(* and the hot wallet has paid it or not.  Payments happen only while a    *)
(* request is processing, an attempt starts only for an unpaid request, a  *)
(* final status agrees with what was paid and is never left.               *)
(***************************************************************************)
CONSTANT Query

VARIABLES
  status,  \* what GetExternalWithdrawalStatus reports, "none" before the request
  paid     \* the requests paid by the hot wallet

Status == {"none", "pending", "processing", "processed", "failed"}

In(s) == {q \in Query : status[q] = s}

Move(S, s) == status' = [q \in Query |-> IF q \in S THEN s ELSE status[q]]

Init == status = [q \in Query |-> "none"] /\ paid = {}

Accept(q) == q \in In("none") /\ Move({q}, "pending") /\ UNCHANGED paid

Start(S) == S \subseteq In("pending") \ paid /\ Move(S, "processing") /\ UNCHANGED paid

Pay(S) == S \subseteq In("processing") \ paid /\ paid' = paid \cup S /\ UNCHANGED status

Retry(S) == S \subseteq In("processing") /\ Move(S, "pending") /\ UNCHANGED paid

\* The scanner reports the outcome of the requests of P and F.
Settle(P, F) ==
  /\ P \subseteq In("processing") \cap paid
  /\ F \subseteq In("processing") \ paid
  /\ status' = [q \in Query |-> IF q \in P THEN "processed"
                                ELSE IF q \in F THEN "failed" ELSE status[q]]
  /\ UNCHANGED paid

Next ==
  \/ \E q \in Query : Accept(q)
  \/ \E S \in SUBSET Query : Start(S) \/ Pay(S) \/ Retry(S)
  \/ \E P, F \in SUBSET Query : Settle(P, F)

Spec == Init /\ [][Next]_<<status, paid>>
=============================================================================

------------------------------- MODULE Refund -------------------------------
(***************************************************************************)
(* The refunds of one settled transaction.                                 *)
(*                                                                         *)
(*   RefundService    createRefund                                         *)
(*   LedgerService    recordRefund                                         *)
(*   StripeProvider, RazorpayProvider, CashProvider   refundPayment        *)
(*                                                                         *)
(* createRefund reads the refunds so far, asks the provider and only then  *)
(* opens a database transaction.  That transaction reads nothing, so it is *)
(* the one step Commit; every other await is a step of its own.            *)
(***************************************************************************)
EXTENDS Naturals, FiniteSets

CONSTANTS
  Calls,     \* calls of createRefund
  Keys,      \* their idempotency keys
  Total,     \* Transaction.amount
  MaxAmount, \* bound: the largest amount a caller asks for
  Providers  \* the providers of the payments considered

ASSUME RefundAssumption ==
  /\ Total \in Nat \ {0} /\ MaxAmount \in Nat
  /\ Providers \subseteq {"stripe", "razorpay", "cash"}

VARIABLES
  txStatus, \* Transaction.status
  settled,  \* does an attempt of the transaction stand as SUCCESS?
  row,      \* Refund.status of the row a call creates, "NONE" before
  posted,   \* the calls whose REFUND entries are in the ledger
  paidOut,  \* the calls whose request made the provider pay money back
  provider, \* the provider of the attempt that settled the transaction
  pc,       \* where a call is
  key, amount, \* its idempotency key and the amount it asks for
  already,  \* alreadyRefunded, as a call has read it
  answer,   \* the provider's answer to a call
  overlapped \* have two calls ever been in progress at the same time?

callVars == <<pc, already, answer>>
input    == <<key, amount, provider>>
dbVars   == <<txStatus, settled, row, posted>>
vars == <<callVars, input, dbVars, paidOut, overlapped>>

RefundStatus == {"PROCESSING", "SUCCESS", "FAILED"}
Answers == {"SUCCESS", "PENDING", "FAILED"}

InFlight == {c \in Calls : pc[c] \notin {"idle", "replayed", "returned", "thrown"}}
RowsOf(k) == {c \in Calls : row[c] # "NONE" /\ key[c] = k}

(* What the refunds of S add up to: their units of money, counted.         *)
Units(S) == {u \in S \X (1..MaxAmount) : u[2] <= amount[u[1]]}
Sum(S) == Cardinality(Units(S))
Refunded == Sum({c \in Calls : row[c] = "SUCCESS"})

Init ==
  /\ txStatus = "SUCCESS" /\ settled = TRUE
  /\ row = [c \in Calls |-> "NONE"]
  /\ posted = {} /\ paidOut = {}
  /\ provider \in Providers
  /\ amount \in [Calls -> 1..MaxAmount]
  /\ pc = [c \in Calls |-> "idle"]
  /\ key \in [Calls -> Keys]
  /\ already = [c \in Calls |-> 0]
  /\ answer = [c \in Calls |-> "NONE"]
  /\ overlapped = FALSE

Goto(c, label) == pc' = [pc EXCEPT ![c] = label]

-----------------------------------------------------------------------------
(* createRefund: the checks                                                *)

Receive(c) ==
  /\ pc[c] = "idle"
  /\ overlapped' = (overlapped \/ InFlight # {})
  /\ Goto(c, "lookup")
  /\ UNCHANGED <<input, already, answer, dbVars, paidOut>>

(* Mutant: only a SUCCESS refund counts as existing.                       *)
FindExisting_Success(c) ==
  /\ pc[c] = "lookup"
  /\ Goto(c, IF \E d \in RowsOf(key[c]) : row[d] = "SUCCESS" THEN "replayed" ELSE "status")
  /\ UNCHANGED <<input, already, answer, dbVars, paidOut, overlapped>>

(* An existing refund of the same key is returned, whatever its status.    *)
FindExisting(c) ==
  /\ pc[c] = "lookup"
  /\ Goto(c, IF RowsOf(key[c]) # {} THEN "replayed" ELSE "status")
  /\ UNCHANGED <<input, already, answer, dbVars, paidOut, overlapped>>

CheckStatus(c) ==
  /\ pc[c] = "status"
  /\ Goto(c, IF txStatus \in {"SUCCESS", "PARTIALLY_REFUNDED"} THEN "amount" ELSE "thrown")
  /\ UNCHANGED <<input, already, answer, dbVars, paidOut, overlapped>>

(* Mutant: the amount is compared with the whole transaction.              *)
CheckAmount_Whole(c) ==
  /\ pc[c] = "amount"
  /\ already' = [already EXCEPT ![c] = Refunded]
  /\ Goto(c, IF amount[c] <= Total THEN "attempt" ELSE "thrown")
  /\ UNCHANGED <<input, answer, dbVars, paidOut, overlapped>>

(* Only SUCCESS refunds are summed up: one that is PROCESSING is not.      *)
CheckAmount(c) ==
  /\ pc[c] = "amount"
  /\ already' = [already EXCEPT ![c] = Refunded]
  /\ Goto(c, IF amount[c] + Refunded <= Total THEN "attempt" ELSE "thrown")
  /\ UNCHANGED <<input, answer, dbVars, paidOut, overlapped>>

FindSuccessAttempt(c) ==
  /\ pc[c] = "attempt"
  /\ Goto(c, IF settled THEN "create" ELSE "thrown")
  /\ UNCHANGED <<input, already, answer, dbVars, paidOut, overlapped>>

(* Mutant: the provider is asked before the row is written.                *)
CreateRow_Unsaved(c) ==
  /\ pc[c] = "create"
  /\ Goto(c, "asking")
  /\ UNCHANGED <<input, already, answer, dbVars, paidOut, overlapped>>

CreateRow(c) ==
  /\ pc[c] = "create"
  /\ row' = [row EXCEPT ![c] = "PROCESSING"]
  /\ Goto(c, "asking")
  /\ UNCHANGED <<input, already, answer, txStatus, settled, posted, paidOut, overlapped>>

-----------------------------------------------------------------------------
(* refundPayment at the provider                                           *)

(* Stripe is given the key: a request that repeats one with the same       *)
(* amount pays nothing more, one with another amount is refused.  Razorpay *)
(* is given none, and cash is handed over each time.                       *)
Repeats(c) == provider = "stripe" /\ \E d \in paidOut : key[d] = key[c]
Refuses(c) == \E d \in paidOut : key[d] = key[c] /\ amount[d] # amount[c]

(* Cash is always SUCCESS; a repeated request is told what has been done.  *)
ProviderAnswers(c) ==
  /\ pc[c] = "asking"
  /\ Repeats(c) => ~Refuses(c)
  /\ \E s \in Answers :
       /\ provider = "cash" => s = "SUCCESS"
       /\ Repeats(c) => s # "FAILED"
       /\ answer' = [answer EXCEPT ![c] = s]
       /\ paidOut' = IF Repeats(c) \/ s = "FAILED" THEN paidOut ELSE paidOut \cup {c}
  /\ Goto(c, "answered")
  /\ UNCHANGED <<input, already, dbVars, overlapped>>

(* The call throws: the provider refused, or paid and the answer was lost. *)
ProviderThrows(c) ==
  /\ pc[c] = "asking"
  /\ provider # "cash"
  /\ paidOut' \in {paidOut, IF Repeats(c) THEN paidOut ELSE paidOut \cup {c}}
  /\ Goto(c, "failing")
  /\ UNCHANGED <<input, already, answer, dbVars, overlapped>>

-----------------------------------------------------------------------------
(* createRefund: the outcome                                               *)

(* Mutant: the ledger is written only for a refund that is complete, the   *)
(* Transaction row for every refund.                                       *)
Commit_Unposted(c) ==
  /\ pc[c] = "answered"
  /\ row' = [row EXCEPT ![c] = IF answer[c] = "SUCCESS" THEN "SUCCESS" ELSE "PROCESSING"]
  /\ txStatus' = IF amount[c] + already[c] >= Total THEN "REFUNDED"
                                                      ELSE "PARTIALLY_REFUNDED"
  /\ posted' = IF answer[c] = "SUCCESS" THEN posted \cup {c} ELSE posted
  /\ Goto(c, "committed")
  /\ UNCHANGED <<input, already, answer, settled, paidOut, overlapped>>

(* Mutant: an answer of any status counts as success.                      *)
Commit_AnyAnswer(c) ==
  /\ pc[c] = "answered"
  /\ row' = [row EXCEPT ![c] = "SUCCESS"]
  /\ txStatus' = IF amount[c] + already[c] >= Total THEN "REFUNDED"
                                                      ELSE "PARTIALLY_REFUNDED"
  /\ posted' = posted \cup {c}
  /\ Goto(c, "committed")
  /\ UNCHANGED <<input, already, answer, settled, paidOut, overlapped>>

(* The row is settled or left PROCESSING, the transaction's status follows *)
(* from the sum read at CheckAmount, and the ledger is written whatever    *)
(* the provider answered.                                                  *)
Commit(c) ==
  /\ pc[c] = "answered"
  /\ row' = [row EXCEPT ![c] = IF answer[c] = "SUCCESS" THEN "SUCCESS" ELSE "PROCESSING"]
  /\ txStatus' = IF amount[c] + already[c] >= Total THEN "REFUNDED"
                                                      ELSE "PARTIALLY_REFUNDED"
  /\ posted' = posted \cup {c}
  /\ Goto(c, "committed")
  /\ UNCHANGED <<input, already, answer, settled, paidOut, overlapped>>

Rollback(c) ==
  /\ pc[c] = "answered"
  /\ Goto(c, "failing")
  /\ UNCHANGED <<input, already, answer, dbVars, paidOut, overlapped>>

(* The audit entry, whose errors are swallowed, and the read for the       *)
(* caller, which the try block returns unawaited: no way to the catch.     *)
Finish(c) ==
  /\ pc[c] = "committed"
  /\ Goto(c, "returned")
  /\ UNCHANGED <<input, already, answer, dbVars, paidOut, overlapped>>

(* The catch block.                                                        *)
MarkFailed(c) ==
  /\ pc[c] = "failing"
  /\ row' = [row EXCEPT ![c] = "FAILED"]
  /\ Goto(c, "thrown")
  /\ UNCHANGED <<input, already, answer, txStatus, settled, posted, paidOut, overlapped>>

(* A restart, or a database error outside the try block or in the catch;   *)
(* at the provider's door it may strike after the provider has paid.       *)
Crash(c) ==
  /\ c \in InFlight
  /\ paidOut' \in IF pc[c] = "asking" /\ ~Repeats(c) THEN {paidOut, paidOut \cup {c}}
                                                     ELSE {paidOut}
  /\ Goto(c, "thrown")
  /\ UNCHANGED <<input, already, answer, dbVars, overlapped>>

CreateRefund(c) ==
  \/ Receive(c) \/ FindExisting(c) \/ CheckStatus(c) \/ CheckAmount(c)
  \/ FindSuccessAttempt(c) \/ CreateRow(c)
  \/ ProviderAnswers(c) \/ ProviderThrows(c)
  \/ Commit(c) \/ Rollback(c) \/ Finish(c) \/ MarkFailed(c) \/ Crash(c)

-----------------------------------------------------------------------------
(* The payment side                                                        *)

(* updateStatus of a late initiatePayment or of a second verifyPayment     *)
(* overwrites the transaction's status without a look at it.  (FAILED      *)
(* stops a refund just as PROCESSING does and stands for no case of its    *)
(* own.)                                                                   *)
PaymentOverwrites ==
  /\ \E s \in {"PROCESSING", "SUCCESS"} : txStatus' = s
  /\ UNCHANGED <<callVars, input, settled, row, posted, paidOut, overlapped>>

(* A late failure event or expiry job takes the SUCCESS from the attempt.  *)
AttemptWithdrawn ==
  /\ settled
  /\ settled' = FALSE
  /\ UNCHANGED <<callVars, input, txStatus, row, posted, paidOut, overlapped>>

Next ==
  \/ \E c \in Calls : CreateRefund(c)
  \/ PaymentOverwrites
  \/ AttemptWithdrawn

Spec == Init /\ [][Next]_vars

-----------------------------------------------------------------------------
(* Properties                                                              *)

TypeOK ==
  /\ txStatus \in {"PROCESSING", "SUCCESS", "PARTIALLY_REFUNDED", "REFUNDED"}
  /\ settled \in BOOLEAN
  /\ row \in [Calls -> RefundStatus \cup {"NONE"}]
  /\ posted \subseteq Calls /\ paidOut \subseteq Calls
  /\ provider \in Providers
  /\ amount \in [Calls -> 1..MaxAmount]
  /\ pc \in [Calls -> {"idle", "lookup", "status", "amount", "attempt", "create", "asking",
                       "answered", "committed", "failing",
                       "replayed", "returned", "thrown"}]
  /\ key \in [Calls -> Keys]
  /\ answer \in [Calls -> Answers \cup {"NONE"}]
  /\ overlapped \in BOOLEAN

(* A refund shown as SUCCESS is in the ledger, and the provider has paid   *)
(* that amount under its key.                                              *)
SuccessIsPaidAndBooked ==
  \A c \in Calls : row[c] = "SUCCESS" =>
    c \in posted /\ \E d \in paidOut : key[d] = key[c] /\ amount[d] = amount[c]

(* A transaction shown as refunded in part has a refund in the ledger; one *)
(* shown as REFUNDED has its whole amount there, although the status is    *)
(* computed from a sum that is stale by then.                              *)
StatusIsBooked ==
  /\ txStatus = "PARTIALLY_REFUNDED" => posted # {}
  /\ txStatus = "REFUNDED" => Sum(posted) >= Total

(* refund.service.ts, "same idempotencyKey returns existing refund": so    *)
(* calls that follow each other with one key move the money once, at a     *)
(* provider that is given no key too, through lost answers and crashes.    *)
PaidOnceInTurn ==
  ~overlapped => \A c, d \in paidOut : key[c] = key[d] => c = d

(* refund.service.ts, "Total refunded amount cannot exceed original        *)
(* transaction amount".                                                    *)
RefundsFit == Refunded <= Total

(* What the check of a later call does not count: money paid or booked by  *)
(* a call that has ended without showing its refund as SUCCESS.            *)
Unshown == {c \in posted \cup paidOut : row[c] # "SUCCESS" /\ c \notin InFlight}

(* In turn, what is paid back or booked fits the transaction except for    *)
(* the unshown: the money of the call under way and of every SUCCESS fits, *)
(* whatever fails, dies or is repeated.                                    *)
RefundsFitInTurn == ~overlapped => Sum((posted \cup paidOut) \ Unshown) <= Total

(* Likewise one key never has two rows, while calls follow each other.     *)
OneRowPerKey == \A k \in Keys : \A c, d \in RowsOf(k) : c = d
OneRowInTurn == ~overlapped => OneRowPerKey

(* refund.service.ts: a refund is marked FAILED so that it can be retried; *)
(* so a call that finds it tries again instead of replaying it.            *)
FailedIsRetried ==
  [][\A c \in Calls : pc[c] = "lookup" /\ pc'[c] = "replayed" =>
       \E d \in RowsOf(key[c]) : row[d] # "FAILED"]_pc
=============================================================================

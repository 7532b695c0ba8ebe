------------------------------ MODULE Payment ------------------------------
(***************************************************************************)
(* One payment transaction: the requests that initiate it, the attempts    *)
(* they open at the providers, and the verifications that settle it.       *)
(*                                                                         *)
(*   PaymentOrchestratorService  initiatePayment, verifyPayment            *)
(*   TransactionService          create, updateStatus                      *)
(*   PaymentAttemptService       create, markSuccess, markFailed,          *)
(*                               markExpired                               *)
(*   LedgerService               recordPayment                             *)
(*   IdempotencyService          get, store                                *)
(*                                                                         *)
(* Every await is a step of its own.  The database runs READ COMMITTED, so *)
(* the statements of verifyPayment's transaction are separate steps whose  *)
(* writes appear at Commit; rowLock and slot are what Postgres holds for   *)
(* the transaction meanwhile.  All requests carry the same tenant, order   *)
(* and idempotency key: they are the retries of one caller.                *)
(***************************************************************************)
EXTENDS Naturals, FiniteSets

CONSTANTS
  Requests,        \* calls of initiatePayment
  Verifiers,       \* concurrent calls of verifyPayment: API, webhook, worker
  Providers,       \* providers known to the service
  Keyed,           \* providers that return the same order for the same key
  Cash,            \* providers that confirm without a provider-side payment
  SharedKey,       \* tags the order all requests share at a Keyed provider
  None,            \* no verifier, no attempt
  UniqueIndex,     \* is unique_success_per_transaction in the database?
  MaxExpiryJobs    \* bound: expireAttempt jobs the queue delivers

(* The attempt that request r opens at provider p, and the provider-side   *)
(* order it stores in providerOrderId.                                     *)
Attempts == Requests \X Providers
OrderOf(a) == <<IF a[2] \in Keyed THEN SharedKey ELSE a[1], a[2]>>
Orders == (Requests \cup {SharedKey}) \X Providers

ASSUME PaymentAssumption ==
  /\ Keyed \subseteq Providers /\ Cash \subseteq Providers
  /\ SharedKey \notin Requests
  /\ None \notin Verifiers /\ None \notin Attempts
  /\ UniqueIndex \in BOOLEAN
  /\ MaxExpiryJobs \in Nat

VARIABLES
  txStatus,  \* Transaction.status, "NONE" before the row exists
  attempt,   \* PaymentAttempt.status per attempt, "NONE" before the row exists
  posted,    \* PAYMENT ledger entries written per verified attempt
  cached,    \* does Redis hold the result under the idempotency key?
  paid,      \* orders the customer has paid at the provider
  rpc, todo, \* where a request is, and the providers its loop has left
  vpc,       \* where a verification is
  target,    \* the attempt it verifies, None while idle
  doomed,    \* siblings its updateMany has found and not yet reached
  rowLock,   \* the verification holding the attempt row, or None
  slot,      \* the uncommitted entry in the unique index, or None
  jobs       \* expireAttempt jobs delivered so far

requestVars == <<rpc, todo, cached>>
verifyVars  == <<vpc, target, doomed, rowLock, slot>>
dbVars      == <<txStatus, attempt, posted>>
vars == <<requestVars, verifyVars, dbVars, paid, jobs>>

TransactionStatus == {"PENDING", "PROCESSING", "SUCCESS", "FAILED"}
AttemptStatus == {"PENDING", "SUCCESS", "FAILED", "EXPIRED", "CANCELLED"}

Exists(a)  == attempt[a] # "NONE"
Open(a)    == attempt[a] \in {"PENDING", "PROCESSING"}
Succeeded  == {a \in Attempts : attempt[a] = "SUCCESS"}
Options(r) == {a \in Attempts : a[1] = r /\ Exists(a)}

(* The customer can pay an order once a request that opened it returned.   *)
(* Verifications and the queue need no response: the list endpoint and the *)
(* reconciliation find an attempt as soon as its row exists.               *)
Exposed(o) == \E a \in Attempts : /\ Exists(a) /\ OrderOf(a) = o
                                  /\ rpc[a[1]] = "returned"

Init ==
  /\ txStatus = "NONE"
  /\ attempt = [a \in Attempts |-> "NONE"]
  /\ posted = [a \in Attempts |-> 0]
  /\ cached = FALSE
  /\ paid = {}
  /\ rpc = [r \in Requests |-> "idle"]
  /\ todo = [r \in Requests |-> {}]
  /\ vpc = [v \in Verifiers |-> "idle"]
  /\ target = [v \in Verifiers |-> None]
  /\ doomed = [v \in Verifiers |-> {}]
  /\ rowLock = [a \in Attempts |-> None]
  /\ slot = None
  /\ jobs = 0

-----------------------------------------------------------------------------
(* initiatePayment                                                         *)

(* idempotencyService.get: a cached result is replayed as it is.           *)
CheckCache(r) ==
  /\ rpc[r] = "idle"
  /\ IF cached
     THEN rpc' = [rpc EXCEPT ![r] = "returned"] /\ UNCHANGED todo
     ELSE /\ rpc' = [rpc EXCEPT ![r] = "lookup"]
          /\ \E chosen \in SUBSET Providers : todo' = [todo EXCEPT ![r] = chosen]
  /\ UNCHANGED <<cached, verifyVars, dbVars, paid, jobs>>

(* transactionService.create returns the row of the same key, whatever its *)
(* status is by now.                                                       *)
FindTransaction(r) ==
  /\ rpc[r] = "lookup"
  /\ rpc' = [rpc EXCEPT ![r] = IF txStatus = "NONE" THEN "insert" ELSE "options"]
  /\ UNCHANGED <<todo, cached, verifyVars, dbVars, paid, jobs>>

(* The unique (tenant, key) index lets one of two concurrent inserts in;   *)
(* the other throws ConflictException.                                     *)
InsertTransaction(r) ==
  /\ rpc[r] = "insert"
  /\ IF txStatus = "NONE"
     THEN txStatus' = "PENDING" /\ rpc' = [rpc EXCEPT ![r] = "options"]
     ELSE UNCHANGED txStatus /\ rpc' = [rpc EXCEPT ![r] = "thrown"]
  /\ UNCHANGED <<todo, cached, attempt, posted, verifyVars, paid, jobs>>

(* createPayment at the provider, then attemptService.create.              *)
CreateAttempt(r, p) ==
  /\ rpc[r] = "options" /\ p \in todo[r]
  /\ attempt' = [attempt EXCEPT ![<<r, p>>] = "PENDING"]
  /\ todo' = [todo EXCEPT ![r] = @ \ {p}]
  /\ UNCHANGED <<rpc, cached, txStatus, posted, verifyVars, paid, jobs>>

(* Either call throws: caught, and the loop goes on to the next provider.  *)
ProviderFails(r, p) ==
  /\ rpc[r] = "options" /\ p \in todo[r]
  /\ todo' = [todo EXCEPT ![r] = @ \ {p}]
  /\ UNCHANGED <<rpc, cached, verifyVars, dbVars, paid, jobs>>

(* updateStatus outside a database transaction: no lock is taken and the   *)
(* status it overwrites is not looked at.                                  *)
UpdateStatus(r) ==
  /\ rpc[r] = "options" /\ todo[r] = {}
  /\ txStatus' = IF Options(r) = {} THEN "FAILED" ELSE "PROCESSING"
  /\ rpc' = [rpc EXCEPT ![r] = IF Options(r) = {} THEN "thrown" ELSE "storing"]
  /\ UNCHANGED <<todo, cached, attempt, posted, verifyVars, paid, jobs>>

(* Mutant: the result is stored, and replayed, before the status is set. *)
StoreResult_Early(r) ==
  /\ rpc[r] = "options" /\ todo[r] = {} /\ Options(r) # {}
  /\ cached' = TRUE
  /\ rpc' = [rpc EXCEPT ![r] = "returned"]
  /\ UNCHANGED <<todo, verifyVars, dbVars, paid, jobs>>

StoreResult(r) ==
  /\ rpc[r] = "storing"
  /\ cached' = TRUE
  /\ rpc' = [rpc EXCEPT ![r] = "returned"]
  /\ UNCHANGED <<todo, verifyVars, dbVars, paid, jobs>>

(* A restart of the process, or an exception of Redis or the database.     *)
CrashRequest(r) ==
  /\ rpc[r] \in {"lookup", "insert", "options", "storing"}
  /\ rpc' = [rpc EXCEPT ![r] = "thrown"]
  /\ todo' = [todo EXCEPT ![r] = {}]
  /\ UNCHANGED <<cached, verifyVars, dbVars, paid, jobs>>

(* The key reaches its TTL, or Redis evicts it (allkeys-lru).              *)
CacheExpires ==
  /\ cached
  /\ cached' = FALSE
  /\ UNCHANGED <<rpc, todo, verifyVars, dbVars, paid, jobs>>

Initiate(r) ==
  \/ CheckCache(r) \/ FindTransaction(r) \/ InsertTransaction(r)
  \/ \E p \in Providers : CreateAttempt(r, p) \/ ProviderFails(r, p)
  \/ UpdateStatus(r) \/ StoreResult(r) \/ CrashRequest(r)

-----------------------------------------------------------------------------
(* verifyPayment: before its database transaction                          *)

(* Does verifyPayment of the provider answer isSuccess?                    *)
Confirmed(a) == a[2] \in Cash \/ OrderOf(a) \in paid

(* Mutant: an expired attempt returns early as well. *)
StartVerify_Expired(v, a) ==
  /\ vpc[v] = "idle"
  /\ Exists(a)
  /\ attempt[a] \notin {"SUCCESS", "FAILED", "EXPIRED"}
  /\ vpc' = [vpc EXCEPT ![v] = "asking"]
  /\ target' = [target EXCEPT ![v] = a]
  /\ UNCHANGED <<doomed, rowLock, slot, requestVars, dbVars, paid, jobs>>

(* attemptService.findById and the two early returns.                      *)
StartVerify(v, a) ==
  /\ vpc[v] = "idle"
  /\ Exists(a)
  /\ attempt[a] \notin {"SUCCESS", "FAILED"}
  /\ vpc' = [vpc EXCEPT ![v] = "asking"]
  /\ target' = [target EXCEPT ![v] = a]
  /\ UNCHANGED <<doomed, rowLock, slot, requestVars, dbVars, paid, jobs>>

ProviderConfirms(v) ==
  /\ vpc[v] = "asking"
  /\ Confirmed(target[v])
  /\ vpc' = [vpc EXCEPT ![v] = "begin"]
  /\ UNCHANGED <<target, doomed, rowLock, slot, requestVars, dbVars, paid, jobs>>

(* isSuccess is false: unpaid, or the lookup failed and the provider class *)
(* turned the exception into an answer.                                    *)
ProviderDenies(v) ==
  /\ vpc[v] = "asking"
  /\ target[v][2] \notin Cash
  /\ vpc' = [vpc EXCEPT ![v] = "denied"]
  /\ UNCHANGED <<target, doomed, rowLock, slot, requestVars, dbVars, paid, jobs>>

(* What Postgres releases when v's database transaction ends; v is done.   *)
EndVerify(v) ==
  /\ vpc' = [vpc EXCEPT ![v] = "idle"]
  /\ target' = [target EXCEPT ![v] = None]
  /\ doomed' = [doomed EXCEPT ![v] = {}]
  /\ rowLock' = [a \in Attempts |-> IF rowLock[a] = v THEN None ELSE rowLock[a]]
  /\ slot' = IF slot = v THEN None ELSE slot

(* attemptService.markFailed, one statement outside any transaction: it    *)
(* waits for the row lock and overwrites whatever status it then finds.    *)
MarkFailed(v) ==
  /\ vpc[v] = "denied"
  /\ rowLock[target[v]] = None
  /\ attempt' = [attempt EXCEPT ![target[v]] = "FAILED"]
  /\ EndVerify(v)
  /\ UNCHANGED <<requestVars, txStatus, posted, paid, jobs>>

(* The provider call or the pool throws, or the process restarts.          *)
GiveUp(v) ==
  /\ vpc[v] \in {"asking", "begin", "denied"}
  /\ EndVerify(v)
  /\ UNCHANGED <<requestVars, dbVars, paid, jobs>>

-----------------------------------------------------------------------------
(* verifyPayment: its database transaction                                 *)

InTransaction(v) == vpc[v] \in {"locked", "checked", "marked", "cancelling"}

(* An exception in the transaction: conflict, unique violation, deadlock   *)
(* victim, the 10 s timeout, a failing subscription sync, a restart.       *)
Rollback(v) ==
  /\ EndVerify(v)
  /\ UNCHANGED <<requestVars, dbVars, paid, jobs>>

Abort(v) == InTransaction(v) /\ Rollback(v)

(* markSuccess: SELECT ... FOR UPDATE on the attempt row.                  *)
LockAttempt(v) ==
  /\ vpc[v] = "begin"
  /\ rowLock[target[v]] = None
  /\ rowLock' = [rowLock EXCEPT ![target[v]] = v]
  /\ vpc' = [vpc EXCEPT ![v] = "locked"]
  /\ UNCHANGED <<target, doomed, slot, requestVars, dbVars, paid, jobs>>

(* markSuccess re-reads under the lock: an attempt that is SUCCESS by now  *)
(* returns early, but only from markSuccess; else another SUCCESS throws.  *)
CheckSuccess(v) ==
  /\ vpc[v] = "locked"
  /\ \/ /\ target[v] \in Succeeded
        /\ vpc' = [vpc EXCEPT ![v] = "marked"]
        /\ UNCHANGED <<target, doomed, rowLock, slot>>
     \/ /\ Succeeded = {}
        /\ vpc' = [vpc EXCEPT ![v] = "checked"]
        /\ UNCHANGED <<target, doomed, rowLock, slot>>
     \/ /\ target[v] \notin Succeeded /\ Succeeded # {}
        /\ EndVerify(v)
  /\ UNCHANGED <<requestVars, dbVars, paid, jobs>>

(* Mutant: the check alone has to hold, no index stands behind it. *)
MarkSuccess_NoIndex(v) ==
  /\ vpc[v] = "checked"
  /\ vpc' = [vpc EXCEPT ![v] = "marked"]
  /\ UNCHANGED <<target, doomed, rowLock, slot, requestVars, dbVars, paid, jobs>>

(* markSuccess: UPDATE ... SET status = SUCCESS.  The partial unique index *)
(* makes it wait for an uncommitted SUCCESS of the transaction and fail on *)
(* a committed one; without the index nothing holds it back.               *)
MarkSuccess(v) ==
  /\ vpc[v] = "checked"
  /\ UniqueIndex => slot = None
  /\ \/ /\ ~UniqueIndex \/ Succeeded = {}
        /\ vpc' = [vpc EXCEPT ![v] = "marked"]
        /\ slot' = IF UniqueIndex THEN v ELSE slot
        /\ UNCHANGED <<target, doomed, rowLock>>
     \/ /\ UniqueIndex /\ Succeeded # {}
        /\ EndVerify(v)
  /\ UNCHANGED <<requestVars, dbVars, paid, jobs>>

(* updateMany: the siblings its snapshot finds open ...                    *)
FindSiblings(v) ==
  /\ vpc[v] = "marked"
  /\ doomed' = [doomed EXCEPT ![v] = {b \in Attempts \ {target[v]} : Open(b)}]
  /\ vpc' = [vpc EXCEPT ![v] = "cancelling"]
  /\ UNCHANGED <<target, rowLock, slot, requestVars, dbVars, paid, jobs>>

(* ... are locked one by one, and looked at again once the lock is held.   *)
CancelSibling(v, b) ==
  /\ vpc[v] = "cancelling" /\ b \in doomed[v]
  /\ rowLock[b] = None
  /\ rowLock' = IF Open(b) THEN [rowLock EXCEPT ![b] = v] ELSE rowLock
  /\ doomed' = [doomed EXCEPT ![v] = @ \ {b}]
  /\ UNCHANGED <<vpc, target, slot, requestVars, dbVars, paid, jobs>>

(* Mutant: recordPayment is left to a later job. *)
Commit_Unposted(v) ==
  /\ vpc[v] = "cancelling" /\ doomed[v] = {}
  /\ attempt' = [b \in Attempts |-> CASE b = target[v] -> "SUCCESS"
                                      [] b # target[v] /\ rowLock[b] = v -> "CANCELLED"
                                      [] OTHER -> attempt[b]]
  /\ txStatus' = "SUCCESS"
  /\ EndVerify(v)
  /\ UNCHANGED <<requestVars, posted, paid, jobs>>

(* updateStatus(SUCCESS), recordPayment and COMMIT: the transaction's      *)
(* writes become visible together.                                         *)
Commit(v) ==
  /\ vpc[v] = "cancelling" /\ doomed[v] = {}
  /\ attempt' = [b \in Attempts |-> CASE b = target[v] -> "SUCCESS"
                                      [] b # target[v] /\ rowLock[b] = v -> "CANCELLED"
                                      [] OTHER -> attempt[b]]
  /\ txStatus' = "SUCCESS"
  /\ posted' = [posted EXCEPT ![target[v]] = @ + 1]
  /\ EndVerify(v)
  /\ UNCHANGED <<requestVars, paid, jobs>>

Verify(v) ==
  \/ \E a \in Attempts : StartVerify(v, a)
  \/ ProviderConfirms(v) \/ ProviderDenies(v) \/ MarkFailed(v) \/ GiveUp(v)
  \/ LockAttempt(v) \/ CheckSuccess(v) \/ MarkSuccess(v) \/ FindSiblings(v)
  \/ \E b \in Attempts : CancelSibling(v, b)
  \/ Commit(v) \/ Abort(v)

-----------------------------------------------------------------------------
(* The customer, the providers' failure events, the queue                  *)

Pay(o) ==
  /\ Exposed(o)
  /\ o[2] \notin Cash
  /\ paid' = paid \cup {o}
  /\ UNCHANGED <<requestVars, verifyVars, dbVars, jobs>>

(* Mutant: a failed payment counts as a cancelled one. *)
FailureEvent_Cancels(a) ==
  /\ Exists(a) /\ Exposed(OrderOf(a)) /\ a[2] \notin Cash
  /\ rowLock[a] = None
  /\ attempt' = [attempt EXCEPT ![a] = "CANCELLED"]
  /\ UNCHANGED <<requestVars, verifyVars, txStatus, posted, paid, jobs>>

(* payment_intent.payment_failed and payment.failed: markFailed on the     *)
(* attempt findByProviderOrderId returns.  A customer may fail and then    *)
(* pay the same order, and events arrive in any order.                     *)
FailureEvent(a) ==
  /\ Exists(a) /\ Exposed(OrderOf(a)) /\ a[2] \notin Cash
  /\ rowLock[a] = None
  /\ attempt' = [attempt EXCEPT ![a] = "FAILED"]
  /\ UNCHANGED <<requestVars, verifyVars, txStatus, posted, paid, jobs>>

(* The worker's expireAttempt job: markExpired, unconditional.             *)
ExpireAttempt(a) ==
  /\ Exists(a)
  /\ jobs < MaxExpiryJobs
  /\ rowLock[a] = None
  /\ attempt' = [attempt EXCEPT ![a] = "EXPIRED"]
  /\ jobs' = jobs + 1
  /\ UNCHANGED <<requestVars, verifyVars, txStatus, posted, paid>>

Next ==
  \/ \E r \in Requests : Initiate(r)
  \/ \E v \in Verifiers : Verify(v)
  \/ \E o \in Orders : Pay(o)
  \/ \E a \in Attempts : FailureEvent(a) \/ ExpireAttempt(a)
  \/ CacheExpires

Spec == Init /\ [][Next]_vars

(* Fairness for liveness.  Callers and providers repeat a verification     *)
(* until it returns, so one of an order's attempts is verified again and   *)
(* again; a step that is possible again and again is not lost to a crash   *)
(* or a deadlock every time; a call or transaction that waits for ever is   *)
(* ended by its timeout.  Nothing is assumed of failures or payments.      *)
Fairness ==
  /\ \A o \in Orders : SF_vars(\E v \in Verifiers, a \in Attempts :
                                 OrderOf(a) = o /\ StartVerify(v, a))
  /\ \A v \in Verifiers :
       /\ WF_vars(MarkFailed(v)) /\ WF_vars(GiveUp(v)) /\ WF_vars(Abort(v))
       /\ SF_vars(ProviderConfirms(v)) /\ SF_vars(LockAttempt(v))
       /\ SF_vars(CheckSuccess(v)) /\ SF_vars(MarkSuccess(v))
       /\ SF_vars(FindSiblings(v)) /\ SF_vars(Commit(v))
       /\ SF_vars(\E b \in Attempts : CancelSibling(v, b))

FairSpec == Spec /\ Fairness

-----------------------------------------------------------------------------
(* Properties                                                              *)

(* The columns hold the values the code writes: an attempt row is never    *)
(* PROCESSING, a request's loop holds providers, a lock a verification.    *)
TypeOK ==
  /\ txStatus \in TransactionStatus \cup {"NONE"}
  /\ attempt \in [Attempts -> AttemptStatus \cup {"NONE"}]
  /\ posted \in [Attempts -> Nat]
  /\ cached \in BOOLEAN
  /\ paid \subseteq Orders
  /\ rpc \in [Requests -> {"idle", "lookup", "insert", "options", "storing",
                           "returned", "thrown"}]
  /\ todo \in [Requests -> SUBSET Providers]
  /\ vpc \in [Verifiers -> {"idle", "asking", "denied", "begin", "locked",
                            "checked", "marked", "cancelling"}]
  /\ target \in [Verifiers -> Attempts \cup {None}]
  /\ doomed \in [Verifiers -> SUBSET Attempts]
  /\ rowLock \in [Attempts -> Verifiers \cup {None}]
  /\ slot \in Verifiers \cup {None}
  /\ jobs \in 0..MaxExpiryJobs

(* payment-attempt.service.ts: only one attempt of a transaction can be    *)
(* SUCCESS, whatever the interleaving of verifications, webhooks and jobs. *)
OneSuccess == \A a, b \in Succeeded : a = b

(* The ledger records a payment only for an attempt its provider confirms: *)
(* verifyPayment never trusts the caller.                                  *)
PostedOnlyIfConfirmed == \A a \in Attempts : posted[a] > 0 => Confirmed(a)

(* One database transaction writes the attempt, the ledger and the         *)
(* Transaction row: a SUCCESS without a ledger entry is never seen.        *)
SuccessIsPosted ==
  /\ \A a \in Succeeded : posted[a] > 0
  /\ txStatus = "SUCCESS" => \E a \in Attempts : posted[a] > 0

(* An attempt is CANCELLED only by the settlement of a sibling.            *)
CancelledBySibling ==
  \A a \in Attempts : attempt[a] = "CANCELLED" => \E b \in Attempts \ {a} : posted[b] > 0

(* A request returns, or replays from the cache, only what the database    *)
(* already shows: the transaction exists and has left PENDING.             *)
ResultIsBacked ==
  \A r \in Requests : rpc[r] = "returned" => txStatus \notin {"NONE", "PENDING"}

(* What Postgres guarantees between the statements of verifyPayment: its   *)
(* transaction holds the row it settles and the siblings it cancels, which *)
(* nobody else changes; the index entry is claimed only while no attempt   *)
(* is SUCCESS, and a transaction past markSuccess holds it or found its    *)
(* attempt already SUCCESS.                                                *)
LockInv ==
  /\ \A v \in Verifiers :
       /\ InTransaction(v) => rowLock[target[v]] = v
       /\ \A a \in Attempts : rowLock[a] = v =>
            InTransaction(v) /\ (a = target[v] \/ (vpc[v] = "cancelling" /\ Open(a)))
SlotInv ==
  /\ slot # None => vpc[slot] \in {"marked", "cancelling"} /\ Succeeded = {}
  /\ \A v \in Verifiers : vpc[v] \in {"marked", "cancelling"} =>
       slot = v \/ target[v] \in Succeeded
SettlementIsGuarded == LockInv /\ SlotInv

(* A paid order does not stay unrecorded: the transaction is settled,      *)
(* unless an attempt of that order was marked FAILED, which no later       *)
(* verification takes back.                                                *)
PaidIsSettled ==
  \A o \in Orders : o \in paid ~>
    \/ \E a \in Attempts : posted[a] > 0
    \/ \E a \in Attempts : OrderOf(a) = o /\ attempt[a] = "FAILED"

(* What the repository says of the ledger: every financial event creates   *)
(* exactly two entries, so one attempt's payment is posted once.           *)
BookedOnce == \A a \in Attempts : posted[a] <= 1

(* What it says of the row locks: concurrent attempt updates are           *)
(* serialised, so a SUCCESS attempt stays SUCCESS.                         *)
AttemptSuccessIsFinal ==
  [][\A a \in Attempts : attempt[a] = "SUCCESS" => attempt'[a] = "SUCCESS"]_attempt

(* What it says of updateStatus: PENDING -> PROCESSING -> SUCCESS/FAILED,  *)
(* so a SUCCESS transaction stays SUCCESS.                                 *)
TransactionSuccessIsFinal ==
  [][txStatus = "SUCCESS" => txStatus' = "SUCCESS"]_txStatus

(* The settlement protocol implements the one-step specification.          *)
Abstract == INSTANCE Settlement WITH
  Offline <- {a \in Attempts : a[2] \in Cash},
  settled <- Succeeded,
  books <- posted
Settles == Abstract!Spec
=============================================================================

--------------------------- MODULE Reconciliation ---------------------------
(***************************************************************************)
(* The periodic reconciliation with the providers.                         *)
(*                                                                         *)
(*   ReconciliationService  reconcileStaleTransactions and its Redis lock  *)
(*   verifyPayment          as the run calls it; its database transaction  *)
(*                          is one step here (Payment takes it apart)      *)
(*   PaymentAttemptService  expireStalePendingAttempts                     *)
(*                                                                         *)
(* Every transaction is PROCESSING with one attempt when the model starts. *)
(* The lock is a key that lives 300 seconds, and nothing bounds how long a *)
(* run takes: the key may expire at any step of it.                        *)
(***************************************************************************)
EXTENDS Naturals, FiniteSets

CONSTANTS
  Runs,          \* instances that run reconcileStaleTransactions
  Transactions,  \* transactions that initiatePayment has left PROCESSING
  Batch,         \* transactions per run, 100 in the code
  Webhooks,      \* are the providers' events delivered, too?
  PaysLate,      \* may a customer pay after the attempt's expiresAt?
  ProviderFails, \* may a call of the provider's API throw?
  None,          \* no transaction
  MaxOutlived,   \* bound: expiries of the lock while a run is in progress
  MaxCrashes     \* bound

ASSUME ReconciliationAssumption ==
  /\ Batch \in Nat \ {0} /\ MaxCrashes \in Nat /\ MaxOutlived \in Nat
  /\ {Webhooks, PaysLate, ProviderFails} \subseteq BOOLEAN
  /\ None \notin Transactions

VARIABLES
  txStatus, attempt, \* Transaction.status and its PaymentAttempt.status
  posted,        \* PAYMENT ledger entries per transaction
  paid,          \* transactions paid at the provider
  old,           \* transactions that are stale, their attempts past expiresAt
  crossed,       \* transactions settled while another run verified them
  lock,          \* does Redis hold the key reconciliation:lock?
  outlived,      \* how often it has expired while a run was in progress
  pc, todo,      \* where a run is, and the attempts its loop has left
  target,        \* the attempt it verifies
  crashes        \* restarts so far

dbVars == <<txStatus, attempt, posted>>
runVars == <<pc, todo, target>>
vars == <<dbVars, paid, old, crossed, lock, outlived, runVars, crashes>>

Init ==
  /\ txStatus = [t \in Transactions |-> "PROCESSING"]
  /\ attempt = [t \in Transactions |-> "PENDING"]
  /\ posted = [t \in Transactions |-> 0]
  /\ paid = {} /\ old = {} /\ crossed = {}
  /\ lock = FALSE /\ outlived = 0
  /\ pc = [r \in Runs |-> "idle"]
  /\ todo = [r \in Runs |-> {}]
  /\ target = [r \in Runs |-> None]
  /\ crashes = 0

Running == {r \in Runs : pc[r] # "idle"}

Goto(r, label) == pc' = [pc EXCEPT ![r] = label]

-----------------------------------------------------------------------------
(* The customers, the clock, the webhooks                                  *)

Pay(t) ==
  /\ t \notin paid
  /\ t \in old => PaysLate
  /\ paid' = paid \cup {t}
  /\ UNCHANGED <<dbVars, old, crossed, lock, outlived, runVars, crashes>>

Age(t) ==
  /\ t \notin old
  /\ old' = old \cup {t}
  /\ UNCHANGED <<dbVars, paid, crossed, lock, outlived, runVars, crashes>>

(* Mutant: the key is set without EX. *)
LockExpires_Never ==
  /\ lock
  /\ UNCHANGED vars

(* The key reaches its TTL, after its run has died or in the middle of it. *)
LockExpires ==
  /\ lock
  /\ lock' = FALSE
  /\ IF Running = {}
     THEN UNCHANGED outlived
     ELSE outlived < MaxOutlived /\ outlived' = outlived + 1
  /\ UNCHANGED <<dbVars, paid, old, crossed, runVars, crashes>>

(* verifyPayment's database transaction, once the provider has confirmed;  *)
(* the runs in others have asked for the same attempt meanwhile.           *)
Settle(t, others) ==
  /\ attempt' = [attempt EXCEPT ![t] = "SUCCESS"]
  /\ txStatus' = [txStatus EXCEPT ![t] = "SUCCESS"]
  /\ posted' = [posted EXCEPT ![t] = @ + 1]
  /\ crossed' = crossed \cup ({t} \cap {target[s] : s \in others})

(* A webhook's handler verifies the same attempt.                          *)
Webhook(t) ==
  /\ Webhooks /\ t \in paid
  /\ attempt[t] \notin {"SUCCESS", "FAILED"}
  /\ Settle(t, Runs)
  /\ UNCHANGED <<paid, old, lock, outlived, runVars, crashes>>

-----------------------------------------------------------------------------
(* reconcileStaleTransactions                                              *)

(* Mutant: the key is set without NX. *)
Acquire_Always(r) ==
  /\ pc[r] = "idle"
  /\ lock' = TRUE
  /\ Goto(r, "finding")
  /\ UNCHANGED <<dbVars, paid, old, crossed, outlived, todo, target, crashes>>

(* SET NX EX 300; a run that does not get the lock is over.                *)
Acquire(r) ==
  /\ pc[r] = "idle" /\ ~lock
  /\ lock' = TRUE
  /\ Goto(r, "finding")
  /\ UNCHANGED <<dbVars, paid, old, crossed, outlived, todo, target, crashes>>

(* findMany of the PROCESSING transactions: any Batch of them, with their  *)
(* attempts that are still open.                                           *)
Find(r) ==
  /\ pc[r] = "finding"
  /\ LET stale == {t \in old : txStatus[t] = "PROCESSING"} IN
     \E found \in SUBSET stale :
       /\ found = stale \/ Cardinality(found) = Batch
       /\ Cardinality(found) <= Batch
       /\ todo' = [todo EXCEPT ![r] = {t \in found : attempt[t] = "PENDING"}]
  /\ Goto(r, "loop")
  /\ UNCHANGED <<dbVars, paid, old, crossed, lock, outlived, target, crashes>>

(* The early returns of verifyPayment count the attempt and go on.         *)
StartVerify(r, t) ==
  /\ pc[r] = "loop" /\ t \in todo[r]
  /\ todo' = [todo EXCEPT ![r] = @ \ {t}]
  /\ IF attempt[t] \in {"SUCCESS", "FAILED"}
     THEN UNCHANGED <<pc, target>>
     ELSE Goto(r, "asking") /\ target' = [target EXCEPT ![r] = t]
  /\ UNCHANGED <<dbVars, paid, old, crossed, lock, outlived, crashes>>

NextAttempt(r) == Goto(r, "loop") /\ target' = [target EXCEPT ![r] = None]

(* Mutant: an order that was not paid yet is confirmed. *)
ProviderConfirms_Unpaid(r) ==
  /\ pc[r] = "asking"
  /\ Goto(r, "settling")
  /\ UNCHANGED <<dbVars, paid, old, crossed, lock, outlived, todo, target, crashes>>

ProviderConfirms(r) ==
  /\ pc[r] = "asking" /\ target[r] \in paid
  /\ Goto(r, "settling")
  /\ UNCHANGED <<dbVars, paid, old, crossed, lock, outlived, todo, target, crashes>>

ProviderDenies(r) ==
  /\ pc[r] = "asking" /\ (target[r] \notin paid \/ ProviderFails)
  /\ Goto(r, "denied")
  /\ UNCHANGED <<dbVars, paid, old, crossed, lock, outlived, todo, target, crashes>>

SettleAttempt(r) ==
  /\ pc[r] = "settling"
  /\ Settle(target[r], Runs \ {r})
  /\ NextAttempt(r)
  /\ UNCHANGED <<paid, old, lock, outlived, todo, crashes>>

(* markFailed overwrites what it finds.  The transaction stays PROCESSING. *)
MarkFailed(r) ==
  /\ pc[r] = "denied"
  /\ attempt' = [attempt EXCEPT ![target[r]] = "FAILED"]
  /\ NextAttempt(r)
  /\ UNCHANGED <<txStatus, posted, paid, old, crossed, lock, outlived, todo, crashes>>

(* verifyPayment throws: caught, and the loop goes on.                     *)
Throw(r) ==
  /\ pc[r] = "asking" /\ ProviderFails
  /\ NextAttempt(r)
  /\ UNCHANGED <<dbVars, paid, old, crossed, lock, outlived, todo, crashes>>

(* expireStalePendingAttempts: every open attempt past its expiresAt,      *)
(* whether this run has asked for it or not.                               *)
ExpireAttempts(r) ==
  /\ pc[r] = "loop" /\ todo[r] = {}
  /\ attempt' = [t \in Transactions |->
                   IF t \in old /\ attempt[t] = "PENDING" THEN "EXPIRED" ELSE attempt[t]]
  /\ Goto(r, "unlocking")
  /\ UNCHANGED <<txStatus, posted, paid, old, crossed, lock, outlived, todo, target, crashes>>

(* A statement of the run itself throws: only the finally block follows.   *)
Abandon(r) ==
  /\ pc[r] \in {"finding", "loop"}
  /\ crashes < MaxCrashes /\ crashes' = crashes + 1
  /\ Goto(r, "unlocking")
  /\ todo' = [todo EXCEPT ![r] = {}]
  /\ UNCHANGED <<dbVars, paid, old, crossed, lock, outlived, target>>

(* DEL, whoever holds the lock by now.                                     *)
Unlock(r) ==
  /\ pc[r] = "unlocking"
  /\ lock' = FALSE
  /\ Goto(r, "idle")
  /\ UNCHANGED <<dbVars, paid, old, crossed, outlived, todo, target, crashes>>

(* The process restarts: the lock is left to its TTL.                      *)
Crash(r) ==
  /\ pc[r] # "idle"
  /\ crashes < MaxCrashes /\ crashes' = crashes + 1
  /\ Goto(r, "idle")
  /\ todo' = [todo EXCEPT ![r] = {}]
  /\ target' = [target EXCEPT ![r] = None]
  /\ UNCHANGED <<dbVars, paid, old, crossed, lock, outlived>>

Reconcile(r) ==
  \/ Find(r) \/ \E t \in Transactions : StartVerify(r, t)
  \/ ProviderConfirms(r) \/ ProviderDenies(r) \/ SettleAttempt(r) \/ MarkFailed(r)
  \/ ExpireAttempts(r) \/ Unlock(r)

Next ==
  \/ \E t \in Transactions : Pay(t) \/ Age(t) \/ Webhook(t)
  \/ LockExpires
  \/ \E r \in Runs : Acquire(r) \/ Reconcile(r) \/ Throw(r) \/ Abandon(r) \/ Crash(r)

Spec == Init /\ [][Next]_vars

(* Time passes, the cron starts a run again and again, a run goes on.      *)
Fairness ==
  /\ \A t \in Transactions : WF_vars(Age(t))
  /\ WF_vars(LockExpires)
  /\ SF_vars(\E r \in Runs : Acquire(r))
  /\ \A r \in Runs : WF_vars(Reconcile(r))

FairSpec == Spec /\ Fairness

-----------------------------------------------------------------------------
(* Properties                                                              *)

TypeOK ==
  /\ txStatus \in [Transactions -> {"PROCESSING", "SUCCESS"}]
  /\ attempt \in [Transactions -> {"PENDING", "SUCCESS", "FAILED", "EXPIRED"}]
  /\ posted \in [Transactions -> Nat]
  /\ {paid, old, crossed} \subseteq SUBSET Transactions
  /\ lock \in BOOLEAN /\ outlived \in Nat
  /\ pc \in [Runs -> {"idle", "finding", "loop", "asking", "settling", "denied", "unlocking"}]
  /\ todo \in [Runs -> SUBSET Transactions]
  /\ target \in [Runs -> Transactions \cup {None}]
  /\ \A r \in Runs : pc[r] \in {"asking", "settling", "denied"} => target[r] # None
  /\ crashes \in Nat

(* "Only one instance runs reconciliation at a time", but for the times    *)
(* the lock expired in the middle of a run: each lets one run more in, and *)
(* the DEL of a run that no longer holds the key lets in no more than it   *)
(* ends.                                                                   *)
RunsAreBounded == Cardinality(Running) <= (IF lock THEN 1 ELSE 0) + outlived

(* What the comment says without the exception.                            *)
OneRun == \A r, s \in Running : r = s

(* Runs that follow each other or overlap, start again after a crash, or   *)
(* find what a webhook has settled book what the provider has confirmed,   *)
(* and book it once, unless a webhook or another run settled the attempt   *)
(* in the very time that a run verified it.                                *)
BookedOnce ==
  \A t \in Transactions \ crossed :
    /\ posted[t] <= 1
    /\ posted[t] = 1 <=> txStatus[t] = "SUCCESS"
    /\ posted[t] = 1 => t \in paid

(* A run that dies with the lock in its hands does not end reconciliation: *)
(* no stale attempt stays open for ever.                                   *)
NoneStaysPending ==
  \A t \in Transactions : t \in old /\ attempt[t] = "PENDING" ~> attempt[t] # "PENDING"

(* "A webhook was never delivered": a payment that is PENDING here and     *)
(* paid at the provider is recovered.                                      *)
PaidIsRecovered ==
  \A t \in Transactions : t \in paid /\ attempt[t] = "PENDING" ~> attempt[t] = "SUCCESS"
=============================================================================

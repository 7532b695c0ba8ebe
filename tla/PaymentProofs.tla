--------------------------- MODULE PaymentProofs ---------------------------
(***************************************************************************)
(* Theorems about Payment, for any sets of requests, verifiers and         *)
(* providers.  The argument: the row locks and the entry in the unique     *)
(* index (SettlementIsGuarded) let at most one verification be past        *)
(* markSuccess, and it finds no other SUCCESS; so its COMMIT keeps a       *)
(* single SUCCESS and is one Settle step of Settlement.                    *)
(***************************************************************************)
EXTENDS Payment, TLAPS

(* A request's loop opens each attempt once: the row does not exist while  *)
(* the provider is still to do, nor before the request has begun.          *)
TodoInv ==
  \A r \in Requests, p \in Providers :
    (rpc[r] \in {"idle", "lookup", "insert"} \/ p \in todo[r])
      => attempt[<<r, p>>] = "NONE"

(* A verification names an existing attempt until it ends. *)
TargetInv ==
  \A v \in Verifiers :
    vpc[v] # "idle" => target[v] \in Attempts /\ Exists(target[v])

LEMMA NoneIsFresh == None \notin Verifiers /\ None \notin Attempts
BY PaymentAssumption

LEMMA AttemptPair ==
  ASSUME NEW r \in Requests, NEW p \in Providers
  PROVE  <<r, p>> \in Attempts
BY DEF Attempts

-----------------------------------------------------------------------------
(* Types                                                                   *)

(* EndVerify leaves the locals and the locks typed. *)
LEMMA EndVerifyTyped ==
  ASSUME TypeOK, NEW v \in Verifiers, EndVerify(v)
  PROVE  /\ vpc' \in [Verifiers -> {"idle", "asking", "denied", "begin", "locked",
                                    "checked", "marked", "cancelling"}]
         /\ target' \in [Verifiers -> Attempts \cup {None}]
         /\ doomed' \in [Verifiers -> SUBSET Attempts]
         /\ rowLock' \in [Attempts -> Verifiers \cup {None}]
         /\ slot' \in Verifiers \cup {None}
BY DEF TypeOK, EndVerify

LEMMA TypeInit == Init => TypeOK
<1> SUFFICES ASSUME Init PROVE TypeOK OBVIOUS
<1>1. cached \in BOOLEAN BY DEF Init
<1>2. jobs \in 0..MaxExpiryJobs BY PaymentAssumption DEF Init
<1>3. posted \in [Attempts -> Nat] BY DEF Init
<1> QED BY <1>1, <1>2, <1>3 DEF Init, TypeOK

(* A step of initiatePayment keeps the types. *)
LEMMA InitiateTyped ==
  ASSUME TypeOK, NEW r \in Requests, Initiate(r)
  PROVE  TypeOK'
<1> USE DEF TypeOK, requestVars, verifyVars, dbVars, TransactionStatus, AttemptStatus
<1>1. CASE CheckCache(r) BY <1>1 DEF CheckCache
<1>2. CASE FindTransaction(r) BY <1>2 DEF FindTransaction
<1>3. CASE InsertTransaction(r) BY <1>3 DEF InsertTransaction
<1>4. ASSUME NEW p \in Providers, CreateAttempt(r, p) PROVE TypeOK'
  BY <1>4, AttemptPair DEF CreateAttempt
<1>5. ASSUME NEW p \in Providers, ProviderFails(r, p) PROVE TypeOK'
  BY <1>5 DEF ProviderFails
<1>6. CASE UpdateStatus(r) BY <1>6 DEF UpdateStatus
<1>7. CASE StoreResult(r) BY <1>7 DEF StoreResult
<1>8. CASE CrashRequest(r) BY <1>8 DEF CrashRequest
<1> QED BY <1>1, <1>2, <1>3, <1>4, <1>5, <1>6, <1>7, <1>8 DEF Initiate

(* A step of verifyPayment keeps the types. *)
LEMMA VerifyTyped ==
  ASSUME TypeOK, TargetInv, NEW v \in Verifiers, Verify(v)
  PROVE  TypeOK'
<1> USE DEF TypeOK, requestVars, verifyVars, dbVars
<1>1. ASSUME NEW a \in Attempts, StartVerify(v, a) PROVE TypeOK'
  BY <1>1 DEF StartVerify
<1>2. CASE ProviderConfirms(v) BY <1>2 DEF ProviderConfirms
<1>3. CASE ProviderDenies(v) BY <1>3 DEF ProviderDenies
<1>4. CASE MarkFailed(v) BY <1>4, EndVerifyTyped DEF MarkFailed, AttemptStatus
<1>5. CASE GiveUp(v) BY <1>5, EndVerifyTyped DEF GiveUp
<1>6. CASE LockAttempt(v) BY <1>6 DEF LockAttempt
<1>7. CASE CheckSuccess(v) BY <1>7, EndVerifyTyped DEF CheckSuccess
<1>8. CASE MarkSuccess(v) BY <1>8, EndVerifyTyped DEF MarkSuccess
<1>9. CASE FindSiblings(v) BY <1>9 DEF FindSiblings
<1>10. ASSUME NEW b \in Attempts, CancelSibling(v, b) PROVE TypeOK'
  BY <1>10 DEF CancelSibling
<1>11. CASE Commit(v)
  <2>1. target[v] \in Attempts BY <1>11 DEF TargetInv, Commit
  <2>2. attempt' \in [Attempts -> AttemptStatus \cup {"NONE"}]
    BY <1>11 DEF Commit, AttemptStatus
  <2>3. posted' \in [Attempts -> Nat] BY <1>11, <2>1 DEF Commit
  <2> QED BY <1>11, <2>2, <2>3, EndVerifyTyped DEF Commit, TransactionStatus
<1>12. CASE Abort(v) BY <1>12, EndVerifyTyped DEF Abort, Rollback
<1> QED BY <1>1, <1>2, <1>3, <1>4, <1>5, <1>6, <1>7, <1>8, <1>9, <1>10, <1>11, <1>12
        DEF Verify

-----------------------------------------------------------------------------
(* Locks                                                                   *)

BaseInv == TypeOK /\ TodoInv /\ TargetInv /\ LockInv

(* What a step of a request can do to the rest of the state: open an       *)
(* attempt that did not exist.                                             *)
LEMMA InitiateFrame ==
  ASSUME TypeOK, TodoInv, NEW r \in Requests, Initiate(r)
  PROVE  /\ UNCHANGED <<vpc, target, doomed, rowLock, slot, posted, paid, jobs>>
         /\ \A a \in Attempts : \/ attempt'[a] = attempt[a]
                                \/ attempt[a] = "NONE" /\ attempt'[a] = "PENDING"
<1> USE DEF requestVars, verifyVars, dbVars
<1>1. ASSUME NEW p \in Providers, CreateAttempt(r, p)
      PROVE  /\ UNCHANGED <<vpc, target, doomed, rowLock, slot, posted, paid, jobs>>
             /\ attempt[<<r, p>>] = "NONE"
             /\ attempt' = [attempt EXCEPT ![<<r, p>>] = "PENDING"]
  BY <1>1 DEF CreateAttempt, TodoInv
<1>2. CASE \E p \in Providers : CreateAttempt(r, p)
  <2>1. PICK p \in Providers : CreateAttempt(r, p) BY <1>2
  <2> DEFINE c == <<r, p>>
  <2>2. c \in Attempts BY AttemptPair
  <2> HIDE DEF c
  <2>3. /\ UNCHANGED <<vpc, target, doomed, rowLock, slot, posted, paid, jobs>>
        /\ attempt[c] = "NONE"
        /\ attempt' = [attempt EXCEPT ![c] = "PENDING"]
    BY <1>1, <2>1 DEF c
  <2> QED BY <2>2, <2>3 DEF TypeOK
<1>3. CASE ~\E p \in Providers : CreateAttempt(r, p)
  BY <1>3 DEF Initiate, CheckCache, FindTransaction, InsertTransaction, ProviderFails,
              UpdateStatus, StoreResult, CrashRequest
<1> QED BY <1>2, <1>3

(* The end of a verification releases its own locks and nobody else's. *)
LEMMA EndVerifyLocks ==
  ASSUME TypeOK, NEW v \in Verifiers, EndVerify(v), NEW w \in Verifiers
  PROVE  /\ w # v => vpc'[w] = vpc[w] /\ target'[w] = target[w]
         /\ vpc'[v] = "idle" /\ target'[v] = None
         /\ \A a \in Attempts : rowLock'[a] = w <=> (w # v /\ rowLock[a] = w)
         /\ slot' = w <=> (w # v /\ slot = w)
         /\ slot' # None => slot' = slot
BY NoneIsFresh DEF TypeOK, EndVerify

(* Only a row that nobody has locked, or that the committing verification  *)
(* itself has locked, is written.                                          *)
LEMMA VerifyAttempt ==
  ASSUME BaseInv, NEW v \in Verifiers, Verify(v), NEW a \in Attempts
  PROVE  \/ attempt'[a] = attempt[a]
         \/ /\ rowLock[a] = None /\ Exists(a) /\ attempt'[a] = "FAILED"
            /\ UNCHANGED posted
         \/ Commit(v) /\ rowLock[a] = v /\ Exists(a) /\ attempt'[a] \in {"SUCCESS", "CANCELLED"}
<1> USE DEF BaseInv, TypeOK, requestVars, verifyVars, dbVars
<1>1. CASE MarkFailed(v) BY <1>1 DEF MarkFailed, TargetInv
<1>2. CASE Commit(v)
  <2>1. target[v] \in Attempts /\ rowLock[target[v]] = v /\ Exists(target[v])
    BY <1>2 DEF Commit, TargetInv, LockInv, InTransaction
  <2>2. CASE a = target[v] BY <1>2, <2>1, <2>2 DEF Commit
  <2>3. CASE a # target[v] /\ rowLock[a] = v
    <3>1. attempt'[a] = "CANCELLED" BY <1>2, <2>3 DEF Commit
    <3>2. Exists(a) BY <2>3 DEF LockInv, Open, Exists
    <3> QED BY <1>2, <2>3, <3>1, <3>2
  <2>4. CASE a # target[v] /\ rowLock[a] # v BY <1>2, <2>4 DEF Commit
  <2> QED BY <2>2, <2>3, <2>4
<1>3. CASE ~MarkFailed(v) /\ ~Commit(v)
  BY <1>3 DEF Verify, StartVerify, ProviderConfirms, ProviderDenies, GiveUp, LockAttempt,
     CheckSuccess, MarkSuccess, FindSiblings, CancelSibling, Abort, Rollback
<1> QED BY <1>1, <1>2, <1>3

(* The customer, the failure events, the expiry jobs and the cache change  *)
(* no local of a request or a verification, and write only unlocked rows.  *)
Environment ==
  \/ \E o \in Orders : Pay(o)
  \/ \E a \in Attempts : FailureEvent(a) \/ ExpireAttempt(a)
  \/ CacheExpires

LEMMA EnvironmentFrame ==
  ASSUME TypeOK, Environment
  PROVE  /\ UNCHANGED <<rpc, todo, vpc, target, doomed, rowLock, slot, txStatus, posted>>
         /\ paid \subseteq paid'
         /\ \A a \in Attempts : \/ attempt'[a] = attempt[a]
                                \/ /\ rowLock[a] = None /\ Exists(a)
                                   /\ attempt'[a] \in {"FAILED", "EXPIRED"}
<1> USE DEF TypeOK, requestVars, verifyVars, dbVars
<1>1. CASE \E o \in Orders : Pay(o) BY <1>1 DEF Pay
<1>2. CASE \E a \in Attempts : FailureEvent(a) BY <1>2 DEF FailureEvent
<1>3. CASE \E a \in Attempts : ExpireAttempt(a) BY <1>3 DEF ExpireAttempt
<1>4. CASE CacheExpires BY <1>4 DEF CacheExpires
<1> QED BY <1>1, <1>2, <1>3, <1>4 DEF Environment

LEMMA EnvironmentTyped ==
  ASSUME TypeOK, Environment
  PROVE  TypeOK'
<1> USE DEF TypeOK, requestVars, verifyVars, dbVars
<1>1. CASE \E o \in Orders : Pay(o) BY <1>1 DEF Pay
<1>2. CASE \E a \in Attempts : FailureEvent(a) BY <1>2 DEF FailureEvent, AttemptStatus
<1>3. CASE \E a \in Attempts : ExpireAttempt(a)
  BY <1>3, PaymentAssumption DEF ExpireAttempt, AttemptStatus
<1>4. CASE CacheExpires BY <1>4 DEF CacheExpires
<1> QED BY <1>1, <1>2, <1>3, <1>4 DEF Environment

LEMMA NextSplit ==
  Next <=> \/ \E r \in Requests : Initiate(r)
           \/ \E v \in Verifiers : Verify(v)
           \/ Environment
BY DEF Next, Environment

LEMMA BaseInit == Init => BaseInv
<1> SUFFICES ASSUME Init PROVE BaseInv OBVIOUS
<1>1. TypeOK BY TypeInit
<1>2. TodoInv BY AttemptPair DEF Init, TodoInv
<1>3. TargetInv BY DEF Init, TargetInv
<1>4. LockInv BY NoneIsFresh DEF Init, LockInv, InTransaction
<1> QED BY <1>1, <1>2, <1>3, <1>4 DEF BaseInv

(* A request's step keeps the bookkeeping of the loop and the locks. *)
LEMMA InitiateBase ==
  ASSUME BaseInv, NEW r \in Requests, Initiate(r)
  PROVE  BaseInv'
<1> USE DEF BaseInv
<1>1. TypeOK' BY InitiateTyped
<1>2. TodoInv'
  <2> USE DEF TypeOK, TodoInv, requestVars, verifyVars, dbVars
  <2>1. ASSUME NEW p \in Providers, CreateAttempt(r, p) PROVE TodoInv'
    <3> SUFFICES ASSUME NEW s \in Requests, NEW q \in Providers,
                        rpc'[s] \in {"idle", "lookup", "insert"} \/ q \in todo'[s]
                 PROVE  attempt'[<<s, q>>] = "NONE"
      OBVIOUS
    <3>1. <<s, q>> # <<r, p>> BY <2>1 DEF CreateAttempt
    <3>2. attempt'[<<s, q>>] = attempt[<<s, q>>] BY <2>1, <3>1, AttemptPair DEF CreateAttempt
    <3> QED BY <2>1, <3>2 DEF CreateAttempt
  <2>2. CASE ~\E p \in Providers : CreateAttempt(r, p)
    BY <2>2 DEF Initiate, CheckCache, FindTransaction, InsertTransaction, ProviderFails,
                UpdateStatus, StoreResult, CrashRequest
  <2> QED BY <2>1, <2>2
<1>3. TargetInv' BY InitiateFrame DEF TargetInv, Exists
<1>4. LockInv' BY InitiateFrame DEF LockInv, InTransaction, Open
<1> QED BY <1>1, <1>2, <1>3, <1>4

(* An event from outside writes no locked row and creates none. *)
LEMMA EnvironmentBase ==
  ASSUME BaseInv, Environment
  PROVE  BaseInv'
<1> USE DEF BaseInv
<1>1. TypeOK' BY EnvironmentTyped
<1>2. TodoInv' BY EnvironmentFrame, AttemptPair DEF TodoInv, Exists
<1>3. TargetInv' BY EnvironmentFrame DEF TargetInv, Exists
<1>4. LockInv' BY EnvironmentFrame, NoneIsFresh DEF LockInv, InTransaction, Open
<1> QED BY <1>1, <1>2, <1>3, <1>4

(* A verification keeps the lock discipline: rows are locked only while    *)
(* free, and released only with the transaction.                           *)
LEMMA VerifyBase ==
  ASSUME BaseInv, NEW v \in Verifiers, Verify(v)
  PROVE  BaseInv'
<1> USE DEF BaseInv
<1>1. TypeOK' BY VerifyTyped
<1>2. UNCHANGED <<rpc, todo>>
  BY DEF Verify, StartVerify, ProviderConfirms, ProviderDenies, GiveUp, LockAttempt, MarkFailed,
     CheckSuccess, MarkSuccess, FindSiblings, CancelSibling, Abort, Rollback, Commit, requestVars
<1>3. TodoInv' BY <1>2, VerifyAttempt, AttemptPair DEF TodoInv, Exists
<1>4. \A a \in Attempts : Exists(a) => Exists(a)' BY VerifyAttempt DEF Exists
<1>5. TargetInv'
  <2>1. ASSUME NEW a \in Attempts, StartVerify(v, a) PROVE TargetInv'
    BY <2>1, <1>4 DEF StartVerify, TargetInv, TypeOK
  <2>2. CASE EndVerify(v) BY <2>2, <1>4, EndVerifyLocks DEF TargetInv
  <2>3. CASE ~EndVerify(v) /\ ~\E a \in Attempts : StartVerify(v, a)
    BY <2>3, <1>4 DEF TargetInv, TypeOK, Verify, ProviderConfirms, ProviderDenies, GiveUp,
       LockAttempt, MarkFailed, CheckSuccess, MarkSuccess, FindSiblings, CancelSibling,
       Abort, Rollback, Commit
  <2> QED BY <2>1, <2>2, <2>3
<1>6. LockInv'
  <2> USE DEF LockInv, InTransaction
  <2>1. ASSUME NEW a \in Attempts, StartVerify(v, a) PROVE LockInv'
    BY <2>1 DEF StartVerify, TypeOK, dbVars, Open
  <2>2. CASE ProviderConfirms(v) \/ ProviderDenies(v)
    BY <2>2 DEF ProviderConfirms, ProviderDenies, TypeOK, dbVars, Open
  <2>3. CASE EndVerify(v)
    <3> SUFFICES ASSUME NEW w \in Verifiers
                 PROVE  /\ InTransaction(w)' => rowLock'[target'[w]] = w
                        /\ \A a \in Attempts : rowLock'[a] = w =>
                             /\ InTransaction(w)'
                             /\ a = target'[w] \/ (vpc'[w] = "cancelling" /\ Open(a)')
      OBVIOUS
    <3>1. CASE w = v BY <2>3, <3>1, EndVerifyLocks
    <3>2. CASE w # v
      <4>1. vpc'[w] = vpc[w] /\ target'[w] = target[w] BY <2>3, <3>2, EndVerifyLocks
      <4>2. \A a \in Attempts : rowLock'[a] = w <=> rowLock[a] = w
        BY <2>3, <3>2, EndVerifyLocks
      <4>3. \A a \in Attempts : rowLock[a] = w => attempt'[a] = attempt[a]
        BY <3>2, VerifyAttempt, NoneIsFresh
      <4>4. InTransaction(w) => target[w] \in Attempts BY DEF TargetInv
      <4> QED BY <4>1, <4>2, <4>3, <4>4 DEF Open
    <3> QED BY <3>1, <3>2
  <2>4. CASE LockAttempt(v)
    BY <2>4, NoneIsFresh DEF LockAttempt, TargetInv, TypeOK, dbVars, Open
  <2>5. CASE CheckSuccess(v) /\ ~EndVerify(v)
    BY <2>5 DEF CheckSuccess, TypeOK, dbVars, Open
  <2>6. CASE MarkSuccess(v) /\ ~EndVerify(v)
    BY <2>6 DEF MarkSuccess, TypeOK, dbVars, Open
  <2>7. CASE FindSiblings(v) BY <2>7 DEF FindSiblings, TypeOK, dbVars, Open
  <2>8. ASSUME NEW b \in Attempts, CancelSibling(v, b) PROVE LockInv'
    BY <2>8, NoneIsFresh DEF CancelSibling, TargetInv, TypeOK, dbVars, Open
  <2> QED BY <2>1, <2>2, <2>3, <2>4, <2>5, <2>6, <2>7, <2>8
          DEF Verify, MarkFailed, GiveUp, Abort, Rollback, Commit
<1> QED BY <1>1, <1>3, <1>5, <1>6

LEMMA BaseStutter ==
  ASSUME BaseInv, UNCHANGED vars
  PROVE  BaseInv'
<1> USE DEF vars, requestVars, verifyVars, dbVars
<1>1. TypeOK' BY DEF BaseInv, TypeOK
<1>2. TodoInv' BY DEF BaseInv, TodoInv
<1>3. TargetInv' BY DEF BaseInv, TargetInv, Exists
<1>4. LockInv' BY DEF BaseInv, LockInv, InTransaction, Open
<1> QED BY <1>1, <1>2, <1>3, <1>4 DEF BaseInv

(* Types, the loop's bookkeeping and the lock discipline, with or without  *)
(* the unique index.                                                       *)
THEOREM BaseInvariant == Spec => []BaseInv
<1>1. BaseInv /\ [Next]_vars => BaseInv'
  BY InitiateBase, VerifyBase, EnvironmentBase, BaseStutter, NextSplit
<1> QED BY BaseInit, <1>1, PTL DEF Spec

(* Every variable keeps its type: no attempt is ever PROCESSING, no lock   *)
(* outlives the verification that took it.                                 *)
THEOREM TypeCorrect == Spec => []TypeOK
<1>1. BaseInv => TypeOK BY DEF BaseInv
<1> QED BY <1>1, BaseInvariant, PTL

-----------------------------------------------------------------------------
(* The unique index                                                        *)

(* Only COMMIT makes an attempt SUCCESS, and a locked SUCCESS stays. *)
LEMMA SuccessFrame ==
  ASSUME BaseInv, [Next]_vars, ~\E v \in Verifiers : Commit(v)
  PROVE  /\ Succeeded' \subseteq Succeeded
         /\ \A a \in Succeeded : rowLock[a] # None => a \in Succeeded'
         /\ posted' = posted
<1> USE DEF BaseInv, Succeeded
<1>1. ASSUME NEW r \in Requests, Initiate(r)
      PROVE  /\ UNCHANGED posted
             /\ \A a \in Attempts : \/ attempt'[a] = attempt[a]
                                    \/ attempt[a] = "NONE" /\ attempt'[a] = "PENDING"
  BY <1>1, InitiateFrame
<1>2. ASSUME NEW v \in Verifiers, Verify(v)
      PROVE  /\ UNCHANGED posted
             /\ \A a \in Attempts : \/ attempt'[a] = attempt[a]
                                    \/ rowLock[a] = None /\ attempt'[a] = "FAILED"
  <2>1. UNCHANGED posted
    BY <1>2 DEF Verify, StartVerify, ProviderConfirms, ProviderDenies, GiveUp, LockAttempt,
       MarkFailed, CheckSuccess, MarkSuccess, FindSiblings, CancelSibling, Abort, Rollback, dbVars
  <2> QED BY <1>2, <2>1, VerifyAttempt
<1>3. CASE Environment BY <1>3, EnvironmentFrame
<1>4. CASE UNCHANGED vars BY <1>4 DEF vars, dbVars
<1> QED BY <1>1, <1>2, <1>3, <1>4, NextSplit

(* The SUCCESS a COMMIT leaves is the one of its own attempt. *)
LEMMA CommitSettles ==
  ASSUME BaseInv, SlotInv, OneSuccess, NEW v \in Verifiers, Commit(v)
  PROVE  /\ target[v] \in Attempts
         /\ Succeeded \subseteq {target[v]}
         /\ Succeeded' = {target[v]}
<1>1. target[v] \in Attempts BY DEF BaseInv, TargetInv, Commit
<1>2. Succeeded \subseteq {target[v]}
  <2>1. slot = v \/ target[v] \in Succeeded BY DEF SlotInv, Commit
  <2>2. CASE slot = v BY <2>2, NoneIsFresh DEF SlotInv
  <2>3. CASE target[v] \in Succeeded BY <2>3 DEF OneSuccess
  <2> QED BY <2>1, <2>2, <2>3
<1>3. ASSUME NEW a \in Attempts PROVE a \in Succeeded' <=> a = target[v]
  <2>1. CASE a = target[v] BY <2>1, <1>1 DEF Commit, Succeeded
  <2>2. CASE a # target[v] /\ rowLock[a] = v BY <2>2 DEF Commit, Succeeded
  <2>3. CASE a # target[v] /\ rowLock[a] # v
    <3>1. attempt'[a] = attempt[a] BY <2>3 DEF Commit
    <3> QED BY <3>1, <2>3, <1>2 DEF Succeeded
  <2> QED BY <2>1, <2>2, <2>3
<1>4. Succeeded' \subseteq Attempts BY DEF Succeeded
<1> QED BY <1>1, <1>2, <1>3, <1>4

IndexInv == BaseInv /\ SlotInv /\ OneSuccess

LEMMA IndexStep ==
  ASSUME UniqueIndex, IndexInv, [Next]_vars
  PROVE  SlotInv' /\ OneSuccess'
<1> USE DEF IndexInv
<1>0. BaseInv' BY InitiateBase, VerifyBase, EnvironmentBase, BaseStutter, NextSplit
<1>1. CASE \E v \in Verifiers : Commit(v)
  <2>1. PICK v \in Verifiers : Commit(v) BY <1>1
  <2>2. /\ target[v] \in Attempts
        /\ Succeeded \subseteq {target[v]}
        /\ Succeeded' = {target[v]}
    BY <2>1, CommitSettles
  <2>3. EndVerify(v) BY <2>1 DEF Commit
  <2>4. slot' = None
    <3>1. slot = v \/ target[v] \in Succeeded BY <2>1 DEF SlotInv, Commit
    <3>2. slot = v \/ slot = None BY <3>1 DEF SlotInv
    <3> QED BY <3>2, <2>3 DEF EndVerify
  <2>5. ASSUME NEW w \in Verifiers, vpc'[w] \in {"marked", "cancelling"} PROVE FALSE
    <3>1. w # v /\ vpc[w] = vpc[w]' /\ target[w] = target[w]'
      BY <2>3, <2>5, EndVerifyLocks DEF BaseInv
    <3>2. rowLock[target[w]] = w BY <2>5, <3>1 DEF BaseInv, LockInv, InTransaction
    <3>3. rowLock[target[v]] = v BY <2>1 DEF BaseInv, LockInv, InTransaction, Commit
    <3>4. slot = w \/ target[w] \in Succeeded BY <2>5, <3>1 DEF SlotInv
    <3>5. target[w] \notin Succeeded BY <2>2, <3>1, <3>2, <3>3
    <3>6. slot = w /\ Succeeded = {} BY <3>4, <3>5, NoneIsFresh DEF SlotInv
    <3>7. slot = v \/ target[v] \in Succeeded BY <2>1 DEF SlotInv, Commit
    <3> QED BY <3>1, <3>6, <3>7
  <2> QED BY <2>2, <2>4, <2>5 DEF SlotInv, OneSuccess
<1>2. CASE ~\E v \in Verifiers : Commit(v)
  <2>1. /\ Succeeded' \subseteq Succeeded
        /\ \A a \in Succeeded : rowLock[a] # None => a \in Succeeded'
    BY <1>2, SuccessFrame
  <2>2. OneSuccess' BY <2>1 DEF OneSuccess
  <2>3. ASSUME NEW w \in Verifiers, vpc[w] \in {"marked", "cancelling"},
               target[w] \in Succeeded
        PROVE  target[w] \in Succeeded'
    BY <2>1, <2>3, NoneIsFresh DEF BaseInv, LockInv, InTransaction
  <2>4. ASSUME UNCHANGED <<vpc, target, slot>> PROVE SlotInv'
    BY <2>1, <2>3, <2>4 DEF SlotInv
  <2>5. ASSUME NEW v \in Verifiers, EndVerify(v) PROVE SlotInv'
    <3>1. ASSUME slot' # None PROVE vpc'[slot'] \in {"marked", "cancelling"} /\ Succeeded' = {}
      <4>1. slot' = slot /\ slot \in Verifiers /\ slot # v
        BY <2>5, <3>1, EndVerifyLocks DEF BaseInv, TypeOK, EndVerify
      <4>2. vpc'[slot] = vpc[slot] BY <2>5, <4>1, EndVerifyLocks DEF BaseInv
      <4> QED BY <2>1, <4>1, <4>2, <3>1 DEF SlotInv
    <3>2. ASSUME NEW w \in Verifiers, vpc'[w] \in {"marked", "cancelling"}
          PROVE  slot' = w \/ target'[w] \in Succeeded'
      <4>1. /\ w # v /\ vpc'[w] = vpc[w] /\ target'[w] = target[w]
            /\ slot = w => slot' = w
        BY <2>5, <3>2, EndVerifyLocks DEF BaseInv
      <4> QED BY <4>1, <3>2, <2>3 DEF SlotInv
    <3> QED BY <3>1, <3>2 DEF SlotInv
  <2>6. ASSUME NEW v \in Verifiers, MarkSuccess(v), ~EndVerify(v) PROVE SlotInv'
    BY <2>6, <2>1, <2>3, NoneIsFresh DEF MarkSuccess, SlotInv, BaseInv, TypeOK
  <2>7. ASSUME NEW v \in Verifiers, CheckSuccess(v), ~EndVerify(v) PROVE SlotInv'
    <3>1. slot' = slot /\ target' = target /\ slot # v
          /\ \A w \in Verifiers \ {v} : vpc'[w] = vpc[w]
      BY <2>7, NoneIsFresh DEF CheckSuccess, SlotInv, BaseInv, TypeOK
    <3>2. vpc'[v] = "marked" => target[v] \in Succeeded'
      BY <2>7, NoneIsFresh, <2>1 DEF CheckSuccess, BaseInv, LockInv, InTransaction, TypeOK, TargetInv
    <3>3. vpc'[v] # "cancelling" BY <2>7 DEF CheckSuccess, BaseInv, TypeOK
    <3>4. slot \in Verifiers \cup {None} BY DEF BaseInv, TypeOK
    <3>5. slot # None => vpc'[slot] = vpc[slot] BY <3>1, <3>4
    <3> QED BY <2>1, <2>3, <3>1, <3>2, <3>3, <3>5 DEF SlotInv
  <2>8. ASSUME NEW v \in Verifiers, FindSiblings(v) PROVE SlotInv'
    BY <2>8, <2>1, <2>3, NoneIsFresh DEF FindSiblings, SlotInv, BaseInv, TypeOK
  <2>9. ASSUME NEW v \in Verifiers,
               \/ \E a \in Attempts : StartVerify(v, a)
               \/ ProviderConfirms(v) \/ ProviderDenies(v) \/ LockAttempt(v)
        PROVE  SlotInv'
    <3>1. slot' = slot /\ vpc[v] \notin {"marked", "cancelling"}
          /\ vpc'[v] \notin {"marked", "cancelling"}
          /\ \A w \in Verifiers \ {v} : vpc'[w] = vpc[w] /\ target'[w] = target[w]
      BY <2>9 DEF StartVerify, ProviderConfirms, ProviderDenies, LockAttempt, BaseInv, TypeOK
    <3>2. slot \in Verifiers \cup {None} BY DEF BaseInv, TypeOK
    <3>3. slot # None => slot # v /\ vpc'[slot] = vpc[slot] BY <3>1, <3>2 DEF SlotInv
    <3> QED BY <2>1, <2>3, <3>1, <3>3 DEF SlotInv
  <2>10. ASSUME NEW v \in Verifiers, NEW b \in Attempts, CancelSibling(v, b)
         PROVE  UNCHANGED <<vpc, target, slot>>
    BY <2>10 DEF CancelSibling
  <2>11. ASSUME NEW v \in Verifiers, Verify(v) PROVE SlotInv'
    BY <1>2, <2>4, <2>5, <2>6, <2>7, <2>8, <2>9, <2>10, <2>11
       DEF Verify, MarkFailed, GiveUp, Abort, Rollback
  <2>12. ASSUME NEW r \in Requests, Initiate(r) PROVE UNCHANGED <<vpc, target, slot>>
    BY <2>12, InitiateFrame DEF BaseInv
  <2>13. Environment => UNCHANGED <<vpc, target, slot>> BY EnvironmentFrame DEF BaseInv
  <2>14. UNCHANGED vars => UNCHANGED <<vpc, target, slot>> BY DEF vars, verifyVars
  <2> QED BY <2>2, <2>4, <2>11, <2>12, <2>13, <2>14, NextSplit
<1> QED BY <1>1, <1>2

LEMMA IndexInit == Init => SlotInv /\ OneSuccess
BY NoneIsFresh DEF Init, SlotInv, OneSuccess, Succeeded

(* With the partial unique index in place the locks and the index entry    *)
(* guard every settlement.                                                 *)
THEOREM IndexInvariant == UniqueIndex => (Spec => []IndexInv)
<1> SUFFICES ASSUME UniqueIndex PROVE Spec => []IndexInv OBVIOUS
<1>1. Init => IndexInv BY BaseInit, IndexInit DEF IndexInv
<1>2. IndexInv /\ [Next]_vars => IndexInv'
  BY IndexStep, InitiateBase, VerifyBase, EnvironmentBase, BaseStutter, NextSplit DEF IndexInv
<1> QED BY <1>1, <1>2, PTL DEF Spec

(* At most one attempt of a transaction is SUCCESS, for any number of      *)
(* requests, providers and concurrent verifications - given the index.     *)
THEOREM AtMostOneSuccess == UniqueIndex => (Spec => []OneSuccess)
<1> SUFFICES ASSUME UniqueIndex PROVE Spec => []OneSuccess OBVIOUS
<1>1. IndexInv => OneSuccess BY DEF IndexInv
<1> QED BY <1>1, IndexInvariant, PTL

(* The locks and the index entry do what markSuccess relies on. *)
THEOREM GuardedSettlement == UniqueIndex => (Spec => []SettlementIsGuarded)
<1> SUFFICES ASSUME UniqueIndex PROVE Spec => []SettlementIsGuarded OBVIOUS
<1>1. IndexInv => SettlementIsGuarded BY DEF IndexInv, BaseInv, SettlementIsGuarded
<1> QED BY <1>1, IndexInvariant, PTL

-----------------------------------------------------------------------------
(* The ledger                                                              *)

(* A verification past the provider's answer holds a confirmed attempt. *)
AnswerInv ==
  \A v \in Verifiers : vpc[v] = "begin" \/ InTransaction(v) => Confirmed(target[v])

LedgerInv == AnswerInv /\ PostedOnlyIfConfirmed /\ SuccessIsPosted /\ CancelledBySibling

(* What is posted or paid stays so, whoever takes the step. *)
LEMMA BooksGrow ==
  ASSUME BaseInv, [Next]_vars
  PROVE  /\ paid \subseteq paid'
         /\ \A a \in Attempts : posted[a] > 0 => posted'[a] > 0
<1>1. ASSUME NEW r \in Requests, Initiate(r) PROVE UNCHANGED <<posted, paid>>
  BY <1>1, InitiateFrame DEF BaseInv
<1>2. CASE Environment BY <1>2, EnvironmentFrame DEF BaseInv
<1>3. ASSUME NEW v \in Verifiers, Commit(v)
      PROVE  paid' = paid /\ \A a \in Attempts : posted[a] > 0 => posted'[a] > 0
  BY <1>3 DEF Commit, BaseInv, TypeOK
<1>4. ASSUME NEW v \in Verifiers, Verify(v), ~Commit(v) PROVE UNCHANGED <<posted, paid>>
  BY <1>4 DEF Verify, StartVerify, ProviderConfirms, ProviderDenies, GiveUp, LockAttempt,
     MarkFailed, CheckSuccess, MarkSuccess, FindSiblings, CancelSibling, Abort, Rollback, dbVars
<1>5. CASE UNCHANGED vars BY <1>5 DEF vars, dbVars
<1> QED BY <1>1, <1>2, <1>3, <1>4, <1>5, NextSplit

(* Only ProviderConfirms, on a confirmed attempt, leads towards COMMIT. *)
LEMMA AnswerStep ==
  ASSUME BaseInv, AnswerInv, [Next]_vars
  PROVE  AnswerInv'
<1> USE DEF InTransaction
<1>1. \A a \in Attempts : Confirmed(a) => Confirmed(a)' BY BooksGrow DEF Confirmed
<1>2. CASE UNCHANGED <<vpc, target>> BY <1>1, <1>2 DEF AnswerInv, BaseInv, TargetInv
<1>3. ASSUME NEW v \in Verifiers, Verify(v) PROVE AnswerInv'
  <2> SUFFICES ASSUME NEW w \in Verifiers, vpc'[w] = "begin" \/ InTransaction(w)'
               PROVE  Confirmed(target[w])'
    BY DEF AnswerInv
  <2>1. ASSUME target'[w] = target[w], vpc[w] = "begin" \/ InTransaction(w)
        PROVE  Confirmed(target[w])'
    BY <1>1, <2>1 DEF AnswerInv, BaseInv, TargetInv, Confirmed
  <2>2. CASE w # v
    <3>1. vpc'[w] = vpc[w] /\ target'[w] = target[w]
      BY <1>3, <2>2 DEF BaseInv, TypeOK, Verify, StartVerify, ProviderConfirms, ProviderDenies,
         GiveUp, LockAttempt, MarkFailed, CheckSuccess, MarkSuccess, FindSiblings,
         CancelSibling, Abort, Rollback, Commit, EndVerify
    <3> QED BY <2>1, <3>1
  <2>3. CASE w = v /\ ProviderConfirms(v)
    BY <2>3 DEF ProviderConfirms, Confirmed
  <2>4. CASE w = v /\ ~ProviderConfirms(v)
    <3>1. ~EndVerify(v) BY <2>4, EndVerifyLocks DEF BaseInv
    <3>2. target'[v] = target[v] /\ (vpc[v] = "begin" \/ InTransaction(v))
      BY <1>3, <2>4, <3>1 DEF BaseInv, TypeOK, Verify, StartVerify, ProviderDenies,
         GiveUp, LockAttempt, MarkFailed, CheckSuccess, MarkSuccess, FindSiblings,
         CancelSibling, Abort, Rollback, Commit
    <3> QED BY <2>1, <2>4, <3>2
  <2> QED BY <2>2, <2>3, <2>4
<1>4. ASSUME NEW r \in Requests, Initiate(r) PROVE UNCHANGED <<vpc, target>>
  BY <1>4, InitiateFrame DEF BaseInv
<1>5. Environment => UNCHANGED <<vpc, target>> BY EnvironmentFrame DEF BaseInv
<1>6. UNCHANGED vars => UNCHANGED <<vpc, target>> BY DEF vars, verifyVars
<1> QED BY <1>2, <1>3, <1>4, <1>5, <1>6, NextSplit

(* No step but COMMIT makes the Transaction row SUCCESS. *)
LEMMA TransactionFrame ==
  ASSUME BaseInv, [Next]_vars, ~\E v \in Verifiers : Commit(v), txStatus' = "SUCCESS"
  PROVE  txStatus = "SUCCESS"
<1>1. ASSUME NEW r \in Requests, Initiate(r) PROVE txStatus = "SUCCESS"
  BY <1>1 DEF Initiate, CheckCache, FindTransaction, InsertTransaction, CreateAttempt,
     ProviderFails, UpdateStatus, StoreResult, CrashRequest, dbVars
<1>2. ASSUME NEW v \in Verifiers, Verify(v) PROVE txStatus = "SUCCESS"
  BY <1>2 DEF Verify, StartVerify, ProviderConfirms, ProviderDenies, GiveUp, LockAttempt,
     MarkFailed, CheckSuccess, MarkSuccess, FindSiblings, CancelSibling, Abort, Rollback, dbVars
<1>3. CASE Environment BY <1>3, EnvironmentFrame DEF BaseInv
<1>4. CASE UNCHANGED vars BY <1>4 DEF vars, dbVars
<1> QED BY <1>1, <1>2, <1>3, <1>4, NextSplit

(* Only COMMIT cancels. *)
LEMMA CancelFrame ==
  ASSUME BaseInv, [Next]_vars, ~\E v \in Verifiers : Commit(v),
         NEW a \in Attempts, attempt'[a] = "CANCELLED"
  PROVE  attempt[a] = "CANCELLED"
<1>1. ASSUME NEW r \in Requests, Initiate(r) PROVE attempt[a] = "CANCELLED"
  BY <1>1, InitiateFrame DEF BaseInv
<1>2. ASSUME NEW v \in Verifiers, Verify(v) PROVE attempt[a] = "CANCELLED"
  BY <1>2, VerifyAttempt
<1>3. CASE Environment BY <1>3, EnvironmentFrame DEF BaseInv
<1>4. CASE UNCHANGED vars BY <1>4 DEF vars, dbVars
<1> QED BY <1>1, <1>2, <1>3, <1>4, NextSplit

LEMMA LedgerStep ==
  ASSUME BaseInv, LedgerInv, [Next]_vars
  PROVE  LedgerInv'
<1> USE DEF LedgerInv
<1>1. AnswerInv' BY AnswerStep
<1>2. CASE \E v \in Verifiers : Commit(v)
  <2>1. PICK v \in Verifiers : Commit(v) BY <1>2
  <2> DEFINE t == target[v]
  <2>2. t \in Attempts /\ Confirmed(t)
    BY <2>1 DEF BaseInv, TargetInv, Commit, AnswerInv, InTransaction
  <2> HIDE DEF t
  <2>3. /\ \A a \in Attempts \ {t} : /\ posted'[a] = posted[a]
                                     /\ attempt'[a] \in {"CANCELLED", attempt[a]}
        /\ posted'[t] > 0 /\ attempt'[t] = "SUCCESS"
        /\ paid' = paid
    BY <2>1, <2>2 DEF Commit, BaseInv, TypeOK, t
  <2>4. PostedOnlyIfConfirmed' BY <2>2, <2>3 DEF PostedOnlyIfConfirmed, Confirmed
  <2>5. SuccessIsPosted'
    BY <2>2, <2>3, BooksGrow DEF SuccessIsPosted, Succeeded
  <2>6. CancelledBySibling' BY <2>2, <2>3, BooksGrow DEF CancelledBySibling
  <2> QED BY <1>1, <2>4, <2>5, <2>6
<1>3. CASE ~\E v \in Verifiers : Commit(v)
  <2>1. posted' = posted /\ Succeeded' \subseteq Succeeded BY <1>3, SuccessFrame
  <2>2. PostedOnlyIfConfirmed' BY <2>1, BooksGrow DEF PostedOnlyIfConfirmed, Confirmed
  <2>3. SuccessIsPosted' BY <1>3, <2>1, TransactionFrame DEF SuccessIsPosted
  <2>4. CancelledBySibling' BY <1>3, <2>1, CancelFrame DEF CancelledBySibling
  <2> QED BY <1>1, <2>2, <2>3, <2>4
<1> QED BY <1>2, <1>3

(* The ledger agrees with the provider and with the status rows, index or  *)
(* not: it is the one database transaction that makes it so.               *)
THEOREM LedgerInvariant == Spec => []LedgerInv
<1>1. Init => LedgerInv
  BY DEF Init, LedgerInv, AnswerInv, InTransaction, PostedOnlyIfConfirmed, SuccessIsPosted,
         CancelledBySibling, Succeeded
<1>2. BaseInv /\ LedgerInv /\ [Next]_vars => LedgerInv' BY LedgerStep
<1> QED BY <1>1, <1>2, BaseInvariant, PTL DEF Spec

(* Nothing is booked that the provider does not confirm. *)
THEOREM NoUnconfirmedBooking == Spec => []PostedOnlyIfConfirmed
<1>1. LedgerInv => PostedOnlyIfConfirmed BY DEF LedgerInv
<1> QED BY <1>1, LedgerInvariant, PTL

(* Nobody ever sees a SUCCESS that the ledger does not show. *)
THEOREM NoUnbookedSuccess == Spec => []SuccessIsPosted
<1>1. LedgerInv => SuccessIsPosted BY DEF LedgerInv
<1> QED BY <1>1, LedgerInvariant, PTL

(* An attempt is cancelled only for a sibling that was booked. *)
THEOREM NoCancelWithoutSettlement == Spec => []CancelledBySibling
<1>1. LedgerInv => CancelledBySibling BY DEF LedgerInv
<1> QED BY <1>1, LedgerInvariant, PTL

-----------------------------------------------------------------------------
(* Refinement                                                              *)

(* COMMIT is the whole of a Settle step. *)
LEMMA CommitRefines ==
  ASSUME IndexInv, AnswerInv, NEW v \in Verifiers, Commit(v)
  PROVE  Abstract!Next
<1>1. /\ target[v] \in Attempts
      /\ Succeeded \subseteq {target[v]}
      /\ Succeeded' = {target[v]}
  BY CommitSettles DEF IndexInv
<1>2. Confirmed(target[v]) BY DEF AnswerInv, InTransaction, Commit
<1>3. Abstract!Confirmed(target[v]) BY <1>1, <1>2 DEF Abstract!Confirmed, Confirmed
<1>4. posted' = [posted EXCEPT ![target[v]] = @ + 1] /\ paid' = paid BY DEF Commit
<1>5. Abstract!Settle(target[v]) BY <1>1, <1>3, <1>4 DEF Abstract!Settle
<1> QED BY <1>1, <1>5 DEF Abstract!Next

(* A step that writes at most one attempt row, and no SUCCESS, withdraws   *)
(* that attempt or changes nothing the specification shows.                *)
LEMMA WriteRefines ==
  ASSUME TypeOK, NEW a \in Attempts, NEW s \in AttemptStatus \ {"SUCCESS"},
         attempt' = [attempt EXCEPT ![a] = s], UNCHANGED <<posted, paid>>
  PROVE  Abstract!Next
<1>1. Succeeded' = Succeeded \ {a} BY DEF Succeeded, TypeOK
<1>2. Abstract!Withdraw(a) BY <1>1 DEF Abstract!Withdraw
<1> QED BY <1>2 DEF Abstract!Next

(* Every other step changes neither the ledger nor the statuses. *)
LEMMA StutterRefines ==
  ASSUME UNCHANGED <<attempt, posted, paid>>
  PROVE  UNCHANGED Abstract!vars
BY DEF Abstract!vars, Succeeded

LEMMA StepRefines ==
  ASSUME IndexInv, AnswerInv, [Next]_vars
  PROVE  [Abstract!Next]_(Abstract!vars)
<1> USE DEF requestVars, verifyVars, dbVars
<1>0. TypeOK BY DEF IndexInv, BaseInv
<1>1. ASSUME NEW r \in Requests, Initiate(r) PROVE [Abstract!Next]_(Abstract!vars)
  <2>1. ASSUME NEW p \in Providers, CreateAttempt(r, p) PROVE Abstract!Next
    <3>1. <<r, p>> \in Attempts BY AttemptPair
    <3>2. "PENDING" \in AttemptStatus \ {"SUCCESS"} BY DEF AttemptStatus
    <3> QED BY <2>1, <3>1, <3>2, <1>0, WriteRefines DEF CreateAttempt
  <2>2. CASE ~\E p \in Providers : CreateAttempt(r, p)
    <3>1. UNCHANGED <<attempt, posted, paid>>
      BY <1>1, <2>2 DEF Initiate, CheckCache, FindTransaction, InsertTransaction,
         ProviderFails, UpdateStatus, StoreResult, CrashRequest
    <3> QED BY <3>1, StutterRefines
  <2> QED BY <2>1, <2>2
<1>2. ASSUME NEW v \in Verifiers, Verify(v) PROVE [Abstract!Next]_(Abstract!vars)
  <2>1. CASE Commit(v) BY <2>1, CommitRefines
  <2>2. CASE MarkFailed(v)
    <3>1. target[v] \in Attempts BY <2>2 DEF MarkFailed, IndexInv, BaseInv, TargetInv
    <3>2. "FAILED" \in AttemptStatus \ {"SUCCESS"} BY DEF AttemptStatus
    <3>3. Abstract!Next BY <2>2, <3>1, <3>2, <1>0, WriteRefines DEF MarkFailed
    <3> QED BY <3>3
  <2>3. CASE ~Commit(v) /\ ~MarkFailed(v)
    <3>1. UNCHANGED <<attempt, posted, paid>>
      BY <1>2, <2>3 DEF Verify, StartVerify, ProviderConfirms, ProviderDenies, GiveUp,
         LockAttempt, CheckSuccess, MarkSuccess, FindSiblings, CancelSibling, Abort, Rollback
    <3> QED BY <3>1, StutterRefines
  <2> QED BY <2>1, <2>2, <2>3
<1>3. ASSUME NEW o \in Orders, Pay(o) PROVE [Abstract!Next]_(Abstract!vars)
  <2>1. Abstract!Pay(o) BY <1>3 DEF Pay, Abstract!Pay, Succeeded
  <2> QED BY <2>1 DEF Abstract!Next
<1>4. ASSUME NEW a \in Attempts, FailureEvent(a) \/ ExpireAttempt(a)
      PROVE  [Abstract!Next]_(Abstract!vars)
  <2>1. {"FAILED", "EXPIRED"} \subseteq AttemptStatus \ {"SUCCESS"} BY DEF AttemptStatus
  <2>2. Abstract!Next
    BY <1>4, <2>1, <1>0, WriteRefines DEF FailureEvent, ExpireAttempt
  <2> QED BY <2>2
<1>5. CASE CacheExpires \/ UNCHANGED vars
  <2>1. UNCHANGED <<attempt, posted, paid>> BY <1>5 DEF CacheExpires, vars
  <2> QED BY <2>1, StutterRefines
<1> QED BY <1>1, <1>2, <1>3, <1>4, <1>5 DEF Next

(* verifyPayment, with all its statements, locks and rollbacks and every   *)
(* notice that races it, settles like the one-step specification.          *)
THEOREM PaymentImplementsSettlement == UniqueIndex => (Spec => Settles)
<1> SUFFICES ASSUME UniqueIndex PROVE Spec => Abstract!Spec BY DEF Settles
<1>1. Init => Abstract!Init BY DEF Init, Abstract!Init, Succeeded
<1>2. IndexInv /\ AnswerInv /\ [Next]_vars => [Abstract!Next]_(Abstract!vars) BY StepRefines
<1>3. LedgerInv => AnswerInv BY DEF LedgerInv
<1> QED BY <1>1, <1>2, <1>3, IndexInvariant, LedgerInvariant, PTL DEF Spec, Abstract!Spec

-----------------------------------------------------------------------------
(* Retries                                                                 *)

(* What the cache and a request that is about to answer hold. *)
BackedInv ==
  /\ cached => txStatus \notin {"NONE", "PENDING"}
  /\ \A r \in Requests : rpc[r] \in {"storing", "returned"} =>
       txStatus \notin {"NONE", "PENDING"}
  /\ \A r \in Requests : rpc[r] \in {"options"} => txStatus # "NONE"

(* A step leaves the Transaction row in a later state of its life, and     *)
(* does not touch the requests and the cache unless it is a request's.     *)
LEMMA TransactionLife ==
  ASSUME BaseInv, [Next]_vars
  PROVE  /\ txStatus' = txStatus \/ txStatus' \notin {"NONE", "PENDING"}
            \/ (txStatus = "NONE" /\ txStatus' = "PENDING")
         /\ (~\E r \in Requests : Initiate(r)) => rpc' = rpc /\ (cached' => cached)
<1> USE DEF requestVars, verifyVars, dbVars
<1>1. ASSUME NEW r \in Requests, Initiate(r)
      PROVE  txStatus' = txStatus \/ txStatus' \notin {"NONE", "PENDING"}
             \/ (txStatus = "NONE" /\ txStatus' = "PENDING")
  BY <1>1 DEF Initiate, CheckCache, FindTransaction, InsertTransaction, CreateAttempt,
     ProviderFails, UpdateStatus, StoreResult, CrashRequest
<1>2. ASSUME NEW v \in Verifiers, Verify(v)
      PROVE  txStatus' \in {txStatus, "SUCCESS"} /\ rpc' = rpc /\ cached' = cached
  BY <1>2 DEF Verify, StartVerify, ProviderConfirms, ProviderDenies, GiveUp, LockAttempt,
     MarkFailed, CheckSuccess, MarkSuccess, FindSiblings, CancelSibling, Abort, Rollback, Commit
<1>3. CASE Environment
  BY <1>3, EnvironmentFrame DEF BaseInv, Environment, Pay, FailureEvent, ExpireAttempt, CacheExpires
<1>4. CASE UNCHANGED vars BY <1>4 DEF vars
<1> QED BY <1>1, <1>2, <1>3, <1>4, NextSplit

LEMMA BackedStep ==
  ASSUME BaseInv, BackedInv, [Next]_vars
  PROVE  BackedInv'
<1> USE DEF BaseInv, TypeOK, BackedInv, requestVars, verifyVars, dbVars
<1>1. CASE ~\E r \in Requests : Initiate(r)
  BY <1>1, TransactionLife
<1>2. ASSUME NEW r \in Requests, Initiate(r) PROVE BackedInv'
  <2>1. CASE CheckCache(r) BY <2>1 DEF CheckCache
  <2>2. CASE FindTransaction(r) BY <2>2 DEF FindTransaction
  <2>3. CASE InsertTransaction(r) BY <2>3 DEF InsertTransaction
  <2>4. ASSUME NEW p \in Providers, CreateAttempt(r, p) \/ ProviderFails(r, p)
        PROVE  BackedInv'
    BY <2>4 DEF CreateAttempt, ProviderFails
  <2>5. CASE UpdateStatus(r) BY <2>5 DEF UpdateStatus
  <2>6. CASE StoreResult(r) BY <2>6 DEF StoreResult
  <2>7. CASE CrashRequest(r) BY <2>7 DEF CrashRequest
  <2> QED BY <1>2, <2>1, <2>2, <2>3, <2>4, <2>5, <2>6, <2>7 DEF Initiate
<1> QED BY <1>1, <1>2

(* A request never answers with a transaction that does not exist or that  *)
(* no provider has been asked for, from the cache or otherwise.            *)
THEOREM NoUnbackedResult == Spec => []ResultIsBacked
<1>1. Init => BackedInv BY DEF Init, BackedInv
<1>2. BaseInv /\ BackedInv /\ [Next]_vars => BackedInv' BY BackedStep
<1>3. BackedInv => ResultIsBacked BY DEF BackedInv, ResultIsBacked
<1> QED BY <1>1, <1>2, <1>3, BaseInvariant, PTL DEF Spec
=============================================================================

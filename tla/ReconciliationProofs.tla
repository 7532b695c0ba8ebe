------------------------ MODULE ReconciliationProofs ------------------------
(***************************************************************************)
(* Theorems about Reconciliation, for any number of replicas, transactions *)
(* and crashes.                                                            *)
(***************************************************************************)
EXTENDS Reconciliation, FiniteSetTheorems, TLAPS

(* A run has the attempt it verifies as its target exactly as long as it   *)
(* verifies it, and settles it only if the provider knows the payment.     *)
TargetInv ==
  \A r \in Runs :
    /\ pc[r] \in {"asking", "settling", "denied"} <=> target[r] # None
    /\ pc[r] = "settling" => target[r] \in paid

(* What is booked is not open, nobody else has booked what a run verifies, *)
(* and the transaction says whether it is booked.                          *)
BookedInv ==
  \A t \in Transactions :
    /\ posted[t] > 0 => attempt[t] \in {"SUCCESS", "FAILED"}
    /\ t \notin crossed =>
         /\ \A r \in Runs : target[r] = t => posted[t] = 0
         /\ \/ posted[t] = 0 /\ txStatus[t] = "PROCESSING"
            \/ posted[t] = 1 /\ txStatus[t] = "SUCCESS" /\ t \in paid

(* A run in progress more than the lock accounts for is one that outlived  *)
(* it.                                                                     *)
LockInv == IsFiniteSet(Running) /\ RunsAreBounded

LEMMA InitTypes == Init => TypeOK
<1> SUFFICES ASSUME Init PROVE TypeOK OBVIOUS
<1>1. \A r \in Runs : pc[r] = "idle" /\ target[r] = None BY DEF Init
<1> QED BY <1>1 DEF Init, TypeOK

LEMMA NextTypes == TypeOK /\ [Next]_vars => TypeOK'
<1> SUFFICES ASSUME TypeOK, [Next]_vars PROVE TypeOK' OBVIOUS
<1> USE DEF TypeOK, dbVars, runVars
<1>1. ASSUME NEW t \in Transactions, Pay(t) \/ Age(t) PROVE TypeOK'
  <2>1. paid' \subseteq Transactions /\ old' \subseteq Transactions BY <1>1 DEF Pay, Age
  <2> QED BY <1>1, <2>1 DEF Pay, Age
<1>2. ASSUME NEW t \in Transactions, Webhook(t) PROVE TypeOK'
  <2>1. posted' \in [Transactions -> Nat] BY <1>2 DEF Webhook, Settle
  <2> QED BY <1>2, <2>1 DEF Webhook, Settle
<1>3. ASSUME NEW r \in Runs, Acquire(r) \/ Unlock(r) \/ Abandon(r) \/ Crash(r) PROVE TypeOK'
  <2>1. CASE Acquire(r) \/ Unlock(r) BY <2>1 DEF Acquire, Unlock, Goto
  <2>2. CASE Abandon(r) BY <2>2 DEF Abandon, Goto
  <2>3. CASE Crash(r) BY <2>3 DEF Crash, Goto
  <2> QED BY <1>3, <2>1, <2>2, <2>3
<1>4. ASSUME NEW r \in Runs, Find(r) PROVE TypeOK'
  <2>1. todo' \in [Runs -> SUBSET Transactions] BY <1>4 DEF Find
  <2> QED BY <1>4, <2>1 DEF Find, Goto
<1>5. ASSUME NEW r \in Runs, NEW t \in Transactions, StartVerify(r, t) PROVE TypeOK'
  <2>1. todo' \in [Runs -> SUBSET Transactions] BY <1>5 DEF StartVerify
  <2>2. t # None BY ReconciliationAssumption
  <2>3. CASE attempt[t] \in {"SUCCESS", "FAILED"} BY <1>5, <2>1, <2>3 DEF StartVerify
  <2>4. CASE attempt[t] \notin {"SUCCESS", "FAILED"}
    BY <1>5, <2>1, <2>2, <2>4 DEF StartVerify, Goto
  <2> QED BY <2>3, <2>4
<1>6. ASSUME NEW r \in Runs, ProviderConfirms(r) \/ ProviderDenies(r) PROVE TypeOK'
  BY <1>6 DEF ProviderConfirms, ProviderDenies, Goto
<1>7. ASSUME NEW r \in Runs, SettleAttempt(r) PROVE TypeOK'
  <2>1. target[r] \in Transactions BY <1>7 DEF SettleAttempt
  <2>2. posted' \in [Transactions -> Nat] BY <1>7, <2>1 DEF SettleAttempt, Settle
  <2> QED BY <1>7, <2>1, <2>2 DEF SettleAttempt, Settle, NextAttempt, Goto
<1>8. ASSUME NEW r \in Runs, MarkFailed(r) \/ Throw(r) PROVE TypeOK'
  <2>1. target[r] \in Transactions BY <1>8 DEF MarkFailed, Throw
  <2> QED BY <1>8, <2>1 DEF MarkFailed, Throw, NextAttempt, Goto
<1>9. ASSUME NEW r \in Runs, ExpireAttempts(r) PROVE TypeOK'
  <2>1. attempt' \in [Transactions -> {"PENDING", "SUCCESS", "FAILED", "EXPIRED"}]
    BY <1>9 DEF ExpireAttempts
  <2> QED BY <1>9, <2>1 DEF ExpireAttempts, Goto
<1>10. CASE LockExpires
  <2>1. outlived' \in Nat BY <1>10 DEF LockExpires
  <2>3. lock' \in BOOLEAN
    <3>1. lock' = FALSE BY <1>10 DEF LockExpires
    <3> QED BY <3>1
  <2>2. UNCHANGED <<dbVars, paid, old, crossed, runVars, crashes>> BY <1>10 DEF LockExpires
  <2> QED BY <2>1, <2>2, <2>3
<1>11. CASE UNCHANGED vars BY <1>11 DEF vars
<1> QED
  BY <1>1, <1>2, <1>3, <1>4, <1>5, <1>6, <1>7, <1>8, <1>9, <1>10, <1>11 DEF Next, Reconcile

(* The rows and the runs have their types.                                 *)
THEOREM ReconciliationTypeCorrect == Spec => []TypeOK
BY InitTypes, NextTypes, PTL DEF Spec

-----------------------------------------------------------------------------
(* The set of runs in progress grows by Acquire alone, and shrinks when a  *)
(* run unlocks or dies.                                                    *)
LEMMA NextRunning ==
  ASSUME TypeOK, [Next]_vars
  PROVE  \/ Running' = Running /\ lock' = lock /\ outlived' = outlived
         \/ LockExpires /\ Running' = Running
         \/ \E r \in Runs : /\ Acquire(r) /\ r \notin Running
                             /\ Running' = Running \cup {r} /\ outlived' = outlived
         \/ \E r \in Running : /\ Running' = Running \ {r} /\ outlived' = outlived
                                /\ lock' \in {FALSE, lock}
<1> USE DEF TypeOK, Running, dbVars, runVars
<1>1. ASSUME NEW t \in Transactions, Pay(t) \/ Age(t) \/ Webhook(t)
      PROVE  Running' = Running /\ lock' = lock /\ outlived' = outlived
  BY <1>1 DEF Pay, Age, Webhook
<1>2. LockExpires => Running' = Running BY DEF LockExpires
<1>3. ASSUME NEW r \in Runs, Acquire(r)
      PROVE  r \notin Running /\ Running' = Running \cup {r} /\ outlived' = outlived
  BY <1>3 DEF Acquire, Goto
<1>4. ASSUME NEW r \in Runs, Unlock(r) \/ Crash(r)
      PROVE  /\ r \in Running /\ Running' = Running \ {r} /\ outlived' = outlived
             /\ lock' \in {FALSE, lock}
  BY <1>4 DEF Unlock, Crash, Goto
<1>5. ASSUME NEW r \in Runs, NEW t \in Transactions, StartVerify(r, t)
      PROVE  Running' = Running /\ lock' = lock /\ outlived' = outlived
  <2>1. CASE attempt[t] \in {"SUCCESS", "FAILED"} BY <1>5, <2>1 DEF StartVerify
  <2>2. CASE attempt[t] \notin {"SUCCESS", "FAILED"} BY <1>5, <2>2 DEF StartVerify, Goto
  <2> QED BY <2>1, <2>2
<1>6. ASSUME NEW r \in Runs,
             \/ Find(r) \/ ProviderConfirms(r) \/ ProviderDenies(r) \/ SettleAttempt(r)
             \/ MarkFailed(r) \/ ExpireAttempts(r) \/ Throw(r) \/ Abandon(r)
      PROVE  Running' = Running /\ lock' = lock /\ outlived' = outlived
  BY <1>6 DEF Find, ProviderConfirms, ProviderDenies, SettleAttempt, MarkFailed,
              ExpireAttempts, Throw, Abandon, NextAttempt, Goto
<1>7. CASE UNCHANGED vars BY <1>7 DEF vars
<1> QED BY <1>1, <1>2, <1>3, <1>4, <1>5, <1>6, <1>7 DEF Next, Reconcile

LEMMA NextLock == ASSUME TypeOK, LockInv, [Next]_vars PROVE LockInv'
<1> USE DEF LockInv, RunsAreBounded
<1>0. lock \in BOOLEAN /\ outlived \in Nat BY DEF TypeOK
<1>1. Cardinality(Running) \in Nat BY FS_CardinalityType
<1>2. CASE Running' = Running /\ lock' = lock /\ outlived' = outlived BY <1>2
<1>3. CASE LockExpires /\ Running' = Running
  <2>1. CASE Running = {}
    <3>1. Cardinality(Running) = 0 BY <2>1, FS_EmptySet
    <3> QED BY <1>0, <1>3, <2>1, <3>1 DEF LockExpires
  <2>2. CASE Running # {} BY <1>0, <1>1, <1>3, <2>2 DEF LockExpires
  <2> QED BY <2>1, <2>2
<1>4. ASSUME NEW r \in Runs, Acquire(r), r \notin Running,
             Running' = Running \cup {r}, outlived' = outlived
      PROVE  LockInv'
  <2>1. IsFiniteSet(Running') /\ Cardinality(Running') = Cardinality(Running) + 1
    BY <1>4, FS_AddElement
  <2> QED BY <1>0, <1>1, <1>4, <2>1 DEF Acquire
<1>5. ASSUME NEW r \in Running, Running' = Running \ {r}, outlived' = outlived,
             lock' \in {FALSE, lock}
      PROVE  LockInv'
  <2>1. IsFiniteSet(Running') /\ Cardinality(Running') = Cardinality(Running) - 1
    BY <1>5, FS_RemoveElement
  <2> QED BY <1>0, <1>1, <1>5, <2>1
<1> QED BY <1>2, <1>3, <1>4, <1>5, NextRunning

LEMMA LockInvariant == Spec => []LockInv
<1>1. Init => LockInv
  <2> SUFFICES ASSUME Init PROVE LockInv OBVIOUS
  <2>1. Running = {} /\ outlived = 0 BY DEF Init, Running
  <2> QED BY <2>1, FS_EmptySet DEF LockInv, RunsAreBounded
<1>2. TypeOK /\ LockInv /\ [Next]_vars => LockInv' BY NextLock
<1> QED BY <1>1, <1>2, ReconciliationTypeCorrect, PTL DEF Spec

(* However long runs take, the lock lets no run overlap another but for    *)
(* the times it expired in the middle of one: with any number of replicas, *)
(* crashes and abandoned runs, and though DEL takes another run's key.     *)
THEOREM RunsBounded == Spec => []RunsAreBounded
<1>1. LockInv => RunsAreBounded BY DEF LockInv
<1> QED BY <1>1, LockInvariant, PTL

(* So there is one run at a time until a run outlives the lock.            *)
THEOREM OneRunAtATime == Spec => [](outlived = 0 => OneRun)
<1>1. LockInv => (outlived = 0 => OneRun)
  <2> SUFFICES ASSUME LockInv, outlived = 0, NEW r \in Running, NEW s \in Running, r # s
               PROVE  FALSE
    BY DEF OneRun
  <2>1. IsFiniteSet({r}) /\ Cardinality({r}) = 1 BY FS_Singleton
  <2>2. Cardinality({r} \cup {s}) = 2 BY <2>1, FS_AddElement
  <2>3. Cardinality({r} \cup {s}) <= Cardinality(Running) BY FS_Subset DEF LockInv
  <2>4. Cardinality(Running) \in Nat BY FS_CardinalityType DEF LockInv
  <2>5. Cardinality(Running) <= 1 BY <2>4 DEF LockInv, RunsAreBounded
  <2> QED BY <2>2, <2>3, <2>4, <2>5
<1> QED BY <1>1, LockInvariant, PTL

-----------------------------------------------------------------------------
LEMMA NextTarget == ASSUME TypeOK, TargetInv, [Next]_vars PROVE TargetInv'
<1> USE DEF TypeOK, TargetInv, dbVars, runVars
<1>1. ASSUME NEW t \in Transactions, Pay(t) \/ Age(t) \/ Webhook(t) PROVE TargetInv'
  BY <1>1 DEF Pay, Age, Webhook
<1>2. CASE LockExpires BY <1>2 DEF LockExpires
<1>3. ASSUME NEW r \in Runs, NEW t \in Transactions, StartVerify(r, t) PROVE TargetInv'
  <2>1. t # None BY ReconciliationAssumption
  <2>2. CASE attempt[t] \in {"SUCCESS", "FAILED"} BY <1>3, <2>2 DEF StartVerify
  <2>3. CASE attempt[t] \notin {"SUCCESS", "FAILED"} BY <1>3, <2>1, <2>3 DEF StartVerify, Goto
  <2> QED BY <2>2, <2>3
<1>4. ASSUME NEW r \in Runs,
             Acquire(r) \/ Find(r) \/ ExpireAttempts(r) \/ Unlock(r) \/ Abandon(r)
      PROVE  TargetInv'
  BY <1>4 DEF Acquire, Find, ExpireAttempts, Unlock, Abandon, Goto
<1>5. ASSUME NEW r \in Runs, ProviderConfirms(r) \/ ProviderDenies(r) PROVE TargetInv'
  BY <1>5 DEF ProviderConfirms, ProviderDenies, Goto
<1>6. ASSUME NEW r \in Runs, SettleAttempt(r) \/ MarkFailed(r) \/ Throw(r) \/ Crash(r)
      PROVE  TargetInv'
  BY <1>6 DEF SettleAttempt, MarkFailed, Throw, Crash, NextAttempt, Goto
<1>7. CASE UNCHANGED vars BY <1>7 DEF vars
<1> QED BY <1>1, <1>2, <1>3, <1>4, <1>5, <1>6, <1>7 DEF Next, Reconcile

LEMMA NextBooked ==
  ASSUME TypeOK, TargetInv, BookedInv, [Next]_vars PROVE BookedInv'
<1> USE DEF BookedInv, dbVars, runVars
<1>1. ASSUME NEW t \in Transactions, Pay(t) \/ Age(t) PROVE BookedInv'
  BY <1>1 DEF Pay, Age
<1>2. ASSUME NEW t \in Transactions, Webhook(t) PROVE BookedInv'
  <2>1. /\ t \in paid /\ posted[t] = 0
        /\ attempt' = [attempt EXCEPT ![t] = "SUCCESS"]
        /\ txStatus' = [txStatus EXCEPT ![t] = "SUCCESS"]
        /\ posted' = [posted EXCEPT ![t] = @ + 1]
        /\ UNCHANGED <<paid, target>>
        /\ crossed' = crossed \cup ({t} \cap {target[r] : r \in Runs})
    BY <1>2 DEF Webhook, Settle, TypeOK
  <2>2. posted'[t] = 1 /\ attempt'[t] = "SUCCESS" /\ txStatus'[t] = "SUCCESS"
    BY <2>1 DEF TypeOK
  <2>3. t \notin crossed' => \A r \in Runs : target[r] # t BY <2>1
  <2>4. \A u \in Transactions \ {t} :
          posted'[u] = posted[u] /\ attempt'[u] = attempt[u] /\ txStatus'[u] = txStatus[u]
    BY <2>1 DEF TypeOK
  <2> QED BY <2>1, <2>2, <2>3, <2>4
<1>3. ASSUME NEW r \in Runs, NEW t \in Transactions, StartVerify(r, t) PROVE BookedInv'
  <2>1. CASE attempt[t] \in {"SUCCESS", "FAILED"} BY <1>3, <2>1 DEF StartVerify
  <2>2. CASE attempt[t] \notin {"SUCCESS", "FAILED"}
    <3>1. posted[t] = 0 BY <2>2 DEF TypeOK
    <3>2. target' = [target EXCEPT ![r] = t] /\ UNCHANGED <<dbVars, paid, crossed>>
      BY <1>3, <2>2 DEF StartVerify
    <3>3. \A s \in Runs : target'[s] = IF s = r THEN t ELSE target[s] BY <3>2 DEF TypeOK
    <3> QED BY <3>1, <3>2, <3>3
  <2> QED BY <2>1, <2>2
<1>4. ASSUME NEW r \in Runs, SettleAttempt(r) PROVE BookedInv'
  <2> DEFINE t == target[r]
  <2>1. t \in Transactions /\ t \in paid /\ pc[r] = "settling"
    BY <1>4 DEF SettleAttempt, TypeOK, TargetInv
  <2>2. /\ attempt' = [attempt EXCEPT ![t] = "SUCCESS"]
        /\ txStatus' = [txStatus EXCEPT ![t] = "SUCCESS"]
        /\ posted' = [posted EXCEPT ![t] = @ + 1]
        /\ target' = [target EXCEPT ![r] = None]
        /\ crossed' = crossed \cup ({t} \cap {target[s] : s \in Runs \ {r}})
        /\ UNCHANGED paid
    BY <1>4 DEF SettleAttempt, Settle, NextAttempt
  <2>3. posted'[t] = posted[t] + 1 /\ attempt'[t] = "SUCCESS" /\ txStatus'[t] = "SUCCESS"
    BY <2>1, <2>2 DEF TypeOK
  <2>4. t \notin crossed => posted[t] = 0 BY <2>1
  <2>5. t \notin crossed' => \A s \in Runs : target'[s] # t
    BY <2>1, <2>2, ReconciliationAssumption DEF TypeOK
  <2>8. \A s \in Runs, u \in Transactions : target'[s] = u => target[s] = u
    BY <2>2, ReconciliationAssumption DEF TypeOK
  <2>6. \A u \in Transactions \ {t} :
          posted'[u] = posted[u] /\ attempt'[u] = attempt[u] /\ txStatus'[u] = txStatus[u]
    BY <2>1, <2>2 DEF TypeOK
  <2>7. crossed \subseteq crossed' BY <2>2
  <2> HIDE DEF t
  <2> QED BY <2>1, <2>2, <2>3, <2>4, <2>5, <2>6, <2>7, <2>8
<1>5. ASSUME NEW r \in Runs, MarkFailed(r) \/ Throw(r) \/ Crash(r) PROVE BookedInv'
  <2>1. /\ UNCHANGED <<txStatus, posted, paid, crossed>>
        /\ target' = [target EXCEPT ![r] = None]
    BY <1>5 DEF MarkFailed, Throw, Crash, NextAttempt
  <2>2. \A t \in Transactions : attempt[t] \in {"SUCCESS", "FAILED"} =>
                                  attempt'[t] \in {"SUCCESS", "FAILED"}
    BY <1>5 DEF MarkFailed, Throw, Crash, TypeOK
  <2>3. \A s \in Runs, t \in Transactions : target'[s] = t => target[s] = t
    BY <2>1, ReconciliationAssumption DEF TypeOK
  <2> QED BY <2>1, <2>2, <2>3
<1>6. ASSUME NEW r \in Runs, ExpireAttempts(r) PROVE BookedInv'
  BY <1>6 DEF ExpireAttempts
<1>7. ASSUME NEW r \in Runs,
             \/ Acquire(r) \/ Find(r) \/ ProviderConfirms(r) \/ ProviderDenies(r)
             \/ Unlock(r) \/ Abandon(r)
      PROVE  BookedInv'
  BY <1>7 DEF Acquire, Find, ProviderConfirms, ProviderDenies, Unlock, Abandon
<1>8. CASE LockExpires \/ UNCHANGED vars BY <1>8 DEF LockExpires, vars
<1> QED
  BY <1>1, <1>2, <1>3, <1>4, <1>5, <1>6, <1>7, <1>8 DEF Next, Reconcile

(* A payment is booked once, however many runs, crashes and webhooks have  *)
(* met it, unless one of them settled it while a run verified it: it is    *)
(* the early return and not the lock that makes it so.                     *)
THEOREM NothingIsBookedTwice == Spec => []BookedOnce
<1>1. Init => TargetInv /\ BookedInv
  <2> SUFFICES ASSUME Init PROVE TargetInv /\ BookedInv OBVIOUS
  <2>1. \A r \in Runs : pc[r] = "idle" /\ target[r] = None BY DEF Init
  <2>2. \A t \in Transactions : posted[t] = 0 /\ txStatus[t] = "PROCESSING" BY DEF Init
  <2>3. \A t \in Transactions : t # None BY ReconciliationAssumption
  <2>5. TargetInv BY <2>1 DEF TargetInv
  <2>6. BookedInv
    <3> SUFFICES ASSUME NEW t \in Transactions
                 PROVE  /\ ~(posted[t] > 0)
                        /\ posted[t] = 0 /\ txStatus[t] = "PROCESSING"
                        /\ \A r \in Runs : target[r] # t
      BY DEF BookedInv
    <3>1. \A r \in Runs : target[r] # t BY <2>1, <2>3
    <3> QED BY <2>2, <3>1
  <2> QED BY <2>5, <2>6
<1>2. TypeOK /\ TargetInv /\ BookedInv /\ [Next]_vars => (TargetInv /\ BookedInv)'
  BY NextTarget, NextBooked
<1>3. BookedInv => BookedOnce BY DEF BookedInv, BookedOnce
<1> QED BY <1>1, <1>2, <1>3, ReconciliationTypeCorrect, PTL DEF Spec
=============================================================================

---------------------------- MODULE InvoiceProofs ----------------------------
(***************************************************************************)
(* Theorems about invoices.  Billing: their numbers and lifecycle, for any *)
(* number of concurrent creations.  Gst and Settings: the rounding bounds  *)
(* for every rate and amount and for invoices of any length, and the age   *)
(* of the settings for every time to live, timeout and number of renewals. *)
(***************************************************************************)
EXTENDS Billing, Settings, FiniteSetTheorems, TLAPS

-----------------------------------------------------------------------------
(* Numbers                                                                 *)


(* What a count has seen exists and is closed under what those have seen.  *)
SeenInv ==
  \A i \in Invoices :
    /\ i \in Created => pc[i] = "done"
    /\ seen[i] \subseteq Created /\ i \notin seen[i]
    /\ \A j \in seen[i] : seen[j] \subseteq seen[i]

(* A clerk at work has found an invoice.                                   *)
SubjectInv == \A k \in Clerks : call[k] # "idle" => subject[k] \in Created

IInv == TypeOK /\ SeenInv /\ SubjectInv

LEMMA InitIInv == Init => IInv
BY BillingAssumption DEF Init, IInv, TypeOK, SeenInv, SubjectInv, Created

LEMMA StepIInv ==
  ASSUME IInv, [Next]_vars
  PROVE  IInv'
<1> USE DEF IInv
<1>1. ASSUME NEW i \in Invoices, ReadMonth(i) PROVE IInv'
  BY <1>1 DEF ReadMonth, TypeOK, SeenInv, SubjectInv, Created
<1>2. ASSUME NEW i \in Invoices, CountInvoices(i) PROVE IInv'
  <2>1. TypeOK' BY <1>2 DEF CountInvoices, TypeOK, Created
  <2>2. Created' = Created BY <1>2 DEF CountInvoices, Created
  <2>3. i \notin Created BY <1>2 DEF CountInvoices, SeenInv
  <2>4. SeenInv'
    <3>1. /\ seen'[i] = Created /\ pc'[i] = "inserting"
          /\ \A j \in Invoices \ {i} : seen'[j] = seen[j] /\ pc'[j] = pc[j]
      BY <1>2 DEF CountInvoices, TypeOK
    <3>2. \A j \in Created : j \in Invoices \ {i} /\ seen[j] \subseteq Created
      BY <2>3 DEF SeenInv, Created
    <3>3. \A j \in Invoices : seen[j] \subseteq Created BY DEF SeenInv
    <3> QED BY <2>2, <2>3, <3>1, <3>2, <3>3 DEF SeenInv
  <2>5. SubjectInv' BY <1>2, <2>2 DEF CountInvoices, SubjectInv
  <2> QED BY <2>1, <2>2, <2>4, <2>5
<1>3. ASSUME NEW i \in Invoices, Insert(i) PROVE IInv'
  BY <1>3 DEF Insert, TypeOK, SeenInv, SubjectInv, Created
<1>4. ASSUME NEW i \in Invoices, CreateFails(i) PROVE IInv'
  BY <1>4 DEF CreateFails, TypeOK, SeenInv, SubjectInv, Created
<1>5. ASSUME NEW k \in Clerks, NEW i \in Invoices, CheckIssue(k, i) \/ CheckVoid(k, i)
      PROVE  IInv'
  BY <1>5 DEF CheckIssue, CheckVoid, Begin, TypeOK, SeenInv, SubjectInv, Created
<1>6. ASSUME NEW k \in Clerks, UpdateStatus(k) PROVE IInv'
  <2>1. subject[k] \in Invoices /\ status[subject[k]] # "NONE"
    BY <1>6 DEF UpdateStatus, SubjectInv, Created
  <2>2. /\ \A i \in Invoices : status'[i] = "NONE" <=> status[i] = "NONE"
        /\ status' \in [Invoices -> {"NONE", "DRAFT", "ISSUED", "VOID"}]
    BY <1>6, <2>1 DEF UpdateStatus, TypeOK
  <2>3. Created' = Created BY <2>2 DEF Created
  <2>4. TypeOK' BY <1>6, <2>2 DEF UpdateStatus, TypeOK
  <2>5. SeenInv' BY <1>6, <2>3 DEF UpdateStatus, SeenInv
  <2>6. SubjectInv' BY <1>6, <2>3 DEF UpdateStatus, SubjectInv, TypeOK
  <2> QED BY <2>3, <2>4, <2>5, <2>6
<1>7. ASSUME NEW k \in Clerks, GiveUp(k) PROVE IInv'
  BY <1>7 DEF GiveUp, TypeOK, SeenInv, SubjectInv, Created
<1>8. CASE NextMonth
  BY <1>8, BillingAssumption DEF NextMonth, TypeOK, SeenInv, SubjectInv, Created
<1>9. CASE UNCHANGED vars BY <1>9 DEF vars, TypeOK, SeenInv, SubjectInv, Created
<1> QED BY <1>1, <1>2, <1>3, <1>4, <1>5, <1>6, <1>7, <1>8, <1>9
        DEF Next, CreateInvoice, Manage

(* What a creation has counted, and what a clerk is at work on, exists.    *)
THEOREM Invariant == Spec => []IInv
<1>1. IInv /\ [Next]_vars => IInv' BY StepIInv
<1> QED BY InitIInv, <1>1, PTL DEF Spec

-----------------------------------------------------------------------------
LEMMA CreatedFinite == ASSUME NEW S \in SUBSET Invoices
                       PROVE  IsFiniteSet(S) /\ Cardinality(S) \in Nat
BY BillingAssumption, FS_Subset, FS_CardinalityType

(* A proper part of a finite set is smaller.                               *)
LEMMA ProperPart ==
  ASSUME NEW S \in SUBSET Invoices, NEW T \in SUBSET S, NEW x \in S, x \notin T
  PROVE  Cardinality(T) + 1 <= Cardinality(S)
<1>1. IsFiniteSet(S) /\ Cardinality(S) \in Nat BY CreatedFinite
<1>2. Cardinality(T) \in Nat BY CreatedFinite
<1>3. Cardinality(T) <= Cardinality(S) /\ Cardinality(S) # Cardinality(T)
  BY <1>1, FS_Subset
<1> QED BY <1>1, <1>2, <1>3

(* Invoices are numbered in the order in which they come to exist, over    *)
(* month boundaries too.                                                   *)
THEOREM NumbersInOrder == Spec => []NumbersFollowTime
<1>1. IInv => NumbersFollowTime
  <2> SUFFICES ASSUME IInv, NEW i \in Created, NEW j \in seen[i]
               PROVE  Serial(j) < Serial(i)
    BY DEF NumbersFollowTime
  <2>1. i \in Invoices /\ seen[i] \in SUBSET Invoices /\ j \in Invoices
    BY DEF IInv, TypeOK, Created
  <2>2. seen[j] \in SUBSET seen[i] /\ j \notin seen[j] BY <2>1 DEF IInv, SeenInv
  <2>3. Cardinality(seen[j]) + 1 <= Cardinality(seen[i]) BY <2>1, <2>2, ProperPart
  <2>4. Cardinality(seen[j]) \in Nat /\ Cardinality(seen[i]) \in Nat
    BY <2>1, <2>2, CreatedFinite
  <2> QED BY <2>3, <2>4 DEF Serial
<1> QED BY <1>1, Invariant, PTL

LEMMA SerialBound == ASSUME IInv, NEW i \in Created
                     PROVE  Serial(i) \in 1..Cardinality(Created)
<1>1. Created \in SUBSET Invoices /\ i \in Invoices BY DEF Created
<1>2. seen[i] \in SUBSET Created /\ i \notin seen[i] BY <1>1 DEF IInv, SeenInv
<1>3. Cardinality(seen[i]) + 1 <= Cardinality(Created) BY <1>1, <1>2, ProperPart
<1>4. Cardinality(seen[i]) \in Nat /\ Cardinality(Created) \in Nat
  BY <1>1, <1>2, CreatedFinite
<1> QED BY <1>3, <1>4 DEF Serial

(* The number after the count is free: the creation of invoices never      *)
(* jams on its unique index.                                               *)
THEOREM NumberingNeverJams == Spec => []NextNumberIsFree
<1>1. IInv => NextNumberIsFree
  <2> SUFFICES ASSUME IInv, NEW i \in Created PROVE Serial(i) <= Cardinality(Created)
    BY DEF NextNumberIsFree
  <2>1. Created \in SUBSET Invoices BY DEF Created
  <2>2. Cardinality(Created) \in Nat BY <2>1, CreatedFinite
  <2> QED BY <2>2, SerialBound
<1> QED BY <1>1, Invariant, PTL

-----------------------------------------------------------------------------
LEMMA IntervalGrows == ASSUME NEW n \in Nat PROVE (1..n) \cup {n + 1} = 1..(n + 1)
OBVIOUS

(* The month of an invoice stays, so all were of one month before.         *)
LEMMA OneMonthBefore ==
  ASSUME IInv, [Next]_vars, OneMonth'
  PROVE  OneMonth /\ \A i \in Invoices : Insert(i) =>
                       \A j \in Created : prefix[j] = prefix[i]
<1>1. Created \subseteq Created' /\ \A i \in Created : prefix'[i] = prefix[i]
  <2>1. ASSUME NEW i \in Invoices, ReadMonth(i)
        PROVE  Created' = Created /\ \A j \in Created : prefix'[j] = prefix[j]
    BY <2>1 DEF ReadMonth, IInv, TypeOK, SeenInv, Created
  <2>2. ASSUME NEW i \in Invoices, Insert(i)
        PROVE  Created \subseteq Created' /\ UNCHANGED prefix
    BY <2>2 DEF Insert, IInv, TypeOK, Created
  <2>3. ASSUME NEW i \in Invoices, CountInvoices(i) \/ CreateFails(i)
        PROVE  UNCHANGED <<status, prefix>>
    BY <2>3 DEF CountInvoices, CreateFails
  <2>4. ASSUME NEW k \in Clerks, Manage(k)
        PROVE  Created \subseteq Created' /\ UNCHANGED prefix
    BY <2>4 DEF Manage, CheckIssue, CheckVoid, Begin, UpdateStatus, GiveUp, IInv, TypeOK, Created
  <2>5. CASE NextMonth \/ UNCHANGED vars BY <2>5 DEF NextMonth, vars, Created
  <2> QED BY <2>1, <2>2, <2>3, <2>4, <2>5 DEF Next, CreateInvoice, Created
<1>2. ASSUME NEW i \in Invoices, Insert(i) PROVE i \in Created' /\ UNCHANGED prefix
  BY <1>2 DEF Insert, IInv, TypeOK, Created
<1> QED BY <1>1, <1>2 DEF OneMonth

(* Within one month.  Insert adds the one serial that is neither taken nor *)
(* above the count plus one.                                               *)
LEMMA StepSequential ==
  ASSUME OneMonth', IInv, IInv', SerialsAreSequential, [Next]_vars
  PROVE  SerialsAreSequential'
<1> DEFINE n == Cardinality(Created)
<1>1. Created \in SUBSET Invoices BY DEF Created
<1>2. IsFiniteSet(Created) /\ n \in Nat BY <1>1, CreatedFinite
<1>3. ASSUME Created' = Created, \A j \in Created : seen'[j] = seen[j]
      PROVE  SerialsAreSequential'
  <2>1. \A j \in Created : Serial(j)' = Serial(j) BY <1>3 DEF Serial
  <2>2. Cardinality(Created)' = n BY <1>3
  <2> QED BY <1>3, <2>1, <2>2 DEF SerialsAreSequential
<1>4. ASSUME NEW i \in Invoices, Insert(i) PROVE SerialsAreSequential'
  <2>1. i \notin Created BY <1>4 DEF Insert, IInv, SeenInv
  <2>2. Created' = Created \cup {i} BY <1>4 DEF Insert, IInv, TypeOK, Created
  <2>3. \A j \in Invoices : Serial(j)' = Serial(j) BY <1>4 DEF Insert, Serial
  <2>4. Cardinality(Created') = n + 1 BY <1>2, <2>1, <2>2, FS_AddElement
  <2>5. \A j \in Created : Serial(j) # Serial(i)
    <3>1. \A j \in Created : prefix[j] = prefix[i] BY <1>4, OneMonthBefore
    <3> QED BY <3>1, <1>1, <1>4 DEF Insert, NumberTaken
  <2>6. Serial(i) \in 1..(n + 1)
    <3>1. seen[i] \in SUBSET Created /\ seen[i] \in SUBSET Invoices
      BY <1>1 DEF IInv, SeenInv
    <3>2. Cardinality(seen[i]) \in Nat /\ Cardinality(seen[i]) <= n
      BY <1>2, <3>1, CreatedFinite, FS_Subset
    <3> QED BY <1>2, <3>2 DEF Serial
  <2>7. {Serial(j) : j \in Created} = 1..n BY DEF SerialsAreSequential
  <2>8. Serial(i) = n + 1 BY <1>2, <2>5, <2>6, <2>7
  <2>9. {Serial(j) : j \in Created'} = 1..(n + 1)
    <3>1. {Serial(j) : j \in Created'} = {Serial(j) : j \in Created} \cup {n + 1}
      BY <2>2, <2>8
    <3> QED BY <3>1, <2>7, <1>2, IntervalGrows
  <2>10. \A j, k \in Created' : Serial(j) = Serial(k) => j = k
    BY <2>2, <2>5 DEF SerialsAreSequential
  <2>11. Created' \subseteq Invoices BY <1>1, <2>2
  <2> QED BY <2>3, <2>4, <2>9, <2>10, <2>11 DEF SerialsAreSequential
<1>5. CASE \E i \in Invoices : ReadMonth(i) \/ CountInvoices(i) \/ CreateFails(i)
  <2>1. PICK i \in Invoices : ReadMonth(i) \/ CountInvoices(i) \/ CreateFails(i) BY <1>5
  <2>2. Created' = Created BY <2>1 DEF ReadMonth, CountInvoices, CreateFails, Created
  <2>3. CASE CountInvoices(i)
    <3>1. i \notin Created BY <2>3 DEF CountInvoices, IInv, SeenInv
    <3> QED BY <1>1, <1>3, <2>2, <2>3, <3>1 DEF CountInvoices, IInv, TypeOK
  <2> QED BY <1>3, <2>1, <2>2, <2>3 DEF ReadMonth, CreateFails
<1>6. CASE \E k \in Clerks : Manage(k)
  <2>1. PICK k \in Clerks : Manage(k) BY <1>6
  <2>2. seen' = seen BY <2>1 DEF Manage, CheckIssue, CheckVoid, Begin, UpdateStatus, GiveUp
  <2>3. Created' = Created
    <3>1. CASE UpdateStatus(k)
      <4>1. subject[k] \in Invoices /\ status[subject[k]] # "NONE"
        BY <3>1 DEF UpdateStatus, IInv, SubjectInv, Created
      <4> QED BY <3>1, <4>1 DEF UpdateStatus, IInv, TypeOK, Created
    <3> QED BY <2>1, <3>1 DEF Manage, CheckIssue, CheckVoid, Begin, GiveUp, Created
  <2> QED BY <1>3, <2>2, <2>3
<1>7. CASE NextMonth \/ UNCHANGED vars
  BY <1>3, <1>7 DEF NextMonth, vars, Created
<1> QED BY <1>4, <1>5, <1>6, <1>7 DEF Next, CreateInvoice

(* As long as all invoices of a tenant are of one month they are numbered  *)
(* 1, 2, 3 ... without a gap, whatever races and rolls back.               *)
THEOREM SequentialWithinAMonth == Spec => []SequentialInAMonth
<1>1. Init => SequentialInAMonth
  <2> SUFFICES ASSUME Init PROVE SerialsAreSequential BY DEF SequentialInAMonth
  <2>1. Created = {} BY DEF Init, Created
  <2>2. Cardinality(Created) = 0 BY <2>1, FS_EmptySet
  <2>3. {Serial(i) : i \in Created} = 1..0 BY <2>1
  <2> QED BY <2>1, <2>2, <2>3 DEF SerialsAreSequential
<1>2. IInv /\ IInv' /\ SequentialInAMonth /\ [Next]_vars => SequentialInAMonth'
  BY StepSequential, OneMonthBefore DEF SequentialInAMonth
<1> QED BY <1>1, <1>2, Invariant, PTL DEF Spec

-----------------------------------------------------------------------------
(* On an invoice that no two clerks have been at work on at once, what an  *)
(* issuing clerk has checked still holds when he writes.                   *)
Alone(k) == subject[k] \notin crossed

CheckInv ==
  \A k \in Clerks : call[k] # "idle" /\ Alone(k) =>
    /\ call[k] = "issuing" => status[subject[k]] = "DRAFT"
    /\ \A l \in Clerks : subject[l] = subject[k] => l = k

(* A clerk is idle exactly when he has no subject.                         *)
SubjectsAreBusy == \A k \in Clerks : call[k] = "idle" => subject[k] = None

VInv == IInv /\ SubjectsAreBusy /\ CheckInv

StaysVoid == \A i \in Invoices \ crossed : status[i] = "VOID" => status'[i] = "VOID"

LEMMA StepCheckInv ==
  ASSUME VInv, [Next]_vars
  PROVE  SubjectsAreBusy' /\ CheckInv' /\ StaysVoid
<1> DEFINE Goal == SubjectsAreBusy' /\ CheckInv' /\ StaysVoid
<1> USE DEF VInv
<1>0. \A k \in Clerks : call[k] # "idle" => subject[k] \in Invoices
  BY DEF IInv, SubjectInv, Created
<1>1. ASSUME NEW i \in Invoices, Insert(i) PROVE Goal
  <2>1. status[i] = "NONE" BY <1>1 DEF Insert, IInv, SeenInv, Created
  <2>2. \A k \in Clerks : call[k] # "idle" => subject[k] # i
    BY <2>1 DEF IInv, SubjectInv, Created
  <2>3. \A j \in Invoices \ {i} : status'[j] = status[j]
    BY <1>1 DEF Insert, IInv, TypeOK
  <2>4. UNCHANGED <<call, subject, crossed>> BY <1>1 DEF Insert
  <2>5. StaysVoid BY <2>1, <2>3 DEF StaysVoid
  <2>6. CheckInv' BY <1>0, <2>2, <2>3, <2>4 DEF CheckInv, Alone
  <2>7. SubjectsAreBusy' BY <2>4 DEF SubjectsAreBusy
  <2> QED BY <2>5, <2>6, <2>7
<1>2. ASSUME NEW k \in Clerks, UpdateStatus(k) PROVE Goal
  <2>1. subject[k] \in Invoices /\ call[k] # "idle" BY <1>0, <1>2 DEF UpdateStatus
  <2>2. /\ call'[k] = "idle" /\ subject'[k] = None /\ crossed' = crossed
        /\ \A l \in Clerks \ {k} : call'[l] = call[l] /\ subject'[l] = subject[l]
    BY <1>2 DEF UpdateStatus, IInv, TypeOK
  <2>3. \A j \in Invoices \ {subject[k]} : status'[j] = status[j]
    BY <1>2 DEF UpdateStatus, IInv, TypeOK
  <2>4. Alone(k) => status'[subject[k]] = "VOID" \/ status[subject[k]] = "DRAFT"
    <3>1. CASE call[k] = "issuing" BY <3>1, <2>1 DEF CheckInv
    <3>2. CASE call[k] = "voiding"
      BY <3>2, <1>2, <2>1 DEF UpdateStatus, IInv, TypeOK
    <3> QED BY <1>2, <3>1, <3>2 DEF UpdateStatus
  <2>5. StaysVoid BY <2>1, <2>3, <2>4 DEF StaysVoid, Alone
  <2>6. ASSUME NEW l \in Clerks, call'[l] # "idle", Alone(l)'
        PROVE  /\ call'[l] = "issuing" => status'[subject'[l]] = "DRAFT"
               /\ \A m \in Clerks : subject'[m] = subject'[l] => m = l
    <3>1. l # k /\ call[l] # "idle" /\ Alone(l) BY <2>2, <2>6 DEF Alone
    <3>2. /\ subject[l] \in Invoices
          /\ \A m \in Clerks : subject[m] = subject[l] => m = l
          /\ call[l] = "issuing" => status[subject[l]] = "DRAFT"
      BY <1>0, <3>1 DEF CheckInv
    <3>3. subject[l] # subject[k] /\ subject[l] # None
      BY <3>1, <3>2, BillingAssumption
    <3> QED BY <2>2, <2>3, <3>1, <3>2, <3>3
  <2>7. SubjectsAreBusy' BY <2>2 DEF SubjectsAreBusy
  <2> QED BY <2>5, <2>6, <2>7 DEF CheckInv
<1>3. ASSUME NEW k \in Clerks, NEW i \in Invoices, CheckIssue(k, i) \/ CheckVoid(k, i)
      PROVE  Goal
  <2>1. /\ call[k] = "idle" /\ call'[k] \in {"issuing", "voiding"} /\ subject'[k] = i
        /\ \A l \in Clerks \ {k} : call'[l] = call[l] /\ subject'[l] = subject[l]
        /\ call'[k] = "issuing" => status[i] = "DRAFT"
        /\ status' = status
    BY <1>3 DEF CheckIssue, CheckVoid, Begin, IInv, TypeOK
  <2>2. /\ crossed \subseteq crossed'
        /\ \A l \in Clerks : subject[l] = i => i \in crossed'
    BY <1>3 DEF CheckIssue, CheckVoid, Begin
  <2>3. ASSUME NEW l \in Clerks, call'[l] # "idle", Alone(l)'
        PROVE  /\ call'[l] = "issuing" => status'[subject'[l]] = "DRAFT"
               /\ \A m \in Clerks : subject'[m] = subject'[l] => m = l
    <3>1. CASE l = k BY <2>1, <2>2, <2>3, <3>1 DEF Alone
    <3>2. CASE l # k
      <4>1. call[l] # "idle" /\ Alone(l) /\ subject[l] # i
        BY <2>1, <2>2, <2>3, <3>2 DEF Alone
      <4> QED BY <2>1, <3>2, <4>1 DEF CheckInv
    <3> QED BY <3>1, <3>2
  <2>4. SubjectsAreBusy' BY <2>1 DEF SubjectsAreBusy
  <2>5. StaysVoid BY <2>1 DEF StaysVoid
  <2> QED BY <2>3, <2>4, <2>5 DEF CheckInv
<1>4. ASSUME NEW k \in Clerks, GiveUp(k) PROVE Goal
  <2>1. /\ call'[k] = "idle" /\ subject'[k] = None /\ UNCHANGED <<crossed, status>>
        /\ \A l \in Clerks \ {k} : call'[l] = call[l] /\ subject'[l] = subject[l]
    BY <1>4 DEF GiveUp, IInv, TypeOK
  <2>2. ASSUME NEW l \in Clerks, call'[l] # "idle", Alone(l)'
        PROVE  /\ call'[l] = "issuing" => status'[subject'[l]] = "DRAFT"
               /\ \A m \in Clerks : subject'[m] = subject'[l] => m = l
    <3>1. l # k /\ call[l] # "idle" /\ Alone(l) BY <2>1, <2>2 DEF Alone
    <3>2. subject[l] # None BY <1>0, <3>1, BillingAssumption
    <3> QED BY <2>1, <3>1, <3>2 DEF CheckInv
  <2>3. SubjectsAreBusy' BY <2>1 DEF SubjectsAreBusy
  <2>4. StaysVoid BY <2>1 DEF StaysVoid
  <2> QED BY <2>2, <2>3, <2>4 DEF CheckInv
<1>5. CASE UNCHANGED <<status, call, subject, crossed>>
  BY <1>5 DEF CheckInv, Alone, SubjectsAreBusy, StaysVoid
<1>6. (\E i \in Invoices : ReadMonth(i) \/ CountInvoices(i) \/ CreateFails(i))
        \/ NextMonth \/ UNCHANGED vars
        => UNCHANGED <<status, call, subject, crossed>>
  BY DEF ReadMonth, CountInvoices, CreateFails, NextMonth, vars
<1> QED BY <1>1, <1>2, <1>3, <1>4, <1>5, <1>6 DEF Next, CreateInvoice, Manage

(* An invoice that no two clerks have been at work on at once stays void   *)
(* once it is, for any number of clerks, whatever is broken off.           *)
THEOREM VoidIsFinalInSequence == Spec => VoidIsFinalUncrossed
<1>1. Init => SubjectsAreBusy /\ CheckInv BY DEF Init, SubjectsAreBusy, CheckInv
<1>2. IInv /\ SubjectsAreBusy /\ CheckInv /\ [Next]_vars
        => /\ SubjectsAreBusy' /\ CheckInv'
           /\ [\A i \in Invoices \ crossed : status[i] = "VOID" => status'[i] = "VOID"]_status
  BY StepCheckInv DEF StaysVoid, VInv
<1> QED BY <1>1, <1>2, Invariant, PTL DEF Spec, VoidIsFinalUncrossed

-----------------------------------------------------------------------------
(* Rounding                                                                *)

(* Rounding half up moves a quotient by half a unit at most.               *)
LEMMA HalfUp ==
  ASSUME NEW x \in Nat
  PROVE  LET q == (x + 10000) \div 20000
         IN  q \in Nat /\ x - 10000 < 20000 * q /\ 20000 * q <= x + 10000
OBVIOUS

(* t, taken 20000 times, is within e of x.                                 *)
Near(t, x, e) == t \in Nat /\ x \in Nat /\ x - e <= 20000 * t /\ 20000 * t <= x + e

LEMMA NearDistance ==
  ASSUME NEW t, NEW x, Near(t, x, 10000)
  PROVE  2 * Abs(20000 * t - x) <= 20000
BY DEF Near, Abs

LEMMA TaxBounds ==
  ASSUME NEW amount \in Nat, NEW rate \in Nat
  PROVE  Near(CalculateTax(amount, rate), amount * rate, 10000)
<1> DEFINE x == amount * rate
<1>1. x \in Nat OBVIOUS
<1>2. CalculateTax(amount, rate) = (x + 10000) \div 20000 BY DEF CalculateTax
<1> HIDE DEF x
<1>3. Near(CalculateTax(amount, rate), x, 10000) BY <1>1, <1>2, HalfUp DEF Near
<1> QED BY <1>3 DEF x

LEMMA HalfRate ==
  ASSUME NEW rate \in Rates
  PROVE  rate \in Nat /\ rate \div 2 \in Nat /\ rate = 2 * (rate \div 2)
BY GstAssumption

(* Either kind of tax is within one unit of the exact one.                 *)
LEMMA TotalTaxBounds ==
  ASSUME NEW amount \in Nat, NEW type \in Types, NEW rate \in Rates
  PROVE  Near(TotalTax(amount, type, rate), amount * rate, 20000)
<1> DEFINE h == rate \div 2
           t == CalculateTax(amount, h)
           x == amount * h
<1>1. h \in Nat /\ rate \in Nat /\ rate = 2 * h BY HalfRate
<1> HIDE DEF h
<1>2. amount * rate = 2 * x BY <1>1
<1>3. CASE type = "inter"
  <2>1. TotalTax(amount, type, rate) = CalculateTax(amount, rate) BY <1>3 DEF TotalTax
  <2>2. Near(CalculateTax(amount, rate), amount * rate, 10000) BY <1>1, TaxBounds
  <2> DEFINE u == CalculateTax(amount, rate)
             y == amount * rate
  <2> HIDE DEF u, y
  <2>3. Near(u, y, 10000) BY <2>2 DEF u, y
  <2>4. Near(u, y, 20000) BY <2>3 DEF Near
  <2> QED BY <2>1, <2>4 DEF u, y
<1>4. CASE type # "inter"
  <2>1. TotalTax(amount, type, rate) = t + t BY <1>4 DEF TotalTax, h
  <2>2. Near(t, x, 10000) BY <1>1, TaxBounds
  <2> HIDE DEF t, x
  <2>3. Near(t + t, 2 * x, 20000) BY <2>2 DEF Near
  <2> QED BY <1>2, <2>1, <2>3
<1> QED BY <1>3, <1>4

LEMMA SplitBound ==
  ASSUME NEW a \in Nat, NEW rate \in Rates
  PROVE  Abs(TotalTax(a, "intra", rate) - TotalTax(a, "inter", rate)) <= 1
<1> DEFINE h == rate \div 2
           x == a * h
           t == CalculateTax(a, h)
           u == CalculateTax(a, rate)
           intra == TotalTax(a, "intra", rate)
           inter == TotalTax(a, "inter", rate)
<1>1. h \in Nat /\ rate \in Nat /\ rate = 2 * h BY HalfRate
<1>2. intra = t + t /\ inter = u BY DEF TotalTax
<1> HIDE DEF h, intra, inter
<1>3. a * rate = 2 * x BY <1>1
<1>4. Near(t, x, 10000) BY <1>1, TaxBounds
<1>5. Near(u, a * rate, 10000) BY <1>1, TaxBounds
<1> HIDE DEF t, u, x
<1>6. Near(u, 2 * x, 10000) BY <1>3, <1>5
<1>7. Abs(intra - inter) <= 1 BY <1>2, <1>4, <1>6 DEF Abs, Near
<1> QED BY <1>7 DEF intra, inter

-----------------------------------------------------------------------------
(* The settings                                                            *)

(* An answer under way is as old as its request at most, and the cache     *)
(* entry older than that by the time it has been kept.                     *)
AgeInv ==
  /\ SettingsTypeOK
  /\ age[Answer] = 0
  /\ left > 0 => age[cached] <= TTL - left + Timeout
  /\ \A c \in Calls : stage[c] = "answered" => age[got[c]] <= waited[c]

LEMMA AnswerIsConfig ==
  ASSUME iam \in RawConfigs PROVE Answer \in Configs
BY SettingsAssumption DEF Answer, Parsed, Configs, GST_DEFAULTS, Types

LEMMA DefaultIsConfig == GST_DEFAULTS \in Configs
BY SettingsAssumption DEF Configs, GST_DEFAULTS, Types

LEMMA OldIsNat == Old \in Nat /\ Old = TTL + Timeout + 1 /\ TTL \in Nat \ {0}
                  /\ Timeout \in Nat \ {0} /\ TTL \in 0..TTL
BY SettingsAssumption DEF Old

LEMMA InitAge == SettingsInit => AgeInv
<1> SUFFICES ASSUME SettingsInit PROVE AgeInv OBVIOUS
<1>1. Answer \in Configs BY AnswerIsConfig DEF SettingsInit
<1>2. age \in [Configs -> 0..Old] /\ age[Answer] = 0
  BY <1>1, OldIsNat DEF SettingsInit
<1>3. up \in BOOLEAN BY Zenon DEF SettingsInit
<1> QED
  BY <1>2, <1>3, OldIsNat, DefaultIsConfig DEF SettingsInit, AgeInv, SettingsTypeOK

LEMMA StepAge == ASSUME AgeInv, [SettingsNext]_allVars PROVE AgeInv'
<1> USE OldIsNat
<1>a. Answer \in Configs BY AnswerIsConfig DEF AgeInv, SettingsTypeOK
<1>1. CASE UNCHANGED settingsVars
  BY <1>1 DEF settingsVars, AgeInv, SettingsTypeOK, Answer, Parsed
<1>2. CASE IamChanges
  <2>0. iam' \in RawConfigs /\ up' \in BOOLEAN BY <1>2, Zenon DEF IamChanges
  <2>1. Answer' \in Configs
    BY <2>0, SettingsAssumption DEF Answer, Parsed, Configs, GST_DEFAULTS, Types
  <2>2. age' = [age EXCEPT ![Answer'] = 0] BY <1>2 DEF IamChanges
  <2>3. age' \in [Configs -> 0..Old] /\ age'[Answer'] = 0
        /\ \A g \in Configs : age'[g] <= age[g]
    BY <2>1, <2>2 DEF AgeInv, SettingsTypeOK
  <2> QED BY <1>2, <2>0, <2>3 DEF IamChanges, AgeInv, SettingsTypeOK
<1>3. CASE Tick
  <2>1. age' \in [Configs -> 0..Old]
    BY <1>3 DEF Tick, AgeInv, SettingsTypeOK
  <2>2. Answer' = Answer BY <1>3 DEF Tick, Answer, Parsed
  <2>3. age'[Answer] = 0 BY <1>a, <1>3 DEF Tick
  <2>4. \A g \in Configs : age'[g] <= age[g] + 1
    BY <1>3 DEF Tick, AgeInv, SettingsTypeOK
  <2>5. waited' \in [Calls -> 0..Timeout]
    BY <1>3 DEF Tick, AgeInv, SettingsTypeOK
  <2>6. left' \in 0..TTL /\ (left' > 0 => left > 0 /\ left' = left - 1)
    BY <1>3 DEF Tick, AgeInv, SettingsTypeOK
  <2>7. left' > 0 => age'[cached] <= TTL - left' + Timeout
    BY <2>1, <2>4, <2>6 DEF AgeInv, SettingsTypeOK
  <2>8. ASSUME NEW c \in Calls, stage[c] = "answered" PROVE age'[got[c]] <= waited'[c]
    <3>1. waited'[c] = waited[c] + 1 BY <1>3, <2>8 DEF Tick, Waiting
    <3> DEFINE g == got[c]
    <3>2. age[g] <= waited[c] /\ g \in Configs /\ waited[c] \in Nat /\ age[g] \in Nat
      BY <2>8 DEF AgeInv, SettingsTypeOK
    <3> HIDE DEF g
    <3>3. age'[g] <= age[g] + 1 /\ age'[g] \in Nat BY <2>1, <2>4, <3>2
    <3>4. age'[g] <= waited'[c] BY <3>1, <3>2, <3>3
    <3> QED BY <3>4 DEF g
  <2> QED
    BY <1>3, <2>1, <2>2, <2>3, <2>5, <2>6, <2>7, <2>8 DEF Tick, AgeInv, SettingsTypeOK
<1>4. CASE Restart
  BY <1>4, DefaultIsConfig DEF Restart, AgeInv, SettingsTypeOK, Answer, Parsed
<1>5. ASSUME NEW c \in Calls, Hit(c) PROVE AgeInv'
  BY <1>5 DEF Hit, Goto, AgeInv, SettingsTypeOK, Answer, Parsed
<1>6. ASSUME NEW c \in Calls, Ask(c) PROVE AgeInv'
  BY <1>6 DEF Ask, Goto, AgeInv, SettingsTypeOK, Answer, Parsed
<1>7. ASSUME NEW c \in Calls, Respond(c) PROVE AgeInv'
  <2>1. Answer' = Answer BY <1>7 DEF Respond, Answer, Parsed
  <2>2. got' = [got EXCEPT ![c] = Answer] /\ UNCHANGED <<iam, up, cached, left, waited, age>>
        /\ stage' = [stage EXCEPT ![c] = "answered"]
    BY <1>7 DEF Respond, Goto
  <2> HIDE DEF Answer
  <2> QED BY <1>a, <2>1, <2>2 DEF AgeInv, SettingsTypeOK
<1>8. ASSUME NEW c \in Calls, Store(c) PROVE AgeInv'
  <2>1. stage[c] = "answered" /\ age[got[c]] <= waited[c] /\ got[c] \in Configs
    BY <1>8 DEF Store, AgeInv, SettingsTypeOK
  <2>2. age[got[c]] <= Timeout BY <2>1 DEF AgeInv, SettingsTypeOK
  <2>3. Answer' = Answer BY <1>8 DEF Store, Answer, Parsed
  <2>4. cached' = got[c] /\ left' = TTL /\ stage' = [stage EXCEPT ![c] = "billing"]
        /\ waited' = [waited EXCEPT ![c] = 0] /\ UNCHANGED <<iam, up, got, age>>
    BY <1>8 DEF Store, Goto
  <2> HIDE DEF Answer
  <2> QED BY <2>1, <2>2, <2>3, <2>4 DEF AgeInv, SettingsTypeOK
<1>9. ASSUME NEW c \in Calls, Bill(c) PROVE AgeInv'
  BY <1>9, DefaultIsConfig DEF Bill, Goto, AgeInv, SettingsTypeOK, Answer, Parsed
<1> QED
  BY <1>1, <1>2, <1>3, <1>4, <1>5, <1>6, <1>7, <1>8, <1>9
  DEF SettingsNext, Work, allVars, settingsVars

(* What getGstConfig returns is not older than the time to live and one    *)
(* timeout together.                                                       *)
THEOREM SettingsAreRecent == SettingsSpec => ReturnsRecent
<1>1. ASSUME AgeInv, [SettingsNext]_allVars, NEW c \in Calls,
             stage[c] # "billing", stage'[c] = "billing"
      PROVE  got'[c] \in Recent'
  <2> USE OldIsNat
  <2>1. CASE UNCHANGED stage BY <1>1, <2>1
  <2>2. ASSUME NEW d \in Calls, Hit(d) PROVE got'[c] \in Recent'
    <3>1. d = c BY <1>1, <2>2 DEF Hit, Goto, AgeInv, SettingsTypeOK
    <3>2. got'[c] = cached /\ age' = age /\ left > 0
      BY <1>1, <2>2, <3>1 DEF Hit, AgeInv, SettingsTypeOK
    <3>3. cached \in Configs /\ age[cached] < Old BY <1>1, <3>2 DEF AgeInv, SettingsTypeOK
    <3> QED BY <3>2, <3>3 DEF Recent
  <2>3. ASSUME NEW d \in Calls, Store(d) PROVE got'[c] \in Recent'
    <3>1. d = c BY <1>1, <2>3 DEF Store, Goto, AgeInv, SettingsTypeOK
    <3>2. got'[c] = got[c] /\ age' = age /\ stage[c] = "answered" BY <2>3, <3>1 DEF Store
    <3>3. got[c] \in Configs /\ age[got[c]] < Old BY <1>1, <3>2 DEF AgeInv, SettingsTypeOK
    <3> QED BY <3>2, <3>3 DEF Recent
  <2>4. ASSUME NEW d \in Calls, Ask(d) \/ Respond(d) \/ Bill(d) PROVE FALSE
    BY <1>1, <2>4 DEF Ask, Respond, Bill, Goto, AgeInv, SettingsTypeOK
  <2>5. CASE Restart BY <1>1, <2>5 DEF Restart
  <2> QED
    BY <1>1, <2>1, <2>2, <2>3, <2>4, <2>5
    DEF SettingsNext, Work, allVars, settingsVars, IamChanges, Tick
<1>2. AgeInv /\ [SettingsNext]_allVars =>
        [\A c \in Calls : stage[c] # "billing" /\ stage'[c] = "billing" => got'[c] \in Recent']_allVars
  BY <1>1
<1> QED BY <1>2, InitAge, StepAge, PTL DEF SettingsSpec, ReturnsRecent

-----------------------------------------------------------------------------
(* The invoice                                                             *)

ItemRow == [amount : Nat, type : Types, rate : Rates]

(* The taxes of the items so far are, in 1/20000 units, within one unit    *)
(* for each item of the exact ones.                                        *)
InvoiceInv ==
  /\ items \in Seq(ItemRow)
  /\ Near(taxAmount, exact, 20000 * Len(items))

LEMMA ItemStep ==
  ASSUME InvoiceInv, NEW amount \in Nat, NEW type \in Types, NEW rate \in Rates,
         AddItem(amount, type, rate)
  PROVE  InvoiceInv'
<1> DEFINE t == TotalTax(amount, type, rate)
           y == amount * rate
           n == Len(items)
<1>1. items' \in Seq(ItemRow) /\ Len(items') = n + 1 /\ n \in Nat
  BY DEF AddItem, InvoiceInv, ItemRow, Item
<1>2. taxAmount' = taxAmount + t /\ exact' = exact + y BY DEF AddItem
<1>3. Near(t, y, 20000) BY TotalTaxBounds
<1>4. Near(taxAmount, exact, 20000 * n) BY DEF InvoiceInv
<1> HIDE DEF t, y, n
<1>5. Near(taxAmount + t, exact + y, 20000 * (n + 1)) BY <1>1, <1>3, <1>4 DEF Near
<1>6. Near(taxAmount', exact', 20000 * (n + 1)) BY <1>2, <1>5
<1> QED BY <1>1, <1>6 DEF InvoiceInv

LEMMA BillStep ==
  ASSUME AgeInv, InvoiceInv, NEW c \in Calls, Bill(c)
  PROVE  InvoiceInv'
<1> DEFINE g == got[c]
           t == TotalTax(PlanAmount, g.type, g.rate)
           y == PlanAmount * g.rate
<1>1. g.rate \in Rates /\ g.type \in Types BY DEF AgeInv, SettingsTypeOK, Configs
<1>2. PlanAmount \in Nat BY SettingsAssumption
<1>3. items' = <<Item(PlanAmount, g.type, g.rate)>> /\ taxAmount' = t /\ exact' = y
  BY DEF Bill
<1> HIDE DEF g
<1>4. items' \in Seq(ItemRow) /\ Len(items') = 1 BY <1>1, <1>2, <1>3 DEF ItemRow, Item
<1>5. Near(t, y, 20000) BY <1>1, <1>2, TotalTaxBounds
<1> HIDE DEF t, y
<1>6. Near(taxAmount', exact', 20000 * 1) BY <1>3, <1>5
<1> QED BY <1>4, <1>6 DEF InvoiceInv

(* The age of the settings and the drift of an invoice, item by item, are  *)
(* kept within their bounds by every step.                                 *)
THEOREM TaxInvariant == SettingsSpec => [](AgeInv /\ InvoiceInv)
<1>1. SettingsInit => InvoiceInv
  <2> SUFFICES ASSUME SettingsInit PROVE InvoiceInv OBVIOUS
  <2>1. items = <<>> /\ Len(items) = 0 /\ taxAmount = 0 /\ exact = 0
    BY DEF SettingsInit, GstInit
  <2> QED BY <2>1 DEF InvoiceInv, Near
<1>2. ASSUME AgeInv, InvoiceInv, [SettingsNext]_allVars PROVE InvoiceInv'
  <2>1. CASE UNCHANGED gstVars BY <1>2, <2>1 DEF gstVars, InvoiceInv, Near
  <2>2. CASE StartInvoice
    <3>1. items' = <<>> /\ Len(items') = 0 /\ taxAmount' = 0 /\ exact' = 0
      BY <2>2 DEF StartInvoice
    <3> QED BY <3>1 DEF InvoiceInv, Near
  <2>3. ASSUME NEW quantity \in Quantities, NEW unitAmount \in UnitAmounts,
               NEW type \in Types, NEW rate \in Rates,
               CallerItem(quantity, unitAmount, type, rate)
        PROVE  InvoiceInv'
    <3> DEFINE a == quantity * unitAmount
    <3>1. a \in Nat
      <4>1. quantity \in Nat /\ unitAmount \in Nat BY GstAssumption
      <4> QED BY <4>1
    <3>2. AddItem(a, type, rate) BY <2>3 DEF CallerItem
    <3> HIDE DEF a
    <3> QED BY <1>2, <3>1, <3>2, ItemStep
  <2>4. ASSUME NEW c \in Calls, Bill(c) PROVE InvoiceInv' BY <1>2, <2>4, BillStep
  <2>5. ASSUME NEW c \in Calls, Hit(c) \/ Ask(c) \/ Respond(c) \/ Store(c)
        PROVE  UNCHANGED gstVars
    BY <2>5 DEF Hit, Ask, Respond, Store
  <2>6. IamChanges \/ Tick \/ Restart => UNCHANGED gstVars BY DEF IamChanges, Tick, Restart
  <2> QED
    BY <1>2, <2>1, <2>2, <2>3, <2>4, <2>5, <2>6
    DEF SettingsNext, GstNext, Work, allVars
<1> QED BY <1>1, <1>2, InitAge, StepAge, PTL DEF SettingsSpec

LEMMA ItemTypes ==
  ASSUME InvoiceInv, NEW i \in DOMAIN items
  PROVE  items[i].amount \in Nat /\ items[i].rate \in Rates
<1>1. \A item \in ItemRow : item.amount \in Nat /\ item.rate \in Rates BY DEF ItemRow
<1>2. items[i] \in ItemRow BY DEF InvoiceInv
<1> QED BY <1>1, <1>2

(* Each tax is the nearest whole unit, at every rate.                      *)
THEOREM TaxesAreNearest == SettingsSpec => []TaxIsNearest
<1>1. InvoiceInv => TaxIsNearest
  <2> SUFFICES ASSUME InvoiceInv, NEW i \in DOMAIN items,
                      NEW rate \in {items[i].rate, items[i].rate \div 2}
               PROVE  2 * Abs(20000 * CalculateTax(items[i].amount, rate)
                              - items[i].amount * rate) <= 20000
    BY DEF TaxIsNearest
  <2> DEFINE a == items[i].amount
             x == a * rate
             t == CalculateTax(a, rate)
  <2>1. a \in Nat /\ items[i].rate \in Rates BY ItemTypes
  <2>2. rate \in Nat BY <2>1, HalfRate
  <2> HIDE DEF a
  <2>3. Near(t, x, 10000) BY <2>1, <2>2, TaxBounds
  <2> HIDE DEF x, t
  <2>4. 2 * Abs(20000 * t - x) <= 20000 BY <2>3, NearDistance
  <2> QED BY <2>4 DEF x, t, a
<1> QED BY <1>1, TaxInvariant, PTL

(* The two halves of an intra-state tax add up to the inter-state tax,     *)
(* give or take one unit.                                                  *)
THEOREM SplitsAreFair == SettingsSpec => []SplitIsFair
<1>1. InvoiceInv => SplitIsFair BY ItemTypes, SplitBound DEF SplitIsFair
<1> QED BY <1>1, TaxInvariant, PTL

(* An invoice of n items is off by at most n units, for every n.           *)
THEOREM DriftBounded == SettingsSpec => []DriftIsBounded
<1>1. InvoiceInv => DriftIsBounded
  <2> SUFFICES ASSUME InvoiceInv PROVE DriftIsBounded OBVIOUS
  <2> DEFINE n == Len(items)
  <2>1. n \in Nat /\ Near(taxAmount, exact, 20000 * n) BY DEF InvoiceInv
  <2> HIDE DEF n
  <2>2. Abs(20000 * taxAmount - exact) <= 20000 * n BY <2>1 DEF Abs, Near
  <2> QED BY <2>2 DEF DriftIsBounded, n
<1> QED BY <1>1, TaxInvariant, PTL
=============================================================================

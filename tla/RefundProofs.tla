---------------------------- MODULE RefundProofs ----------------------------
(***************************************************************************)
(* Theorems about Refund, for any number of calls, keys and any amounts.   *)
(***************************************************************************)
EXTENDS Refund, FiniteSetTheorems, TLAPS

(* A call creates its row once, after all its checks and before it pays.   *)
FreshInv ==
  /\ \A c \in paidOut : row[c] # "NONE"
  /\ \A c \in Calls :
       /\ pc[c] \in {"idle", "lookup", "status", "amount", "attempt", "create"} => row[c] = "NONE"
       /\ pc[c] \in {"asking", "answered", "committed", "failing"} => row[c] # "NONE"

(* An answer other than FAILED means that the provider has paid.           *)
PaidUnder(c) == \E d \in paidOut : key[d] = key[c] /\ amount[d] = amount[c]
AnswerInv ==
  \A c \in Calls : pc[c] = "answered" /\ answer[c] = "SUCCESS" => PaidUnder(c)

IInv == TypeOK /\ FreshInv /\ AnswerInv /\ SuccessIsPaidAndBooked

LEMMA InitIInv == Init => IInv
<1> SUFFICES ASSUME Init PROVE IInv OBVIOUS
<1>1. TypeOK
  <2>1. settled \in BOOLEAN BY DEF Init
  <2> QED BY <2>1 DEF Init, TypeOK
<1>2. FreshInv /\ AnswerInv /\ SuccessIsPaidAndBooked
  BY DEF Init, FreshInv, AnswerInv, SuccessIsPaidAndBooked
<1> QED BY <1>1, <1>2 DEF IInv

(* The checks write nothing but the call's own place.                      *)
Checks(c) ==
  \/ Receive(c) \/ FindExisting(c) \/ CheckStatus(c) \/ CheckAmount(c)
  \/ FindSuccessAttempt(c) \/ Rollback(c) \/ Finish(c)

LEMMA ChecksFrame ==
  ASSUME TypeOK, NEW c \in Calls, Checks(c)
  PROVE  /\ UNCHANGED <<key, amount, provider, answer, txStatus, settled, row, posted, paidOut>>
         /\ overlapped' \in BOOLEAN
         /\ pc' \in [Calls -> {"idle", "lookup", "status", "amount", "attempt", "create",
                               "asking", "answered", "committed", "failing",
                               "replayed", "returned", "thrown"}]
         /\ \A d \in Calls \ {c} : pc'[d] = pc[d]
         /\ pc'[c] # "answered"
         /\ pc'[c] \in {"lookup", "status", "amount", "attempt", "create"} =>
              pc[c] \in {"idle", "lookup", "status", "amount", "attempt"}
         /\ pc'[c] # "idle" /\ pc'[c] # "asking"
         /\ pc'[c] \in {"committed", "failing"} => pc[c] \in {"answered", "committed"}
<1> USE DEF Goto, TypeOK, dbVars, input
<1>1. CASE Receive(c) BY <1>1 DEF Receive
<1>2. CASE FindExisting(c) BY <1>2 DEF FindExisting
<1>3. CASE CheckStatus(c) BY <1>3 DEF CheckStatus
<1>4. CASE CheckAmount(c) BY <1>4 DEF CheckAmount
<1>5. CASE FindSuccessAttempt(c) BY <1>5 DEF FindSuccessAttempt
<1>6. CASE Rollback(c) \/ Finish(c) BY <1>6 DEF Rollback, Finish
<1> QED BY <1>1, <1>2, <1>3, <1>4, <1>5, <1>6 DEF Checks

(* The payment side and the stuttering steps leave the refunds alone.      *)
LEMMA PaymentFrame ==
  ASSUME TypeOK, PaymentOverwrites \/ AttemptWithdrawn \/ UNCHANGED vars
  PROVE  /\ UNCHANGED <<pc, key, amount, provider, answer, row, posted, paidOut, overlapped>>
         /\ TypeOK'
<1>1. CASE PaymentOverwrites BY <1>1 DEF PaymentOverwrites, TypeOK, callVars, input
<1>2. CASE AttemptWithdrawn BY <1>2 DEF AttemptWithdrawn, TypeOK, callVars, input
<1>3. CASE UNCHANGED vars BY <1>3 DEF vars, TypeOK, callVars, dbVars, input
<1> QED BY <1>1, <1>2, <1>3

(* Provider calls and crashes only add to what has been paid.              *)
LEMMA PaidOutGrows ==
  ASSUME IInv, [Next]_vars
  PROVE  paidOut \subseteq paidOut' /\ key' = key /\ amount' = amount
<1> USE DEF input
<1>1. ASSUME NEW c \in Calls, CreateRefund(c)
      PROVE  paidOut \subseteq paidOut' /\ key' = key /\ amount' = amount
  <2>1. CASE Checks(c) BY <2>1, ChecksFrame DEF IInv
  <2>2. CASE CreateRow(c) BY <2>2 DEF CreateRow
  <2>3. CASE ProviderAnswers(c) BY <2>3 DEF ProviderAnswers
  <2>4. CASE ProviderThrows(c) BY <2>4 DEF ProviderThrows
  <2>5. CASE Commit(c) BY <2>5 DEF Commit
  <2>6. CASE MarkFailed(c) BY <2>6 DEF MarkFailed
  <2>7. CASE Crash(c) BY <2>7 DEF Crash
  <2> QED BY <1>1, <2>1, <2>2, <2>3, <2>4, <2>5, <2>6, <2>7 DEF CreateRefund, Checks
<1>2. CASE PaymentOverwrites \/ AttemptWithdrawn \/ UNCHANGED vars
  BY <1>2, PaymentFrame DEF IInv
<1> QED BY <1>1, <1>2 DEF Next

LEMMA StepIInv ==
  ASSUME IInv, [Next]_vars
  PROVE  IInv'
<1> USE DEF IInv
<1>1. \A c \in Calls : PaidUnder(c) => PaidUnder(c)'
  BY PaidOutGrows DEF PaidUnder
<1>2. ASSUME NEW c \in Calls, CreateRefund(c) PROVE IInv'
  <2> USE DEF TypeOK, FreshInv, AnswerInv, SuccessIsPaidAndBooked, PaidUnder
  <2>1. CASE Checks(c)
    <3>1. TypeOK' BY <2>1, ChecksFrame
    <3> QED BY <3>1, <2>1, ChecksFrame
  <2>2. CASE CreateRow(c) BY <2>2 DEF CreateRow, Goto, RefundStatus, input
  <2>3. CASE ProviderAnswers(c)
    <3>1. PICK s \in Answers :
            /\ answer' = [answer EXCEPT ![c] = s]
            /\ paidOut' = IF Repeats(c) \/ s = "FAILED" THEN paidOut ELSE paidOut \cup {c}
      BY <2>3 DEF ProviderAnswers
    <3>8. Repeats(c) => PaidUnder(c) BY <2>3 DEF ProviderAnswers, Repeats, Refuses
    <3>2. pc' = [pc EXCEPT ![c] = "answered"]
          /\ UNCHANGED <<key, amount, provider, txStatus, settled, row, posted, overlapped>>
      BY <2>3 DEF ProviderAnswers, Goto, dbVars, input
    <3>3. TypeOK' BY <3>1, <3>2
    <3>4. s = "SUCCESS" => PaidUnder(c)' BY <1>1, <3>1, <3>2, <3>8
    <3>5. AnswerInv' BY <1>1, <3>1, <3>2, <3>4
    <3>6. FreshInv' BY <2>3, <3>2 DEF ProviderAnswers
    <3>7. SuccessIsPaidAndBooked' BY <1>1, <3>2
    <3> QED BY <3>3, <3>5, <3>6, <3>7
  <2>4. CASE ProviderThrows(c)
    <3>1. /\ pc' = [pc EXCEPT ![c] = "failing"] /\ paidOut' \subseteq Calls
          /\ UNCHANGED <<key, amount, provider, answer, txStatus, settled, row, posted, overlapped>>
      BY <2>4 DEF ProviderThrows, Goto, dbVars, input
    <3>2. TypeOK' BY <3>1
    <3> QED BY <1>1, <2>4, <3>1, <3>2 DEF ProviderThrows
  <2>5. CASE Commit(c)
    <3>1. pc[c] = "answered" /\ (answer[c] = "SUCCESS" => PaidUnder(c))
      BY <2>5 DEF Commit
    <3>2. TypeOK' BY <2>5 DEF Commit, Goto, RefundStatus, input
    <3>3. FreshInv' /\ AnswerInv' BY <2>5 DEF Commit, Goto, input
    <3>4. SuccessIsPaidAndBooked' BY <2>5, <3>1 DEF Commit, Goto, input
    <3> QED BY <3>2, <3>3, <3>4
  <2>6. CASE MarkFailed(c) BY <2>6 DEF MarkFailed, Goto, RefundStatus, input
  <2>7. CASE Crash(c)
    <3>1. /\ pc' = [pc EXCEPT ![c] = "thrown"] /\ paidOut' \subseteq Calls
          /\ UNCHANGED <<key, amount, provider, answer, txStatus, settled, row, posted, overlapped>>
      BY <2>7 DEF Crash, Goto, dbVars, input
    <3>2. TypeOK' BY <3>1
    <3>6. \A d \in paidOut' : d \in paidOut \/ (d = c /\ pc[c] = "asking")
      BY <2>7 DEF Crash
    <3>3. FreshInv' BY <3>1, <3>6
    <3>4. AnswerInv' BY <1>1, <3>1
    <3>5. SuccessIsPaidAndBooked' BY <1>1, <3>1
    <3> QED BY <3>2, <3>3, <3>4, <3>5
  <2> QED BY <1>2, <2>1, <2>2, <2>3, <2>4, <2>5, <2>6, <2>7 DEF CreateRefund, Checks
<1>3. CASE PaymentOverwrites \/ AttemptWithdrawn \/ UNCHANGED vars
  BY <1>3, PaymentFrame DEF FreshInv, AnswerInv, SuccessIsPaidAndBooked, PaidUnder
<1> QED BY <1>2, <1>3 DEF Next

(* A row is as far as its call, and an answer of SUCCESS is a payout.      *)
THEOREM Invariant == Spec => []IInv
BY InitIInv, StepIInv, PTL DEF Spec

(* Every variable keeps its type.                                          *)
THEOREM RefundTypeCorrect == Spec => []TypeOK
<1>1. IInv => TypeOK BY DEF IInv
<1> QED BY <1>1, Invariant, PTL

(* A refund is SUCCESS only when the provider has paid and the ledger      *)
(* shows it, wherever the calls race, fail or crash.                       *)
THEOREM NoHollowRefund == Spec => []SuccessIsPaidAndBooked
<1>1. IInv => SuccessIsPaidAndBooked BY DEF IInv
<1> QED BY <1>1, Invariant, PTL

-----------------------------------------------------------------------------
(* Idempotency                                                             *)

(* Calls that wait for each other: one is in flight, and it goes past the  *)
(* lookup only while its key has no row.                                   *)
SerialInv ==
  /\ \A c, d \in InFlight : c = d
  /\ \A c \in Calls : pc[c] \in {"status", "amount", "attempt", "create"} =>
       RowsOf(key[c]) = {}
  /\ OneRowPerKey

LEMMA OverlapStays ==
  ASSUME IInv, [Next]_vars, ~overlapped'
  PROVE  ~overlapped
<1>1. ASSUME NEW c \in Calls, CreateRefund(c) PROVE ~overlapped
  BY <1>1 DEF CreateRefund, Receive, FindExisting, CheckStatus, CheckAmount,
     FindSuccessAttempt, CreateRow, ProviderAnswers, ProviderThrows, Commit, Rollback,
     Finish, MarkFailed, Crash
<1>2. ASSUME PaymentOverwrites \/ AttemptWithdrawn \/ UNCHANGED vars PROVE ~overlapped
  BY <1>2, PaymentFrame DEF IInv
<1> QED BY <1>1, <1>2 DEF Next

LEMMA SerialStep ==
  ASSUME IInv, ~overlapped => SerialInv, [Next]_vars, ~overlapped'
  PROVE  SerialInv'
<1>0. ~overlapped /\ (\A c \in Calls : Receive(c) => InFlight = {})
  BY OverlapStays DEF Receive
<1>9. SerialInv BY <1>0
<1> USE <1>9 DEF SerialInv, OneRowPerKey, RowsOf, InFlight
<1>1. key' = key BY PaidOutGrows
<1>2. ASSUME NEW c \in Calls, CreateRefund(c) PROVE SerialInv'
  <2>1. pc[c] \notin {"replayed", "returned", "thrown"}
        /\ \A d \in Calls \ {c} : pc'[d] = pc[d]
    BY <1>2 DEF CreateRefund, Receive, FindExisting, CheckStatus, CheckAmount,
       FindSuccessAttempt, CreateRow, ProviderAnswers, ProviderThrows, Commit, Rollback,
       Finish, MarkFailed, Crash, Goto, IInv, TypeOK
  <2>2. \A d \in Calls \ {c} : pc[d] \in {"idle", "replayed", "returned", "thrown"}
    <3>1. CASE Receive(c) BY <1>0, <3>1
    <3>2. CASE ~Receive(c)
      <4>1. c \in InFlight
        BY <1>2, <3>2 DEF CreateRefund, FindExisting, CheckStatus, CheckAmount,
           FindSuccessAttempt, CreateRow, ProviderAnswers, ProviderThrows, Commit, Rollback,
           Finish, MarkFailed, Crash
      <4> QED BY <4>1
    <3> QED BY <3>1, <3>2
  <2>3. \A d, e \in InFlight' : d = e BY <2>1, <2>2
  <2>4. CASE CreateRow(c)
    <3>1. /\ row' = [row EXCEPT ![c] = "PROCESSING"]
          /\ pc' = [pc EXCEPT ![c] = "asking"]
          /\ RowsOf(key[c]) = {}
      BY <2>4 DEF CreateRow, Goto
    <3> QED BY <1>1, <2>1, <2>2, <2>3, <3>1 DEF IInv, TypeOK
  <2>5. CASE ~CreateRow(c)
    <3>1. \A d \in Calls : row'[d] # "NONE" <=> row[d] # "NONE"
      <4>1. CASE Commit(c) BY <4>1 DEF Commit, IInv, TypeOK, FreshInv
      <4>2. CASE MarkFailed(c) BY <4>2 DEF MarkFailed, IInv, TypeOK, FreshInv
      <4>3. CASE Checks(c) BY <4>3, ChecksFrame DEF IInv
      <4>4. CASE ProviderAnswers(c) \/ ProviderThrows(c) \/ Crash(c)
        BY <4>4 DEF ProviderAnswers, ProviderThrows, Crash, dbVars, input
      <4> QED BY <1>2, <2>5, <4>1, <4>2, <4>3, <4>4 DEF CreateRefund, Checks
    <3>3. pc'[c] \in {"status", "amount", "attempt", "create"} => RowsOf(key[c]) = {}
      BY <1>2 DEF CreateRefund, Receive, FindExisting, CheckStatus, CheckAmount,
         FindSuccessAttempt, CreateRow, ProviderAnswers, ProviderThrows, Commit, Rollback,
         Finish, MarkFailed, Crash, Goto, IInv, TypeOK
    <3>4. ASSUME NEW d \in Calls, pc'[d] \in {"status", "amount", "attempt", "create"},
                 NEW e \in Calls, row'[e] # "NONE", key'[e] = key'[d]
          PROVE  FALSE
      BY <1>1, <2>1, <2>2, <3>1, <3>3, <3>4
    <3>5. \A d \in Calls : pc'[d] \in {"status", "amount", "attempt", "create"} =>
            {e \in Calls : row'[e] # "NONE" /\ key'[e] = key'[d]} = {}
      BY <3>4
    <3>6. OneRowPerKey' BY <1>1, <3>1
    <3> QED BY <2>3, <3>5, <3>6
  <2> QED BY <2>4, <2>5
<1>3. CASE PaymentOverwrites \/ AttemptWithdrawn \/ UNCHANGED vars
  BY <1>3, PaymentFrame DEF IInv
<1> QED BY <1>2, <1>3 DEF Next

(* As long as no two calls have overlapped, a key has one refund, after    *)
(* failures and restarts too.                                              *)
THEOREM OneRowWhenSerial == Spec => []OneRowInTurn
<1>1. Init => (~overlapped => SerialInv)
  BY DEF Init, SerialInv, OneRowPerKey, RowsOf, InFlight
<1>2. IInv /\ (~overlapped => SerialInv) /\ [Next]_vars => (~overlapped => SerialInv)'
  BY SerialStep
<1>3. (~overlapped => SerialInv) => OneRowInTurn BY DEF SerialInv, OneRowInTurn
<1> QED BY <1>1, <1>2, <1>3, Invariant, PTL DEF Spec

(* Then one key also moves the money once, whether the provider is given   *)
(* the key or not: a call that pays has written its row first.             *)
THEOREM NoDoublePayout == Spec => []PaidOnceInTurn
<1>1. IInv /\ OneRowInTurn => PaidOnceInTurn
  <2> SUFFICES ASSUME IInv, OneRowInTurn, ~overlapped,
                      NEW c \in paidOut, NEW d \in paidOut, key[c] = key[d]
               PROVE  c = d
    BY DEF PaidOnceInTurn
  <2>1. c \in RowsOf(key[c]) /\ d \in RowsOf(key[c]) /\ key[c] \in Keys
    BY DEF IInv, FreshInv, TypeOK, RowsOf
  <2> QED BY <2>1 DEF OneRowInTurn, OneRowPerKey
<1> QED BY <1>1, Invariant, OneRowWhenSerial, PTL

-----------------------------------------------------------------------------
(* Sums of refunds                                                         *)

(* The units of one refund are as many as its amount.                      *)
LEMMA UnitsOfOne ==
  ASSUME TypeOK, NEW c \in Calls
  PROVE  /\ amount[c] \in 1..MaxAmount /\ amount[c] \in Nat
         /\ IsFiniteSet(Units({c})) /\ Sum({c}) = amount[c]
<1>1. amount[c] \in 1..MaxAmount /\ MaxAmount \in Nat
  BY RefundAssumption DEF TypeOK, RefundAssumption
<1> DEFINE a == amount[c]
           f == [n \in 1..a |-> <<c, n>>]
<1>2. f \in Bijection(1..a, Units({c}))
  <2>1. \A n \in 1..a : <<c, n>> \in Units({c}) BY <1>1 DEF Units
  <2>2. \A u \in Units({c}) : u[2] \in 1..a /\ u = <<c, u[2]>> BY <1>1 DEF Units
  <2>3. f \in [1..a -> Units({c})] BY <2>1
  <2>4. \A m, n \in 1..a : f[m] = f[n] => m = n OBVIOUS
  <2>5. \A u \in Units({c}) : \E n \in 1..a : f[n] = u BY <2>2
  <2> QED BY <2>3, <2>4, <2>5 DEF Bijection, Injection, Surjection, IsInjective
<1>3. ExistsBijection(1..a, Units({c})) BY <1>2 DEF ExistsBijection
<1>4. IsFiniteSet(1..a) /\ Cardinality(1..a) = a BY <1>1, FS_Interval
<1> HIDE DEF a
<1>5. IsFiniteSet(Units({c})) /\ Cardinality(Units({c})) = a BY <1>3, <1>4, FS_Bijection
<1> QED BY <1>1, <1>5 DEF Sum, a

(* The sum over finitely many refunds is a number, and one refund more     *)
(* adds its amount.                                                        *)
LEMMA UnitsFinite ==
  ASSUME NEW S, IsFiniteSet(S)
  PROVE  IsFiniteSet(Units(S)) /\ Sum(S) \in Nat
<1>1. IsFiniteSet(1..MaxAmount) BY RefundAssumption, FS_Interval DEF RefundAssumption
<1>2. IsFiniteSet(S \X (1..MaxAmount)) BY <1>1, FS_Product
<1>3. Units(S) \subseteq S \X (1..MaxAmount) BY DEF Units
<1>4. IsFiniteSet(Units(S)) BY <1>2, <1>3, FS_Subset
<1> QED BY <1>4, FS_CardinalityType DEF Sum

LEMMA SumGrows ==
  ASSUME NEW S, NEW T, IsFiniteSet(T), S \subseteq T
  PROVE  IsFiniteSet(S) /\ Sum(S) \in Nat /\ Sum(T) \in Nat /\ Sum(S) <= Sum(T)
<1>1. IsFiniteSet(S) BY FS_Subset
<1>2. Units(S) \subseteq Units(T) BY DEF Units
<1>3. IsFiniteSet(Units(T)) BY UnitsFinite
<1>4. Cardinality(Units(S)) <= Cardinality(Units(T)) BY <1>2, <1>3, FS_Subset
<1> QED BY <1>1, <1>4, UnitsFinite DEF Sum

LEMMA SumOfOneMore ==
  ASSUME TypeOK, NEW S \in SUBSET Calls, IsFiniteSet(S), NEW c \in Calls
  PROVE  /\ IsFiniteSet(S \cup {c})
         /\ c \notin S => Sum(S \cup {c}) = Sum(S) + amount[c]
         /\ Sum(S \cup {c}) <= Sum(S) + amount[c]
<1>1. IsFiniteSet(S \cup {c}) BY FS_AddElement
<1>2. amount[c] \in Nat /\ Sum(S) \in Nat BY UnitsOfOne, UnitsFinite
<1>3. CASE c \in S
  <2>1. S \cup {c} = S BY <1>3
  <2>2. Sum(S \cup {c}) = Sum(S) BY <2>1
  <2> QED BY <1>1, <1>2, <1>3, <2>2
<1>4. CASE c \notin S
  <2>1. Units(S \cup {c}) = Units(S) \cup Units({c}) BY DEF Units
  <2>2. Units(S) \cap Units({c}) = {} BY <1>4 DEF Units
  <2>3. IsFiniteSet(Units(S)) /\ IsFiniteSet(Units({c})) BY UnitsFinite, UnitsOfOne
  <2>4. Cardinality(Units(S) \cup Units({c}))
          = Cardinality(Units(S)) + Cardinality(Units({c})) - Cardinality(Units(S) \cap Units({c}))
    BY <2>3, FS_Union
  <2>5. Cardinality(Units(S) \cap Units({c})) = 0 BY <2>2, FS_EmptySet
  <2>6. Sum(S \cup {c}) = Sum(S) + Sum({c}) - 0 BY <2>1, <2>4, <2>5 DEF Sum
  <2>7. Sum({c}) = amount[c] BY UnitsOfOne
  <2> QED BY <1>1, <1>2, <2>6, <2>7
<1> QED BY <1>3, <1>4

-----------------------------------------------------------------------------
(* The status and the ledger                                               *)

(* A call has read a sum that is booked, and what is booked stays booked:  *)
(* its own refund is not among it until it commits.                        *)
Asked == {"attempt", "create", "asking", "answered"}
UnderWay == Asked \cup {"committed", "failing"}
BookedInv ==
  /\ IsFiniteSet(posted)
  /\ already \in [Calls -> Nat]
  /\ \A c \in posted : pc[c] \in {"committed", "failing", "returned", "thrown"}
  /\ \A c \in Calls : pc[c] \in Asked => already[c] <= Sum(posted)

Succeeded == {c \in Calls : row[c] = "SUCCESS"}

LEMMA RefundedIsBooked ==
  ASSUME IInv, BookedInv
  PROVE  /\ Succeeded \subseteq posted /\ IsFiniteSet(Succeeded)
         /\ Refunded = Sum(Succeeded) /\ Refunded \in Nat /\ Refunded <= Sum(posted)
<1>1. Succeeded \subseteq posted /\ IsFiniteSet(posted)
  BY DEF IInv, SuccessIsPaidAndBooked, BookedInv, Succeeded
<1>2. Refunded = Sum(Succeeded) BY DEF Refunded, Succeeded
<1> QED BY <1>1, <1>2, SumGrows

(* Keys and amounts stay, so that a sum depends on its calls alone.        *)
LEMMA AmountsStay ==
  ASSUME IInv, [Next]_vars
  PROVE  /\ key' = key /\ amount' = amount
         /\ Sum(posted)' = Sum(posted') /\ Refunded' = Sum(Succeeded')
<1>1. key' = key /\ amount' = amount BY PaidOutGrows
<1> QED BY <1>1 DEF Sum, Units, Refunded, Succeeded

(* What a call does besides reading the sum and committing.                *)
Moves(c) ==
  \/ Receive(c) \/ FindExisting(c) \/ CheckStatus(c) \/ FindSuccessAttempt(c) \/ CreateRow(c)
  \/ ProviderAnswers(c) \/ ProviderThrows(c) \/ Rollback(c) \/ Finish(c) \/ MarkFailed(c)
  \/ Crash(c)

LEMMA MovesFrame ==
  ASSUME IInv, NEW c \in Calls, Moves(c)
  PROVE  /\ UNCHANGED <<txStatus, posted, already>>
         /\ pc'[c] \in Asked => pc[c] \in Asked
         /\ pc'[c] \in UnderWay => pc[c] \in UnderWay
         /\ pc[c] \in {"committed", "failing", "returned", "thrown"} =>
              pc'[c] \in {"committed", "failing", "returned", "thrown"}
         /\ \A d \in Calls \ {c} : pc'[d] = pc[d]
         /\ Succeeded' \subseteq Succeeded
<1> USE DEF IInv, TypeOK, Asked, UnderWay, Succeeded
<1>1. CASE Receive(c) \/ FindExisting(c) \/ CheckStatus(c) \/ FindSuccessAttempt(c)
           \/ Rollback(c) \/ Finish(c)
  BY <1>1 DEF Receive, FindExisting, CheckStatus, FindSuccessAttempt, Rollback, Finish, Goto,
     dbVars, input
<1>2. CASE CreateRow(c) BY <1>2 DEF CreateRow, Goto
<1>3. CASE ProviderAnswers(c) BY <1>3 DEF ProviderAnswers, Goto, dbVars, input
<1>4. CASE ProviderThrows(c) BY <1>4 DEF ProviderThrows, Goto, dbVars, input
<1>5. CASE MarkFailed(c) BY <1>5 DEF MarkFailed, Goto
<1>6. CASE Crash(c) BY <1>6 DEF Crash, InFlight, Goto, dbVars, input
<1> QED BY <1>1, <1>2, <1>3, <1>4, <1>5, <1>6 DEF Moves

LEMMA BookedStep ==
  ASSUME IInv, BookedInv, StatusIsBooked, [Next]_vars
  PROVE  BookedInv' /\ StatusIsBooked'
<1> USE DEF BookedInv, StatusIsBooked
<1>1. /\ key' = key /\ amount' = amount
      /\ Sum(posted)' = Sum(posted')
  BY AmountsStay
<1>2. ASSUME NEW c \in Calls, Moves(c) PROVE BookedInv' /\ StatusIsBooked'
  <2>1. \A d \in Calls : pc'[d] \in Asked => pc[d] \in Asked BY <1>2, MovesFrame
  <2>2. posted \subseteq Calls BY DEF IInv, TypeOK
  <2> QED BY <1>1, <1>2, <2>1, <2>2, MovesFrame
<1>3. ASSUME NEW c \in Calls, CheckAmount(c) PROVE BookedInv' /\ StatusIsBooked'
  <2>1. /\ already' = [already EXCEPT ![c] = Refunded]
        /\ UNCHANGED <<txStatus, posted>>
        /\ pc[c] = "amount" /\ pc' \in {[pc EXCEPT ![c] = "attempt"], [pc EXCEPT ![c] = "thrown"]}
    BY <1>3 DEF CheckAmount, Goto, dbVars, input
  <2>2. Refunded \in Nat /\ Refunded <= Sum(posted) BY RefundedIsBooked
  <2> QED BY <1>1, <2>1, <2>2 DEF IInv, TypeOK, Asked
<1>4. ASSUME NEW c \in Calls, Commit(c) PROVE BookedInv' /\ StatusIsBooked'
  <2>1. /\ pc[c] = "answered" /\ pc' = [pc EXCEPT ![c] = "committed"]
        /\ posted' = posted \cup {c} /\ already' = already
        /\ txStatus' = IF amount[c] + already[c] >= Total THEN "REFUNDED"
                                                           ELSE "PARTIALLY_REFUNDED"
    BY <1>4 DEF Commit, Goto
  <2>2. c \notin posted /\ already[c] <= Sum(posted) /\ posted \in SUBSET Calls
    BY <2>1 DEF Asked, IInv, TypeOK
  <2>3. IsFiniteSet(posted') /\ Sum(posted') = Sum(posted) + amount[c]
    BY <2>1, <2>2, SumOfOneMore DEF IInv
  <2>4. Sum(posted) \in Nat /\ amount[c] \in Nat BY UnitsFinite, UnitsOfOne DEF IInv
  <2>5. StatusIsBooked'
    BY <1>1, <2>1, <2>2, <2>3, <2>4, RefundAssumption DEF RefundAssumption
  <2>6. \A d \in Calls : pc'[d] \in Asked => pc[d] \in Asked
    BY <2>1 DEF Asked, IInv, TypeOK
  <2>7. \A d \in Calls : pc'[d] \in Asked => already'[d] <= Sum(posted)'
    BY <1>1, <2>1, <2>3, <2>4, <2>6
  <2>8. \A d \in posted' : pc'[d] \in {"committed", "failing", "returned", "thrown"}
    BY <2>1 DEF IInv, TypeOK
  <2> QED BY <2>1, <2>3, <2>5, <2>7, <2>8
<1>5. CASE PaymentOverwrites \/ AttemptWithdrawn \/ UNCHANGED vars
  <2>1. UNCHANGED <<pc, posted, already>>
    BY <1>5 DEF PaymentOverwrites, AttemptWithdrawn, vars, callVars, dbVars, input
  <2>2. txStatus' \in {"PROCESSING", "SUCCESS", txStatus}
    BY <1>5 DEF PaymentOverwrites, AttemptWithdrawn, vars, dbVars, input
  <2> QED BY <1>1, <2>1, <2>2
<1> QED BY <1>2, <1>3, <1>4, <1>5 DEF Next, CreateRefund, Moves

(* A transaction never says of its refunds more than the ledger does: the  *)
(* sum a call has read may be stale when it commits, but then it is low.   *)
THEOREM StatusMatchesLedger == Spec => []StatusIsBooked
<1>1. Init => BookedInv /\ StatusIsBooked
  BY FS_EmptySet DEF Init, BookedInv, StatusIsBooked, Asked
<1>2. IInv /\ BookedInv /\ StatusIsBooked /\ [Next]_vars => (BookedInv /\ StatusIsBooked)'
  BY BookedStep
<1> QED BY <1>1, <1>2, Invariant, PTL DEF Spec

-----------------------------------------------------------------------------
(* The refunds and the transaction                                         *)

(* A call that has passed the check leaves room for itself, as long as no  *)
(* other call is in flight with it.                                        *)
FitInv ==
  /\ RefundsFit
  /\ \A c \in Calls : pc[c] \in UnderWay => Sum(Succeeded \cup {c}) <= Total

LEMMA FitStep ==
  ASSUME IInv, BookedInv, SerialInv, FitInv, [Next]_vars, SerialInv'
  PROVE  FitInv'
<1> USE DEF FitInv, RefundsFit
<1>1. /\ key' = key /\ amount' = amount
      /\ Refunded' = Sum(Succeeded')
      /\ \A c \in Calls : Sum(Succeeded \cup {c})' = Sum(Succeeded' \cup {c})
  BY AmountsStay DEF Sum, Units
<1>2. Succeeded \in SUBSET Calls /\ IsFiniteSet(Succeeded) /\ Refunded = Sum(Succeeded)
  BY RefundedIsBooked DEF Succeeded
<1>3. \A c \in Calls : IsFiniteSet(Succeeded \cup {c}) BY <1>2, FS_AddElement
<1>4. Total \in Nat BY RefundAssumption DEF RefundAssumption
<1>5. ASSUME Succeeded' \subseteq Succeeded,
             \A c \in Calls : pc'[c] \in UnderWay => pc[c] \in UnderWay
      PROVE  FitInv'
  <2>1. Sum(Succeeded') <= Sum(Succeeded) /\ Sum(Succeeded) \in Nat /\ Sum(Succeeded') \in Nat
    BY <1>2, <1>5, SumGrows
  <2>2. ASSUME NEW c \in Calls, pc'[c] \in UnderWay
        PROVE  Sum(Succeeded' \cup {c}) <= Total
    <3>1. Sum(Succeeded \cup {c}) <= Total BY <1>5, <2>2
    <3>2. Succeeded' \cup {c} \subseteq Succeeded \cup {c} BY <1>5
    <3>3. /\ Sum(Succeeded' \cup {c}) <= Sum(Succeeded \cup {c})
          /\ Sum(Succeeded' \cup {c}) \in Nat /\ Sum(Succeeded \cup {c}) \in Nat
      BY <1>3, <3>2, SumGrows
    <3> QED BY <1>4, <3>1, <3>3
  <2> QED BY <1>1, <1>2, <1>4, <2>1, <2>2
<1>6. ASSUME NEW c \in Calls, Moves(c) PROVE FitInv'
  BY <1>5, <1>6, MovesFrame
<1>7. ASSUME NEW c \in Calls, CheckAmount(c) PROVE FitInv'
  <2>1. /\ Succeeded' = Succeeded
        /\ pc[c] = "amount"
        /\ pc' = [pc EXCEPT ![c] = IF amount[c] + Refunded <= Total THEN "attempt" ELSE "thrown"]
    BY <1>7 DEF CheckAmount, Goto, dbVars, input, Succeeded
  <2>2. amount[c] \in Nat /\ Refunded \in Nat BY UnitsOfOne, RefundedIsBooked DEF IInv
  <2>3. CASE ~(amount[c] + Refunded <= Total)
    <3>1. pc' = [pc EXCEPT ![c] = "thrown"] BY <2>1, <2>3
    <3> QED BY <1>5, <2>1, <3>1 DEF Asked, UnderWay, IInv, TypeOK
  <2>4. CASE amount[c] + Refunded <= Total
    <3>1. Sum(Succeeded \cup {c}) <= Sum(Succeeded) + amount[c]
      BY <1>2, SumOfOneMore DEF IInv
    <3>2. Sum(Succeeded \cup {c}) \in Nat /\ amount[c] \in Nat /\ Sum(Succeeded) \in Nat
      BY <1>2, <1>3, <2>2, UnitsFinite
    <3>3. Sum(Succeeded \cup {c}) <= Total BY <1>2, <1>4, <2>4, <3>1, <3>2
    <3>4. \A d \in Calls : pc'[d] \in UnderWay => d = c \/ pc[d] \in UnderWay
      BY <2>1 DEF IInv, TypeOK
    <3> QED BY <1>1, <1>2, <2>1, <3>3, <3>4
  <2> QED BY <2>3, <2>4
<1>8. ASSUME NEW c \in Calls, Commit(c) PROVE FitInv'
  <2>1. /\ pc[c] = "answered" /\ pc' = [pc EXCEPT ![c] = "committed"]
        /\ Succeeded' \subseteq Succeeded \cup {c}
    BY <1>8 DEF Commit, Goto, Succeeded, IInv, TypeOK
  <2>2. Sum(Succeeded \cup {c}) <= Total BY <2>1 DEF Asked, UnderWay
  <2>3. /\ Sum(Succeeded') <= Sum(Succeeded \cup {c})
        /\ Sum(Succeeded') \in Nat /\ Sum(Succeeded \cup {c}) \in Nat
    BY <1>3, <2>1, SumGrows
  <2>4. \A d \in Calls \ {c} : pc'[d] \notin UnderWay
    <3>1. \A d \in Calls \ {c} : pc[d] \notin UnderWay
      BY <2>1 DEF SerialInv, InFlight, Asked, UnderWay
    <3> QED BY <2>1, <3>1 DEF IInv, TypeOK
  <2>5. Succeeded' \cup {c} \subseteq Succeeded \cup {c} BY <2>1
  <2>6. Sum(Succeeded' \cup {c}) <= Sum(Succeeded \cup {c}) /\ Sum(Succeeded' \cup {c}) \in Nat
    BY <1>3, <2>5, SumGrows
  <2> QED BY <1>1, <1>4, <2>2, <2>3, <2>4, <2>6
<1>9. CASE PaymentOverwrites \/ AttemptWithdrawn \/ UNCHANGED vars
  BY <1>5, <1>9, PaymentFrame DEF IInv, Succeeded
<1> QED BY <1>6, <1>7, <1>8, <1>9 DEF Next, CreateRefund, Moves

(* One call at a time is under way, so that the shown money is that of the *)
(* SUCCESS rows and of this call.                                          *)
LEMMA ShownFits ==
  ASSUME IInv, BookedInv, SerialInv, FitInv
  PROVE  Sum((posted \cup paidOut) \ Unshown) <= Total
<1> DEFINE Shown == (posted \cup paidOut) \ Unshown
<1>1. \A c \in Shown : c \in Succeeded \/ (c \in InFlight /\ pc[c] \in UnderWay)
  BY DEF IInv, TypeOK, FreshInv, BookedInv, Unshown, Succeeded, InFlight, UnderWay, Asked
<1>2. Succeeded \in SUBSET Calls /\ IsFiniteSet(Succeeded) /\ Refunded = Sum(Succeeded)
  BY RefundedIsBooked DEF Succeeded
<1>3. Total \in Nat BY RefundAssumption DEF RefundAssumption
<1>4. CASE \E c \in Calls : c \in InFlight /\ pc[c] \in UnderWay
  <2>1. PICK c \in Calls : c \in InFlight /\ pc[c] \in UnderWay BY <1>4
  <2>2. Shown \subseteq Succeeded \cup {c} BY <1>1, <2>1 DEF SerialInv
  <2>3. Sum(Succeeded \cup {c}) <= Total BY <2>1 DEF FitInv
  <2>4. IsFiniteSet(Succeeded \cup {c}) BY <1>2, FS_AddElement
  <2> HIDE DEF Shown
  <2>5. /\ Sum(Shown) <= Sum(Succeeded \cup {c})
        /\ Sum(Shown) \in Nat /\ Sum(Succeeded \cup {c}) \in Nat
    BY <2>2, <2>4, SumGrows
  <2>6. Sum(Shown) <= Total BY <1>3, <2>3, <2>5
  <2> QED BY <2>6 DEF Shown
<1>5. CASE ~\E c \in Calls : c \in InFlight /\ pc[c] \in UnderWay
  <2>1. Shown \subseteq Succeeded BY <1>1, <1>5 DEF InFlight
  <2>2. Sum(Succeeded) <= Total BY <1>2 DEF FitInv, RefundsFit
  <2> HIDE DEF Shown
  <2>3. Sum(Shown) <= Sum(Succeeded) /\ Sum(Shown) \in Nat /\ Sum(Succeeded) \in Nat
    BY <1>2, <2>1, SumGrows
  <2>4. Sum(Shown) <= Total BY <1>3, <2>2, <2>3
  <2> QED BY <2>4 DEF Shown
<1> QED BY <1>4, <1>5

(* The money that is paid back or booked fits the transaction, except for  *)
(* what ended calls left without a SUCCESS row, for any amounts and keys,  *)
(* as long as the calls come one after the other.                          *)
THEOREM RefundsFitWhenSerial == Spec => []RefundsFitInTurn
<1>1. Init => BookedInv /\ (~overlapped => SerialInv /\ FitInv)
  <2> SUFFICES ASSUME Init PROVE BookedInv /\ SerialInv /\ FitInv OBVIOUS
  <2>1. BookedInv BY FS_EmptySet DEF Init, BookedInv, Asked
  <2>2. SerialInv BY DEF Init, SerialInv, OneRowPerKey, RowsOf, InFlight
  <2>3. Refunded = 0
    <3>1. Units({}) = {} BY DEF Units
    <3>2. Sum({}) = 0 BY <3>1, FS_EmptySet DEF Sum
    <3>3. {c \in Calls : row[c] = "SUCCESS"} = {} BY DEF Init
    <3> QED BY <3>2, <3>3 DEF Refunded
  <2>4. FitInv BY <2>3, RefundAssumption DEF Init, FitInv, RefundsFit, RefundAssumption, Asked, UnderWay
  <2> QED BY <2>1, <2>2, <2>4
<1>2. ASSUME IInv, StatusIsBooked, BookedInv, ~overlapped => SerialInv /\ FitInv, [Next]_vars
      PROVE  (BookedInv /\ (~overlapped => SerialInv /\ FitInv))'
  <2>1. BookedInv' BY <1>2, BookedStep
  <2>2. ASSUME ~overlapped' PROVE SerialInv' /\ FitInv'
    <3>1. SerialInv' BY <1>2, <2>2, SerialStep
    <3>2. ~overlapped BY <1>2, <2>2, OverlapStays
    <3> QED BY <1>2, <3>1, <3>2, FitStep
  <2> QED BY <2>1, <2>2
<1>3. IInv /\ BookedInv /\ (~overlapped => SerialInv /\ FitInv) => RefundsFitInTurn
  BY ShownFits DEF RefundsFitInTurn
<1> QED BY <1>1, <1>2, <1>3, Invariant, StatusMatchesLedger, PTL DEF Spec
=============================================================================

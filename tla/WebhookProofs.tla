--------------------------- MODULE WebhookProofs ---------------------------
(***************************************************************************)
(* Theorems about Webhook, for any number of deliveries, attempts and      *)
(* events.                                                                 *)
(***************************************************************************)
EXTENDS Webhook, TLAPS

Captured(a) == <<"captured", a>>
Handled(a) == a \in tagged => posted[a] > 0 \/ attempt[a] = "FAILED"

(* What a handler knows at each of its steps.                              *)
JobInv(h) ==
  /\ pc[h] # "idle" => job[h] \in Events /\ event[job[h]] # "none"
  /\ pc[h] \in {"verifying", "asking", "settling", "failing"} => Of(h) \in Attempts
  /\ pc[h] \in {"verifying", "asking", "settling"} => job[h] = Captured(Of(h))
  /\ pc[h] = "settling" => Paid(Of(h))
  /\ pc[h] = "processed" => \A a \in Attempts : job[h] = Captured(a) => Handled(a)

(* What is SUCCESS is booked, what is booked stays SUCCESS or FAILED, and  *)
(* the work of what is marked or acknowledged is done.                     *)
RowInv ==
  \A a \in Attempts :
    /\ attempt[a] = "SUCCESS" => posted[a] > 0
    /\ posted[a] > 0 => attempt[a] \in {"SUCCESS", "FAILED"}
    /\ log[Captured(a)] = "processed" => Handled(a)
    /\ event[Captured(a)] = "acked" => log[Captured(a)] = "processed"

IInv == TypeOK /\ RowInv /\ \A h \in Handlers : JobInv(h)

LEMMA Kinds ==
  /\ \A a \in Attempts : Captured(a) \in Events
  /\ \A e \in Events : e = <<e[1], e[2]>> /\ e[2] \in Attempts \cup Strangers
                       /\ e[1] \in {"captured", "failed"}
                       /\ (e[1] = "failed" => e[2] \in Attempts)
  /\ \A e \in Events : e # None
BY WebhookAssumption DEF Events, Captured

LEMMA InitIInv == Init => IInv
<1> SUFFICES ASSUME Init PROVE IInv OBVIOUS
<1>1. TypeOK BY DEF Init, TypeOK
<1>2. RowInv
  <2>1. \A a \in Attempts : posted[a] = 0 /\ attempt[a] = "PENDING" BY DEF Init
  <2>2. \A a \in Attempts : log[Captured(a)] = "none" /\ event[Captured(a)] = "none"
    BY Kinds DEF Init
  <2> SUFFICES ASSUME NEW a \in Attempts
               PROVE  /\ attempt[a] = "PENDING" /\ ~(posted[a] > 0)
                      /\ log[Captured(a)] = "none" /\ event[Captured(a)] = "none"
    BY DEF RowInv
  <2> QED BY <2>1, <2>2
<1>3. \A h \in Handlers : JobInv(h) BY DEF Init, JobInv
<1> QED BY <1>1, <1>2, <1>3 DEF IInv

-----------------------------------------------------------------------------
(* What a step may not take back: a payment, and that its work is done.    *)
Keeps ==
  /\ tagged' = tagged
  /\ \A e \in Events : event[e] # "none" => event'[e] # "none"
  /\ \A a \in Attempts : Paid(a) => Paid(a)'
  /\ \A a \in Attempts : Handled(a) => Handled(a)'

(* A handler that is not moved does not notice.                            *)
LEMMA OtherHandler ==
  ASSUME Keeps, NEW h \in Handlers, JobInv(h), pc'[h] = pc[h], job'[h] = job[h]
  PROVE  JobInv(h)'
BY DEF Keeps, JobInv, Of

(* A handler that moves without writing a row.                             *)
LEMMA Quiet ==
  ASSUME IInv, UNCHANGED <<event, log, attempt, posted, tagged>>, NEW h \in Handlers,
         JobInv(h)', TypeOK',
         \A g \in Handlers \ {h} : pc'[g] = pc[g] /\ job'[g] = job[g]
  PROVE  IInv'
<1>1. Keeps BY DEF Keeps, Paid, Handled
<1>2. RowInv' BY DEF IInv, RowInv, Handled
<1>3. \A g \in Handlers \ {h} : JobInv(g)' BY <1>1, OtherHandler DEF IInv
<1> QED BY <1>2, <1>3 DEF IInv

LEMMA HappensStep == ASSUME IInv, NEW e \in Events, Happens(e) PROVE IInv'
<1>1. event' = [event EXCEPT ![e] = "sent"] /\ UNCHANGED <<log, attempt, posted, pc, job, tagged>>
  BY DEF Happens
<1>2. TypeOK' BY DEF Happens, IInv, TypeOK
<1>3. \A d \in Events : event'[d] = IF d = e THEN "sent" ELSE event[d]
  BY <1>1 DEF IInv, TypeOK
<1>4. Keeps BY <1>1, <1>3, Kinds DEF Keeps, Paid, Handled, Captured
<1>5. RowInv' BY <1>1, <1>3, Kinds DEF IInv, RowInv, Handled
<1>6. \A h \in Handlers : JobInv(h)' BY <1>1, <1>4, OtherHandler DEF IInv
<1> QED BY <1>2, <1>5, <1>6 DEF IInv

LEMMA ReceiveStep ==
  ASSUME IInv, NEW h \in Handlers, NEW e \in Events, Receive(h, e) PROVE IInv'
<1>1. TypeOK' BY DEF Receive, Goto, IInv, TypeOK
<1>2. pc'[h] = "received" /\ job'[h] = e BY DEF Receive, Goto, IInv, TypeOK
<1>3. \A g \in Handlers \ {h} : pc'[g] = pc[g] /\ job'[g] = job[g]
  BY DEF Receive, Goto, IInv, TypeOK
<1>4. JobInv(h)' BY <1>2 DEF Receive, JobInv
<1> QED BY <1>1, <1>3, <1>4, Quiet DEF Receive

(* The steps that only decide where the handler goes.                      *)
LEMMA DecideStep ==
  ASSUME IInv, NEW h \in Handlers,
         NotDuplicate(h) \/ Find(h) \/ StartVerify(h) \/ ProviderConfirms(h)
           \/ ProviderDenies(h)
  PROVE  IInv'
<1>1. UNCHANGED <<event, log, attempt, posted, job, tagged>>
  BY DEF NotDuplicate, Find, StartVerify, ProviderConfirms, ProviderDenies
<1>2. job[h] \in Events /\ event[job[h]] # "none"
  BY DEF NotDuplicate, Find, StartVerify, ProviderConfirms, ProviderDenies, IInv, JobInv
<1>3. \A g \in Handlers \ {h} : pc'[g] = pc[g]
  BY DEF NotDuplicate, Find, StartVerify, ProviderConfirms, ProviderDenies, Goto, IInv, TypeOK
<1>4. TypeOK'
  BY DEF NotDuplicate, Find, StartVerify, ProviderConfirms, ProviderDenies, Goto, IInv, TypeOK
<1>5. JobInv(h)'
  <2>1. CASE NotDuplicate(h)
    <3>1. pc'[h] = "storing" BY <2>1 DEF NotDuplicate, Goto, IInv, TypeOK
    <3> QED BY <1>1, <1>2, <3>1 DEF JobInv
  <2>2. CASE Find(h)
    <3>1. pc'[h] = IF Ignored(job[h]) THEN "processed"
                    ELSE IF job[h][1] = "failed" THEN "failing" ELSE "verifying"
      BY <2>2 DEF Find, Goto, IInv, TypeOK
    <3>2. CASE Ignored(job[h])
      <4>1. pc'[h] = "processed" BY <3>1, <3>2
      <4>2. \A a \in Attempts : job[h] = Captured(a) => Handled(a)
        BY <3>2 DEF Ignored, Captured, Handled
      <4> QED BY <1>1, <1>2, <4>1, <4>2 DEF JobInv, Handled
    <3>3. CASE ~Ignored(job[h]) /\ job[h][1] = "failed"
      BY <1>1, <1>2, <3>1, <3>3 DEF JobInv, Of, Ignored
    <3>4. CASE ~Ignored(job[h]) /\ job[h][1] # "failed"
      <4>1. Of(h) \in Attempts /\ job[h] = Captured(Of(h))
        BY <1>2, <3>4, Kinds DEF Captured, Of, Ignored
      <4>2. pc'[h] = "verifying" BY <3>1, <3>4
      <4> QED BY <1>1, <1>2, <4>1, <4>2 DEF JobInv, Of
    <3> QED BY <3>2, <3>3, <3>4
  <2>3. CASE StartVerify(h)
    <3>1. Of(h) \in Attempts /\ job[h] = Captured(Of(h))
      BY <2>3 DEF StartVerify, IInv, JobInv
    <3>2. CASE attempt[Of(h)] \in {"SUCCESS", "FAILED"}
      <4>1. pc'[h] = "processed" BY <2>3, <3>2 DEF StartVerify, Goto, IInv, TypeOK
      <4>2. Handled(Of(h)) BY <3>1, <3>2 DEF IInv, RowInv, Handled
      <4>3. \A a \in Attempts : job[h] = Captured(a) => a = Of(h) BY DEF Captured, Of
      <4> QED BY <1>1, <1>2, <4>1, <4>2, <4>3 DEF JobInv, Handled
    <3>3. CASE attempt[Of(h)] \notin {"SUCCESS", "FAILED"}
      <4>1. pc'[h] = "asking" BY <2>3, <3>3 DEF StartVerify, Goto, IInv, TypeOK
      <4> QED BY <1>1, <1>2, <3>1, <4>1 DEF JobInv, Of
    <3> QED BY <3>2, <3>3
  <2>4. CASE ProviderConfirms(h)
    <3>1. /\ pc'[h] = "settling" /\ Paid(Of(h))
          /\ Of(h) \in Attempts /\ job[h] = Captured(Of(h))
      BY <2>4 DEF ProviderConfirms, Goto, IInv, TypeOK, JobInv
    <3> QED BY <1>1, <1>2, <3>1 DEF JobInv, Of, Paid
  <2>5. CASE ProviderDenies(h)
    <3>1. pc'[h] = "failing" /\ Of(h) \in Attempts
      BY <2>5 DEF ProviderDenies, Goto, IInv, TypeOK, JobInv
    <3> QED BY <1>1, <1>2, <3>1 DEF JobInv, Of
  <2> QED BY <2>1, <2>2, <2>3, <2>4, <2>5
<1> QED BY <1>1, <1>3, <1>4, <1>5, Quiet

(* The steps that end without an answer.                                   *)
LEMMA BreakOffStep ==
  ASSUME IInv, NEW h \in Handlers, Refuse(h) \/ Crash(h) PROVE IInv'
<1>1. UNCHANGED <<event, log, attempt, posted, tagged>> BY DEF Refuse, Crash
<1>2. pc' = [pc EXCEPT ![h] = "idle"] /\ job' = [job EXCEPT ![h] = None]
  BY DEF Refuse, Crash, Respond, Goto
<1>3. TypeOK' BY <1>1, <1>2 DEF Refuse, Crash, IInv, TypeOK
<1>4. \A g \in Handlers \ {h} : pc'[g] = pc[g] /\ job'[g] = job[g]
  BY <1>2 DEF IInv, TypeOK
<1>5. pc'[h] = "idle" BY <1>2 DEF IInv, TypeOK
<1>6. JobInv(h)' BY <1>5 DEF JobInv
<1> QED BY <1>1, <1>3, <1>4, <1>6, Quiet

LEMMA StoreStep == ASSUME IInv, NEW h \in Handlers, Store(h) PROVE IInv'
<1>1. job[h] \in Events /\ event[job[h]] # "none" BY DEF Store, IInv, JobInv
<1>2. /\ log' = [log EXCEPT ![job[h]] = IF @ = "none" THEN "stored" ELSE @]
      /\ pc' = [pc EXCEPT ![h] = "finding"]
      /\ UNCHANGED <<event, attempt, posted, job, overlapped, tagged>>
  BY DEF Store, Goto
<1>3. \A e \in Events : log'[e] = "processed" <=> log[e] = "processed"
  BY <1>2 DEF IInv, TypeOK
<1>4. TypeOK'
  <2>1. log' \in [Events -> {"none", "stored", "processed"}] BY <1>1, <1>2 DEF IInv, TypeOK
  <2> QED BY <1>2, <2>1 DEF IInv, TypeOK
<1>5. Keeps BY <1>2 DEF Keeps, Paid, Handled
<1>6. RowInv' BY <1>2, <1>3, Kinds DEF IInv, RowInv, Handled
<1>7. pc'[h] = "finding" /\ \A g \in Handlers \ {h} : pc'[g] = pc[g]
  BY <1>2 DEF IInv, TypeOK
<1>8. JobInv(h)' BY <1>1, <1>2, <1>7 DEF JobInv
<1>9. \A g \in Handlers \ {h} : JobInv(g)' BY <1>2, <1>5, <1>7, OtherHandler DEF IInv
<1> QED BY <1>4, <1>6, <1>8, <1>9 DEF IInv

(* The two ways to answer: the event is, or becomes, processed.            *)
LEMMA AnswerStep ==
  ASSUME IInv, NEW h \in Handlers, SkipDuplicate(h) \/ MarkProcessed(h) PROVE IInv'
<1>1. job[h] \in Events BY DEF SkipDuplicate, MarkProcessed, IInv, JobInv
<1>2. /\ pc' = [pc EXCEPT ![h] = "idle"] /\ job' = [job EXCEPT ![h] = None]
      /\ UNCHANGED <<attempt, posted, overlapped, tagged>>
  BY DEF SkipDuplicate, MarkProcessed, Respond, Goto
<1>3. \A e \in Events : event'[e] = event[e] \/ (e = job[h] /\ event'[e] = "acked")
  BY DEF SkipDuplicate, MarkProcessed, Acknowledge, IInv, TypeOK
<1>4. /\ log'[job[h]] = "processed"
      /\ \A e \in Events \ {job[h]} : log'[e] = log[e]
  BY <1>1 DEF SkipDuplicate, MarkProcessed, IInv, TypeOK
<1>5. TypeOK'
  <2>1. event' \in [Events -> {"none", "sent", "acked"}]
    BY <1>1 DEF SkipDuplicate, MarkProcessed, Acknowledge, IInv, TypeOK
  <2>2. log' \in [Events -> {"none", "stored", "processed"}]
    BY <1>1 DEF SkipDuplicate, MarkProcessed, IInv, TypeOK
  <2> QED BY <1>2, <2>1, <2>2 DEF IInv, TypeOK
<1>6. \A a \in Attempts : job[h] = Captured(a) => Handled(a)
  <2>1. CASE SkipDuplicate(h) BY <2>1 DEF SkipDuplicate, IInv, RowInv
  <2>2. CASE MarkProcessed(h) BY <2>2 DEF MarkProcessed, IInv, JobInv
  <2> QED BY <2>1, <2>2
<1>7. Keeps BY <1>2, <1>3, Kinds DEF Keeps, Paid, Handled, Captured
<1>8. RowInv'
  <2> SUFFICES ASSUME NEW a \in Attempts
               PROVE  /\ log'[Captured(a)] = "processed" => Handled(a)
                      /\ event'[Captured(a)] = "acked" => log'[Captured(a)] = "processed"
    BY <1>2 DEF IInv, RowInv, Handled
  <2>1. CASE Captured(a) = job[h] BY <1>4, <1>6, <2>1
  <2>2. CASE Captured(a) # job[h] BY <1>3, <1>4, <2>2, Kinds DEF IInv, RowInv
  <2> QED BY <2>1, <2>2
<1>9. /\ pc'[h] = "idle"
      /\ \A g \in Handlers \ {h} : pc'[g] = pc[g] /\ job'[g] = job[g]
  BY <1>2 DEF IInv, TypeOK
<1>10. JobInv(h)' BY <1>9 DEF JobInv
<1>11. \A g \in Handlers \ {h} : JobInv(g)' BY <1>7, <1>9, OtherHandler DEF IInv
<1> QED BY <1>5, <1>8, <1>10, <1>11 DEF IInv

(* The two steps that write an attempt, and have handled its capture.      *)
LEMMA WriteStep ==
  ASSUME IInv, NEW h \in Handlers, Settle(h) \/ MarkFailed(h) PROVE IInv'
<1>0. PICK a \in Attempts : a = Of(h)
  BY DEF Settle, MarkFailed, IInv, JobInv
<1>1. job[h] \in Events /\ event[job[h]] # "none"
  BY DEF Settle, MarkFailed, IInv, JobInv
<1>2. pc' = [pc EXCEPT ![h] = "processed"] /\ UNCHANGED <<event, log, job, overlapped, tagged>>
  BY DEF Settle, MarkFailed, Goto
<1>3. /\ Handled(a)'
      /\ posted'[a] > 0 => attempt'[a] \in {"SUCCESS", "FAILED"}
      /\ attempt'[a] = "SUCCESS" => posted'[a] > 0
  <2>1. posted[a] \in Nat BY <1>1 DEF IInv, TypeOK
  <2>2. CASE Settle(h)
    <3>1. attempt'[a] = "SUCCESS" BY <1>0, <2>2 DEF Settle
    <3>2. posted'[a] = posted[a] + 1 BY <1>0, <2>2 DEF Settle, IInv, TypeOK
    <3> QED BY <2>1, <3>1, <3>2 DEF Handled
  <2>3. CASE MarkFailed(h)
    <3>1. attempt'[a] = "FAILED" BY <1>0, <2>3 DEF MarkFailed, IInv, TypeOK
    <3> QED BY <3>1 DEF Handled
  <2> QED BY <2>2, <2>3
<1>4. \A b \in Attempts \ {a} :
        /\ posted'[b] = posted[b]
        /\ attempt'[b] # attempt[b] => attempt[b] = "PENDING" /\ attempt'[b] = "CANCELLED"
  BY <1>0, <1>1 DEF Settle, MarkFailed, IInv, TypeOK
<1>5. TypeOK'
  <2>1. attempt' \in [Attempts -> {"PENDING", "SUCCESS", "FAILED", "CANCELLED"}]
    BY <1>0, <1>1 DEF Settle, MarkFailed, IInv, TypeOK
  <2>2. posted' \in [Attempts -> Nat] BY <1>0, <1>1 DEF Settle, MarkFailed, IInv, TypeOK
  <2> QED BY <1>2, <2>1, <2>2 DEF IInv, TypeOK
<1>6. Keeps
  <2>1. \A b \in Attempts : Paid(b) => Paid(b)' BY <1>2 DEF Paid
  <2>2. \A b \in Attempts \ {a} : Handled(b) => Handled(b)' BY <1>2, <1>4 DEF Handled
  <2> QED BY <1>2, <1>3, <2>1, <2>2 DEF Keeps
<1>7. RowInv'
  <2> SUFFICES ASSUME NEW b \in Attempts
               PROVE  /\ attempt'[b] = "SUCCESS" => posted'[b] > 0
                      /\ posted'[b] > 0 => attempt'[b] \in {"SUCCESS", "FAILED"}
                      /\ log[Captured(b)] = "processed" => Handled(b)'
                      /\ event[Captured(b)] = "acked" => log[Captured(b)] = "processed"
    BY <1>2 DEF RowInv, Handled
  <2>1. log[Captured(b)] = "processed" => Handled(b)' BY <1>6 DEF Keeps, IInv, RowInv
  <2>2. event[Captured(b)] = "acked" => log[Captured(b)] = "processed" BY DEF IInv, RowInv
  <2>3. CASE b = a BY <1>3, <2>1, <2>2, <2>3
  <2>4. CASE b # a BY <1>4, <2>1, <2>2, <2>4 DEF IInv, RowInv
  <2> QED BY <2>3, <2>4
<1>8. pc'[h] = "processed" /\ \A g \in Handlers \ {h} : pc'[g] = pc[g]
  BY <1>2 DEF IInv, TypeOK
<1>9. JobInv(h)'
  <2>1. \A b \in Attempts : job[h] = Captured(b) => b = a BY <1>0 DEF Of, Captured
  <2>2. Handled(a)' => \A b \in Attempts : job'[h] = Captured(b) => Handled(b)'
    BY <1>2, <2>1
  <2> QED BY <1>1, <1>2, <1>3, <1>8, <2>2 DEF JobInv
<1>10. \A g \in Handlers \ {h} : JobInv(g)' BY <1>2, <1>6, <1>8, OtherHandler DEF IInv
<1> QED BY <1>5, <1>7, <1>9, <1>10 DEF IInv

LEMMA NextIInv == IInv /\ [Next]_vars => IInv'
<1> SUFFICES ASSUME IInv, [Next]_vars PROVE IInv' OBVIOUS
<1>1. CASE UNCHANGED vars
  <2>1. TypeOK' BY <1>1 DEF vars, IInv, TypeOK
  <2>2. RowInv' BY <1>1 DEF vars, IInv, RowInv, Handled
  <2>3. Keeps BY <1>1 DEF vars, Keeps, Paid, Handled
  <2>4. \A h \in Handlers : JobInv(h)' BY <1>1, <2>3, OtherHandler DEF vars, IInv
  <2> QED BY <2>1, <2>2, <2>4 DEF IInv
<1> QED
  BY <1>1, HappensStep, ReceiveStep, DecideStep, BreakOffStep, StoreStep, AnswerStep, WriteStep
  DEF Next, Work

(* The rows, and what a handler has established about its event, stay in   *)
(* their relation.                                                         *)
THEOREM Invariant == Spec => []IInv
BY InitIInv, NextIInv, PTL DEF Spec

(* The rows, the events and the handlers have their types.                 *)
THEOREM WebhookTypeCorrect == Spec => []TypeOK
<1>1. IInv => TypeOK BY DEF IInv
<1> QED BY <1>1, Invariant, PTL

(* What a provider was told to forget is booked, or its attempt FAILED, in *)
(* every interleaving and after every repetition.                          *)
THEOREM NothingIsAcknowledgedEarly == Spec => []AcknowledgedIsHandled
<1>1. IInv => AcknowledgedIsHandled
  BY DEF IInv, TypeOK, RowInv, Handled, AcknowledgedIsHandled, Captured
<1> QED BY <1>1, Invariant, PTL

-----------------------------------------------------------------------------
(* In turn: whoever is past the early returns of verifyPayment is alone,   *)
(* and its payment is not booked yet.                                      *)
TurnInv ==
  ~overlapped =>
    /\ \A g, h \in Handlers : pc[g] # "idle" /\ pc[h] # "idle" => g = h
    /\ \A h \in Handlers : pc[h] \in {"asking", "settling"} => posted[Of(h)] = 0
    /\ \A a \in Attempts : posted[a] <= 1

LEMMA NextTurn == ASSUME IInv, TurnInv, [Next]_vars PROVE TurnInv'
<1> USE DEF TurnInv
<1>1. ASSUME NEW e \in Events, Happens(e) PROVE TurnInv'
  BY <1>1 DEF Happens, Of
<1>2. ASSUME NEW h \in Handlers, NEW e \in Events, Receive(h, e) PROVE TurnInv'
  <2> SUFFICES ASSUME ~overlapped' PROVE TurnInv' OBVIOUS
  <2>1. ~overlapped /\ \A g \in Handlers : pc[g] = "idle" BY <1>2 DEF Receive
  <2>2. pc'[h] = "received" /\ \A g \in Handlers \ {h} : pc'[g] = "idle"
    BY <1>2, <2>1 DEF Receive, Goto, IInv, TypeOK
  <2> QED BY <1>2, <2>1, <2>2 DEF Receive
<1>3. ASSUME NEW h \in Handlers, Work(h) \/ Crash(h) PROVE TurnInv'
  <2> SUFFICES ASSUME ~overlapped' PROVE TurnInv' OBVIOUS
  <2>1. ~overlapped /\ pc[h] # "idle" /\ \A g \in Handlers \ {h} : pc'[g] = pc[g]
    BY <1>3 DEF Work, SkipDuplicate, NotDuplicate, Store, Find, StartVerify, ProviderConfirms,
                ProviderDenies, Settle, Refuse, MarkFailed, MarkProcessed, Crash, Respond,
                Goto, IInv, TypeOK
  <2>2. \A g \in Handlers \ {h} : pc[g] = "idle" /\ pc'[g] = "idle" BY <2>1
  <2>3. CASE StartVerify(h)
    <3>1. Of(h) \in Attempts BY <2>3 DEF StartVerify, IInv, JobInv
    <3>2. UNCHANGED <<posted, job>> BY <2>3 DEF StartVerify
    <3>3. pc'[h] = "asking" => posted[Of(h)] = 0
      <4>1. pc'[h] = "asking" => attempt[Of(h)] \notin {"SUCCESS", "FAILED"}
        BY <2>3 DEF StartVerify, Goto, IInv, TypeOK
      <4>2. posted[Of(h)] \in Nat BY <3>1 DEF IInv, TypeOK
      <4> QED BY <3>1, <4>1, <4>2 DEF IInv, RowInv
    <3>4. pc'[h] # "settling" BY <2>3 DEF StartVerify, Goto, IInv, TypeOK
    <3> QED BY <2>1, <2>2, <3>2, <3>3, <3>4 DEF Of
  <2>4. CASE Settle(h)
    <3>1. Of(h) \in Attempts BY <2>4 DEF Settle, IInv, JobInv
    <3>2. posted[Of(h)] = 0 BY <2>1, <2>4 DEF Settle
    <3>3. \A a \in Attempts : posted'[a] <= 1
      BY <2>1, <2>4, <3>1, <3>2 DEF Settle, IInv, TypeOK
    <3>4. pc'[h] = "processed" BY <2>4 DEF Settle, Goto, IInv, TypeOK
    <3> QED BY <2>2, <3>3, <3>4
  <2>5. CASE ProviderConfirms(h)
    <3>1. posted[Of(h)] = 0 /\ UNCHANGED <<posted, job>>
      BY <2>1, <2>5 DEF ProviderConfirms
    <3> QED BY <2>1, <2>2, <3>1 DEF Of
  <2>6. CASE ~StartVerify(h) /\ ~Settle(h) /\ ~ProviderConfirms(h)
    <3>1. posted' = posted /\ pc'[h] \notin {"asking", "settling"}
      BY <1>3, <2>6 DEF Work, SkipDuplicate, NotDuplicate, Store, Find, ProviderDenies,
             Refuse, MarkFailed, MarkProcessed, Crash, Respond, Goto, IInv, TypeOK
    <3> QED BY <2>1, <2>2, <3>1
  <2> QED BY <2>3, <2>4, <2>5, <2>6
<1>4. CASE UNCHANGED vars BY <1>4 DEF vars, Of
<1> QED BY <1>1, <1>2, <1>3, <1>4 DEF Next

(* "Idempotent processing" holds of deliveries in turn, however often they *)
(* are repeated and wherever a handler dies.                               *)
THEOREM BookedOnceInSequence == Spec => []BookedOnceInTurn
<1>1. Init => TurnInv
  <2> SUFFICES ASSUME Init PROVE TurnInv OBVIOUS
  <2>1. \A h \in Handlers : pc[h] = "idle" BY DEF Init
  <2>2. \A a \in Attempts : posted[a] = 0 BY DEF Init
  <2> QED BY <2>1, <2>2 DEF TurnInv
<1>2. IInv /\ TurnInv /\ [Next]_vars => TurnInv' BY NextTurn
<1>3. TurnInv => BookedOnceInTurn BY DEF TurnInv, BookedOnceInTurn, BookedOnce
<1> QED BY <1>1, <1>2, <1>3, Invariant, PTL DEF Spec

-----------------------------------------------------------------------------
LEMMA InitSettles == Init => Abstract!Init
<1> SUFFICES ASSUME Init PROVE Abstract!Init OBVIOUS
<1>1. \A a \in Attempts : ~Paid(a) BY Kinds DEF Init, Paid, Captured
<1>2. Succeeded = {} BY DEF Init, Succeeded
<1>3. posted = [a \in Attempts |-> 0] BY DEF Init
<1> QED BY <1>1, <1>2, <1>3 DEF Abstract!Init

LEMMA StepSettles == IInv /\ [Next]_vars => [Abstract!Next]_(Abstract!vars)
<1> SUFFICES ASSUME IInv, [Next]_vars PROVE [Abstract!Next]_(Abstract!vars) OBVIOUS
<1> DEFINE orders == {a \in Attempts : Paid(a)}
<1>1. ASSUME NEW e \in Events, Happens(e) PROVE [Abstract!Next]_(Abstract!vars)
  <2>1. UNCHANGED <<Succeeded, posted>> BY <1>1 DEF Happens, Succeeded
  <2>2. \A d \in Events : event'[d] = IF d = e THEN "sent" ELSE event[d]
    BY <1>1 DEF Happens, IInv, TypeOK
  <2>3. CASE \E a \in Attempts : e = Captured(a)
    <3>1. PICK a \in Attempts : e = Captured(a) BY <2>3
    <3>2. \A b \in Attempts : Paid(b)' <=> Paid(b) \/ b = a
      BY <2>2, <3>1, Kinds DEF Paid, Captured
    <3>3. orders' = orders \cup {a} BY <3>2
    <3> QED BY <2>1, <3>3 DEF Abstract!Next, Abstract!Pay
  <2>4. CASE ~\E a \in Attempts : e = Captured(a)
    <3>1. \A b \in Attempts : Paid(b)' <=> Paid(b)
      BY <2>2, <2>4, Kinds DEF Paid, Captured
    <3>2. orders' = orders BY <3>1
    <3> QED BY <2>1, <3>2 DEF Abstract!vars
  <2> QED BY <2>3, <2>4
<1>2. ASSUME NEW h \in Handlers, Settle(h) PROVE [Abstract!Next]_(Abstract!vars)
  <2>1. Of(h) \in Attempts /\ Paid(Of(h)) BY <1>2 DEF Settle, IInv, JobInv
  <2>2. orders' = orders BY <1>2 DEF Settle, Paid
  <2>3. Succeeded' = {Of(h)}
    <3>1. \A b \in Attempts : attempt'[b] = "SUCCESS" <=> b = Of(h)
      BY <1>2, <2>1 DEF Settle, Succeeded
    <3> QED BY <2>1, <3>1 DEF Succeeded
  <2>4. Succeeded \subseteq {Of(h)} /\ posted' = [posted EXCEPT ![Of(h)] = @ + 1]
    BY <1>2 DEF Settle
  <2>5. Abstract!Settle(Of(h))
    BY <2>1, <2>2, <2>3, <2>4 DEF Abstract!Settle, Abstract!Confirmed
  <2> QED BY <2>1, <2>5 DEF Abstract!Next
<1>3. ASSUME NEW h \in Handlers, MarkFailed(h) PROVE [Abstract!Next]_(Abstract!vars)
  <2>1. Of(h) \in Attempts BY <1>3 DEF MarkFailed, IInv, JobInv
  <2>2. UNCHANGED <<orders, posted>> BY <1>3 DEF MarkFailed, Paid
  <2>3. Succeeded' = Succeeded \ {Of(h)}
    BY <1>3, <2>1 DEF MarkFailed, Succeeded, IInv, TypeOK
  <2>4. Abstract!Withdraw(Of(h)) BY <2>2, <2>3 DEF Abstract!Withdraw
  <2> QED BY <2>1, <2>4 DEF Abstract!Next
<1>4. ASSUME NEW h \in Handlers, SkipDuplicate(h) \/ MarkProcessed(h)
      PROVE  [Abstract!Next]_(Abstract!vars)
  <2>1. UNCHANGED <<Succeeded, posted>>
    BY <1>4 DEF SkipDuplicate, MarkProcessed, Succeeded
  <2>2. \A e \in Events :
          \/ event'[e] = event[e]
          \/ e = job[h] /\ event'[e] = "acked" /\ event[e] # "none"
    BY <1>4 DEF SkipDuplicate, MarkProcessed, Acknowledge, IInv, TypeOK, JobInv
  <2>3. \A a \in Attempts : Paid(a)' <=> Paid(a) BY <2>2, Kinds DEF Paid, Captured
  <2>4. orders' = orders BY <2>3
  <2> QED BY <2>1, <2>4 DEF Abstract!vars
<1>5. CASE UNCHANGED <<event, attempt, posted>>
  BY <1>5 DEF Abstract!vars, Paid, Succeeded
<1>6. ASSUME NEW h \in Handlers,
             \/ \E e \in Events : Receive(h, e)
             \/ NotDuplicate(h) \/ Store(h) \/ Find(h) \/ StartVerify(h)
             \/ ProviderConfirms(h) \/ ProviderDenies(h) \/ Refuse(h) \/ Crash(h)
      PROVE  UNCHANGED <<event, attempt, posted>>
  BY <1>6 DEF Receive, NotDuplicate, Store, Find, StartVerify, ProviderConfirms,
              ProviderDenies, Refuse, Crash
<1>7. CASE UNCHANGED vars BY <1>5, <1>7 DEF vars
<1> QED BY <1>1, <1>2, <1>3, <1>4, <1>5, <1>6, <1>7 DEF Next, Work

(* The handlers collect payments as Settlement promises: settling happens  *)
(* at once, for a payment the provider knows, with no sibling settled.     *)
THEOREM WebhookImplementsSettlement == Spec => Settles
BY InitSettles, StepSettles, Invariant, PTL DEF Spec, Settles, Abstract!Spec
=============================================================================

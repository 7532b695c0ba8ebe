------------------------------ MODULE Webhook ------------------------------
(***************************************************************************)
(* The webhooks of one transaction's providers, from delivery to           *)
(* acknowledgement.                                                        *)
(*                                                                         *)
(*   WebhookService  handleStripeWebhook, handleRazorpayWebhook and the    *)
(*                   payment branches of processStripeEvent and            *)
(*                   processRazorpayEvent, upsertWebhookLog                *)
(*   verifyPayment   as the handlers call it; its database transaction is  *)
(*                   one step here (Payment takes it apart)                *)
(*                                                                         *)
(* A provider delivers an event again and again until it is acknowledged,  *)
(* and may deliver it once more after that.  Several replicas handle       *)
(* deliveries at the same time.  Subscription events are not modelled.     *)
(***************************************************************************)
EXTENDS Naturals

CONSTANTS
  Attempts,   \* the attempts, each with an order of its own
  Strangers,  \* orders the provider knows and no attempt points to
  Handlers,   \* deliveries in progress
  None        \* no event

ASSUME WebhookAssumption ==
  /\ Attempts \cap Strangers = {}
  /\ None \notin {"captured", "failed"} \X (Attempts \cup Strangers)

(* checkout.session.completed, payment_intent.succeeded, payment.captured; *)
(* payment_intent.payment_failed, payment.failed.  One event stands for    *)
(* all that may be told of a stranger.                                     *)
Events == ({"captured", "failed"} \X Attempts) \cup ({"captured"} \X Strangers)

VARIABLES
  event,    \* an event at its provider: "none", "sent" or "acked"
  log,      \* its WebhookLog row: "none", "stored" or "processed"
  attempt,  \* PaymentAttempt.status
  posted,   \* PAYMENT ledger entries per attempt
  pc,       \* where a handler is
  job,      \* the event it handles
  tagged,   \* attempts whose captures name their transaction, as they must
  overlapped \* have two deliveries ever been in progress at the same time?

vars == <<event, log, attempt, posted, pc, job, tagged, overlapped>>

Of(h) == job[h][2]
Paid(a) == event[<<"captured", a>>] # "none"
Succeeded == {a \in Attempts : attempt[a] = "SUCCESS"}

Init ==
  /\ event = [e \in Events |-> "none"]
  /\ log = [e \in Events |-> "none"]
  /\ attempt = [a \in Attempts |-> "PENDING"]
  /\ posted = [a \in Attempts |-> 0]
  /\ pc = [h \in Handlers |-> "idle"]
  /\ job = [h \in Handlers |-> None]
  /\ tagged \in SUBSET Attempts
  /\ overlapped = FALSE

Goto(h, label) == pc' = [pc EXCEPT ![h] = label]
Respond(h) == Goto(h, "idle") /\ job' = [job EXCEPT ![h] = None]

-----------------------------------------------------------------------------
(* The provider                                                            *)

(* The customer pays an order, or fails to; one may follow the other, and  *)
(* their events travel apart.                                              *)
Happens(e) ==
  /\ event[e] = "none"
  /\ event' = [event EXCEPT ![e] = "sent"]
  /\ UNCHANGED <<log, attempt, posted, pc, job, tagged, overlapped>>

(* A delivery that passes the signature check; others touch nothing.       *)
Receive(h, e) ==
  /\ pc[h] = "idle"
  /\ event[e] # "none"
  /\ Goto(h, "received") /\ job' = [job EXCEPT ![h] = e]
  /\ overlapped' = (overlapped \/ \E g \in Handlers : pc[g] # "idle")
  /\ UNCHANGED <<event, log, attempt, posted, tagged>>

-----------------------------------------------------------------------------
(* handleStripeWebhook, handleRazorpayWebhook                              *)

Acknowledge(h) ==
  \/ event' = [event EXCEPT ![job[h]] = "acked"]
  \/ UNCHANGED event   \* the response is lost on its way

(* Mutant: a stored event counts as a duplicate, whether processed or not. *)
SkipDuplicate_Stored(h) ==
  /\ pc[h] = "received"
  /\ log[job[h]] # "none"
  /\ Acknowledge(h) /\ Respond(h)
  /\ UNCHANGED <<log, attempt, posted, tagged, overlapped>>

(* findUnique on the event id: isProcessed is skipped.                     *)
SkipDuplicate(h) ==
  /\ pc[h] = "received"
  /\ log[job[h]] = "processed"
  /\ Acknowledge(h) /\ Respond(h)
  /\ UNCHANGED <<log, attempt, posted, tagged, overlapped>>

NotDuplicate(h) ==
  /\ pc[h] = "received"
  /\ log[job[h]] # "processed"
  /\ Goto(h, "storing")
  /\ UNCHANGED <<event, log, attempt, posted, job, tagged, overlapped>>

(* upsertWebhookLog; the update branch leaves isProcessed as it is.        *)
Store(h) ==
  /\ pc[h] = "storing"
  /\ log' = [log EXCEPT ![job[h]] = IF @ = "none" THEN "stored" ELSE @]
  /\ Goto(h, "finding")
  /\ UNCHANGED <<event, attempt, posted, job, tagged, overlapped>>

(* A capture whose PaymentIntent names no transaction in its metadata, and *)
(* whatever findByProviderOrderId finds no attempt for, has been processed *)
(* with that; a failure is written at once; a capture goes on to           *)
(* verifyPayment.  What is awaited before that, the attempt and its        *)
(* tenant, does not change any more.                                       *)
Ignored(e) == e[2] \notin Attempts \/ (e[1] = "captured" /\ e[2] \notin tagged)

Find(h) ==
  /\ pc[h] = "finding"
  /\ Goto(h, IF Ignored(job[h]) THEN "processed"
             ELSE IF job[h][1] = "failed" THEN "failing" ELSE "verifying")
  /\ UNCHANGED <<event, log, attempt, posted, job, tagged, overlapped>>

(* Mutant: verifyPayment asks again about an attempt that is SUCCESS. *)
StartVerify_Again(h) ==
  /\ pc[h] = "verifying"
  /\ Goto(h, IF attempt[Of(h)] = "FAILED" THEN "processed" ELSE "asking")
  /\ UNCHANGED <<event, log, attempt, posted, job, tagged, overlapped>>

(* verifyPayment: its early returns, which the handler takes for success.  *)
StartVerify(h) ==
  /\ pc[h] = "verifying"
  /\ Goto(h, IF attempt[Of(h)] \in {"SUCCESS", "FAILED"} THEN "processed" ELSE "asking")
  /\ UNCHANGED <<event, log, attempt, posted, job, tagged, overlapped>>

ProviderConfirms(h) ==
  /\ pc[h] = "asking"
  /\ Paid(Of(h))
  /\ Goto(h, "settling")
  /\ UNCHANGED <<event, log, attempt, posted, job, tagged, overlapped>>

(* A lookup that failed, answered as a payment that did not succeed.       *)
ProviderDenies(h) ==
  /\ pc[h] = "asking"
  /\ Goto(h, "failing")
  /\ UNCHANGED <<event, log, attempt, posted, job, tagged, overlapped>>

(* Mutant: no other SUCCESS of the transaction is looked for. *)
Settle_Unchecked(h) ==
  /\ pc[h] = "settling"
  /\ attempt' = [b \in Attempts |-> CASE b = Of(h) -> "SUCCESS"
                                      [] b # Of(h) /\ attempt[b] = "PENDING" -> "CANCELLED"
                                      [] OTHER -> attempt[b]]
  /\ posted' = [posted EXCEPT ![Of(h)] = @ + 1]
  /\ Goto(h, "processed")
  /\ UNCHANGED <<event, log, job, tagged, overlapped>>

(* The database transaction of verifyPayment, which refuses a second       *)
(* SUCCESS and settles the same one again.                                 *)
Settle(h) ==
  /\ pc[h] = "settling"
  /\ Succeeded \subseteq {Of(h)}
  /\ attempt' = [b \in Attempts |-> CASE b = Of(h) -> "SUCCESS"
                                      [] b # Of(h) /\ attempt[b] = "PENDING" -> "CANCELLED"
                                      [] OTHER -> attempt[b]]
  /\ posted' = [posted EXCEPT ![Of(h)] = @ + 1]
  /\ Goto(h, "processed")
  /\ UNCHANGED <<event, log, job, tagged, overlapped>>

(* markFailed, of the failure branches and of verifyPayment.               *)
MarkFailed(h) ==
  /\ pc[h] = "failing"
  /\ attempt' = [attempt EXCEPT ![Of(h)] = "FAILED"]
  /\ Goto(h, "processed")
  /\ UNCHANGED <<event, log, posted, job, tagged, overlapped>>

(* Mutant: the answer goes out before the event is processed. *)
MarkProcessed_Early(h) ==
  /\ pc[h] \in {"verifying", "processed"}
  /\ log' = [log EXCEPT ![job[h]] = "processed"]
  /\ Acknowledge(h) /\ Respond(h)
  /\ UNCHANGED <<attempt, posted, tagged, overlapped>>

(* isProcessed is set and the provider gets its 200.                       *)
MarkProcessed(h) ==
  /\ pc[h] = "processed"
  /\ log' = [log EXCEPT ![job[h]] = "processed"]
  /\ Acknowledge(h) /\ Respond(h)
  /\ UNCHANGED <<attempt, posted, tagged, overlapped>>

(* markSuccess throws ConflictException: the error is logged, the provider *)
(* gets no 200.                                                            *)
Refuse(h) ==
  /\ pc[h] = "settling"
  /\ ~(Succeeded \subseteq {Of(h)})
  /\ Respond(h)
  /\ UNCHANGED <<event, log, attempt, posted, tagged, overlapped>>

(* Any other exception, which is answered the same way, or a restart.      *)
Crash(h) ==
  /\ pc[h] # "idle" /\ (pc[h] = "settling" => Succeeded \subseteq {Of(h)})
  /\ Respond(h)
  /\ UNCHANGED <<event, log, attempt, posted, tagged, overlapped>>

Work(h) ==
  \/ SkipDuplicate(h) \/ NotDuplicate(h) \/ Store(h) \/ Find(h)
  \/ StartVerify(h) \/ ProviderConfirms(h) \/ ProviderDenies(h)
  \/ Settle(h) \/ Refuse(h) \/ MarkFailed(h) \/ MarkProcessed(h)

Next ==
  \/ \E e \in Events : Happens(e)
  \/ \E h \in Handlers : (\E e \in Events : Receive(h, e)) \/ Work(h) \/ Crash(h)

Spec == Init /\ [][Next]_vars

(* A provider repeats an event until it is acknowledged, a handler goes on *)
(* with its work, and crashes end at some time.                            *)
Fairness ==
  /\ \A e \in Events :
       SF_vars(\E h \in Handlers : event[e] # "acked" /\ Receive(h, e))
  /\ \A h \in Handlers : WF_vars(Work(h))
  /\ <>[][\A h \in Handlers : ~Crash(h)]_vars

FairSpec == Spec /\ Fairness

-----------------------------------------------------------------------------
(* Properties                                                              *)

TypeOK ==
  /\ event \in [Events -> {"none", "sent", "acked"}]
  /\ log \in [Events -> {"none", "stored", "processed"}]
  /\ attempt \in [Attempts -> {"PENDING", "SUCCESS", "FAILED", "CANCELLED"}]
  /\ posted \in [Attempts -> Nat]
  /\ pc \in [Handlers -> {"idle", "received", "storing", "finding", "verifying", "asking",
                          "settling", "failing", "processed"}]
  /\ job \in [Handlers -> Events \cup {None}]
  /\ tagged \subseteq Attempts
  /\ overlapped \in BOOLEAN

(* An event is acknowledged only when its work is done for good: the       *)
(* capture, if its metadata names the transaction, is booked or its        *)
(* attempt FAILED, and later duplicates, which are skipped, find it so.    *)
AcknowledgedIsHandled ==
  \A a \in tagged :
    event[<<"captured", a>>] = "acked" => posted[a] > 0 \/ attempt[a] = "FAILED"

(* "Idempotent processing": as long as no two deliveries have overlapped,  *)
(* a payment is booked once, however often its events come and wherever a  *)
(* handler dies.                                                           *)
BookedOnce == \A a \in Attempts : posted[a] <= 1
BookedOnceInTurn == ~overlapped => BookedOnce

(* Every event is processed in the end.  The capture of an order whose     *)
(* sibling has been settled is the exception: its handler throws each time.*)
EventIsProcessed ==
  \A e \in Events : event[e] # "none" ~>
    \/ log[e] = "processed"
    \/ e[1] = "captured" /\ \E b \in Attempts \ {e[2]} : posted[b] > 0

(* "We never lose events": an acknowledged capture is in the ledger.       *)
CaptureIsBooked ==
  \A a \in Attempts : event[<<"captured", a>>] = "acked" => posted[a] > 0

(* The handlers keep the promise of Settlement.                            *)
Abstract == INSTANCE Settlement WITH
  Orders <- Attempts, OrderOf <- LAMBDA a : a, Offline <- {},
  paid <- {a \in Attempts : Paid(a)},
  settled <- Succeeded,
  books <- posted
Settles == Abstract!Spec
=============================================================================

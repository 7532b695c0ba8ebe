-------------------------------- MODULE Sync --------------------------------
(***************************************************************************)
(* The Subscription row that mirrors a subscription the provider manages.  *)
(*                                                                         *)
(*   SubscriptionService         syncExternalSubscription,                 *)
(*                               cancelSubscription                        *)
(*   WebhookService              syncStripeSubscription,                   *)
(*                               syncRazorpaySubscription                  *)
(*   PaymentOrchestratorService  syncRecurringSubscriptionOnSuccess        *)
(*   PlanService                 deactivate                                *)
(*                                                                         *)
(* The provider's subscription changes, each change is an event, and every *)
(* event carries the state it reports.  Replicas handle deliveries at the  *)
(* same time; verifyPayment brings a state of its own, read while it runs. *)
(* Periods are numbered from 1, and a row holds the number of its current  *)
(* one; 0 is a state that the provider reports without the period's bounds.*)
(*                                                                         *)
(* The subscription belongs to "own", a tenant.  An event says so only if  *)
(* the metadata given to the provider did; if not, its row is one of the   *)
(* default tenant.  Stripe is never given the tenant, Razorpay is if the   *)
(* caller's metadata has it.  The plan is in the caller's metadata, too,   *)
(* which may lack it; the customer is always named.                        *)
(***************************************************************************)
EXTENDS Naturals, Sequences

CONSTANTS
  Handlers,    \* deliveries and verifications in progress
  Reported,    \* the statuses the provider reports, of Statuses
  Deduped,     \* does a delivery of the same event carry the same event id?
  PlanCloses,  \* may an administrator deactivate the plan?
  MaxChanges, MaxRows, MaxCancels, MaxCrashes  \* bounds

Statuses == {"trialing", "active", "past_due", "paused", "canceled"}

ASSUME SyncAssumption ==
  /\ Reported \subseteq Statuses
  /\ {Deduped, PlanCloses} \subseteq BOOLEAN
  /\ {MaxChanges, MaxRows, MaxCancels, MaxCrashes} \subseteq Nat

VARIABLES
  named,       \* do the provider's events name the tenant?
  planned,     \* do they and the transaction name the plan?
  history,     \* the states the provider's subscription has gone through
  acked,       \* events answered with a 200
  processed,   \* events whose WebhookLog row has isProcessed
  written,     \* events that a delivery of theirs has written to a row
  rows,        \* Subscription rows with this providerSubscriptionId
  planActive,  \* Plan.isActive
  verified,    \* is the attempt SUCCESS, so that verifyPayment returns early?
  pc, job,     \* where a handler is, and what it works on
  found,       \* the row findFirst gave it
  cancelling,  \* what cancelSubscription has read
  cancels,     \* calls of cancelSubscription so far
  crashes,     \* deliveries and responses lost so far
  disturbed    \* has a delivery overlapped another handler or overtaken an event?

handlerVars == <<pc, job, found>>
cancelVars == <<cancelling, cancels>>
auxVars == <<named, planned, crashes, disturbed>>
vars == <<history, acked, processed, written, rows, planActive, verified, handlerVars, cancelVars,
          auxVars>>

(* mapStripeStatus and mapRazorpayStatus, with the statuses they treat     *)
(* alike named once: incomplete and unpaid are past_due, authenticated is  *)
(* trialing, halted is past_due, completed is canceled.                    *)
MapStatus == [s \in Statuses |->
  CASE s = "trialing" -> "TRIALING"
    [] s = "active"   -> "ACTIVE"
    [] s = "past_due" -> "PAST_DUE"
    [] s = "canceled" -> "CANCELLED"
    [] OTHER          -> "UNSUPPORTED"]

Events == DOMAIN history
Latest == history[Len(history)]
NoJob == [kind |-> "none", version |-> 0]
State(h) == history[job[h].version]

(* What a row cannot be written without, whatever the status; and with it. *)
Complete(state) == planned /\ state.end # 0
Storable(state) == Complete(state) /\ MapStatus[state.status] # "UNSUPPORTED"

Tenant(h) == IF job[h].kind = "verify" \/ named THEN "own" ELSE "default"
NobodyCancels == [row |-> 0, end |-> 0]

Init ==
  /\ named \in BOOLEAN /\ planned \in BOOLEAN
  /\ history = <<>> /\ acked = {} /\ processed = {} /\ written = {}
  /\ rows = <<>>
  /\ planActive = TRUE /\ verified = FALSE
  /\ pc = [h \in Handlers |-> "idle"]
  /\ job = [h \in Handlers |-> NoJob]
  /\ found = [h \in Handlers |-> 0]
  /\ cancelling = NobodyCancels /\ cancels = 0 /\ crashes = 0
  /\ disturbed = FALSE

Goto(h, label) == pc' = [pc EXCEPT ![h] = label]
Busy == \E h \in Handlers : pc[h] # "idle"
EndJob(h) ==
  /\ Goto(h, "idle")
  /\ job' = [job EXCEPT ![h] = NoJob] /\ found' = [found EXCEPT ![h] = 0]

-----------------------------------------------------------------------------
(* The provider, the administrator and the customer                        *)

(* The provider's subscription is created, renewed, paused, canceled.      *)
Change(status) ==
  /\ Len(history) < MaxChanges
  /\ IF history = <<>> THEN status \in {"trialing", "active", "past_due"}
                        ELSE Latest.status # "canceled"
  /\ \E end \in 0..(Len(history) + 1) :
       /\ end = 0 \/ \A e \in Events : history[e].end <= end
       /\ history' = Append(history, [status |-> status, end |-> end])
  /\ UNCHANGED <<acked, processed, written, rows, planActive, verified, handlerVars, cancelVars,
                 auxVars>>

DeactivatePlan ==
  /\ PlanCloses /\ planActive
  /\ planActive' = FALSE
  /\ UNCHANGED <<history, acked, processed, written, rows, verified, handlerVars, cancelVars,
                 auxVars>>

(* cancelSubscription: findFirst and the check ...                         *)
StartCancel(i) ==
  /\ cancelling = NobodyCancels /\ cancels < MaxCancels
  /\ rows[i].status # "CANCELLED"
  /\ cancelling' = [row |-> i, end |-> rows[i].end]
  /\ cancels' = cancels + 1
  /\ UNCHANGED <<history, acked, processed, written, rows, planActive, verified, handlerVars,
                 auxVars>>

(* ... and the update, with the end it has read or, 0, the time it is.     *)
(* The provider is not told.                                               *)
Cancel ==
  /\ cancelling # NobodyCancels
  /\ \E end \in {cancelling.end, 0} :
       rows' = [rows EXCEPT ![cancelling.row].status = "CANCELLED", ![cancelling.row].end = end]
  /\ cancelling' = NobodyCancels
  /\ UNCHANGED <<history, acked, processed, written, planActive, verified, handlerVars, cancels,
                 auxVars>>

-----------------------------------------------------------------------------
(* Where a synchronisation comes from                                      *)

(* A delivery, the first of its event or a repetition.                     *)
Receive(h, e) ==
  /\ pc[h] = "idle"
  /\ disturbed' = (disturbed \/ Busy \/ ~(1..(e - 1) \subseteq acked))
  /\ job' = [job EXCEPT ![h] = [kind |-> "event", version |-> e]]
  /\ Goto(h, "received")
  /\ UNCHANGED <<history, acked, processed, written, rows, planActive, verified, found,
                 cancelVars, named, planned, crashes>>

(* findUnique on the event id, which finds nothing when the id contains    *)
(* the time of the delivery.                                               *)
IsDuplicate(h) == Deduped /\ job[h].version \in processed

SkipDuplicate(h) ==
  /\ pc[h] = "received"
  /\ IsDuplicate(h)
  /\ Goto(h, "answering")
  /\ UNCHANGED <<history, acked, processed, written, rows, planActive, verified, job, found,
                 cancelVars, auxVars>>

(* Mutant: the event is looked up and the answer not looked at. *)
Accept_Duplicate(h) ==
  /\ pc[h] = "received"
  /\ Goto(h, IF Storable(State(h)) THEN "plan" ELSE "done")
  /\ UNCHANGED <<history, acked, processed, written, rows, planActive, verified, job, found,
                 cancelVars, auxVars>>

(* An event of an unsupported status, or without a plan or the bounds of   *)
(* its period, counts as processed, and changes nothing.                   *)
Accept(h) ==
  /\ pc[h] = "received"
  /\ ~IsDuplicate(h)
  /\ Goto(h, IF Storable(State(h)) THEN "plan" ELSE "done")
  /\ UNCHANGED <<history, acked, processed, written, rows, planActive, verified, job, found,
                 cancelVars, auxVars>>

(* verifyPayment has the provider's word and its subscription.             *)
StartVerify(h) ==
  /\ pc[h] = "idle"
  /\ history # <<>> /\ ~verified
  /\ disturbed' = (disturbed \/ Busy)
  /\ job' = [job EXCEPT ![h] = [kind |-> "verify", version |-> Len(history)]]
  /\ Goto(h, "plan")
  /\ UNCHANGED <<history, acked, processed, written, rows, planActive, verified, found,
                 cancelVars, named, planned, crashes>>

-----------------------------------------------------------------------------
(* syncExternalSubscription                                                *)

(* Two verifications of the attempt do not come here together: the first   *)
(* holds the attempt's row lock until its transaction ends.                *)
Locked(h) ==
  /\ job[h].kind = "verify"
  /\ \E g \in Handlers \ {h} : job[g].kind = "verify" /\ pc[g] \in {"find", "update", "create"}

(* Without a plan or the bounds of the period, the verification succeeds   *)
(* and writes no row.                                                      *)
SkipSync(h) ==
  /\ pc[h] = "plan" /\ ~Locked(h)
  /\ ~Complete(State(h))
  /\ EndJob(h)
  /\ verified' = TRUE
  /\ UNCHANGED <<history, acked, processed, written, rows, planActive, cancelVars, auxVars>>

(* getActivePlanOrThrow: an inactive plan throws, whatever the event says; *)
(* the delivery gets no 200, the verification is rolled back.              *)
CheckPlan(h) ==
  /\ pc[h] = "plan" /\ ~Locked(h)
  /\ Complete(State(h))
  /\ IF planActive THEN Goto(h, "find") /\ UNCHANGED <<job, found>> ELSE EndJob(h)
  /\ UNCHANGED <<history, acked, processed, written, rows, planActive, verified, cancelVars,
                 auxVars>>

Mine(h) == {i \in DOMAIN rows : rows[i].tenant = Tenant(h)}

Find(h, candidates) ==
  /\ pc[h] = "find"
  /\ \/ candidates = {} /\ Goto(h, "create") /\ UNCHANGED found
     \/ \E i \in candidates : Goto(h, "update") /\ found' = [found EXCEPT ![h] = i]
  /\ UNCHANGED <<history, acked, processed, written, rows, planActive, verified, job,
                 cancelVars, auxVars>>

(* Mutant: the row is looked up among the ones that are not CANCELLED. *)
FindRow_Alive(h) == Find(h, {i \in Mine(h) : rows[i].status # "CANCELLED"})

(* findFirst among the tenant's rows, with no order among several.         *)
FindRow(h) == Find(h, Mine(h))

(* An event's status is supported here.  A verification gives an           *)
(* unsupported one the default of resolveSubscriptionStatus.               *)
StatusFor(state, status) ==
  IF MapStatus[state.status] # "UNSUPPORTED"
  THEN status = MapStatus[state.status]
  ELSE status \in {"TRIALING", "ACTIVE"}

(* A webhook goes on to MarkProcessed; a verification commits.             *)
Written(h) ==
  IF job[h].kind = "event"
  THEN Goto(h, "done") /\ written' = written \cup {job[h].version}
       /\ UNCHANGED <<job, found, verified>>
  ELSE EndJob(h) /\ verified' = TRUE /\ UNCHANGED written

(* Mutant: the end of the period is left as it is. *)
UpdateRow_StatusOnly(h) ==
  /\ pc[h] = "update"
  /\ \E status \in {"TRIALING", "ACTIVE", "PAST_DUE", "CANCELLED"} :
       /\ StatusFor(State(h), status)
       /\ rows' = [rows EXCEPT ![found[h]].status = status]
  /\ Written(h)
  /\ UNCHANGED <<history, acked, processed, planActive, cancelVars, auxVars>>

(* The update writes all of the state, whatever the row holds by now.      *)
UpdateRow(h) ==
  /\ pc[h] = "update"
  /\ \E status \in {"TRIALING", "ACTIVE", "PAST_DUE", "CANCELLED"} :
       /\ StatusFor(State(h), status)
       /\ rows' = [rows EXCEPT ![found[h]].status = status, ![found[h]].end = State(h).end]
  /\ Written(h)
  /\ UNCHANGED <<history, acked, processed, planActive, cancelVars, auxVars>>

CreateRow(h) ==
  /\ pc[h] = "create" /\ Len(rows) < MaxRows
  /\ \E status \in {"TRIALING", "ACTIVE", "PAST_DUE", "CANCELLED"} :
       /\ StatusFor(State(h), status)
       /\ rows' = Append(rows, [tenant |-> Tenant(h), status |-> status, end |-> State(h).end])
  /\ Written(h)
  /\ UNCHANGED <<history, acked, processed, planActive, cancelVars, auxVars>>

-----------------------------------------------------------------------------
(* The end of a delivery                                                   *)

(* Mutant: the event is marked before the row is written. *)
MarkProcessed_Early(h) ==
  /\ pc[h] \in {"plan", "done"} /\ job[h].kind = "event"
  /\ processed' = processed \cup {job[h].version}
  /\ Goto(h, "answering")
  /\ UNCHANGED <<history, acked, written, rows, planActive, verified, job, found, cancelVars,
                 auxVars>>

MarkProcessed(h) ==
  /\ pc[h] = "done"
  /\ processed' = processed \cup {job[h].version}
  /\ Goto(h, "answering")
  /\ UNCHANGED <<history, acked, written, rows, planActive, verified, job, found, cancelVars,
                 auxVars>>

Respond(h) ==
  /\ pc[h] = "answering"
  /\ acked' = acked \cup {job[h].version}
  /\ EndJob(h)
  /\ UNCHANGED <<history, processed, written, rows, planActive, verified, cancelVars, auxVars>>

(* An exception, a restart or a response lost on its way; a verification's *)
(* transaction is rolled back.                                             *)
Crash(h) ==
  /\ pc[h] # "idle"
  /\ crashes < MaxCrashes /\ crashes' = crashes + 1
  /\ EndJob(h)
  /\ UNCHANGED <<history, acked, processed, written, rows, planActive, verified, cancelVars,
                 named, planned, disturbed>>

Work(h) ==
  \/ SkipDuplicate(h) \/ Accept(h) \/ SkipSync(h) \/ CheckPlan(h) \/ FindRow(h)
  \/ UpdateRow(h) \/ CreateRow(h) \/ MarkProcessed(h) \/ Respond(h)

Next ==
  \/ \E status \in Reported : Change(status)
  \/ DeactivatePlan \/ Cancel \/ \E i \in DOMAIN rows : StartCancel(i)
  \/ \E h \in Handlers : (\E e \in Events : Receive(h, e)) \/ StartVerify(h) \/ Work(h) \/ Crash(h)

Spec == Init /\ [][Next]_vars

-----------------------------------------------------------------------------
(* Properties                                                              *)

Row == [tenant : {"own", "default"}, status : {"TRIALING", "ACTIVE", "PAST_DUE", "CANCELLED"},
        end : Nat]

TypeOK ==
  /\ named \in BOOLEAN /\ planned \in BOOLEAN
  /\ history \in Seq([status : Reported, end : Nat])
  /\ {acked, processed, written} \subseteq SUBSET Events
  /\ rows \in Seq(Row)
  /\ planActive \in BOOLEAN /\ verified \in BOOLEAN
  /\ pc \in [Handlers -> {"idle", "received", "plan", "find", "update", "create", "done",
                         "answering"}]
  /\ job \in [Handlers -> [kind : {"none", "event", "verify"}, version : {0} \cup Events]]
  /\ found \in [Handlers -> {0} \cup DOMAIN rows]
  /\ cancelling \in [row : {0} \cup DOMAIN rows, end : Nat]
  /\ cancels \in Nat /\ crashes \in Nat /\ disturbed \in BOOLEAN

(* No row mixes two of the provider's states: its status and its period    *)
(* were one state of the subscription, unless a customer has cancelled.    *)
RowsAreTold ==
  \A i \in DOMAIN rows :
    \/ \E e \in Events : /\ Complete(history[e]) /\ rows[i].end = history[e].end
                         /\ StatusFor(history[e], rows[i].status)
    \/ rows[i].status = "CANCELLED" /\ cancels > 0

(* "Stored BEFORE processing - ensures we never lose events": an event that *)
(* was answered, or is skipped from now on, has itself been written to a   *)
(* row by one of its deliveries, if it could be.                           *)
AcknowledgedIsStored ==
  \A e \in acked \cup processed : Storable(history[e]) => e \in written

(* Once every event is answered and nothing is in progress, the row that   *)
(* the events are for is what the provider's subscription is, unless a     *)
(* customer has cancelled.                                                 *)
EventTenant == IF named THEN "own" ELSE "default"
Settled == history # <<>> /\ acked = Events /\ ~Busy /\ cancels = 0
SaysLatest(r) == r.status = MapStatus[Latest.status] /\ r.end = Latest.end
Mirrors ==
  Settled /\ Storable(Latest) =>
    \A i \in DOMAIN rows : rows[i].tenant = EventTenant => SaysLatest(rows[i])

(* It holds as long as deliveries neither overlap nor overtake, wherever a *)
(* handler dies: late duplicates do not set the row back.                  *)
MirrorsInTurn == ~disturbed => Mirrors

(* One subscription of the provider is one row, and "duplicates skipped":  *)
(* however often its events come, a second row is never created, for as    *)
(* long as the events name the tenant; if not, none is created of one      *)
(* tenant.                                                                 *)
OneRow == \A i, j \in DOMAIN rows : named \/ rows[i].tenant = rows[j].tenant => i = j
OneRowInTurn == ~disturbed => OneRow

(* What the subscription's own tenant sees of it is what it is.  This      *)
(* fails when the events do not name him: sync_tenant.cfg.                 *)
OwnMirrorsInTurn ==
  ~disturbed /\ Settled /\ Storable(Latest) =>
    \A i \in DOMAIN rows : rows[i].tenant = "own" => SaysLatest(rows[i])

(* The lifecycle has no way back from CANCELLED.                           *)
CancelledIsFinal ==
  [][\A i \in DOMAIN rows : rows[i].status = "CANCELLED" => rows'[i].status = "CANCELLED"]_rows
=============================================================================

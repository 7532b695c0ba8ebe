------------------------------ MODULE Renewal ------------------------------
(***************************************************************************)
(* The life of one subscription.                                           *)
(*                                                                         *)
(*   SubscriptionService           processRenewal, findDueForRenewal,      *)
(*                                 cancelSubscription,                     *)
(*                                 updateSubscriptionPlan, and the update  *)
(*                                 of syncExternalSubscription             *)
(*   SubscriptionRenewalProcessor  process, and BullMQ's retries           *)
(*   BillingService                createInvoice, issueInvoice, as they    *)
(*                                 are called here (Billing has their own) *)
(*                                                                         *)
(* Time is counted in billing periods.  Every await of processRenewal is a *)
(* step; nothing of it runs in a database transaction.  Whoever schedules  *)
(* the jobs is outside the repository: he is taken to enqueue what         *)
(* findDueForRenewal returns, and BullMQ delivers at least once.           *)
(*                                                                         *)
(* A subscription may be managed by a provider, who bills every period     *)
(* when it begins and tells of it in an event.  Its row is found due and   *)
(* is renewed here like any other (Sync takes its events apart).           *)
(***************************************************************************)
EXTENDS Integers, Sequences, FiniteSets, Functions

CONSTANTS
  Workers,      \* worker slots that process renewal jobs
  Trial,        \* periods of trial before the first one that is billed
  Grace,        \* SUBSCRIPTION_GRACE_PERIOD_DAYS, in periods
  MaxRetries,   \* subscriptionMaxRetries
  Plans, FirstPlan, \* plans, each of an amount of its own
  NoPlan,       \* none of them
  Managed,      \* may the subscription be managed by a provider, or not be?
  MaxTime, MaxQueue, MaxInvoices, MaxUpsets \* bounds

ASSUME RenewalAssumption ==
  /\ Trial \in Nat /\ Grace \in Nat /\ MaxRetries \in Nat
  /\ FirstPlan \in Plans /\ NoPlan \notin Plans /\ Managed \subseteq BOOLEAN
  /\ {MaxTime, MaxQueue, MaxInvoices, MaxUpsets} \subseteq Nat

VARIABLES
  now,           \* the clock
  sub,           \* the Subscription row
  managed, told, \* is it a provider's, and how many periods has that told of?
  over,          \* has the provider told of its end?
  cycles,        \* SubscriptionCycle rows, in the order of their creation
  invoices,      \* invoices and the stretch of time each is for
  queued,        \* renewal jobs waiting in the queue
  pc, snap,      \* where a worker is, and the Subscription row it has read
  cyc, inv,      \* its cycle and its invoice, 0 for none
  exceeds,       \* has its cycle reached MaxRetries?
  cancelEnd,     \* what cancelSubscription has read, -1 while nobody cancels
  newPlan,       \* the plan updateSubscriptionPlan is to write
  cancels,       \* calls of cancelSubscription so far
  upsets,        \* these, the provider's, changes of plan, failures, events that
                 \* are repeated or late, and jobs begun beside another one
  repriced,      \* has the plan changed while a renewal was under way?
  overlapped,    \* have two jobs ever been in progress at the same time?
  crossed        \* has an event come again, after a later one, or during a renewal?

jobVars == <<snap, cyc, inv, exceeds>>
workerVars == <<pc, jobVars>>
cancelVars == <<cancelEnd, cancels>>
changeVars == <<newPlan, repriced>>
providerVars == <<managed, told, over, crossed>>
callerVars == <<cancelVars, changeVars, providerVars>>
vars == <<now, sub, cycles, invoices, queued, workerVars, callerVars, upsets, overlapped>>

Renewable == {"ACTIVE", "PAST_DUE", "TRIALING"}

(* findDueForRenewal *)
Due == sub.status \in {"ACTIVE", "PAST_DUE"} /\ sub.end <= now

(* createSubscription: the first period starts when the trial ends.        *)
Created == [status |-> IF Trial > 0 THEN "TRIALING" ELSE "ACTIVE",
            start |-> Trial, end |-> Trial + 1, plan |-> FirstPlan]

Init ==
  /\ now = 0
  /\ sub = Created
  /\ cycles = <<>> /\ invoices = <<>>
  /\ queued = 0
  /\ pc = [w \in Workers |-> "idle"]
  /\ snap = [w \in Workers |-> Created]
  /\ cyc = [w \in Workers |-> 0] /\ inv = [w \in Workers |-> 0]
  /\ exceeds = [w \in Workers |-> FALSE]
  /\ cancelEnd = -1 /\ cancels = 0 /\ upsets = 0
  /\ newPlan = NoPlan /\ repriced = FALSE
  /\ managed \in Managed /\ told = Trial + 1 /\ over = FALSE /\ crossed = FALSE
  /\ overlapped = FALSE

Upset == upsets < MaxUpsets /\ upsets' = upsets + 1
Goto(w, label) == pc' = [pc EXCEPT ![w] = label]
EndJob(w) ==
  /\ Goto(w, "idle")
  /\ snap' = [snap EXCEPT ![w] = Created]
  /\ cyc' = [cyc EXCEPT ![w] = 0] /\ inv' = [inv EXCEPT ![w] = 0]
  /\ exceeds' = [exceeds EXCEPT ![w] = FALSE]

-----------------------------------------------------------------------------
(* The clock, the queue and the customer                                   *)

Tick ==
  /\ now < MaxTime
  /\ now' = now + 1
  /\ UNCHANGED <<sub, cycles, invoices, queued, workerVars, callerVars, upsets, overlapped>>

Enqueue ==
  /\ Due /\ queued < MaxQueue
  /\ queued' = queued + 1
  /\ UNCHANGED <<now, sub, cycles, invoices, workerVars, callerVars, upsets, overlapped>>

(* cancelSubscription: findFirst and the check ...                         *)
StartCancel ==
  /\ cancelEnd = -1 /\ Upset
  /\ sub.status # "CANCELLED"
  /\ cancelEnd' = sub.end
  /\ cancels' = cancels + 1
  /\ UNCHANGED <<now, sub, cycles, invoices, queued, workerVars, changeVars, providerVars,
                 overlapped>>

(* ... and the update, with the end it has read or the time it is.         *)
Cancel ==
  /\ cancelEnd # -1
  /\ \E end \in {now, cancelEnd} :
       sub' = [sub EXCEPT !.status = "CANCELLED", !.end = end]
  /\ cancelEnd' = -1
  /\ UNCHANGED <<now, cycles, invoices, queued, workerVars, cancels, changeVars, providerVars,
                 upsets, overlapped>>

(* updateSubscriptionPlan: findFirst and its three refusals; a plan that   *)
(* is inactive is refused too, which is as if it had not been asked for ...*)
StartChange ==
  /\ newPlan = NoPlan /\ Upset
  /\ sub.status \notin {"CANCELLED", "EXPIRED"} /\ ~managed
  /\ newPlan' \in Plans \ {sub.plan}
  /\ UNCHANGED <<now, sub, cycles, invoices, queued, workerVars, cancelVars, providerVars,
                 repriced, overlapped>>

UnderWay == \/ \E w \in Workers : pc[w] # "idle"
            \/ \E c \in DOMAIN cycles : cycles[c].status = "PROCESSING"

(* ... and the update, which leaves the cycles as they are.                *)
ChangePlan ==
  /\ newPlan # NoPlan
  /\ sub' = [sub EXCEPT !.plan = newPlan]
  /\ newPlan' = NoPlan
  /\ repriced' = (repriced \/ UnderWay)
  /\ UNCHANGED <<now, cycles, invoices, queued, workerVars, cancelVars, providerVars, upsets,
                 overlapped>>

(* syncExternalSubscription, its one update: the provider has billed the   *)
(* period t, or has tried to, and the event says so.  It may be late, or   *)
(* repeated.  The plan and the customer, which the update writes too, are  *)
(* those that the subscription was made with: StartChange does not change  *)
(* them.                                                                   *)
SyncPeriod(t) ==
  /\ managed /\ t <= now
  /\ \E status \in {"ACTIVE", "PAST_DUE"} :
       sub' = [sub EXCEPT !.status = status, !.start = t, !.end = t + 1]
  /\ \/ t < told /\ Upset /\ UNCHANGED told
     \/ t >= told /\ ~over /\ told' = t + 1 /\ UNCHANGED upsets
  /\ crossed' = (crossed \/ t < told \/ \E w \in Workers : pc[w] # "idle")
  /\ UNCHANGED <<now, cycles, invoices, queued, workerVars, cancelVars, changeVars, managed, over,
                 overlapped>>

(* The same update: the subscription has been canceled at the provider, in *)
(* the last period that it has billed.                                     *)
SyncEnd ==
  /\ managed /\ ~over /\ Upset
  /\ sub' = [sub EXCEPT !.status = "CANCELLED", !.start = told - 1, !.end = told]
  /\ over' = TRUE
  /\ crossed' = (crossed \/ \E w \in Workers : pc[w] # "idle")
  /\ UNCHANGED <<now, cycles, invoices, queued, workerVars, cancelVars, changeVars, managed, told,
                 overlapped>>

-----------------------------------------------------------------------------
(* processRenewal                                                          *)

(* findById.  A subscription that is not renewable ends the job with an    *)
(* exception; whether it is due is not asked.                              *)
Begin(w) ==
  /\ pc[w] = "idle" /\ queued > 0
  /\ queued' = queued - 1
  /\ \/ sub.status \notin Renewable /\ UNCHANGED <<pc, snap, upsets, overlapped>>
     \/ /\ sub.status \in Renewable
        /\ Goto(w, "lookup") /\ snap' = [snap EXCEPT ![w] = sub]
        /\ IF \A v \in Workers : pc[v] = "idle" THEN UNCHANGED <<upsets, overlapped>>
                                                ELSE Upset /\ overlapped' = TRUE
  /\ UNCHANGED <<now, sub, cycles, invoices, cyc, inv, exceeds, callerVars>>

Current(w) == {i \in DOMAIN cycles : /\ cycles[i].start = snap[w].start
                                     /\ cycles[i].status # "FAILED"}

Reuse(w, i) ==
  /\ Goto(w, "count")
  /\ cyc' = [cyc EXCEPT ![w] = i]
  /\ UNCHANGED <<snap, inv, exceeds>>

(* Mutant: only a cycle that is PAID counts as existing. *)
FindCycle_Paid(w) ==
  /\ pc[w] = "lookup"
  /\ IF \E i \in Current(w) : cycles[i].status = "PAID"
     THEN EndJob(w)
     ELSE Goto(w, "create") /\ UNCHANGED jobVars
  /\ UNCHANGED <<now, sub, cycles, invoices, queued, callerVars, upsets, overlapped>>

(* Mutant: a cycle that was begun counts as renewed. *)
FindCycle_Begun(w) ==
  /\ pc[w] = "lookup"
  /\ IF Current(w) # {} THEN EndJob(w) ELSE Goto(w, "create") /\ UNCHANGED jobVars
  /\ UNCHANGED <<now, sub, cycles, invoices, queued, callerVars, upsets, overlapped>>

(* Mutant: a cycle that has FAILED is used again. *)
FindCycle_Failed(w) ==
  /\ pc[w] = "lookup"
  /\ LET same == {i \in DOMAIN cycles : cycles[i].start = snap[w].start}
     IN  \/ same = {} /\ Goto(w, "create") /\ UNCHANGED jobVars
         \/ \E i \in same : \/ cycles[i].status = "PAID" /\ EndJob(w)
                            \/ cycles[i].status # "PAID" /\ Reuse(w, i)
  /\ UNCHANGED <<now, sub, cycles, invoices, queued, callerVars, upsets, overlapped>>

(* The cycle of the period, unless it has FAILED: if it is PAID the job is *)
(* done, otherwise it is used again.                                       *)
FindCycle(w) ==
  /\ pc[w] = "lookup"
  /\ \/ Current(w) = {} /\ Goto(w, "create") /\ UNCHANGED jobVars
     \/ \E i \in Current(w) : \/ cycles[i].status = "PAID" /\ EndJob(w)
                              \/ cycles[i].status # "PAID" /\ Reuse(w, i)
  /\ UNCHANGED <<now, sub, cycles, invoices, queued, callerVars, upsets, overlapped>>

CreateCycle(w) ==
  /\ pc[w] = "create"
  /\ cycles' = Append(cycles, [start |-> snap[w].start, status |-> "PROCESSING",
                               attempts |-> 0, invoice |-> 0, plan |-> snap[w].plan])
  /\ cyc' = [cyc EXCEPT ![w] = Len(cycles) + 1]
  /\ Goto(w, "count")
  /\ UNCHANGED <<now, sub, invoices, queued, snap, inv, exceeds, callerVars, upsets, overlapped>>

(* The cycle becomes PROCESSING whatever it has been meanwhile.            *)
CountAttempt(w) ==
  /\ pc[w] = "count"
  /\ cycles' = [cycles EXCEPT ![cyc[w]].status = "PROCESSING", ![cyc[w]].attempts = @ + 1]
  /\ Goto(w, "invoice")
  /\ UNCHANGED <<now, sub, invoices, queued, jobVars, callerVars, upsets, overlapped>>

CreateInvoice(w) ==
  /\ pc[w] = "invoice" /\ Len(invoices) < MaxInvoices
  /\ invoices' = Append(invoices, [start |-> snap[w].start, end |-> snap[w].end,
                                   plan |-> snap[w].plan, status |-> "DRAFT"])
  /\ inv' = [inv EXCEPT ![w] = Len(invoices) + 1]
  /\ Goto(w, "issue")
  /\ UNCHANGED <<now, sub, cycles, queued, snap, cyc, exceeds, callerVars, upsets, overlapped>>

(* Mutant: the invoice is left a draft. *)
IssueInvoice_Draft(w) ==
  /\ pc[w] = "issue"
  /\ Goto(w, "link")
  /\ UNCHANGED <<now, sub, cycles, invoices, queued, jobVars, callerVars, upsets, overlapped>>

IssueInvoice(w) ==
  /\ pc[w] = "issue"
  /\ invoices' = [invoices EXCEPT ![inv[w]].status = "ISSUED"]
  /\ Goto(w, "link")
  /\ UNCHANGED <<now, sub, cycles, queued, jobVars, callerVars, upsets, overlapped>>

(* Mutant: the cycle is not told of its invoice. *)
LinkInvoice_Not(w) ==
  /\ pc[w] = "link"
  /\ Goto(w, "advance")
  /\ UNCHANGED <<now, sub, cycles, invoices, queued, jobVars, callerVars, upsets, overlapped>>

LinkInvoice(w) ==
  /\ pc[w] = "link"
  /\ cycles' = [cycles EXCEPT ![cyc[w]].invoice = inv[w]]
  /\ Goto(w, "advance")
  /\ UNCHANGED <<now, sub, invoices, queued, jobVars, callerVars, upsets, overlapped>>

(* The next period after the one that was read, whatever the row holds.    *)
Advance(w) ==
  /\ pc[w] = "advance"
  /\ sub' = [sub EXCEPT !.status = "ACTIVE", !.start = snap[w].end, !.end = snap[w].end + 1]
  /\ Goto(w, "pay")
  /\ UNCHANGED <<now, cycles, invoices, queued, jobVars, callerVars, upsets, overlapped>>

MarkPaid(w) ==
  /\ pc[w] = "pay"
  /\ cycles' = [cycles EXCEPT ![cyc[w]].status = "PAID"]
  /\ EndJob(w)
  /\ UNCHANGED <<now, sub, invoices, queued, callerVars, upsets, overlapped>>

-----------------------------------------------------------------------------
(* processRenewal: exceptions                                              *)

(* A call inside its try block throws.                                     *)
Throw(w) ==
  /\ pc[w] \in {"invoice", "issue", "link", "advance", "pay"}
  /\ Upset
  /\ Goto(w, "failing")
  /\ UNCHANGED <<now, sub, cycles, invoices, queued, jobVars, callerVars, overlapped>>

FailCycle(w) ==
  /\ pc[w] = "failing"
  /\ cycles' = [cycles EXCEPT ![cyc[w]].status = "FAILED"]
  /\ exceeds' = [exceeds EXCEPT ![w] = cycles[cyc[w]].attempts >= MaxRetries]
  /\ Goto(w, "failed")
  /\ UNCHANGED <<now, sub, invoices, queued, snap, cyc, inv, callerVars, upsets, overlapped>>

(* A job that ended with an exception is put back or, its attempts used    *)
(* up, kept with the failed jobs.                                          *)
Requeue == queued' \in {queued, queued + 1} /\ queued' <= MaxQueue

FailSubscription(w) ==
  /\ pc[w] = "failed"
  /\ sub' = [sub EXCEPT !.status = IF now > snap[w].end + Grace \/ exceeds[w]
                                   THEN "EXPIRED" ELSE "PAST_DUE"]
  /\ EndJob(w) /\ Requeue
  /\ UNCHANGED <<now, cycles, invoices, callerVars, upsets, overlapped>>

(* The worker restarts, or a call outside the try block throws.            *)
Crash(w) ==
  /\ pc[w] # "idle"
  /\ Upset
  /\ EndJob(w) /\ Requeue
  /\ UNCHANGED <<now, sub, cycles, invoices, callerVars, overlapped>>

ProcessRenewal(w) ==
  \/ Begin(w) \/ FindCycle(w) \/ CreateCycle(w) \/ CountAttempt(w) \/ CreateInvoice(w)
  \/ IssueInvoice(w) \/ LinkInvoice(w) \/ Advance(w) \/ MarkPaid(w)
  \/ Throw(w) \/ FailCycle(w) \/ FailSubscription(w) \/ Crash(w)

Next ==
  \/ Tick \/ Enqueue \/ StartCancel \/ Cancel \/ StartChange \/ ChangePlan
  \/ SyncEnd \/ \E t \in Trial..now : SyncPeriod(t)
  \/ \E w \in Workers : ProcessRenewal(w)

Spec == Init /\ [][Next]_vars

(* The event of a period, while none of a later one has been handled.      *)
TellPeriod(t) == told <= t /\ SyncPeriod(t)

(* What is due is enqueued at some time, a worker goes on with its job, and*)
(* of a provider's periods the last one is told of at least once.          *)
Fairness ==
  /\ WF_vars(Enqueue)
  /\ \A w \in Workers : WF_vars(ProcessRenewal(w))
  /\ WF_vars(TellPeriod(now))

FairSpec == Spec /\ Fairness

-----------------------------------------------------------------------------
(* Properties                                                              *)

Period == [start : Nat, end : Nat, plan : Plans,
           status : Renewable \cup {"CANCELLED", "EXPIRED"}]

CycleRow == [start : Nat, status : {"PROCESSING", "PAID", "FAILED"}, attempts : Nat,
             invoice : Nat, plan : Plans]
InvoiceRow == [start : Nat, end : Nat, plan : Plans, status : {"DRAFT", "ISSUED"}]

TypeOK ==
  /\ now \in Nat /\ queued \in Nat /\ cancels \in Nat /\ upsets \in Nat
  /\ sub \in Period
  /\ cycles \in Seq(CycleRow) /\ invoices \in Seq(InvoiceRow)
  /\ pc \in [Workers -> {"idle", "lookup", "create", "count", "invoice", "issue", "link",
                         "advance", "pay", "failing", "failed"}]
  /\ snap \in [Workers -> Period]
  /\ cyc \in [Workers -> Nat] /\ inv \in [Workers -> Nat]
  /\ exceeds \in [Workers -> BOOLEAN]
  /\ cancelEnd \in Nat \cup {-1}
  /\ newPlan \in Plans \cup {NoPlan} /\ repriced \in BOOLEAN
  /\ managed \in BOOLEAN /\ told \in Nat \ {0} /\ over \in BOOLEAN /\ crossed \in BOOLEAN
  /\ overlapped \in BOOLEAN

Issued == {i \in DOMAIN invoices : invoices[i].status = "ISSUED"}
Covers(i, t) == invoices[i].start <= t /\ t < invoices[i].end

(* No period is given away: all the time between the end of the trial and  *)
(* the current period is on an issued invoice, or the provider has told    *)
(* that it has billed it, whatever crashes, fails, runs twice, is cancelled*)
(* or is told late in between.                                             *)
NoFreePeriod ==
  \A t \in Trial..(sub.start - 1) :
    (managed /\ t < told) \/ \E i \in Issued : Covers(i, t)

(* A PAID cycle has an issued invoice for its own period.                  *)
PaidIsInvoiced ==
  \A c \in DOMAIN cycles : cycles[c].status = "PAID" =>
    /\ cycles[c].invoice \in Issued
    /\ invoices[cycles[c].invoice].start = cycles[c].start

(* schema.prisma, "one billing cycle per subscription period", which no    *)
(* constraint enforces: jobs that run at the same time may make a cycle    *)
(* each, but a period never has more cycles that have not failed than there*)
(* are workers, one where there is one, however often jobs are retried,    *)
(* break off, or go on with a cycle that another job has failed.           *)
Live(p) == {c \in DOMAIN cycles : cycles[c].start = p /\ cycles[c].status # "FAILED"}
CyclesAreBounded == \A p \in {cycles[c].start : c \in DOMAIN cycles} :
  ExistsInjection(Live(p), Workers)

(* The cycle of a period says what its invoice asks for: a plan that is    *)
(* changed between two renewals, or after one has failed, is billed from   *)
(* the next renewal on, in both.  (One that is changed while a renewal is  *)
(* under way, or has broken off, may be on the invoice alone.)             *)
CycleSaysPriceInTurn ==
  ~repriced => \A c \in DOMAIN cycles :
    cycles[c].status = "PAID" => cycles[c].plan = invoices[cycles[c].invoice].plan

(* A subscription that is due, and that nobody cancels, is not due forever:*)
(* it is renewed, here or by its provider, or it expires.  (An event that  *)
(* comes again or late, or that the worker writes over, may leave it in a  *)
(* period that has been PAID, in which nobody renews it.)                  *)
DueIsRenewed == Due ~> ~Due \/ cancels > 0 \/ crossed

(* It holds as long as no two jobs have overlapped.  A slow worker beside a*)
(* fast one may set the period back: renewal_stuck.cfg.                    *)
DueIsRenewedInTurn == Due ~> ~Due \/ cancels > 0 \/ crossed \/ overlapped

(* The lifecycle leads from TRIALING to ACTIVE, and findDueForRenewal is   *)
(* to find what is due: a trial does not outlast its first billed period.  *)
TrialEnds == (sub.status = "TRIALING" /\ sub.end <= now) ~> sub.status # "TRIALING"

(* The processor: "idempotent, checks if already renewed", so no time is   *)
(* on two issued invoices.                                                 *)
InvoicedOnce ==
  \A t \in 0..MaxTime, i, j \in Issued : Covers(i, t) /\ Covers(j, t) => i = j

(* A provider bills the periods of its subscription, and nobody else does. *)
BilledByProviderOnly == managed => \A i \in Issued : invoices[i].start >= told

(* The same: a job that runs again does not renew a period yet to end.     *)
NotRenewedAhead == sub.start <= now \/ sub.status = "TRIALING"

(* "After max retries, move to EXPIRED": a period that failed MaxRetries   *)
(* times does not leave the subscription PAST_DUE.                         *)
Failures(p) == {c \in DOMAIN cycles : cycles[c].start = p /\ cycles[c].status = "FAILED"}
RetriesEnd ==
  (\A w \in Workers : pc[w] = "idle") /\ sub.status = "PAST_DUE" =>
    Cardinality(Failures(sub.start)) < MaxRetries

(* The lifecycle TRIALING, ACTIVE, PAST_DUE, CANCELLED, EXPIRED has no way *)
(* back from CANCELLED.                                                    *)
CancelledIsFinal ==
  [][sub.status = "CANCELLED" => sub'.status \in {"CANCELLED", "EXPIRED"}]_sub
=============================================================================

------------------------------- MODULE Method -------------------------------
(***************************************************************************)
(* The saved cards of one customer: the CustomerBillingProfile row of the  *)
(* database, which names the Stripe customer and remembers its default     *)
(* card, and the Stripe customers themselves.                              *)
(*                                                                         *)
(*   PaymentMethodService  listCustomerPaymentMethods, createSetupIntent,  *)
(*                         completeSetupIntent, setDefaultPaymentMethod    *)
(*   StripeProvider        ensureCustomer, createSetupIntent,              *)
(*                         retrieveCompletedSetupIntent,                   *)
(*                         listSavedPaymentMethods,                        *)
(*                         setDefaultPaymentMethod                         *)
(*                                                                         *)
(* The row and Stripe are written one after the other, by calls that may   *)
(* run at the same time and see one another's writes at every await.       *)
(* A SetupIntent saves one card, and the card has the intent's name here.  *)
(***************************************************************************)
EXTENDS Naturals, FiniteSets

CONSTANTS
  Handlers,     \* calls in progress
  Intents,      \* SetupIntents, and the card that each saves
  None,         \* null
  MaxCustomers, MaxCrashes  \* bounds

ASSUME MethodAssumption ==
  /\ None \notin Intents
  /\ MaxCustomers \in Nat \ {0} /\ MaxCrashes \in Nat

VARIABLES
  row,        \* the profile: its Stripe customer and its default card
  customers,  \* Stripe customers created for this customer, 1..customers
  live,       \* invoice_settings.default_payment_method of each of them
  charged,    \* default_payment_method of their running subscriptions
  owner,      \* the Stripe customer of a SetupIntent, 0 before it exists
  saved,      \* SetupIntents that have succeeded
  pc, job,    \* where a call is, and what was asked
  profile,    \* the row as the call has read or written it
  cust, card, \* the Stripe customer and the default card it goes on with
  legacy,     \* does the metadata of an earlier payment name customer 1?
  crashes,    \* calls that broke off so far
  overlapped  \* have two calls ever been in progress at the same time?

stripeVars == <<customers, live, charged, owner, saved>>
callVars == <<pc, job, profile, cust, card>>
envVars == <<legacy, crashes, overlapped>>
vars == <<row, stripeVars, callVars, envVars>>

Cards == Intents \cup {None}
NoRow == [customer |-> 0, default |-> None]
NoJob == [kind |-> "none", intent |-> None, makeDefault |-> "unset"]

Jobs ==
  [kind : {"list", "setup"}, intent : {None}, makeDefault : {"unset"}]
    \cup [kind : {"complete"}, intent : saved, makeDefault : {"yes", "no", "unset"}]
    \cup [kind : {"default"}, intent : saved, makeDefault : {"yes"}]

Init ==
  /\ row = NoRow
  /\ legacy \in BOOLEAN
  /\ customers = IF legacy THEN 1 ELSE 0
  /\ live = [c \in 1..MaxCustomers |-> None]
  /\ charged = live
  /\ owner = [i \in Intents |-> 0]
  /\ saved = {}
  /\ pc = [h \in Handlers |-> "idle"]
  /\ job = [h \in Handlers |-> NoJob]
  /\ profile = [h \in Handlers |-> NoRow]
  /\ cust = [h \in Handlers |-> 0]
  /\ card = [h \in Handlers |-> None]
  /\ crashes = 0 /\ overlapped = FALSE

Idle == \A h \in Handlers : pc[h] = "idle"

Goto(h, label) == pc' = [pc EXCEPT ![h] = label]

EndCall(h) ==
  /\ Goto(h, "idle")
  /\ job' = [job EXCEPT ![h] = NoJob]
  /\ profile' = [profile EXCEPT ![h] = NoRow]
  /\ cust' = [cust EXCEPT ![h] = 0]
  /\ card' = [card EXCEPT ![h] = None]

-----------------------------------------------------------------------------
(* resolveStripeProfile                                                    *)

(* A request; completeSetupIntent has retrieved its SetupIntent, which     *)
(* must have succeeded.  Intents bounds the setups.                        *)
Start(h, j) ==
  /\ pc[h] = "idle"
  /\ j.kind = "setup" => Cardinality({g \in Handlers : job[g].kind = "setup"})
                           < Cardinality({i \in Intents : owner[i] = 0})
  /\ job' = [job EXCEPT ![h] = j]
  /\ Goto(h, "find")
  /\ overlapped' = (overlapped \/ ~Idle)
  /\ UNCHANGED <<row, stripeVars, profile, cust, card, legacy, crashes>>

FindProfile(h) ==
  /\ pc[h] = "find"
  /\ profile' = [profile EXCEPT ![h] = row]
  /\ Goto(h, IF row = NoRow THEN "discover" ELSE "decide")
  /\ UNCHANGED <<row, stripeVars, job, cust, card, envVars>>

(* discoverStripeProfile; only createSetupIntent has allowCreate.          *)
Discover(h) ==
  /\ pc[h] = "discover"
  /\ \/ /\ legacy
        /\ cust' = [cust EXCEPT ![h] = 1]
        /\ Goto(h, "adopt")
     \/ /\ ~legacy /\ UNCHANGED cust
        /\ Goto(h, IF job[h].kind = "setup" THEN "ensure" ELSE "decide")
  /\ UNCHANGED <<row, stripeVars, job, profile, card, envVars>>

(* ensureCustomer, without an idempotency key.                             *)
EnsureCustomer(h) ==
  /\ pc[h] = "ensure" /\ customers < MaxCustomers
  /\ customers' = customers + 1
  /\ cust' = [cust EXCEPT ![h] = customers + 1]
  /\ Goto(h, "adopt")
  /\ UNCHANGED <<row, live, charged, owner, saved, job, profile, card, envVars>>

(* upsertStripeProfile: the default is null, whatever Stripe's is and      *)
(* whatever another call has put into the row.  A default that the         *)
(* metadata of an earlier payment names would be taken, but this service   *)
(* writes no such key there: only a caller's own metadata could hold one.  *)
Adopt(h) ==
  /\ pc[h] = "adopt"
  /\ row' = [customer |-> cust[h], default |-> None]
  /\ profile' = [profile EXCEPT ![h] = row']
  /\ Goto(h, "decide")
  /\ UNCHANGED <<stripeVars, job, cust, card, envVars>>

-----------------------------------------------------------------------------
(* What each operation does with the profile                               *)

DecideList(h) ==
  /\ pc[h] = "decide" /\ job[h].kind = "list"
  /\ \/ profile[h] = NoRow /\ EndCall(h)
     \/ /\ profile[h] # NoRow
        /\ cust' = [cust EXCEPT ![h] = profile[h].customer]
        /\ Goto(h, "read")
        /\ UNCHANGED <<job, profile, card>>
  /\ UNCHANGED <<row, stripeVars, envVars>>

(* completeSetupIntent: an intent of another Stripe customer is forbidden, *)
(* and without a wish the first card becomes the default.                  *)
DecideComplete(h) ==
  LET intent == job[h].intent
      shouldSetDefault == \/ job[h].makeDefault = "yes"
                          \/ job[h].makeDefault = "unset" /\ profile[h].default = None
  IN  /\ pc[h] = "decide" /\ job[h].kind = "complete"
      /\ \/ /\ profile[h] # NoRow /\ profile[h].customer # owner[intent]
            /\ Goto(h, "refused") /\ UNCHANGED cust
         \/ /\ profile[h] = NoRow \/ profile[h].customer = owner[intent]
            /\ cust' = [cust EXCEPT ![h] = owner[intent]]
            /\ Goto(h, IF shouldSetDefault THEN "assign" ELSE "read")
      /\ UNCHANGED <<row, stripeVars, job, profile, card, envVars>>

Refuse(h) ==
  /\ pc[h] = "refused"
  /\ EndCall(h)
  /\ UNCHANGED <<row, stripeVars, envVars>>

(* Mutant: a card of another Stripe customer is accepted. *)
DecideDefault_AnyCard(h) ==
  /\ pc[h] = "decide" /\ job[h].kind = "default"
  /\ \/ profile[h] = NoRow /\ EndCall(h)
     \/ /\ profile[h] # NoRow
        /\ cust' = [cust EXCEPT ![h] = profile[h].customer]
        /\ Goto(h, "assign")
        /\ UNCHANGED <<job, profile, card>>
  /\ UNCHANGED <<row, stripeVars, envVars>>

(* setDefaultPaymentMethod, with the provider's test of the card's owner,  *)
(* which a completed intent's card passes.                                 *)
DecideDefault(h) ==
  /\ pc[h] = "decide" /\ job[h].kind = "default"
  /\ \/ /\ profile[h] = NoRow \/ owner[job[h].intent] # profile[h].customer
        /\ EndCall(h)
     \/ /\ profile[h] # NoRow /\ owner[job[h].intent] = profile[h].customer
        /\ cust' = [cust EXCEPT ![h] = profile[h].customer]
        /\ Goto(h, "assign")
        /\ UNCHANGED <<job, profile, card>>
  /\ UNCHANGED <<row, stripeVars, envVars>>

-----------------------------------------------------------------------------
(* Stripe                                                                  *)

(* Mutant: the default of the profile is not carried over. *)
CreateIntent_NoDefault(h) ==
  /\ pc[h] = "decide" /\ job[h].kind = "setup"
  /\ \E i \in Intents :
       owner[i] = 0 /\ owner' = [owner EXCEPT ![i] = profile[h].customer]
  /\ cust' = [cust EXCEPT ![h] = profile[h].customer]
  /\ card' = [card EXCEPT ![h] = None]
  /\ Goto(h, "save")
  /\ UNCHANGED <<row, customers, live, charged, saved, job, profile, envVars>>

(* The default that createSetupIntent will save is the one it has read.    *)
CreateIntent(h) ==
  /\ pc[h] = "decide" /\ job[h].kind = "setup"
  /\ \E i \in Intents :
       owner[i] = 0 /\ owner' = [owner EXCEPT ![i] = profile[h].customer]
  /\ cust' = [cust EXCEPT ![h] = profile[h].customer]
  /\ card' = [card EXCEPT ![h] = profile[h].default]
  /\ Goto(h, "save")
  /\ UNCHANGED <<row, customers, live, charged, saved, job, profile, envVars>>

(* The customer confirms the SetupIntent in the browser.                   *)
Confirm(i) ==
  /\ owner[i] # 0 /\ i \notin saved
  /\ saved' = saved \cup {i}
  /\ UNCHANGED <<row, customers, live, charged, owner, callVars, envVars>>

(* setDefaultPaymentMethod writes the customer ...                         *)
AssignDefault(h) ==
  /\ pc[h] = "assign"
  /\ live' = [live EXCEPT ![cust[h]] = job[h].intent]
  /\ Goto(h, "charge")
  /\ UNCHANGED <<row, customers, charged, owner, saved, job, profile, cust, card, envVars>>

(* ... and then the customer's subscriptions.                              *)
ChargeSubscriptions(h) ==
  /\ pc[h] = "charge"
  /\ charged' = [charged EXCEPT ![cust[h]] = job[h].intent]
  /\ card' = [card EXCEPT ![h] = job[h].intent]
  /\ Goto(h, IF job[h].kind = "complete" THEN "read" ELSE "sync")
  /\ UNCHANGED <<row, customers, live, owner, saved, job, profile, cust, envVars>>

(* listSavedPaymentMethods.                                                *)
ReadLive(h) ==
  /\ pc[h] = "read"
  /\ card' = [card EXCEPT ![h] = live[cust[h]]]
  /\ Goto(h, IF job[h].kind = "complete" THEN "save" ELSE "sync")
  /\ UNCHANGED <<row, stripeVars, job, profile, cust, envVars>>

-----------------------------------------------------------------------------
(* The row again                                                           *)

(* The upsert at the end of both halves of a setup.                        *)
SaveProfile(h) ==
  /\ pc[h] = "save"
  /\ row' = [customer |-> cust[h], default |-> card[h]]
  /\ EndCall(h)
  /\ UNCHANGED <<stripeVars, envVars>>

(* Mutant: the stored default is filled in, never corrected. *)
SyncStoredDefault_Fill(h) ==
  /\ pc[h] = "sync"
  /\ row' = IF profile[h].default # None THEN row ELSE [row EXCEPT !.default = card[h]]
  /\ EndCall(h)
  /\ UNCHANGED <<stripeVars, envVars>>

(* syncStoredDefault compares with what was read, and updates what is      *)
(* there now.                                                              *)
SyncStoredDefault(h) ==
  /\ pc[h] = "sync"
  /\ row' = IF profile[h].default = card[h] THEN row ELSE [row EXCEPT !.default = card[h]]
  /\ EndCall(h)
  /\ UNCHANGED <<stripeVars, envVars>>

(* A restart, or a call of Stripe or of the database that fails, or whose  *)
(* answer is lost.                                                         *)
Crash(h) ==
  /\ pc[h] \notin {"idle", "refused"}
  /\ crashes < MaxCrashes /\ crashes' = crashes + 1
  /\ EndCall(h)
  /\ UNCHANGED <<row, stripeVars, legacy, overlapped>>

Work(h) ==
  \/ FindProfile(h) \/ Discover(h) \/ EnsureCustomer(h) \/ Adopt(h)
  \/ DecideList(h) \/ DecideComplete(h) \/ DecideDefault(h) \/ Refuse(h)
  \/ CreateIntent(h) \/ AssignDefault(h) \/ ChargeSubscriptions(h) \/ ReadLive(h)
  \/ SaveProfile(h) \/ SyncStoredDefault(h)

Next ==
  \/ \E i \in Intents : Confirm(i)
  \/ \E h \in Handlers : (\E j \in Jobs : Start(h, j)) \/ Work(h) \/ Crash(h)

Spec == Init /\ [][Next]_vars

-----------------------------------------------------------------------------
(* Properties                                                              *)

Rows == [customer : 0..customers, default : Cards]

Labels == {"idle", "find", "discover", "ensure", "adopt", "decide", "refused", "assign",
           "charge", "read", "save", "sync"}

TypeOK ==
  /\ row \in Rows /\ customers \in 0..MaxCustomers
  /\ live \in [1..MaxCustomers -> Cards] /\ charged \in [1..MaxCustomers -> Cards]
  /\ owner \in [Intents -> 0..customers] /\ saved \subseteq Intents
  /\ pc \in [Handlers -> Labels]
  /\ job \in [Handlers -> Jobs \cup {NoJob}]
  /\ profile \in [Handlers -> Rows]
  /\ cust \in [Handlers -> 0..customers] /\ card \in [Handlers -> Cards]
  /\ \A h \in Handlers : pc[h] \in {"assign", "charge", "read", "save", "adopt"} => cust[h] # 0
  /\ crashes \in Nat /\ legacy \in BOOLEAN /\ overlapped \in BOOLEAN

(* Stripe is never told to charge one of its customers with a card that    *)
(* belongs to another, however many customers racing setups have created.  *)
DefaultIsOwned ==
  \A c \in 1..MaxCustomers : \A i \in {live[c], charged[c]} \cap Intents : owner[i] = c

(* Calls one after the other, none of which has broken off.                *)
InTurn == ~overlapped /\ crashes = 0

(* Between calls, what the row says the default is, Stripe says, too.      *)
DefaultIsLive == Idle /\ row # NoRow => row.default = live[row.customer]

(* Between calls, the subscriptions are charged to the default.            *)
DefaultIsCharged == Idle => charged = live

(* Calls in turn leave the row, Stripe's customer and its subscriptions    *)
(* with the same card, and save all cards with one Stripe customer, the    *)
(* one an earlier payment has created if there was one.                    *)
CardsAgreeInTurn == InTurn => DefaultIsLive /\ DefaultIsCharged /\ customers <= 1

(* Although calls have broken off anywhere, listing puts the stored        *)
(* default right.                                                          *)
ListingRepairs ==
  [][\A h \in Handlers :
       /\ ~overlapped /\ crashes' = crashes
       /\ job[h].kind = "list" /\ pc[h] = "sync" /\ pc'[h] = "idle"
       => row'.default = live[row'.customer]]_vars

(* "Completes SetupIntent verification": the card of a SetupIntent that    *)
(* this service has created is not refused.                                *)
SetupIsCompleted == \A h \in Handlers : pc[h] # "refused"
=============================================================================

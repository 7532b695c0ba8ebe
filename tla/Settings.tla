------------------------------ MODULE Settings ------------------------------
(***************************************************************************)
(* The GST settings of one tenant, from the IAM service to the invoice.    *)
(*                                                                         *)
(*   IamSettingsService  getGstConfig with its cache, fetchFromIam with    *)
(*                       its timeout and its catch block                   *)
(*   processRenewal      as it asks for the settings and makes an invoice  *)
(*                       of one item with them                             *)
(*                                                                         *)
(* The cache belongs to a process and processes share nothing here, so one *)
(* is modelled, with several renewals in progress.  Its memory is the time *)
(* an entry has left, so that the clock needs no bound.                    *)
(***************************************************************************)
EXTENDS Gst

CONSTANTS
  Calls,        \* renewals in progress in the process
  RawConfigs,   \* what the IAM service may hold for the tenant
  PlanAmount,   \* the amount of the renewed plan
  TTL,          \* CACHE_TTL_MS
  Timeout       \* AbortSignal.timeout, in the same units

(* GST_DEFAULTS: 18 %, within the state.                                   *)
GST_DEFAULTS == [rate |-> 3600, type |-> "intra"]

ASSUME SettingsAssumption ==
  /\ RawConfigs \subseteq [rate : Rates \cup {0}, type : Types]
  /\ GST_DEFAULTS.rate \in Rates /\ 0 \notin Rates
  /\ PlanAmount \in Nat
  /\ TTL \in Nat \ {0} /\ Timeout \in Nat \ {0}

VARIABLES
  iam, up,      \* what the IAM service holds, and whether it answers
  cached, left, \* the cache entry and the time it has left, 0 for none
  stage, got,   \* where a renewal is, and the settings it has
  waited,       \* how long its request has been under way
  age           \* how long ago an answer could last have been this, up to Old

settingsVars == <<iam, up, cached, left, stage, got, waited, age>>
allVars == <<gstVars, settingsVars>>

Configs == [rate : Rates, type : Types]
Old == TTL + Timeout + 1

(* parseRate, parseType: a rate that is not positive is taken as missing.  *)
Parsed(raw) == [rate |-> IF raw.rate > 0 THEN raw.rate ELSE GST_DEFAULTS.rate,
                type |-> raw.type]

(* fetchFromIam: the settings, or the defaults for any kind of failure.    *)
Answer == IF up THEN Parsed(iam) ELSE GST_DEFAULTS

SettingsInit ==
  /\ GstInit
  /\ iam \in RawConfigs /\ up \in BOOLEAN
  /\ cached = GST_DEFAULTS /\ left = 0
  /\ stage = [c \in Calls |-> "idle"]
  /\ got = [c \in Calls |-> GST_DEFAULTS]
  /\ waited = [c \in Calls |-> 0]
  /\ age = [g \in Configs |-> IF g = Answer THEN 0 ELSE Old]

Goto(c, label) == stage' = [stage EXCEPT ![c] = label]
Waiting(c) == stage[c] \in {"asking", "answered"}

-----------------------------------------------------------------------------
(* The IAM service and the clock                                           *)

(* An administrator changes the settings; the service fails or recovers.   *)
IamChanges ==
  /\ iam' \in RawConfigs /\ up' \in BOOLEAN
  /\ <<iam', up'>> # <<iam, up>>
  /\ age' = [age EXCEPT ![Answer'] = 0]
  /\ UNCHANGED <<gstVars, cached, left, stage, got, waited>>

(* A request that has waited for Timeout is aborted before time goes on.   *)
Tick ==
  /\ \A c \in Calls : Waiting(c) => waited[c] < Timeout
  /\ left' = IF left > 0 THEN left - 1 ELSE 0
  /\ waited' = [c \in Calls |-> IF Waiting(c) THEN waited[c] + 1 ELSE 0]
  /\ age' = [g \in Configs |-> CASE g = Answer -> 0
                                  [] g # Answer /\ age[g] < Old -> age[g] + 1
                                  [] OTHER -> Old]
  /\ UNCHANGED <<gstVars, iam, up, cached, stage, got>>

-----------------------------------------------------------------------------
(* getGstConfig                                                            *)

(* Mutant: an entry is used whatever its age.                              *)
Hit_Expired(c) ==
  /\ stage[c] = "idle"
  /\ got' = [got EXCEPT ![c] = cached]
  /\ Goto(c, "billing")
  /\ UNCHANGED <<gstVars, iam, up, cached, left, waited, age>>

(* Mutant: a hit gives the entry its full time again. *)
Hit_Sliding(c) ==
  /\ stage[c] = "idle" /\ left > 0
  /\ got' = [got EXCEPT ![c] = cached] /\ left' = TTL
  /\ Goto(c, "billing")
  /\ UNCHANGED <<gstVars, iam, up, cached, waited, age>>

(* The entry has time left.                                                *)
Hit(c) ==
  /\ stage[c] = "idle" /\ left > 0
  /\ got' = [got EXCEPT ![c] = cached]
  /\ Goto(c, "billing")
  /\ UNCHANGED <<gstVars, iam, up, cached, left, waited, age>>

Ask(c) ==
  /\ stage[c] = "idle" /\ left = 0
  /\ Goto(c, "asking")
  /\ UNCHANGED <<gstVars, iam, up, cached, left, got, waited, age>>

(* The service answers, or the request fails or is aborted.                *)
Respond(c) ==
  /\ stage[c] = "asking"
  /\ got' = [got EXCEPT ![c] = Answer]
  /\ Goto(c, "answered")
  /\ UNCHANGED <<gstVars, iam, up, cached, left, waited, age>>

(* The entry is replaced, also by an answer older than the one it holds;   *)
(* the defaults of a failed request are kept as long as settings are.      *)
Store(c) ==
  /\ stage[c] = "answered"
  /\ cached' = got[c] /\ left' = TTL
  /\ Goto(c, "billing") /\ waited' = [waited EXCEPT ![c] = 0]
  /\ UNCHANGED <<gstVars, iam, up, got, age>>

-----------------------------------------------------------------------------
(* The invoice                                                             *)

(* createInvoice with the one item of a renewal.                           *)
Bill(c) ==
  LET tax == TotalTax(PlanAmount, got[c].type, got[c].rate)
  IN  /\ stage[c] = "billing"
      /\ items' = <<Item(PlanAmount, got[c].type, got[c].rate)>>
      /\ subtotal' = PlanAmount /\ taxAmount' = tax /\ exact' = PlanAmount * got[c].rate
      /\ Goto(c, "idle") /\ got' = [got EXCEPT ![c] = GST_DEFAULTS]
      /\ UNCHANGED <<iam, up, cached, left, waited, age>>

(* The process restarts, and its cache is gone.                            *)
Restart ==
  /\ cached' = GST_DEFAULTS /\ left' = 0
  /\ stage' = [c \in Calls |-> "idle"] /\ got' = [c \in Calls |-> GST_DEFAULTS]
  /\ waited' = [c \in Calls |-> 0]
  /\ UNCHANGED <<gstVars, iam, up, age>>

Work(c) == Respond(c) \/ Store(c) \/ Bill(c)

SettingsNext ==
  \/ GstNext /\ UNCHANGED settingsVars
  \/ IamChanges \/ Tick \/ Restart
  \/ \E c \in Calls : Hit(c) \/ Ask(c) \/ Work(c)

SettingsSpec == SettingsInit /\ [][SettingsNext]_allVars

(* Time passes, and a renewal goes on with its work.                       *)
Fairness == WF_allVars(Tick) /\ \A c \in Calls : WF_allVars(Work(c))

FairSpec == SettingsSpec /\ Fairness

-----------------------------------------------------------------------------
(* Properties                                                              *)

SettingsTypeOK ==
  /\ iam \in RawConfigs /\ up \in BOOLEAN
  /\ cached \in Configs /\ left \in 0..TTL
  /\ stage \in [Calls -> {"idle", "asking", "answered", "billing"}]
  /\ got \in [Calls -> Configs]
  /\ waited \in [Calls -> 0..Timeout]
  /\ age \in [Configs -> 0..Old]

(* Within five minutes, and the time of one request, a change is seen: the *)
(* settings that getGstConfig returns are what the IAM service held, or    *)
(* the defaults if it failed, at some time in that stretch.  This holds    *)
(* although a slow answer may replace a newer one, and defaults that stand *)
(* in for a failure are cached as well.                                    *)
Recent == {g \in Configs : age[g] < Old}
ReturnsRecent ==
  [][\A c \in Calls : stage[c] # "billing" /\ stage'[c] = "billing" => got'[c] \in Recent']_allVars

(* Once the IAM service stays up with its settings, they are what the      *)
(* cache holds: a failure or an old rate does not live on in it.           *)
RateConverges ==
  \A raw \in RawConfigs :
    <>[](up /\ iam = raw) => <>[](left > 0 => cached = Parsed(raw))
=============================================================================

---------------------------- MODULE MethodProofs ----------------------------
(***************************************************************************)
(* Theorems about Method, for any number of calls, SetupIntents, Stripe    *)
(* customers and failures.                                                 *)
(***************************************************************************)
EXTENDS Method, TLAPS

(* The profile names a Stripe customer as soon as it exists, and a         *)
(* SetupIntent that has succeeded belongs to one.                          *)
TableInv ==
  /\ row.customer = 0 => row.default = None
  /\ \A i \in saved : owner[i] # 0
  /\ legacy => customers # 0

(* What call h relies on.  A profile it has read is not gone; one that     *)
(* sets a default does it to the customer who owns the card; only a call   *)
(* with a profile updates the stored default.                              *)
CallInv(h) ==
  /\ profile[h].customer = 0 => profile[h].default = None
  /\ profile[h].customer # 0 => row.customer # 0
  /\ pc[h] = "decide" /\ job[h].kind = "setup" => profile[h].customer # 0
  /\ pc[h] \in {"assign", "charge"} =>
       job[h].intent \in Intents /\ owner[job[h].intent] = cust[h]
  /\ pc[h] \in {"read", "assign", "charge"} /\ job[h].kind # "complete" =>
       profile[h].customer # 0
  /\ pc[h] = "sync" => profile[h].customer # 0

IInv == TypeOK /\ TableInv /\ DefaultIsOwned /\ \A h \in Handlers : CallInv(h)

LEMMA InitIInv == Init => IInv
<1> SUFFICES ASSUME Init PROVE IInv OBVIOUS
<1>1. customers \in 0..MaxCustomers /\ (legacy => customers # 0)
  BY MethodAssumption DEF Init
<1>2. NoRow \in Rows BY <1>1 DEF NoRow, Rows, Cards
<1>3. legacy \in BOOLEAN /\ overlapped \in BOOLEAN BY Zenon DEF Init
<1>4. TypeOK BY <1>1, <1>2, <1>3 DEF Init, TypeOK, Labels, Cards
<1>5. DefaultIsOwned BY MethodAssumption DEF Init, DefaultIsOwned
<1> QED BY <1>1, <1>4, <1>5 DEF Init, IInv, TableInv, CallInv, NoRow

(* The jobs stay requests when another SetupIntent succeeds.               *)
LEMMA JobsGrow == saved \subseteq saved' => Jobs \subseteq Jobs'
BY DEF Jobs

(* A handler that does not move keeps what it relies on while the tables   *)
(* only grow.                                                              *)
Grows ==
  /\ row.customer # 0 => row'.customer # 0
  /\ \A i \in Intents : owner[i] # 0 => owner'[i] = owner[i]

LEMMA OtherCall ==
  ASSUME IInv, Grows, NEW h \in Handlers,
         pc'[h] = pc[h], job'[h] = job[h], profile'[h] = profile[h],
         cust'[h] = cust[h]
  PROVE  CallInv(h)'
<1>1. pc[h] \in {"assign", "charge"} =>
        job[h].intent \in Intents /\ owner[job[h].intent] # 0
  BY DEF IInv, TypeOK, CallInv
<1> QED BY <1>1 DEF IInv, CallInv, Grows

(* A job of one of the four kinds, or none.                                *)
LEMMA JobOf ==
  ASSUME IInv, NEW h \in Handlers
  PROVE  /\ job[h].kind \in {"complete", "default"} =>
              job[h].intent \in saved /\ job[h].intent \in Intents
         /\ owner \in [Intents -> 0..customers] /\ customers \in Nat
         /\ profile[h] \in Rows /\ row \in Rows
         /\ profile[h].customer \in 0..customers /\ profile[h].default \in Cards
         /\ profile[h] = NoRow <=> profile[h].customer = 0
         /\ row = NoRow <=> row.customer = 0
         /\ 0 \in 0..customers /\ None \in Cards
<1>1. job[h] \in Jobs \cup {NoJob} /\ profile[h] \in Rows /\ row \in Rows
  BY DEF IInv, TypeOK
<1>2. \A r \in Rows : r.customer \in 0..customers /\ r.default \in Cards
                      /\ r = [customer |-> r.customer, default |-> r.default]
  BY DEF Rows
<1>3. row = NoRow <=> row.customer = 0 BY <1>1, <1>2 DEF NoRow, IInv, TableInv
<1>4. profile[h] = NoRow <=> profile[h].customer = 0
  BY <1>1, <1>2 DEF NoRow, IInv, CallInv
<1>5. job[h].kind \in {"complete", "default"} =>
        job[h].intent \in saved /\ job[h].intent \in Intents
  BY <1>1 DEF Jobs, NoJob, IInv, TypeOK
<1>6. customers \in Nat BY MethodAssumption DEF IInv, TypeOK
<1> QED BY <1>1, <1>2, <1>3, <1>4, <1>5, <1>6 DEF IInv, TypeOK, Cards

LEMMA EndCallInv ==
  ASSUME IInv, Grows, NEW h \in Handlers, EndCall(h)
  PROVE  \A g \in Handlers : CallInv(g)'
<1>1. pc'[h] = "idle" /\ profile'[h] = NoRow
  BY DEF IInv, TypeOK, EndCall, Goto, Labels
<1>2. CallInv(h)' BY <1>1 DEF CallInv, NoRow
<1>3. ASSUME NEW g \in Handlers, g # h PROVE CallInv(g)'
  BY <1>3, OtherCall DEF EndCall, Goto, Labels, IInv, TypeOK
<1> QED BY <1>2, <1>3

-----------------------------------------------------------------------------
(* The steps of a call                                                     *)

LEMMA StartStep ==
  ASSUME IInv, NEW h \in Handlers, NEW j \in Jobs, Start(h, j) PROVE IInv'
<1>1. TypeOK'
  BY JobsGrow DEF Start, Goto, Labels, IInv, TypeOK, stripeVars, Rows, Jobs
<1>2. Grows BY DEF Start, stripeVars, Grows
<1>3. CallInv(h)' BY DEF Start, Goto, Labels, stripeVars, IInv, TypeOK, CallInv
<1>4. ASSUME NEW g \in Handlers, g # h PROVE CallInv(g)'
  BY <1>2, <1>4, OtherCall DEF Start, Goto, Labels, IInv, TypeOK
<1> QED BY <1>1, <1>3, <1>4 DEF Start, stripeVars, IInv, TableInv, DefaultIsOwned

LEMMA ResolveStep ==
  ASSUME IInv, NEW h \in Handlers,
         FindProfile(h) \/ Discover(h) \/ EnsureCustomer(h) \/ Adopt(h)
  PROVE  IInv'
<1>0. customers \in Nat BY JobOf
<1>1. CASE FindProfile(h)
  <2>1. TypeOK' BY <1>1 DEF envVars, FindProfile, Goto, Labels, IInv, TypeOK, stripeVars, Rows, Jobs
  <2>2. Grows BY <1>1 DEF FindProfile, stripeVars, Grows
  <2>3. CallInv(h)'
    BY <1>1, JobOf DEF FindProfile, Goto, Labels, stripeVars, IInv, TypeOK, TableInv, CallInv, NoRow
  <2>4. ASSUME NEW g \in Handlers, g # h PROVE CallInv(g)'
    BY <1>1, <2>2, <2>4, OtherCall DEF FindProfile, Goto, Labels, IInv, TypeOK
  <2> QED BY <1>1, <2>1, <2>3, <2>4 DEF envVars, FindProfile, stripeVars, IInv, TableInv, DefaultIsOwned
<1>2. CASE Discover(h)
  <2>1. TypeOK'
    <3>1. CASE legacy
      <4>1. 1 \in 0..customers BY <1>0, <3>1 DEF IInv, TableInv
      <4>2. cust' = [cust EXCEPT ![h] = 1] /\ pc' = [pc EXCEPT ![h] = "adopt"]
        BY <1>2, <3>1 DEF Discover, Goto, Labels
      <4> QED BY <1>2, <4>1, <4>2 DEF Labels, envVars, Discover, IInv, TypeOK, stripeVars, Rows, Jobs
    <3>2. CASE ~legacy
      BY <1>2, <3>2 DEF envVars, Discover, Goto, Labels, IInv, TypeOK, stripeVars, Rows, Jobs
    <3> QED BY <3>1, <3>2
  <2>2. Grows BY <1>2 DEF Discover, stripeVars, Grows
  <2>3. CallInv(h)' BY <1>2 DEF Discover, Goto, Labels, stripeVars, IInv, TypeOK, CallInv
  <2>4. ASSUME NEW g \in Handlers, g # h PROVE CallInv(g)'
    BY <1>2, <2>2, <2>4, OtherCall DEF Discover, Goto, Labels, IInv, TypeOK
  <2> QED BY <1>2, <2>1, <2>3, <2>4 DEF envVars, Discover, stripeVars, IInv, TableInv, DefaultIsOwned
<1>3. CASE EnsureCustomer(h)
  <2>1. customers' = customers + 1 /\ customers' \in 0..MaxCustomers
        /\ 0..customers \subseteq 0..customers' /\ customers' # 0
    BY <1>0, <1>3, MethodAssumption DEF EnsureCustomer, IInv, TypeOK
  <2>2. Rows \subseteq Rows' BY <2>1 DEF Rows
  <2>3. TypeOK'
    <3>1. cust' \in [Handlers -> 0..customers'] /\ cust'[h] # 0
      BY <1>3, <2>1 DEF EnsureCustomer, IInv, TypeOK
    <3>2. owner' \in [Intents -> 0..customers'] /\ profile' \in [Handlers -> Rows']
          /\ row' \in Rows'
      BY <1>3, <2>1, <2>2 DEF EnsureCustomer, IInv, TypeOK
    <3> QED BY <1>3, <2>1, <3>1, <3>2 DEF envVars, EnsureCustomer, Goto, Labels, IInv, TypeOK, Jobs
  <2>4. Grows BY <1>3 DEF EnsureCustomer, Grows
  <2>5. CallInv(h)' BY <1>3 DEF EnsureCustomer, Goto, Labels, IInv, TypeOK, CallInv
  <2>6. ASSUME NEW g \in Handlers, g # h PROVE CallInv(g)'
    BY <1>3, <2>4, <2>6, OtherCall DEF EnsureCustomer, Goto, Labels, IInv, TypeOK
  <2> QED BY <1>3, <2>1, <2>3, <2>5, <2>6 DEF EnsureCustomer, IInv, TableInv, DefaultIsOwned
<1>4. CASE Adopt(h)
  <2>1. cust[h] \in 0..customers /\ cust[h] # 0 BY <1>4 DEF Adopt, IInv, TypeOK
  <2>2. row' \in Rows /\ row'.customer = cust[h]
    BY <1>4, <2>1 DEF Adopt, Rows, Cards
  <2>3. TypeOK' BY <1>4, <2>2 DEF envVars, Adopt, Goto, Labels, IInv, TypeOK, stripeVars, Rows, Jobs
  <2>4. Grows BY <1>4, <2>1, <2>2 DEF Adopt, stripeVars, Grows
  <2>5. CallInv(h)' BY <1>4, <2>1, <2>2 DEF Adopt, Goto, Labels, stripeVars, IInv, TypeOK, CallInv
  <2>6. ASSUME NEW g \in Handlers, g # h PROVE CallInv(g)'
    BY <1>4, <2>4, <2>6, OtherCall DEF Adopt, Goto, Labels, IInv, TypeOK
  <2> QED
    BY <1>4, <2>1, <2>2, <2>3, <2>5, <2>6 DEF Adopt, stripeVars, IInv, TableInv, DefaultIsOwned
<1> QED BY <1>1, <1>2, <1>3, <1>4

LEMMA EndTypes ==
  ASSUME IInv, NEW h \in Handlers, EndCall(h), UNCHANGED <<row, stripeVars, legacy, overlapped>>, crashes' \in Nat
  PROVE  IInv'
<1>1. TypeOK'
  BY JobOf DEF EndCall, Goto, Labels, IInv, TypeOK, stripeVars, Rows, Jobs, NoRow, NoJob
<1>2. Grows BY DEF stripeVars, Grows
<1>3. \A g \in Handlers : CallInv(g)' BY <1>2, EndCallInv
<1> QED BY <1>1, <1>3 DEF stripeVars, IInv, TableInv, DefaultIsOwned

LEMMA DecideStep ==
  ASSUME IInv, NEW h \in Handlers,
         DecideList(h) \/ DecideComplete(h) \/ DecideDefault(h) \/ Refuse(h)
  PROVE  IInv'
<1>0. crashes' \in Nat /\ UNCHANGED <<row, stripeVars, envVars>>
  BY DEF envVars, DecideList, DecideComplete, DecideDefault, Refuse, IInv, TypeOK
<1>1. CASE EndCall(h) BY <1>0, <1>1, EndTypes DEF envVars
<1>2. CASE ~EndCall(h)
  <2>1. UNCHANGED <<row, stripeVars, job, profile, card, envVars>>
        /\ pc' = [pc EXCEPT ![h] = pc'[h]] /\ cust' = [cust EXCEPT ![h] = cust'[h]]
        /\ pc'[h] \in {"read", "assign", "refused"}
        /\ cust'[h] \in 0..customers /\ (pc'[h] # "refused" => cust'[h] # 0)
        /\ (pc'[h] = "assign" => /\ job[h].intent \in Intents
                                 /\ owner[job[h].intent] = cust'[h])
        /\ (job[h].kind # "complete" => profile[h].customer # 0)
    <3>1. CASE DecideList(h)
      BY <1>2, <3>1, JobOf DEF DecideList, Goto, Labels, IInv, TypeOK
    <3>2. CASE DecideDefault(h)
      BY <1>2, <3>2, JobOf DEF DecideDefault, Goto, Labels, IInv, TypeOK
    <3>3. CASE DecideComplete(h)
      <4>1. job[h].intent \in saved /\ job[h].intent \in Intents
        BY <3>3, JobOf DEF DecideComplete
      <4>2. owner[job[h].intent] \in 0..customers /\ owner[job[h].intent] # 0
        BY <4>1 DEF IInv, TypeOK, TableInv
      <4> QED BY <3>3, <4>1, <4>2 DEF DecideComplete, Goto, Labels, IInv, TypeOK
    <3> QED BY <1>2, <3>1, <3>2, <3>3 DEF Refuse
  <2>2. TypeOK'
    <3>1. pc' \in [Handlers -> Labels]
      <4>1. pc'[h] \in Labels BY <2>1 DEF Labels
      <4> QED BY <2>1, <4>1 DEF IInv, TypeOK
    <3>5. cust' \in [Handlers -> 0..customers] BY <2>1 DEF IInv, TypeOK
    <3>2. \A g \in Handlers :
            pc'[g] \in {"assign", "charge", "read", "save", "adopt"} => cust'[g] # 0
      BY <2>1 DEF IInv, TypeOK
    <3>3. Jobs' = Jobs /\ Rows' = Rows BY <2>1 DEF stripeVars, Rows, Jobs
    <3> QED BY <2>1, <3>1, <3>2, <3>3, <3>5 DEF envVars, stripeVars, IInv, TypeOK
  <2>3. Grows BY <2>1 DEF stripeVars, Grows
  <2>4. CallInv(h)' BY <2>1 DEF stripeVars, IInv, TypeOK, CallInv
  <2>5. ASSUME NEW g \in Handlers, g # h PROVE CallInv(g)'
    BY <2>1, <2>3, <2>5, OtherCall DEF IInv, TypeOK
  <2> QED BY <2>1, <2>2, <2>4, <2>5 DEF envVars, stripeVars, IInv, TableInv, DefaultIsOwned
<1> QED BY <1>1, <1>2

-----------------------------------------------------------------------------
(* The steps at Stripe                                                     *)

LEMMA CreateIntentStep ==
  ASSUME IInv, NEW h \in Handlers, CreateIntent(h) PROVE IInv'
<1>1. PICK i \in Intents : owner[i] = 0 /\ owner' = [owner EXCEPT ![i] = profile[h].customer]
  BY DEF CreateIntent
<1>2. profile[h].customer \in 0..customers /\ profile[h].customer # 0
      /\ profile[h].default \in Cards
  BY JobOf DEF CreateIntent, IInv, CallInv
<1>3. TypeOK' BY <1>1, <1>2 DEF envVars, CreateIntent, Goto, Labels, IInv, TypeOK, Rows, Jobs
<1>4. Grows BY <1>1 DEF CreateIntent, Grows, IInv, TypeOK
<1>5. TableInv' BY <1>1, <1>2 DEF CreateIntent, IInv, TypeOK, TableInv
<1>6. DefaultIsOwned'
  <2>1. \A c \in 1..MaxCustomers : c # 0 BY MethodAssumption
  <2> QED BY <1>1, <2>1 DEF CreateIntent, IInv, TypeOK, DefaultIsOwned
<1>7. CallInv(h)' BY DEF CreateIntent, Goto, Labels, IInv, TypeOK, CallInv
<1>8. ASSUME NEW g \in Handlers, g # h PROVE CallInv(g)'
  BY <1>4, <1>8, OtherCall DEF CreateIntent, Goto, Labels, IInv, TypeOK
<1> QED BY <1>3, <1>5, <1>6, <1>7, <1>8 DEF IInv

LEMMA ConfirmStep ==
  ASSUME IInv, NEW i \in Intents, Confirm(i) PROVE IInv'
<1>1. Jobs \subseteq Jobs' BY JobsGrow DEF Confirm
<1>2. TypeOK' BY <1>1 DEF envVars, Confirm, IInv, TypeOK, callVars, Rows
<1>3. Grows BY DEF Confirm, Grows
<1>4. ASSUME NEW g \in Handlers PROVE CallInv(g)'
  BY <1>3, OtherCall DEF Confirm, callVars
<1> QED BY <1>2, <1>4 DEF Confirm, IInv, TypeOK, TableInv, DefaultIsOwned

LEMMA StripeStep ==
  ASSUME IInv, NEW h \in Handlers,
         AssignDefault(h) \/ ChargeSubscriptions(h) \/ ReadLive(h)
  PROVE  IInv'
<1>1. cust[h] \in 1..MaxCustomers
  BY MethodAssumption DEF AssignDefault, ChargeSubscriptions, ReadLive, IInv, TypeOK
<1>2. pc[h] # "read" => job[h].intent \in Cards /\ owner[job[h].intent] = cust[h]
  BY DEF AssignDefault, ChargeSubscriptions, ReadLive, IInv, CallInv, Cards
<1>3. live[cust[h]] \in Cards BY <1>1 DEF IInv, TypeOK
<1>4. TypeOK'
  <2>1. CASE AssignDefault(h)
    BY <2>1, <1>1, <1>2 DEF envVars, AssignDefault, Goto, Labels, IInv, TypeOK, Rows, Jobs
  <2>2. CASE ChargeSubscriptions(h)
    BY <2>2, <1>1, <1>2
    DEF envVars, ChargeSubscriptions, Goto, Labels, IInv, TypeOK, Rows, Jobs
  <2>3. CASE ReadLive(h)
    BY <2>3, <1>3 DEF envVars, ReadLive, Goto, Labels, IInv, TypeOK, stripeVars, Rows, Jobs
  <2> QED BY <2>1, <2>2, <2>3
<1>5. TableInv'
  BY DEF envVars, AssignDefault, ChargeSubscriptions, ReadLive, stripeVars, IInv, TableInv
<1>6. DefaultIsOwned'
  <2>1. UNCHANGED owner
    BY DEF AssignDefault, ChargeSubscriptions, ReadLive, stripeVars
  <2>2. \A c \in 1..MaxCustomers :
          /\ live'[c] = live[c] \/ owner[live'[c]] = c
          /\ charged'[c] = charged[c] \/ owner[charged'[c]] = c
    BY <1>1, <1>2
    DEF AssignDefault, ChargeSubscriptions, ReadLive, stripeVars, IInv, TypeOK
  <2> QED BY <2>1, <2>2 DEF IInv, DefaultIsOwned
<1>7. Grows BY DEF AssignDefault, ChargeSubscriptions, ReadLive, stripeVars, Grows
<1>8. CallInv(h)'
  BY DEF AssignDefault, ChargeSubscriptions, ReadLive, stripeVars, Goto, Labels, IInv, TypeOK, CallInv
<1>9. ASSUME NEW g \in Handlers, g # h PROVE CallInv(g)'
  BY <1>7, <1>9, OtherCall
  DEF AssignDefault, ChargeSubscriptions, ReadLive, stripeVars, Goto, Labels, IInv, TypeOK
<1> QED BY <1>4, <1>5, <1>6, <1>8, <1>9 DEF IInv

-----------------------------------------------------------------------------
(* The steps that write the profile at the end                             *)

LEMMA WriteStep ==
  ASSUME IInv, NEW h \in Handlers, SaveProfile(h) \/ SyncStoredDefault(h)
  PROVE  IInv'
<1>1. row' \in Rows /\ row'.customer # 0
  <2>1. CASE SaveProfile(h) BY <2>1 DEF SaveProfile, IInv, TypeOK, Rows
  <2>2. CASE SyncStoredDefault(h)
    <3>1. row.customer # 0 BY <2>2 DEF SyncStoredDefault, IInv, CallInv
    <3> QED BY <2>2, <3>1 DEF SyncStoredDefault, IInv, TypeOK, Rows
  <2> QED BY <2>1, <2>2
<1>2. EndCall(h) /\ UNCHANGED <<stripeVars, envVars>>
  BY DEF SaveProfile, SyncStoredDefault
<1>3. TypeOK'
  BY <1>1, <1>2, JobOf DEF envVars, EndCall, Goto, Labels, IInv, TypeOK, stripeVars, Rows, Jobs, NoRow, NoJob
<1>4. Grows BY <1>1, <1>2 DEF stripeVars, Grows
<1>5. \A g \in Handlers : CallInv(g)' BY <1>2, <1>4, EndCallInv
<1> QED BY <1>1, <1>2, <1>3, <1>5 DEF envVars, stripeVars, IInv, TableInv, DefaultIsOwned

LEMMA StepIInv == IInv /\ [Next]_vars => IInv'
<1> SUFFICES ASSUME IInv, [Next]_vars PROVE IInv' OBVIOUS
<1>1. ASSUME NEW h \in Handlers, NEW j \in Jobs, Start(h, j) PROVE IInv'
  BY <1>1, StartStep
<1>2. ASSUME NEW h \in Handlers, Work(h) PROVE IInv'
  BY <1>2, ResolveStep, DecideStep, CreateIntentStep, StripeStep, WriteStep DEF Work
<1>3. ASSUME NEW h \in Handlers, Crash(h) PROVE IInv'
  BY <1>3, EndTypes DEF Crash, IInv, TypeOK
<1>4. ASSUME NEW i \in Intents, Confirm(i) PROVE IInv'
  BY <1>4, ConfirmStep
<1>5. CASE UNCHANGED vars
  <2>1. TypeOK' BY <1>5 DEF envVars, vars, stripeVars, callVars, IInv, TypeOK, Rows, Jobs
  <2>2. Grows BY <1>5 DEF vars, stripeVars, Grows
  <2>3. ASSUME NEW g \in Handlers PROVE CallInv(g)'
    BY <1>5, <2>2, OtherCall DEF vars, callVars
  <2> QED BY <1>5, <2>1, <2>3 DEF envVars, vars, stripeVars, IInv, TableInv, DefaultIsOwned
<1> QED BY <1>1, <1>2, <1>3, <1>4, <1>5 DEF Next

(* The inductive invariant holds whatever calls overlap and break off.     *)
THEOREM Invariant == Spec => []IInv
BY InitIInv, StepIInv, PTL DEF Spec

(* Type correctness of the profile, of Stripe and of the calls.            *)
THEOREM MethodTypeCorrect == Spec => []TypeOK
<1>1. IInv => TypeOK BY DEF IInv
<1> QED BY <1>1, Invariant, PTL

(* Stripe is never told to charge a customer with a card of another one,   *)
(* although racing calls create several and the profile jumps among them:  *)
(* the owner is compared with the customer that is written, and a card     *)
(* does not change its owner.                                              *)
THEOREM DefaultsAreOwned == Spec => []DefaultIsOwned
<1>1. IInv => DefaultIsOwned BY DEF IInv
<1> QED BY <1>1, Invariant, PTL

-----------------------------------------------------------------------------
(* Without overlapping or failing calls.  One call is in progress at most; *)
(* the row, the customer and its subscriptions agree but while it goes     *)
(* through its last steps; there is one Stripe customer, and while there   *)
(* is no row, only an earlier payment or a call about to write the row has *)
(* created it.                                                             *)
Single == \A g, h \in Handlers : pc[g] # "idle" /\ pc[h] # "idle" => g = h

Agree == charged = live /\ row.default = live[1]

TurnTables ==
  /\ customers <= 1
  /\ row.customer = 0 => \A i \in Intents : owner[i] = 0
  /\ row.customer = 0 /\ customers # 0 => legacy \/ \E h \in Handlers : pc[h] = "adopt"
  /\ Agree \/ \E h \in Handlers : pc[h] \in {"charge", "read", "save", "sync"}

(* What this call relies on: nobody else writes.                           *)
TurnCall(h) ==
  /\ pc[h] \notin {"idle", "find"} => profile[h] = row
  /\ pc[h] \in {"discover", "ensure", "adopt"} => row.customer = 0
  /\ pc[h] = "ensure" => ~legacy
  /\ pc[h] = "charge" => live[1] = job[h].intent
                         /\ \A c \in 2..MaxCustomers : charged[c] = live[c]
  /\ pc[h] \in {"read", "save", "sync"} => charged = live
  /\ pc[h] \in {"save", "sync"} => card[h] = live[1]

TurnInv == InTurn => Single /\ TurnTables /\ \A h \in Handlers : TurnCall(h)

(* The call at work is the only one, and the customer is number 1.         *)
LEMMA TurnFacts ==
  ASSUME IInv, TurnInv, InTurn, NEW h \in Handlers, pc[h] # "idle"
  PROVE  /\ TurnTables /\ TurnCall(h)
         /\ \A g \in Handlers : g # h => pc[g] = "idle"
         /\ pc[h] \notin {"charge", "read", "save", "sync"} => Agree
         /\ pc[h] # "adopt" /\ row.customer = 0 /\ customers # 0 => legacy
         /\ \A n \in 0..customers : n # 0 => n = 1 /\ customers = 1
<1>1. TurnTables /\ TurnCall(h) /\ Single BY DEF TurnInv
<1>2. \A g \in Handlers : g # h => pc[g] = "idle" BY <1>1 DEF Single
<1>3. pc[h] \notin {"charge", "read", "save", "sync"} => Agree
  BY <1>1, <1>2 DEF TurnTables
<1>4. pc[h] # "adopt" /\ row.customer = 0 /\ customers # 0 => legacy
  BY <1>1, <1>2 DEF TurnTables
<1>5. customers \in Nat /\ customers <= 1 BY <1>1, JobOf DEF TurnTables
<1>6. \A n \in 0..customers : n # 0 => n = 1 /\ customers = 1 BY <1>5
<1> QED BY <1>1, <1>2, <1>3, <1>4, <1>6

LEMMA ResolveTurn ==
  ASSUME IInv, TurnInv, InTurn, NEW h \in Handlers,
         FindProfile(h) \/ Discover(h) \/ EnsureCustomer(h) \/ Adopt(h)
  PROVE  TurnTables' /\ TurnCall(h)'
<1>1. pc[h] \in {"find", "discover", "ensure", "adopt"} /\ pc[h] # "idle"
  BY DEF FindProfile, Discover, EnsureCustomer, Adopt
<1>2. TurnTables /\ TurnCall(h) /\ Agree BY <1>1, TurnFacts
<1>3. pc[h] # "adopt" /\ row.customer = 0 /\ customers # 0 => legacy
  BY <1>1, TurnFacts
<1>4. UNCHANGED <<live, charged, owner, legacy>>
  BY DEF FindProfile, Discover, EnsureCustomer, Adopt, stripeVars, envVars
<1>5. CASE FindProfile(h)
  <2>1. profile'[h] = row /\ UNCHANGED <<row, customers>>
        /\ pc'[h] \in {"discover", "decide"} /\ (pc'[h] = "discover" => row.customer = 0)
    BY <1>5, JobOf DEF FindProfile, Goto, IInv, TypeOK, stripeVars
  <2>2. pc[h] = "find" BY <1>5 DEF FindProfile
  <2>3. Agree' BY <1>2, <1>4, <2>1 DEF Agree
  <2>4. TurnTables' BY <1>2, <1>3, <1>4, <2>1, <2>2, <2>3 DEF TurnTables
  <2>5. TurnCall(h)' BY <2>1 DEF TurnCall
  <2> QED BY <2>4, <2>5
<1>6. CASE Discover(h)
  <2>1. UNCHANGED <<row, customers, profile>> /\ pc[h] = "discover"
        /\ pc'[h] \in {"adopt", "decide", "ensure"} /\ (pc'[h] = "ensure" => ~legacy)
    <3>1. UNCHANGED <<row, customers, profile>> /\ pc[h] = "discover"
      BY <1>6 DEF Discover, stripeVars
    <3>2. pc \in [Handlers -> Labels] BY DEF IInv, TypeOK
    <3>3. CASE legacy BY <1>6, <3>1, <3>2, <3>3 DEF Discover, Goto
    <3>4. CASE ~legacy BY <1>6, <3>1, <3>2, <3>4 DEF Discover, Goto
    <3> QED BY <3>3, <3>4
  <2>2. row.customer = 0 /\ profile[h] = row BY <1>2, <2>1 DEF TurnCall
  <2>3. Agree' BY <1>2, <1>4, <2>1 DEF Agree
  <2>4. TurnTables' BY <1>2, <1>3, <1>4, <2>1, <2>3 DEF TurnTables
  <2>5. TurnCall(h)' BY <1>4, <2>1, <2>2 DEF TurnCall
  <2> QED BY <2>4, <2>5
<1>7. CASE EnsureCustomer(h)
  <2>1. UNCHANGED <<row, profile>> /\ pc[h] = "ensure" /\ pc'[h] = "adopt"
        /\ customers' = customers + 1
    BY <1>7 DEF EnsureCustomer, Goto, IInv, TypeOK
  <2>2. row.customer = 0 /\ profile[h] = row /\ ~legacy BY <1>2, <2>1 DEF TurnCall
  <2>3. customers' <= 1 BY <1>3, <2>1, <2>2
  <2>4. Agree' BY <1>2, <1>4, <2>1 DEF Agree
  <2>5. TurnTables' BY <1>2, <1>4, <2>1, <2>2, <2>3, <2>4 DEF TurnTables
  <2>6. TurnCall(h)' BY <2>1, <2>2 DEF TurnCall
  <2> QED BY <2>5, <2>6
<1>8. CASE Adopt(h)
  <2>1. /\ customers' = customers /\ pc[h] = "adopt" /\ pc'[h] = "decide"
        /\ profile'[h] = row' /\ row'.default = None /\ row'.customer = cust[h]
    BY <1>8 DEF Adopt, Goto, IInv, TypeOK, stripeVars
  <2>2. cust[h] # 0 BY <2>1 DEF IInv, TypeOK
  <2>3. row.customer = 0 BY <1>2, <2>1 DEF TurnCall
  <2>4. row.default = None BY <2>3 DEF IInv, TableInv
  <2>5. Agree' BY <1>2, <1>4, <2>1, <2>4 DEF Agree
  <2>6. TurnTables' BY <1>2, <2>1, <2>2, <2>5 DEF TurnTables
  <2>7. TurnCall(h)' BY <2>1 DEF TurnCall
  <2> QED BY <2>6, <2>7
<1> QED BY <1>5, <1>6, <1>7, <1>8

LEMMA DecideTurn ==
  ASSUME IInv, TurnInv, InTurn, NEW h \in Handlers,
         DecideList(h) \/ DecideComplete(h) \/ DecideDefault(h) \/ Refuse(h)
  PROVE  TurnTables' /\ TurnCall(h)'
<1>1. pc[h] \in {"decide", "refused"} /\ pc[h] # "idle"
  BY DEF DecideList, DecideComplete, DecideDefault, Refuse
<1>2. TurnTables /\ TurnCall(h) /\ Agree BY <1>1, TurnFacts
<1>3. row.customer = 0 /\ customers # 0 => legacy BY <1>1, TurnFacts
<1>4. UNCHANGED <<row, customers, owner, live, charged, legacy>>
  BY DEF DecideList, DecideComplete, DecideDefault, Refuse, stripeVars, envVars
<1>5. Agree' BY <1>2, <1>4 DEF Agree
<1>6. TurnTables' BY <1>2, <1>3, <1>4, <1>5 DEF TurnTables
<1>7. CASE EndCall(h)
  <2>1. pc'[h] = "idle" BY <1>7 DEF EndCall, Goto, IInv, TypeOK
  <2> QED BY <1>6, <2>1 DEF TurnCall
<1>8. CASE ~EndCall(h)
  <2>1. profile'[h] = profile[h] /\ pc'[h] \in {"read", "assign", "refused"}
    BY <1>8 DEF DecideList, DecideComplete, DecideDefault, Refuse, Goto, IInv, TypeOK
  <2>2. profile[h] = row BY <1>1, <1>2 DEF TurnCall
  <2>3. charged' = live' BY <1>5 DEF Agree
  <2>4. TurnCall(h)' BY <1>4, <2>1, <2>2, <2>3 DEF TurnCall
  <2> QED BY <1>6, <2>4
<1> QED BY <1>7, <1>8

LEMMA CreateIntentTurn ==
  ASSUME IInv, TurnInv, InTurn, NEW h \in Handlers, CreateIntent(h)
  PROVE  TurnTables' /\ TurnCall(h)'
<1>1. pc[h] = "decide" /\ job[h].kind = "setup" /\ pc'[h] = "save"
      /\ card'[h] = profile[h].default
      /\ UNCHANGED <<row, customers, live, charged, legacy, profile>>
  BY DEF CreateIntent, Goto, IInv, TypeOK, envVars
<1>2. TurnTables /\ TurnCall(h) /\ Agree BY <1>1, TurnFacts
<1>3. profile[h] = row BY <1>1, <1>2 DEF TurnCall
<1>4. row.customer # 0 BY <1>1, <1>3 DEF IInv, CallInv
<1>5. TurnTables' BY <1>1, <1>2, <1>4 DEF TurnTables
<1>6. TurnCall(h)' BY <1>1, <1>2, <1>3 DEF TurnCall, Agree
<1> QED BY <1>5, <1>6

LEMMA StripeTurn ==
  ASSUME IInv, TurnInv, InTurn, NEW h \in Handlers,
         AssignDefault(h) \/ ChargeSubscriptions(h) \/ ReadLive(h)
  PROVE  TurnTables' /\ TurnCall(h)'
<1>1. pc[h] \in {"assign", "charge", "read"} /\ pc[h] # "idle"
      /\ UNCHANGED <<row, customers, owner, legacy, profile, job>>
      /\ pc'[h] \in {"charge", "read", "save", "sync"}
  BY DEF AssignDefault, ChargeSubscriptions, ReadLive, Goto, IInv, TypeOK, stripeVars, envVars
<1>2. TurnTables /\ TurnCall(h) BY <1>1, TurnFacts
<1>3. row.customer = 0 /\ customers # 0 => legacy BY <1>1, TurnFacts
<1>4. TurnTables' BY <1>1, <1>2, <1>3 DEF TurnTables
<1>5. cust[h] = 1
  <2>1. cust[h] \in 0..customers /\ cust[h] # 0 BY <1>1 DEF IInv, TypeOK
  <2> QED BY <1>1, <2>1, TurnFacts
<1>6. profile'[h] = row' BY <1>1, <1>2 DEF TurnCall
<1>7. /\ live \in [1..MaxCustomers -> Cards] /\ charged \in [1..MaxCustomers -> Cards]
      /\ 1 \in 1..MaxCustomers /\ \A c \in 1..MaxCustomers : c # 1 => c \in 2..MaxCustomers
      /\ \A c \in 2..MaxCustomers : c \in 1..MaxCustomers /\ c # 1
  BY MethodAssumption DEF IInv, TypeOK
<1>8. CASE AssignDefault(h)
  <2>1. charged = live BY <1>8, TurnFacts DEF AssignDefault, Agree
  <2>2. live' = [live EXCEPT ![1] = job[h].intent] /\ charged' = charged /\ pc'[h] = "charge"
    BY <1>5, <1>8 DEF AssignDefault, Goto, IInv, TypeOK
  <2>3. live'[1] = job[h].intent /\ \A c \in 2..MaxCustomers : charged'[c] = live'[c]
    BY <1>7, <2>1, <2>2
  <2> QED BY <1>1, <1>4, <1>6, <2>2, <2>3 DEF TurnCall
<1>9. CASE ChargeSubscriptions(h)
  <2>1. /\ charged' = [charged EXCEPT ![1] = job[h].intent] /\ live' = live
        /\ pc'[h] \in {"read", "sync"} /\ card'[h] = job[h].intent
    BY <1>5, <1>9 DEF ChargeSubscriptions, Goto, IInv, TypeOK
  <2>2. live[1] = job[h].intent /\ \A c \in 2..MaxCustomers : charged[c] = live[c]
    BY <1>2, <1>9 DEF ChargeSubscriptions, TurnCall
  <2>3. charged' = live
    <3>1. \A c \in 1..MaxCustomers : charged'[c] = live[c] BY <1>7, <2>1, <2>2
    <3>2. DOMAIN charged' = 1..MaxCustomers /\ charged' = [c \in DOMAIN charged' |-> charged'[c]]
      BY <1>7, <2>1
    <3>3. live = [c \in 1..MaxCustomers |-> live[c]] BY <1>7
    <3> QED BY <3>1, <3>2, <3>3
  <2> QED BY <1>4, <1>6, <2>1, <2>2, <2>3 DEF TurnCall
<1>10. CASE ReadLive(h)
  <2>1. UNCHANGED <<live, charged>> /\ card'[h] = live[1] /\ pc'[h] \in {"save", "sync"}
    BY <1>5, <1>10 DEF ReadLive, Goto, IInv, TypeOK, stripeVars
  <2>2. charged = live BY <1>2, <1>10 DEF ReadLive, TurnCall
  <2> QED BY <1>4, <1>6, <2>1, <2>2 DEF TurnCall
<1> QED BY <1>8, <1>9, <1>10

LEMMA WriteTurn ==
  ASSUME IInv, TurnInv, InTurn, NEW h \in Handlers, SaveProfile(h) \/ SyncStoredDefault(h)
  PROVE  TurnTables' /\ TurnCall(h)'
<1>1. /\ pc[h] \in {"save", "sync"} /\ pc[h] # "idle" /\ EndCall(h)
      /\ UNCHANGED <<customers, owner, live, charged, legacy>>
  BY DEF SaveProfile, SyncStoredDefault, stripeVars, envVars
<1>2. TurnTables /\ TurnCall(h) BY <1>1, TurnFacts
<1>3. charged = live /\ card[h] = live[1] /\ profile[h] = row BY <1>1, <1>2 DEF TurnCall
<1>4. row'.default = card[h] /\ row'.customer # 0
  <2>1. CASE SaveProfile(h) BY <2>1 DEF SaveProfile, IInv, TypeOK
  <2>2. CASE SyncStoredDefault(h)
    <3>1. row.customer # 0 /\ row \in Rows BY <2>2 DEF SyncStoredDefault, IInv, TypeOK, CallInv
    <3> QED BY <1>3, <2>2, <3>1 DEF SyncStoredDefault, Rows
  <2> QED BY <2>1, <2>2
<1>5. Agree' BY <1>1, <1>3, <1>4 DEF Agree
<1>6. TurnTables' BY <1>1, <1>2, <1>4, <1>5 DEF TurnTables
<1>7. pc'[h] = "idle" BY <1>1 DEF EndCall, Goto, IInv, TypeOK
<1> QED BY <1>6, <1>7 DEF TurnCall

-----------------------------------------------------------------------------
(* A step of the call in progress.                                         *)
LEMMA WorkMoves ==
  ASSUME IInv, NEW h \in Handlers, Work(h)
  PROVE  UNCHANGED envVars /\ pc[h] # "idle" /\ pc' = [pc EXCEPT ![h] = pc'[h]]
BY DEF Work, FindProfile, Discover, EnsureCustomer, Adopt, DecideList, DecideComplete,
       DecideDefault, Refuse, CreateIntent, AssignDefault, ChargeSubscriptions, ReadLive,
       SaveProfile, SyncStoredDefault, EndCall, Goto, IInv, TypeOK

LEMMA WorkTurn ==
  ASSUME IInv, TurnInv, NEW h \in Handlers, Work(h)
  PROVE  TurnInv'
<1> SUFFICES ASSUME InTurn' PROVE Single' /\ TurnTables' /\ \A g \in Handlers : TurnCall(g)'
  BY DEF TurnInv
<1>1. UNCHANGED envVars /\ pc[h] # "idle" /\ pc' = [pc EXCEPT ![h] = pc'[h]]
  BY WorkMoves
<1>2. InTurn BY <1>1 DEF InTurn, envVars
<1>3. TurnTables' /\ TurnCall(h)'
  BY <1>2, ResolveTurn, DecideTurn, CreateIntentTurn, StripeTurn, WriteTurn DEF Work
<1>4. \A g \in Handlers : g # h => pc'[g] = "idle"
  BY <1>1, <1>2, TurnFacts DEF IInv, TypeOK
<1>5. Single' BY <1>4 DEF Single
<1>6. \A g \in Handlers : g # h => TurnCall(g)' BY <1>4 DEF TurnCall
<1> QED BY <1>3, <1>5, <1>6

LEMMA StartTurn ==
  ASSUME IInv, TurnInv, NEW h \in Handlers, NEW j \in Jobs, Start(h, j)
  PROVE  TurnInv'
<1> SUFFICES ASSUME InTurn' PROVE Single' /\ TurnTables' /\ \A g \in Handlers : TurnCall(g)'
  BY DEF TurnInv
<1>1. InTurn /\ Idle BY DEF Start, InTurn
<1>2. pc'[h] = "find" /\ \A g \in Handlers : g # h => pc'[g] = "idle"
  BY <1>1 DEF Start, Goto, Idle, IInv, TypeOK
<1>3. UNCHANGED <<row, customers, owner, live, charged, legacy>> BY DEF Start, stripeVars
<1>4. TurnTables BY <1>1 DEF TurnInv
<1>5. Agree /\ (row.customer = 0 /\ customers # 0 => legacy)
  BY <1>1, <1>4 DEF TurnTables, Idle
<1>6. Agree' BY <1>3, <1>5 DEF Agree
<1>7. TurnTables' BY <1>3, <1>4, <1>5, <1>6 DEF TurnTables
<1> QED BY <1>2, <1>7 DEF Single, TurnCall

LEMMA ConfirmTurn ==
  ASSUME IInv, TurnInv, (\E i \in Intents : Confirm(i)) \/ UNCHANGED vars
  PROVE  TurnInv'
<1>1. UNCHANGED <<row, customers, owner, live, charged, legacy, crashes, overlapped,
                  pc, job, profile, card>>
  BY DEF Confirm, vars, stripeVars, callVars, envVars
<1> QED BY <1>1 DEF TurnInv, InTurn, Single, TurnTables, TurnCall, Agree

LEMMA StepTurn == IInv /\ TurnInv /\ [Next]_vars => TurnInv'
<1> SUFFICES ASSUME IInv, TurnInv, [Next]_vars PROVE TurnInv' OBVIOUS
<1>1. ASSUME NEW h \in Handlers, NEW j \in Jobs, Start(h, j) PROVE TurnInv'
  BY <1>1, StartTurn
<1>2. ASSUME NEW h \in Handlers, Work(h) PROVE TurnInv' BY <1>2, WorkTurn
<1>3. ASSUME NEW h \in Handlers, Crash(h) PROVE TurnInv'
  <2>1. crashes' # 0 BY <1>3 DEF Crash, IInv, TypeOK
  <2> QED BY <2>1 DEF TurnInv, InTurn
<1>4. CASE (\E i \in Intents : Confirm(i)) \/ UNCHANGED vars BY <1>4, ConfirmTurn
<1> QED BY <1>1, <1>2, <1>3, <1>4 DEF Next

(* Calls in turn leave the row, Stripe's customer and its subscriptions    *)
(* with the same card, and create one customer at most, however many       *)
(* handlers, cards and requests there are: the last writes of a call put   *)
(* right what its first ones set apart.                                    *)
THEOREM CardsAgreeInSequence == Spec => []CardsAgreeInTurn
<1>1. Init => TurnInv
  <2> SUFFICES ASSUME Init PROVE Single /\ TurnTables /\ \A h \in Handlers : TurnCall(h)
    BY DEF TurnInv
  <2>1. Agree BY MethodAssumption DEF Init, Agree, NoRow
  <2>2. customers <= 1 /\ (customers # 0 => legacy) BY DEF Init
  <2> QED BY <2>1, <2>2 DEF Init, Single, TurnTables, TurnCall
<1>2. IInv /\ TurnInv => CardsAgreeInTurn
  <2> SUFFICES ASSUME IInv, TurnInv, InTurn
               PROVE  DefaultIsLive /\ DefaultIsCharged /\ customers <= 1
    BY DEF CardsAgreeInTurn
  <2>1. TurnTables BY DEF TurnInv
  <2>2. ASSUME Idle PROVE Agree BY <2>1, <2>2 DEF TurnTables, Idle
  <2>3. ASSUME row # NoRow PROVE row.customer = 1
    <3>1. row \in [customer : 0..customers, default : Cards] /\ customers \in Nat
      BY MethodAssumption DEF IInv, TypeOK, Rows
    <3>2. row.customer # 0
      <4>1. row = [customer |-> row.customer, default |-> row.default] BY <3>1
      <4> QED BY <2>3, <4>1 DEF NoRow, IInv, TableInv
    <3> QED BY <2>1, <3>1, <3>2 DEF TurnTables
  <2>4. DefaultIsLive BY <2>2, <2>3 DEF Agree, DefaultIsLive
  <2>5. DefaultIsCharged BY <2>2 DEF Agree, DefaultIsCharged
  <2>6. customers <= 1 BY <2>1 DEF TurnTables
  <2> QED BY <2>4, <2>5, <2>6
<1> QED BY <1>1, <1>2, StepTurn, Invariant, PTL DEF Spec

-----------------------------------------------------------------------------
(* Calls may break off now, but not overlap: what a listing has read of    *)
(* the row and of the customer is what they hold.                          *)
RepairCall(h) ==
  job[h].kind = "list" =>
    /\ pc[h] \in {"discover", "decide", "read", "sync"} => profile[h] = row
    /\ pc[h] \in {"read", "sync"} => cust[h] = row.customer
    /\ pc[h] = "sync" => card[h] = live[cust[h]]

RepairInv == ~overlapped => Single /\ \A h \in Handlers : RepairCall(h)

(* The listing's own steps.                                                *)
LEMMA ListCall ==
  ASSUME IInv, NEW h \in Handlers, Work(h), RepairCall(h), job'[h].kind = "list"
  PROVE  RepairCall(h)'
<1>1. job'[h] = job[h] /\ ~EndCall(h)
  BY DEF Work, FindProfile, Discover, EnsureCustomer, Adopt, DecideList, DecideComplete,
         DecideDefault, Refuse, CreateIntent, AssignDefault, ChargeSubscriptions, ReadLive,
         SaveProfile, SyncStoredDefault, EndCall, NoJob, IInv, TypeOK
<1>2. CASE FindProfile(h)
  <2>1. profile'[h] = row /\ row' = row /\ pc'[h] \in {"discover", "decide"}
    BY <1>2 DEF FindProfile, Goto, IInv, TypeOK
  <2> QED BY <2>1 DEF RepairCall
<1>3. CASE Discover(h)
  <2>1. /\ pc[h] = "discover" /\ UNCHANGED <<row, profile>>
        /\ pc' = [pc EXCEPT ![h] = pc'[h]] /\ pc'[h] \in {"adopt", "decide"}
        /\ (pc'[h] = "decide" => ~legacy)
    <3>1. UNCHANGED <<row, profile>> /\ pc[h] = "discover" BY <1>3 DEF Discover
    <3>2. pc \in [Handlers -> Labels] /\ job[h].kind = "list" BY <1>1 DEF IInv, TypeOK
    <3>3. CASE legacy BY <1>3, <3>1, <3>2, <3>3 DEF Discover, Goto
    <3>4. CASE ~legacy BY <1>3, <3>1, <3>2, <3>4 DEF Discover, Goto
    <3> QED BY <3>3, <3>4
  <2> QED BY <1>1, <2>1 DEF RepairCall
<1>4. CASE EnsureCustomer(h)
  <2>1. pc'[h] = "adopt" BY <1>4 DEF EnsureCustomer, Goto, IInv, TypeOK
  <2> QED BY <2>1 DEF RepairCall
<1>5. CASE Adopt(h)
  <2>1. profile'[h] = row' /\ pc'[h] = "decide" BY <1>5 DEF Adopt, Goto, IInv, TypeOK
  <2> QED BY <2>1 DEF RepairCall
<1>6. CASE DecideList(h)
  <2>1. /\ pc[h] = "decide" /\ pc'[h] = "read" /\ UNCHANGED <<row, profile>>
        /\ cust'[h] = profile[h].customer
    BY <1>1, <1>6 DEF DecideList, Goto, IInv, TypeOK
  <2> QED BY <1>1, <2>1 DEF RepairCall
<1>7. CASE ReadLive(h)
  <2>1. /\ pc[h] = "read" /\ pc'[h] = "sync" /\ UNCHANGED <<row, profile, cust, live>>
        /\ card'[h] = live[cust[h]]
    BY <1>1, <1>7 DEF ReadLive, Goto, IInv, TypeOK, stripeVars
  <2> QED BY <1>1, <2>1 DEF RepairCall
<1>8. pc[h] \notin {"assign", "charge"}
  <2>1. job[h] \in Jobs \cup {NoJob} /\ job[h].kind = "list" BY <1>1 DEF IInv, TypeOK
  <2>2. job[h].intent = None BY <2>1 DEF Jobs, NoJob
  <2> QED BY <2>2, MethodAssumption DEF IInv, CallInv
<1>9. ~(AssignDefault(h) \/ ChargeSubscriptions(h) \/ CreateIntent(h))
  BY <1>1, <1>8 DEF AssignDefault, ChargeSubscriptions, CreateIntent
<1>10. ~(DecideComplete(h) \/ DecideDefault(h) \/ Refuse(h) \/ SaveProfile(h)
           \/ SyncStoredDefault(h))
  BY <1>1 DEF DecideComplete, DecideDefault, Refuse, SaveProfile, SyncStoredDefault
<1> QED BY <1>2, <1>3, <1>4, <1>5, <1>6, <1>7, <1>9, <1>10 DEF Work

(* Listing puts the stored default right after any calls that have broken  *)
(* off anywhere, for all handlers, customers and cards.                    *)
THEOREM ListingAlwaysRepairs == Spec => ListingRepairs
<1>1. Init => RepairInv
  BY DEF Init, RepairInv, Single, RepairCall
<1>2. ASSUME IInv, RepairInv, Next PROVE RepairInv'
  <2> SUFFICES ASSUME ~overlapped' PROVE Single' /\ \A h \in Handlers : RepairCall(h)'
    BY DEF RepairInv
  <2>1. ASSUME NEW h \in Handlers, Work(h) \/ Crash(h) \/ (\E j \in Jobs : Start(h, j))
        PROVE  Single' /\ \A g \in Handlers : RepairCall(g)'
    <3>1. ~overlapped /\ (pc[h] = "idle" => Idle) /\ pc' = [pc EXCEPT ![h] = pc'[h]]
      <4>1. CASE Work(h)
        <5>1. UNCHANGED envVars /\ pc[h] # "idle" /\ pc' = [pc EXCEPT ![h] = pc'[h]]
          BY <1>2, <4>1, WorkMoves
        <5>2. ~overlapped BY <5>1, Zenon DEF envVars
        <5> QED BY <5>1, <5>2
      <4>2. CASE Crash(h) BY <4>2 DEF Crash, EndCall, Goto, IInv, TypeOK
      <4>3. CASE \E j \in Jobs : Start(h, j) BY <4>3 DEF Start, Goto, IInv, TypeOK
      <4> QED BY <2>1, <4>1, <4>2, <4>3
    <3>2. \A g \in Handlers : g # h => pc'[g] = "idle"
      BY <1>2, <3>1 DEF RepairInv, Single, Idle, IInv, TypeOK
    <3>3. RepairCall(h)'
      <4>1. CASE Work(h) BY <1>2, <3>1, <4>1, ListCall DEF RepairInv, RepairCall
      <4>2. CASE Crash(h) \/ \E j \in Jobs : Start(h, j)
        <5>1. pc'[h] \in {"idle", "find"}
          BY <1>2, <4>2 DEF Crash, EndCall, Start, Goto, IInv, TypeOK
        <5> QED BY <5>1 DEF RepairCall
      <4> QED BY <2>1, <4>1, <4>2
    <3> QED BY <3>2, <3>3 DEF Single, RepairCall
  <2>2. CASE \E i \in Intents : Confirm(i)
    BY <1>2, <2>2 DEF Confirm, callVars, envVars, RepairInv, Single, RepairCall
  <2> QED BY <1>2, <2>1, <2>2 DEF Next
<1>3. ASSUME RepairInv, UNCHANGED vars PROVE RepairInv'
  BY <1>3 DEF vars, stripeVars, callVars, envVars, RepairInv, Single, RepairCall
<1>4. ASSUME IInv, RepairInv, Next, NEW h \in Handlers, ~overlapped, crashes' = crashes,
             job[h].kind = "list", pc[h] = "sync", pc'[h] = "idle"
      PROVE  row'.default = live[row'.customer]
  <2>1. SyncStoredDefault(h)
    <3>1. \A g \in Handlers : pc[g] # "idle" => g = h BY <1>4 DEF RepairInv, Single
    <3>2. ~\E i \in Intents : Confirm(i) BY <1>4 DEF Confirm, callVars
    <3>3. ASSUME NEW g \in Handlers, NEW j \in Jobs, Start(g, j) PROVE FALSE
      BY <1>4, <3>3 DEF Start, Goto, IInv, TypeOK
    <3>4. ASSUME NEW g \in Handlers, Crash(g) PROVE FALSE
      BY <1>4, <3>4 DEF Crash, IInv, TypeOK
    <3>5. ASSUME NEW g \in Handlers, Work(g) PROVE SyncStoredDefault(h)
      <4>1. g = h BY <1>4, <3>1, <3>5, WorkMoves
      <4> QED
        BY <1>4, <3>5, <4>1
        DEF Work, FindProfile, Discover, EnsureCustomer, Adopt, DecideList, DecideComplete,
            DecideDefault, Refuse, CreateIntent, AssignDefault, ChargeSubscriptions,
            ReadLive, SaveProfile
    <3> QED BY <1>4, <3>2, <3>3, <3>4, <3>5 DEF Next
  <2>2. profile[h] = row /\ cust[h] = row.customer /\ card[h] = live[cust[h]]
    BY <1>4 DEF RepairInv, RepairCall
  <2>3. row \in Rows BY <1>4 DEF IInv, TypeOK
  <2>4. row'.default = card[h] /\ row'.customer = row.customer
    BY <2>1, <2>2, <2>3 DEF SyncStoredDefault, Rows
  <2> QED BY <2>2, <2>4
<1>5. IInv /\ RepairInv /\ [Next]_vars =>
        [\A h \in Handlers :
           /\ ~overlapped /\ crashes' = crashes
           /\ job[h].kind = "list" /\ pc[h] = "sync" /\ pc'[h] = "idle"
           => row'.default = live[row'.customer]]_vars
  BY <1>4
<1>6. IInv /\ RepairInv /\ [Next]_vars => RepairInv'
  BY <1>2, <1>3
<1> QED BY <1>1, <1>5, <1>6, Invariant, PTL DEF Spec, ListingRepairs
=============================================================================

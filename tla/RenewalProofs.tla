--------------------------- MODULE RenewalProofs ---------------------------
(***************************************************************************)
(* Theorems about Renewal, for any number of workers, jobs, failures and   *)
(* cancellations.                                                          *)
(***************************************************************************)
EXTENDS Renewal, SequenceTheorems, TLAPS

(* All the time from the end of the trial up to x is on an issued invoice, *)
(* or has been billed by the provider.                                     *)
Billed(x) ==
  \A t \in Trial..(x - 1) : (managed /\ t < told) \/ \E i \in Issued : Covers(i, t)

Places == {"idle", "lookup", "create", "count", "invoice", "issue", "link", "advance", "pay",
           "failing", "failed"}

(* What worker w relies on at each of its steps.  The period it has read   *)
(* starts where the invoices end or earlier; its cycle and its invoice are *)
(* those of this period.                                                   *)
WorkerInv(w) ==
  /\ Billed(snap[w].start)
  /\ pc[w] \in {"count", "invoice", "issue", "link", "advance", "pay", "failing"} =>
       cyc[w] \in DOMAIN cycles /\ cycles[cyc[w]].start = snap[w].start
  /\ pc[w] \in {"issue", "link", "advance", "pay"} =>
       /\ inv[w] \in DOMAIN invoices
       /\ invoices[inv[w]].start = snap[w].start /\ invoices[inv[w]].end = snap[w].end
  /\ pc[w] \in {"link", "advance", "pay"} => invoices[inv[w]].status = "ISSUED"
  /\ pc[w] \in {"advance", "pay"} => cycles[cyc[w]].invoice # 0

(* A cycle is linked to an issued invoice of its own period, and PAID only *)
(* once it is linked.                                                      *)
CycleInv ==
  \A c \in DOMAIN cycles :
    /\ cycles[c].status = "PAID" => cycles[c].invoice # 0
    /\ cycles[c].invoice # 0 => /\ cycles[c].invoice \in Issued
                                /\ invoices[cycles[c].invoice].start = cycles[c].start

IInv == /\ TypeOK /\ CycleInv /\ Billed(sub.start)
        /\ \A w \in Workers : WorkerInv(w)

LEMMA InitIInv == Init => IInv
<1> SUFFICES ASSUME Init PROVE IInv OBVIOUS
<1>1. Created \in Period /\ Created.start = Trial
  BY RenewalAssumption DEF Created, Period, Renewable
<1>2. cycles = <<>> /\ invoices = <<>> /\ DOMAIN cycles = {} BY DEF Init
<1>3. TypeOK
  <2>1. told \in Nat \ {0} /\ managed \in BOOLEAN /\ newPlan \in Plans \cup {NoPlan}
    BY RenewalAssumption DEF Init
  <2>2. cycles \in Seq(CycleRow) /\ invoices \in Seq(InvoiceRow) BY <1>2
  <2>3. /\ snap \in [Workers -> Period] /\ sub \in Period
        /\ cyc \in [Workers -> Nat] /\ inv \in [Workers -> Nat]
        /\ exceeds \in [Workers -> BOOLEAN]
    BY <1>1 DEF Init
  <2>4. pc \in [Workers -> Places] BY DEF Init, Places
  <2> QED BY <2>1, <2>2, <2>3, <2>4 DEF Init, TypeOK, Places
<1>4. Billed(Trial) BY RenewalAssumption DEF Billed
<1> QED BY <1>1, <1>2, <1>3, <1>4 DEF Init, IInv, CycleInv, WorkerInv

-----------------------------------------------------------------------------
(* Rows are added and changed, never removed; a linked cycle stays linked  *)
(* and an issued invoice issued.                                           *)
Grows ==
  /\ managed' = managed /\ \A t \in Nat : t < told => t < told'
  /\ \A i \in DOMAIN invoices :
       /\ i \in DOMAIN invoices'
       /\ invoices'[i].start = invoices[i].start /\ invoices'[i].end = invoices[i].end
       /\ invoices[i].status = "ISSUED" => invoices'[i].status = "ISSUED"
  /\ \A c \in DOMAIN cycles :
       /\ c \in DOMAIN cycles'
       /\ cycles'[c].start = cycles[c].start
       /\ cycles[c].invoice # 0 => cycles'[c].invoice # 0

LEMMA BilledGrows == ASSUME Grows, NEW x \in Nat, Billed(x) PROVE Billed(x)'
<1>1. \A i \in Issued : i \in Issued' BY DEF Grows, Issued
<1>2. \A i \in Issued, t \in Nat : Covers(i, t) => Covers(i, t)' BY DEF Grows, Issued, Covers
<1>3. \A t \in Trial..(x - 1) : t \in Nat BY RenewalAssumption
<1>4. \A t \in Nat : managed /\ t < told => managed' /\ t < told' BY DEF Grows
<1> SUFFICES ASSUME NEW t \in Trial..(x - 1)
             PROVE  (managed' /\ t < told') \/ \E i \in Issued' : Covers(i, t)'
  BY DEF Billed
<1> QED BY <1>1, <1>2, <1>3, <1>4 DEF Billed

(* All workers but w stay where they are.                                  *)
Others(w) ==
  \A u \in Workers \ {w} :
    pc'[u] = pc[u] /\ snap'[u] = snap[u] /\ cyc'[u] = cyc[u] /\ inv'[u] = inv[u]

(* The other workers do not notice.                                        *)
LEMMA OtherWorker ==
  ASSUME IInv, Grows, NEW w \in Workers,
         pc'[w] = pc[w], snap'[w] = snap[w], cyc'[w] = cyc[w], inv'[w] = inv[w]
  PROVE  WorkerInv(w)'
<1>1. snap[w].start \in Nat BY DEF IInv, TypeOK, Period
<1>2. Billed(snap[w].start)' BY <1>1, BilledGrows DEF IInv, WorkerInv
<1> QED BY <1>2 DEF IInv, WorkerInv, Grows

(* A worker whose job has ended relies on nothing.                         *)
LEMMA JobEnded ==
  ASSUME IInv, NEW w \in Workers, EndJob(w)
  PROVE  /\ pc' \in [Workers -> Places] /\ snap' \in [Workers -> Period]
         /\ cyc' \in [Workers -> Nat] /\ inv' \in [Workers -> Nat]
         /\ exceeds' \in [Workers -> BOOLEAN]
         /\ pc'[w] = "idle" /\ WorkerInv(w)' /\ Others(w)
<1>1. Created \in Period /\ Created.start = Trial
  BY RenewalAssumption DEF Created, Period, Renewable
<1> HIDE DEF Created
<1>2. /\ pc \in [Workers -> Places] /\ snap \in [Workers -> Period]
      /\ cyc \in [Workers -> Nat] /\ inv \in [Workers -> Nat]
      /\ exceeds \in [Workers -> BOOLEAN]
  BY DEF IInv, TypeOK, Places
<1>3. /\ pc' = [pc EXCEPT ![w] = "idle"] /\ snap' = [snap EXCEPT ![w] = Created]
      /\ cyc' = [cyc EXCEPT ![w] = 0] /\ inv' = [inv EXCEPT ![w] = 0]
      /\ exceeds' = [exceeds EXCEPT ![w] = FALSE]
  BY DEF EndJob, Goto
<1>4. pc' \in [Workers -> Places] /\ pc'[w] = "idle" BY <1>2, <1>3 DEF Places
<1>5. snap' \in [Workers -> Period] /\ snap'[w] = Created BY <1>1, <1>2, <1>3
<1>6. cyc' \in [Workers -> Nat] /\ inv' \in [Workers -> Nat] BY <1>2, <1>3
<1>7. exceeds' \in [Workers -> BOOLEAN] BY <1>2, <1>3
<1>8. Others(w) BY <1>2, <1>3 DEF Others
<1>9. Billed(snap[w].start)'
  <2>1. Trial..(Trial - 1) = {} BY RenewalAssumption
  <2>2. snap'[w].start = Trial BY <1>1, <1>5
  <2> QED BY <2>1, <2>2 DEF Billed
<1>10. WorkerInv(w)' BY <1>4, <1>9 DEF WorkerInv
<1> QED BY <1>4, <1>5, <1>6, <1>7, <1>8, <1>10

(* What changing one row of a table changes.                               *)
LEMMA CycleChanged ==
  ASSUME TypeOK, NEW c \in DOMAIN cycles, NEW row \in CycleRow,
         cycles' = [cycles EXCEPT ![c] = row]
  PROVE  /\ cycles' \in Seq(CycleRow) /\ DOMAIN cycles' = DOMAIN cycles
         /\ \A d \in DOMAIN cycles : cycles'[d] = IF d = c THEN row ELSE cycles[d]
<1>1. cycles \in Seq(CycleRow) /\ c \in 1..Len(cycles) BY DEF TypeOK
<1> QED BY <1>1, ExceptSeq

LEMMA CycleAdded ==
  ASSUME TypeOK, NEW row \in CycleRow, cycles' = Append(cycles, row)
  PROVE  /\ cycles' \in Seq(CycleRow)
         /\ DOMAIN cycles' = DOMAIN cycles \cup {Len(cycles) + 1}
         /\ cycles'[Len(cycles) + 1] = row
         /\ \A d \in DOMAIN cycles : cycles'[d] = cycles[d]
<1>1. cycles \in Seq(CycleRow) BY DEF TypeOK
<1>2. cycles' \in Seq(CycleRow) /\ Len(cycles') = Len(cycles) + 1
  BY <1>1, AppendProperties
<1>3. DOMAIN cycles = 1..Len(cycles) /\ DOMAIN cycles' = 1..(Len(cycles) + 1)
      /\ Len(cycles) \in Nat
  BY <1>1, <1>2, LenProperties
<1> QED BY <1>1, <1>2, <1>3, AppendProperties

LEMMA InvoiceChanged ==
  ASSUME TypeOK, NEW c \in DOMAIN invoices, NEW row \in InvoiceRow,
         invoices' = [invoices EXCEPT ![c] = row]
  PROVE  /\ invoices' \in Seq(InvoiceRow) /\ DOMAIN invoices' = DOMAIN invoices
         /\ \A d \in DOMAIN invoices : invoices'[d] = IF d = c THEN row ELSE invoices[d]
<1>1. invoices \in Seq(InvoiceRow) /\ c \in 1..Len(invoices) BY DEF TypeOK
<1> QED BY <1>1, ExceptSeq

LEMMA InvoiceAdded ==
  ASSUME TypeOK, NEW row \in InvoiceRow, invoices' = Append(invoices, row)
  PROVE  /\ invoices' \in Seq(InvoiceRow)
         /\ DOMAIN invoices' = DOMAIN invoices \cup {Len(invoices) + 1}
         /\ invoices'[Len(invoices) + 1] = row
         /\ \A d \in DOMAIN invoices : invoices'[d] = invoices[d]
<1>1. invoices \in Seq(InvoiceRow) BY DEF TypeOK
<1>2. invoices' \in Seq(InvoiceRow) /\ Len(invoices') = Len(invoices) + 1
  BY <1>1, AppendProperties
<1>3. DOMAIN invoices = 1..Len(invoices) /\ DOMAIN invoices' = 1..(Len(invoices) + 1)
      /\ Len(invoices) \in Nat
  BY <1>1, <1>2, LenProperties
<1> QED BY <1>1, <1>2, <1>3, AppendProperties

(* A step that leaves the two tables alone.                                *)
LEMMA Frame == ASSUME UNCHANGED <<cycles, invoices, managed, told>> PROVE Grows
BY DEF Grows

LEMMA CycleInvGrows ==
  ASSUME IInv, UNCHANGED cycles, Grows PROVE CycleInv'
BY DEF IInv, CycleInv, Grows, Issued

-----------------------------------------------------------------------------
(* A worker's row as TypeOK has it.                                        *)
LEMMA RowTypes ==
  ASSUME TypeOK
  PROVE  /\ \A c \in DOMAIN cycles : cycles[c] \in CycleRow
         /\ \A i \in DOMAIN invoices : invoices[i] \in InvoiceRow /\ i \in Nat \ {0}
<1>1. cycles \in Seq(CycleRow) /\ invoices \in Seq(InvoiceRow) BY DEF TypeOK
<1>2. DOMAIN cycles = 1..Len(cycles) /\ DOMAIN invoices = 1..Len(invoices)
      /\ Len(invoices) \in Nat
  BY <1>1, LenProperties
<1> QED BY <1>1, <1>2, ElementOfSeq

(* Steps that read, or write nothing but the worker's place: the facts of  *)
(* its next place are among those of its last one.                         *)
LEMMA BeginStep == ASSUME IInv, NEW w \in Workers, Begin(w) PROVE IInv'
<1>1. Grows BY Frame DEF Begin, callerVars, providerVars
<1>2. TypeOK'
  <2>0. queued \in Nat /\ upsets \in Nat /\ overlapped \in BOOLEAN BY DEF IInv, TypeOK
  <2>1. queued' \in Nat /\ upsets' \in Nat /\ overlapped' \in BOOLEAN
    <3>1. queued' \in Nat BY <2>0 DEF Begin
    <3>2. UNCHANGED <<upsets, overlapped>> \/ (Upset /\ overlapped' = TRUE)
      BY DEF Begin
    <3>3. CASE UNCHANGED <<upsets, overlapped>> BY <2>0, <3>1, <3>3
    <3>4. CASE Upset /\ overlapped' = TRUE
      <4>1. upsets' \in Nat BY <2>0, <3>4 DEF Upset
      <4>2. overlapped' \in BOOLEAN BY <3>4
      <4> QED BY <3>1, <4>1, <4>2
    <3> QED BY <3>2, <3>3, <3>4
  <2>2. snap' \in [Workers -> Period] BY DEF Begin, IInv, TypeOK
  <2>3. pc' \in [Workers -> Places] BY DEF Begin, Goto, IInv, TypeOK, Places
  <2> QED BY <2>1, <2>2, <2>3
      DEF Begin, IInv, TypeOK, Places, callerVars, cancelVars, changeVars, providerVars
<1>3. CycleInv' BY <1>1, CycleInvGrows DEF Begin
<1>4. Billed(sub.start)' BY <1>1, BilledGrows DEF Begin, IInv, TypeOK, Period
<1>5. WorkerInv(w)'
  <2>1. CASE sub.status \in Renewable
    <3>1. snap'[w] = sub /\ pc'[w] = "lookup" BY <2>1 DEF Begin, Goto, IInv, TypeOK
    <3>2. Billed(snap[w].start)' BY <1>4, <3>1 DEF Begin
    <3> QED BY <3>1, <3>2 DEF WorkerInv
  <2>2. CASE sub.status \notin Renewable
    BY <1>1, <2>2, OtherWorker DEF Begin
  <2> QED BY <2>1, <2>2
<1>6. \A u \in Workers \ {w} : WorkerInv(u)'
  BY <1>1, OtherWorker DEF Begin, Goto, IInv, TypeOK
<1> QED BY <1>2, <1>3, <1>4, <1>5, <1>6 DEF IInv

(* FindCycle, taken apart: the job ends, goes on to create a cycle, or has *)
(* found one that it goes on with.                                         *)
LEMMA Found ==
  ASSUME IInv, NEW w \in Workers, FindCycle(w)
  PROVE  \/ EndJob(w)
         \/ Current(w) = {} /\ pc' = [pc EXCEPT ![w] = "create"] /\ UNCHANGED jobVars
         \/ \E i \in Current(w) :
              /\ cycles[i].status = "PROCESSING" /\ i \in Nat
              /\ pc' = [pc EXCEPT ![w] = "count"] /\ cyc' = [cyc EXCEPT ![w] = i]
              /\ UNCHANGED <<snap, inv, exceeds>>
<1>1. \A i \in Current(w) : i \in DOMAIN cycles /\ cycles[i].status # "FAILED"
  BY DEF Current
<1>2. \A i \in Current(w) : cycles[i] \in CycleRow BY <1>1, RowTypes DEF IInv
<1>3. \A i \in Current(w) : i \in Nat
  <2>1. DOMAIN cycles = 1..Len(cycles) /\ Len(cycles) \in Nat
    BY LenProperties DEF IInv, TypeOK
  <2> QED BY <1>1, <2>1
<1>4. \A i \in Current(w) : cycles[i].status # "PAID" => cycles[i].status = "PROCESSING"
  BY <1>1, <1>2 DEF CycleRow
<1> QED BY <1>3, <1>4 DEF FindCycle, Reuse, Goto

LEMMA FindCycleStep == ASSUME IInv, NEW w \in Workers, FindCycle(w) PROVE IInv'
<1>0. UNCHANGED <<now, sub, cycles, invoices, queued, callerVars, upsets, overlapped>>
  BY DEF FindCycle
<1>1. Grows BY <1>0, Frame DEF callerVars, providerVars
<1>2. CycleInv' BY <1>0, <1>1, CycleInvGrows
<1>3. Billed(sub.start)' BY <1>0, <1>1, BilledGrows DEF IInv, TypeOK, Period
<1>4. /\ pc' \in [Workers -> Places] /\ snap' \in [Workers -> Period]
      /\ cyc' \in [Workers -> Nat] /\ inv' \in [Workers -> Nat]
      /\ exceeds' \in [Workers -> BOOLEAN] /\ WorkerInv(w)' /\ Others(w)
  <2>0. /\ pc \in [Workers -> Places] /\ snap \in [Workers -> Period]
        /\ cyc \in [Workers -> Nat] /\ inv \in [Workers -> Nat]
        /\ exceeds \in [Workers -> BOOLEAN]
    BY DEF IInv, TypeOK, Places
  <2>1. CASE EndJob(w) BY <2>1, JobEnded
  <2>2. UNCHANGED snap => Billed(snap[w].start)'
    BY <1>1, BilledGrows DEF IInv, TypeOK, Period, WorkerInv
  <2>3. CASE pc' = [pc EXCEPT ![w] = "create"] /\ UNCHANGED jobVars
    <3>1. pc' \in [Workers -> Places] /\ pc'[w] = "create" BY <2>0, <2>3 DEF Places
    <3>2. WorkerInv(w)' BY <2>2, <2>3, <3>1 DEF jobVars, WorkerInv
    <3>3. Others(w) BY <2>0, <2>3 DEF jobVars, Others
    <3> QED BY <2>0, <2>3, <3>1, <3>2, <3>3 DEF jobVars
  <2>4. ASSUME NEW i \in Current(w), i \in Nat,
               pc' = [pc EXCEPT ![w] = "count"], cyc' = [cyc EXCEPT ![w] = i],
               UNCHANGED <<snap, inv, exceeds>>
        PROVE  /\ pc' \in [Workers -> Places] /\ cyc' \in [Workers -> Nat]
               /\ WorkerInv(w)' /\ Others(w)
    <3>1. pc' \in [Workers -> Places] /\ pc'[w] = "count" BY <2>0, <2>4 DEF Places
    <3>2. cyc' \in [Workers -> Nat] /\ cyc'[w] = i BY <2>0, <2>4
    <3>3. i \in DOMAIN cycles /\ cycles[i].start = snap[w].start BY DEF Current
    <3>4. WorkerInv(w)' BY <1>0, <2>2, <2>4, <3>1, <3>2, <3>3 DEF WorkerInv
    <3>5. Others(w) BY <2>0, <2>4 DEF Others
    <3> QED BY <3>1, <3>2, <3>4, <3>5
  <2> QED BY <2>0, <2>1, <2>3, <2>4, Found
<1>5. TypeOK'
  BY <1>0, <1>4 DEF IInv, TypeOK, Places, callerVars, cancelVars, changeVars, providerVars
<1>6. \A u \in Workers \ {w} : WorkerInv(u)' BY <1>1, <1>4, OtherWorker DEF Others
<1> QED BY <1>2, <1>3, <1>4, <1>5, <1>6 DEF IInv

LEMMA CreateCycleStep == ASSUME IInv, NEW w \in Workers, CreateCycle(w) PROVE IInv'
<1> DEFINE row == [start |-> snap[w].start, status |-> "PROCESSING",
                   attempts |-> 0, invoice |-> 0, plan |-> snap[w].plan]
           new == Len(cycles) + 1
<1>1. row \in CycleRow /\ cycles' = Append(cycles, row) /\ new \in Nat
  <2>1. Len(cycles) \in Nat BY LenProperties DEF IInv, TypeOK
  <2> QED BY <2>1 DEF CreateCycle, IInv, TypeOK, Period, CycleRow
<1>2. /\ cycles' \in Seq(CycleRow) /\ DOMAIN cycles' = DOMAIN cycles \cup {new}
      /\ cycles'[new] = row
      /\ \A d \in DOMAIN cycles : cycles'[d] = cycles[d]
  <2>1. TypeOK BY DEF IInv
  <2> HIDE DEF row
  <2> QED BY <1>1, <2>1, CycleAdded
<1>3. row.start = snap[w].start /\ row.status # "PAID" /\ row.invoice = 0 OBVIOUS
<1>4. cyc' = [cyc EXCEPT ![w] = new] /\ pc' = [pc EXCEPT ![w] = "count"]
      /\ UNCHANGED <<sub, invoices, snap, inv, managed, told>>
  BY DEF CreateCycle, Goto, callerVars, providerVars
<1> HIDE DEF row, new
<1>5. Grows BY <1>2, <1>4 DEF Grows
<1>6. TypeOK' BY <1>1, <1>2, <1>4
    DEF CreateCycle, IInv, TypeOK, callerVars, cancelVars, changeVars, providerVars
<1>7. CycleInv' BY <1>2, <1>3, <1>4 DEF IInv, CycleInv, Issued
<1>8. Billed(sub.start)' BY <1>4, <1>5, BilledGrows DEF IInv, TypeOK, Period
<1>9. WorkerInv(w)'
  <2>1. Billed(snap[w].start)' BY <1>4, <1>5, BilledGrows DEF IInv, TypeOK, Period, WorkerInv
  <2>2. cyc'[w] = new /\ pc'[w] = "count" BY <1>4 DEF IInv, TypeOK
  <2> QED BY <1>2, <1>3, <1>4, <2>1, <2>2 DEF WorkerInv
<1>10. \A u \in Workers \ {w} : WorkerInv(u)' BY <1>4, <1>5, OtherWorker DEF IInv, TypeOK
<1> QED BY <1>6, <1>7, <1>8, <1>9, <1>10 DEF IInv

(* Steps that change worker w's cycle: its row becomes "row".              *)
LEMMA OwnCycle ==
  ASSUME IInv, NEW w \in Workers, NEW row \in CycleRow,
         cyc[w] \in DOMAIN cycles,
         cycles' = [cycles EXCEPT ![cyc[w]] = row],
         row.start = cycles[cyc[w]].start,
         cycles[cyc[w]].invoice # 0 => row.invoice # 0,
         row.status = "PAID" => row.invoice # 0,
         row.invoice # 0 => /\ row.invoice \in Issued
                            /\ invoices[row.invoice].start = row.start,
         UNCHANGED <<sub, invoices, managed, told>>, Others(w)
  PROVE  /\ cycles' \in Seq(CycleRow) /\ DOMAIN cycles' = DOMAIN cycles
         /\ cycles'[cyc[w]] = row
         /\ CycleInv' /\ Billed(sub.start)' /\ (UNCHANGED snap => Billed(snap[w].start)')
         /\ \A u \in Workers \ {w} : WorkerInv(u)'
<1>1. /\ cycles' \in Seq(CycleRow) /\ DOMAIN cycles' = DOMAIN cycles
      /\ \A d \in DOMAIN cycles : cycles'[d] = IF d = cyc[w] THEN row ELSE cycles[d]
  BY CycleChanged DEF IInv
<1>2. Grows BY <1>1 DEF Grows
<1>3. CycleInv' BY <1>1 DEF IInv, CycleInv, Issued
<1>4. Billed(sub.start)' BY <1>2, BilledGrows DEF IInv, TypeOK, Period
<1>5. UNCHANGED snap => Billed(snap[w].start)'
  BY <1>2, BilledGrows DEF IInv, TypeOK, Period, WorkerInv
<1>6. \A u \in Workers \ {w} : WorkerInv(u)' BY <1>2, OtherWorker DEF Others
<1> QED BY <1>1, <1>3, <1>4, <1>5, <1>6

(* The three ways in which a row is changed.                               *)
LEMMA RowStatus ==
  ASSUME NEW r \in CycleRow, NEW status \in {"PROCESSING", "PAID", "FAILED"}
  PROVE  LET x == [r EXCEPT !.status = status]
         IN  x \in CycleRow /\ x.start = r.start /\ x.invoice = r.invoice
             /\ x.status = status /\ x.plan = r.plan
<1>1. [r EXCEPT !.status = status]
        = [start |-> r.start, status |-> status, attempts |-> r.attempts,
           invoice |-> r.invoice, plan |-> r.plan]
  BY DEF CycleRow
<1>2. r.start \in Nat /\ r.attempts \in Nat /\ r.invoice \in Nat /\ r.plan \in Plans
  BY DEF CycleRow
<1> QED BY <1>1, <1>2 DEF CycleRow

LEMMA RowCounted ==
  ASSUME NEW r \in CycleRow
  PROVE  LET x == [r EXCEPT !.status = "PROCESSING", !.attempts = @ + 1]
         IN  x \in CycleRow /\ x.start = r.start /\ x.invoice = r.invoice
             /\ x.status = "PROCESSING" /\ x.plan = r.plan
<1> DEFINE n == r.attempts + 1
           y == [r EXCEPT !.status = "PROCESSING"]
           x == [y EXCEPT !.attempts = n]
<1>1. n \in Nat BY DEF CycleRow
<1>2. y \in CycleRow /\ y.start = r.start /\ y.invoice = r.invoice
      /\ y.status = "PROCESSING" /\ y.plan = r.plan
  BY RowStatus
<1> HIDE DEF n, y
<1>3. x = [start |-> y.start, status |-> y.status, attempts |-> n, invoice |-> y.invoice,
            plan |-> y.plan]
  BY <1>2 DEF CycleRow
<1>4. y.start \in Nat /\ y.invoice \in Nat /\ y.plan \in Plans BY <1>2 DEF CycleRow
<1>5. x \in CycleRow /\ x.start = r.start /\ x.invoice = r.invoice
      /\ x.status = "PROCESSING" /\ x.plan = r.plan
  BY <1>1, <1>2, <1>3, <1>4 DEF CycleRow
<1>6. [r EXCEPT !.status = "PROCESSING", !.attempts = n] = x BY DEF y
<1>7. LET z == [r EXCEPT !.status = "PROCESSING", !.attempts = n]
      IN  z \in CycleRow /\ z.start = r.start /\ z.invoice = r.invoice
          /\ z.status = "PROCESSING" /\ z.plan = r.plan
  BY <1>5, <1>6
<1> QED BY <1>7 DEF n

LEMMA RowLinked ==
  ASSUME NEW r \in CycleRow, NEW n \in Nat
  PROVE  LET x == [r EXCEPT !.invoice = n]
         IN  x \in CycleRow /\ x.start = r.start /\ x.invoice = n
             /\ x.status = r.status /\ x.plan = r.plan
<1>1. [r EXCEPT !.invoice = n]
        = [start |-> r.start, status |-> r.status, attempts |-> r.attempts, invoice |-> n,
           plan |-> r.plan]
  BY DEF CycleRow
<1>2. r.start \in Nat /\ r.attempts \in Nat /\ r.plan \in Plans
      /\ r.status \in {"PROCESSING", "PAID", "FAILED"} BY DEF CycleRow
<1> QED BY <1>1, <1>2 DEF CycleRow

LEMMA CountAttemptStep == ASSUME IInv, NEW w \in Workers, CountAttempt(w) PROVE IInv'
<1> DEFINE c == cyc[w]
           row == [cycles[c] EXCEPT !.status = "PROCESSING", !.attempts = @ + 1]
<1>1. c \in DOMAIN cycles /\ cycles[c].start = snap[w].start
  BY DEF CountAttempt, IInv, WorkerInv
<1>2. cycles[c] \in CycleRow BY <1>1, RowTypes DEF IInv
<1>3. row \in CycleRow /\ row.start = cycles[c].start /\ row.invoice = cycles[c].invoice
      /\ row.status = "PROCESSING"
  BY <1>2, RowCounted
<1>4. cycles' = [cycles EXCEPT ![c] = row] BY <1>1 DEF CountAttempt
<1>5. pc' = [pc EXCEPT ![w] = "invoice"]
      /\ UNCHANGED <<sub, invoices, snap, cyc, inv, managed, told>>
  BY DEF CountAttempt, Goto, jobVars, callerVars, providerVars
<1>6. row.invoice # 0 => /\ row.invoice \in Issued
                         /\ invoices[row.invoice].start = row.start
  BY <1>1, <1>3 DEF IInv, CycleInv
<1>7. Others(w) BY <1>5 DEF IInv, TypeOK, Others
<1> HIDE DEF row
<1>8. /\ cycles' \in Seq(CycleRow) /\ DOMAIN cycles' = DOMAIN cycles
      /\ cycles'[c] = row
      /\ CycleInv' /\ Billed(sub.start)' /\ Billed(snap[w].start)'
      /\ \A u \in Workers \ {w} : WorkerInv(u)'
  BY <1>1, <1>3, <1>4, <1>5, <1>6, <1>7, OwnCycle
<1>9. TypeOK' BY <1>5, <1>8
    DEF CountAttempt, IInv, TypeOK, jobVars, callerVars, cancelVars, changeVars, providerVars
<1>10. pc'[w] = "invoice" BY <1>5 DEF IInv, TypeOK
<1>11. WorkerInv(w)' BY <1>1, <1>3, <1>5, <1>8, <1>10 DEF WorkerInv
<1> QED BY <1>8, <1>9, <1>11 DEF IInv

LEMMA CreateInvoiceStep == ASSUME IInv, NEW w \in Workers, CreateInvoice(w) PROVE IInv'
<1> DEFINE row == [start |-> snap[w].start, end |-> snap[w].end, plan |-> snap[w].plan,
                   status |-> "DRAFT"]
           new == Len(invoices) + 1
<1>1. row \in InvoiceRow /\ invoices' = Append(invoices, row) /\ new \in Nat
  <2>1. Len(invoices) \in Nat BY LenProperties DEF IInv, TypeOK
  <2> QED BY <2>1 DEF CreateInvoice, IInv, TypeOK, Period, InvoiceRow
<1>2. /\ invoices' \in Seq(InvoiceRow) /\ DOMAIN invoices' = DOMAIN invoices \cup {new}
      /\ invoices'[new] = row
      /\ \A d \in DOMAIN invoices : invoices'[d] = invoices[d]
  <2>1. TypeOK BY DEF IInv
  <2> HIDE DEF row
  <2> QED BY <1>1, <2>1, InvoiceAdded
<1>3. row.start = snap[w].start /\ row.end = snap[w].end OBVIOUS
<1>4. inv' = [inv EXCEPT ![w] = new] /\ pc' = [pc EXCEPT ![w] = "issue"]
      /\ UNCHANGED <<sub, cycles, snap, cyc, managed, told>> /\ pc[w] = "invoice"
  BY DEF CreateInvoice, Goto, callerVars, providerVars
<1> HIDE DEF row, new
<1>5. Grows BY <1>2, <1>4 DEF Grows
<1>6. TypeOK' BY <1>1, <1>2, <1>4
    DEF CreateInvoice, IInv, TypeOK, callerVars, cancelVars, changeVars, providerVars
<1>7. CycleInv' BY <1>4, <1>5, CycleInvGrows
<1>8. Billed(sub.start)' BY <1>4, <1>5, BilledGrows DEF IInv, TypeOK, Period
<1>9. WorkerInv(w)'
  <2>1. Billed(snap[w].start)' BY <1>4, <1>5, BilledGrows DEF IInv, TypeOK, Period, WorkerInv
  <2>2. inv'[w] = new /\ pc'[w] = "issue" BY <1>4 DEF IInv, TypeOK
  <2>3. cyc[w] \in DOMAIN cycles /\ cycles[cyc[w]].start = snap[w].start
    BY <1>4 DEF IInv, WorkerInv
  <2> QED BY <1>2, <1>3, <1>4, <2>1, <2>2, <2>3 DEF WorkerInv
<1>10. \A u \in Workers \ {w} : WorkerInv(u)' BY <1>4, <1>5, OtherWorker DEF IInv, TypeOK
<1> QED BY <1>6, <1>7, <1>8, <1>9, <1>10 DEF IInv

LEMMA IssueInvoiceStep == ASSUME IInv, NEW w \in Workers, IssueInvoice(w) PROVE IInv'
<1> DEFINE i == inv[w]
           row == [invoices[i] EXCEPT !.status = "ISSUED"]
<1>1. /\ i \in DOMAIN invoices /\ cyc[w] \in DOMAIN cycles
      /\ cycles[cyc[w]].start = snap[w].start
      /\ invoices[i].start = snap[w].start /\ invoices[i].end = snap[w].end
  BY DEF IssueInvoice, IInv, WorkerInv
<1>2. invoices[i] \in InvoiceRow BY <1>1, RowTypes DEF IInv
<1>3. row \in InvoiceRow /\ row.start = invoices[i].start /\ row.end = invoices[i].end
      /\ row.status = "ISSUED"
  <2>1. row = [start |-> invoices[i].start, end |-> invoices[i].end,
               plan |-> invoices[i].plan, status |-> "ISSUED"]
    BY <1>2 DEF InvoiceRow
  <2>2. invoices[i].start \in Nat /\ invoices[i].end \in Nat /\ invoices[i].plan \in Plans
    BY <1>2 DEF InvoiceRow
  <2> QED BY <2>1, <2>2 DEF InvoiceRow
<1>4. invoices' = [invoices EXCEPT ![i] = row] /\ pc' = [pc EXCEPT ![w] = "link"]
      /\ UNCHANGED <<sub, cycles, snap, cyc, inv, managed, told>>
  BY DEF IssueInvoice, Goto, jobVars, callerVars, providerVars
<1> HIDE DEF row
<1>5. /\ invoices' \in Seq(InvoiceRow) /\ DOMAIN invoices' = DOMAIN invoices
      /\ \A d \in DOMAIN invoices : invoices'[d] = IF d = i THEN row ELSE invoices[d]
  BY <1>1, <1>3, <1>4, InvoiceChanged DEF IInv
<1>6. Grows BY <1>3, <1>4, <1>5 DEF Grows
<1>7. TypeOK' BY <1>4, <1>5
    DEF IssueInvoice, IInv, TypeOK, jobVars, callerVars, cancelVars, changeVars, providerVars
<1>8. CycleInv' BY <1>4, <1>6, CycleInvGrows
<1>9. Billed(sub.start)' BY <1>4, <1>6, BilledGrows DEF IInv, TypeOK, Period
<1>10. WorkerInv(w)'
  <2>1. Billed(snap[w].start)' BY <1>4, <1>6, BilledGrows DEF IInv, TypeOK, Period, WorkerInv
  <2>2. pc'[w] = "link" BY <1>4 DEF IInv, TypeOK
  <2> QED BY <1>1, <1>3, <1>4, <1>5, <2>1, <2>2 DEF WorkerInv
<1>11. \A u \in Workers \ {w} : WorkerInv(u)' BY <1>4, <1>6, OtherWorker DEF IInv, TypeOK
<1> QED BY <1>7, <1>8, <1>9, <1>10, <1>11 DEF IInv

LEMMA LinkInvoiceStep == ASSUME IInv, NEW w \in Workers, LinkInvoice(w) PROVE IInv'
<1> DEFINE c == cyc[w]
           i == inv[w]
           row == [cycles[c] EXCEPT !.invoice = i]
<1>1. /\ c \in DOMAIN cycles /\ cycles[c].start = snap[w].start
      /\ i \in Issued /\ i \in Nat \ {0}
      /\ invoices[i].start = snap[w].start /\ invoices[i].end = snap[w].end
      /\ invoices[i].status = "ISSUED"
  <2>1. i \in DOMAIN invoices BY DEF LinkInvoice, IInv, WorkerInv
  <2> QED BY <2>1, RowTypes DEF LinkInvoice, IInv, WorkerInv, Issued
<1>2. cycles[c] \in CycleRow BY <1>1, RowTypes DEF IInv
<1>3. row \in CycleRow /\ row.start = cycles[c].start /\ row.invoice = i
  BY <1>1, <1>2, RowLinked
<1>4. cycles' = [cycles EXCEPT ![c] = row] /\ pc' = [pc EXCEPT ![w] = "advance"]
      /\ UNCHANGED <<sub, invoices, snap, cyc, inv, managed, told>>
  BY DEF LinkInvoice, Goto, jobVars, callerVars, providerVars
<1>5. Others(w) BY <1>4 DEF IInv, TypeOK, Others
<1> HIDE DEF row
<1>6. /\ cycles' \in Seq(CycleRow) /\ DOMAIN cycles' = DOMAIN cycles
      /\ cycles'[c] = row
      /\ CycleInv' /\ Billed(sub.start)' /\ Billed(snap[w].start)'
      /\ \A u \in Workers \ {w} : WorkerInv(u)'
  <2>1. row.status = "PAID" \/ cycles[c].invoice # 0 => row.invoice # 0 BY <1>1, <1>3
  <2>2. row.invoice \in Issued /\ invoices[row.invoice].start = row.start BY <1>1, <1>3
  <2> QED BY <1>1, <1>3, <1>4, <1>5, <2>1, <2>2, OwnCycle
<1>7. TypeOK' BY <1>4, <1>6
    DEF LinkInvoice, IInv, TypeOK, jobVars, callerVars, cancelVars, changeVars, providerVars
<1>8. pc'[w] = "advance" BY <1>4 DEF IInv, TypeOK
<1>9. WorkerInv(w)' BY <1>1, <1>3, <1>4, <1>6, <1>8 DEF WorkerInv, Issued
<1> QED BY <1>6, <1>7, <1>9 DEF IInv

(* The row of a subscription whose period moves.                           *)
LEMMA PeriodMoved ==
  ASSUME TypeOK, NEW t \in Nat, NEW status \in {"ACTIVE", "PAST_DUE", "CANCELLED"},
         sub' = [sub EXCEPT !.status = status, !.start = t, !.end = t + 1]
  PROVE  sub' \in Period /\ sub'.start = t /\ sub'.plan = sub.plan
<1> DEFINE end == t + 1
           x == [sub EXCEPT !.status = status]
           y == [x EXCEPT !.start = t]
<1>1. sub \in Period /\ end \in Nat BY DEF TypeOK
<1>2. x \in Period /\ x.plan = sub.plan BY <1>1 DEF Period, Renewable
<1> HIDE DEF x
<1>3. y \in Period /\ y.start = t /\ y.plan = sub.plan BY <1>2 DEF Period
<1> HIDE DEF y, end
<1>4. [y EXCEPT !.end = end] \in Period /\ [y EXCEPT !.end = end].start = t
      /\ [y EXCEPT !.end = end].plan = sub.plan
  BY <1>1, <1>3 DEF Period
<1>5. sub' = [y EXCEPT !.end = end] BY DEF x, y, end
<1> QED BY <1>4, <1>5

(* The worker's own invoice carries the billed time to the end of the      *)
(* period it has read.                                                     *)
LEMMA AdvanceStep == ASSUME IInv, NEW w \in Workers, Advance(w) PROVE IInv'
<1> DEFINE from == snap[w].start
           to == snap[w].end
           i == inv[w]
<1>1. Grows BY Frame DEF Advance, callerVars, providerVars
<1>2. from \in Nat /\ to \in Nat BY DEF IInv, TypeOK, Period
<1>3. TypeOK'
  <2>1. sub' \in Period
    <3>1. TypeOK BY DEF IInv
    <3>2. sub' = [sub EXCEPT !.status = "ACTIVE", !.start = to, !.end = to + 1]
      BY DEF Advance
    <3> HIDE DEF to
    <3> QED BY <1>2, <3>1, <3>2, PeriodMoved
  <2> QED BY <2>1
      DEF Advance, Goto, IInv, TypeOK, jobVars, callerVars, cancelVars, changeVars, providerVars
<1>4. CycleInv' BY <1>1, CycleInvGrows DEF Advance
<1>5. Billed(sub.start)'
  <2>1. sub'.start = to /\ UNCHANGED <<invoices, managed, told>>
    BY DEF Advance, callerVars, providerVars, IInv, TypeOK, Period
  <2>2. i \in Issued /\ invoices[i].start = from /\ invoices[i].end = to
    BY DEF Advance, IInv, WorkerInv, Issued
  <2>3. Billed(from) BY DEF IInv, WorkerInv
  <2> HIDE DEF from, to, i
  <2>4. Billed(to)
    <3> SUFFICES ASSUME NEW t \in Trial..(to - 1)
                 PROVE  (managed /\ t < told) \/ \E j \in Issued : Covers(j, t)
      BY DEF Billed
    <3>1. t \in Int /\ t < to BY <1>2, RenewalAssumption
    <3>2. CASE t < from
      <4>1. t \in Trial..(from - 1) BY <1>2, <3>1, <3>2, RenewalAssumption
      <4> QED BY <2>3, <4>1 DEF Billed
    <3>3. CASE from <= t BY <2>2, <3>1, <3>3 DEF Covers
    <3> QED BY <1>2, <3>1, <3>2, <3>3
  <2> QED BY <2>1, <2>4 DEF Billed, Issued, Covers
<1>6. WorkerInv(w)'
  <2>1. Billed(snap[w].start)' BY <1>1, <1>2, BilledGrows DEF Advance, jobVars, IInv, WorkerInv
  <2>2. pc'[w] = "pay" BY DEF Advance, Goto, IInv, TypeOK
  <2> QED BY <2>1, <2>2 DEF Advance, jobVars, IInv, WorkerInv
<1>7. \A u \in Workers \ {w} : WorkerInv(u)'
  BY <1>1, OtherWorker DEF Advance, Goto, jobVars, IInv, TypeOK
<1> QED BY <1>3, <1>4, <1>5, <1>6, <1>7 DEF IInv

LEMMA MarkPaidStep == ASSUME IInv, NEW w \in Workers, MarkPaid(w) PROVE IInv'
<1> DEFINE c == cyc[w]
           row == [cycles[c] EXCEPT !.status = "PAID"]
<1>1. c \in DOMAIN cycles /\ cycles[c].invoice # 0
  BY DEF MarkPaid, IInv, WorkerInv
<1>2. cycles[c] \in CycleRow BY <1>1, RowTypes DEF IInv
<1>3. row \in CycleRow /\ row.start = cycles[c].start /\ row.invoice = cycles[c].invoice
  BY <1>2, RowStatus
<1>4. cycles' = [cycles EXCEPT ![c] = row] /\ EndJob(w)
      /\ UNCHANGED <<now, sub, invoices, queued, callerVars, upsets, overlapped, managed, told>>
  BY DEF MarkPaid, callerVars, providerVars
<1>5. /\ pc' \in [Workers -> Places] /\ snap' \in [Workers -> Period]
      /\ cyc' \in [Workers -> Nat] /\ inv' \in [Workers -> Nat]
      /\ exceeds' \in [Workers -> BOOLEAN] /\ WorkerInv(w)' /\ Others(w)
  BY <1>4, JobEnded
<1>6. row.invoice \in Issued /\ invoices[row.invoice].start = row.start
  BY <1>1, <1>3 DEF IInv, CycleInv
<1> HIDE DEF row
<1>7. /\ cycles' \in Seq(CycleRow)
      /\ CycleInv' /\ Billed(sub.start)'
      /\ \A u \in Workers \ {w} : WorkerInv(u)'
  BY <1>1, <1>3, <1>4, <1>5, <1>6, OwnCycle
<1>8. TypeOK'
  BY <1>4, <1>5, <1>7 DEF IInv, TypeOK, Places, callerVars, cancelVars, changeVars, providerVars
<1> QED BY <1>5, <1>7, <1>8 DEF IInv

LEMMA FailCycleStep == ASSUME IInv, NEW w \in Workers, FailCycle(w) PROVE IInv'
<1> DEFINE c == cyc[w]
           row == [cycles[c] EXCEPT !.status = "FAILED"]
<1>1. c \in DOMAIN cycles BY DEF FailCycle, IInv, WorkerInv
<1>2. cycles[c] \in CycleRow BY <1>1, RowTypes DEF IInv
<1>3. row \in CycleRow /\ row.start = cycles[c].start /\ row.invoice = cycles[c].invoice
      /\ row.status # "PAID"
  BY <1>2, RowStatus
<1>4. cycles' = [cycles EXCEPT ![c] = row] /\ pc' = [pc EXCEPT ![w] = "failed"]
      /\ UNCHANGED <<sub, invoices, snap, cyc, inv, managed, told>>
  BY DEF FailCycle, Goto, callerVars, providerVars
<1>5. Others(w) BY <1>4 DEF IInv, TypeOK, Others
<1>6. row.invoice # 0 => /\ row.invoice \in Issued
                         /\ invoices[row.invoice].start = row.start
  BY <1>1, <1>3 DEF IInv, CycleInv
<1> HIDE DEF row
<1>7. /\ cycles' \in Seq(CycleRow)
      /\ CycleInv' /\ Billed(sub.start)' /\ Billed(snap[w].start)'
      /\ \A u \in Workers \ {w} : WorkerInv(u)'
  BY <1>1, <1>3, <1>4, <1>5, <1>6, OwnCycle
<1>8. TypeOK'
  <2>1. exceeds' \in [Workers -> BOOLEAN]
    <3>1. (cycles[c].attempts >= MaxRetries) \in BOOLEAN OBVIOUS
    <3> QED BY <3>1 DEF FailCycle, IInv, TypeOK
  <2> QED BY <1>4, <1>7, <2>1
      DEF FailCycle, IInv, TypeOK, callerVars, cancelVars, changeVars, providerVars
<1>9. pc'[w] = "failed" BY <1>4 DEF IInv, TypeOK
<1>10. WorkerInv(w)' BY <1>7, <1>9 DEF WorkerInv
<1> QED BY <1>7, <1>8, <1>10 DEF IInv

LEMMA FailSubscriptionStep ==
  ASSUME IInv, NEW w \in Workers, FailSubscription(w) PROVE IInv'
<1>0. UNCHANGED <<now, cycles, invoices, callerVars, upsets, overlapped>> /\ EndJob(w)
  BY DEF FailSubscription
<1>1. Grows BY <1>0, Frame DEF callerVars, providerVars
<1>2. /\ pc' \in [Workers -> Places] /\ snap' \in [Workers -> Period]
      /\ cyc' \in [Workers -> Nat] /\ inv' \in [Workers -> Nat]
      /\ exceeds' \in [Workers -> BOOLEAN] /\ WorkerInv(w)' /\ Others(w)
  BY <1>0, JobEnded
<1>3. TypeOK'
  <2>1. queued' \in Nat BY DEF FailSubscription, Requeue, IInv, TypeOK
  <2>2. sub' \in Period
    <3>1. sub \in Period BY DEF IInv, TypeOK
    <3>2. PICK status \in {"EXPIRED", "PAST_DUE"} : sub' = [sub EXCEPT !.status = status]
      BY DEF FailSubscription
    <3> QED BY <3>1, <3>2 DEF Period, Renewable
  <2> QED BY <1>0, <1>2, <2>1, <2>2
      DEF IInv, TypeOK, Places, callerVars, cancelVars, changeVars, providerVars
<1>4. CycleInv' BY <1>0, <1>1, CycleInvGrows
<1>5. Billed(sub.start)'
  <2>1. sub'.start = sub.start BY DEF FailSubscription, IInv, TypeOK, Period
  <2>2. Billed(sub.start) /\ UNCHANGED <<invoices, managed, told>>
    BY <1>0 DEF IInv, callerVars, providerVars
  <2> QED BY <2>1, <2>2 DEF Billed, Issued, Covers
<1>6. \A u \in Workers \ {w} : WorkerInv(u)' BY <1>1, <1>2, OtherWorker DEF Others
<1> QED BY <1>2, <1>3, <1>4, <1>5, <1>6 DEF IInv

LEMMA ThrowStep == ASSUME IInv, NEW w \in Workers, Throw(w) PROVE IInv'
<1>0. /\ pc' = [pc EXCEPT ![w] = "failing"] /\ upsets' \in Nat
      /\ UNCHANGED <<now, sub, cycles, invoices, queued, jobVars, callerVars, overlapped>>
  BY DEF Throw, Goto, Upset, IInv, TypeOK
<1>1. Grows BY <1>0, Frame DEF callerVars, providerVars
<1>2. TypeOK'
  <2>1. pc' \in [Workers -> Places] BY <1>0 DEF IInv, TypeOK, Places
  <2> QED BY <1>0, <2>1
      DEF IInv, TypeOK, Places, jobVars, callerVars, cancelVars, changeVars, providerVars
<1>3. CycleInv' BY <1>0, <1>1, CycleInvGrows
<1>4. Billed(sub.start)' BY <1>0, <1>1, BilledGrows DEF IInv, TypeOK, Period
<1>5. WorkerInv(w)'
  <2>1. Billed(snap[w].start)'
    BY <1>0, <1>1, BilledGrows DEF jobVars, IInv, TypeOK, Period, WorkerInv
  <2>2. pc'[w] = "failing" BY <1>0 DEF IInv, TypeOK
  <2>3. cyc[w] \in DOMAIN cycles /\ cycles[cyc[w]].start = snap[w].start
    BY DEF Throw, IInv, WorkerInv
  <2> QED BY <1>0, <2>1, <2>2, <2>3 DEF jobVars, WorkerInv
<1>6. Others(w) BY <1>0 DEF jobVars, IInv, TypeOK, Others
<1>7. \A u \in Workers \ {w} : WorkerInv(u)' BY <1>1, <1>6, OtherWorker DEF Others
<1> QED BY <1>2, <1>3, <1>4, <1>5, <1>7 DEF IInv

LEMMA CrashStep == ASSUME IInv, NEW w \in Workers, Crash(w) PROVE IInv'
<1>0. UNCHANGED <<now, sub, cycles, invoices, callerVars, overlapped>> /\ EndJob(w)
  BY DEF Crash
<1>1. Grows BY <1>0, Frame DEF callerVars, providerVars
<1>2. /\ pc' \in [Workers -> Places] /\ snap' \in [Workers -> Period]
      /\ cyc' \in [Workers -> Nat] /\ inv' \in [Workers -> Nat]
      /\ exceeds' \in [Workers -> BOOLEAN] /\ WorkerInv(w)' /\ Others(w)
  BY <1>0, JobEnded
<1>3. TypeOK'
  <2>1. queued' \in Nat /\ upsets' \in Nat BY DEF Crash, Upset, Requeue, IInv, TypeOK
  <2> QED BY <1>0, <1>2, <2>1
      DEF IInv, TypeOK, Places, callerVars, cancelVars, changeVars, providerVars
<1>4. CycleInv' BY <1>0, <1>1, CycleInvGrows
<1>5. Billed(sub.start)' BY <1>0, <1>1, BilledGrows DEF IInv, TypeOK, Period
<1>6. \A u \in Workers \ {w} : WorkerInv(u)' BY <1>1, <1>2, OtherWorker DEF Others
<1> QED BY <1>2, <1>3, <1>4, <1>5, <1>6 DEF IInv

(* The clock, the queue and the customer leave the start of the period.    *)
LEMMA OutsideStep ==
  ASSUME IInv,
         Tick \/ Enqueue \/ StartCancel \/ Cancel \/ StartChange \/ ChangePlan
           \/ UNCHANGED vars
  PROVE  IInv'
<1> USE DEF callerVars, cancelVars, changeVars, providerVars
<1>1. UNCHANGED <<cycles, invoices, workerVars, providerVars, overlapped>>
  BY DEF Tick, Enqueue, StartCancel, Cancel, StartChange, ChangePlan, vars
<1>2. Grows BY <1>1, Frame
<1>3. sub' \in Period /\ sub'.start = sub.start
  <2>1. sub \in Period BY DEF IInv, TypeOK
  <2>2. CASE Cancel
    <3>1. now \in Nat /\ cancelEnd \in Nat BY <2>2 DEF Cancel, IInv, TypeOK
    <3>2. PICK end \in {now, cancelEnd} :
            sub' = [sub EXCEPT !.status = "CANCELLED", !.end = end]
      BY <2>2 DEF Cancel
    <3>3. end \in Nat BY <3>1, <3>2
    <3> QED BY <2>1, <3>2, <3>3 DEF Period
  <2>3. CASE ChangePlan
    <3>1. newPlan \in Plans BY <2>3 DEF ChangePlan, IInv, TypeOK
    <3> QED BY <2>1, <2>3, <3>1 DEF ChangePlan, Period
  <2>4. CASE ~Cancel /\ ~ChangePlan
    <3>1. sub' = sub BY <2>4 DEF Tick, Enqueue, StartCancel, StartChange, vars
    <3> QED BY <2>1, <3>1
  <2> QED BY <2>2, <2>3, <2>4
<1>4. TypeOK'
  <2>0. /\ now \in Nat /\ queued \in Nat /\ cancels \in Nat /\ upsets \in Nat
        /\ cancelEnd \in Nat \cup {-1} /\ sub.end \in Nat
        /\ newPlan \in Plans \cup {NoPlan} /\ repriced \in BOOLEAN
    BY DEF IInv, TypeOK, Period
  <2>1. now' \in Nat /\ queued' \in Nat /\ cancels' \in Nat /\ upsets' \in Nat
    BY <2>0 DEF Tick, Enqueue, StartCancel, Cancel, StartChange, ChangePlan, Upset, vars
  <2>2. cancelEnd' \in Nat \cup {-1}
    BY <2>0 DEF Tick, Enqueue, StartCancel, Cancel, StartChange, ChangePlan, vars
  <2>3. newPlan' \in Plans \cup {NoPlan} /\ repriced' \in BOOLEAN
    BY <2>0 DEF Tick, Enqueue, StartCancel, Cancel, StartChange, ChangePlan, vars
  <2> QED BY <1>1, <1>3, <2>1, <2>2, <2>3 DEF IInv, TypeOK, workerVars, jobVars
<1>5. CycleInv' BY <1>1, <1>2, CycleInvGrows
<1>6. Billed(sub.start)'
  <2>1. Billed(sub.start) BY DEF IInv
  <2> QED BY <1>1, <1>3, <2>1 DEF Billed, Issued, Covers
<1>7. \A u \in Workers : WorkerInv(u)' BY <1>1, <1>2, OtherWorker DEF workerVars, jobVars
<1> QED BY <1>4, <1>5, <1>6, <1>7 DEF IInv

(* What the provider tells of comes after what it has billed.              *)
LEMMA ToldStep ==
  ASSUME IInv, managed, NEW t \in Nat, NEW status \in {"ACTIVE", "PAST_DUE", "CANCELLED"},
         sub' = [sub EXCEPT !.status = status, !.start = t, !.end = t + 1],
         told' \in Nat, told <= told', t < told',
         upsets' \in Nat, over' \in BOOLEAN, crossed' \in BOOLEAN,
         UNCHANGED <<now, cycles, invoices, queued, workerVars, cancelVars, changeVars,
                     managed, overlapped>>
  PROVE  IInv'
<1>1. told \in Nat \ {0} BY DEF IInv, TypeOK
<1>2. Grows BY <1>1 DEF Grows
<1>3. sub' \in Period /\ sub'.start = t BY PeriodMoved DEF IInv
<1>4. TypeOK'
  <2>1. told' \in Nat \ {0} BY <1>1
  <2> QED BY <1>3, <2>1 DEF IInv, TypeOK, workerVars, jobVars, cancelVars, changeVars
<1>5. CycleInv' BY <1>2, CycleInvGrows
<1>6. Billed(sub.start)'
  <2>1. \A u \in Trial..(t - 1) : u < told' BY RenewalAssumption
  <2> QED BY <1>3, <2>1 DEF Billed
<1>7. \A u \in Workers : WorkerInv(u)' BY <1>2, OtherWorker DEF workerVars, jobVars
<1> QED BY <1>3, <1>4, <1>5, <1>6, <1>7 DEF IInv

LEMMA SyncStep ==
  ASSUME IInv, SyncEnd \/ \E t \in Trial..now : SyncPeriod(t) PROVE IInv'
<1>1. /\ now \in Nat /\ told \in Nat \ {0} /\ upsets \in Nat
      /\ crossed \in BOOLEAN /\ over \in BOOLEAN
  BY DEF IInv, TypeOK
<1>2. CASE SyncEnd
  <2>1. /\ managed /\ over' \in BOOLEAN /\ upsets' \in Nat
        /\ UNCHANGED <<now, cycles, invoices, queued, workerVars, cancelVars, changeVars,
                       managed, told, overlapped>>
    BY <1>1, <1>2 DEF SyncEnd, Upset
  <2>2. crossed' \in BOOLEAN BY <1>1, <1>2 DEF SyncEnd
  <2> DEFINE t == told - 1
  <2>3. t \in Nat /\ t + 1 = told BY <1>1
  <2>4. sub' = [sub EXCEPT !.status = "CANCELLED", !.start = t, !.end = t + 1]
    BY <1>2, <2>3 DEF SyncEnd
  <2>5. told' \in Nat /\ told <= told' /\ t < told' BY <1>1, <2>1, <2>3
  <2> HIDE DEF t
  <2> QED BY <2>1, <2>2, <2>3, <2>4, <2>5, ToldStep
<1>3. ASSUME NEW t \in Trial..now, SyncPeriod(t) PROVE IInv'
  <2>1. PICK status \in {"ACTIVE", "PAST_DUE"} :
          sub' = [sub EXCEPT !.status = status, !.start = t, !.end = t + 1]
    BY <1>3 DEF SyncPeriod
  <2>2. /\ managed
        /\ UNCHANGED <<now, cycles, invoices, queued, workerVars, cancelVars, changeVars,
                       managed, over, overlapped>>
    BY <1>3 DEF SyncPeriod
  <2>3. t \in Nat BY <1>1, RenewalAssumption
  <2>0. \/ t < told /\ upsets' = upsets + 1 /\ told' = told
        \/ t >= told /\ told' = t + 1 /\ upsets' = upsets
    BY <1>3 DEF SyncPeriod, Upset
  <2>4. told' \in Nat /\ told <= told' /\ t < told' BY <1>1, <2>0, <2>3
  <2>5. upsets' \in Nat BY <1>1, <2>0
  <2>6. crossed' \in BOOLEAN BY <1>1, <1>3 DEF SyncPeriod
  <2> QED BY <1>1, <2>1, <2>2, <2>3, <2>4, <2>5, <2>6, ToldStep
<1> QED BY <1>2, <1>3

(* The ledger of cycles, the period billed and each worker's place in its  *)
(* renewal stay in their relation.                                         *)
THEOREM Invariant == Spec => []IInv
<1>1. IInv /\ [Next]_vars => IInv'
  BY OutsideStep, SyncStep, BeginStep, FindCycleStep, CreateCycleStep, CountAttemptStep,
     CreateInvoiceStep, IssueInvoiceStep, LinkInvoiceStep, AdvanceStep, MarkPaidStep,
     ThrowStep, CrashStep, FailCycleStep, FailSubscriptionStep
  DEF Next, ProcessRenewal
<1> QED BY InitIInv, <1>1, PTL DEF Spec

-----------------------------------------------------------------------------
(* The rows and the workers' places have their types.                      *)
THEOREM RenewalTypeCorrect == Spec => []TypeOK
<1>1. IInv => TypeOK BY DEF IInv
<1> QED BY <1>1, Invariant, PTL

(* Revenue: whatever fails, repeats or races, the subscription never moves *)
(* past time that no issued invoice is for.                                *)
THEOREM NothingIsGivenAway == Spec => []NoFreePeriod
<1>1. IInv => NoFreePeriod BY DEF IInv, Billed, NoFreePeriod
<1> QED BY <1>1, Invariant, PTL

(* A PAID cycle always names an issued invoice of its own period.          *)
THEOREM PaidCyclesAreInvoiced == Spec => []PaidIsInvoiced
<1>1. IInv => PaidIsInvoiced BY DEF IInv, CycleInv, PaidIsInvoiced
<1> QED BY <1>1, Invariant, PTL

-----------------------------------------------------------------------------
(* While no plan has been changed under way, whatever is under way carries *)
(* the plan of the subscription, and a cycle and its invoice agree.        *)
PriceOf(w) ==
  /\ pc[w] # "idle" => snap[w].plan = sub.plan
  /\ pc[w] \in {"count", "invoice", "issue", "link", "advance", "pay", "failing"} =>
       cycles[cyc[w]].plan = sub.plan
  /\ pc[w] \in {"issue", "link", "advance", "pay"} => invoices[inv[w]].plan = sub.plan

CyclePrices ==
  \A c \in DOMAIN cycles :
    /\ cycles[c].status = "PROCESSING" => cycles[c].plan = sub.plan
    /\ cycles[c].invoice # 0 => invoices[cycles[c].invoice].plan = cycles[c].plan

PriceInv == ~repriced => CyclePrices /\ \A w \in Workers : PriceOf(w)

(* The rows, and the subscription, keep the plan they name.                *)
PlansStay ==
  /\ repriced' = repriced /\ sub'.plan = sub.plan
  /\ \A c \in DOMAIN cycles : c \in DOMAIN cycles' /\ cycles'[c].plan = cycles[c].plan
  /\ \A i \in DOMAIN invoices : i \in DOMAIN invoices' /\ invoices'[i].plan = invoices[i].plan

LEMMA OtherPrice ==
  ASSUME IInv, PlansStay, NEW u \in Workers, PriceOf(u),
         pc'[u] = pc[u], snap'[u] = snap[u], cyc'[u] = cyc[u], inv'[u] = inv[u]
  PROVE  PriceOf(u)'
<1>1. WorkerInv(u) BY DEF IInv
<1> QED BY <1>1 DEF PlansStay, PriceOf, WorkerInv

(* Steps that leave both tables alone: the worker, if it is one of them,   *)
(* has only to keep its own facts.                                         *)
LEMMA QuietPrices ==
  ASSUME IInv, PriceInv, UNCHANGED <<cycles, invoices, repriced>>, sub'.plan = sub.plan,
         NEW w \in Workers, Others(w),
         ~repriced => PriceOf(w)'
  PROVE  PriceInv'
<1> SUFFICES ASSUME ~repriced PROVE CyclePrices' /\ \A u \in Workers : PriceOf(u)'
  BY DEF PriceInv
<1>1. PlansStay BY DEF PlansStay
<1>2. CyclePrices' BY DEF PriceInv, CyclePrices
<1>3. \A u \in Workers \ {w} : PriceOf(u)' BY <1>1, OtherPrice DEF PriceInv, Others
<1> QED BY <1>2, <1>3

LEMMA BeginPrice == ASSUME IInv, PriceInv, NEW w \in Workers, Begin(w) PROVE PriceInv'
<1>1. UNCHANGED <<sub, cycles, invoices, cyc, inv, repriced>>
  BY DEF Begin, callerVars, changeVars
<1>2. Others(w) BY DEF Begin, Goto, IInv, TypeOK, Others
<1>3. ~repriced => PriceOf(w)'
  <2>1. CASE sub.status \in Renewable
    BY <1>1, <2>1 DEF Begin, Goto, IInv, TypeOK, PriceOf
  <2>2. CASE sub.status \notin Renewable
    BY <1>1, <2>2 DEF Begin, IInv, TypeOK, PriceOf
  <2> QED BY <2>1, <2>2
<1> QED BY <1>1, <1>2, <1>3, QuietPrices

LEMMA FindCyclePrice == ASSUME IInv, PriceInv, NEW w \in Workers, FindCycle(w) PROVE PriceInv'
<1>1. UNCHANGED <<sub, cycles, invoices, repriced>>
  BY DEF FindCycle, callerVars, changeVars
<1>2. CASE EndJob(w)
  <2>1. pc'[w] = "idle" /\ Others(w) BY <1>2, JobEnded
  <2> QED BY <1>1, <2>1, QuietPrices DEF PriceOf
<1>3. CASE pc' = [pc EXCEPT ![w] = "create"] /\ UNCHANGED jobVars
  <2>1. Others(w) /\ pc'[w] = "create" BY <1>3 DEF jobVars, Others, IInv, TypeOK
  <2>2. ~repriced => PriceOf(w)'
    BY <1>1, <1>3, <2>1 DEF jobVars, FindCycle, PriceInv, PriceOf
  <2> QED BY <1>1, <2>1, <2>2, QuietPrices
<1>4. ASSUME NEW i \in Current(w), cycles[i].status = "PROCESSING",
             pc' = [pc EXCEPT ![w] = "count"], cyc' = [cyc EXCEPT ![w] = i],
             UNCHANGED <<snap, inv, exceeds>>
      PROVE  PriceInv'
  <2>1. Others(w) BY <1>4 DEF Others, IInv, TypeOK
  <2>2. pc'[w] = "count" /\ cyc'[w] = i BY <1>4 DEF IInv, TypeOK
  <2>3. ~repriced => snap[w].plan = sub.plan /\ cycles[i].plan = sub.plan
    BY <1>4 DEF FindCycle, Current, PriceInv, PriceOf, CyclePrices
  <2>4. ~repriced => PriceOf(w)' BY <1>1, <1>4, <2>2, <2>3 DEF PriceOf
  <2> QED BY <1>1, <2>1, <2>4, QuietPrices
<1> QED BY <1>2, <1>3, <1>4, Found

(* Advance and Throw, and the ends of a job.                               *)
LEMMA OnwardPrice ==
  ASSUME IInv, PriceInv, NEW w \in Workers, Advance(w) \/ Throw(w) PROVE PriceInv'
<1>1. UNCHANGED <<cycles, invoices, snap, cyc, inv, repriced>>
  BY DEF Advance, Throw, jobVars, callerVars, changeVars
<1>2. sub'.plan = sub.plan BY DEF Advance, Throw, IInv, TypeOK, Period
<1>3. Others(w) BY <1>1 DEF Advance, Throw, Goto, IInv, TypeOK, Others
<1>4. ~repriced => PriceOf(w)'
  <2>1. CASE Advance(w)
    <3>1. pc[w] = "advance" /\ pc'[w] = "pay" BY <2>1 DEF Advance, Goto, IInv, TypeOK
    <3> QED BY <1>1, <1>2, <3>1 DEF PriceInv, PriceOf
  <2>2. CASE Throw(w)
    <3>1. pc[w] \in {"invoice", "issue", "link", "advance", "pay"} /\ pc'[w] = "failing"
      BY <2>2 DEF Throw, Goto, IInv, TypeOK
    <3> QED BY <1>1, <1>2, <3>1 DEF PriceInv, PriceOf
  <2> QED BY <2>1, <2>2
<1> QED BY <1>1, <1>2, <1>3, <1>4, QuietPrices

LEMMA EndPrice ==
  ASSUME IInv, PriceInv, NEW w \in Workers, FailSubscription(w) \/ Crash(w) PROVE PriceInv'
<1>1. UNCHANGED <<cycles, invoices, repriced>> /\ EndJob(w)
  BY DEF FailSubscription, Crash, callerVars, changeVars
<1>2. sub'.plan = sub.plan BY DEF FailSubscription, Crash, IInv, TypeOK, Period
<1>3. pc'[w] = "idle" /\ Others(w) BY <1>1, JobEnded
<1> QED BY <1>1, <1>2, <1>3, QuietPrices DEF PriceOf

(* Steps that write a table: the cycles are looked at again.               *)
LEMMA TablePrices ==
  ASSUME IInv, PriceInv, PlansStay, NEW w \in Workers, Others(w),
         ~repriced => CyclePrices' /\ PriceOf(w)'
  PROVE  PriceInv'
<1> SUFFICES ASSUME ~repriced PROVE CyclePrices' /\ \A u \in Workers : PriceOf(u)'
  BY DEF PriceInv, PlansStay
<1>1. \A u \in Workers \ {w} : PriceOf(u)' BY OtherPrice DEF PriceInv, Others
<1> QED BY <1>1

LEMMA CreateCyclePrice ==
  ASSUME IInv, PriceInv, NEW w \in Workers, CreateCycle(w) PROVE PriceInv'
<1> DEFINE row == [start |-> snap[w].start, status |-> "PROCESSING",
                   attempts |-> 0, invoice |-> 0, plan |-> snap[w].plan]
           new == Len(cycles) + 1
<1>1. row \in CycleRow /\ cycles' = Append(cycles, row)
  BY DEF CreateCycle, IInv, TypeOK, Period, CycleRow
<1>2. /\ DOMAIN cycles' = DOMAIN cycles \cup {new} /\ cycles'[new] = row
      /\ \A d \in DOMAIN cycles : cycles'[d] = cycles[d]
  <2>1. TypeOK BY DEF IInv
  <2> HIDE DEF row
  <2> QED BY <1>1, <2>1, CycleAdded
<1>3. row.plan = snap[w].plan /\ row.invoice = 0 OBVIOUS
<1>4. cyc' = [cyc EXCEPT ![w] = new] /\ pc' = [pc EXCEPT ![w] = "count"]
      /\ UNCHANGED <<sub, invoices, snap, inv, repriced>> /\ pc[w] = "create"
  BY DEF CreateCycle, Goto, callerVars, changeVars
<1> HIDE DEF row, new
<1>5. PlansStay BY <1>2, <1>4 DEF PlansStay
<1>6. Others(w) BY <1>4 DEF IInv, TypeOK, Others
<1>7. pc'[w] = "count" /\ cyc'[w] = new BY <1>4 DEF IInv, TypeOK
<1>8. ~repriced => CyclePrices' /\ PriceOf(w)'
  BY <1>2, <1>3, <1>4, <1>7 DEF PriceInv, CyclePrices, PriceOf
<1> QED BY <1>4, <1>5, <1>6, <1>8, TablePrices

(* CountAttempt, LinkInvoice, MarkPaid and FailCycle: the cycle's row      *)
(* becomes "row", of the same plan.                                        *)
LEMMA OwnCyclePrice ==
  ASSUME IInv, PriceInv, NEW w \in Workers, NEW row \in CycleRow,
         cyc[w] \in DOMAIN cycles,
         cycles' = [cycles EXCEPT ![cyc[w]] = row],
         row.plan = cycles[cyc[w]].plan,
         ~repriced /\ row.invoice # cycles[cyc[w]].invoice =>
           invoices[row.invoice].plan = sub.plan,
         pc[w] \in {"count", "link", "pay", "failing"}, Others(w),
         pc'[w] # "idle" => UNCHANGED <<snap, cyc, inv>>,
         pc'[w] = "advance" => pc[w] = "link",
         pc'[w] \in {"idle", "failed", "invoice", "advance"},
         UNCHANGED <<sub, invoices, repriced>>
  PROVE  PriceInv'
<1>1. /\ DOMAIN cycles' = DOMAIN cycles
      /\ \A d \in DOMAIN cycles : cycles'[d] = IF d = cyc[w] THEN row ELSE cycles[d]
  BY CycleChanged DEF IInv
<1>2. PlansStay BY <1>1 DEF PlansStay
<1>3. ASSUME ~repriced PROVE CyclePrices' /\ PriceOf(w)'
  <2>1. cycles[cyc[w]].plan = sub.plan /\ snap[w].plan = sub.plan
    BY <1>3 DEF PriceInv, PriceOf
  <2>2. row.plan = sub.plan
        /\ (row.invoice # 0 => invoices[row.invoice].plan = row.plan)
    BY <1>3, <2>1 DEF PriceInv, CyclePrices
  <2>3. CyclePrices' BY <1>1, <1>3, <2>2 DEF PriceInv, CyclePrices
  <2>4. pc[w] = "link" => invoices[inv[w]].plan = sub.plan BY <1>3 DEF PriceInv, PriceOf
  <2>5. PriceOf(w)'
    <3>1. CASE pc'[w] = "idle" BY <3>1 DEF PriceOf
    <3>2. CASE pc'[w] # "idle" BY <1>1, <2>1, <2>2, <2>4, <3>2 DEF PriceOf
    <3> QED BY <3>1, <3>2
  <2> QED BY <2>3, <2>5
<1> QED BY <1>2, <1>3, TablePrices

LEMMA CycleWrittenPrice ==
  ASSUME IInv, PriceInv, NEW w \in Workers,
         CountAttempt(w) \/ LinkInvoice(w) \/ MarkPaid(w) \/ FailCycle(w)
  PROVE  PriceInv'
<1> DEFINE c == cyc[w]
<1>1. pc[w] \in {"count", "link", "pay", "failing"}
  BY DEF CountAttempt, LinkInvoice, MarkPaid, FailCycle
<1>2. c \in DOMAIN cycles BY <1>1 DEF IInv, WorkerInv
<1>3. cycles[c] \in CycleRow BY <1>2, RowTypes DEF IInv
<1>4. UNCHANGED <<sub, invoices, repriced>>
  BY DEF CountAttempt, LinkInvoice, MarkPaid, FailCycle, callerVars, changeVars
<1>5. CASE CountAttempt(w)
  <2> DEFINE row == [cycles[c] EXCEPT !.status = "PROCESSING", !.attempts = @ + 1]
  <2>1. row \in CycleRow /\ row.plan = cycles[c].plan /\ row.invoice = cycles[c].invoice
    BY <1>3, RowCounted
  <2>2. cycles' = [cycles EXCEPT ![c] = row] /\ UNCHANGED <<snap, cyc, inv>>
    BY <1>2, <1>5 DEF CountAttempt, jobVars
  <2>3. pc'[w] = "invoice" /\ Others(w)
    BY <1>5 DEF CountAttempt, Goto, jobVars, IInv, TypeOK, Others
  <2>4. ~repriced /\ row.invoice # cycles[c].invoice =>
          invoices[row.invoice].plan = sub.plan
    BY <2>1
  <2> HIDE DEF row
  <2> QED BY <1>1, <1>2, <1>4, <2>1, <2>2, <2>3, <2>4, OwnCyclePrice
<1>6. CASE LinkInvoice(w)
  <2> DEFINE row == [cycles[c] EXCEPT !.invoice = inv[w]]
  <2>1. row \in CycleRow /\ row.plan = cycles[c].plan /\ row.invoice = inv[w]
    <3>1. inv[w] \in Nat BY DEF IInv, TypeOK
    <3> QED BY <1>3, <3>1, RowLinked
  <2>2. cycles' = [cycles EXCEPT ![c] = row] /\ UNCHANGED <<snap, cyc, inv>>
    BY <1>2, <1>6 DEF LinkInvoice, jobVars
  <2>3. pc[w] = "link" /\ pc'[w] = "advance" /\ Others(w)
    BY <1>6 DEF LinkInvoice, Goto, jobVars, IInv, TypeOK, Others
  <2>4. ~repriced => invoices[inv[w]].plan = sub.plan BY <2>3 DEF PriceInv, PriceOf
  <2> HIDE DEF row
  <2> QED BY <1>1, <1>2, <1>4, <2>1, <2>2, <2>3, <2>4, OwnCyclePrice
<1>7. CASE MarkPaid(w) \/ FailCycle(w)
  <2>1. PICK status \in {"PAID", "FAILED"} :
          cycles' = [cycles EXCEPT ![c] = [cycles[c] EXCEPT !.status = status]]
    BY <1>2, <1>7 DEF MarkPaid, FailCycle
  <2> DEFINE row == [cycles[c] EXCEPT !.status = status]
  <2>2. row \in CycleRow /\ row.plan = cycles[c].plan /\ row.invoice = cycles[c].invoice
    <3>1. status \in {"PROCESSING", "PAID", "FAILED"} OBVIOUS
    <3> HIDE DEF c
    <3> QED BY <1>3, <3>1, RowStatus
  <2>3. cycles' = [cycles EXCEPT ![c] = row] BY <2>1
  <2>4. ~repriced /\ row.invoice # cycles[c].invoice =>
          invoices[row.invoice].plan = sub.plan
    BY <2>2
  <2>5. /\ pc'[w] \in {"idle", "failed"} /\ Others(w)
        /\ pc'[w] # "idle" => UNCHANGED <<snap, cyc, inv>>
    <3>1. CASE MarkPaid(w)
      <4>1. EndJob(w) BY <3>1 DEF MarkPaid
      <4> QED BY <4>1, JobEnded
    <3>2. CASE FailCycle(w) BY <3>2 DEF FailCycle, Goto, IInv, TypeOK, Others
    <3> QED BY <1>7, <3>1, <3>2
  <2> HIDE DEF row
  <2> QED BY <1>1, <1>2, <1>4, <2>2, <2>3, <2>4, <2>5, OwnCyclePrice
<1> QED BY <1>5, <1>6, <1>7

LEMMA CreateInvoicePrice ==
  ASSUME IInv, PriceInv, NEW w \in Workers, CreateInvoice(w) PROVE PriceInv'
<1> DEFINE row == [start |-> snap[w].start, end |-> snap[w].end, plan |-> snap[w].plan,
                   status |-> "DRAFT"]
           new == Len(invoices) + 1
<1>1. row \in InvoiceRow /\ invoices' = Append(invoices, row)
  BY DEF CreateInvoice, IInv, TypeOK, Period, InvoiceRow
<1>2. /\ DOMAIN invoices' = DOMAIN invoices \cup {new} /\ invoices'[new] = row
      /\ \A d \in DOMAIN invoices : invoices'[d] = invoices[d]
  <2>1. TypeOK BY DEF IInv
  <2> HIDE DEF row
  <2> QED BY <1>1, <2>1, InvoiceAdded
<1>3. row.plan = snap[w].plan OBVIOUS
<1>4. inv' = [inv EXCEPT ![w] = new] /\ pc' = [pc EXCEPT ![w] = "issue"]
      /\ UNCHANGED <<sub, cycles, snap, cyc, repriced>> /\ pc[w] = "invoice"
  BY DEF CreateInvoice, Goto, callerVars, changeVars
<1> HIDE DEF row, new
<1>5. PlansStay BY <1>2, <1>4 DEF PlansStay
<1>6. Others(w) BY <1>4 DEF IInv, TypeOK, Others
<1>7. pc'[w] = "issue" /\ inv'[w] = new BY <1>4 DEF IInv, TypeOK
<1>8. ASSUME ~repriced PROVE CyclePrices' /\ PriceOf(w)'
  <2>1. CyclePrices' BY <1>2, <1>4, <1>8 DEF PriceInv, CyclePrices, IInv, CycleInv, Issued
  <2>2. PriceOf(w)' BY <1>2, <1>3, <1>4, <1>7, <1>8 DEF PriceInv, PriceOf
  <2> QED BY <2>1, <2>2
<1> QED BY <1>4, <1>5, <1>6, <1>8, TablePrices

LEMMA IssueInvoicePrice ==
  ASSUME IInv, PriceInv, NEW w \in Workers, IssueInvoice(w) PROVE PriceInv'
<1> DEFINE i == inv[w]
<1>1. i \in DOMAIN invoices /\ pc[w] = "issue" BY DEF IssueInvoice, IInv, WorkerInv
<1>2. invoices[i] \in InvoiceRow BY <1>1, RowTypes DEF IInv
<1>3. invoices' = [invoices EXCEPT ![i].status = "ISSUED"] /\ pc' = [pc EXCEPT ![w] = "link"]
      /\ UNCHANGED <<sub, cycles, snap, cyc, inv, repriced>>
  BY DEF IssueInvoice, Goto, jobVars, callerVars, changeVars
<1>4. DOMAIN invoices' = DOMAIN invoices
      /\ \A d \in DOMAIN invoices : invoices'[d].plan = invoices[d].plan
  <2>1. invoices \in Seq(InvoiceRow) BY DEF IInv, TypeOK
  <2>2. \A d \in DOMAIN invoices : invoices[d] \in InvoiceRow BY RowTypes DEF IInv
  <2> QED BY <1>1, <1>3, <2>1, <2>2 DEF InvoiceRow
<1>5. PlansStay BY <1>3, <1>4 DEF PlansStay
<1>6. pc'[w] = "link" /\ Others(w) BY <1>3 DEF IInv, TypeOK, Others
<1>7. ASSUME ~repriced PROVE CyclePrices' /\ PriceOf(w)'
  <2>1. CyclePrices' BY <1>3, <1>4, <1>7 DEF PriceInv, CyclePrices, IInv, CycleInv, Issued
  <2>2. PriceOf(w)' BY <1>1, <1>3, <1>4, <1>6, <1>7 DEF PriceInv, PriceOf
  <2> QED BY <2>1, <2>2
<1> QED BY <1>3, <1>5, <1>6, <1>7, TablePrices

(* Of the callers only the change of plan matters, and when it finds       *)
(* nothing under way nothing has a plan to keep.                           *)
LEMMA OutsidePrice ==
  ASSUME IInv, PriceInv,
         Tick \/ Enqueue \/ StartCancel \/ Cancel \/ StartChange \/ ChangePlan \/ SyncEnd
           \/ (\E t \in Trial..now : SyncPeriod(t)) \/ UNCHANGED vars
  PROVE  PriceInv'
<1>1. UNCHANGED <<cycles, invoices, pc, snap, cyc, inv>>
  BY DEF Tick, Enqueue, StartCancel, Cancel, StartChange, ChangePlan, SyncEnd, SyncPeriod,
         vars, workerVars, jobVars
<1>2. CASE ChangePlan
  <2> SUFFICES ASSUME ~repriced' PROVE CyclePrices' /\ \A w \in Workers : PriceOf(w)'
    BY DEF PriceInv
  <2>1. ~repriced /\ ~UnderWay BY <1>2 DEF ChangePlan
  <2>2. \A w \in Workers : pc'[w] = "idle" BY <1>1, <2>1 DEF UnderWay
  <2>3. CyclePrices' BY <1>1, <2>1 DEF UnderWay, PriceInv, CyclePrices
  <2> QED BY <2>2, <2>3 DEF PriceOf
<1>3. CASE ~ChangePlan
  <2>1. repriced' = repriced
    BY <1>3 DEF Tick, Enqueue, StartCancel, Cancel, StartChange, SyncEnd, SyncPeriod,
                vars, callerVars, changeVars
  <2>2. sub'.plan = sub.plan
    BY <1>3 DEF Tick, Enqueue, StartCancel, Cancel, StartChange, SyncEnd, SyncPeriod,
                vars, IInv, TypeOK, Period
  <2> QED BY <1>1, <2>1, <2>2 DEF PriceInv, CyclePrices, PriceOf
<1> QED BY <1>2, <1>3

(* The plan of a subscription changes between two renewals, or after one   *)
(* that has failed, and what is paid for is what the cycle says.           *)
THEOREM CyclesSayThePrice == Spec => []CycleSaysPriceInTurn
<1>1. Init => PriceInv
  <2> SUFFICES ASSUME Init PROVE PriceInv OBVIOUS
  <2>1. DOMAIN cycles = {} /\ \A w \in Workers : pc[w] = "idle" BY DEF Init
  <2> QED BY <2>1 DEF PriceInv, CyclePrices, PriceOf
<1>2. IInv /\ PriceInv /\ [Next]_vars => PriceInv'
  BY OutsidePrice, BeginPrice, FindCyclePrice, CreateCyclePrice, CycleWrittenPrice,
     CreateInvoicePrice, IssueInvoicePrice, OnwardPrice, EndPrice
  DEF Next, ProcessRenewal
<1>3. IInv /\ PriceInv => CycleSaysPriceInTurn
  BY DEF IInv, CycleInv, PriceInv, CyclePrices, CycleSaysPriceInTurn
<1> QED BY <1>1, <1>2, <1>3, Invariant, PTL DEF Spec

-----------------------------------------------------------------------------
(* A period has no more cycles that have not failed than there are workers.*)
(* One that has failed may come back: a worker that has found it before may*)
(* still go on with it.  So these cycles count as well; and a worker that  *)
(* has found none, and is to create one, keeps a place for it.  They all   *)
(* have room.                                                              *)
Holding == {"count", "invoice", "issue", "link", "advance", "pay"}
Held(c) == \E w \in Workers : pc[w] \in Holding /\ cyc[w] = c

Open(p) == {c \in DOMAIN cycles : /\ cycles[c].start = p
                                  /\ cycles[c].status # "FAILED" \/ Held(c)}
Wanted(p) == {w \in Workers : pc[w] = "create" /\ snap[w].start = p}

Room(p) == \E f \in [Open(p) -> Workers] :
             /\ \A c, d \in Open(p) : f[c] = f[d] => c = d
             /\ \A c \in Open(p) : f[c] \notin Wanted(p)

RoomInv == \A p \in Nat : Room(p)

LEMMA RoomStays ==
  ASSUME NEW p, Room(p), Open(p)' \subseteq Open(p), Wanted(p)' \subseteq Wanted(p)
  PROVE  Room(p)'
<1>1. PICK f \in [Open(p) -> Workers] :
        /\ \A c, d \in Open(p) : f[c] = f[d] => c = d
        /\ \A c \in Open(p) : f[c] \notin Wanted(p)
  BY DEF Room
<1> DEFINE g == [c \in Open(p)' |-> f[c]]
<1>2. g \in [Open(p)' -> Workers] OBVIOUS
<1>3. \A c, d \in Open(p)' : g[c] = g[d] => c = d BY <1>1
<1>4. \A c \in Open(p)' : g[c] \notin Wanted(p)' BY <1>1
<1> HIDE DEF g
<1> QED BY <1>2, <1>3, <1>4 DEF Room

(* A step of worker w that leaves no more cycles open: what it holds after *)
(* it, or has brought back, it held before, or had not failed.             *)
LEMMA RoomStep ==
  ASSUME RoomInv, NEW w \in Workers, Others(w), pc'[w] # "create",
         pc'[w] \in Holding =>
           \/ cycles[cyc'[w]].status # "FAILED"
           \/ pc[w] \in Holding /\ cyc'[w] = cyc[w],
         DOMAIN cycles' = DOMAIN cycles,
         \A d \in DOMAIN cycles :
           /\ cycles'[d].start = cycles[d].start
           /\ cycles'[d].status # "FAILED" => cycles[d].status # "FAILED" \/ Held(d)
  PROVE  RoomInv'
<1>1. \A d : Held(d)' => Held(d) \/ cycles[d].status # "FAILED" BY DEF Held, Others
<1>2. \A p : Open(p)' \subseteq Open(p) BY <1>1 DEF Open
<1>3. \A p : Wanted(p)' \subseteq Wanted(p) BY DEF Wanted, Others
<1> QED BY <1>2, <1>3, RoomStays DEF RoomInv

LEMMA RoomQuiet ==
  ASSUME IInv, RoomInv, NEW w \in Workers,
         Begin(w) \/ CreateInvoice(w) \/ IssueInvoice(w) \/ Advance(w) \/ Throw(w)
           \/ FailSubscription(w) \/ Crash(w)
  PROVE  RoomInv'
<1>1. UNCHANGED cycles
  BY DEF Begin, CreateInvoice, IssueInvoice, Advance, Throw, FailSubscription, Crash
<1>2. CASE FailSubscription(w) \/ Crash(w)
  <2>1. EndJob(w) BY <1>2 DEF FailSubscription, Crash
  <2>2. pc'[w] = "idle" /\ Others(w) BY <2>1, JobEnded
  <2> QED BY <1>1, <2>2, RoomStep DEF Holding
<1>3. CASE Begin(w)
  <2>1. pc'[w] \in {"idle", "lookup"} /\ Others(w)
    BY <1>3 DEF Begin, Goto, IInv, TypeOK, Others
  <2> QED BY <1>1, <2>1, RoomStep DEF Holding
<1>4. CASE CreateInvoice(w) \/ IssueInvoice(w) \/ Advance(w) \/ Throw(w)
  <2>1. /\ pc[w] \in Holding /\ pc'[w] \in {"issue", "link", "pay", "failing"}
        /\ UNCHANGED cyc /\ Others(w)
    BY <1>4 DEF CreateInvoice, IssueInvoice, Advance, Throw, Goto, jobVars, IInv, TypeOK,
                Others, Holding
  <2> QED BY <1>1, <2>1, RoomStep
<1> QED BY <1>2, <1>3, <1>4

(* What FindCycle finds is open; and when it finds nothing, whatever is    *)
(* open is held, and its holder is its place.                              *)
LEMMA RoomFind == ASSUME IInv, RoomInv, NEW w \in Workers, FindCycle(w) PROVE RoomInv'
<1>1. UNCHANGED cycles BY DEF FindCycle
<1>2. CASE EndJob(w)
  <2>1. pc'[w] = "idle" /\ Others(w) BY <1>2, JobEnded
  <2> QED BY <1>1, <2>1, RoomStep DEF Holding
<1>3. ASSUME NEW i \in Current(w),
             pc' = [pc EXCEPT ![w] = "count"], cyc' = [cyc EXCEPT ![w] = i],
             UNCHANGED <<snap, inv, exceeds>>
      PROVE  RoomInv'
  <2>1. Others(w) /\ pc'[w] = "count" /\ cyc'[w] = i BY <1>3 DEF Others, IInv, TypeOK
  <2>2. cycles[i].status # "FAILED" BY DEF Current
  <2> QED BY <1>1, <2>1, <2>2, RoomStep
<1>4. ASSUME Current(w) = {}, pc' = [pc EXCEPT ![w] = "create"], UNCHANGED jobVars
      PROVE  RoomInv'
  <2> SUFFICES ASSUME NEW p \in Nat PROVE Room(p)' BY DEF RoomInv
  <2>0. Room(p) BY DEF RoomInv
  <2>1. /\ pc'[w] = "create" /\ pc[w] = "lookup" /\ Others(w)
        /\ UNCHANGED <<snap, cyc, cycles>>
    BY <1>1, <1>4 DEF FindCycle, jobVars, Others, IInv, TypeOK
  <2>2. \A d : Held(d)' => Held(d) BY <2>1 DEF Held, Others, Holding
  <2>3. Open(p)' \subseteq Open(p) BY <2>1, <2>2 DEF Open
  <2>4. CASE p # snap[w].start
    <3>1. Wanted(p)' \subseteq Wanted(p) BY <2>1, <2>4 DEF Wanted, Others
    <3> QED BY <2>0, <2>3, <3>1, RoomStays
  <2>5. CASE p = snap[w].start
    <3>1. \A c \in Open(p)' : Held(c) BY <1>4, <2>3, <2>5 DEF Open, Current
    <3> DEFINE holder(c) == CHOOSE u \in Workers : pc[u] \in Holding /\ cyc[u] = c
               g == [c \in Open(p)' |-> holder(c)]
    <3>2. \A c \in Open(p)' : /\ g[c] \in Workers /\ pc[g[c]] \in Holding
                              /\ cyc[g[c]] = c
      BY <3>1 DEF Held
    <3>3. g \in [Open(p)' -> Workers] BY <3>2
    <3> HIDE DEF g
    <3>4. \A c, d \in Open(p)' : g[c] = g[d] => c = d BY <3>2
    <3>5. \A c \in Open(p)' : g[c] \notin Wanted(p)'
      BY <2>1, <3>2 DEF Wanted, Others, Holding
    <3> QED BY <3>3, <3>4, <3>5 DEF Room
  <2> QED BY <2>4, <2>5
<1> QED BY <1>2, <1>3, <1>4, Found

(* The new cycle takes the place that its worker has kept.                 *)
LEMMA RoomCreate == ASSUME IInv, RoomInv, NEW w \in Workers, CreateCycle(w) PROVE RoomInv'
<1> DEFINE row == [start |-> snap[w].start, status |-> "PROCESSING",
                   attempts |-> 0, invoice |-> 0, plan |-> snap[w].plan]
           new == Len(cycles) + 1
<1>1. row \in CycleRow /\ cycles' = Append(cycles, row)
  BY DEF CreateCycle, IInv, TypeOK, Period, CycleRow
<1>2. /\ DOMAIN cycles' = DOMAIN cycles \cup {new} /\ cycles'[new] = row
      /\ \A d \in DOMAIN cycles : cycles'[d] = cycles[d]
  <2>1. TypeOK BY DEF IInv
  <2> HIDE DEF row
  <2> QED BY <1>1, <2>1, CycleAdded
<1>3. new \notin DOMAIN cycles
  <2>1. DOMAIN cycles = 1..Len(cycles) /\ Len(cycles) \in Nat
    BY LenProperties DEF IInv, TypeOK
  <2> QED BY <2>1
<1>4. row.start = snap[w].start OBVIOUS
<1>5. pc[w] = "create" /\ pc'[w] = "count" /\ cyc'[w] = new /\ Others(w) /\ UNCHANGED snap
  BY DEF CreateCycle, Goto, IInv, TypeOK, Others
<1> HIDE DEF row, new
<1> SUFFICES ASSUME NEW p \in Nat PROVE Room(p)' BY DEF RoomInv
<1>6. Wanted(p)' \subseteq Wanted(p) \ {w} BY <1>5 DEF Wanted, Others
<1>7. \A d \in DOMAIN cycles : Held(d)' => Held(d) BY <1>3, <1>5 DEF Held, Others
<1>8. Open(p)' \subseteq Open(p) \cup {new} BY <1>2, <1>7 DEF Open
<1>9. CASE p # snap[w].start
  <2>1. new \notin Open(p)' BY <1>2, <1>4, <1>9 DEF Open
  <2>2. Open(p)' \subseteq Open(p) BY <1>8, <2>1
  <2>3. Room(p) BY DEF RoomInv
  <2> QED BY <1>6, <2>2, <2>3, RoomStays
<1>10. CASE p = snap[w].start
  <2>1. PICK f \in [Open(p) -> Workers] :
          /\ \A c, d \in Open(p) : f[c] = f[d] => c = d
          /\ \A c \in Open(p) : f[c] \notin Wanted(p)
    BY DEF RoomInv, Room
  <2>2. w \in Wanted(p) /\ new \notin Open(p) BY <1>3, <1>5, <1>10 DEF Wanted, Open
  <2> DEFINE g == [c \in Open(p)' |-> IF c = new THEN w ELSE f[c]]
  <2>3. \A c \in Open(p)' : /\ c = new => g[c] = w
                            /\ c # new => c \in Open(p) /\ g[c] = f[c] /\ g[c] # w
    BY <1>8, <2>1, <2>2
  <2>4. g \in [Open(p)' -> Workers] BY <1>8
  <2> HIDE DEF g
  <2>5. \A c, d \in Open(p)' : g[c] = g[d] => c = d BY <2>1, <2>3
  <2>6. \A c \in Open(p)' : g[c] \notin Wanted(p)' BY <1>6, <2>1, <2>3
  <2> QED BY <2>4, <2>5, <2>6 DEF Room
<1> QED BY <1>9, <1>10

(* CountAttempt, LinkInvoice and MarkPaid write to a cycle that their      *)
(* worker holds, and FailCycle fails it.                                   *)
LEMMA RoomWrite ==
  ASSUME IInv, RoomInv, NEW w \in Workers,
         CountAttempt(w) \/ LinkInvoice(w) \/ MarkPaid(w) \/ FailCycle(w)
  PROVE  RoomInv'
<1> DEFINE c == cyc[w]
<1>1. pc[w] \in {"count", "link", "pay", "failing"}
  BY DEF CountAttempt, LinkInvoice, MarkPaid, FailCycle
<1>2. c \in DOMAIN cycles BY <1>1 DEF IInv, WorkerInv
<1>3. cycles[c] \in CycleRow BY <1>2, RowTypes DEF IInv
<1>4. PICK row \in CycleRow : /\ row.start = cycles[c].start
                              /\ cycles' = [cycles EXCEPT ![c] = row]
                              /\ FailCycle(w) => row.status = "FAILED"
  <2>1. CASE CountAttempt(w)
    <3> DEFINE row == [cycles[c] EXCEPT !.status = "PROCESSING", !.attempts = @ + 1]
    <3>1. row \in CycleRow /\ row.start = cycles[c].start BY <1>3, RowCounted
    <3>2. cycles' = [cycles EXCEPT ![c] = row] /\ ~FailCycle(w)
      BY <1>2, <2>1 DEF CountAttempt, FailCycle
    <3> HIDE DEF row
    <3> QED BY <3>1, <3>2
  <2>2. CASE LinkInvoice(w)
    <3> DEFINE row == [cycles[c] EXCEPT !.invoice = inv[w]]
    <3>1. inv[w] \in Nat BY DEF IInv, TypeOK
    <3>2. row \in CycleRow /\ row.start = cycles[c].start BY <1>3, <3>1, RowLinked
    <3>3. cycles' = [cycles EXCEPT ![c] = row] /\ ~FailCycle(w)
      BY <1>2, <2>2 DEF LinkInvoice, FailCycle
    <3> HIDE DEF row
    <3> QED BY <3>2, <3>3
  <2>3. CASE MarkPaid(w) \/ FailCycle(w)
    <3>1. PICK status \in {"PAID", "FAILED"} :
            /\ cycles' = [cycles EXCEPT ![c] = [cycles[c] EXCEPT !.status = status]]
            /\ FailCycle(w) => status = "FAILED"
      BY <1>2, <2>3 DEF MarkPaid, FailCycle
    <3> DEFINE row == [cycles[c] EXCEPT !.status = status]
    <3>2. row \in CycleRow /\ row.start = cycles[c].start /\ row.status = status
      <4>1. status \in {"PROCESSING", "PAID", "FAILED"} OBVIOUS
      <4> HIDE DEF c
      <4> QED BY <1>3, <4>1, RowStatus
    <3>3. cycles' = [cycles EXCEPT ![c] = row] BY <3>1
    <3> HIDE DEF row
    <3> QED BY <3>1, <3>2, <3>3
  <2> QED BY <2>1, <2>2, <2>3
<1>5. /\ DOMAIN cycles' = DOMAIN cycles
      /\ \A d \in DOMAIN cycles : cycles'[d] = IF d = c THEN row ELSE cycles[d]
  BY <1>2, <1>4, CycleChanged DEF IInv
<1>6. /\ Others(w) /\ pc'[w] # "create"
      /\ pc'[w] \in Holding => pc[w] \in Holding /\ cyc'[w] = cyc[w]
  <2>1. CASE MarkPaid(w)
    <3>1. EndJob(w) BY <2>1 DEF MarkPaid
    <3> QED BY <3>1, JobEnded DEF Holding
  <2>2. CASE CountAttempt(w) \/ LinkInvoice(w) \/ FailCycle(w)
    BY <2>2 DEF CountAttempt, LinkInvoice, FailCycle, Goto, jobVars, IInv, TypeOK, Others,
                Holding
  <2> QED BY <2>1, <2>2
<1>7. row.status # "FAILED" => Held(c)
  <2>1. pc[w] \in Holding \/ FailCycle(w)
    BY DEF CountAttempt, LinkInvoice, MarkPaid, FailCycle, Holding
  <2> QED BY <1>4, <2>1 DEF Held
<1> HIDE DEF c
<1> QED BY <1>4, <1>5, <1>6, <1>7, RoomStep

LEMMA RoomOutside ==
  ASSUME RoomInv,
         Tick \/ Enqueue \/ StartCancel \/ Cancel \/ StartChange \/ ChangePlan \/ SyncEnd
           \/ (\E t \in Trial..now : SyncPeriod(t)) \/ UNCHANGED vars
  PROVE  RoomInv'
<1>1. UNCHANGED <<cycles, pc, snap, cyc>>
  BY DEF Tick, Enqueue, StartCancel, Cancel, StartChange, ChangePlan, SyncEnd, SyncPeriod,
         vars, workerVars, jobVars
<1>2. \A p : Open(p)' = Open(p) /\ Wanted(p)' = Wanted(p) BY <1>1 DEF Open, Wanted, Held
<1> QED BY <1>2, RoomStays DEF RoomInv

(* Jobs that overlap may make a cycle each, and no more: whatever fails,   *)
(* crashes, is put back in the queue or comes back to a failed cycle, a    *)
(* period has at most one live cycle for every worker.                     *)
THEOREM CyclesBounded == Spec => []CyclesAreBounded
<1>1. Init => RoomInv
  <2> SUFFICES ASSUME Init, NEW p \in Nat PROVE Room(p) BY DEF RoomInv
  <2>1. Open(p) = {} BY DEF Init, Open
  <2> DEFINE f == [c \in Open(p) |-> c]
  <2>2. f \in [Open(p) -> Workers] BY <2>1
  <2> QED BY <2>1, <2>2 DEF Room
<1>2. IInv /\ RoomInv /\ [Next]_vars => RoomInv'
  BY RoomOutside, RoomQuiet, RoomFind, RoomCreate, RoomWrite DEF Next, ProcessRenewal
<1>3. IInv /\ RoomInv => CyclesAreBounded
  <2> SUFFICES ASSUME IInv, RoomInv, NEW c \in DOMAIN cycles
               PROVE  ExistsInjection(Live(cycles[c].start), Workers)
    BY DEF CyclesAreBounded
  <2> DEFINE p == cycles[c].start
  <2>1. p \in Nat BY RowTypes DEF IInv, CycleRow
  <2> HIDE DEF p
  <2>2. PICK f \in [Open(p) -> Workers] : \A a, b \in Open(p) : f[a] = f[b] => a = b
    BY <2>1 DEF RoomInv, Room
  <2>3. Live(p) \subseteq Open(p) BY DEF Live, Open
  <2> DEFINE g == [a \in Live(p) |-> f[a]]
  <2>4. g \in [Live(p) -> Workers] /\ \A a, b \in Live(p) : g[a] = g[b] => a = b
    BY <2>2, <2>3
  <2>5. DOMAIN g = Live(p) OBVIOUS
  <2> HIDE DEF g
  <2>6. IsInjective(g) BY <2>4, <2>5 DEF IsInjective
  <2>7. g \in Injection(Live(p), Workers) BY <2>4, <2>6 DEF Injection
  <2> QED BY <2>7 DEF ExistsInjection, p
<1> QED BY <1>1, <1>2, <1>3, Invariant, PTL DEF Spec
=============================================================================

------------------------------ MODULE Billing ------------------------------
(***************************************************************************)
(* The invoices of one tenant: their numbers and their lifecycle.          *)
(*                                                                         *)
(*   BillingService  createInvoice, generateInvoiceNumber, issueInvoice,   *)
(*                   voidInvoice                                           *)
(*                                                                         *)
(* A number is the month and one more than a count of the tenant's         *)
(* invoices, both read before the insert; a unique index on (tenant,       *)
(* number) refuses the second of two equal ones.  Issuing and voiding read *)
(* the status first and then update the row whatever it holds by then.     *)
(* markPaid has no caller: no invoice becomes PAID.  The amounts are Gst's.*)
(***************************************************************************)
EXTENDS Integers, FiniteSets

CONSTANTS
  Invoices,  \* calls of createInvoice, and the row each may write
  Clerks,    \* callers that issue and void, one call at a time
  None,      \* no invoice
  MaxMonth   \* bound: the months the clock runs through

ASSUME BillingAssumption ==
  /\ IsFiniteSet(Invoices)
  /\ None \notin Invoices
  /\ MaxMonth \in Nat \ {0}

VARIABLES
  month,        \* the calendar
  pc,           \* where a call of createInvoice is
  prefix,       \* the month it read
  seen,         \* the invoices its count has counted
  status,       \* Invoice.status, "NONE" before the row exists
  call, subject, \* what a clerk has checked and is about to write
  crossed       \* the invoices that two clerks have been at work on at once

vars == <<month, pc, prefix, seen, status, call, subject, crossed>>

Created == {i \in Invoices : status[i] # "NONE"}
Serial(i) == Cardinality(seen[i]) + 1

Init ==
  /\ month = 1
  /\ pc = [i \in Invoices |-> "idle"]
  /\ prefix = [i \in Invoices |-> 1]
  /\ seen = [i \in Invoices |-> {}]
  /\ status = [i \in Invoices |-> "NONE"]
  /\ call = [k \in Clerks |-> "idle"]
  /\ subject = [k \in Clerks |-> None]
  /\ crossed = {}

-----------------------------------------------------------------------------
(* createInvoice                                                           *)

(* generateInvoiceNumber: new Date() ...                                   *)
ReadMonth(i) ==
  /\ pc[i] = "idle"
  /\ pc' = [pc EXCEPT ![i] = "counting"]
  /\ prefix' = [prefix EXCEPT ![i] = month]
  /\ UNCHANGED <<month, seen, status, call, subject, crossed>>

(* Mutant: voided invoices are not counted. *)
CountInvoices_NotVoid(i) ==
  /\ pc[i] = "counting"
  /\ pc' = [pc EXCEPT ![i] = "inserting"]
  /\ seen' = [seen EXCEPT ![i] = {j \in Created : status[j] # "VOID"}]
  /\ UNCHANGED <<month, prefix, status, call, subject, crossed>>

(* Mutant: a counter is drawn from, which rolled-back calls have used too. *)
CountInvoices_Started(i) ==
  /\ pc[i] = "counting"
  /\ pc' = [pc EXCEPT ![i] = "inserting"]
  /\ seen' = [seen EXCEPT ![i] = {j \in Invoices : pc[j] \notin {"idle", "counting"}}]
  /\ UNCHANGED <<month, prefix, status, call, subject, crossed>>

(* ... then invoice.count, of all months.                                  *)
CountInvoices(i) ==
  /\ pc[i] = "counting"
  /\ pc' = [pc EXCEPT ![i] = "inserting"]
  /\ seen' = [seen EXCEPT ![i] = Created]
  /\ UNCHANGED <<month, prefix, status, call, subject, crossed>>

NumberTaken(i) == \E j \in Created : prefix[j] = prefix[i] /\ Serial(j) = Serial(i)

(* Mutant: nothing keeps two invoices from having one number. *)
Insert_NoIndex(i) ==
  /\ pc[i] = "inserting"
  /\ pc' = [pc EXCEPT ![i] = "done"]
  /\ status' = [status EXCEPT ![i] = "DRAFT"]
  /\ UNCHANGED <<month, prefix, seen, call, subject, crossed>>

(* The database transaction that writes the invoice and its items.         *)
Insert(i) ==
  /\ pc[i] = "inserting"
  /\ ~NumberTaken(i)
  /\ pc' = [pc EXCEPT ![i] = "done"]
  /\ status' = [status EXCEPT ![i] = "DRAFT"]
  /\ UNCHANGED <<month, prefix, seen, call, subject, crossed>>

(* The unique violation, any other exception of it, or a restart.          *)
CreateFails(i) ==
  /\ pc[i] \in {"counting", "inserting"}
  /\ pc' = [pc EXCEPT ![i] = "thrown"]
  /\ UNCHANGED <<month, prefix, seen, status, call, subject, crossed>>

-----------------------------------------------------------------------------
(* issueInvoice, voidInvoice                                               *)

Begin(k, i, c) ==
  /\ call[k] = "idle"
  /\ call' = [call EXCEPT ![k] = c]
  /\ subject' = [subject EXCEPT ![k] = i]
  /\ crossed' = crossed \cup IF \E l \in Clerks : subject[l] = i THEN {i} ELSE {}
  /\ UNCHANGED <<month, pc, prefix, seen, status>>

(* Mutant: issuing looks for an invoice only, whatever its status. *)
CheckIssue_Any(k, i) == status[i] # "NONE" /\ Begin(k, i, "issuing")

(* findById; only a DRAFT goes on.                                         *)
CheckIssue(k, i) == status[i] = "DRAFT" /\ Begin(k, i, "issuing")

(* findById; anything but a PAID invoice goes on, a voided one too.        *)
CheckVoid(k, i) == status[i] \notin {"NONE", "PAID"} /\ Begin(k, i, "voiding")

(* invoice.update, on whatever the row holds by now.                       *)
UpdateStatus(k) ==
  /\ call[k] \in {"issuing", "voiding"}
  /\ status' = [status EXCEPT ![subject[k]] =
                  IF call[k] = "issuing" THEN "ISSUED" ELSE "VOID"]
  /\ call' = [call EXCEPT ![k] = "idle"]
  /\ subject' = [subject EXCEPT ![k] = None]
  /\ UNCHANGED <<month, pc, prefix, seen, crossed>>

(* The update throws or the process restarts.                              *)
GiveUp(k) ==
  /\ call[k] # "idle"
  /\ call' = [call EXCEPT ![k] = "idle"]
  /\ subject' = [subject EXCEPT ![k] = None]
  /\ UNCHANGED <<month, pc, prefix, seen, status, crossed>>

NextMonth ==
  /\ month < MaxMonth
  /\ month' = month + 1
  /\ UNCHANGED <<pc, prefix, seen, status, call, subject, crossed>>

CreateInvoice(i) == ReadMonth(i) \/ CountInvoices(i) \/ Insert(i) \/ CreateFails(i)
Manage(k) ==
  \/ \E i \in Invoices : CheckIssue(k, i) \/ CheckVoid(k, i)
  \/ UpdateStatus(k) \/ GiveUp(k)

Next ==
  \/ \E i \in Invoices : CreateInvoice(i)
  \/ \E k \in Clerks : Manage(k)
  \/ NextMonth

Spec == Init /\ [][Next]_vars

-----------------------------------------------------------------------------
(* Properties                                                              *)

(* No invoice is PAID: nothing in the repository calls markPaid.           *)
TypeOK ==
  /\ month \in 1..MaxMonth
  /\ pc \in [Invoices -> {"idle", "counting", "inserting", "done", "thrown"}]
  /\ prefix \in [Invoices -> 1..MaxMonth]
  /\ seen \in [Invoices -> SUBSET Invoices]
  /\ status \in [Invoices -> {"NONE", "DRAFT", "ISSUED", "VOID"}]
  /\ call \in [Clerks -> {"idle", "issuing", "voiding"}]
  /\ subject \in [Clerks -> Invoices \cup {None}]
  /\ crossed \subseteq Invoices

(* billing.service.ts, "sequential per tenant": the n invoices of a tenant *)
(* carry the serials 1 to n, none missing and none given twice, although   *)
(* concurrent calls count the same invoices.                               *)
SerialsAreSequential ==
  /\ {Serial(i) : i \in Created} = 1..Cardinality(Created)
  /\ \A i, j \in Created : Serial(i) = Serial(j) => i = j

(* That holds while all invoices are of one month, whatever races or rolls *)
(* back; the unique index compares the month, too, and cannot see further. *)
OneMonth == \A i, j \in Created : prefix[i] = prefix[j]
SequentialInAMonth == OneMonth => SerialsAreSequential

(* Over the months too: an invoice has a higher serial than every invoice  *)
(* that existed when it was numbered.                                      *)
NumbersFollowTime == \A i \in Created : \A j \in seen[i] : Serial(j) < Serial(i)

(* No invoice carries a serial above the count, whatever was rolled back:  *)
(* the number the next call computes is free, and creation never jams.     *)
NextNumberIsFree == \A i \in Created : Serial(i) <= Cardinality(Created)

(* voidInvoice, "no further processing": a voided invoice stays void,      *)
(* unless two clerks have ever been at work on it at once.  issueInvoice   *)
(* updates the row whatever it holds by then, and revives a void invoice.  *)
VoidIsFinalUncrossed ==
  [][\A i \in Invoices \ crossed : status[i] = "VOID" => status'[i] = "VOID"]_status

(* Without the exception this fails: billing_void.cfg.                     *)
VoidIsFinal ==
  [][\A i \in Invoices : status[i] = "VOID" => status'[i] = "VOID"]_status
=============================================================================

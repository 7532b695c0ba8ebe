----------------------------- MODULE SyncProofs -----------------------------
(***************************************************************************)
(* Theorems about Sync, for any number of handlers, changes, rows,         *)
(* cancellations and losses.                                               *)
(***************************************************************************)
EXTENDS Sync, SequenceTheorems, TLAPS

RowStatus == {"TRIALING", "ACTIVE", "PAST_DUE", "CANCELLED"}
Supported(e) == Storable(history[e])

(* The row shows the state that event e tells of.                          *)
Told(r, e) == Complete(history[e]) /\ r.end = history[e].end /\ StatusFor(history[e], r.status)

(* What is known of a handler by where it is.                              *)
JobInv(h) ==
  /\ pc[h] = "idle" <=> job[h] = NoJob
  /\ pc[h] # "idle" => job[h].kind \in {"event", "verify"} /\ job[h].version \in Events
  /\ pc[h] \in {"received", "done", "answering"} => job[h].kind = "event"
  /\ job[h].kind = "event" /\ pc[h] \in {"plan", "find", "update", "create"} =>
       Supported(job[h].version)
  /\ pc[h] \in {"find", "update", "create"} => Complete(history[job[h].version])
  /\ pc[h] = "update" => found[h] \in Mine(h)
  /\ pc[h] = "done" /\ Supported(job[h].version) => job[h].version \in written
  /\ pc[h] = "answering" => job[h].version \in processed

(* An event is answered only when it is marked, and marked only when it    *)
(* has been written to a row, if it can be.                                *)
StoredInv ==
  /\ acked \subseteq processed
  /\ \A e \in processed : Supported(e) => e \in written

CancelInv == cancelling # NobodyCancels => cancels > 0 /\ cancelling.row \in DOMAIN rows

(* Where the events name the tenant, all rows are his.                     *)
OwnInv == named => \A i \in DOMAIN rows : rows[i].tenant = "own"

IInv ==
  /\ TypeOK
  /\ \A h \in Handlers : JobInv(h)
  /\ StoredInv /\ CancelInv /\ RowsAreTold /\ OwnInv

-----------------------------------------------------------------------------
(* What lasts                                                              *)

(* The past of the subscription, the marks and the rows with their tenants *)
(* are only added to.                                                      *)
Lasts ==
  /\ Events \subseteq Events' /\ \A e \in Events : history'[e] = history[e]
  /\ processed \subseteq processed' /\ written \subseteq written'
  /\ UNCHANGED <<named, planned>>
  /\ DOMAIN rows \subseteq DOMAIN rows'
  /\ \A i \in DOMAIN rows : rows'[i].tenant = rows[i].tenant

Same(h) == pc'[h] = pc[h] /\ job'[h] = job[h] /\ found'[h] = found[h]

(* A handler that does not move keeps what is known of it.                 *)
LEMMA OtherHandler ==
  ASSUME TypeOK, TypeOK', Lasts, NEW h \in Handlers, JobInv(h), Same(h)
  PROVE  JobInv(h)'
<1> DEFINE v == job[h].version
<1>1. v \in written => v \in written' BY DEF Lasts
<1>2. v \in Events => /\ v \in Events' /\ (Supported(v) <=> Supported(v)')
                      /\ (Complete(history[v]) <=> Complete(history[v])')
  BY DEF Lasts, Supported, Same, Storable, Complete
<1>3. found[h] \in Mine(h) => (found[h] \in Mine(h))'
  BY DEF Lasts, Same, Mine, Tenant
<1>4. pc[h] # "idle" => v \in Events BY DEF JobInv
<1>5. v \in processed => v \in processed' BY DEF Lasts
<1> QED BY <1>1, <1>2, <1>3, <1>4, <1>5 DEF JobInv, Same, NoJob

(* A row that shows a state goes on to show it.                            *)
LEMMA ToldLasts ==
  ASSUME Lasts, NEW e \in Events, NEW r
  PROVE  Told(r, e) <=> Told(r, e)'
BY DEF Lasts, Told, StatusFor, Complete

LEMMA SupportedLasts ==
  ASSUME Lasts, NEW e \in Events
  PROVE  e \in Events' /\ (Supported(e) <=> Supported(e)')
BY DEF Lasts, Supported, Storable, Complete

(* Rows that stay, or show an event, or were cancelled by a customer.      *)
LEMMA RowsStayTold ==
  ASSUME TypeOK, TypeOK', RowsAreTold, Lasts, cancels' >= cancels,
         \A i \in DOMAIN rows' :
           \/ i \in DOMAIN rows /\ rows'[i] = rows[i]
           \/ \E e \in Events : Told(rows'[i], e)
           \/ rows'[i].status = "CANCELLED" /\ cancels' > 0
  PROVE  RowsAreTold'
<1> SUFFICES ASSUME NEW i \in DOMAIN rows'
             PROVE  \/ \E e \in Events' : Told(rows[i], e)'
                    \/ rows'[i].status = "CANCELLED" /\ cancels' > 0
  BY DEF RowsAreTold, Told, StatusFor, Complete
<1>1. ASSUME NEW e \in Events, Told(rows'[i], e) PROVE \E f \in Events' : Told(rows[i], f)'
  <2>1. e \in Events' /\ history'[e] = history[e] /\ planned' = planned BY DEF Lasts
  <2>2. Told(rows[i], e)' BY <1>1, <2>1 DEF Told, StatusFor, Complete
  <2> QED BY <2>1, <2>2
<1>2. CASE i \in DOMAIN rows /\ rows'[i] = rows[i]
  <2>1. CASE \E e \in Events : Told(rows[i], e) BY <1>1, <1>2, <2>1
  <2>2. CASE rows[i].status = "CANCELLED" /\ cancels > 0 BY <1>2, <2>2 DEF TypeOK
  <2> QED BY <1>2, <2>1, <2>2 DEF RowsAreTold, Told, Complete
<1> QED BY <1>1, <1>2

(* What an update leaves of the rows.                                      *)
LEMMA Rewritten ==
  ASSUME rows \in Seq(Row), NEW i \in DOMAIN rows, NEW s \in RowStatus, NEW e \in Nat,
         rows' = [rows EXCEPT ![i].status = s, ![i].end = e]
  PROVE  /\ rows' \in Seq(Row) /\ DOMAIN rows' = DOMAIN rows
         /\ rows'[i] = [tenant |-> rows[i].tenant, status |-> s, end |-> e]
         /\ \A j \in DOMAIN rows \ {i} : rows'[j] = rows[j]
<1> DEFINE r == [tenant |-> rows[i].tenant, status |-> s, end |-> e]
<1>1. i \in 1..Len(rows) BY LenProperties
<1>2. rows[i] \in Row
  <2>1. rows \in [1..Len(rows) -> Row] BY LenProperties
  <2> QED BY <1>1, <2>1
<1>3. r \in Row BY <1>2 DEF Row, RowStatus
<1>4. rows' = [rows EXCEPT ![i] = r]
  <2>1. ASSUME NEW q \in Row
        PROVE  [[q EXCEPT !.status = s] EXCEPT !.end = e]
                 = [tenant |-> q.tenant, status |-> s, end |-> e]
    <3>1. q = [tenant |-> q.tenant, status |-> q.status, end |-> q.end] BY DEF Row
    <3>2. [q EXCEPT !.status = s] = [tenant |-> q.tenant, status |-> s, end |-> q.end] BY <3>1
    <3>3. [[tenant |-> q.tenant, status |-> s, end |-> q.end] EXCEPT !.end = e]
            = [tenant |-> q.tenant, status |-> s, end |-> e]
      OBVIOUS
    <3> QED BY <3>2, <3>3
  <2>2. rows' = [rows EXCEPT ![i] = [[rows[i] EXCEPT !.status = s] EXCEPT !.end = e]]
    OBVIOUS
  <2> QED BY <1>2, <2>1, <2>2
<1> HIDE DEF r
<1>5. /\ [rows EXCEPT ![i] = r] \in Seq(Row) /\ Len([rows EXCEPT ![i] = r]) = Len(rows)
      /\ \A j \in 1..Len(rows) : [rows EXCEPT ![i] = r][j] = IF j = i THEN r ELSE rows[j]
  BY <1>3, <1>1, ExceptSeq
<1>6. DOMAIN [rows EXCEPT ![i] = r] = DOMAIN rows OBVIOUS
<1> QED BY <1>4, <1>1, <1>5, <1>6, LenProperties DEF r

LEMMA Appended ==
  ASSUME NEW rs \in Seq(Row), NEW r \in Row
  PROVE  /\ Append(rs, r) \in Seq(Row) /\ Append(rs, r) # <<>>
         /\ DOMAIN Append(rs, r) = DOMAIN rs \cup {Len(rs) + 1}
         /\ Append(rs, r)[Len(rs) + 1] = r /\ Len(rs) + 1 \notin DOMAIN rs
         /\ \A j \in DOMAIN rs : Append(rs, r)[j] = rs[j]
<1>1. Len(rs) \in Nat /\ DOMAIN rs = 1..Len(rs) BY LenProperties
<1>2. /\ Append(rs, r) \in Seq(Row) /\ Append(rs, r) # <<>>
      /\ Len(Append(rs, r)) = Len(rs) + 1
      /\ \A j \in 1..Len(rs) : Append(rs, r)[j] = rs[j]
      /\ Append(rs, r)[Len(rs) + 1] = r
  BY AppendProperties
<1>3. DOMAIN Append(rs, r) = 1..(Len(rs) + 1) BY <1>2, LenProperties
<1>4. 1..(Len(rs) + 1) = (1..Len(rs)) \cup {Len(rs) + 1} BY <1>1
<1> QED BY <1>1, <1>2, <1>3, <1>4

-----------------------------------------------------------------------------
(* The inductive invariant                                                 *)

LEMMA InitIInv == Init => IInv
<1> SUFFICES ASSUME Init PROVE IInv OBVIOUS
<1>1. history \in Seq([status : Reported, end : Nat]) /\ DOMAIN history = {} BY DEF Init
<1>2. rows \in Seq(Row) /\ DOMAIN rows = {} BY DEF Init
<1>3. TypeOK
  <2>1. named \in BOOLEAN /\ planned \in BOOLEAN BY Zenon DEF Init
  <2> QED BY <1>1, <1>2, <2>1 DEF Init, TypeOK, NoJob, NobodyCancels
<1>4. \A h \in Handlers : JobInv(h) BY DEF Init, JobInv, NoJob
<1>5. StoredInv /\ CancelInv /\ OwnInv BY <1>2 DEF Init, StoredInv, CancelInv, OwnInv
<1>6. RowsAreTold BY <1>2 DEF RowsAreTold
<1> QED BY <1>3, <1>4, <1>5, <1>6 DEF IInv

(* A step that writes no row keeps what is said of the rows.               *)
LEMMA RowsUntouched ==
  ASSUME IInv, TypeOK', UNCHANGED <<history, named, planned, rows, cancelling, cancels>>,
         processed \subseteq processed', written \subseteq written'
  PROVE  Lasts /\ CancelInv' /\ RowsAreTold' /\ OwnInv'
<1>1. Lasts BY DEF Lasts, Events
<1>2. cancels' >= cancels BY DEF IInv, TypeOK
<1>3. RowsAreTold' BY <1>1, <1>2, RowsStayTold DEF IInv
<1> QED BY <1>1, <1>3 DEF IInv, CancelInv, OwnInv

LEMMA AllHandlers ==
  ASSUME IInv, TypeOK', Lasts, NEW h \in Handlers, JobInv(h)',
         \A g \in Handlers \ {h} : Same(g)
  PROVE  \A g \in Handlers : JobInv(g)'
BY OtherHandler DEF IInv

LEMMA NoHandler ==
  ASSUME IInv, TypeOK', Lasts, UNCHANGED <<pc, job, found>>
  PROVE  \A g \in Handlers : JobInv(g)'
BY OtherHandler DEF IInv, Same

LEMMA ChangeStep ==
  ASSUME IInv, NEW status \in Reported, Change(status)
  PROVE  IInv' /\ Lasts
<1> DEFINE S == [status : Reported, end : Nat]
<1>1. UNCHANGED <<acked, processed, written, rows, planActive, verified, pc, job, found,
                  cancelling, cancels, named, planned, crashes, disturbed>>
  BY DEF Change, handlerVars, cancelVars, auxVars
<1>2. history \in Seq(S) BY DEF IInv, TypeOK
<1>3. \E r \in S : history' = Append(history, r)
  <2>1. PICK end \in 0..(Len(history) + 1) :
          history' = Append(history, [status |-> status, end |-> end])
    BY DEF Change
  <2>2. Len(history) \in Nat BY <1>2, LenProperties
  <2>3. [status |-> status, end |-> end] \in S BY <2>2
  <2> QED BY <2>1, <2>3
<1>4. PICK r \in S : history' = Append(history, r) BY <1>3
<1>5. /\ history' \in Seq(S) /\ Events \subseteq Events'
      /\ \A e \in Events : history'[e] = history[e]
  <2>1. Len(history) \in Nat /\ Events = 1..Len(history) BY <1>2, LenProperties DEF Events
  <2>2. /\ history' \in Seq(S) /\ Len(history') = Len(history) + 1
        /\ \A e \in 1..Len(history) : history'[e] = history[e]
    BY <1>2, <1>4, AppendProperties
  <2>3. Events' = 1..(Len(history) + 1) BY <2>2, LenProperties DEF Events
  <2> QED BY <2>1, <2>2, <2>3
<1>6. TypeOK' BY <1>1, <1>5 DEF IInv, TypeOK
<1>7. Lasts BY <1>1, <1>5 DEF Lasts
<1>8. \A h \in Handlers : JobInv(h)' BY <1>1, <1>6, <1>7, NoHandler
<1>9. StoredInv'
  <2>1. \A e \in processed : e \in Events BY DEF IInv, TypeOK
  <2> QED BY <1>1, <1>7, <2>1, SupportedLasts DEF IInv, StoredInv
<1>10. RowsAreTold'
  <2>1. cancels' >= cancels BY <1>1 DEF IInv, TypeOK
  <2> QED BY <1>1, <1>6, <1>7, <2>1, RowsStayTold DEF IInv
<1>11. CancelInv' /\ OwnInv' BY <1>1 DEF IInv, CancelInv, OwnInv
<1> QED BY <1>6, <1>7, <1>8, <1>9, <1>10, <1>11 DEF IInv

LEMMA CancelStep ==
  ASSUME IInv, DeactivatePlan \/ Cancel \/ \E i \in DOMAIN rows : StartCancel(i)
  PROVE  IInv' /\ Lasts
<1>1. CASE DeactivatePlan
  <2>1. /\ planActive' = FALSE
        /\ UNCHANGED <<history, acked, processed, written, rows, verified, pc, job, found,
                       cancelling, cancels, named, planned, crashes, disturbed>>
    BY <1>1 DEF DeactivatePlan, handlerVars, cancelVars, auxVars
  <2>2. TypeOK' BY <2>1 DEF IInv, TypeOK, Events
  <2>3. Lasts /\ CancelInv' /\ RowsAreTold' /\ OwnInv' BY <2>1, <2>2, RowsUntouched
  <2>4. StoredInv' BY <2>1 DEF IInv, StoredInv, Supported, Storable, Complete
  <2> QED BY <2>1, <2>2, <2>3, <2>4, NoHandler DEF IInv
<1>2. ASSUME NEW i \in DOMAIN rows, StartCancel(i) PROVE IInv' /\ Lasts
  <2>1. /\ cancelling' = [row |-> i, end |-> rows[i].end]
        /\ cancels' = cancels + 1
        /\ UNCHANGED <<history, acked, processed, written, rows, planActive, verified, pc, job,
                       found, named, planned, crashes, disturbed>>
    BY <1>2 DEF StartCancel, handlerVars, auxVars
  <2>2. rows[i].end \in Nat
    <3>1. rows[i] \in Row BY DEF IInv, TypeOK
    <3> QED BY <3>1 DEF Row
  <2>3. cancels' \in Nat /\ cancels' > 0 /\ cancels' >= cancels BY <2>1 DEF IInv, TypeOK
  <2>4. TypeOK' BY <2>1, <2>2, <2>3 DEF IInv, TypeOK, Events
  <2>5. Lasts BY <2>1 DEF Lasts, Events
  <2>6. RowsAreTold' BY <2>1, <2>3, <2>4, <2>5, RowsStayTold DEF IInv
  <2>7. StoredInv' /\ OwnInv' BY <2>1 DEF IInv, StoredInv, Supported, OwnInv, Storable, Complete
  <2>8. CancelInv' BY <2>1, <2>3 DEF CancelInv
  <2> QED BY <2>1, <2>4, <2>5, <2>6, <2>7, <2>8, NoHandler DEF IInv
<1>3. CASE Cancel
  <2>1. PICK i \in DOMAIN rows, end \in Nat :
          rows' = [rows EXCEPT ![i].status = "CANCELLED", ![i].end = end]
    <3>1. cancelling.row \in DOMAIN rows /\ cancelling.end \in Nat
      BY <1>3 DEF Cancel, IInv, CancelInv, TypeOK
    <3>2. PICK end \in {cancelling.end, 0} :
            rows' = [rows EXCEPT ![cancelling.row].status = "CANCELLED",
                                 ![cancelling.row].end = end]
      BY <1>3 DEF Cancel
    <3>3. end \in Nat BY <3>1
    <3> QED BY <3>1, <3>2, <3>3
  <2>2. /\ cancelling' = NobodyCancels
        /\ UNCHANGED <<history, acked, processed, written, planActive, verified, pc, job, found,
                       cancels, named, planned, crashes, disturbed>>
    BY <1>3 DEF Cancel, handlerVars, auxVars
  <2>3. cancels > 0
    BY <1>3 DEF Cancel, IInv, CancelInv, TypeOK
  <2>4. /\ rows' \in Seq(Row) /\ DOMAIN rows' = DOMAIN rows
        /\ rows'[i] = [tenant |-> rows[i].tenant, status |-> "CANCELLED", end |-> end]
        /\ \A j \in DOMAIN rows \ {i} : rows'[j] = rows[j]
    <3>1. rows \in Seq(Row) /\ "CANCELLED" \in RowStatus BY DEF IInv, TypeOK, RowStatus
    <3> QED BY <2>1, <3>1, Rewritten
  <2>5. TypeOK' BY <2>2, <2>4 DEF IInv, TypeOK, NobodyCancels, Events
  <2>6. Lasts BY <2>2, <2>3, <2>4 DEF Lasts, Events
  <2>7. RowsAreTold'
    <3>1. cancels' >= cancels /\ cancels' > 0 BY <2>2, <2>3 DEF IInv, TypeOK
    <3>2. rows'[i].status = "CANCELLED" BY <2>4
    <3> QED BY <2>4, <2>5, <2>6, <3>1, <3>2, RowsStayTold DEF IInv
  <2>8. StoredInv' BY <2>2 DEF IInv, StoredInv, Supported, Storable, Complete
  <2>9. OwnInv' /\ CancelInv' BY <2>2, <2>4, <2>6 DEF IInv, OwnInv, CancelInv, Lasts
  <2> QED BY <2>2, <2>5, <2>6, <2>7, <2>8, <2>9, NoHandler DEF IInv
<1> QED BY <1>1, <1>2, <1>3

(* Where no row is written, it is enough to look at the handler that moves *)
(* and at the marks.                                                       *)
LEMMA QuietStep ==
  ASSUME IInv, TypeOK', NEW h \in Handlers, JobInv(h)', \A g \in Handlers \ {h} : Same(g),
         UNCHANGED <<history, named, planned, rows, cancelling, cancels>>,
         processed \subseteq processed', acked' \subseteq processed', UNCHANGED written,
         \A e \in processed' : Supported(e) => e \in written
  PROVE  IInv' /\ Lasts
<1>1. Lasts /\ CancelInv' /\ RowsAreTold' /\ OwnInv' BY RowsUntouched
<1>2. \A g \in Handlers : JobInv(g)' BY <1>1, AllHandlers
<1>3. StoredInv' BY DEF StoredInv, Supported, Storable, Complete
<1> QED BY <1>1, <1>2, <1>3 DEF IInv

Ending(h) == pc'[h] = "idle" /\ job'[h] = NoJob /\ found'[h] = 0

LEMMA EndJobFrame ==
  ASSUME TypeOK, NEW h \in Handlers, EndJob(h)
  PROVE  /\ Ending(h) /\ \A g \in Handlers \ {h} : Same(g)
         /\ pc' \in [Handlers -> {"idle", "received", "plan", "find", "update", "create",
                                  "done", "answering"}]
         /\ job' \in [Handlers -> [kind : {"none", "event", "verify"}, version : {0} \cup Events]]
         /\ found' \in [Handlers -> {0} \cup DOMAIN rows]
BY DEF TypeOK, EndJob, Goto, NoJob, Ending, Same

LEMMA EndedJob ==
  ASSUME NEW h \in Handlers, Ending(h)
  PROVE  JobInv(h)'
BY DEF Ending, JobInv, NoJob

LEMMA StartStep ==
  ASSUME IInv, NEW h \in Handlers, (\E e \in Events : Receive(h, e)) \/ StartVerify(h)
  PROVE  IInv' /\ Lasts
<1>1. \E k \in {"event", "verify"}, e \in Events :
        /\ job' = [job EXCEPT ![h] = [kind |-> k, version |-> e]]
        /\ pc' = [pc EXCEPT ![h] = IF k = "event" THEN "received" ELSE "plan"]
  <2>1. CASE \E e \in Events : Receive(h, e) BY <2>1 DEF Receive, Goto
  <2>2. CASE StartVerify(h)
    <3>1. Len(history) \in Events
      BY <2>2, LenProperties, EmptySeq DEF StartVerify, IInv, TypeOK, Events
    <3> QED BY <2>2, <3>1 DEF StartVerify, Goto
  <2> QED BY <2>1, <2>2
<1>2. PICK k \in {"event", "verify"}, e \in Events :
        /\ job' = [job EXCEPT ![h] = [kind |-> k, version |-> e]]
        /\ pc' = [pc EXCEPT ![h] = IF k = "event" THEN "received" ELSE "plan"]
  BY <1>1
<1>3. /\ UNCHANGED <<history, acked, processed, written, rows, planActive, verified, found,
                    cancelling, cancels, named, planned, crashes>>
      /\ disturbed' \in BOOLEAN
  BY DEF Receive, StartVerify, cancelVars, IInv, TypeOK
<1>4. TypeOK'
  <2>1. job' \in [Handlers -> [kind : {"none", "event", "verify"}, version : {0} \cup Events]]
    BY <1>2 DEF IInv, TypeOK
  <2> QED BY <1>2, <1>3, <2>1 DEF IInv, TypeOK, Events
<1>5. JobInv(h)'
  <2>1. 0 \notin Events BY DEF IInv, TypeOK, Events
  <2>2. job'[h] = [kind |-> k, version |-> e]
        /\ pc'[h] = IF k = "event" THEN "received" ELSE "plan"
    BY <1>2 DEF IInv, TypeOK
  <2>3. Events' = Events BY <1>3 DEF Events
  <2> QED BY <2>1, <2>2, <2>3 DEF JobInv, NoJob
<1>6. \A g \in Handlers \ {h} : Same(g) BY <1>2, <1>3 DEF IInv, TypeOK, Same
<1> QED BY <1>3, <1>4, <1>5, <1>6, QuietStep DEF IInv, StoredInv

LEMMA MoveStep ==
  ASSUME IInv, NEW h \in Handlers,
         \/ SkipDuplicate(h) \/ Accept(h) \/ SkipSync(h) \/ CheckPlan(h)
         \/ FindRow(h) \/ Crash(h)
  PROVE  IInv' /\ Lasts
<1> USE DEF Goto
<1>1. UNCHANGED <<history, acked, processed, written, rows, planActive,
                  cancelling, cancels, named, planned, disturbed>>
  BY DEF SkipDuplicate, Accept, SkipSync, CheckPlan, FindRow, Find, Crash, cancelVars, auxVars
<1>2. crashes' \in Nat /\ (verified' = verified \/ verified' = TRUE)
  BY DEF SkipDuplicate, Accept, SkipSync, CheckPlan, FindRow, Find, Crash, auxVars, IInv, TypeOK
<1>3. JobInv(h) /\ TypeOK BY DEF IInv
<1>4. ASSUME EndJob(h) PROVE IInv' /\ Lasts
  <2>1. Ending(h) /\ \A g \in Handlers \ {h} : Same(g) BY <1>3, <1>4, EndJobFrame
  <2>2. TypeOK' BY <1>1, <1>2, <1>3, <1>4, EndJobFrame DEF TypeOK, Events
  <2> QED BY <1>1, <2>1, <2>2, EndedJob, QuietStep DEF IInv, StoredInv
<1>5. ASSUME NEW label \in {"received", "plan", "find", "update", "create", "done", "answering"},
             pc' = [pc EXCEPT ![h] = label], job' = job,
             found' = found \/ \E i \in DOMAIN rows : found' = [found EXCEPT ![h] = i],
             JobInv(h)'
      PROVE  IInv' /\ Lasts
  <2>1. TypeOK'
    <3>1. pc' \in [Handlers -> {"idle", "received", "plan", "find", "update", "create", "done",
                                "answering"}]
      BY <1>3, <1>5 DEF TypeOK
    <3>2. found' \in [Handlers -> {0} \cup DOMAIN rows] BY <1>3, <1>5 DEF TypeOK
    <3>3. crashes' \in Nat /\ verified' \in BOOLEAN BY <1>2, <1>3 DEF TypeOK
    <3> QED BY <1>1, <1>3, <1>5, <3>1, <3>2, <3>3 DEF TypeOK, Events
  <2>2. \A g \in Handlers \ {h} : Same(g) BY <1>3, <1>5 DEF TypeOK, Same
  <2> QED BY <1>1, <1>5, <2>1, <2>2, QuietStep DEF IInv, StoredInv
<1>6. CASE SkipDuplicate(h)
  <2>1. pc' = [pc EXCEPT ![h] = "answering"] /\ UNCHANGED <<job, found>>
        /\ pc[h] = "received" /\ job[h].version \in processed
    BY <1>6 DEF SkipDuplicate, IsDuplicate
  <2>2. JobInv(h)' BY <1>1, <1>3, <2>1 DEF JobInv, TypeOK, Events
  <2> QED BY <1>5, <2>1, <2>2
<1>7. CASE Accept(h)
  <2> DEFINE label == IF Supported(job[h].version) THEN "plan" ELSE "done"
  <2>1. pc' = [pc EXCEPT ![h] = label] /\ UNCHANGED <<job, found>> /\ pc[h] = "received"
    BY <1>7 DEF Accept, Supported, State, Storable, Complete
  <2>2. JobInv(h)' BY <1>1, <1>3, <2>1 DEF JobInv, TypeOK, Events, Supported, Storable, Complete
  <2> QED BY <1>5, <2>1, <2>2
<1>8. CASE CheckPlan(h)
  <2>1. CASE planActive
    <3>1. pc' = [pc EXCEPT ![h] = "find"] /\ UNCHANGED <<job, found>> /\ pc[h] = "plan"
          /\ Complete(history[job[h].version])
      BY <1>8, <2>1 DEF CheckPlan, State
    <3>2. JobInv(h)'
      BY <1>1, <1>3, <3>1 DEF JobInv, TypeOK, Events, Supported, Storable, Complete
    <3> QED BY <1>5, <3>1, <3>2
  <2>2. CASE ~planActive BY <1>4, <1>8, <2>2 DEF CheckPlan
  <2> QED BY <2>1, <2>2
<1>9. CASE FindRow(h)
  <2>1. UNCHANGED job /\ pc[h] = "find" BY <1>9 DEF FindRow, Find
  <2>2. CASE pc' = [pc EXCEPT ![h] = "create"] /\ UNCHANGED found
    <3>1. JobInv(h)'
      BY <1>1, <1>3, <2>1, <2>2 DEF JobInv, TypeOK, Events, Supported, Storable, Complete
    <3> QED BY <1>5, <2>1, <2>2, <3>1
  <2>3. ASSUME NEW i \in Mine(h), pc' = [pc EXCEPT ![h] = "update"],
               found' = [found EXCEPT ![h] = i]
        PROVE  IInv' /\ Lasts
    <3>1. i \in DOMAIN rows BY DEF Mine
    <3>2. (found[h] \in Mine(h))'
      BY <1>1, <1>3, <2>1, <2>3 DEF TypeOK, Mine, Tenant
    <3>3. JobInv(h)'
      BY <1>1, <1>3, <2>1, <2>3, <3>2 DEF JobInv, TypeOK, Events, Supported, Storable, Complete
    <3> QED BY <1>5, <2>1, <2>3, <3>1, <3>3
  <2> QED BY <1>9, <2>2, <2>3 DEF FindRow, Find
<1>10. CASE Crash(h) BY <1>4, <1>10 DEF Crash
<1>11. CASE SkipSync(h) BY <1>4, <1>11 DEF SkipSync
<1> QED BY <1>6, <1>7, <1>8, <1>9, <1>10, <1>11

LEMMA EndStep ==
  ASSUME IInv, NEW h \in Handlers, MarkProcessed(h) \/ Respond(h)
  PROVE  IInv' /\ Lasts
<1>1. JobInv(h) /\ TypeOK /\ StoredInv BY DEF IInv
<1>2. CASE MarkProcessed(h)
  <2> DEFINE v == job[h].version
  <2>1. /\ pc[h] = "done" /\ pc' = [pc EXCEPT ![h] = "answering"]
        /\ processed' = processed \cup {v}
        /\ UNCHANGED <<history, acked, written, rows, planActive, verified, job, found,
                       cancelling, cancels, named, planned, crashes, disturbed>>
    BY <1>2 DEF MarkProcessed, Goto, cancelVars, auxVars
  <2>2. v \in Events /\ (Supported(v) => v \in written) BY <1>1, <2>1 DEF JobInv
  <2>3. TypeOK' BY <1>1, <2>1, <2>2 DEF TypeOK, Events
  <2>4. JobInv(h)' BY <1>1, <2>1 DEF JobInv, TypeOK, Events
  <2>5. \A g \in Handlers \ {h} : Same(g) BY <1>1, <2>1 DEF TypeOK, Same
  <2> QED BY <1>1, <2>1, <2>2, <2>3, <2>4, <2>5, QuietStep DEF StoredInv
<1>3. CASE Respond(h)
  <2> DEFINE v == job[h].version
  <2>1. /\ pc[h] = "answering" /\ EndJob(h)
        /\ acked' = acked \cup {v}
        /\ UNCHANGED <<history, processed, written, rows, planActive, verified,
                       cancelling, cancels, named, planned, crashes, disturbed>>
    BY <1>3 DEF Respond, cancelVars, auxVars
  <2>2. v \in processed /\ v \in Events BY <1>1, <2>1 DEF JobInv
  <2>3. Ending(h) /\ \A g \in Handlers \ {h} : Same(g) BY <1>1, <2>1, EndJobFrame
  <2>4. TypeOK' BY <1>1, <2>1, <2>2, EndJobFrame DEF TypeOK, Events
  <2>5. JobInv(h)' BY <2>3, EndedJob
  <2> QED BY <1>1, <2>1, <2>2, <2>3, <2>4, <2>5, QuietStep DEF StoredInv
<1> QED BY <1>2, <1>3

(* What a handler writes: row i, which is its tenant's, and the state of   *)
(* its job.                                                                *)
Wrote(h, i) ==
  /\ rows' \in Seq(Row) /\ DOMAIN rows' = DOMAIN rows \cup {i}
  /\ i \in DOMAIN rows => rows[i].tenant = Tenant(h)
  /\ i \in DOMAIN rows <=> pc[h] = "update"
  /\ rows'[i].tenant = Tenant(h) /\ Told(rows'[i], job[h].version)
  /\ \A j \in DOMAIN rows : j # i => rows'[j] = rows[j]

LEMMA Writes ==
  ASSUME IInv, NEW h \in Handlers, UpdateRow(h) \/ CreateRow(h)
  PROVE  \E i \in DOMAIN rows' : Wrote(h, i)
<1> DEFINE v == job[h].version
<1>1. JobInv(h) /\ TypeOK BY DEF IInv
<1>2. v \in Events /\ State(h) = history[v] /\ Complete(history[v])
  BY <1>1 DEF JobInv, UpdateRow, CreateRow, State
<1>3. State(h).end \in Nat
  <2>1. history \in Seq([status : Reported, end : Nat]) /\ v \in 1..Len(history)
    BY <1>1, <1>2, LenProperties DEF TypeOK, Events
  <2>2. history[v] \in [status : Reported, end : Nat] BY <2>1, ElementOfSeq
  <2> QED BY <1>2, <2>2
<1>4. Tenant(h) \in {"own", "default"} BY DEF Tenant
<1>5. PICK s \in RowStatus :
        /\ StatusFor(State(h), s)
        /\ \/ /\ pc[h] = "update"
              /\ rows' = [rows EXCEPT ![found[h]].status = s, ![found[h]].end = State(h).end]
           \/ /\ pc[h] = "create"
              /\ rows' = Append(rows, [tenant |-> Tenant(h), status |-> s, end |-> State(h).end])
  BY DEF UpdateRow, CreateRow, RowStatus
<1>6. CASE pc[h] = "update"
  <2> DEFINE i == found[h]
  <2>1. i \in DOMAIN rows /\ rows[i].tenant = Tenant(h) BY <1>1, <1>6 DEF JobInv, Mine
  <2>2. rows' = [rows EXCEPT ![i].status = s, ![i].end = State(h).end] BY <1>5, <1>6
  <2>3. /\ rows' \in Seq(Row) /\ DOMAIN rows' = DOMAIN rows
        /\ rows'[i] = [tenant |-> rows[i].tenant, status |-> s, end |-> State(h).end]
        /\ \A j \in DOMAIN rows \ {i} : rows'[j] = rows[j]
    <3>1. rows \in Seq(Row) BY <1>1 DEF TypeOK
    <3> HIDE DEF i
    <3> QED BY <2>1, <2>2, <3>1, <1>3, <1>5, Rewritten
  <2> HIDE DEF i
  <2>4. Told(rows'[i], v) /\ rows'[i].tenant = Tenant(h) BY <2>1, <2>3, <1>2, <1>5 DEF Told
  <2>5. DOMAIN rows' = DOMAIN rows \cup {i} /\ \A j \in DOMAIN rows : j # i => rows'[j] = rows[j]
    BY <2>1, <2>3
  <2>6. Wrote(h, i) BY <1>6, <2>1, <2>3, <2>4, <2>5 DEF Wrote
  <2> QED BY <2>1, <2>3, <2>6
<1>7. CASE pc[h] = "create"
  <2> DEFINE i == Len(rows) + 1
             r == [tenant |-> Tenant(h), status |-> s, end |-> State(h).end]
  <2>1. r \in Row BY <1>3, <1>4, <1>5 DEF Row, RowStatus
  <2>2. rows' = Append(rows, r) BY <1>5, <1>7
  <2> HIDE DEF r
  <2>3. /\ rows' \in Seq(Row) /\ DOMAIN rows' = DOMAIN rows \cup {i}
        /\ rows'[i] = r /\ i \notin DOMAIN rows
        /\ \A j \in DOMAIN rows : rows'[j] = rows[j]
    BY <1>1, <2>1, <2>2, Appended DEF TypeOK
  <2> HIDE DEF i
  <2>4. Told(rows'[i], v) /\ rows'[i].tenant = Tenant(h) BY <2>3, <1>2, <1>5 DEF Told, r
  <2> QED BY <1>7, <2>3, <2>4 DEF Wrote
<1> QED BY <1>5, <1>6, <1>7

LEMMA WriteStep ==
  ASSUME IInv, NEW h \in Handlers, UpdateRow(h) \/ CreateRow(h)
  PROVE  IInv' /\ Lasts
<1> DEFINE v == job[h].version
<1>1. JobInv(h) /\ TypeOK BY DEF IInv
<1>2. PICK i \in DOMAIN rows' : Wrote(h, i) BY Writes
<1>3. /\ UNCHANGED <<history, acked, processed, planActive, cancelling, cancels,
                    named, planned, crashes, disturbed>>
      /\ Written(h) /\ pc[h] \in {"update", "create"}
  BY DEF UpdateRow, CreateRow, cancelVars, auxVars
<1>4. v \in Events /\ job[h].kind \in {"event", "verify"} BY <1>1, <1>3 DEF JobInv
<1>5. Lasts
  <2>1. written \subseteq written' BY <1>3 DEF Written
  <2> QED BY <1>2, <1>3, <2>1 DEF Wrote, Lasts, Events
<1>6. written' = IF job[h].kind = "event" THEN written \cup {v} ELSE written
  BY <1>3 DEF Written
<1>7. TypeOK' /\ JobInv(h)' /\ \A g \in Handlers \ {h} : Same(g)
  <2>1. rows' \in Seq(Row) /\ DOMAIN rows \subseteq DOMAIN rows' /\ Events' = Events
    BY <1>2, <1>3 DEF Wrote, Events
  <2>2. CASE job[h].kind = "event"
    <3>1. pc' = [pc EXCEPT ![h] = "done"] /\ UNCHANGED <<job, found, verified>>
      BY <1>3, <2>2 DEF Written, Goto
    <3>2. TypeOK' BY <1>1, <1>3, <1>4, <1>6, <2>1, <3>1 DEF TypeOK
    <3>3. JobInv(h)' BY <1>1, <1>3, <1>4, <1>6, <2>1, <2>2, <3>1 DEF JobInv, TypeOK, NoJob
    <3> QED BY <1>1, <3>1, <3>2, <3>3 DEF TypeOK, Same
  <2>3. CASE job[h].kind = "verify"
    <3>1. EndJob(h) /\ verified' = TRUE BY <1>3, <2>3 DEF Written
    <3>2. TypeOK' BY <1>1, <1>3, <1>6, <2>1, <2>3, <3>1, EndJobFrame DEF TypeOK
    <3> QED BY <1>1, <3>1, <3>2, EndJobFrame, EndedJob
  <2> QED BY <1>4, <2>2, <2>3
<1>8. \A g \in Handlers : JobInv(g)' BY <1>5, <1>7, AllHandlers
<1>9. StoredInv' BY <1>3, <1>5 DEF IInv, StoredInv, Lasts, Supported, Storable, Complete
<1>10. RowsAreTold'
  <2>1. cancels' >= cancels BY <1>1, <1>3 DEF TypeOK
  <2>2. \A j \in DOMAIN rows' : (j \in DOMAIN rows /\ rows'[j] = rows[j]) \/ Told(rows'[j], v)
    BY <1>2 DEF Wrote
  <2> QED BY <1>1, <1>4, <1>5, <1>7, <2>1, <2>2, RowsStayTold DEF IInv
<1>11. OwnInv'
  <2>1. named => Tenant(h) = "own" BY DEF Tenant
  <2> QED BY <1>2, <1>3, <2>1 DEF Wrote, IInv, OwnInv
<1>12. CancelInv' BY <1>3, <1>5 DEF IInv, CancelInv, Lasts
<1> QED BY <1>7, <1>8, <1>9, <1>10, <1>11, <1>12, <1>5 DEF IInv

LEMMA StepIInv ==
  ASSUME IInv, [Next]_vars
  PROVE  IInv' /\ Lasts
<1>1. CASE \E status \in Reported : Change(status) BY <1>1, ChangeStep
<1>2. CASE DeactivatePlan \/ Cancel \/ \E i \in DOMAIN rows : StartCancel(i)
  BY <1>2, CancelStep
<1>3. ASSUME NEW h \in Handlers,
             (\E e \in Events : Receive(h, e)) \/ StartVerify(h) \/ Work(h) \/ Crash(h)
      PROVE  IInv' /\ Lasts
  BY <1>3, StartStep, MoveStep, WriteStep, EndStep DEF Work
<1>4. CASE UNCHANGED vars
  <2>1. UNCHANGED <<history, acked, processed, written, rows, planActive, verified, pc, job, found,
                    cancelling, cancels, named, planned, crashes, disturbed>>
    BY <1>4 DEF vars, handlerVars, cancelVars, auxVars
  <2>2. TypeOK' BY <2>1 DEF IInv, TypeOK, Events
  <2>3. Lasts /\ CancelInv' /\ RowsAreTold' /\ OwnInv' BY <2>1, <2>2, RowsUntouched
  <2>4. StoredInv' BY <2>1 DEF IInv, StoredInv, Supported, Storable, Complete
  <2> QED BY <2>1, <2>2, <2>3, <2>4, NoHandler DEF IInv
<1> QED BY <1>1, <1>2, <1>3, <1>4 DEF Next

(* The inductive invariant holds in every behaviour.                       *)
THEOREM Invariant == Spec => []IInv
<1>1. IInv /\ [Next]_vars => IInv' BY StepIInv
<1> QED BY InitIInv, <1>1, PTL DEF Spec

(* The variables keep their types, and jobs, found rows and cancellations  *)
(* point at events and rows that exist.                                    *)
THEOREM SyncTypeCorrect == Spec => []TypeOK
<1>1. IInv => TypeOK BY DEF IInv
<1> QED BY Invariant, <1>1, PTL

(* However deliveries and verifications interleave and wherever a handler  *)
(* dies, no row of syncExternalSubscription mixes two of the provider's    *)
(* states.                                                                 *)
THEOREM RowsTold == Spec => []RowsAreTold
<1>1. IInv => RowsAreTold BY DEF IInv
<1> QED BY Invariant, <1>1, PTL

(* handleStripeWebhook and handleRazorpayWebhook answer, or skip as a      *)
(* duplicate, no event that could be stored and that none of its own       *)
(* deliveries has written to a row.                                        *)
THEOREM AcknowledgedStored == Spec => []AcknowledgedIsStored
<1>1. IInv => AcknowledgedIsStored
  BY DEF IInv, StoredInv, AcknowledgedIsStored, Supported, Storable, Complete
<1> QED BY Invariant, <1>1, PTL

-----------------------------------------------------------------------------
(* One row, while deliveries take turns                                    *)

Alone == \A g, h \in Handlers : pc[g] # "idle" /\ pc[h] # "idle" => g = h
Serial ==
  /\ Alone
  /\ \A h \in Handlers : pc[h] = "create" => Mine(h) = {}
  /\ OneRow
OneInv == ~disturbed => Serial

LEMMA InitOneInv == Init => OneInv
<1> SUFFICES ASSUME Init PROVE OneInv OBVIOUS
<1>1. DOMAIN rows = {} BY DEF Init
<1> QED BY <1>1 DEF Init, OneInv, Serial, Alone, OneRow

(* What a handler's step leaves alone, whichever it is.                    *)
LEMMA WorkFrame ==
  ASSUME IInv, NEW h \in Handlers, Work(h) \/ Crash(h)
  PROVE  /\ pc[h] # "idle"
         /\ UNCHANGED <<history, named, planned, disturbed, cancels>>
         /\ \A g \in Handlers \ {h} : Same(g)
<1> USE DEF Goto, IInv, TypeOK, Same
<1>1. CASE SkipDuplicate(h) BY <1>1 DEF SkipDuplicate, auxVars, cancelVars
<1>2. CASE Accept(h) BY <1>2 DEF Accept, auxVars, cancelVars
<1>3. CASE CheckPlan(h) BY <1>3, EndJobFrame DEF CheckPlan, auxVars, cancelVars
<1>4. CASE FindRow(h) BY <1>4 DEF FindRow, Find, auxVars, cancelVars
<1>5. CASE UpdateRow(h) \/ CreateRow(h)
  BY <1>5, EndJobFrame DEF UpdateRow, CreateRow, Written, auxVars, cancelVars
<1>6. CASE MarkProcessed(h) BY <1>6 DEF MarkProcessed, auxVars, cancelVars
<1>7. CASE Respond(h) BY <1>7, EndJobFrame DEF Respond, auxVars, cancelVars
<1>8. CASE Crash(h) BY <1>8, EndJobFrame DEF Crash, auxVars, cancelVars
<1>9. CASE SkipSync(h) BY <1>9, EndJobFrame DEF SkipSync, auxVars, cancelVars
<1> QED BY <1>1, <1>2, <1>3, <1>4, <1>5, <1>6, <1>7, <1>8, <1>9 DEF Work

(* What the provider, the administrator and the customer leave alone.      *)
LEMMA OutsideFrame ==
  ASSUME IInv,
         \/ \E status \in Reported : Change(status)
         \/ DeactivatePlan \/ Cancel \/ \E i \in DOMAIN rows : StartCancel(i)
  PROVE  /\ UNCHANGED <<pc, job, found, named, disturbed, processed>>
         /\ DOMAIN rows' = DOMAIN rows
         /\ rows' = rows \/ cancels' > 0
         /\ cancels' >= cancels
<1>1. CASE Cancel
  <2>1. cancels > 0 BY <1>1 DEF Cancel, IInv, CancelInv, TypeOK
  <2> QED BY <1>1, <2>1 DEF Cancel, handlerVars, auxVars, IInv, TypeOK
<1>2. CASE (\E status \in Reported : Change(status)) \/ DeactivatePlan
  <2>1. UNCHANGED <<pc, job, found, named, disturbed, processed, written, rows, cancels>>
    BY <1>2 DEF Change, DeactivatePlan, handlerVars, cancelVars, auxVars
  <2> QED BY <2>1 DEF IInv, TypeOK
<1>3. ASSUME NEW i \in DOMAIN rows, StartCancel(i)
      PROVE  cancels' > 0 /\ cancels' >= cancels
             /\ UNCHANGED <<pc, job, found, named, disturbed, processed, rows>>
  <2>1. cancels' = cancels + 1 /\ cancels \in Nat BY <1>3 DEF StartCancel, IInv, TypeOK
  <2> QED BY <1>3, <2>1 DEF StartCancel, handlerVars, auxVars
<1> QED BY <1>1, <1>2, <1>3

LEMMA OneInvStep ==
  ASSUME IInv, OneInv, [Next]_vars
  PROVE  OneInv'
<1> SUFFICES ASSUME ~disturbed' PROVE Serial' BY DEF OneInv
<1>1. TypeOK /\ TypeOK' /\ Lasts /\ OwnInv' BY StepIInv DEF IInv
<1>2. ASSUME UNCHANGED <<pc, job, named, disturbed>>, DOMAIN rows' = DOMAIN rows
      PROVE  Serial'
  <2>1. Serial BY <1>2 DEF OneInv
  <2>2. \A i \in DOMAIN rows : rows'[i].tenant = rows[i].tenant BY <1>1 DEF Lasts
  <2>3. \A h \in Handlers : Mine(h)' = Mine(h) BY <1>2, <2>2 DEF Mine, Tenant
  <2> QED BY <1>2, <2>1, <2>2, <2>3 DEF Serial, Alone, OneRow
<1>3. CASE \/ \E status \in Reported : Change(status)
           \/ DeactivatePlan \/ Cancel \/ \E i \in DOMAIN rows : StartCancel(i)
  BY <1>2, <1>3, OutsideFrame
<1>4. ASSUME NEW h \in Handlers, (\E e \in Events : Receive(h, e)) \/ StartVerify(h)
      PROVE  Serial'
  <2>1. /\ ~disturbed /\ ~Busy /\ rows' = rows /\ named' = named
        /\ \E label \in {"received", "plan"} : pc' = [pc EXCEPT ![h] = label]
    BY <1>4 DEF Receive, StartVerify, Goto
  <2>2. \A g \in Handlers : pc[g] = "idle" BY <2>1 DEF Busy
  <2>3. \A g \in Handlers \ {h} : pc'[g] = "idle" BY <1>1, <2>1, <2>2 DEF TypeOK
  <2>4. pc'[h] \in {"received", "plan"} BY <1>1, <2>1 DEF TypeOK
  <2>5. Alone' BY <2>3 DEF Alone
  <2> QED BY <2>1, <2>3, <2>4, <2>5 DEF OneInv, Serial, OneRow
<1>5. ASSUME NEW h \in Handlers, Work(h) \/ Crash(h)
      PROVE  Serial'
  <2>1. /\ pc[h] # "idle" /\ UNCHANGED <<named, disturbed>>
        /\ \A g \in Handlers \ {h} : Same(g)
    BY <1>5, WorkFrame
  <2>2. Serial BY <2>1 DEF OneInv
  <2>3. \A g \in Handlers \ {h} : pc'[g] = "idle" BY <2>1, <2>2 DEF Serial, Alone, Same
  <2>4. Alone' BY <2>3 DEF Alone
  <2>5. pc'[h] = "create" => (Mine(h) = {})'
    <3>1. pc'[h] = "create" => FindRow(h)
      BY <1>1, <1>5, EndJobFrame
      DEF Work, Crash, SkipDuplicate, Accept, SkipSync, CheckPlan, UpdateRow, CreateRow, Written,
          MarkProcessed, Respond, Goto, Ending, TypeOK
    <3>2. ASSUME FindRow(h), pc'[h] = "create" PROVE (Mine(h) = {})'
      <4>1. Mine(h) = {} /\ UNCHANGED <<rows, job, named>>
        BY <1>1, <3>2 DEF FindRow, Find, Goto, auxVars, TypeOK
      <4> QED BY <4>1 DEF Mine, Tenant
    <3> QED BY <3>1, <3>2
  <2>6. OneRow'
    <3>1. CASE UNCHANGED rows BY <2>1, <2>2, <3>1 DEF Serial, OneRow
    <3>2. CASE UpdateRow(h) \/ CreateRow(h)
      <4>1. PICK i \in DOMAIN rows' : Wrote(h, i) BY <3>2, Writes
      <4>2. pc[h] \in {"update", "create"} BY <3>2 DEF UpdateRow, CreateRow
      <4>3. CASE pc[h] = "update"
        BY <1>1, <2>1, <2>2, <4>1, <4>3 DEF Wrote, Lasts, Serial, OneRow
      <4>4. CASE pc[h] = "create"
        <5>1. \A j \in DOMAIN rows : rows[j].tenant # Tenant(h)
          BY <2>2, <4>4 DEF Serial, Mine
        <5>2. ASSUME NEW j \in DOMAIN rows', rows'[j].tenant = Tenant(h) PROVE j = i
          BY <4>1, <4>4, <5>1, <5>2 DEF Wrote
        <5>3. CASE named
          BY <1>1, <2>1, <5>2, <5>3 DEF OwnInv, OneRow, Tenant
        <5>4. CASE ~named
          <6> SUFFICES ASSUME NEW j \in DOMAIN rows', NEW k \in DOMAIN rows',
                              rows'[j].tenant = rows'[k].tenant
                       PROVE  j = k
            BY <2>1, <5>4 DEF OneRow
          <6>1. CASE rows'[j].tenant = Tenant(h) BY <5>2, <6>1
          <6>2. CASE rows'[j].tenant # Tenant(h)
            <7>1. j # i /\ k # i BY <4>1, <6>2 DEF Wrote
            <7>2. rows[j].tenant = rows[k].tenant /\ j \in DOMAIN rows /\ k \in DOMAIN rows
              BY <4>1, <7>1 DEF Wrote
            <7> QED BY <2>2, <7>2 DEF Serial, OneRow
          <6> QED BY <6>1, <6>2
        <5> QED BY <5>3, <5>4
      <4> QED BY <4>2, <4>3, <4>4
    <3>3. UNCHANGED rows \/ UpdateRow(h) \/ CreateRow(h)
      BY <1>5 DEF Work, Crash, SkipDuplicate, Accept, SkipSync, CheckPlan, FindRow, Find,
                  MarkProcessed, Respond
    <3> QED BY <3>1, <3>2, <3>3
  <2> QED BY <2>3, <2>4, <2>5, <2>6 DEF Serial
<1>6. CASE UNCHANGED vars
  BY <1>2, <1>6 DEF vars, handlerVars, auxVars
<1> QED BY <1>3, <1>4, <1>5, <1>6 DEF Next

(* As long as no delivery overlaps another handler or overtakes an event,  *)
(* findFirst and create make no second row of a subscription for a tenant, *)
(* however often an event is delivered, a handler dies or a customer       *)
(* cancels.                                                                *)
THEOREM OneRowWhenSerial == Spec => []OneRowInTurn
<1>1. IInv /\ OneInv /\ [Next]_vars => OneInv' BY OneInvStep
<1>2. OneInv => OneRowInTurn BY DEF OneInv, Serial, OneRowInTurn
<1> QED BY Invariant, InitOneInv, <1>1, <1>2, PTL DEF Spec

-----------------------------------------------------------------------------
(* The row mirrors the subscription, while deliveries take turns and an    *)
(* event that comes again is known                                         *)

(* Row i shows event e, or one after it.                                   *)
TellsSince(i, e) == \E v \in Events : v >= e /\ Told(rows[i], v)
Theirs == {i \in DOMAIN rows : rows[i].tenant = EventTenant}

(* A handler of an event comes after all events before it, and writes only *)
(* if the event is not marked; a verification has the state after them.    *)
Turn(h) ==
  /\ job[h].kind = "event" => 1..(job[h].version - 1) \subseteq processed
  /\ job[h].kind = "event" /\ pc[h] \in {"plan", "find", "update", "create", "done"} =>
       job[h].version \notin processed
  /\ job[h].kind = "verify" => \A e \in processed : e <= job[h].version
  /\ pc[h] = "done" /\ Supported(job[h].version) =>
       \A i \in Theirs : TellsSince(i, job[h].version)

Ordered ==
  /\ \A e \in processed : 1..(e - 1) \subseteq processed
  /\ \A h \in Handlers : Turn(h)
  /\ \A i \in Theirs : \A e \in processed : Supported(e) => TellsSince(i, e)
OrderInv == ~disturbed /\ cancels = 0 => Ordered

LEMMA InitOrderInv == Init => OrderInv
<1> SUFFICES ASSUME Init PROVE OrderInv OBVIOUS
<1>1. DOMAIN rows = {} BY DEF Init
<1> QED BY <1>1 DEF Init, OrderInv, Ordered, Turn, NoJob

(* A row that is not written goes on to show what it shows.                *)
LEMMA TellsLasts ==
  ASSUME Lasts, NEW i, rows'[i] = rows[i], NEW e \in Events, TellsSince(i, e)
  PROVE  TellsSince(i, e)'
<1>1. PICK v \in Events : v >= e /\ Told(rows[i], v) BY DEF TellsSince
<1>2. v \in Events' /\ Told(rows[i], v)' BY <1>1 DEF Lasts, Told, StatusFor, Complete
<1> QED BY <1>1, <1>2 DEF TellsSince

LEMMA TheirsLast ==
  ASSUME Lasts, DOMAIN rows' = DOMAIN rows
  PROVE  Theirs' = Theirs
BY DEF Lasts, Theirs, EventTenant

LEMMA ShownLasts ==
  ASSUME TypeOK, Lasts, UNCHANGED <<rows, processed>>,
         \A i \in Theirs : \A e \in processed : Supported(e) => TellsSince(i, e)
  PROVE  (\A i \in Theirs : \A e \in processed : Supported(e) => TellsSince(i, e))'
<1>1. Theirs' = Theirs BY TheirsLast
<1>2. processed \subseteq Events BY DEF TypeOK
<1> QED BY <1>1, <1>2, TellsLasts, SupportedLasts

(* A step of one handler, the others being idle.                           *)
LEMMA OneTurn ==
  ASSUME IInv', Alone', NEW h \in Handlers, Turn(h)', pc'[h] # "idle"
  PROVE  \A g \in Handlers : Turn(g)'
<1>1. \A g \in Handlers \ {h} : pc'[g] = "idle" BY DEF Alone
<1>2. \A g \in Handlers : JobInv(g)' BY DEF IInv
<1>3. ASSUME NEW g \in Handlers, pc'[g] = "idle" PROVE Turn(g)'
  BY <1>2, <1>3 DEF JobInv, Turn, NoJob
<1> QED BY <1>1, <1>3

LEMMA NoTurn ==
  ASSUME IInv', \A g \in Handlers : pc'[g] = "idle"
  PROVE  \A g \in Handlers : Turn(g)'
<1>1. \A g \in Handlers : JobInv(g)' BY DEF IInv
<1> QED BY <1>1 DEF JobInv, Turn, NoJob

(* Every action but those that write a row or a mark.                      *)
LEMMA OrderFrame ==
  ASSUME IInv, Lasts, Ordered, UNCHANGED <<rows, processed>>, \A h \in Handlers : Turn(h)'
  PROVE  Ordered'
<1>1. TypeOK BY DEF IInv
<1>2. (\A i \in Theirs : \A e \in processed : Supported(e) => TellsSince(i, e))'
  BY <1>1, ShownLasts DEF Ordered
<1> QED BY <1>2 DEF Ordered

LEMMA OutsideOrdered ==
  ASSUME IInv, Lasts, Ordered, UNCHANGED <<pc, job, rows, processed>>
  PROVE  Ordered'
<1>1. ASSUME NEW h \in Handlers PROVE Turn(h)'
  <2>1. JobInv(h) /\ Turn(h) BY DEF IInv, Ordered
  <2>2. CASE pc[h] = "done" /\ Supported(job[h].version)
    <3>1. job[h].version \in Events BY <2>1, <2>2 DEF JobInv
    <3>2. Theirs' = Theirs BY TheirsLast
    <3>3. \A i \in Theirs : TellsSince(i, job[h].version)'
      BY <2>1, <2>2, <3>1, TellsLasts DEF Turn
    <3> QED BY <2>1, <3>2, <3>3 DEF Turn
  <2>3. CASE ~(pc[h] = "done" /\ Supported(job[h].version))
    <3>1. pc[h] = "done" => job[h].version \in Events BY <2>1 DEF JobInv
    <3>2. ~(pc[h] = "done" /\ Supported(job[h].version))' BY <2>3, <3>1, SupportedLasts
    <3> QED BY <2>1, <3>2 DEF Turn
  <2> QED BY <2>2, <2>3
<1> QED BY <1>1, OrderFrame

LEMMA StartOrdered ==
  ASSUME IInv, IInv', Lasts, ~disturbed', Ordered, Serial', NEW h \in Handlers,
         (\E e \in Events : Receive(h, e)) \/ StartVerify(h)
  PROVE  Ordered'
<1>1. TypeOK /\ StoredInv /\ UNCHANGED <<history, rows, processed>>
  BY DEF IInv, Receive, StartVerify
<1>2. ASSUME NEW e \in Events, Receive(h, e) PROVE Turn(h)' /\ pc'[h] # "idle"
  <2>1. 1..(e - 1) \subseteq processed BY <1>1, <1>2 DEF Receive, StoredInv
  <2>2. job'[h] = [kind |-> "event", version |-> e] /\ pc'[h] = "received"
    BY <1>1, <1>2 DEF Receive, Goto, TypeOK
  <2> QED BY <1>1, <2>1, <2>2 DEF Turn
<1>3. ASSUME StartVerify(h) PROVE Turn(h)' /\ pc'[h] # "idle"
  <2>1. job'[h] = [kind |-> "verify", version |-> Len(history)] /\ pc'[h] = "plan"
    BY <1>1, <1>3 DEF StartVerify, Goto, TypeOK
  <2>2. \A e \in processed : e <= Len(history) BY <1>1, LenProperties DEF TypeOK, Events
  <2> QED BY <1>1, <2>1, <2>2 DEF Turn
<1>4. \A g \in Handlers : Turn(g)' BY <1>2, <1>3, OneTurn DEF Serial
<1> QED BY <1>1, <1>4, OrderFrame

(* An event that is accepted is not marked, whatever came before.          *)
LEMMA AcceptTurn ==
  ASSUME IInv, Deduped, NEW h \in Handlers, Turn(h), Accept(h)
  PROVE  Turn(h)' /\ pc'[h] # "idle"
<1>1. TypeOK /\ JobInv(h) BY DEF IInv
<1>2. /\ job[h].kind = "event" /\ job[h].version \notin processed
      /\ UNCHANGED <<job, processed, history, planned>>
      /\ pc' = [pc EXCEPT ![h] = IF Supported(job[h].version) THEN "plan" ELSE "done"]
  BY <1>1 DEF Accept, IsDuplicate, JobInv, Goto, Supported, State, auxVars
<1>3. pc'[h] = IF Supported(job[h].version) THEN "plan" ELSE "done" BY <1>1, <1>2 DEF TypeOK
<1> QED BY <1>2, <1>3 DEF Turn, Supported, Storable, Complete

LEMMA MoveOrdered ==
  ASSUME IInv, IInv', Lasts, Deduped, Ordered, Serial, Serial', NEW h \in Handlers,
         \/ SkipDuplicate(h) \/ Accept(h) \/ SkipSync(h) \/ CheckPlan(h)
         \/ FindRow(h) \/ Respond(h) \/ Crash(h)
  PROVE  Ordered'
<1> USE DEF Goto
<1>1. TypeOK /\ JobInv(h) /\ Turn(h) BY DEF IInv, Ordered
<1>2. UNCHANGED <<history, rows, processed, named>>
  BY DEF SkipDuplicate, Accept, SkipSync, CheckPlan, FindRow, Find, Respond, Crash, auxVars
<1>3. ASSUME EndJob(h) PROVE Ordered'
  <2>1. pc[h] # "idle" /\ \A g \in Handlers \ {h} : Same(g) BY WorkFrame DEF Work
  <2>2. pc'[h] = "idle" BY <1>1, <1>3, EndJobFrame DEF Ending
  <2>3. \A g \in Handlers : pc'[g] = "idle" BY <2>1, <2>2 DEF Serial, Alone, Same
  <2>4. \A g \in Handlers : Turn(g)' BY <2>3, NoTurn
  <2> QED BY <1>2, <2>4, OrderFrame
<1>4. ASSUME NEW label \in {"find", "update", "create", "answering"},
             pc' = [pc EXCEPT ![h] = label], job' = job,
             pc[h] \in {"plan", "find"} \/ label = "answering"
      PROVE  Ordered'
  <2>1. pc'[h] = label BY <1>1, <1>4 DEF TypeOK
  <2>2. Turn(h)' BY <1>1, <1>2, <1>4, <2>1 DEF Turn
  <2>3. \A g \in Handlers : Turn(g)' BY <2>1, <2>2, OneTurn DEF Serial
  <2> QED BY <1>2, <2>3, OrderFrame
<1>5. CASE Accept(h)
  <2>1. \A g \in Handlers : Turn(g)' BY <1>1, <1>5, AcceptTurn, OneTurn DEF Serial
  <2> QED BY <1>2, <2>1, OrderFrame
<1>6. CASE SkipDuplicate(h) BY <1>4, <1>6 DEF SkipDuplicate
<1>7. CASE CheckPlan(h) BY <1>3, <1>4, <1>7 DEF CheckPlan
<1>8. CASE FindRow(h) BY <1>4, <1>8 DEF FindRow, Find
<1>9. CASE SkipSync(h) \/ Respond(h) \/ Crash(h) BY <1>3, <1>9 DEF SkipSync, Respond, Crash
<1> QED BY <1>5, <1>6, <1>7, <1>8, <1>9

LEMMA MarkOrdered ==
  ASSUME IInv, IInv', Lasts, Ordered, Serial', NEW h \in Handlers, MarkProcessed(h)
  PROVE  Ordered'
<1> DEFINE v == job[h].version
<1>1. TypeOK /\ JobInv(h) /\ Turn(h) BY DEF IInv, Ordered
<1>2. /\ pc[h] = "done" /\ pc' = [pc EXCEPT ![h] = "answering"]
      /\ processed' = processed \cup {v} /\ UNCHANGED <<job, rows, history, named, planned>>
  BY DEF MarkProcessed, Goto, auxVars
<1>3. job[h].kind = "event" /\ v \in Events /\ 1..(v - 1) \subseteq processed
  BY <1>1, <1>2 DEF JobInv, Turn
<1>4. pc'[h] = "answering" BY <1>1, <1>2 DEF TypeOK
<1>5. \A g \in Handlers : Turn(g)'
  <2>1. Turn(h)' BY <1>2, <1>3, <1>4 DEF Turn
  <2> QED BY <1>4, <2>1, OneTurn DEF Serial
<1>6. \A e \in processed' : 1..(e - 1) \subseteq processed' BY <1>2, <1>3 DEF Ordered
<1>7. (\A i \in Theirs : \A e \in processed : Supported(e) => TellsSince(i, e))'
  <2>1. \A i \in Theirs : \A e \in processed' : Supported(e) => TellsSince(i, e)
    BY <1>1, <1>2 DEF Ordered, Turn
  <2> QED BY <1>2, <2>1 DEF Theirs, EventTenant, Supported, TellsSince, Told, Events,
          StatusFor, Storable, Complete
<1> QED BY <1>5, <1>6, <1>7 DEF Ordered

LEMMA WriteOrdered ==
  ASSUME IInv, IInv', Lasts, Ordered, Serial, Serial', NEW h \in Handlers,
         UpdateRow(h) \/ CreateRow(h)
  PROVE  Ordered'
<1>1. TypeOK /\ JobInv(h) /\ Turn(h) BY DEF IInv, Ordered
<1>2. /\ pc[h] \in {"update", "create"} /\ UNCHANGED <<history, processed, named, planned>>
      /\ Written(h)
  BY DEF UpdateRow, CreateRow, auxVars
<1>3. PICK i \in DOMAIN rows' : Wrote(h, i) BY Writes
<1>v. PICK v \in Events : v = job[h].version BY <1>1, <1>2 DEF JobInv
<1>4. processed \subseteq Events /\ Events = 1..Len(history) /\ Len(history) \in Nat
  BY <1>1, LenProperties DEF TypeOK, Events
<1>5. \A e \in processed : e <= v
  <2>1. CASE job[h].kind = "verify" BY <1>1, <1>v, <2>1 DEF Turn
  <2>2. CASE job[h].kind = "event"
    <3>1. v \notin processed BY <1>1, <1>2, <1>v, <2>2 DEF Turn
    <3>2. ASSUME NEW e \in processed, e > v PROVE FALSE
      <4>1. v \in 1..(e - 1) BY <1>4, <3>2
      <4> QED BY <3>1, <4>1 DEF Ordered
    <3> QED BY <1>4, <3>1, <3>2
  <2> QED BY <1>1, <1>2, <2>1, <2>2 DEF JobInv
<1>6. v \in Events' /\ Told(rows[i], v)'
  BY <1>2, <1>3, <1>v DEF Wrote, Told, StatusFor, Events, Complete
<1>7. \A e \in Events : e <= v => TellsSince(i, e)'
  BY <1>4, <1>6 DEF TellsSince
<1>8. ASSUME NEW j \in Theirs', j # i
      PROVE  j \in Theirs /\ rows'[j] = rows[j] /\ ~(job[h].kind = "event")
  <2>1. j \in DOMAIN rows /\ rows'[j] = rows[j] BY <1>3, <1>8 DEF Wrote, Theirs
  <2>2. j \in Theirs BY <1>2, <1>8, <2>1 DEF Theirs, EventTenant
  <2>3. ASSUME job[h].kind = "event" PROVE FALSE
    <3>1. rows'[i].tenant = rows'[j].tenant
      BY <1>2, <1>3, <1>8, <2>3 DEF Wrote, Theirs, EventTenant, Tenant
    <3> QED BY <1>3, <1>8, <3>1 DEF Serial, OneRow, Theirs
  <2> QED BY <2>1, <2>2, <2>3
<1>9. (\A j \in Theirs : \A e \in processed : Supported(e) => TellsSince(j, e))'
  <2> SUFFICES ASSUME NEW j \in Theirs', NEW e \in processed, Supported(e)'
               PROVE  TellsSince(j, e)'
    BY <1>2
  <2>1. e \in Events /\ Supported(e) BY <1>2, <1>4 DEF Supported, Storable, Complete
  <2>2. CASE j = i BY <1>5, <1>7, <2>1, <2>2
  <2>3. CASE j # i
    <3>1. j \in Theirs /\ rows'[j] = rows[j] BY <1>8, <2>3
    <3>2. TellsSince(j, e) BY <2>1, <3>1 DEF Ordered
    <3> QED BY <2>1, <3>1, <3>2, TellsLasts
  <2> QED BY <2>2, <2>3
<1>10. \A g \in Handlers : Turn(g)'
  <2>1. CASE job[h].kind = "event"
    <3>1. pc' = [pc EXCEPT ![h] = "done"] /\ job' = job BY <1>2, <2>1 DEF Written, Goto
    <3>2. pc'[h] = "done" BY <1>1, <3>1 DEF TypeOK
    <3>3. \A j \in Theirs' : TellsSince(j, v)'
      <4>1. \A j \in Theirs' : j = i BY <1>8, <2>1
      <4>2. TellsSince(i, v)' BY <1>4, <1>7
      <4> QED BY <4>1, <4>2
    <3>4. Turn(h)' BY <1>1, <1>2, <1>v, <2>1, <3>1, <3>2, <3>3 DEF Turn
    <3> QED BY <3>2, <3>4, OneTurn DEF Serial
  <2>2. CASE job[h].kind = "verify"
    <3>1. EndJob(h) BY <1>2, <2>2 DEF Written
    <3>2. Ending(h) /\ \A g \in Handlers \ {h} : Same(g) BY <1>1, <3>1, EndJobFrame
    <3>3. \A g \in Handlers : pc'[g] = "idle"
      BY <1>2, <3>2 DEF Ending, Serial, Alone, Same
    <3> QED BY <3>3, NoTurn
  <2> QED BY <1>1, <1>2, <2>1, <2>2 DEF JobInv
<1> QED BY <1>2, <1>9, <1>10 DEF Ordered

LEMMA OrderInvStep ==
  ASSUME Deduped, IInv, OneInv, OrderInv, [Next]_vars
  PROVE  OrderInv'
<1> SUFFICES ASSUME ~disturbed', cancels' = 0 PROVE Ordered' BY DEF OrderInv
<1>1. IInv' /\ Lasts BY StepIInv
<1>2. Serial' BY OneInvStep DEF OneInv
<1>3. ~disturbed => Serial BY DEF OneInv
<1>4. CASE \/ \E status \in Reported : Change(status)
           \/ DeactivatePlan \/ Cancel \/ \E i \in DOMAIN rows : StartCancel(i)
  <2>1. /\ UNCHANGED <<pc, job, disturbed, processed>> /\ cancels' >= cancels
        /\ rows' = rows \/ cancels' > 0
    BY <1>4, OutsideFrame
  <2>2. cancels = 0 /\ rows' = rows BY <2>1 DEF IInv, TypeOK
  <2> QED BY <1>1, <2>1, <2>2, OutsideOrdered DEF OrderInv
<1>5. ASSUME NEW h \in Handlers, (\E e \in Events : Receive(h, e)) \/ StartVerify(h)
      PROVE  Ordered'
  <2>1. ~disturbed /\ cancels = 0
    BY <1>5 DEF Receive, StartVerify, cancelVars
  <2> QED BY <1>1, <1>2, <1>5, <2>1, StartOrdered DEF OrderInv
<1>6. ASSUME NEW h \in Handlers, Work(h) \/ Crash(h)
      PROVE  Ordered'
  <2>1. ~disturbed /\ cancels = 0 BY <1>6, WorkFrame
  <2> QED BY <1>1, <1>2, <1>3, <1>6, <2>1, MoveOrdered, MarkOrdered, WriteOrdered
          DEF OrderInv, Work
<1>7. CASE UNCHANGED vars
  BY <1>1, <1>7, OutsideOrdered DEF OrderInv, vars, handlerVars, cancelVars, auxVars
<1> QED BY <1>4, <1>5, <1>6, <1>7 DEF Next

(* What every event has told of is what the row says.                      *)
LEMMA OrderedMirrors ==
  ASSUME IInv, OrderInv
  PROVE  MirrorsInTurn
<1> SUFFICES ASSUME ~disturbed, Settled, Storable(Latest),
                    NEW i \in DOMAIN rows, rows[i].tenant = EventTenant
             PROVE  SaysLatest(rows[i])
  BY DEF MirrorsInTurn, Mirrors
<1> DEFINE n == Len(history)
<1>1. n \in Events /\ Events = 1..n /\ n \in Nat
  BY LenProperties, EmptySeq DEF IInv, TypeOK, Settled, Events
<1>2. n \in processed BY <1>1 DEF IInv, StoredInv, Settled
<1>3. Ordered /\ i \in Theirs BY DEF OrderInv, Settled, Theirs
<1>4. Supported(n) BY DEF Supported, Latest
<1>5. PICK v \in Events : v >= n /\ Told(rows[i], v) BY <1>2, <1>3, <1>4 DEF Ordered, TellsSince
<1>6. v = n BY <1>1, <1>5
<1> QED BY <1>5, <1>6 DEF Told, StatusFor, SaysLatest, Latest, Storable

(* Where the provider's event ids are its own, the row of the events'      *)
(* tenant is what the subscription is once every event is answered, as     *)
(* long as no delivery overlaps or overtakes and no customer cancels:      *)
(* repeated deliveries, verifications and handlers that die do not set it  *)
(* back.                                                                   *)
THEOREM MirrorsWhenSerial == ASSUME Deduped PROVE Spec => []MirrorsInTurn
<1>1. IInv /\ OneInv /\ OrderInv /\ [Next]_vars => OrderInv' BY OrderInvStep
<1>2. IInv /\ OneInv /\ [Next]_vars => OneInv' BY OneInvStep
<1>3. IInv /\ OrderInv => MirrorsInTurn BY OrderedMirrors
<1> QED BY Invariant, InitOneInv, InitOrderInv, <1>1, <1>2, <1>3, PTL DEF Spec
=============================================================================

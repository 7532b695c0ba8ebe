\* Two workers, time for two renewals and a third one ahead of time, a provider
\* or none, and two upsets: cancellations, changes of plan, failures, restarts,
\* events that are late or come again, jobs beside another one.
SPECIFICATION FairSpec
CONSTANTS
  Workers = {w1, w2}
  Trial = 0
  Grace = 1
  MaxRetries = 2
  Plans = {p1, p2}
  FirstPlan = p1
  NoPlan = NoPlan
  Managed = {TRUE, FALSE}
  MaxTime = 2
  MaxQueue = 1
  MaxInvoices = 9
  MaxUpsets = 2
INVARIANTS NoFreePeriod PaidIsInvoiced CyclesAreBounded CycleSaysPriceInTurn
PROPERTIES DueIsRenewedInTurn
\* The clock stops at MaxTime.
CHECK_DEADLOCK FALSE

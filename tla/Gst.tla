-------------------------------- MODULE Gst --------------------------------
(***************************************************************************)
(* The tax on an invoice: BillingService.calculateItem, calculateTax, and  *)
(* the two sums createInvoice takes over the items.                        *)
(*                                                                         *)
(* Amounts are in the smallest currency unit.  Rates are in units of 1/200 *)
(* percent, so that half of a rate with two decimals (the precision of the *)
(* rate columns) is whole: 18 % is 3600, its CGST half 1800.  Every item   *)
(* has a rate and a kind of tax of its own.                                *)
(***************************************************************************)
EXTENDS Integers, Sequences

CONSTANTS
  Quantities, UnitAmounts, Rates, \* what the items of an invoice may hold
  MaxItems                        \* bound: items on an invoice

ASSUME GstAssumption ==
  /\ Quantities \subseteq Nat /\ UnitAmounts \subseteq Nat /\ Rates \subseteq Nat
  /\ \A rate \in Rates : rate % 2 = 0
  /\ MaxItems \in Nat

VARIABLES
  items, subtotal, taxAmount, \* the invoice that was made last
  exact                       \* the sum of its taxes before rounding, times 20000

gstVars == <<items, subtotal, taxAmount, exact>>

Types == {"intra", "inter"}

(* Mutant: the fraction of a unit is cut off.                              *)
CalculateTax_Floor(amount, rate) == (amount * rate) \div 20000

(* calculateTax: Decimal.ROUND_HALF_UP to whole units.                     *)
CalculateTax(amount, rate) == (amount * rate + 10000) \div 20000

(* Mutant: each of the two intra-state taxes is taken at the full rate.    *)
TotalTax_Full(amount, type, rate) ==
  IF type = "inter" THEN CalculateTax(amount, rate)
                    ELSE 2 * CalculateTax(amount, rate)

(* calculateItem: IGST at the full rate, or CGST and SGST at half of it.   *)
TotalTax(amount, type, rate) ==
  IF type = "inter" THEN CalculateTax(amount, rate)
                    ELSE CalculateTax(amount, rate \div 2) + CalculateTax(amount, rate \div 2)

Item(amount, type, rate) == [amount |-> amount, type |-> type, rate |-> rate]

GstInit == items = <<>> /\ subtotal = 0 /\ taxAmount = 0 /\ exact = 0

(* createInvoice begins the next invoice.                                  *)
StartInvoice ==
  /\ items # <<>>
  /\ items' = <<>> /\ subtotal' = 0 /\ taxAmount' = 0 /\ exact' = 0

(* Mutant: the tax is taken on the sum so far instead of on the item.      *)
AddItem_Cumulative(amount, type, rate) ==
  /\ items' = Append(items, Item(amount, type, rate))
  /\ subtotal' = subtotal + amount
  /\ taxAmount' = taxAmount + TotalTax(subtotal', type, rate)
  /\ exact' = exact + amount * rate

(* One round of the reductions of createInvoice.                           *)
AddItem(amount, type, rate) ==
  /\ items' = Append(items, Item(amount, type, rate))
  /\ subtotal' = subtotal + amount
  /\ taxAmount' = taxAmount + TotalTax(amount, type, rate)
  /\ exact' = exact + amount * rate

(* An item as a caller of the invoice endpoint gives it.                   *)
CallerItem(quantity, unitAmount, type, rate) ==
  Len(items) < MaxItems /\ AddItem(quantity * unitAmount, type, rate)

GstNext ==
  \/ StartInvoice
  \/ \E quantity \in Quantities, unitAmount \in UnitAmounts, type \in Types, rate \in Rates :
       CallerItem(quantity, unitAmount, type, rate)

-----------------------------------------------------------------------------
Abs(x) == IF x < 0 THEN -x ELSE x

(* "Rounds to nearest unit": a tax is off by half a unit at most.          *)
TaxIsNearest ==
  \A i \in DOMAIN items : \A rate \in {items[i].rate, items[i].rate \div 2} :
    2 * Abs(20000 * CalculateTax(items[i].amount, rate) - items[i].amount * rate) <= 20000

(* A sale within the state costs the customer what one across the border   *)
(* does, to the unit, although its two halves are rounded apart.           *)
SplitIsFair ==
  \A i \in DOMAIN items :
    Abs(TotalTax(items[i].amount, "intra", items[i].rate)
        - TotalTax(items[i].amount, "inter", items[i].rate)) <= 1

(* The tax of an invoice, rounded item by item and half by half, stays     *)
(* within one unit an item of the exact tax on its items.                  *)
DriftIsBounded == Abs(20000 * taxAmount - exact) <= 20000 * Len(items)
=============================================================================

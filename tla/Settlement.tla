----------------------------- MODULE Settlement -----------------------------
(***************************************************************************)
(* What collecting a payment promises, with the whole protocol hidden: an  *)
(* attempt is settled in one step, only when its provider confirms the     *)
(* money and no other attempt of the transaction stands settled; each      *)
(* settling writes the ledger once.  A later failure or expiry notice may  *)
(* withdraw the settled attempt, it never erases the ledger.               *)
(*                                                                         *)
(* Payment.tla is shown to implement this module: the row locks, the       *)
(* re-check and the partial unique index make the many statements of       *)
(* verifyPayment's database transaction one indivisible step.              *)
(***************************************************************************)
EXTENDS Naturals

CONSTANTS Attempts,   \* payment attempts of one transaction
          Orders,     \* provider-side orders
          OrderOf(_), \* the provider-side order an attempt points to
          Offline     \* attempts whose provider confirms without a payment

VARIABLES paid,       \* orders the customer has paid at the provider
          settled,    \* attempts that currently stand as SUCCESS
          books       \* PAYMENT entries the ledger holds, per attempt

vars == <<paid, settled, books>>

Init == /\ paid = {}
        /\ settled = {}
        /\ books = [a \in Attempts |-> 0]

Confirmed(a) == a \in Offline \/ OrderOf(a) \in paid

Pay(o) == /\ paid' = paid \cup {o}
          /\ UNCHANGED <<settled, books>>

(* An attempt that is already settled may be settled again: the second of  *)
(* two racing verifications writes the ledger a second time.               *)
Settle(a) == /\ Confirmed(a)
             /\ settled \subseteq {a}
             /\ settled' = {a}
             /\ books' = [books EXCEPT ![a] = @ + 1]
             /\ UNCHANGED paid

Withdraw(a) == /\ settled' = settled \ {a}
               /\ UNCHANGED <<paid, books>>

Next == \/ \E o \in Orders : Pay(o)
        \/ \E a \in Attempts : Settle(a) \/ Withdraw(a)

Spec == Init /\ [][Next]_vars
=============================================================================

------------------------- MODULE FulfilmentHistory -------------------------
(***************************************************************************)
(* Fulfilment with a history of the provider calls that failed, payment by *)
(* payment.  It says what a failed call costs, and that the handlers keep  *)
(* the promise of SingleUsePayment to every payment.                       *)
(***************************************************************************)
EXTENDS Fulfilment

VARIABLE failures   \* how many provider calls of each payment failed

(* The provider refuses a purchase of the payment, or its answer is lost.  *)
CallFails(p) ==
    \E h \in Handlers : (CallRejected(h) \/ CallLost(h)) /\ Pay(h) = p

HistoryTypeOK == failures \in [Payments -> Nat]

HistoryInit == Init /\ failures = [p \in Payments |-> 0]

HistoryNext ==
    /\ Next
    /\ failures' = [p \in Payments |->
                       IF CallFails(p) THEN failures[p] + 1 ELSE failures[p]]

HistorySpec == HistoryInit /\ [][HistoryNext]_<<vars, failures>>
-----------------------------------------------------------------------------
(* A refused or lost call drops a claim that another handler may rely on,  *)
(* and so lets one more purchase in, but only one: what a payment buys     *)
(* beyond its single purchase is paid for, each, with a failed call of its *)
(* own.  No other fault, and no call for another payment, makes it buy     *)
(* twice.                                                                  *)
SpendsWithinFailures ==
    \A p \in Payments : /\ IsFiniteSet(spent[p])
                        /\ Cardinality(spent[p]) <= 1 + failures[p]

(* The purchase a payment is claimed for, if any.                          *)
Reserved == [p \in Payments |->
    IF orderClaim[p] # NoTx THEN [svc |-> "order", tx |-> orderClaim[p]]
    ELSE IF topupClaim[p] # NoTx THEN [svc |-> "topup", tx |-> topupClaim[p]]
    ELSE NoIntent]

(* The detailed steps implement a payment that is reserved for one         *)
(* purchase at a time, withdrawn only after a call of its own failed, and  *)
(* executed as reserved until then.                                        *)
SingleUse == INSTANCE SingleUsePayment WITH
    None <- NoIntent, reserved <- Reserved, executed <- spent
ImplementsSingleUse == SingleUse!Spec
-----------------------------------------------------------------------------
(* Inductive invariants of the two.                                        *)

ReservationInv == \A p \in Payments : failures[p] = 0 => Reservation(p)

(* What was bought with a payment or still may be, whoever holds the claim *)
(* now, and the handlers whose call failed and that may drop it.  Each of  *)
(* them stands for a failed call of the payment, but for the purchase that *)
(* is claimed.                                                             *)
Chosen(p) == {u \in Purchases :
    \/ u \in spent[p]
    \/ Claimed(p, u)
    \/ \E h \in Handlers : pc[h] = "call" /\ Pay(h) = p /\ Use(h) = u}
Releasing(p) == {h \in Handlers : pc[h] = "release" /\ Pay(h) = p}
Unclaimed(p) == orderClaim[p] = NoTx /\ topupClaim[p] = NoTx

Balance(p) == Cardinality(Chosen(p)) + Cardinality(Releasing(p))
BalanceInv ==
    \A p \in Payments :
        /\ IsFiniteSet(Chosen(p)) /\ IsFiniteSet(Releasing(p))
        /\ Balance(p) <= failures[p] + IF Unclaimed(p) THEN 0 ELSE 1
=============================================================================

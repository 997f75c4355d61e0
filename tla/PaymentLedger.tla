--------------------------- MODULE PaymentLedger ---------------------------
(***************************************************************************)
(* What the backend's payment_attempts rows say of the payments at FIB:    *)
(* a row appears only for a payment that was paid, never runs ahead of     *)
(* FIB, and moves only from paid to refunded.  PaymentAttempts implements  *)
(* it with checkouts, webhooks and polls; Fulfilment builds on it.         *)
(***************************************************************************)
CONSTANT Payments

VARIABLES charge,   \* what FIB knows: "unpaid", "paid" or "refunded"
          status    \* what our row says: "absent", "paid" or "refunded"

Init == /\ charge = [p \in Payments |-> "unpaid"]
        /\ status = [p \in Payments |-> "absent"]

Pay(p) == /\ charge[p] = "unpaid"
          /\ charge' = [charge EXCEPT ![p] = "paid"]
          /\ UNCHANGED status

Refund(p) == /\ charge[p] = "paid"
             /\ charge' = [charge EXCEPT ![p] = "refunded"]
             /\ UNCHANGED status

RecordPaid(p) == /\ charge[p] # "unpaid"
                 /\ status[p] = "absent"
                 /\ status' = [status EXCEPT ![p] = "paid"]
                 /\ UNCHANGED charge

RecordRefunded(p) == /\ charge[p] = "refunded"
                     /\ status[p] # "refunded"
                     /\ status' = [status EXCEPT ![p] = "refunded"]
                     /\ UNCHANGED charge

Next == \E p \in Payments :
    Pay(p) \/ Refund(p) \/ RecordPaid(p) \/ RecordRefunded(p)

Spec == Init /\ [][Next]_<<charge, status>>
=============================================================================

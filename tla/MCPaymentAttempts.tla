------------------------- MODULE MCPaymentAttempts -------------------------
(* Small instances of PaymentAttempts for TLC.                             *)
EXTENDS PaymentAttempts

CONSTANTS p1, p2, t1, k1, k2, w1, a1
=============================================================================

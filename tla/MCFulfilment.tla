---------------------------- MODULE MCFulfilment ----------------------------
(* Small instances of Fulfilment for TLC.                                  *)
EXTENDS Fulfilment, TLC

CONSTANTS p1, p2, t1, t2, t3, c1, c2, s1

Order(t) == [svc |-> "order", tx |-> t]
Topup(t) == [svc |-> "topup", tx |-> t]

(* One payment that clients submit for two orders and for a top-up.        *)
ContendedIntent == p1 :> Order(t1)
ContendedUses   == p1 :> {Order(t1), Order(t2), Topup(t3)}

(* Two payments, one of an order and one of a top-up; each client submits  *)
(* what the payment was made for.                                          *)
HonestIntent == p1 :> Order(t1) @@ p2 :> Topup(t2)
HonestUses   == p1 :> {Order(t1)} @@ p2 :> {Topup(t2)}

(* The contended payment, and one of a top-up that is not priced.          *)
MixedIntent == p1 :> Order(t1) @@ p2 :> NoIntent
MixedUses   == p1 :> {Order(t1), Order(t2), Topup(t2)} @@ p2 :> {Topup(t3)}

ClientSymmetry == Permutations({c1, c2})
=============================================================================

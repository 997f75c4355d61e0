-------------------------- MODULE SingleUsePayment --------------------------
(***************************************************************************)
(* What the backend promises of a FIB payment.  It is reserved for one     *)
(* purchase at a time, and the provider executes only the reserved         *)
(* purchase: one payment buys one thing.  When a call of the provider      *)
(* fails, the reservation may be withdrawn although the purchase was       *)
(* executed, or although somebody else is about to execute it.  Then the   *)
(* payment buys at most one thing more for each call that failed.          *)
(***************************************************************************)
EXTENDS Naturals, FiniteSets

CONSTANTS Payments, Purchases, None

VARIABLES reserved,   \* the purchase each payment is reserved for, or None
          executed,   \* the purchases executed on behalf of each payment
          failures    \* the calls that failed on behalf of each payment

Init == /\ reserved = [p \in Payments |-> None]
        /\ executed = [p \in Payments |-> {}]
        /\ failures = [p \in Payments |-> 0]

Reserve(p, u) == /\ reserved[p] = None
                 /\ reserved' = [reserved EXCEPT ![p] = u]
                 /\ UNCHANGED <<executed, failures>>

Withdraw(p) == /\ reserved[p] # None
               /\ failures[p] > 0
               /\ reserved' = [reserved EXCEPT ![p] = None]
               /\ UNCHANGED <<executed, failures>>

(* A purchase that somebody had reserved before the failure may be another *)
(* one than the reserved one.  Executing one again changes nothing: the    *)
(* provider dedupes.                                                       *)
Executes(p, u) == /\ u = reserved[p] \/ failures[p] > 0
                  /\ executed' = [executed EXCEPT ![p] = @ \cup {u}]
                  /\ Cardinality(executed'[p]) <= 1 + failures'[p]

Execute(p, u) == Executes(p, u) /\ UNCHANGED <<reserved, failures>>

(* A failed call may have executed the purchase nevertheless.              *)
Fail(p, u) == /\ u = reserved[p] \/ failures[p] > 0
              /\ failures' = [failures EXCEPT ![p] = @ + 1]
              /\ Executes(p, u) \/ UNCHANGED executed
              /\ UNCHANGED reserved

Next == \E p \in Payments : \/ \E u \in Purchases : \/ Reserve(p, u)
                                                    \/ Execute(p, u)
                                                    \/ Fail(p, u)
                            \/ Withdraw(p)

Spec == Init /\ [][Next]_<<reserved, executed, failures>>
=============================================================================

----------------------------- MODULE Fulfilment -----------------------------
(***************************************************************************)
(* Turning a confirmed FIB payment into an eSIM order or a top-up.         *)
(*                                                                         *)
(* Two kinds of handler spend a payment: the client's request to           *)
(* /orders/managed or /topups/managed, and the recovery sweep that is      *)
(* driven by cron.  Each of them runs the same sequence of database        *)
(* transactions and provider calls, and every other handler can run        *)
(* between two of its steps:                                               *)
(*                                                                         *)
(*     verify -> fib -> claim -> call -> persist                           *)
(*                                  \-> release                            *)
(*                                                                         *)
(* A step of this module is one database transaction or one call to FIB    *)
(* or to the eSIM provider.  A payment is its payment_attempts row.  The   *)
(* provider dedupes by the transaction id it is given, so what was bought  *)
(* is a set of purchases.                                                  *)
(***************************************************************************)
EXTENDS Naturals, FiniteSets

CONSTANTS
    Payments,    \* FIB payments that have a checkout
    Txns,        \* provider transaction ids, minted by the app
    Clients,     \* handlers of client requests
    Sweepers,    \* handlers of a recovery sweep (cron, and manual by an admin)
    NoTx,        \* no claim, no order
    NoIntent,    \* the checkout metadata holds no purchase intent
    NoJob,       \* the handler works on nothing
    Intent,      \* the purchase in each payment's checkout metadata
    Uses,        \* the purchases a client may submit against each payment
    Priced,      \* payments whose FIB amount is the server's quote
    Refundable,  \* payments that may be refunded at FIB
    Limit,       \* the sweep's limit
    Faults,      \* the faults that may happen in this instance
    MaxFaults    \* how many of them, altogether

Services  == {"order", "topup"}
Purchases == [svc : Services, tx : Txns]
Handlers  == Clients \cup Sweepers
FaultKinds == {"fib", "reject", "lost", "release", "persist", "restart"}

ASSUME HandlersAssumption == Clients \cap Sweepers = {}
ASSUME SentinelAssumption == /\ NoTx \notin Txns
                             /\ NoIntent \notin Purchases
ASSUME UseAssumption ==
    /\ Intent \in [Payments -> Purchases \cup {NoIntent}]
    /\ Uses \in [Payments -> SUBSET Purchases]
    /\ Priced \subseteq Payments
    /\ Refundable \subseteq Payments
PurchasesOf(p) == Uses[p] \cup ({Intent[p]} \ {NoIntent})

(* The app mints a transaction id for one checkout.                        *)
ASSUME MintAssumption ==
    \A p, q \in Payments : \A u \in PurchasesOf(p), v \in PurchasesOf(q) :
        u.tx = v.tx => p = q
ASSUME BoundAssumption == /\ IsFiniteSet(Payments)
                          /\ Limit \in Nat \ {0}
                          /\ MaxFaults \in Nat
                          /\ Faults \subseteq FaultKinds

VARIABLES
    fib,         \* the payment's status at FIB
    status,      \* payment_attempts.status; "absent": no row yet
    paidAt,      \* paid_at of the row, as the rank of the row by it
    aged,        \* the payments past the grace window
    orderClaim,  \* metadata orderClaim.transactionId
    topupClaim,  \* metadata topupClaim.transactionId
    applied,     \* the payments whose metadata holds topupApplied
    bound,       \* provider_transaction_id of the order the row is linked to
    orders,      \* provider_transaction_id of the order items
    spent,       \* what the provider executed on behalf of the payment
    pc,          \* where each handler is
    job,         \* the payment and the purchase each handler works on
    queue,       \* the candidates each sweep still has to try
    faults       \* faults so far

rows     == <<fib, status, paidAt, aged>>
claims   == <<orderClaim, topupClaim>>
results  == <<applied, bound, orders, spent>>
handlers == <<pc, job, queue>>
vars == <<rows, claims, results, handlers, faults>>

Labels == {"idle", "verify", "fib", "claim", "call", "release", "persist"}
Jobs   == [pay : Payments, use : Purchases]

TypeOK ==
    /\ fib \in [Payments -> {"unpaid", "paid", "refunded"}]
    /\ status \in [Payments -> {"absent", "paid", "refunded"}]
    /\ paidAt \in [Payments -> Nat]
    /\ aged \in SUBSET Payments
    /\ orderClaim \in [Payments -> Txns \cup {NoTx}]
    /\ topupClaim \in [Payments -> Txns \cup {NoTx}]
    /\ applied \in SUBSET Payments
    /\ bound \in [Payments -> Txns \cup {NoTx}]
    /\ orders \in SUBSET Txns
    /\ spent \in [Payments -> SUBSET Purchases]
    /\ pc \in [Handlers -> Labels]
    /\ job \in [Handlers -> Jobs \cup {NoJob}]
    /\ \A h \in Handlers : pc[h] # "idle" => job[h] \in Jobs
    /\ queue \in [Sweepers -> SUBSET Payments]
    /\ faults \in 0 .. MaxFaults

Init ==
    /\ fib = [p \in Payments |-> "unpaid"]
    /\ status = [p \in Payments |-> "absent"]
    /\ paidAt = [p \in Payments |-> 0]
    /\ aged = {}
    /\ orderClaim = [p \in Payments |-> NoTx]
    /\ topupClaim = [p \in Payments |-> NoTx]
    /\ applied = {}
    /\ bound = [p \in Payments |-> NoTx]
    /\ orders = {}
    /\ spent = [p \in Payments |-> {}]
    /\ pc = [h \in Handlers |-> "idle"]
    /\ job = [h \in Handlers |-> NoJob]
    /\ queue = [s \in Sweepers |-> {}]
    /\ faults = 0

-----------------------------------------------------------------------------
(* The environment: the customer, FIB, and the handlers that record what   *)
(* FIB says.  All that is assumed of them is PaymentLedger, which          *)
(* PaymentAttempts implements.                                             *)
Ledger == INSTANCE PaymentLedger WITH charge <- fib

CustomerPays(p) ==
    /\ Ledger!Pay(p)
    /\ UNCHANGED <<paidAt, aged, claims, results, handlers, faults>>

FibRefunds(p) ==
    /\ p \in Refundable
    /\ Ledger!Refund(p)
    /\ UNCHANGED <<paidAt, aged, claims, results, handlers, faults>>

Recorded == {p \in Payments : status[p] # "absent"}

(* The webhook or a poll inserts the row of a payment that was paid.       *)
RecordPaid(p) ==
    /\ Ledger!RecordPaid(p)
    /\ paidAt' = [paidAt EXCEPT ![p] = 1 + Cardinality(Recorded)]
    /\ UNCHANGED <<aged, claims, results, handlers, faults>>

(* A refund is recorded on the row, or by inserting it.                    *)
RecordRefunded(p) ==
    /\ Ledger!RecordRefunded(p)
    /\ UNCHANGED <<paidAt, aged, claims, results, handlers, faults>>

(* The grace window of the payment runs out.                               *)
GraceEnds(p) ==
    /\ status[p] # "absent"
    /\ p \notin aged
    /\ aged' = aged \cup {p}
    /\ UNCHANGED <<fib, status, paidAt, claims, results, handlers, faults>>

-----------------------------------------------------------------------------
Pay(h) == job[h].pay
Use(h) == job[h].use
At(h, l, s) == pc[h] = l /\ job[h].use.svc = s
Goto(h, l) == pc' = [pc EXCEPT ![h] = l] /\ UNCHANGED <<job, queue>>

(* The request answers, or the sweep is ready for its next candidate.      *)
Finish(h) == /\ pc' = [pc EXCEPT ![h] = "idle"]
             /\ job' = [job EXCEPT ![h] = NoJob]
             /\ UNCHANGED queue

Fault(k) == /\ k \in Faults
            /\ faults < MaxFaults
            /\ faults' = faults + 1

(* _ensure_attempt_free_for_order: the payment is bound to this very order,*)
(* or it is not bound and no other purchase claims it.                     *)
EnsureFreeForOrder(p, t) ==
    /\ topupClaim[p] = NoTx
    /\ bound[p] \in {NoTx, t}
    /\ bound[p] = NoTx => orderClaim[p] \in {NoTx, t}

(* Mutant: the order's claim is not looked at.                             *)
EnsureFreeForTopupBlind(p, t) ==
    /\ bound[p] = NoTx
    /\ topupClaim[p] \in {NoTx, t}

EnsureFreeForTopup(p, t) ==
    /\ bound[p] = NoTx
    /\ orderClaim[p] = NoTx
    /\ topupClaim[p] \in {NoTx, t}

EnsureFree(p, u) ==
    \/ u.svc = "order" /\ EnsureFreeForOrder(p, u.tx)
    \/ u.svc = "topup" /\ EnsureFreeForTopup(p, u.tx)

(* A client submits a purchase against a payment of its account.           *)
Request(c) ==
    /\ pc[c] = "idle"
    /\ \E p \in Payments : \E u \in Uses[p] :
          job' = [job EXCEPT ![c] = [pay |-> p, use |-> u]]
    /\ pc' = [pc EXCEPT ![c] = "verify"]
    /\ UNCHANGED <<rows, claims, results, queue, faults>>

(* _candidates: the oldest Limit rows that are paid and have no order.     *)
Candidates ==
    LET ids == {p \in Payments : status[p] = "paid" /\ bound[p] = NoTx}
    IN  {p \in ids : Cardinality({q \in ids : paidAt[q] < paidAt[p]}) < Limit}

Sweep(s) ==
    /\ pc[s] = "idle"
    /\ queue[s] = {}
    /\ queue' = [queue EXCEPT ![s] = Candidates]
    /\ UNCHANGED <<rows, claims, results, pc, job, faults>>

(* Mutant: a claimed order is left to its handler, as a top-up is.         *)
OrderEligibleUnclaimed(p) ==
    /\ status[p] = "paid"
    /\ bound[p] = NoTx
    /\ topupClaim[p] = NoTx
    /\ orderClaim[p] = NoTx
    /\ Intent[p] # NoIntent
    /\ Intent[p].svc = "order"
    /\ p \in aged

(* The eligibility tests of the two finalizers' _load.                     *)
OrderEligible(p) ==
    /\ status[p] = "paid"
    /\ bound[p] = NoTx
    /\ topupClaim[p] = NoTx
    /\ Intent[p] # NoIntent
    /\ Intent[p].svc = "order"
    /\ p \in aged

TopupEligible(p) ==
    /\ status[p] = "paid"
    /\ topupClaim[p] = NoTx
    /\ orderClaim[p] = NoTx
    /\ bound[p] = NoTx
    /\ Intent[p] # NoIntent
    /\ Intent[p].svc = "topup"
    /\ p \in aged

(* Mutant: the sweep calls the order finalizer alone.                      *)
SweepNextOrdersOnly(s) ==
    /\ pc[s] = "idle"
    /\ \E p \in queue[s] :
          /\ \A q \in queue[s] : paidAt[p] <= paidAt[q]
          /\ queue' = [queue EXCEPT ![s] = @ \ {p}]
          /\ IF OrderEligible(p)
             THEN /\ pc' = [pc EXCEPT ![s] = "verify"]
                  /\ job' = [job EXCEPT ![s] = [pay |-> p, use |-> Intent[p]]]
             ELSE UNCHANGED <<pc, job>>
    /\ UNCHANGED <<rows, claims, results, faults>>

(* The sweep offers its oldest candidate to the order finalizer and then   *)
(* to the top-up finalizer; one that is neither is skipped.                *)
SweepNext(s) ==
    /\ pc[s] = "idle"
    /\ \E p \in queue[s] :
          /\ \A q \in queue[s] : paidAt[p] <= paidAt[q]
          /\ queue' = [queue EXCEPT ![s] = @ \ {p}]
          /\ IF OrderEligible(p) \/ TopupEligible(p)
             THEN /\ pc' = [pc EXCEPT ![s] = "verify"]
                  /\ job' = [job EXCEPT ![s] = [pay |-> p, use |-> Intent[p]]]
             ELSE UNCHANGED <<pc, job>>
    /\ UNCHANGED <<rows, claims, results, faults>>

-----------------------------------------------------------------------------
(* The gate: the payment has a row and is free for this purchase ...       *)
Verify(h) ==
    /\ pc[h] = "verify"
    /\ IF status[Pay(h)] # "absent" /\ EnsureFree(Pay(h), Use(h))
       THEN Goto(h, "fib")
       ELSE Finish(h)
    /\ UNCHANGED <<rows, claims, results, faults>>

(* Mutant: the amount is not compared with the quote.                      *)
FibConfirmsAnyAmount(h) ==
    /\ pc[h] = "fib"
    /\ IF fib[Pay(h)] = "paid" THEN Goto(h, "claim") ELSE Finish(h)
    /\ UNCHANGED <<rows, claims, results, faults>>

(* ... and FIB itself reports it paid, at the server's own quote.          *)
FibConfirms(h) ==
    /\ pc[h] = "fib"
    /\ IF fib[Pay(h)] = "paid" /\ Pay(h) \in Priced
       THEN Goto(h, "claim")
       ELSE Finish(h)
    /\ UNCHANGED <<rows, claims, results, faults>>

FibFails(h) ==
    /\ pc[h] = "fib"
    /\ Fault("fib")
    /\ Finish(h)
    /\ UNCHANGED <<rows, claims, results>>

(* Mutants: the claim trusts the guard of the gate.                        *)
ClaimOrderUnchecked(h) ==
    /\ At(h, "claim", "order")
    /\ orderClaim' = [orderClaim EXCEPT ![Pay(h)] = Use(h).tx]
    /\ Goto(h, "call")
    /\ UNCHANGED <<rows, topupClaim, results, faults>>

ClaimTopupUnchecked(h) ==
    /\ At(h, "claim", "topup")
    /\ topupClaim' = [topupClaim EXCEPT ![Pay(h)] = Use(h).tx]
    /\ Goto(h, "call")
    /\ UNCHANGED <<rows, orderClaim, results, faults>>

(* _claim: the guard again, on the locked row; a row that is bound to this *)
(* order already needs no claim.                                           *)
ClaimOrder(h) ==
    LET p == Pay(h)
        t == Use(h).tx
    IN  /\ At(h, "claim", "order")
        /\ IF EnsureFreeForOrder(p, t)
           THEN /\ orderClaim' = IF bound[p] = t
                                 THEN orderClaim
                                 ELSE [orderClaim EXCEPT ![p] = t]
                /\ Goto(h, "call")
           ELSE /\ Finish(h)
                /\ UNCHANGED orderClaim
        /\ UNCHANGED <<rows, topupClaim, results, faults>>

ClaimTopup(h) ==
    LET p == Pay(h)
        t == Use(h).tx
    IN  /\ At(h, "claim", "topup")
        /\ IF EnsureFreeForTopup(p, t)
           THEN /\ topupClaim' = [topupClaim EXCEPT ![p] = t]
                /\ Goto(h, "call")
           ELSE /\ Finish(h)
                /\ UNCHANGED topupClaim
        /\ UNCHANGED <<rows, orderClaim, results, faults>>

(* order_profiles or top_up.  The provider executes a transaction once and *)
(* answers a repeated one with the same result.                            *)
Execute(h) == spent' = [spent EXCEPT ![Pay(h)] = @ \cup {Use(h)}]

CallSucceeds(h) ==
    /\ pc[h] = "call"
    /\ Execute(h)
    /\ Goto(h, "persist")
    /\ UNCHANGED <<rows, claims, applied, bound, orders, faults>>

(* Mutant: success = false is taken for an answer.                         *)
CallRejectedIgnored(h) ==
    /\ pc[h] = "call"
    /\ Fault("reject")
    /\ Goto(h, "persist")
    /\ UNCHANGED <<rows, claims, results>>

(* The provider refuses, by an error or by success = false.                *)
CallRejected(h) ==
    /\ pc[h] = "call"
    /\ Fault("reject")
    /\ Goto(h, "release")
    /\ UNCHANGED <<rows, claims, results>>

(* The provider executes the purchase and its answer is lost or times out: *)
(* the handler sees an exception like any other.                           *)
CallLost(h) ==
    /\ pc[h] = "call"
    /\ Fault("lost")
    /\ Execute(h)
    /\ Goto(h, "release")
    /\ UNCHANGED <<rows, claims, applied, bound, orders>>

(* The claim is dropped if it is still this purchase's.                    *)
ReleaseOrderClaim(h) ==
    LET p == Pay(h)
    IN  /\ At(h, "release", "order")
        /\ orderClaim' = IF orderClaim[p] = Use(h).tx
                         THEN [orderClaim EXCEPT ![p] = NoTx]
                         ELSE orderClaim
        /\ Finish(h)
        /\ UNCHANGED <<rows, topupClaim, results, faults>>

ReleaseTopupClaim(h) ==
    LET p == Pay(h)
    IN  /\ At(h, "release", "topup")
        /\ topupClaim' = IF topupClaim[p] = Use(h).tx
                         THEN [topupClaim EXCEPT ![p] = NoTx]
                         ELSE topupClaim
        /\ Finish(h)
        /\ UNCHANGED <<rows, orderClaim, results, faults>>

(* The release is best effort: an error is logged and the claim stays.     *)
ReleaseFails(h) ==
    /\ pc[h] = "release"
    /\ Fault("release")
    /\ Finish(h)
    /\ UNCHANGED <<rows, claims, results>>

(* Mutants: the link is written over another one; the link holds the       *)
(* purchase.                                                               *)
SaveAndRelink(h) ==
    /\ orders' = orders \cup {Use(h).tx}
    /\ bound' = [bound EXCEPT ![Pay(h)] = Use(h).tx]

SaveAndLinkPurchase(h) ==
    /\ orders' = orders \cup {Use(h).tx}
    /\ bound' = [bound EXCEPT ![Pay(h)] = Use(h)]

(* One transaction saves the order of the purchase's transaction id, which *)
(* may exist already, and links the payment to it; a payment linked to     *)
(* another order rolls the transaction back.  The FIB status that is       *)
(* applied to the row is the one of the gate, "paid", which changes no row *)
(* that is paid or refunded.                                               *)
SaveAndLink(h) ==
    LET p == Pay(h)
        t == Use(h).tx
    IN  IF bound[p] \in {NoTx, t}
        THEN /\ orders' = orders \cup {t}
             /\ bound' = [bound EXCEPT ![p] = t]
        ELSE UNCHANGED <<orders, bound>>

ClientPersistsOrder(c) ==
    /\ At(c, "persist", "order")
    /\ SaveAndLink(c)
    /\ Finish(c)
    /\ UNCHANGED <<rows, claims, applied, spent, faults>>

FinalizerPersistsOrder(s) ==
    /\ At(s, "persist", "order")
    /\ SaveAndLink(s)
    /\ Finish(s)
    /\ UNCHANGED <<rows, claims, applied, spent, faults>>

(* Two handlers of one transaction id save its order at the same time: the *)
(* unique constraint rolls the second one back.                            *)
PersistCollides(h) ==
    /\ At(h, "persist", "order")
    /\ Use(h).tx \in orders
    /\ Finish(h)
    /\ UNCHANGED <<rows, claims, results, faults>>

(* A client's top-up is complete with the provider's answer.               *)
ClientAnswersTopup(c) ==
    /\ At(c, "persist", "topup")
    /\ Finish(c)
    /\ UNCHANGED <<rows, claims, results, faults>>

MarkApplied(s) ==
    /\ At(s, "persist", "topup")
    /\ applied' = applied \cup {Pay(s)}
    /\ Finish(s)
    /\ UNCHANGED <<rows, claims, bound, orders, spent, faults>>

(* The database fails: the transaction rolls back, the claim stays.        *)
PersistFails(h) ==
    /\ pc[h] = "persist"
    /\ Fault("persist")
    /\ Finish(h)
    /\ UNCHANGED <<rows, claims, results>>

(* A server process ends, with the handlers it runs.                       *)
Restart(H) ==
    /\ Fault("restart")
    /\ \E h \in H : pc[h] # "idle"
    /\ pc' = [h \in Handlers |-> IF h \in H THEN "idle" ELSE pc[h]]
    /\ job' = [h \in Handlers |-> IF h \in H THEN NoJob ELSE job[h]]
    /\ queue' = [s \in Sweepers |-> IF s \in H THEN {} ELSE queue[s]]
    /\ UNCHANGED <<rows, claims, results>>

-----------------------------------------------------------------------------
Environment(p) == \/ CustomerPays(p) \/ FibRefunds(p)
                  \/ RecordPaid(p) \/ RecordRefunded(p) \/ GraceEnds(p)

GateStep(h) == Verify(h) \/ FibConfirms(h) \/ ClaimOrder(h) \/ ClaimTopup(h)

ReleaseStep(h) == ReleaseOrderClaim(h) \/ ReleaseTopupClaim(h)

ClientPersists(c) == ClientPersistsOrder(c) \/ ClientAnswersTopup(c)

FinalizerPersists(s) == FinalizerPersistsOrder(s) \/ MarkApplied(s)

HandlerFault(h) == \/ FibFails(h) \/ CallRejected(h) \/ CallLost(h)
                   \/ ReleaseFails(h) \/ PersistFails(h) \/ PersistCollides(h)

Next ==
    \/ \E p \in Payments : Environment(p)
    \/ \E h \in Handlers : \/ GateStep(h)
                            \/ CallSucceeds(h)
                            \/ ReleaseStep(h)
                            \/ HandlerFault(h)
    \/ \E c \in Clients : Request(c) \/ ClientPersists(c)
    \/ \E s \in Sweepers : Sweep(s) \/ SweepNext(s) \/ FinalizerPersists(s)
    \/ \E H \in SUBSET Handlers : Restart(H)

Spec == Init /\ [][Next]_vars

(* A request that has begun runs on; cron starts sweeps for ever; time     *)
(* passes.  Nobody has to pay, to request or to record anything.           *)
Fairness ==
    /\ \A h \in Handlers : WF_vars(GateStep(h) \/ CallSucceeds(h) \/ ReleaseStep(h))
    /\ \A c \in Clients : WF_vars(ClientPersists(c))
    /\ \A s \in Sweepers : WF_vars(Sweep(s) \/ SweepNext(s) \/ FinalizerPersists(s))
    /\ \A p \in Payments : WF_vars(GraceEnds(p))

FairSpec == Spec /\ Fairness
-----------------------------------------------------------------------------
(* What the code promises.                                                 *)

(* A paid FIB payment buys at most one thing from the provider, whichever  *)
(* handlers compete for it and whenever the server restarts: the claim of  *)
(* _claim is taken before the call and outlives a crash.  It is the        *)
(* comment "a paid FIB payment may finalize exactly ONE eSIM order".       *)
OneSpendPerPayment ==
    \A p \in Payments : \A u, v \in spent[p] : u = v

(* No payment is claimed for an order and for a top-up at the same time:   *)
(* each guard reads the other kind's claim on the locked row.  This needs  *)
(* no assumption on the provider.                                          *)
ClaimsExclusive ==
    \A p \in Payments : orderClaim[p] = NoTx \/ topupClaim[p] = NoTx

(* What is recorded as delivered was bought: a payment is linked only to   *)
(* an order that is saved and that the provider executed on behalf of this *)
(* payment, no other payment is linked to that order, and "topupApplied"   *)
(* is written only after the provider executed the top-up.  It holds after *)
(* the loss of any answer and the release of any claim (the persist steps).*)
DeliveryIsBought ==
    \A p \in Payments :
        /\ bound[p] # NoTx =>
              /\ bound[p] \in orders
              /\ [svc |-> "order", tx |-> bound[p]] \in spent[p]
              /\ \A q \in Payments : bound[q] = bound[p] => q = p
        /\ p \in applied => \E u \in spent[p] : u.svc = "topup"

(* Provider credit is spent only for a payment that was recorded, that FIB *)
(* itself confirmed and whose amount is the server's quote, although the   *)
(* confirmation and the call are steps apart (SEC-1, SEC-2).               *)
SpendIsPaidFor ==
    \A p \in Payments : spent[p] # {} =>
        status[p] # "absent" /\ fib[p] # "unpaid" /\ p \in Priced

(* A row that is linked to an order stays linked to that order, also when  *)
(* a failed call released its claim and another purchase was claimed and   *)
(* executed meanwhile: the persist step reads the link once more (the      *)
(* check of customer_order_id in _persist_managed_order and _persist).     *)
LinkIsFinal ==
    [][\A p \in Payments : bound[p] # NoTx => bound'[p] = bound[p]]_vars

(* A payment that was recorded, priced and whose checkout holds an order   *)
(* intent becomes an order even if no client ever comes back, unless it is *)
(* refunded first (sweep_unprovisioned_fib_orders).                        *)
PaidOrderDelivered ==
    \A p \in Payments :
        (p \in Priced /\ Intent[p] # NoIntent /\ Intent[p].svc = "order"
            /\ status[p] = "paid")
        ~> (bound[p] # NoTx \/ fib[p] = "refunded")

(* The same of a top-up intent (finalize_paid_fib_topup), as the comment   *)
(* "both eSIM orders and top-ups" of the sweep has it.                     *)
PaidTopupDelivered ==
    \A p \in Payments :
        (p \in Priced /\ Intent[p] # NoIntent /\ Intent[p].svc = "topup"
            /\ status[p] = "paid")
        ~> (Intent[p] \in spent[p] \/ fib[p] = "refunded")

(* No handler works for the payment, and a claim of its top-up is left.    *)
Orphaned(p) == /\ topupClaim[p] = Intent[p].tx
               /\ \A h \in Handlers : pc[h] # "idle" => Pay(h) # p

(* What the sweep does achieve for a top-up: whatever fails, the purchase  *)
(* is executed in the end, unless the payment is refunded or a handler     *)
(* that failed after the claim left that claim behind.                     *)
PaidTopupDeliveredOrOrphaned ==
    \A p \in Payments :
        (p \in Priced /\ Intent[p] # NoIntent /\ Intent[p].svc = "topup"
            /\ status[p] = "paid")
        ~> (Intent[p] \in spent[p] \/ fib[p] = "refunded" \/ Orphaned(p))
-----------------------------------------------------------------------------
(* Inductive invariants of the promises above.                             *)

Claimed(p, u) == \/ u.svc = "order" /\ orderClaim[p] = u.tx
                 \/ u.svc = "topup" /\ topupClaim[p] = u.tx

(* As long as no provider call of the payment failed, its claim is never   *)
(* released: it names what is being bought, what was bought and the order  *)
(* that was saved.                                                         *)
Reservation(p) ==
    /\ bound[p] # NoTx => orderClaim[p] = bound[p]
    /\ \A u \in spent[p] : Claimed(p, u)
    /\ \A h \in Handlers :
          pc[h] \in {"call", "persist"} /\ Pay(h) = p => Claimed(p, Use(h))
    /\ \A h \in Handlers : pc[h] = "release" => Pay(h) # p

(* What the gate established still holds when the purchase is executed.    *)
GateInv ==
    /\ \A h \in Handlers :
          pc[h] \in {"fib", "claim", "call"} => status[Pay(h)] # "absent"
    /\ \A h \in Handlers :
          pc[h] \in {"claim", "call"} => fib[Pay(h)] # "unpaid" /\ Pay(h) \in Priced
    /\ SpendIsPaidFor

(* A purchase belongs to the checkout of the payment it is bought with.    *)
BoughtInv ==
    /\ \A h \in Handlers : pc[h] # "idle" => Use(h) \in PurchasesOf(Pay(h))
    /\ \A h \in Handlers : pc[h] = "persist" => Use(h) \in spent[Pay(h)]
    /\ \A p \in Payments : spent[p] \subseteq PurchasesOf(p)
    /\ DeliveryIsBought
=============================================================================

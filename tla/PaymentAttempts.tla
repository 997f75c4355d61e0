-------------------------- MODULE PaymentAttempts --------------------------
(***************************************************************************)
(* How a FIB payment comes to have a payment_attempts row.                 *)
(*                                                                         *)
(* A checkout creates the payment at FIB and commits its context (two      *)
(* payment_provider_events markers) before the customer gets the link.     *)
(* The row itself is inserted only once FIB says paid or refunded, by a    *)
(* webhook or by a client's poll, whichever comes first; both may be       *)
(* stale, repeated or concurrent when they reach the database.             *)
(*                                                                         *)
(* A step is one call to FIB or one stretch of a database transaction      *)
(* between two points where another handler can interfere: a row that      *)
(* exists is locked by FOR UPDATE, a row that does not exist yet is not.   *)
(***************************************************************************)
EXTENDS Naturals, FiniteSets

CONSTANTS
    Payments,    \* FIB payment ids
    Txns,        \* transaction ids, minted by the app: one for each checkout
    Checkouts,   \* handlers of POST /payments/fib/checkout
    Webhooks,    \* handlers of POST /payments/fib/webhook
    Pollers,     \* handlers of GET /payments/fib/{id} and POST .../confirm
    NoTx,        \* the payment has no checkout context
    MaxRestarts  \* how often a server process ends

Recorders == Webhooks \cup Pollers
Final     == {"paid", "refunded"}                        \* PERSISTED_PAYMENT_STATUSES
Notices   == [pay : Payments, status : Final \cup {"closed"}]

ASSUME HandlersAssumption == /\ Checkouts \cap Recorders = {}
                             /\ Webhooks \cap Pollers = {}
ASSUME SentinelAssumption == NoTx \notin Txns
ASSUME BoundAssumption    == MaxRestarts \in Nat

VARIABLES
    fib,        \* the payment's status at FIB, normalized; "none": not created
    sent,       \* the status callbacks FIB has to deliver until one is answered 202
    markers,    \* the payments with a context under checkout_tx:<transaction>
    context,    \* the transaction in the context under checkout_payment:<payment>
    links,      \* the payments whose link a customer was answered
    row,        \* payment_attempts.status of the payment's row
    processed,  \* the callbacks whose event is stored as processed
    checkout,   \* what each checkout handler is at
    recorder,   \* what each webhook or poll handler is at
    restarts

ledger   == <<markers, context, row, processed>>
handlers == <<checkout, recorder>>
vars == <<fib, sent, ledger, links, handlers, restarts>>

Idle == [step |-> "idle"]
CheckoutStates ==
    [step : {"idle"}]
    \cup [step : {"create"}, tx : Txns]
    \cup [step : {"persist"}, tx : Txns, pay : Payments, fresh : BOOLEAN]
    \cup [step : {"answer"}, pay : Payments]
RecorderStates ==
    [step : {"idle"}] \cup [step : {"upsert", "insert"}, pay : Payments, status : Final]

TypeOK ==
    /\ fib \in [Payments -> {"none", "open", "closed"} \cup Final]
    /\ sent \in SUBSET Notices
    /\ markers \in [Txns -> SUBSET Payments]
    /\ context \in [Payments -> Txns \cup {NoTx}]
    /\ links \in SUBSET Payments
    /\ row \in [Payments -> {"absent"} \cup Final]
    /\ processed \in SUBSET Notices
    /\ checkout \in [Checkouts -> CheckoutStates]
    /\ recorder \in [Recorders -> RecorderStates]
    /\ restarts \in 0 .. MaxRestarts

Init ==
    /\ fib = [p \in Payments |-> "none"]
    /\ sent = {}
    /\ markers = [t \in Txns |-> {}]
    /\ context = [p \in Payments |-> NoTx]
    /\ links = {}
    /\ row = [p \in Payments |-> "absent"]
    /\ processed = {}
    /\ checkout = [k \in Checkouts |-> Idle]
    /\ recorder = [r \in Recorders |-> Idle]
    /\ restarts = 0

Rows(t) == {p \in Payments : row[p] # "absent" /\ context[p] = t}

-----------------------------------------------------------------------------
(* FIB: its status moves on, and each change that ends something is called *)
(* back.                                                                   *)
Becomes(p, s) ==
    /\ fib' = [fib EXCEPT ![p] = s]
    /\ sent' = sent \cup {[pay |-> p, status |-> s]}
    /\ UNCHANGED <<ledger, links, handlers, restarts>>

CustomerPays(p) == p \in links /\ fib[p] = "open" /\ Becomes(p, "paid")

(* Expired, declined or canceled.                                          *)
FibCloses(p)    == fib[p] = "open" /\ Becomes(p, "closed")

FibRefunds(p)   == fib[p] = "paid" /\ Becomes(p, "refunded")

-----------------------------------------------------------------------------
(* _create_checkout_attempt                                                *)

GotoCheckout(k, state) == checkout' = [checkout EXCEPT ![k] = state]

(* A transaction that has a row or a context is answered from it.  (The    *)
(* payment of a row was paid, so its link is known: nothing changes.)      *)
CheckoutReads(k) ==
    /\ checkout[k] = Idle
    /\ \E t \in Txns :
          /\ Rows(t) = {}
          /\ \/ /\ markers[t] # {}
                /\ \E p \in markers[t] : links' = links \cup {p}
                /\ UNCHANGED checkout
             \/ /\ markers[t] = {}
                /\ GotoCheckout(k, [step |-> "create", tx |-> t])
                /\ UNCHANGED links
    /\ UNCHANGED <<fib, sent, ledger, recorder, restarts>>

(* Mutant: the customer is answered before the context is committed.       *)
FibCreatesAndAnswers(k) ==
    /\ checkout[k].step = "create"
    /\ \E p \in Payments :
          /\ fib[p] = "none"
          /\ fib' = [fib EXCEPT ![p] = "open"]
          /\ links' = links \cup {p}
          /\ GotoCheckout(k, [step |-> "persist", tx |-> checkout[k].tx, pay |-> p,
                              fresh |-> markers[checkout[k].tx] = {}])
    /\ UNCHANGED <<sent, ledger, recorder, restarts>>

(* FIB creates the payment; the marker of the transaction is looked up     *)
(* once more, right after the answer.                                      *)
FibCreates(k) ==
    /\ checkout[k].step = "create"
    /\ \E p \in Payments :
          /\ fib[p] = "none"
          /\ fib' = [fib EXCEPT ![p] = "open"]
          /\ GotoCheckout(k, [step |-> "persist", tx |-> checkout[k].tx, pay |-> p,
                              fresh |-> markers[checkout[k].tx] = {}])
    /\ UNCHANGED <<sent, ledger, links, recorder, restarts>>

(* FIB refuses, or its answer is lost after it created a payment.          *)
CreateFails(k) ==
    /\ checkout[k].step = "create"
    /\ GotoCheckout(k, Idle)
    /\ \/ UNCHANGED fib
       \/ \E p \in Payments : /\ fib[p] = "none"
                              /\ fib' = [fib EXCEPT ![p] = "open"]
    /\ UNCHANGED <<sent, ledger, links, recorder, restarts>>

(* _persist_checkout_context                                               *)
PersistContext(k) ==
    /\ checkout[k].step = "persist"
    /\ LET p == checkout[k].pay
           t == checkout[k].tx
       IN  /\ markers' = IF checkout[k].fresh
                         THEN [markers EXCEPT ![t] = @ \cup {p}]
                         ELSE markers
           /\ context' = [context EXCEPT ![p] = t]
           /\ GotoCheckout(k, [step |-> "answer", pay |-> p])
    /\ UNCHANGED <<fib, sent, links, row, processed, recorder, restarts>>

Answer(k) ==
    /\ checkout[k].step = "answer"
    /\ links' = links \cup {checkout[k].pay}
    /\ GotoCheckout(k, Idle)
    /\ UNCHANGED <<fib, sent, ledger, recorder, restarts>>

-----------------------------------------------------------------------------
GotoRecorder(r, state) == recorder' = [recorder EXCEPT ![r] = state]

(* Mutants: the last answer wins; a paid row never changes.                *)
TransitionLatest(p, s) == row' = IF row[p] = "absent" THEN row ELSE [row EXCEPT ![p] = s]
TransitionNever(p, s)  == row' = row

(* apply_payment_status_transition                                         *)
Transition(p, s) ==
    row' = IF row[p] = "paid" /\ s = "refunded"
           THEN [row EXCEPT ![p] = s]
           ELSE row

(* Mutants: a row is inserted for any status; the event is committed as    *)
(* processed before the row is.                                            *)
WebhookReadsAnyStatus(r, n) ==
    /\ recorder[r] = Idle
    /\ n \in sent \ processed
    /\ row[n.pay] = "absent"
    /\ context[n.pay] # NoTx
    /\ GotoRecorder(r, [step |-> "insert", pay |-> n.pay, status |-> n.status])
    /\ UNCHANGED <<fib, sent, ledger, links, checkout, restarts>>

WebhookReadsAndMarks(r, n) ==
    /\ recorder[r] = Idle
    /\ n \in sent \ processed
    /\ processed' = processed \cup {n}
    /\ IF row[n.pay] = "absent" /\ n.status \in Final /\ context[n.pay] # NoTx
       THEN /\ GotoRecorder(r, [step |-> "insert", pay |-> n.pay, status |-> n.status])
            /\ UNCHANGED row
       ELSE Transition(n.pay, n.status) /\ UNCHANGED recorder
    /\ UNCHANGED <<fib, sent, markers, context, links, checkout, restarts>>

(* A callback reaches the webhook, perhaps late, perhaps again.  One whose *)
(* event is processed is answered 202 and changes nothing; a row that      *)
(* exists is locked and moved; a status that is not persisted, or a        *)
(* payment without a context, is stored as processed; otherwise a row is   *)
(* to be inserted.  FIB's callback names no transaction.                   *)
WebhookReads(r, n) ==
    /\ recorder[r] = Idle
    /\ n \in sent \ processed
    /\ LET p == n.pay
           inserts == row[p] = "absent" /\ n.status \in Final /\ context[p] # NoTx
       IN  IF inserts
           THEN /\ GotoRecorder(r, [step |-> "insert", pay |-> p, status |-> n.status])
                /\ UNCHANGED <<row, processed>>
           ELSE /\ Transition(p, n.status)
                /\ processed' = processed \cup {n}
                /\ UNCHANGED recorder
    /\ UNCHANGED <<fib, sent, markers, context, links, checkout, restarts>>

(* A client's poll: FIB answers (a status that is not persisted changes    *)
(* nothing) ...                                                            *)
PollAnswered(r, p) ==
    /\ recorder[r] = Idle
    /\ context[p] # NoTx
    /\ fib[p] \in Final
    /\ GotoRecorder(r, [step |-> "upsert", pay |-> p, status |-> fib[p]])
    /\ UNCHANGED <<fib, sent, ledger, links, checkout, restarts>>

(* ... and the answer, which may be stale by now, reaches the database.    *)
PollReads(r) ==
    /\ recorder[r].step = "upsert"
    /\ LET p == recorder[r].pay
           s == recorder[r].status
       IN  IF row[p] = "absent"
           THEN /\ GotoRecorder(r, [step |-> "insert", pay |-> p, status |-> s])
                /\ UNCHANGED row
           ELSE /\ Transition(p, s)
                /\ GotoRecorder(r, Idle)
    /\ UNCHANGED <<fib, sent, markers, context, processed, links, checkout, restarts>>

(* Mutant: only the payment is unique.                                     *)
InsertTwice(r) ==
    /\ recorder[r].step = "insert"
    /\ LET p == recorder[r].pay
           s == recorder[r].status
       IN  IF row[p] = "absent"
           THEN /\ row' = [row EXCEPT ![p] = s]
                /\ processed' = IF r \in Webhooks
                                THEN processed \cup {[pay |-> p, status |-> s]}
                                ELSE processed
           ELSE UNCHANGED <<row, processed>>
    /\ GotoRecorder(r, Idle)
    /\ UNCHANGED <<fib, sent, markers, context, links, checkout, restarts>>

(* create_payment_attempt.  The unique constraints on the transaction and  *)
(* on the payment roll back a second insert: the flush raises, the answer  *)
(* is a 500, and the callback is not processed.                            *)
Insert(r) ==
    /\ recorder[r].step = "insert"
    /\ LET p == recorder[r].pay
           s == recorder[r].status
       IN  IF Rows(context[p]) = {}
           THEN /\ row' = [row EXCEPT ![p] = s]
                /\ processed' = IF r \in Webhooks
                                THEN processed \cup {[pay |-> p, status |-> s]}
                                ELSE processed
           ELSE UNCHANGED <<row, processed>>
    /\ GotoRecorder(r, Idle)
    /\ UNCHANGED <<fib, sent, markers, context, links, checkout, restarts>>

(* A server process ends, with the handlers it runs.                       *)
Restart(H) ==
    /\ restarts < MaxRestarts
    /\ restarts' = restarts + 1
    /\ \/ \E k \in H \cap Checkouts : checkout[k] # Idle
       \/ \E r \in H \cap Recorders : recorder[r] # Idle
    /\ checkout' = [k \in Checkouts |-> IF k \in H THEN Idle ELSE checkout[k]]
    /\ recorder' = [r \in Recorders |-> IF r \in H THEN Idle ELSE recorder[r]]
    /\ UNCHANGED <<fib, sent, ledger, links>>

-----------------------------------------------------------------------------
Fib(p) == CustomerPays(p) \/ FibCloses(p) \/ FibRefunds(p)

CheckoutStep(k) == \/ CheckoutReads(k) \/ FibCreates(k) \/ CreateFails(k)
                   \/ PersistContext(k) \/ Answer(k)

Next ==
    \/ \E p \in Payments : Fib(p)
    \/ \E k \in Checkouts : CheckoutStep(k)
    \/ \E r \in Webhooks, n \in Notices : WebhookReads(r, n)
    \/ \E r \in Pollers, p \in Payments : PollAnswered(r, p)
    \/ \E r \in Recorders : PollReads(r) \/ Insert(r)
    \/ \E H \in SUBSET (Checkouts \cup Recorders) : Restart(H)

Spec == Init /\ [][Next]_vars

(* FIB repeats a callback until it is answered 202, and a request that has *)
(* begun runs on.  Nobody has to check out, to pay or to poll.             *)
Fairness ==
    /\ \A n \in Notices : SF_vars(\E r \in Webhooks : WebhookReads(r, n))
    /\ \A r \in Recorders : WF_vars(PollReads(r) \/ Insert(r))

FairSpec == Spec /\ Fairness
-----------------------------------------------------------------------------
(* What the code promises.                                                 *)

(* A callback that was answered 202 is never repeated, so what it said     *)
(* must be in the row: a payment whose "paid" was accepted has a row, and  *)
(* one whose "refunded" was accepted is refunded, whatever polls, repeated *)
(* callbacks and crashes come between (receive_webhook's event key and the *)
(* order of checkout, commit and answer).                                  *)
AcceptedIsRecorded ==
    \A n \in processed :
        /\ n.status = "paid" => row[n.pay] # "absent"
        /\ n.status = "refunded" => row[n.pay] = "refunded"

(* What FIB has charged or refunded and no row says yet is never           *)
(* forgotten: its callback was not answered 202 and will be repeated,      *)
(* whichever polls, failed inserts and crashes came between                *)
(* (receive_webhook commits the event as processed together with the row,  *)
(* and a customer can pay only what has a committed context).              *)
UnrecordedIsRepeated ==
    \A p \in Payments :
        /\ fib[p] \in Final =>
              row[p] # "absent" \/ [pay |-> p, status |-> "paid"] \in sent \ processed
        /\ fib[p] = "refunded" =>
              row[p] = "refunded" \/ [pay |-> p, status |-> "refunded"] \in sent \ processed

(* Two payments of one transaction never both have a row, also when a      *)
(* webhook and a poll insert at the same time: whoever sells against a     *)
(* transaction sells once.                                                 *)
OneRowPerTransaction == \A t \in Txns : \A p, q \in Rows(t) : p = q

(* A paid payment gets a row: the webhook "flips the attempt to paid".     *)
PaidIsRecorded == \A p \in Payments : fib[p] = "paid" ~> row[p] # "absent"

(* What is paid is recorded at least once for its transaction, although    *)
(* polls and callbacks race, fail and end with their process, because FIB  *)
(* repeats a callback until it is accepted.                                *)
TransactionIsRecorded ==
    \A p \in Payments : fib[p] = "paid" ~> Rows(context[p]) # {}

(* A refund at FIB reaches the row of its payment, in spite of stale       *)
(* answers; the row of the transaction may be another payment's.           *)
RefundIsRecorded ==
    \A p \in Payments : fib[p] = "refunded" ~>
        (row[p] = "refunded" \/ Rows(context[p]) \ {p} # {})

(* The rows never run ahead of FIB, and only paid becomes refunded.        *)
Charge == [p \in Payments |-> IF fib[p] \in Final THEN fib[p] ELSE "unpaid"]
Ledger == INSTANCE PaymentLedger WITH charge <- Charge, status <- row
ImplementsLedger == Ledger!Spec
-----------------------------------------------------------------------------
(* Inductive invariants of the promises above.                             *)

(* FIB has reported s of p, and still does not take it back.               *)
Known(p, s) == fib[p] \in Final /\ (s = "refunded" => fib[p] = "refunded")

(* Whatever a customer can pay has a committed context, and no two         *)
(* checkouts are about to commit the context of one payment.               *)
ContextInv ==
    /\ \A p \in Payments : context[p] # NoTx => fib[p] # "none"
    /\ \A p \in Payments : fib[p] \in Final => p \in links
    /\ \A p \in links : context[p] # NoTx
    /\ \A t \in Txns : \A p \in markers[t] : context[p] # NoTx
    /\ \A k \in Checkouts : checkout[k].step = "persist" =>
          /\ fib[checkout[k].pay] # "none"
          /\ context[checkout[k].pay] = NoTx
    /\ \A k, l \in Checkouts :
          /\ checkout[k].step = "persist"
          /\ checkout[l].step = "persist"
          /\ checkout[k].pay = checkout[l].pay
          => k = l
    /\ \A k \in Checkouts : checkout[k].step = "answer" =>
          context[checkout[k].pay] # NoTx

(* Whatever is on its way to a row is known at FIB.                        *)
RecordInv ==
    /\ \A n \in sent : n.status \in Final => Known(n.pay, n.status)
    /\ \A r \in Recorders : recorder[r] # Idle =>
          Known(recorder[r].pay, recorder[r].status)
    /\ \A p \in Payments : row[p] # "absent" => Known(p, row[p])
    /\ AcceptedIsRecorded
    /\ OneRowPerTransaction
=============================================================================

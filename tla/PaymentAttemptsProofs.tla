----------------------- MODULE PaymentAttemptsProofs -----------------------
(***************************************************************************)
(* Theorems about PaymentAttempts for every set of payments, transactions  *)
(* and handlers, and any number of restarts.                               *)
(***************************************************************************)
EXTENDS PaymentAttempts, TLAPS

(* What a handler remembers at each of its steps.                          *)
LEMMA CheckoutMemory ==
    ASSUME TypeOK, NEW k \in Checkouts
    PROVE  /\ checkout[k].step = "create" => checkout[k].tx \in Txns
           /\ checkout[k].step = "persist" =>
                 /\ checkout[k].tx \in Txns
                 /\ checkout[k].pay \in Payments
           /\ checkout[k].step = "answer" => checkout[k].pay \in Payments
BY DEF TypeOK, CheckoutStates

(* The same of the handlers that record.                                   *)
LEMMA RecorderMemory ==
    ASSUME TypeOK, NEW r \in Recorders, recorder[r] # Idle
    PROVE  /\ recorder[r].step \in {"upsert", "insert"}
           /\ recorder[r].pay \in Payments
           /\ recorder[r].status \in Final
BY DEF TypeOK, RecorderStates, Idle

(* A busy recorder is at one of its two steps.                             *)
LEMMA RecorderBusy ==
    ASSUME TypeOK, NEW r \in Recorders, recorder[r].step \in {"upsert", "insert"}
    PROVE  /\ recorder[r] # Idle
           /\ recorder[r].pay \in Payments
           /\ recorder[r].status \in Final
BY DEF TypeOK, RecorderStates, Idle

(* The states a handler is sent to.                                        *)
LEMMA CheckoutGoes ==
    /\ Idle \in CheckoutStates
    /\ \A t \in Txns : [step |-> "create", tx |-> t] \in CheckoutStates
    /\ \A t \in Txns, p \in Payments, b \in BOOLEAN :
          [step |-> "persist", tx |-> t, pay |-> p, fresh |-> b] \in CheckoutStates
    /\ \A p \in Payments : [step |-> "answer", pay |-> p] \in CheckoutStates
BY DEF CheckoutStates, Idle

(* The same of the handlers that record.                                   *)
LEMMA RecorderGoes ==
    /\ Idle \in RecorderStates
    /\ \A i \in {"upsert", "insert"}, p \in Payments, s \in Final :
          [step |-> i, pay |-> p, status |-> s] \in RecorderStates
BY DEF RecorderStates, Idle

-----------------------------------------------------------------------------
(* Every step keeps the types: FIB's steps ...                             *)
LEMMA FibType ==
    ASSUME TypeOK, NEW p \in Payments, Fib(p)
    PROVE  TypeOK'
<1>1. PICK s \in Final \cup {"closed"} : Becomes(p, s)
  BY DEF Fib, CustomerPays, FibCloses, FibRefunds, Final
<1>2. [pay |-> p, status |-> s] \in Notices
  BY DEF Notices
<1> QED BY <1>1, <1>2 DEF TypeOK, Becomes, ledger, handlers

(* ... a checkout's ...                                                    *)
LEMMA CheckoutType ==
    ASSUME TypeOK, NEW k \in Checkouts, CheckoutStep(k)
    PROVE  TypeOK'
<1>1. CASE CheckoutReads(k)
  BY <1>1, CheckoutGoes DEF TypeOK, CheckoutReads, GotoCheckout, ledger
<1>2. CASE FibCreates(k)
  <2>1. PICK p \in Payments :
           /\ fib' = [fib EXCEPT ![p] = "open"]
           /\ GotoCheckout(k, [step |-> "persist", tx |-> checkout[k].tx, pay |-> p,
                               fresh |-> markers[checkout[k].tx] = {}])
    BY <1>2 DEF FibCreates
  <2>2. [step |-> "persist", tx |-> checkout[k].tx, pay |-> p,
         fresh |-> markers[checkout[k].tx] = {}] \in CheckoutStates
    <3>1. (markers[checkout[k].tx] = {}) \in BOOLEAN
      OBVIOUS
    <3> QED BY <1>2, <3>1, CheckoutGoes, CheckoutMemory DEF FibCreates
  <2> QED BY <1>2, <2>1, <2>2 DEF TypeOK, FibCreates, GotoCheckout, ledger
<1>3. CASE CreateFails(k)
  BY <1>3, CheckoutGoes DEF TypeOK, CreateFails, GotoCheckout, ledger
<1>4. CASE PersistContext(k)
  BY <1>4, CheckoutGoes, CheckoutMemory DEF TypeOK, PersistContext, GotoCheckout
<1>5. CASE Answer(k)
  BY <1>5, CheckoutGoes, CheckoutMemory DEF TypeOK, Answer, GotoCheckout, ledger
<1> QED BY <1>1, <1>2, <1>3, <1>4, <1>5 DEF CheckoutStep

(* A transition keeps the row's type.                                      *)
LEMMA TransitionType ==
    ASSUME TypeOK, NEW p \in Payments, NEW s, Transition(p, s)
    PROVE  row' \in [Payments -> {"absent"} \cup Final]
BY DEF TypeOK, Transition, Final

(* ... and a recorder's.                                                   *)
LEMMA RecorderType ==
    ASSUME TypeOK, NEW r \in Recorders,
           \/ \E n \in Notices : WebhookReads(r, n)
           \/ \E p \in Payments : PollAnswered(r, p)
           \/ PollReads(r)
           \/ Insert(r)
    PROVE  TypeOK'
<1>1. CASE \E n \in Notices : WebhookReads(r, n)
  <2>1. PICK n \in Notices : WebhookReads(r, n)
    BY <1>1
  <2>2. n.pay \in Payments
    BY DEF Notices
  <2>3. \/ /\ n.status \in Final
           /\ GotoRecorder(r, [step |-> "insert", pay |-> n.pay, status |-> n.status])
           /\ UNCHANGED <<row, processed>>
        \/ /\ Transition(n.pay, n.status)
           /\ processed' = processed \cup {n}
           /\ UNCHANGED recorder
    BY <2>1 DEF WebhookReads
  <2>4. /\ recorder' \in [Recorders -> RecorderStates]
        /\ row' \in [Payments -> {"absent"} \cup Final]
        /\ processed' \in SUBSET Notices
    BY <2>2, <2>3, RecorderGoes, TransitionType DEF TypeOK, GotoRecorder
  <2> QED BY <2>1, <2>4 DEF TypeOK, WebhookReads
<1>2. CASE \E p \in Payments : PollAnswered(r, p)
  BY <1>2, RecorderGoes DEF TypeOK, PollAnswered, GotoRecorder, ledger
<1>3. CASE PollReads(r)
  <2>1. recorder[r].pay \in Payments /\ recorder[r].status \in Final
    BY <1>3, RecorderBusy DEF PollReads
  <2>2. \/ /\ GotoRecorder(r, [step |-> "insert", pay |-> recorder[r].pay,
                               status |-> recorder[r].status])
           /\ UNCHANGED row
        \/ /\ Transition(recorder[r].pay, recorder[r].status)
           /\ GotoRecorder(r, Idle)
    BY <1>3 DEF PollReads
  <2>3. /\ recorder' \in [Recorders -> RecorderStates]
        /\ row' \in [Payments -> {"absent"} \cup Final]
    BY <2>1, <2>2, RecorderGoes, TransitionType DEF TypeOK, GotoRecorder
  <2> QED BY <1>3, <2>3 DEF TypeOK, PollReads
<1>4. CASE Insert(r)
  <2>1. /\ recorder[r].pay \in Payments
        /\ recorder[r].status \in Final
        /\ [pay |-> recorder[r].pay, status |-> recorder[r].status] \in Notices
    BY <1>4, RecorderBusy DEF Insert, Notices
  <2> QED BY <1>4, <2>1, RecorderGoes DEF TypeOK, Insert, GotoRecorder
<1> QED BY <1>1, <1>2, <1>3, <1>4

(* The steps of Next, by the handler that takes them.                      *)
LEMMA StepCases ==
    ASSUME Next
    PROVE  \/ \E p \in Payments : Fib(p)
           \/ \E k \in Checkouts : CheckoutStep(k)
           \/ \E r \in Recorders : \/ \E n \in Notices : WebhookReads(r, n)
                                   \/ \E p \in Payments : PollAnswered(r, p)
                                   \/ PollReads(r)
                                   \/ Insert(r)
           \/ \E H \in SUBSET (Checkouts \cup Recorders) : Restart(H)
BY DEF Next, Recorders

(* The state has the declared type in every behaviour.                     *)
THEOREM TypeCorrect == Spec => []TypeOK
<1>1. Init => TypeOK
  BY CheckoutGoes, RecorderGoes, BoundAssumption DEF Init, TypeOK
<1>2. TypeOK /\ [Next]_vars => TypeOK'
  <2> SUFFICES ASSUME TypeOK, [Next]_vars PROVE TypeOK'
    OBVIOUS
  <2>1. CASE \E H \in SUBSET (Checkouts \cup Recorders) : Restart(H)
    BY <2>1, CheckoutGoes, RecorderGoes, BoundAssumption DEF TypeOK, Restart, ledger
  <2>2. CASE UNCHANGED vars
    BY <2>2 DEF TypeOK, vars, ledger, handlers
  <2> QED BY <2>1, <2>2, StepCases, FibType, CheckoutType, RecorderType
<1> QED BY <1>1, <1>2, PTL DEF Spec

-----------------------------------------------------------------------------
(* A checkout keeps ContextInv: only FibCreates makes a payment known, and *)
(* the context of a payment is committed once, before its link is given.   *)
LEMMA ContextOfCheckout ==
    ASSUME TypeOK, ContextInv, NEW k \in Checkouts, CheckoutStep(k)
    PROVE  ContextInv'
<1>1. CASE CheckoutReads(k)
  <2>1. /\ UNCHANGED <<fib, markers, context>>
        /\ \/ /\ \E t \in Txns : \E p \in markers[t] : links' = links \cup {p}
              /\ UNCHANGED checkout
           \/ /\ \E t \in Txns : GotoCheckout(k, [step |-> "create", tx |-> t])
              /\ UNCHANGED links
    BY <1>1 DEF CheckoutReads, ledger
  <2>2. CASE UNCHANGED checkout
    BY <2>1, <2>2 DEF ContextInv, TypeOK, GotoCheckout
  <2>3. CASE /\ \E t \in Txns : GotoCheckout(k, [step |-> "create", tx |-> t])
             /\ UNCHANGED links
    BY <2>1, <2>3 DEF ContextInv, TypeOK, GotoCheckout
  <2> QED BY <2>1, <2>2, <2>3
<1>2. CASE FibCreates(k)
  <2>1. PICK p \in Payments :
           /\ fib[p] = "none"
           /\ fib' = [fib EXCEPT ![p] = "open"]
           /\ GotoCheckout(k, [step |-> "persist", tx |-> checkout[k].tx, pay |-> p,
                               fresh |-> markers[checkout[k].tx] = {}])
    BY <1>2 DEF FibCreates
  <2>2. UNCHANGED <<markers, context, links>>
    BY <1>2 DEF FibCreates, ledger
  <2>3. /\ checkout'[k].step = "persist" /\ checkout'[k].pay = p
        /\ \A l \in Checkouts : l # k => checkout'[l] = checkout[l]
    BY <2>1 DEF GotoCheckout, TypeOK
  <2>4. \A l \in Checkouts :
           checkout[l].step = "persist" => checkout[l].pay # p
    BY <2>1 DEF ContextInv
  <2>5. \A q \in Payments : q # p => fib'[q] = fib[q]
    BY <2>1 DEF TypeOK
  <2>6. context[p] = NoTx /\ fib'[p] = "open"
    BY <2>1 DEF ContextInv, TypeOK
  <2>7. /\ \A q \in Payments : context'[q] # NoTx => fib'[q] # "none"
        /\ \A q \in Payments : fib'[q] \in Final => q \in links'
    BY <2>2, <2>5, <2>6 DEF ContextInv, Final
  <2>8. \A l \in Checkouts : checkout'[l].step = "persist" =>
           fib'[checkout'[l].pay] # "none" /\ context'[checkout'[l].pay] = NoTx
    BY <2>2, <2>3, <2>5, <2>6, CheckoutMemory DEF ContextInv
  <2>9. \A l, m \in Checkouts :
           /\ checkout'[l].step = "persist"
           /\ checkout'[m].step = "persist"
           /\ checkout'[l].pay = checkout'[m].pay
           => l = m
    BY <2>3, <2>4 DEF ContextInv
  <2> QED BY <2>2, <2>3, <2>7, <2>8, <2>9 DEF ContextInv
<1>3. CASE CreateFails(k)
  <2>1. /\ UNCHANGED <<markers, context, links>>
        /\ GotoCheckout(k, Idle)
        /\ \/ UNCHANGED fib
           \/ \E p \in Payments : fib[p] = "none" /\ fib' = [fib EXCEPT ![p] = "open"]
    BY <1>3 DEF CreateFails, ledger
  <2>2. \A p \in Payments : /\ fib[p] # "none" => fib'[p] = fib[p]
                            /\ fib'[p] \in Final => fib[p] \in Final
    BY <2>1 DEF TypeOK, Final
  <2>3. /\ checkout'[k].step = "idle"
        /\ \A l \in Checkouts : l # k => checkout'[l] = checkout[l]
    BY <2>1 DEF GotoCheckout, TypeOK, Idle
  <2> QED BY <2>1, <2>2, <2>3, CheckoutMemory DEF ContextInv
<1>4. CASE PersistContext(k)
  <2> DEFINE p == checkout[k].pay
             t == checkout[k].tx
  <2>1. /\ UNCHANGED <<fib, links>>
        /\ \/ markers' = markers
           \/ markers' = [markers EXCEPT ![t] = @ \cup {p}]
        /\ context' = [context EXCEPT ![p] = t]
        /\ GotoCheckout(k, [step |-> "answer", pay |-> p])
        /\ checkout[k].step = "persist"
    BY <1>4 DEF PersistContext
  <2>2. p \in Payments /\ t \in Txns /\ t # NoTx
    BY <2>1, CheckoutMemory, SentinelAssumption
  <2>3. /\ context'[p] # NoTx
        /\ \A q \in Payments : q # p => context'[q] = context[q]
    BY <2>1, <2>2 DEF TypeOK
  <2>4. /\ checkout'[k].step = "answer" /\ checkout'[k].pay = p
        /\ \A l \in Checkouts : l # k => checkout'[l] = checkout[l]
    BY <2>1 DEF GotoCheckout, TypeOK
  <2>5. fib[p] # "none"
    BY <2>1 DEF ContextInv
  <2>6. \A l \in Checkouts :
           l # k /\ checkout[l].step = "persist" => checkout[l].pay # p
    BY <2>1 DEF ContextInv
  <2>7. \A u \in Txns : \A q \in markers'[u] : q \in Payments /\ context'[q] # NoTx
    BY <2>1, <2>2, <2>3 DEF ContextInv, TypeOK
  <2>8. \A q \in links' : context'[q] # NoTx
    BY <2>1, <2>3 DEF ContextInv, TypeOK
  <2>9. /\ \A q \in Payments : context'[q] # NoTx => fib'[q] # "none"
        /\ \A q \in Payments : fib'[q] \in Final => q \in links'
    BY <2>1, <2>3, <2>5 DEF ContextInv
  <2>10. \A l \in Checkouts : checkout'[l].step = "persist" =>
            fib'[checkout'[l].pay] # "none" /\ context'[checkout'[l].pay] = NoTx
    BY <2>1, <2>3, <2>4, <2>6, CheckoutMemory DEF ContextInv
  <2>11. \A l, m \in Checkouts :
            /\ checkout'[l].step = "persist"
            /\ checkout'[m].step = "persist"
            /\ checkout'[l].pay = checkout'[m].pay
            => l = m
    BY <2>4 DEF ContextInv
  <2>12. \A l \in Checkouts : checkout'[l].step = "answer" =>
            context'[checkout'[l].pay] # NoTx
    BY <2>3, <2>4, CheckoutMemory DEF ContextInv
  <2> QED BY <2>7, <2>8, <2>9, <2>10, <2>11, <2>12 DEF ContextInv
<1>5. CASE Answer(k)
  <2>1. /\ UNCHANGED <<fib, markers, context>>
        /\ links' = links \cup {checkout[k].pay}
        /\ checkout[k].step = "answer"
        /\ GotoCheckout(k, Idle)
    BY <1>5 DEF Answer, ledger
  <2>2. /\ checkout'[k].step = "idle"
        /\ \A l \in Checkouts : l # k => checkout'[l] = checkout[l]
    BY <2>1 DEF GotoCheckout, TypeOK, Idle
  <2> QED BY <2>1, <2>2 DEF ContextInv
<1> QED BY <1>1, <1>2, <1>3, <1>4, <1>5 DEF CheckoutStep

(* FIB's steps keep it: a payment is paid by its link.                     *)
LEMMA ContextOfFib ==
    ASSUME TypeOK, ContextInv, NEW p \in Payments, Fib(p)
    PROVE  ContextInv'
<1>1. UNCHANGED <<markers, context, links, checkout>>
  BY DEF Fib, CustomerPays, FibCloses, FibRefunds, Becomes, ledger, handlers
<1>2. \A q \in Payments : /\ fib[q] # "none" => fib'[q] # "none"
                          /\ fib'[q] \in Final => q \in links
  BY DEF Fib, CustomerPays, FibCloses, FibRefunds, Becomes, ContextInv, TypeOK, Final
<1> QED BY <1>1, <1>2, CheckoutMemory DEF ContextInv

(* A recorder's step touches nothing ContextInv speaks of.                 *)
LEMMA ContextFrame ==
    ASSUME NEW r \in Recorders,
           \/ \E n \in Notices : WebhookReads(r, n)
           \/ \E p \in Payments : PollAnswered(r, p)
           \/ PollReads(r)
           \/ Insert(r)
    PROVE  UNCHANGED <<fib, sent, markers, context, links, checkout>>
BY DEF WebhookReads, PollAnswered, PollReads, Insert, ledger

(* Every step keeps ContextInv.                                            *)
LEMMA ContextStep ==
    ASSUME TypeOK, ContextInv, [Next]_vars
    PROVE  ContextInv'
<1>1. CASE \E r \in Recorders : \/ \E n \in Notices : WebhookReads(r, n)
                                \/ \E p \in Payments : PollAnswered(r, p)
                                \/ PollReads(r)
                                \/ Insert(r)
  <2>1. UNCHANGED <<fib, markers, context, links, checkout>>
    BY <1>1, ContextFrame
  <2> QED BY <2>1 DEF ContextInv
<1>2. CASE \E H \in SUBSET (Checkouts \cup Recorders) : Restart(H)
  <2>1. PICK H : Restart(H)
    BY <1>2
  <2>2. UNCHANGED <<fib, markers, context, links>>
    BY <2>1 DEF Restart, ledger
  <2>3. \A k \in Checkouts : checkout'[k].step = "idle" \/ checkout'[k] = checkout[k]
    BY <2>1 DEF Restart, Idle
  <2> QED BY <2>2, <2>3 DEF ContextInv
<1>3. CASE UNCHANGED vars
  BY <1>3 DEF ContextInv, vars, ledger, handlers
<1> QED BY <1>1, <1>2, <1>3, StepCases, ContextOfCheckout, ContextOfFib

-----------------------------------------------------------------------------
(* What FIB has reported it does not take back.                            *)
LEMMA KnownStays ==
    ASSUME TypeOK, [Next]_vars, NEW p \in Payments, NEW s, Known(p, s)
    PROVE  Known(p, s)'
<1>1. CASE \E q \in Payments : Fib(q)
  BY <1>1 DEF Fib, CustomerPays, FibCloses, FibRefunds, Becomes, Known, TypeOK, Final
<1>2. CASE \E k \in Checkouts : CheckoutStep(k)
  BY <1>2 DEF CheckoutStep, CheckoutReads, FibCreates, CreateFails, PersistContext,
              Answer, Known, TypeOK, Final
<1>3. CASE \E r \in Recorders : \/ \E n \in Notices : WebhookReads(r, n)
                                \/ \E q \in Payments : PollAnswered(r, q)
                                \/ PollReads(r)
                                \/ Insert(r)
  BY <1>3, ContextFrame DEF Known
<1>4. CASE \E H \in SUBSET (Checkouts \cup Recorders) : Restart(H)
  BY <1>4 DEF Restart, Known
<1>5. CASE UNCHANGED vars
  BY <1>5 DEF vars, Known
<1> QED BY <1>1, <1>2, <1>3, <1>4, <1>5, StepCases

(* A payment FIB knows as paid or refunded has its context committed.      *)
LEMMA KnownHasContext ==
    ASSUME ContextInv, NEW p \in Payments, NEW s, Known(p, s)
    PROVE  context[p] # NoTx
BY DEF ContextInv, Known

(* RecordInv speaks of rows, events, callbacks and recorders: a step that  *)
(* leaves rows and events alone keeps it if what it adds is known.         *)
LEMMA RecordFrame ==
    ASSUME TypeOK, TypeOK', RecordInv, [Next]_vars, UNCHANGED <<row, processed>>,
           \A p \in Payments : row[p] # "absent" => context'[p] = context[p],
           \A n \in sent' :
              n \in sent \/ Known(n.pay, n.status)' \/ n.status \notin Final,
           \A r \in Recorders :
              \/ recorder'[r] = Idle
              \/ recorder'[r] = recorder[r]
              \/ Known(recorder[r].pay, recorder[r].status)'
    PROVE  RecordInv'
<1>1. \A n \in sent' : n.status \in Final => Known(n.pay, n.status)'
  <2> SUFFICES ASSUME NEW n \in sent', n \in sent, n.status \in Final
               PROVE  Known(n.pay, n.status)'
    OBVIOUS
  <2>1. n.pay \in Payments /\ Known(n.pay, n.status)
    BY DEF TypeOK, Notices, RecordInv
  <2> QED BY <2>1, KnownStays
<1>2. \A r \in Recorders : recorder'[r] # Idle =>
         Known(recorder[r].pay, recorder[r].status)'
  <2> SUFFICES ASSUME NEW r \in Recorders, recorder[r] # Idle,
                      recorder'[r] = recorder[r]
               PROVE  Known(recorder[r].pay, recorder[r].status)'
    OBVIOUS
  <2>1. recorder[r].pay \in Payments /\ Known(recorder[r].pay, recorder[r].status)
    BY RecorderMemory DEF RecordInv
  <2>2. Known(recorder[r].pay, recorder[r].status) =>
           fib'[recorder[r].pay] \in Final
           /\ (recorder[r].status = "refunded" => fib'[recorder[r].pay] = "refunded")
    <3> DEFINE q == recorder[r].pay
               s == recorder[r].status
    <3>1. \A x \in Payments, y \in Final : Known(x, y) =>
             fib'[x] \in Final /\ (y = "refunded" => fib'[x] = "refunded")
      BY KnownStays DEF Known
    <3> QED BY <3>1, RecorderMemory
  <2> QED BY <2>1, <2>2 DEF Known
<1>3. \A p \in Payments : row'[p] # "absent" => Known(p, row[p])'
  <2>1. \A x \in Payments, y \in Final : Known(x, y) =>
           fib'[x] \in Final /\ (y = "refunded" => fib'[x] = "refunded")
    BY KnownStays DEF Known
  <2> QED BY <2>1 DEF RecordInv, Known, TypeOK
<1>4. AcceptedIsRecorded'
  BY DEF RecordInv, AcceptedIsRecorded
<1>5. OneRowPerTransaction'
  BY DEF RecordInv, OneRowPerTransaction, Rows
<1> QED BY <1>1, <1>2, <1>3, <1>4, <1>5 DEF RecordInv

(* A row that exists is moved by a transition to what FIB knows.           *)
LEMMA TransitionMoves ==
    ASSUME TypeOK, NEW p \in Payments, NEW s \in Final, Transition(p, s)
    PROVE  /\ \A q \in Payments : (row'[q] = "absent") <=> (row[q] = "absent")
           /\ \A q \in Payments : row'[q] # row[q] =>
                 q = p /\ row'[q] = "refunded" /\ s = "refunded"
           /\ \A q \in Payments : row[q] = "refunded" => row'[q] = "refunded"
           /\ row[p] # "absent" /\ s = "refunded" => row'[p] = "refunded"
BY DEF TypeOK, Transition, Final

-----------------------------------------------------------------------------
(* FIB's callback says what FIB now is.                                    *)
LEMMA RecordOfFib ==
    ASSUME TypeOK, TypeOK', RecordInv, [Next]_vars, NEW p \in Payments, Fib(p)
    PROVE  RecordInv'
<1>1. PICK s : Becomes(p, s)
  BY DEF Fib, CustomerPays, FibCloses, FibRefunds
<1>2. \A n \in sent' : n \in sent \/ Known(n.pay, n.status)' \/ n.status \notin Final
  BY <1>1 DEF Becomes, Known, TypeOK, Final
<1>3. UNCHANGED <<row, processed, context, recorder>>
  BY <1>1 DEF Becomes, ledger, handlers
<1> QED BY <1>2, <1>3, RecordFrame

(* A checkout commits the context of a payment that has no row.            *)
LEMMA RecordOfCheckout ==
    ASSUME TypeOK, TypeOK', ContextInv, RecordInv, [Next]_vars,
           NEW k \in Checkouts, CheckoutStep(k)
    PROVE  RecordInv'
<1>1. UNCHANGED <<sent, row, processed, recorder>>
  BY DEF CheckoutStep, CheckoutReads, FibCreates, CreateFails, PersistContext, Answer,
         ledger
<1>2. ASSUME NEW p \in Payments, row[p] # "absent"
      PROVE  context'[p] = context[p]
  <2>1. context[p] # NoTx
    BY <1>2, KnownHasContext DEF RecordInv
  <2>2. CASE PersistContext(k)
    BY <2>1, <2>2 DEF PersistContext, ContextInv, TypeOK
  <2>3. CASE ~ PersistContext(k)
    BY <2>3 DEF CheckoutStep, CheckoutReads, FibCreates, CreateFails, Answer, ledger
  <2> QED BY <2>2, <2>3
<1> QED BY <1>1, <1>2, RecordFrame

(* A webhook accepts what the row says, or will insert what FIB knows.     *)
LEMMA RecordOfWebhook ==
    ASSUME TypeOK, TypeOK', ContextInv, RecordInv, [Next]_vars,
           NEW r \in Recorders, NEW n \in Notices, WebhookReads(r, n)
    PROVE  RecordInv'
<1>1. /\ n.pay \in Payments /\ n \in sent
      /\ UNCHANGED <<fib, sent, context>>
      /\ n.status \in Final => Known(n.pay, n.status)
  BY DEF WebhookReads, Notices, RecordInv
<1>2. CASE /\ GotoRecorder(r, [step |-> "insert", pay |-> n.pay, status |-> n.status])
           /\ n.status \in Final
           /\ UNCHANGED <<row, processed>>
  <2>1. /\ recorder'[r].pay = n.pay /\ recorder'[r].status = n.status
        /\ \A q \in Recorders : q # r => recorder'[q] = recorder[q]
    BY <1>2 DEF GotoRecorder, TypeOK
  <2>2. \A q \in Recorders : recorder'[q] = recorder[q]
                             \/ Known(recorder[q].pay, recorder[q].status)'
    BY <1>1, <1>2, <2>1 DEF Known
  <2> QED BY <1>1, <1>2, <2>2, RecordFrame
<1>3. CASE /\ Transition(n.pay, n.status)
           /\ processed' = processed \cup {n}
           /\ UNCHANGED recorder
           /\ row[n.pay] = "absent" => n.status \notin Final \/ context[n.pay] = NoTx
  <2>1. row[n.pay] = "absent" => n.status \notin Final
    BY <1>1, <1>3, KnownHasContext
  <2>2. /\ \A p \in Payments : (row'[p] = "absent") <=> (row[p] = "absent")
        /\ \A p \in Payments : row'[p] # row[p] =>
              row'[p] = "refunded" /\ Known(p, "refunded")
        /\ \A p \in Payments : row[p] = "refunded" => row'[p] = "refunded"
        /\ row[n.pay] # "absent" /\ n.status = "refunded" => row'[n.pay] = "refunded"
    <3>1. CASE n.status \in Final
      BY <1>1, <1>3, <3>1, TransitionMoves
    <3>2. CASE n.status \notin Final
      BY <1>3, <3>2 DEF Transition, Final
    <3> QED BY <3>1, <3>2
  <2>3. AcceptedIsRecorded'
    <3> SUFFICES ASSUME NEW m \in processed'
                 PROVE  /\ m.status = "paid" => row'[m.pay] # "absent"
                        /\ m.status = "refunded" => row'[m.pay] = "refunded"
      BY DEF AcceptedIsRecorded
    <3>1. m.pay \in Payments
      BY DEF TypeOK, Notices
    <3>2. CASE m \in processed
      BY <2>2, <3>1, <3>2 DEF RecordInv, AcceptedIsRecorded
    <3>3. CASE m = n
      BY <2>1, <2>2, <3>1, <3>3 DEF Final
    <3> QED BY <1>3, <3>2, <3>3
  <2>4. OneRowPerTransaction'
    BY <1>1, <2>2 DEF RecordInv, OneRowPerTransaction, Rows
  <2> QED BY <1>1, <1>3, <2>2, <2>3, <2>4 DEF RecordInv, Known
<1> QED BY <1>2, <1>3 DEF WebhookReads

(* A poll carries on what FIB answered.                                    *)
LEMMA RecordOfPoll ==
    ASSUME TypeOK, TypeOK', RecordInv, [Next]_vars,
           NEW r \in Recorders, NEW p \in Payments, PollAnswered(r, p)
    PROVE  RecordInv'
<1>1. /\ UNCHANGED <<fib, sent, context, row, processed>>
      /\ recorder'[r].pay = p /\ recorder'[r].status = fib[p]
      /\ \A q \in Recorders : q # r => recorder'[q] = recorder[q]
      /\ Known(p, fib[p])
  BY DEF PollAnswered, GotoRecorder, TypeOK, ledger, Known
<1>2. \A q \in Recorders : recorder'[q] = recorder[q]
                           \/ Known(recorder[q].pay, recorder[q].status)'
  BY <1>1 DEF Known
<1> QED BY <1>1, <1>2, RecordFrame

(* A poll that finds the row moves it.                                     *)
LEMMA RecordOfUpsert ==
    ASSUME TypeOK, TypeOK', RecordInv, [Next]_vars, NEW r \in Recorders, PollReads(r)
    PROVE  RecordInv'
<1> DEFINE p == recorder[r].pay
           s == recorder[r].status
<1>1. /\ UNCHANGED <<fib, sent, context, processed>>
      /\ recorder[r] # Idle /\ p \in Payments /\ s \in Final /\ Known(p, s)
  BY RecorderBusy DEF PollReads, RecordInv
<1>2. CASE /\ GotoRecorder(r, [step |-> "insert", pay |-> p, status |-> s])
           /\ UNCHANGED row
  <2>1. /\ recorder'[r].pay = p /\ recorder'[r].status = s
        /\ \A q \in Recorders : q # r => recorder'[q] = recorder[q]
    BY <1>2 DEF GotoRecorder, TypeOK
  <2>2. \A q \in Recorders : recorder'[q] = recorder[q]
                             \/ Known(recorder[q].pay, recorder[q].status)'
    BY <1>1, <2>1 DEF Known
  <2> QED BY <1>1, <1>2, <2>2, RecordFrame
<1>3. CASE /\ Transition(p, s)
           /\ GotoRecorder(r, Idle)
  <2>1. \A q \in Recorders : recorder'[q] = Idle \/ recorder'[q] = recorder[q]
    BY <1>3 DEF GotoRecorder, TypeOK
  <2>2. /\ \A q \in Payments : (row'[q] = "absent") <=> (row[q] = "absent")
        /\ \A q \in Payments : row'[q] # row[q] =>
              row'[q] = "refunded" /\ Known(q, "refunded")
        /\ \A q \in Payments : row[q] = "refunded" => row'[q] = "refunded"
    BY <1>1, <1>3, TransitionMoves
  <2>3. AcceptedIsRecorded'
    BY <1>1, <2>2 DEF RecordInv, AcceptedIsRecorded, TypeOK, Notices
  <2>4. OneRowPerTransaction'
    BY <1>1, <2>2 DEF RecordInv, OneRowPerTransaction, Rows
  <2> QED BY <1>1, <2>1, <2>2, <2>3, <2>4 DEF RecordInv, Known
<1> QED BY <1>2, <1>3 DEF PollReads

(* A row is inserted only for a transaction without one.                   *)
LEMMA RecordOfInsert ==
    ASSUME TypeOK, TypeOK', ContextInv, RecordInv, [Next]_vars,
           NEW r \in Recorders, Insert(r)
    PROVE  RecordInv'
<1> DEFINE p == recorder[r].pay
           s == recorder[r].status
<1>1. /\ UNCHANGED <<fib, sent, context>>
      /\ recorder[r] # Idle /\ p \in Payments /\ s \in Final /\ Known(p, s)
      /\ GotoRecorder(r, Idle)
  BY RecorderBusy DEF Insert, RecordInv
<1>2. \A q \in Recorders : recorder'[q] = Idle \/ recorder'[q] = recorder[q]
  BY <1>1 DEF GotoRecorder, TypeOK
<1>3. CASE UNCHANGED <<row, processed>>
  BY <1>1, <1>2, <1>3, RecordFrame
<1>4. CASE /\ Rows(context[p]) = {}
           /\ row' = [row EXCEPT ![p] = s]
           /\ \/ processed' = processed \cup {[pay |-> p, status |-> s]}
              \/ processed' = processed
  <2>1. context[p] \in Txns
    BY <1>1, KnownHasContext DEF TypeOK
  <2>2. /\ row[p] = "absent" /\ row'[p] = s
        /\ \A q \in Payments : q # p => row'[q] = row[q]
        /\ \A q \in Payments : context[q] = context[p] => row[q] = "absent"
    BY <1>1, <1>4 DEF Rows, TypeOK
  <2>3. AcceptedIsRecorded'
    BY <1>1, <1>4, <2>2 DEF RecordInv, AcceptedIsRecorded, TypeOK, Notices, Final
  <2>4. OneRowPerTransaction'
    BY <1>1, <2>2 DEF RecordInv, OneRowPerTransaction, Rows
  <2> QED BY <1>1, <1>2, <2>2, <2>3, <2>4 DEF RecordInv, Known
<1> QED BY <1>3, <1>4 DEF Insert

(* Every step keeps RecordInv.                                             *)
LEMMA RecordStep ==
    ASSUME TypeOK, TypeOK', ContextInv, RecordInv, [Next]_vars
    PROVE  RecordInv'
<1>1. CASE \E H \in SUBSET (Checkouts \cup Recorders) : Restart(H)
  <2>1. /\ UNCHANGED <<sent, row, processed, context>>
        /\ \A r \in Recorders : recorder'[r] = Idle \/ recorder'[r] = recorder[r]
    BY <1>1 DEF Restart, ledger
  <2> QED BY <2>1, RecordFrame
<1>2. CASE UNCHANGED vars
  BY <1>2, RecordFrame DEF vars, ledger, handlers
<1> QED BY <1>1, <1>2, StepCases, RecordOfFib, RecordOfCheckout, RecordOfWebhook,
           RecordOfPoll, RecordOfUpsert, RecordOfInsert

(* Both inductive invariants hold in every behaviour.                      *)
LEMMA Invariance == Spec => [](TypeOK /\ ContextInv /\ RecordInv)
<1>1. Init => ContextInv /\ RecordInv
  BY DEF Init, ContextInv, RecordInv, Idle, Final, AcceptedIsRecorded,
         OneRowPerTransaction, Rows
<1>2. TypeOK /\ TypeOK' /\ ContextInv /\ RecordInv /\ [Next]_vars
         => ContextInv' /\ RecordInv'
  BY ContextStep, RecordStep
<1> QED BY <1>1, <1>2, TypeCorrect, PTL DEF Spec

(* What a callback that was answered 202 said is in the row, for every     *)
(* number of handlers and restarts.                                        *)
THEOREM AcceptedAreRecorded == Spec => []AcceptedIsRecorded
<1>1. RecordInv => AcceptedIsRecorded
  BY DEF RecordInv
<1> QED BY <1>1, Invariance, PTL

(* No transaction has two rows, for every number of handlers and restarts. *)
THEOREM RowsAreUnique == Spec => []OneRowPerTransaction
<1>1. RecordInv => OneRowPerTransaction
  BY DEF RecordInv
<1> QED BY <1>1, Invariance, PTL

-----------------------------------------------------------------------------
(* Every charge and every refund was called back.                          *)
SentInv == \A p \in Payments :
    /\ fib[p] \in Final => [pay |-> p, status |-> "paid"] \in sent
    /\ fib[p] = "refunded" => [pay |-> p, status |-> "refunded"] \in sent

(* Every step keeps that.                                                  *)
LEMMA SentStep ==
    ASSUME TypeOK, SentInv, [Next]_vars
    PROVE  SentInv'
<1>1. CASE \E p \in Payments : Fib(p)
  BY <1>1 DEF Fib, CustomerPays, FibCloses, FibRefunds, Becomes, SentInv, TypeOK, Final
<1>2. CASE \E k \in Checkouts : CheckoutStep(k)
  BY <1>2 DEF CheckoutStep, CheckoutReads, FibCreates, CreateFails, PersistContext,
              Answer, SentInv, TypeOK, Final
<1>3. CASE \E r \in Recorders : \/ \E n \in Notices : WebhookReads(r, n)
                                \/ \E q \in Payments : PollAnswered(r, q)
                                \/ PollReads(r)
                                \/ Insert(r)
  BY <1>3, ContextFrame DEF SentInv
<1>4. CASE \E H \in SUBSET (Checkouts \cup Recorders) : Restart(H)
  BY <1>4 DEF Restart, SentInv
<1>5. CASE UNCHANGED vars
  BY <1>5 DEF vars, SentInv
<1> QED BY <1>1, <1>2, <1>3, <1>4, <1>5, StepCases

(* What FIB charged or refunded is recorded, or its callback is repeated.  *)
THEOREM NothingIsForgotten == Spec => []UnrecordedIsRepeated
<1>1. Init => SentInv
  BY DEF Init, SentInv, Final
<1>2. TypeOK /\ SentInv /\ [Next]_vars => SentInv'
  BY SentStep
<1>3. SentInv /\ AcceptedIsRecorded => UnrecordedIsRepeated
  BY DEF SentInv, AcceptedIsRecorded, UnrecordedIsRepeated
<1> QED BY <1>1, <1>2, <1>3, TypeCorrect, AcceptedAreRecorded, PTL DEF Spec

-----------------------------------------------------------------------------
(* Steps that leave the rows and what was charged alone are stutters.      *)
LEMMA LedgerStutter ==
    ASSUME UNCHANGED row, \A p \in Payments : Charge'[p] = Charge[p]
    PROVE  UNCHANGED <<Charge, row>>
<1>1. Charge' = Charge
  BY DEF Charge
<1> QED BY <1>1

(* What FIB reports moves a payment from unpaid to paid to refunded.       *)
LEMMA LedgerOfFib ==
    ASSUME TypeOK, NEW p \in Payments, Fib(p)
    PROVE  [Ledger!Next]_<<Charge, row>>
<1>1. UNCHANGED row
  BY DEF Fib, CustomerPays, FibCloses, FibRefunds, Becomes, ledger
<1>2. CASE CustomerPays(p)
  <2>1. Charge[p] = "unpaid" /\ Charge' = [Charge EXCEPT ![p] = "paid"]
    BY <1>2 DEF CustomerPays, Becomes, Charge, TypeOK, Final
  <2> QED BY <1>1, <2>1 DEF Ledger!Next, Ledger!Pay
<1>3. CASE FibCloses(p)
  <2>1. \A q \in Payments : Charge'[q] = Charge[q]
    BY <1>3 DEF FibCloses, Becomes, Charge, TypeOK, Final
  <2> QED BY <1>1, <2>1, LedgerStutter
<1>4. CASE FibRefunds(p)
  <2>1. Charge[p] = "paid" /\ Charge' = [Charge EXCEPT ![p] = "refunded"]
    BY <1>4 DEF FibRefunds, Becomes, Charge, TypeOK, Final
  <2> QED BY <1>1, <2>1 DEF Ledger!Next, Ledger!Refund
<1> QED BY <1>2, <1>3, <1>4 DEF Fib

(* A row that moves to what FIB knows is a recording step.                 *)
LEMMA LedgerMove ==
    ASSUME TypeOK, UNCHANGED fib, NEW p \in Payments, NEW s \in Final, Known(p, s),
           \/ row[p] = "absent"
           \/ row[p] = "paid" /\ s = "refunded",
           row' = [row EXCEPT ![p] = s]
    PROVE  Ledger!Next
<1>1. /\ Charge' = Charge
      /\ Charge[p] # "unpaid"
      /\ s = "refunded" => Charge[p] = "refunded"
  BY DEF Charge, Known, Final
<1>2. CASE s = "paid"
  BY <1>1, <1>2 DEF Ledger!Next, Ledger!RecordPaid
<1>3. CASE s = "refunded"
  BY <1>1, <1>3 DEF Ledger!Next, Ledger!RecordRefunded
<1> QED BY <1>2, <1>3 DEF Final

(* A transition is such a move, or changes nothing.                        *)
LEMMA LedgerTransition ==
    ASSUME TypeOK, UNCHANGED fib, NEW p \in Payments, NEW s, Transition(p, s),
           s = "refunded" => Known(p, s)
    PROVE  [Ledger!Next]_<<Charge, row>>
<1>1. CASE row[p] = "paid" /\ s = "refunded"
  BY <1>1, LedgerMove DEF Transition, Final
<1>2. CASE ~ (row[p] = "paid" /\ s = "refunded")
  BY <1>2, LedgerStutter DEF Transition, Charge
<1> QED BY <1>1, <1>2

(* Every step is a step of the ledger or a stutter.                        *)
LEMMA LedgerStep ==
    ASSUME TypeOK, ContextInv, RecordInv, [Next]_vars
    PROVE  [Ledger!Next]_<<Charge, row>>
<1>1. CASE \E k \in Checkouts : CheckoutStep(k)
  <2>1. UNCHANGED row
    BY <1>1 DEF CheckoutStep, CheckoutReads, FibCreates, CreateFails, PersistContext,
                Answer, ledger
  <2>2. \A p \in Payments : Charge'[p] = Charge[p]
    BY <1>1 DEF CheckoutStep, CheckoutReads, FibCreates, CreateFails, PersistContext,
                Answer, Charge, TypeOK, Final
  <2> QED BY <2>1, <2>2, LedgerStutter
<1>2. ASSUME NEW r \in Recorders, NEW n \in Notices, WebhookReads(r, n)
      PROVE  [Ledger!Next]_<<Charge, row>>
  <2>1. /\ n.pay \in Payments /\ UNCHANGED fib
        /\ n.status = "refunded" => Known(n.pay, n.status)
        /\ UNCHANGED row \/ Transition(n.pay, n.status)
    BY <1>2 DEF WebhookReads, Notices, RecordInv, Final
  <2> QED BY <2>1, LedgerTransition, LedgerStutter DEF Charge
<1>3. ASSUME NEW r \in Recorders, NEW p \in Payments, PollAnswered(r, p)
      PROVE  [Ledger!Next]_<<Charge, row>>
  BY <1>3, LedgerStutter DEF PollAnswered, ledger, Charge
<1>4. ASSUME NEW r \in Recorders, PollReads(r)
      PROVE  [Ledger!Next]_<<Charge, row>>
  <2>1. /\ recorder[r].pay \in Payments /\ UNCHANGED fib
        /\ Known(recorder[r].pay, recorder[r].status)
        /\ UNCHANGED row \/ Transition(recorder[r].pay, recorder[r].status)
    BY <1>4, RecorderBusy DEF PollReads, RecordInv
  <2> QED BY <2>1, LedgerTransition, LedgerStutter DEF Charge
<1>5. ASSUME NEW r \in Recorders, Insert(r)
      PROVE  [Ledger!Next]_<<Charge, row>>
  <2> DEFINE p == recorder[r].pay
             s == recorder[r].status
  <2>1. p \in Payments /\ s \in Final /\ Known(p, s) /\ UNCHANGED fib
    BY <1>5, RecorderBusy DEF Insert, RecordInv
  <2>2. CASE UNCHANGED row
    BY <2>1, <2>2, LedgerStutter DEF Charge
  <2>3. CASE Rows(context[p]) = {} /\ row' = [row EXCEPT ![p] = s]
    <3>1. row[p] = "absent"
      BY <2>1, <2>3 DEF Rows
    <3> QED BY <2>1, <2>3, <3>1, LedgerMove
  <2> QED BY <1>5, <2>2, <2>3 DEF Insert
<1>6. CASE \E H \in SUBSET (Checkouts \cup Recorders) : Restart(H)
  BY <1>6, LedgerStutter DEF Restart, ledger, Charge
<1>7. CASE UNCHANGED vars
  BY <1>7, LedgerStutter DEF vars, ledger, Charge
<1> QED BY <1>1, <1>2, <1>3, <1>4, <1>5, <1>6, <1>7, StepCases, LedgerOfFib

(* Checkouts, webhooks and polls implement the ledger that Fulfilment      *)
(* builds on: a row never runs ahead of FIB and never leaves "refunded".   *)
THEOREM Refinement == Spec => ImplementsLedger
<1>1. Init => Ledger!Init
  BY DEF Init, Ledger!Init, Charge, Final
<1>2. TypeOK /\ ContextInv /\ RecordInv /\ [Next]_vars
         => [Ledger!Next]_<<Charge, row>>
  BY LedgerStep
<1> QED BY <1>1, <1>2, Invariance, PTL DEF Spec, ImplementsLedger, Ledger!Spec
=============================================================================

-------------------------- MODULE FulfilmentProofs --------------------------
(***************************************************************************)
(* Theorems about Fulfilment and its history, for every set of payments, transaction ids    *)
(* and handlers, any number of faults and any limit of the sweep.          *)
(***************************************************************************)
EXTENDS FulfilmentHistory, FiniteSetTheorems, TLAPS

(* A handler at work has a payment and a purchase.                         *)
LEMMA JobInProgress ==
    ASSUME TypeOK, NEW h \in Handlers, pc[h] # "idle"
    PROVE  /\ Pay(h) \in Payments
           /\ Use(h) \in Purchases
           /\ Use(h).svc \in Services
           /\ Use(h).tx \in Txns
BY DEF TypeOK, Jobs, Pay, Use, Purchases

(* The rank of a new row is a number.                                      *)
LEMMA RankType == 1 + Cardinality(Recorded) \in Nat
<1>1. Recorded \subseteq Payments
  BY DEF Recorded
<1>2. IsFiniteSet(Recorded)
  BY <1>1, BoundAssumption, FS_Subset
<1> QED BY <1>2, FS_CardinalityType

-----------------------------------------------------------------------------
(* The environment's steps keep every handler, claim and result.           *)
LEMMA EnvironmentType ==
    ASSUME TypeOK, NEW p \in Payments, Environment(p)
    PROVE  TypeOK'
<1>1. CASE RecordPaid(p)
  BY <1>1, RankType DEF TypeOK, RecordPaid, Ledger!RecordPaid, claims,
     results, handlers
<1>2. CASE CustomerPays(p) \/ FibRefunds(p) \/ RecordRefunded(p) \/ GraceEnds(p)
  BY <1>2 DEF TypeOK, CustomerPays, Ledger!Pay, FibRefunds, Ledger!Refund,
     RecordRefunded, Ledger!RecordRefunded, GraceEnds,
              claims, results, handlers
<1> QED BY <1>1, <1>2 DEF Environment

(* Ending a job, or moving it to another label, is well typed.             *)
LEMMA FinishType ==
    ASSUME TypeOK, NEW h \in Handlers, Finish(h)
    PROVE  /\ pc' \in [Handlers -> Labels]
           /\ job' \in [Handlers -> Jobs \cup {NoJob}]
           /\ \A g \in Handlers : pc'[g] # "idle" => job'[g] \in Jobs
           /\ queue' = queue
BY DEF TypeOK, Finish, Labels

(* Moving a job to another label keeps the types.                          *)
LEMMA GotoType ==
    ASSUME TypeOK, NEW h \in Handlers, pc[h] # "idle",
           NEW l \in Labels, Goto(h, l)
    PROVE  /\ pc' \in [Handlers -> Labels]
           /\ job' \in [Handlers -> Jobs \cup {NoJob}]
           /\ \A g \in Handlers : pc'[g] # "idle" => job'[g] \in Jobs
           /\ queue' = queue
BY DEF TypeOK, Goto

(* The gate and the call.                                                  *)
LEMMA GateType ==
    ASSUME TypeOK, NEW h \in Handlers, GateStep(h)
    PROVE  TypeOK'
<1>0. {"idle", "verify", "fib", "claim", "call", "release", "persist"} = Labels
  BY DEF Labels
<1>1. CASE Verify(h)
  <2>1. pc[h] # "idle" /\ (Goto(h, "fib") \/ Finish(h))
    BY <1>1 DEF Verify
  <2> QED BY <2>1, <1>0, <1>1, GotoType, FinishType
          DEF TypeOK, Verify, rows, claims, results
<1>2. CASE FibConfirms(h)
  <2>1. pc[h] # "idle" /\ (Goto(h, "claim") \/ Finish(h))
    BY <1>2 DEF FibConfirms
  <2> QED BY <2>1, <1>0, <1>2, GotoType, FinishType
          DEF TypeOK, FibConfirms, rows, claims, results
<1>3. CASE ClaimOrder(h)
  <2>1. pc[h] # "idle" /\ (Goto(h, "call") \/ Finish(h))
    BY <1>3 DEF ClaimOrder, At
  <2>2. orderClaim' \in [Payments -> Txns \cup {NoTx}]
    BY <1>3, <2>1, JobInProgress DEF ClaimOrder, TypeOK
  <2> QED BY <2>1, <2>2, <1>0, <1>3, GotoType, FinishType
          DEF TypeOK, ClaimOrder, rows, results
<1>4. CASE ClaimTopup(h)
  <2>1. pc[h] # "idle" /\ (Goto(h, "call") \/ Finish(h))
    BY <1>4 DEF ClaimTopup, At
  <2>2. topupClaim' \in [Payments -> Txns \cup {NoTx}]
    BY <1>4, <2>1, JobInProgress DEF ClaimTopup, TypeOK
  <2> QED BY <2>1, <2>2, <1>0, <1>4, GotoType, FinishType
          DEF TypeOK, ClaimTopup, rows, results
<1> QED BY <1>1, <1>2, <1>3, <1>4 DEF GateStep

(* The provider call, the release and the record of the result.            *)
LEMMA CallType ==
    ASSUME TypeOK, NEW h \in Handlers,
           CallSucceeds(h) \/ CallRejected(h) \/ CallLost(h)
    PROVE  TypeOK'
<1>0. {"release", "persist"} \subseteq Labels
  BY DEF Labels
<1>1. pc[h] # "idle"
  BY DEF CallSucceeds, CallRejected, CallLost
<1>2. Goto(h, "persist") \/ Goto(h, "release")
  BY DEF CallSucceeds, CallRejected, CallLost
<1>3. Execute(h) => spent' \in [Payments -> SUBSET Purchases]
  BY <1>1, JobInProgress DEF Execute, TypeOK
<1>4. CASE CallSucceeds(h)
  BY <1>0, <1>1, <1>2, <1>3, <1>4, GotoType DEF TypeOK, CallSucceeds, rows,
     claims
<1>5. CASE CallRejected(h)
  BY <1>0, <1>1, <1>2, <1>5, GotoType, BoundAssumption
     DEF TypeOK, CallRejected, Fault, rows, claims, results
<1>6. CASE CallLost(h)
  BY <1>0, <1>1, <1>2, <1>3, <1>6, GotoType, BoundAssumption
     DEF TypeOK, CallLost, Fault, rows, claims
<1> QED BY <1>4, <1>5, <1>6

(* Dropping a claim leaves "no claim".                                     *)
LEMMA ReleaseType ==
    ASSUME TypeOK, NEW h \in Handlers, ReleaseStep(h)
    PROVE  TypeOK'
<1>1. CASE ReleaseOrderClaim(h)
  <2>1. orderClaim' \in [Payments -> Txns \cup {NoTx}]
    BY <1>1 DEF ReleaseOrderClaim, TypeOK
  <2>2. Finish(h)
    BY <1>1 DEF ReleaseOrderClaim
  <2> QED BY <2>1, <2>2, <1>1, FinishType DEF TypeOK, ReleaseOrderClaim, rows,
  results
<1>2. CASE ReleaseTopupClaim(h)
  <2>1. topupClaim' \in [Payments -> Txns \cup {NoTx}]
    BY <1>2 DEF ReleaseTopupClaim, TypeOK
  <2>2. Finish(h)
    BY <1>2 DEF ReleaseTopupClaim
  <2> QED BY <2>1, <2>2, <1>2, FinishType DEF TypeOK, ReleaseTopupClaim, rows,
  results
<1> QED BY <1>1, <1>2 DEF ReleaseStep

(* Saving an order and linking the payment to it keeps the types.          *)
LEMMA PersistOrderType ==
    ASSUME TypeOK, NEW h \in Handlers, pc[h] = "persist", SaveAndLink(h),
           Finish(h), UNCHANGED <<rows, claims, applied, spent, faults>>
    PROVE  TypeOK'
<1>1. /\ orders' \in SUBSET Txns
      /\ bound' \in [Payments -> Txns \cup {NoTx}]
  BY JobInProgress DEF SaveAndLink, TypeOK
<1> QED BY <1>1, FinishType DEF TypeOK, rows, claims

(* The three ways a purchase is recorded keep the types.                   *)
LEMMA PersistType ==
    ASSUME TypeOK, NEW h \in Handlers, ClientPersists(h) \/ FinalizerPersists(h)
    PROVE  TypeOK'
<1>1. CASE ClientPersistsOrder(h) \/ FinalizerPersistsOrder(h)
  BY <1>1, PersistOrderType DEF ClientPersistsOrder, FinalizerPersistsOrder, At
<1>2. CASE ClientAnswersTopup(h)
  BY <1>2, FinishType DEF TypeOK, ClientAnswersTopup, rows, claims, results
<1>3. CASE MarkApplied(h)
  <2>1. Pay(h) \in Payments
    BY <1>3, JobInProgress DEF MarkApplied, At
  <2> QED BY <2>1, <1>3, FinishType DEF TypeOK, MarkApplied, rows, claims
<1> QED BY <1>1, <1>2, <1>3 DEF ClientPersists, FinalizerPersists

(* The faults that are not the provider's end the job.                     *)
LEMMA AbortType ==
    ASSUME TypeOK, NEW h \in Handlers,
           FibFails(h) \/ ReleaseFails(h) \/ PersistFails(h) \/ PersistCollides(h)
    PROVE  TypeOK'
<1>1. Finish(h) /\ UNCHANGED <<rows, claims, results>> /\ faults' \in 0 .. MaxFaults
  BY BoundAssumption DEF FibFails, ReleaseFails, PersistFails,
     PersistCollides, Fault, TypeOK
<1> QED BY <1>1, FinishType DEF TypeOK, rows, claims, results

(* The steps that start a job, and the restart that ends some.             *)
LEMMA StartType ==
    ASSUME TypeOK,
           \/ \E c \in Clients : Request(c)
           \/ \E s \in Sweepers : Sweep(s) \/ SweepNext(s)
    PROVE  TypeOK'
<1>0. "verify" \in Labels
  BY DEF Labels
<1>1. CASE \E c \in Clients : Request(c)
  <2> PICK c \in Clients : Request(c)
    BY <1>1
  <2>0. PICK p \in Payments : \E u \in Uses[p] :
            job' = [job EXCEPT ![c] = [pay |-> p, use |-> u]]
    BY DEF Request
  <2>1. PICK u \in Uses[p] : job' = [job EXCEPT ![c] = [pay |-> p, use |-> u]]
    BY <2>0
  <2>2. u \in Purchases
    BY UseAssumption
  <2>3. job' \in [Handlers -> Jobs \cup {NoJob}] /\ job'[c] \in Jobs
    BY <2>1, <2>2 DEF TypeOK, Jobs, Handlers
  <2>4. pc' \in [Handlers -> Labels]
    BY <1>0 DEF Request, TypeOK
  <2>5. \A g \in Handlers : pc'[g] # "idle" => job'[g] \in Jobs
    BY <2>1, <2>3 DEF Request, TypeOK
  <2> QED BY <2>3, <2>4, <2>5 DEF TypeOK, Request, rows, claims, results
<1>2. CASE \E s \in Sweepers : Sweep(s)
  BY <1>2 DEF TypeOK, Sweep, Candidates, rows, claims, results
<1>3. CASE \E s \in Sweepers : SweepNext(s)
  <2> PICK s \in Sweepers : SweepNext(s)
    BY <1>3
  <2>1. PICK p \in queue[s] :
            /\ queue' = [queue EXCEPT ![s] = @ \ {p}]
            /\ IF OrderEligible(p) \/ TopupEligible(p)
               THEN /\ pc' = [pc EXCEPT ![s] = "verify"]
                    /\ job' = [job EXCEPT ![s] = [pay |-> p, use |-> Intent[p]]]
               ELSE UNCHANGED <<pc, job>>
    BY DEF SweepNext
  <2>2. p \in Payments /\ queue' \in [Sweepers -> SUBSET Payments]
    BY <2>1 DEF TypeOK
  <2>3. CASE OrderEligible(p) \/ TopupEligible(p)
    <3>1. Intent[p] \in Purchases
      BY <2>2, <2>3, UseAssumption DEF OrderEligible, TopupEligible
    <3>2. job' \in [Handlers -> Jobs \cup {NoJob}] /\ job'[s] \in Jobs
      BY <2>1, <2>2, <2>3, <3>1 DEF TypeOK, Jobs, Handlers
    <3>3. pc' \in [Handlers -> Labels]
      BY <1>0, <2>1, <2>3 DEF TypeOK
    <3>4. \A g \in Handlers : pc'[g] # "idle" => job'[g] \in Jobs
      BY <2>1, <2>3, <3>2 DEF TypeOK
    <3> QED BY <2>2, <3>2, <3>3, <3>4 DEF TypeOK, SweepNext, rows, claims,
    results
  <2>4. CASE ~(OrderEligible(p) \/ TopupEligible(p))
    BY <2>1, <2>2, <2>4 DEF TypeOK, SweepNext, rows, claims, results
  <2> QED BY <2>3, <2>4
<1> QED BY <1>1, <1>2, <1>3

(* A restart ends jobs and forgets queues, and does nothing else.          *)
LEMMA RestartType ==
    ASSUME TypeOK, NEW H \in SUBSET Handlers, Restart(H)
    PROVE  TypeOK'
<1>1. pc' \in [Handlers -> Labels]
  BY DEF Restart, TypeOK, Labels
<1>2. job' \in [Handlers -> Jobs \cup {NoJob}]
  BY DEF Restart, TypeOK
<1>3. \A g \in Handlers : pc'[g] # "idle" => job'[g] \in Jobs
  BY DEF Restart, TypeOK
<1>4. queue' \in [Sweepers -> SUBSET Payments]
  BY DEF Restart, TypeOK
<1>5. faults' \in 0 .. MaxFaults
  BY BoundAssumption DEF Restart, Fault, TypeOK
<1> QED BY <1>1, <1>2, <1>3, <1>4, <1>5 DEF TypeOK, Restart, rows, claims,
results

(* A step of the specification, named by what it does.                     *)
LEMMA StepCases ==
    ASSUME Next
    PROVE  \/ \E p \in Payments : Environment(p)
           \/ \E h \in Handlers : GateStep(h)
           \/ \E h \in Handlers : CallSucceeds(h) \/ CallRejected(h) \/ CallLost(h)
           \/ \E h \in Handlers : ReleaseStep(h)
           \/ \E h \in Handlers : ClientPersists(h) \/ FinalizerPersists(h)
           \/ \E h \in Handlers : FibFails(h) \/ ReleaseFails(h) \/ PersistFails(h)
                                  \/ PersistCollides(h)
           \/ \E c \in Clients : Request(c)
           \/ \E s \in Sweepers : Sweep(s) \/ SweepNext(s)
           \/ \E H \in SUBSET Handlers : Restart(H)
BY DEF Next, HandlerFault, Handlers

(* Every variable keeps its type: a handler that is at work has a payment  *)
(* and a purchase, and the fault count respects its bound.                 *)
THEOREM TypeCorrect == Spec => []TypeOK
<1>1. Init => TypeOK
  BY BoundAssumption DEF Init, TypeOK, Labels
<1>2. TypeOK /\ [Next]_vars => TypeOK'
  <2> SUFFICES ASSUME TypeOK, [Next]_vars PROVE TypeOK'
    OBVIOUS
  <2>1. CASE Next
    BY <2>1, StepCases, EnvironmentType, GateType, CallType, ReleaseType,
       PersistType, AbortType, StartType, RestartType
  <2>2. CASE UNCHANGED vars
    BY <2>2 DEF TypeOK, vars, rows, claims, results, handlers
  <2> QED BY <2>1, <2>2
<1> QED BY <1>1, <1>2, PTL DEF Spec

-----------------------------------------------------------------------------
(* What a step leaves alone.                                               *)
LEMMA FinishFrame ==
    ASSUME TypeOK, NEW h \in Handlers, Finish(h)
    PROVE  /\ pc'[h] = "idle"
           /\ \A g \in Handlers : pc'[g] # "idle" =>
                 g # h /\ pc'[g] = pc[g] /\ Pay(g)' = Pay(g) /\ Use(g)' = Use(g)
BY DEF TypeOK, Finish, Pay, Use

(* A step that moves a job on keeps what the job is.                       *)
LEMMA GotoFrame ==
    ASSUME TypeOK, NEW h \in Handlers, NEW l \in Labels, Goto(h, l)
    PROVE  /\ pc'[h] = l
           /\ \A g \in Handlers : /\ g # h => pc'[g] = pc[g]
                                  /\ Pay(g)' = Pay(g) /\ Use(g)' = Use(g)
BY DEF TypeOK, Goto, Pay, Use

(* A handler that starts is at "verify"; a restart starts none.            *)
LEMMA StartFrame ==
    ASSUME TypeOK,
           \/ \E c \in Clients : Request(c)
           \/ \E s \in Sweepers : Sweep(s) \/ SweepNext(s)
    PROVE  /\ UNCHANGED <<rows, claims, results, faults>>
           /\ \A g \in Handlers : pc'[g] \notin {"idle", "verify"} =>
                 pc'[g] = pc[g] /\ Pay(g)' = Pay(g) /\ Use(g)' = Use(g)
BY DEF TypeOK, Request, Sweep, SweepNext, Pay, Use, Handlers

(* After a restart a handler is idle or where it was.                      *)
LEMMA RestartFrame ==
    ASSUME TypeOK, NEW H \in SUBSET Handlers, Restart(H)
    PROVE  /\ UNCHANGED <<rows, claims, results>>
           /\ \A g \in Handlers : pc'[g] # "idle" =>
                 pc'[g] = pc[g] /\ Pay(g)' = Pay(g) /\ Use(g)' = Use(g)
BY DEF TypeOK, Restart, Pay, Use

(* The steps that only end a job.                                          *)
LEMMA AbortFrame ==
    ASSUME NEW h \in Handlers,
           \/ FibFails(h) \/ ReleaseFails(h) \/ PersistFails(h)
           \/ PersistCollides(h) \/ ClientAnswersTopup(h)
    PROVE  Finish(h) /\ UNCHANGED <<rows, claims, results>>
BY DEF FibFails, ReleaseFails, PersistFails, PersistCollides,
   ClientAnswersTopup

(* The labels the steps of a handler lead to.                              *)
LEMMA LabelsAre ==
    Labels = {"idle", "verify", "fib", "claim", "call", "release", "persist"}
BY DEF Labels

-----------------------------------------------------------------------------
(* The two kinds of claim exclude each other under every fault: the step   *)
(* that takes one reads the other on the same locked row.                  *)
LEMMA ClaimsExclusiveStep ==
    ASSUME TypeOK, ClaimsExclusive, [Next]_vars
    PROVE  ClaimsExclusive'
<1>1. ASSUME NEW h \in Handlers, GateStep(h)
      PROVE  ClaimsExclusive'
  <2>1. CASE Verify(h) \/ FibConfirms(h)
    BY <2>1 DEF Verify, FibConfirms, ClaimsExclusive, claims
  <2>2. CASE ClaimOrder(h)
    <3>1. topupClaim' = topupClaim /\ Pay(h) \in Payments
      BY <2>2, JobInProgress DEF ClaimOrder, At
    <3>2. \/ orderClaim' = orderClaim
          \/ /\ topupClaim[Pay(h)] = NoTx
             /\ orderClaim' = [orderClaim EXCEPT ![Pay(h)] = Use(h).tx]
      BY <2>2 DEF ClaimOrder, EnsureFreeForOrder
    <3> QED BY <3>1, <3>2 DEF ClaimsExclusive, TypeOK
  <2>3. CASE ClaimTopup(h)
    <3>1. orderClaim' = orderClaim /\ Pay(h) \in Payments
      BY <2>3, JobInProgress DEF ClaimTopup, At
    <3>2. \/ topupClaim' = topupClaim
          \/ /\ orderClaim[Pay(h)] = NoTx
             /\ topupClaim' = [topupClaim EXCEPT ![Pay(h)] = Use(h).tx]
      BY <2>3 DEF ClaimTopup, EnsureFreeForTopup
    <3> QED BY <3>1, <3>2 DEF ClaimsExclusive, TypeOK
  <2> QED BY <1>1, <2>1, <2>2, <2>3 DEF GateStep
<1>2. ASSUME NEW h \in Handlers, ReleaseStep(h)
      PROVE  ClaimsExclusive'
  BY <1>2 DEF ReleaseStep, ReleaseOrderClaim, ReleaseTopupClaim,
     ClaimsExclusive, TypeOK
<1>3. (\E p \in Payments : Environment(p)) => UNCHANGED claims
  BY DEF Environment, CustomerPays, Ledger!Pay, FibRefunds, Ledger!Refund,
     RecordPaid, Ledger!RecordPaid, RecordRefunded, Ledger!RecordRefunded,
     GraceEnds
<1>4. ASSUME NEW h \in Handlers,
             CallSucceeds(h) \/ CallRejected(h) \/ CallLost(h)
      PROVE  UNCHANGED claims
  BY <1>4 DEF CallSucceeds, CallRejected, CallLost
<1>5. ASSUME NEW h \in Handlers, ClientPersists(h) \/ FinalizerPersists(h)
      PROVE  UNCHANGED claims
  BY <1>5 DEF ClientPersists, FinalizerPersists, ClientPersistsOrder,
              FinalizerPersistsOrder, ClientAnswersTopup, MarkApplied
<1>6. UNCHANGED claims => ClaimsExclusive'
  BY DEF ClaimsExclusive, claims
<1>7. UNCHANGED vars => UNCHANGED claims
  BY DEF vars
<1> QED BY <1>1, <1>2, <1>3, <1>4, <1>5, <1>6, <1>7, StepCases, AbortFrame,
           StartFrame, RestartFrame

(* Under every fault and for any number of payments and handlers, no       *)
(* payment is claimed for an order and for a top-up at once.               *)
THEOREM ClaimsAreExclusive == Spec => []ClaimsExclusive
<1>1. Init => ClaimsExclusive
  BY DEF Init, ClaimsExclusive
<1>2. TypeOK /\ ClaimsExclusive /\ [Next]_vars => ClaimsExclusive'
  BY ClaimsExclusiveStep
<1> QED BY <1>1, <1>2, TypeCorrect, PTL DEF Spec

-----------------------------------------------------------------------------
(* One payment buys one thing, as long as none of its provider calls       *)
(* fails: its claim is then never released, so what is executed for it is  *)
(* what it is claimed for.  Other payments may meet any fault.             *)

(* Without refusals and lost answers no call fails.                        *)
LEMMA NoCallFails ==
    ASSUME Faults \cap {"reject", "lost"} = {}, NEW p \in Payments
    PROVE  ~CallFails(p)
BY DEF CallFails, CallRejected, CallLost, Fault

(* What a step does to the claims of a payment whose claim is kept.        *)
LEMMA ClaimStep ==
    ASSUME TypeOK, NEW p \in Payments, Reservation(p),
           NEW h \in Handlers, ClaimOrder(h) \/ ClaimTopup(h)
    PROVE  /\ \A u \in Purchases : Claimed(p, u) => Claimed(p, u)'
           /\ orderClaim[p] # NoTx => orderClaim'[p] = orderClaim[p]
           /\ \/ Finish(h)
              \/ /\ Goto(h, "call")
                 /\ Pay(h) = p => Claimed(p, Use(h))'
<1> DEFINE u == Use(h)
<1>1. Pay(h) \in Payments /\ u \in Purchases /\ u.tx \in Txns
  BY JobInProgress DEF ClaimOrder, ClaimTopup, At
<1>2. CASE ClaimOrder(h) /\ EnsureFreeForOrder(Pay(h), u.tx)
  <2>1. /\ UNCHANGED topupClaim /\ Goto(h, "call") /\ u.svc = "order"
        /\ orderClaim' = IF bound[Pay(h)] = u.tx
                         THEN orderClaim
                         ELSE [orderClaim EXCEPT ![Pay(h)] = u.tx]
    BY <1>2 DEF ClaimOrder, At, Use
  <2>2. CASE Pay(h) # p
    BY <1>1, <2>1, <2>2 DEF Claimed, TypeOK
  <2>3. CASE Pay(h) = p
    <3>1. orderClaim[p] \in {NoTx, u.tx}
      BY <1>1, <1>2, <2>3, SentinelAssumption DEF EnsureFreeForOrder,
         Reservation
    <3>2. orderClaim'[p] = u.tx
      BY <1>1, <2>1, <2>3, SentinelAssumption DEF Reservation, TypeOK
    <3>3. \A v \in Purchases : Claimed(p, v) => Claimed(p, v)'
      BY <2>1, <3>1, <3>2, SentinelAssumption DEF Claimed, Purchases
    <3>4. Use(h)' = u
      BY <2>1, GotoFrame, LabelsAre
    <3> QED BY <2>1, <3>1, <3>2, <3>3, <3>4 DEF Claimed
  <2> QED BY <2>2, <2>3
<1>3. CASE ClaimTopup(h) /\ EnsureFreeForTopup(Pay(h), u.tx)
  <2>1. /\ UNCHANGED orderClaim /\ Goto(h, "call") /\ u.svc = "topup"
        /\ topupClaim' = [topupClaim EXCEPT ![Pay(h)] = u.tx]
    BY <1>3 DEF ClaimTopup, At, Use
  <2>2. CASE Pay(h) # p
    BY <1>1, <2>1, <2>2 DEF Claimed, TypeOK
  <2>3. CASE Pay(h) = p
    <3>1. topupClaim[p] \in {NoTx, u.tx} /\ topupClaim'[p] = u.tx
      BY <1>1, <1>3, <2>1, <2>3 DEF EnsureFreeForTopup, TypeOK
    <3>2. \A v \in Purchases : Claimed(p, v) => Claimed(p, v)'
      BY <2>1, <3>1, SentinelAssumption DEF Claimed, Purchases
    <3>3. Use(h)' = u
      BY <2>1, GotoFrame, LabelsAre
    <3> QED BY <2>1, <3>1, <3>2, <3>3 DEF Claimed
  <2> QED BY <2>2, <2>3
<1>4. CASE \/ ClaimOrder(h) /\ ~EnsureFreeForOrder(Pay(h), u.tx)
           \/ ClaimTopup(h) /\ ~EnsureFreeForTopup(Pay(h), u.tx)
  BY <1>4 DEF ClaimOrder, ClaimTopup, Claimed
<1> QED BY <1>2, <1>3, <1>4

(* A step that moves no handler to "call", "persist" or "release" and      *)
(* keeps the payment's claims, link and purchases keeps its reservation.   *)
LEMMA ReservationFrame ==
    ASSUME NEW p \in Payments, Reservation(p), UNCHANGED <<claims, bound, spent>>,
           \A g \in Handlers : pc'[g] \in {"call", "persist", "release"} =>
               pc'[g] = pc[g] /\ Pay(g)' = Pay(g) /\ Use(g)' = Use(g)
    PROVE  Reservation(p)'
BY DEF Reservation, Claimed, claims

LEMMA ReservationStep ==
    ASSUME TypeOK, [Next]_vars,
           NEW p \in Payments, Reservation(p), ~CallFails(p)
    PROVE  Reservation(p)'
<1> USE LabelsAre
<1>1. ASSUME NEW q \in Payments, Environment(q)
      PROVE  Reservation(p)'
  BY <1>1, ReservationFrame DEF Environment, CustomerPays, Ledger!Pay,
     FibRefunds, Ledger!Refund, RecordPaid, Ledger!RecordPaid,
     RecordRefunded, Ledger!RecordRefunded, GraceEnds, results,
     handlers, Pay, Use
<1>2. ASSUME NEW h \in Handlers, Verify(h) \/ FibConfirms(h)
      PROVE  Reservation(p)'
  <2>1. \/ Finish(h)
        \/ Goto(h, "fib")
        \/ Goto(h, "claim")
    BY <1>2 DEF Verify, FibConfirms
  <2> QED BY <1>2, <2>1, FinishFrame, GotoFrame, ReservationFrame
          DEF Verify, FibConfirms, results
<1>3. ASSUME NEW h \in Handlers, ClaimOrder(h) \/ ClaimTopup(h)
      PROVE  Reservation(p)'
  <2>1. UNCHANGED <<bound, spent>>
    BY <1>3 DEF ClaimOrder, ClaimTopup, results
  <2>2. /\ \A u \in Purchases : Claimed(p, u) => Claimed(p, u)'
        /\ orderClaim[p] # NoTx => orderClaim'[p] = orderClaim[p]
    BY <1>3, ClaimStep
  <2>3. \/ Finish(h)
        \/ Goto(h, "call") /\ (Pay(h) = p => Claimed(p, Use(h))')
    BY <1>3, ClaimStep
  <2>4. bound'[p] # NoTx => orderClaim'[p] = bound'[p]
    BY <2>1, <2>2 DEF Reservation
  <2>5. \A u \in spent'[p] : Claimed(p, u)'
    BY <2>1, <2>2 DEF Reservation, TypeOK
  <2>6. ASSUME NEW g \in Handlers, pc'[g] \in {"call", "persist"}, Pay(g)' = p
        PROVE  Claimed(p, Use(g))'
    <3>1. CASE g = h
      BY <2>3, <2>6, <3>1, FinishFrame, GotoFrame
    <3>2. CASE g # h
      <4>1. pc'[g] = pc[g] /\ Pay(g)' = Pay(g) /\ Use(g)' = Use(g)
        BY <2>3, <2>6, <3>2, FinishFrame, GotoFrame
      <4>2. Claimed(p, Use(g)) /\ Use(g) \in Purchases
        BY <2>6, <4>1, JobInProgress DEF Reservation
      <4>3. Claimed(p, Use(g))' <=> \/ Use(g).svc = "order" /\ orderClaim'[p] = Use(g).tx
                                    \/ Use(g).svc = "topup" /\ topupClaim'[p] = Use(g).tx
        BY <4>1 DEF Claimed
      <4> QED BY <2>2, <4>2, <4>3 DEF Claimed
    <3> QED BY <3>1, <3>2
  <2>7. \A g \in Handlers : pc'[g] = "release" => Pay(g)' # p
    BY <2>3, FinishFrame, GotoFrame DEF Reservation
  <2> QED BY <2>4, <2>5, <2>6, <2>7 DEF Reservation
<1>4. ASSUME NEW h \in Handlers, CallSucceeds(h) \/ CallRejected(h) \/ CallLost(h)
      PROVE  Reservation(p)'
  <2>0. CallRejected(h) \/ CallLost(h) => Pay(h) # p
    BY DEF CallFails
  <2>1. /\ UNCHANGED <<claims, bound>> /\ pc[h] = "call"
        /\ Goto(h, "persist") \/ (Goto(h, "release") /\ Pay(h) # p)
        /\ UNCHANGED spent \/ Execute(h)
    BY <1>4, <2>0 DEF CallSucceeds, CallRejected, CallLost, results
  <2>2. Pay(h) = p => Claimed(p, Use(h))
    BY <2>1 DEF Reservation
  <2>3. \A u \in spent'[p] : Claimed(p, u)
    BY <2>1, <2>2, JobInProgress DEF Execute, Reservation, TypeOK
  <2>4. \A g \in Handlers : pc'[g] \in {"call", "persist"} /\ Pay(g)' = p =>
            Claimed(p, Use(g))'
    BY <2>1, <2>2, GotoFrame DEF Reservation, Claimed, claims
  <2>5. \A g \in Handlers : pc'[g] = "release" => Pay(g)' # p
    BY <2>1, GotoFrame DEF Reservation
  <2> QED BY <2>1, <2>3, <2>4, <2>5 DEF Reservation, Claimed, claims
<1>5. ASSUME NEW h \in Handlers, ReleaseStep(h)
      PROVE  Reservation(p)'
  <2>1. Finish(h) /\ UNCHANGED <<bound, spent>> /\ pc[h] = "release" /\ Pay(h) # p
    BY <1>5 DEF ReleaseStep, ReleaseOrderClaim, ReleaseTopupClaim, At,
       Reservation, results
  <2>2. orderClaim'[p] = orderClaim[p] /\ topupClaim'[p] = topupClaim[p]
    BY <1>5, <2>1 DEF ReleaseStep, ReleaseOrderClaim, ReleaseTopupClaim, TypeOK
  <2> QED BY <2>1, <2>2, FinishFrame DEF Reservation, Claimed
<1>6. ASSUME NEW h \in Handlers, ClientPersists(h) \/ FinalizerPersists(h)
      PROVE  Reservation(p)'
  <2>1. Finish(h) /\ UNCHANGED <<claims, spent>> /\ pc[h] = "persist"
    BY <1>6 DEF ClientPersists, FinalizerPersists, ClientPersistsOrder,
       FinalizerPersistsOrder, ClientAnswersTopup, MarkApplied, results, At
  <2>2. bound'[p] # NoTx => orderClaim'[p] = bound'[p]
    <3>1. CASE ClientPersistsOrder(h) \/ FinalizerPersistsOrder(h)
      <4>1. SaveAndLink(h) /\ At(h, "persist", "order")
        BY <3>1 DEF ClientPersistsOrder, FinalizerPersistsOrder
      <4>2. Pay(h) = p => orderClaim[p] = Use(h).tx
        BY <4>1 DEF Reservation, Claimed, At, Use, Pay
      <4> QED BY <2>1, <4>1, <4>2 DEF SaveAndLink, Reservation, claims,
              TypeOK
    <3>2. CASE ClientAnswersTopup(h) \/ MarkApplied(h)
      BY <2>1, <3>2 DEF ClientAnswersTopup, MarkApplied, Reservation,
         claims, results
    <3> QED BY <1>6, <3>1, <3>2 DEF ClientPersists, FinalizerPersists
  <2> QED BY <2>1, <2>2, FinishFrame DEF Reservation, Claimed, claims
<1>7. ASSUME NEW h \in Handlers,
             FibFails(h) \/ ReleaseFails(h) \/ PersistFails(h) \/ PersistCollides(h)
      PROVE  Reservation(p)'
  BY <1>7, AbortFrame, FinishFrame, ReservationFrame DEF results
<1>8. ASSUME \/ \E c \in Clients : Request(c)
             \/ \E s \in Sweepers : Sweep(s) \/ SweepNext(s)
      PROVE  Reservation(p)'
  BY <1>8, StartFrame, ReservationFrame DEF results
<1>9. ASSUME NEW H \in SUBSET Handlers, Restart(H)
      PROVE  Reservation(p)'
  BY <1>9, RestartFrame, ReservationFrame DEF results
<1>10. CASE UNCHANGED vars
  BY <1>10, ReservationFrame DEF vars, results, handlers, Pay, Use
<1> QED BY <1>1, <1>2, <1>3, <1>4, <1>5, <1>6, <1>7, <1>8, <1>9, <1>10,
           StepCases DEF GateStep

(* Two purchases a payment is claimed for are the same purchase.           *)
LEMMA ReservationMeansOneSpend ==
    ASSUME TypeOK, ClaimsExclusive, NEW p \in Payments, Reservation(p)
    PROVE  \A u, v \in spent[p] : u = v
<1> SUFFICES ASSUME NEW u \in spent[p], NEW v \in spent[p]
             PROVE  u = v
  OBVIOUS
<1>1. u \in Purchases /\ v \in Purchases
  BY DEF TypeOK
<1>2. Claimed(p, u) /\ Claimed(p, v)
  BY DEF Reservation
<1>3. u.svc = v.svc /\ u.tx = v.tx
  BY <1>1, <1>2, SentinelAssumption DEF Claimed, ClaimsExclusive, Purchases,
     Services
<1> QED BY <1>1, <1>3 DEF Purchases

(* A payment none of whose own provider calls is refused or lost buys at   *)
(* most one thing, whatever fails for the other payments and whatever the  *)
(* requests, sweeps, restarts and database errors.                         *)
THEOREM OneSpendUnlessItsCallFails ==
    ASSUME NEW p \in Payments
    PROVE  Spec /\ [][~CallFails(p)]_vars => [](\A u, v \in spent[p] : u = v)
<1>1. Init => Reservation(p)
  BY DEF Init, Reservation
<1>2. TypeOK /\ Reservation(p) /\ [Next]_vars /\ [~CallFails(p)]_vars
          => Reservation(p)'
  <2>1. Reservation(p) /\ UNCHANGED vars => Reservation(p)'
    BY ReservationFrame DEF vars, results, handlers, Pay, Use
  <2> QED BY <2>1, ReservationStep
<1>3. TypeOK /\ ClaimsExclusive /\ Reservation(p) => \A u, v \in spent[p] : u = v
  BY ReservationMeansOneSpend
<1> QED BY <1>1, <1>2, <1>3, TypeCorrect, ClaimsAreExclusive, PTL DEF Spec

(* If no provider call fails at all, every payment buys at most one thing: *)
(* whatever the requests, sweeps, restarts and database errors.            *)
THEOREM OneSpend ==
    ASSUME Faults \cap {"reject", "lost"} = {}
    PROVE  Spec => []OneSpendPerPayment
<1> DEFINE Inv == \A p \in Payments : Reservation(p)
<1>1. Init => Inv
  BY DEF Init, Reservation
<1>2. TypeOK /\ Inv /\ [Next]_vars => Inv'
  BY ReservationStep, NoCallFails
<1>3. TypeOK /\ ClaimsExclusive /\ Inv => OneSpendPerPayment
  BY ReservationMeansOneSpend DEF OneSpendPerPayment
<1> HIDE DEF Inv
<1> QED BY <1>1, <1>2, <1>3, TypeCorrect, ClaimsAreExclusive, PTL DEF Spec

-----------------------------------------------------------------------------
(* Credit is spent only for a recorded, confirmed and priced payment: what *)
(* the gate saw is never undone, since a row is never deleted and FIB      *)
(* never takes a payment back to unpaid.                                   *)
LEMMA GateStepInv ==
    ASSUME TypeOK, GateInv, [Next]_vars
    PROVE  GateInv'
<1>1. ASSUME NEW p \in Payments, Environment(p)
      PROVE  GateInv'
  <2>1. \A q \in Payments : /\ status[q] # "absent" => status'[q] # "absent"
                            /\ fib[q] # "unpaid" => fib'[q] # "unpaid"
    BY <1>1 DEF TypeOK, Environment, CustomerPays, Ledger!Pay, FibRefunds,
       Ledger!Refund, RecordPaid, Ledger!RecordPaid,
                RecordRefunded, Ledger!RecordRefunded, GraceEnds
  <2>2. UNCHANGED <<pc, job, spent>>
    BY <1>1 DEF Environment, CustomerPays, Ledger!Pay, FibRefunds,
       Ledger!Refund, RecordPaid, Ledger!RecordPaid, RecordRefunded,
       Ledger!RecordRefunded,
                GraceEnds, handlers, results
  <2>3. \A h \in Handlers : /\ pc'[h] = pc[h] /\ Pay(h)' = Pay(h)
                            /\ pc[h] # "idle" => Pay(h) \in Payments
    BY <2>2, JobInProgress DEF Pay
  <2> QED BY <2>1, <2>2, <2>3 DEF GateInv, SpendIsPaidFor
<1>2. ASSUME NEW h \in Handlers, GateStep(h)
      PROVE  GateInv'
  <2>1. UNCHANGED <<rows, results>>
    BY <1>2 DEF GateStep, Verify, FibConfirms, ClaimOrder, ClaimTopup
  <2>2. CASE Verify(h)
    <3>1. Finish(h) \/ (status[Pay(h)] # "absent" /\ Goto(h, "fib"))
      BY <2>2 DEF Verify
    <3> QED BY <2>1, <3>1, FinishFrame, GotoFrame, LabelsAre
            DEF GateInv, SpendIsPaidFor, rows, results
  <2>3. CASE FibConfirms(h)
    <3>1. \/ Finish(h)
          \/ fib[Pay(h)] = "paid" /\ Pay(h) \in Priced /\ Goto(h, "claim")
      BY <2>3 DEF FibConfirms
    <3>2. pc[h] = "fib"
      BY <2>3 DEF FibConfirms
    <3> QED BY <2>1, <3>1, <3>2, FinishFrame, GotoFrame, LabelsAre
            DEF GateInv, SpendIsPaidFor, rows, results
  <2>4. CASE ClaimOrder(h) \/ ClaimTopup(h)
    <3>1. pc[h] = "claim" /\ (Finish(h) \/ Goto(h, "call"))
      BY <2>4 DEF ClaimOrder, ClaimTopup, At
    <3> QED BY <2>1, <3>1, FinishFrame, GotoFrame, LabelsAre
            DEF GateInv, SpendIsPaidFor, rows, results
  <2> QED BY <1>2, <2>2, <2>3, <2>4 DEF GateStep
<1>3. ASSUME NEW h \in Handlers, CallSucceeds(h) \/ CallRejected(h)
                                   \/ CallLost(h)
      PROVE  GateInv'
  <2>1. /\ pc[h] = "call" /\ UNCHANGED rows
        /\ Goto(h, "persist") \/ Goto(h, "release")
        /\ Execute(h) \/ UNCHANGED spent
    BY <1>3 DEF CallSucceeds, CallRejected, CallLost, results
  <2>2. SpendIsPaidFor'
    BY <2>1 DEF Execute, GateInv, SpendIsPaidFor, rows, TypeOK
  <2> QED BY <2>1, <2>2, GotoFrame, LabelsAre DEF GateInv, rows
<1>4. ASSUME NEW h \in Handlers,
             \/ ReleaseStep(h) \/ ClientPersists(h) \/ FinalizerPersists(h)
             \/ FibFails(h) \/ ReleaseFails(h) \/ PersistFails(h) \/ PersistCollides(h)
      PROVE  GateInv'
  <2>1. Finish(h) /\ UNCHANGED <<rows, spent>>
    BY <1>4, AbortFrame DEF ReleaseStep, ReleaseOrderClaim, ReleaseTopupClaim,
       ClientPersists,
       FinalizerPersists, ClientPersistsOrder, FinalizerPersistsOrder, MarkApplied, results
  <2> QED BY <2>1, FinishFrame DEF GateInv, SpendIsPaidFor, rows
<1>5. ASSUME \/ \E c \in Clients : Request(c)
             \/ \E s \in Sweepers : Sweep(s) \/ SweepNext(s)
             \/ \E H \in SUBSET Handlers : Restart(H)
      PROVE  GateInv'
  BY <1>5, StartFrame, RestartFrame DEF GateInv, SpendIsPaidFor, rows, results
<1>6. CASE UNCHANGED vars
  BY <1>6 DEF GateInv, SpendIsPaidFor, vars, rows, results, handlers, Pay
<1> QED BY <1>1, <1>2, <1>3, <1>4, <1>5, <1>6, StepCases

(* Under every fault, provider credit is spent only for payments that were *)
(* recorded, confirmed by FIB and priced as the server quotes them.        *)
THEOREM SpendsArePaidFor == Spec => []SpendIsPaidFor
<1>1. Init => GateInv
  BY DEF Init, GateInv, SpendIsPaidFor
<1>2. TypeOK /\ GateInv /\ [Next]_vars => GateInv'
  BY GateStepInv
<1>3. GateInv => SpendIsPaidFor
  BY DEF GateInv
<1> QED BY <1>1, <1>2, <1>3, TypeCorrect, PTL DEF Spec

-----------------------------------------------------------------------------
(* A saved order was bought with the one payment that is linked to it.     *)
LEMMA BoughtStep ==
    ASSUME TypeOK, BoughtInv, [Next]_vars
    PROVE  BoughtInv'
<1> DEFINE JobsInv == \A h \in Handlers :
               /\ pc[h] # "idle" => Use(h) \in PurchasesOf(Pay(h))
               /\ pc[h] = "persist" => Use(h) \in spent[Pay(h)]
           SpentInv == \A p \in Payments : spent[p] \subseteq PurchasesOf(p)
<1>0. /\ BoughtInv <=> JobsInv /\ SpentInv /\ DeliveryIsBought
      /\ BoughtInv' <=> JobsInv' /\ SpentInv' /\ DeliveryIsBought'
  BY DEF BoughtInv
<1>1. ASSUME UNCHANGED results PROVE SpentInv' /\ DeliveryIsBought'
  BY <1>0, <1>1 DEF DeliveryIsBought, results
<1>2. ASSUME NEW h \in Handlers, Finish(h), UNCHANGED spent PROVE JobsInv'
  BY <1>0, <1>2, FinishFrame
<1>3. ASSUME NEW p \in Payments, Environment(p)
      PROVE  BoughtInv'
  <2>1. UNCHANGED <<pc, job, results>>
    BY <1>3 DEF Environment, CustomerPays, Ledger!Pay, FibRefunds,
       Ledger!Refund, RecordPaid, Ledger!RecordPaid, RecordRefunded,
       Ledger!RecordRefunded,
                GraceEnds, handlers
  <2> QED BY <1>0, <1>1, <2>1 DEF results, Pay, Use
<1>4. ASSUME NEW h \in Handlers, GateStep(h)
      PROVE  BoughtInv'
  <2>1. /\ UNCHANGED results /\ pc[h] # "idle"
        /\ Finish(h) \/ Goto(h, "fib") \/ Goto(h, "claim") \/ Goto(h, "call")
    BY <1>4 DEF GateStep, Verify, FibConfirms, ClaimOrder, ClaimTopup, At
  <2> QED BY <1>0, <1>1, <1>2, <2>1, GotoFrame, LabelsAre DEF results
<1>5. ASSUME NEW h \in Handlers, CallSucceeds(h) \/ CallRejected(h)
                                   \/ CallLost(h)
      PROVE  BoughtInv'
  <2>1. pc[h] = "call" /\ Pay(h) \in Payments /\ Use(h) \in PurchasesOf(Pay(h))
    BY <1>0, <1>5, JobInProgress DEF CallSucceeds, CallRejected, CallLost
  <2>2. /\ UNCHANGED <<applied, bound, orders>>
        /\ \/ Execute(h) /\ (Goto(h, "persist") \/ Goto(h, "release"))
           \/ UNCHANGED spent /\ Goto(h, "release")
    BY <1>5 DEF CallSucceeds, CallRejected, CallLost, results
  <2>3. \A p \in Payments : spent[p] \subseteq spent'[p]
    BY <2>2 DEF Execute, TypeOK
  <2>4. SpentInv'
    BY <1>0, <2>1, <2>2 DEF Execute, TypeOK
  <2>5. DeliveryIsBought'
    BY <1>0, <2>2, <2>3 DEF DeliveryIsBought
  <2>6. JobsInv'
    <3>1. \A g \in Handlers : pc'[g] # "idle" => Use(g)' \in PurchasesOf(Pay(g)')
      BY <1>0, <2>1, <2>2, GotoFrame, LabelsAre
    <3>2. Execute(h) => Use(h) \in spent'[Pay(h)]
      BY <2>1 DEF Execute, TypeOK
    <3>3. \A g \in Handlers : pc'[g] = "persist" => Use(g)' \in spent'[Pay(g)']
      <4> SUFFICES ASSUME NEW g \in Handlers, pc'[g] = "persist"
                   PROVE  Use(g)' \in spent'[Pay(g)']
        OBVIOUS
      <4>1. Pay(g)' = Pay(g) /\ Use(g)' = Use(g)
        BY <2>2, GotoFrame, LabelsAre
      <4>2. CASE g = h
        BY <2>2, <3>2, <4>1, <4>2, GotoFrame, LabelsAre
      <4>3. CASE g # h
        <5>1. pc[g] = "persist"
          BY <2>2, <4>3, GotoFrame, LabelsAre
        <5> QED BY <1>0, <2>3, <4>1, <5>1, JobInProgress
      <4> QED BY <4>2, <4>3
    <3> QED BY <3>1, <3>3
  <2> QED BY <1>0, <2>4, <2>5, <2>6
<1>6. ASSUME NEW h \in Handlers, ReleaseStep(h)
      PROVE  BoughtInv'
  BY <1>0, <1>1, <1>2, <1>6 DEF ReleaseStep, ReleaseOrderClaim,
     ReleaseTopupClaim, results
<1>7. ASSUME NEW h \in Handlers, ClientPersistsOrder(h) \/ FinalizerPersistsOrder(h)
      PROVE  BoughtInv'
  <2>1. /\ At(h, "persist", "order") /\ SaveAndLink(h) /\ Finish(h)
        /\ UNCHANGED <<applied, spent>>
    BY <1>7 DEF ClientPersistsOrder, FinalizerPersistsOrder
  <2>2. /\ Pay(h) \in Payments /\ Use(h) \in Purchases /\ Use(h).svc = "order"
        /\ Use(h).tx \in Txns
        /\ Use(h) \in spent[Pay(h)]
    BY <1>0, <2>1, JobInProgress DEF At, Use
  <2>3. Use(h) = [svc |-> "order", tx |-> Use(h).tx]
    BY <2>2 DEF Purchases
  <2>4. CASE bound[Pay(h)] \in {NoTx, Use(h).tx}
    <3>1. /\ orders' = orders \cup {Use(h).tx}
          /\ bound' = [bound EXCEPT ![Pay(h)] = Use(h).tx]
      BY <2>1, <2>4 DEF SaveAndLink
    <3>2. ASSUME NEW q \in Payments, bound[q] = Use(h).tx
          PROVE  q = Pay(h)
      <4>1. [svc |-> "order", tx |-> bound[q]] \in spent[q]
        BY <1>0, <2>2, <3>2, SentinelAssumption DEF DeliveryIsBought
      <4>2. [svc |-> "order", tx |-> bound[q]] \in PurchasesOf(q)
        BY <1>0, <4>1
      <4>3. Use(h) \in PurchasesOf(Pay(h))
        BY <1>0, <2>2
      <4> QED BY <2>2, <3>2, <4>2, <4>3, MintAssumption
    <3>3. DeliveryIsBought'
      <4> SUFFICES ASSUME NEW p \in Payments
                   PROVE  /\ bound'[p] # NoTx =>
                                /\ bound'[p] \in orders'
                                /\ [svc |-> "order", tx |-> bound'[p]] \in spent'[p]
                                /\ \A q \in Payments : bound'[q] = bound'[p] => q = p
                          /\ p \in applied' => \E u \in spent'[p] : u.svc = "topup"
        BY DEF DeliveryIsBought
      <4>1. CASE p = Pay(h)
        BY <1>0, <2>1, <2>2, <2>3, <3>1, <3>2, <4>1 DEF DeliveryIsBought,
           TypeOK
      <4>2. CASE p # Pay(h)
        BY <1>0, <2>1, <2>2, <3>1, <3>2, <4>2, SentinelAssumption
           DEF DeliveryIsBought, TypeOK
      <4> QED BY <4>1, <4>2
    <3> QED BY <1>0, <1>2, <2>1, <3>3
  <2>5. CASE bound[Pay(h)] \notin {NoTx, Use(h).tx}
    <3>1. UNCHANGED results
      BY <2>1, <2>5 DEF SaveAndLink, results
    <3> QED BY <1>0, <1>1, <1>2, <2>1, <3>1
  <2> QED BY <2>4, <2>5
<1>8. ASSUME NEW h \in Handlers, MarkApplied(h)
      PROVE  BoughtInv'
  <2>1. /\ applied' = applied \cup {Pay(h)} /\ Finish(h)
        /\ UNCHANGED <<bound, orders, spent>> /\ At(h, "persist", "topup")
    BY <1>8 DEF MarkApplied
  <2>2. Use(h) \in spent[Pay(h)] /\ Use(h).svc = "topup"
    BY <1>0, <2>1 DEF At, Use
  <2>3. DeliveryIsBought'
    BY <1>0, <2>1, <2>2 DEF DeliveryIsBought
  <2> QED BY <1>0, <1>2, <2>1, <2>3
<1>9. ASSUME NEW h \in Handlers,
             \/ FibFails(h) \/ ReleaseFails(h) \/ PersistFails(h)
             \/ PersistCollides(h) \/ ClientAnswersTopup(h)
      PROVE  BoughtInv'
  BY <1>0, <1>1, <1>2, <1>9, AbortFrame DEF results
<1>10. ASSUME NEW c \in Clients, Request(c)
       PROVE  BoughtInv'
  <2>0. PICK p \in Payments : \E u \in Uses[p] :
            job' = [job EXCEPT ![c] = [pay |-> p, use |-> u]]
    BY <1>10 DEF Request
  <2>1. PICK u \in Uses[p] : job' = [job EXCEPT ![c] = [pay |-> p, use |-> u]]
    BY <2>0
  <2>2. u \in PurchasesOf(p)
    BY DEF PurchasesOf
  <2>3. UNCHANGED results /\ pc' = [pc EXCEPT ![c] = "verify"]
    BY <1>10 DEF Request
  <2>4. JobsInv'
    BY <1>0, <2>1, <2>2, <2>3 DEF TypeOK, Handlers, Pay, Use, results
  <2> QED BY <1>0, <1>1, <2>3, <2>4
<1>11. ASSUME NEW s \in Sweepers, Sweep(s)
       PROVE  BoughtInv'
  BY <1>0, <1>1, <1>11 DEF Sweep, Pay, Use, results
<1>12. ASSUME NEW s \in Sweepers, SweepNext(s)
       PROVE  BoughtInv'
  <2>1. PICK p \in queue[s] :
            IF OrderEligible(p) \/ TopupEligible(p)
            THEN /\ pc' = [pc EXCEPT ![s] = "verify"]
                 /\ job' = [job EXCEPT ![s] = [pay |-> p, use |-> Intent[p]]]
            ELSE UNCHANGED <<pc, job>>
    BY <1>12 DEF SweepNext
  <2>2. OrderEligible(p) \/ TopupEligible(p) => Intent[p] \in PurchasesOf(p)
    BY DEF OrderEligible, TopupEligible, PurchasesOf
  <2>3. UNCHANGED results
    BY <1>12 DEF SweepNext
  <2>4. JobsInv'
    BY <1>0, <2>1, <2>2, <2>3 DEF TypeOK, Handlers, Pay, Use, results
  <2> QED BY <1>0, <1>1, <2>3, <2>4
<1>13. ASSUME NEW H \in SUBSET Handlers, Restart(H)
       PROVE  BoughtInv'
  BY <1>0, <1>1, <1>13, RestartFrame DEF results
<1>14. CASE UNCHANGED vars
  BY <1>0, <1>1, <1>14 DEF vars, results, handlers, Pay, Use
<1> QED BY <1>3, <1>4, <1>5, <1>6, <1>7, <1>8, <1>9, <1>10, <1>11, <1>12,
<1>13, <1>14,
           StepCases DEF ClientPersists, FinalizerPersists

(* Under every fault, an order that a payment is linked to was bought with *)
(* that payment and with no other one.                                     *)
THEOREM DeliveriesAreBought == Spec => []DeliveryIsBought
<1>1. Init => BoughtInv
  BY DEF Init, BoughtInv, DeliveryIsBought
<1>2. TypeOK /\ BoughtInv /\ [Next]_vars => BoughtInv'
  BY BoughtStep
<1>3. BoughtInv => DeliveryIsBought
  BY DEF BoughtInv
<1> QED BY <1>1, <1>2, <1>3, TypeCorrect, PTL DEF Spec

-----------------------------------------------------------------------------
(* What a step does to the history of failed calls.                        *)
LEMMA FailuresCount ==
    ASSUME HistoryTypeOK, HistoryNext, NEW p \in Payments
    PROVE  /\ failures[p] \in Nat /\ failures'[p] \in Nat
           /\ failures[p] <= failures'[p]
           /\ failures'[p] = IF CallFails(p) THEN failures[p] + 1 ELSE failures[p]
<1>1. failures[p] \in Nat
  BY DEF HistoryTypeOK
<1>2. failures'[p] = IF CallFails(p) THEN failures[p] + 1 ELSE failures[p]
  BY DEF HistoryNext
<1> QED BY <1>1, <1>2

LEMMA HistoryType == HistorySpec => []HistoryTypeOK
<1>1. HistoryInit => HistoryTypeOK
  BY DEF HistoryInit, HistoryTypeOK
<1>2. HistoryTypeOK /\ [HistoryNext]_<<vars, failures>> => HistoryTypeOK'
  BY DEF HistoryTypeOK, HistoryNext
<1> QED BY <1>1, <1>2, PTL DEF HistorySpec

(* The history only watches.                                               *)
LEMMA HistoryWatches == HistorySpec => Spec
<1>1. HistoryInit => Init
  BY DEF HistoryInit
<1>2. [HistoryNext]_<<vars, failures>> => [Next]_vars
  BY DEF HistoryNext
<1> QED BY <1>1, <1>2, PTL DEF HistorySpec, Spec

(* What the sets of BalanceInv gain or lose, and the failures that account *)
(* for it.                                                                 *)
LEMMA BalanceMoves ==
    ASSUME NEW p \in Payments, IsFiniteSet(Chosen(p)), IsFiniteSet(Releasing(p)),
           Balance(p) <= failures[p] + IF Unclaimed(p) THEN 0 ELSE 1,
           failures[p] \in Nat, failures'[p] \in Nat, NEW u, NEW h,
           \/ /\ Chosen(p)' \subseteq Chosen(p) /\ Releasing(p)' \subseteq Releasing(p)
              /\ failures[p] <= failures'[p] /\ (Unclaimed(p)' => Unclaimed(p))
           \/ /\ Chosen(p)' \subseteq Chosen(p) \cup {u}
              /\ Releasing(p)' \subseteq Releasing(p)
              /\ failures[p] <= failures'[p] /\ Unclaimed(p) /\ ~ Unclaimed(p)'
           \/ /\ Chosen(p)' \subseteq Chosen(p)
              /\ Releasing(p)' \subseteq Releasing(p) \cup {h}
              /\ failures[p] + 1 <= failures'[p] /\ (Unclaimed(p)' => Unclaimed(p))
           \/ /\ Chosen(p)' \subseteq Chosen(p)
              /\ Releasing(p)' \subseteq Releasing(p) \ {h} /\ h \in Releasing(p)
              /\ failures[p] <= failures'[p]
    PROVE  /\ IsFiniteSet(Chosen(p)') /\ IsFiniteSet(Releasing(p)')
           /\ Balance(p)' <= failures'[p] + IF Unclaimed(p)' THEN 0 ELSE 1
<1> DEFINE C  == Chosen(p)
           R  == Releasing(p)
           C2 == Chosen(p)'
           R2 == Releasing(p)'
<1>1. /\ Cardinality(C) \in Nat /\ Cardinality(R) \in Nat
      /\ Cardinality(C) + Cardinality(R) <= failures[p] + IF Unclaimed(p) THEN 0 ELSE 1
      /\ IsFiniteSet(C) /\ IsFiniteSet(R)
  BY FS_CardinalityType DEF Balance
<1>2. /\ IsFiniteSet(C \cup {u}) /\ Cardinality(C \cup {u}) \in Nat
      /\ Cardinality(C \cup {u}) <= Cardinality(C) + 1
  <2>1. /\ IsFiniteSet(C \cup {u})
        /\ Cardinality(C \cup {u}) = IF u \in C THEN Cardinality(C) ELSE Cardinality(C) + 1
    BY <1>1, FS_AddElement
  <2> HIDE DEF C
  <2> QED BY <1>1, <2>1
<1>3. /\ IsFiniteSet(R \cup {h}) /\ Cardinality(R \cup {h}) \in Nat
      /\ Cardinality(R \cup {h}) <= Cardinality(R) + 1
  <2>1. /\ IsFiniteSet(R \cup {h})
        /\ Cardinality(R \cup {h}) = IF h \in R THEN Cardinality(R) ELSE Cardinality(R) + 1
    BY <1>1, FS_AddElement
  <2> HIDE DEF R
  <2> QED BY <1>1, <2>1
<1>4. /\ IsFiniteSet(R \ {h}) /\ Cardinality(R \ {h}) \in Nat
      /\ h \in R => Cardinality(R \ {h}) = Cardinality(R) - 1
  <2>1. IsFiniteSet(R \ {h}) /\ (h \in R => Cardinality(R \ {h}) = Cardinality(R) - 1)
    BY <1>1, FS_RemoveElement
  <2> QED BY <2>1, FS_CardinalityType
<1>5. /\ C2 \subseteq C => IsFiniteSet(C2) /\ Cardinality(C2) <= Cardinality(C)
      /\ C2 \subseteq C \cup {u} => IsFiniteSet(C2) /\ Cardinality(C2) <= Cardinality(C \cup {u})
      /\ R2 \subseteq R => IsFiniteSet(R2) /\ Cardinality(R2) <= Cardinality(R)
      /\ R2 \subseteq R \cup {h} => IsFiniteSet(R2) /\ Cardinality(R2) <= Cardinality(R \cup {h})
      /\ R2 \subseteq R \ {h} => IsFiniteSet(R2) /\ Cardinality(R2) <= Cardinality(R \ {h})
  BY <1>1, <1>2, <1>3, <1>4, FS_Subset
<1>6. IsFiniteSet(C2) /\ IsFiniteSet(R2)
  BY <1>5
<1>7. Cardinality(C2) \in Nat /\ Cardinality(R2) \in Nat
  BY <1>6, FS_CardinalityType
<1>8. Balance(p)' = Cardinality(C2) + Cardinality(R2)
  BY DEF Balance
<1> HIDE DEF C, R, C2, R2
<1>9. Cardinality(C2) + Cardinality(R2) <= failures'[p] + IF Unclaimed(p)' THEN 0 ELSE 1
  BY <1>1, <1>2, <1>3, <1>4, <1>5, <1>7 DEF C, R, C2, R2
<1> QED BY <1>6, <1>8, <1>9 DEF C2, R2

(* A handler that can call or release after a step could before, but for   *)
(* those that the step is about.                                           *)
LEMMA BalanceFrame ==
    ASSUME TypeOK, NEW p \in Payments,
           \A u \in Purchases : Claimed(p, u)' => u \in Chosen(p),
           \A u \in spent'[p] : u \in Chosen(p),
           \A g \in Handlers : pc'[g] = "call" /\ Pay(g)' = p => Use(g)' \in Chosen(p)
    PROVE  Chosen(p)' \subseteq Chosen(p)
BY DEF Chosen

LEMMA InCall ==
    ASSUME TypeOK, NEW h \in Handlers, pc[h] = "call"
    PROVE  Use(h) \in Chosen(Pay(h))
BY JobInProgress DEF Chosen

(* Most steps start no call and drop no claim.                             *)
LEMMA BalanceKept ==
    ASSUME HistoryTypeOK, HistoryNext, BalanceInv, NEW p \in Payments,
           UNCHANGED <<claims, spent>>,
           \A g \in Handlers : pc'[g] \in {"call", "release"} =>
               pc'[g] = pc[g] /\ Pay(g)' = Pay(g) /\ Use(g)' = Use(g)
    PROVE  /\ IsFiniteSet(Chosen(p)') /\ IsFiniteSet(Releasing(p)')
           /\ Balance(p)' <= failures'[p] + IF Unclaimed(p)' THEN 0 ELSE 1
<1>1. Chosen(p)' \subseteq Chosen(p)
  BY DEF Chosen, Claimed, claims
<1>2. Releasing(p)' \subseteq Releasing(p)
  BY DEF Releasing
<1>3. Unclaimed(p)' => Unclaimed(p)
  BY DEF Unclaimed, claims
<1> QED BY <1>1, <1>2, <1>3, FailuresCount, BalanceMoves DEF BalanceInv

(* Taking a claim lets a purchase in, if the payment was not claimed.      *)
LEMMA BalanceClaims ==
    ASSUME TypeOK, HistoryTypeOK, HistoryNext, BalanceInv, BoughtInv,
           NEW p \in Payments, NEW h \in Handlers, ClaimOrder(h) \/ ClaimTopup(h)
    PROVE  /\ IsFiniteSet(Chosen(p)') /\ IsFiniteSet(Releasing(p)')
           /\ Balance(p)' <= failures'[p] + IF Unclaimed(p)' THEN 0 ELSE 1
<1>1. /\ pc[h] = "claim" /\ UNCHANGED <<rows, results, faults>>
      /\ Finish(h) \/ Goto(h, "call")
  BY DEF ClaimOrder, ClaimTopup, At
<1>2. Pay(h) \in Payments /\ Use(h) \in Purchases /\ Use(h).tx \in Txns
  BY <1>1, JobInProgress
<1>3. /\ spent' = spent /\ bound' = bound
      /\ failures[p] \in Nat /\ failures'[p] \in Nat /\ failures[p] <= failures'[p]
  BY <1>1, FailuresCount DEF results
<1>4. CASE Finish(h) /\ UNCHANGED claims
  BY <1>3, <1>4, FinishFrame, BalanceKept
<1>5. CASE Goto(h, "call")
  <2>1. /\ pc'[h] = "call"
        /\ \A g \in Handlers : /\ g # h => pc'[g] = pc[g]
                               /\ Pay(g)' = Pay(g) /\ Use(g)' = Use(g)
    BY <1>5, GotoFrame, LabelsAre
  <2>2. Releasing(p)' \subseteq Releasing(p)
    BY <2>1 DEF Releasing
  <2>3. CASE p # Pay(h)
    <3>1. orderClaim'[p] = orderClaim[p] /\ topupClaim'[p] = topupClaim[p]
      BY <1>2, <2>3 DEF ClaimOrder, ClaimTopup, TypeOK
    <3>2. Chosen(p)' \subseteq Chosen(p)
      BY <1>3, <2>1, <2>3, <3>1 DEF Chosen, Claimed
    <3>3. Unclaimed(p)' => Unclaimed(p)
      BY <3>1 DEF Unclaimed
    <3> QED BY <1>3, <2>2, <3>2, <3>3, BalanceMoves DEF BalanceInv
  <2>4. CASE p = Pay(h)
    <3> DEFINE u == Use(h)
    <3>1. u \in Purchases /\ u = [svc |-> u.svc, tx |-> u.tx] /\ u.tx \in Txns /\ u.tx # NoTx
      BY <1>2, SentinelAssumption DEF Purchases
    <3>2. \/ /\ u \in spent[p] /\ UNCHANGED claims
          \/ /\ Claimed(p, u) \/ Unclaimed(p)
             /\ \A v \in Purchases : Claimed(p, v)' => v = u
             /\ ~ Unclaimed(p)'
      <4>1. CASE ClaimOrder(h)
        <5>1. /\ u.svc = "order" /\ topupClaim' = topupClaim
              /\ EnsureFreeForOrder(p, u.tx)
              /\ orderClaim' = IF bound[p] = u.tx THEN orderClaim
                               ELSE [orderClaim EXCEPT ![p] = u.tx]
          <6>1. ~ Finish(h)
            BY <2>1, FinishFrame
          <6> QED BY <2>4, <4>1, <6>1 DEF ClaimOrder, At, Use
        <5>2. CASE bound[p] = u.tx
          <6>1. [svc |-> "order", tx |-> bound[p]] \in spent[p]
            BY <3>1, <5>2 DEF BoughtInv, DeliveryIsBought
          <6> QED BY <3>1, <5>1, <5>2, <6>1 DEF claims
        <5>3. CASE bound[p] # u.tx
          <6>1. topupClaim[p] = NoTx /\ orderClaim[p] \in {NoTx, u.tx}
            BY <5>1, <5>3 DEF EnsureFreeForOrder
          <6>2. orderClaim'[p] = u.tx /\ topupClaim'[p] = NoTx
            BY <5>1, <5>3, <6>1 DEF TypeOK
          <6>3. ASSUME NEW v \in Purchases, Claimed(p, v)'
                PROVE  v = u
            <7>1. v = [svc |-> v.svc, tx |-> v.tx] /\ v.tx \in Txns
              BY DEF Purchases
            <7>2. v.svc = "order" /\ v.tx = u.tx
              BY <6>2, <6>3, <7>1, SentinelAssumption DEF Claimed
            <7> QED BY <3>1, <5>1, <7>1, <7>2
          <6>4. Claimed(p, u) \/ Unclaimed(p)
            BY <5>1, <6>1 DEF Claimed, Unclaimed
          <6> QED BY <3>1, <6>2, <6>3, <6>4 DEF Unclaimed
        <5> QED BY <5>2, <5>3
      <4>2. CASE ClaimTopup(h)
        <5>1. /\ u.svc = "topup" /\ orderClaim' = orderClaim
              /\ EnsureFreeForTopup(p, u.tx)
              /\ topupClaim' = [topupClaim EXCEPT ![p] = u.tx]
          <6>1. ~ Finish(h)
            BY <2>1, FinishFrame
          <6> QED BY <2>4, <4>2, <6>1 DEF ClaimTopup, At, Use
        <5>2. orderClaim[p] = NoTx /\ topupClaim[p] \in {NoTx, u.tx}
          BY <5>1 DEF EnsureFreeForTopup
        <5>3. orderClaim'[p] = NoTx /\ topupClaim'[p] = u.tx
          BY <5>1, <5>2 DEF TypeOK
        <5>4. ASSUME NEW v \in Purchases, Claimed(p, v)'
              PROVE  v = u
          <6>1. v = [svc |-> v.svc, tx |-> v.tx] /\ v.tx \in Txns
            BY DEF Purchases
          <6>2. v.svc = "topup" /\ v.tx = u.tx
            BY <5>3, <5>4, <6>1, SentinelAssumption DEF Claimed
          <6> QED BY <3>1, <5>1, <6>1, <6>2
        <5>5. Claimed(p, u) \/ Unclaimed(p)
          BY <5>1, <5>2 DEF Claimed, Unclaimed
        <5> QED BY <3>1, <5>3, <5>4, <5>5 DEF Unclaimed
      <4> QED BY <4>1, <4>2
    <3>3. \A g \in Handlers : pc'[g] = "call" /\ Pay(g)' = p => Use(g)' \in Chosen(p) \cup {u}
      BY <2>1, InCall
    <3>4. spent'[p] \subseteq Chosen(p)
      BY <1>3 DEF Chosen, TypeOK
    <3> HIDE DEF u
    <3>5. CASE u \in spent[p] /\ UNCHANGED claims
      <4>1. Chosen(p) \cup {u} = Chosen(p)
        BY <1>3, <3>4, <3>5
      <4>2. \A v \in Purchases : Claimed(p, v)' => v \in Chosen(p)
        BY <3>5 DEF Claimed, claims, Chosen
      <4>3. Chosen(p)' \subseteq Chosen(p)
        BY <3>3, <3>4, <4>1, <4>2, BalanceFrame
      <4>4. Unclaimed(p)' => Unclaimed(p)
        BY <3>5 DEF Unclaimed, claims
      <4> QED BY <1>3, <2>2, <4>3, <4>4, BalanceMoves DEF BalanceInv
    <3>6. CASE Claimed(p, u) /\ \A v \in Purchases : Claimed(p, v)' => v = u
      <4>1. u \in Chosen(p)
        BY <3>1, <3>6 DEF Chosen
      <4>2. Chosen(p) \cup {u} = Chosen(p)
        BY <4>1
      <4>3. Chosen(p)' \subseteq Chosen(p)
        BY <3>3, <3>4, <3>6, <4>1, <4>2, BalanceFrame
      <4>4. ~ Unclaimed(p)
        BY <3>1, <3>6 DEF Unclaimed, Claimed
      <4>5. Unclaimed(p)' => Unclaimed(p)
        BY <3>2 DEF Unclaimed, claims
      <4> QED BY <1>3, <2>2, <4>3, <4>5, BalanceMoves DEF BalanceInv
    <3>7. CASE Unclaimed(p) /\ ~ Unclaimed(p)' /\ \A v \in Purchases : Claimed(p, v)' => v = u
      <4>1. Chosen(p)' \subseteq Chosen(p) \cup {u}
        BY <3>3, <3>4, <3>7 DEF Chosen
      <4> QED BY <1>3, <2>2, <3>7, <4>1, BalanceMoves DEF BalanceInv
    <3> QED BY <3>2, <3>5, <3>6, <3>7
  <2> QED BY <2>3, <2>4
<1>6. Goto(h, "call") \/ (Finish(h) /\ UNCHANGED claims)
  BY DEF ClaimOrder, ClaimTopup, claims
<1> QED BY <1>4, <1>5, <1>6

(* A call executes what was chosen; one that fails is counted.             *)
LEMMA BalanceCalls ==
    ASSUME TypeOK, HistoryTypeOK, HistoryNext, BalanceInv, NEW p \in Payments,
           NEW h \in Handlers, CallSucceeds(h) \/ CallRejected(h) \/ CallLost(h)
    PROVE  /\ IsFiniteSet(Chosen(p)') /\ IsFiniteSet(Releasing(p)')
           /\ Balance(p)' <= failures'[p] + IF Unclaimed(p)' THEN 0 ELSE 1
<1>1. /\ pc[h] = "call" /\ UNCHANGED claims
      /\ Execute(h) \/ UNCHANGED spent
      /\ \/ Goto(h, "persist")
         \/ Goto(h, "release") /\ CallFails(Pay(h))
  BY DEF CallSucceeds, CallRejected, CallLost, CallFails, results
<1>2. Pay(h) \in Payments /\ Use(h) \in Chosen(Pay(h))
  BY <1>1, JobInProgress, InCall
<1>3. failures[p] \in Nat /\ failures'[p] \in Nat /\ failures[p] <= failures'[p]
  BY FailuresCount
<1>4. \A u \in spent'[p] : u \in Chosen(p)
  <2>1. \A u \in spent[p] : u \in Chosen(p)
    BY DEF Chosen, TypeOK
  <2> QED BY <1>1, <1>2, <2>1 DEF Execute, TypeOK
<1>5. /\ pc'[h] \in {"persist", "release"}
      /\ pc'[h] = "release" => CallFails(Pay(h))
      /\ \A g \in Handlers : /\ g # h => pc'[g] = pc[g]
                             /\ Pay(g)' = Pay(g) /\ Use(g)' = Use(g)
  BY <1>1, GotoFrame, LabelsAre
<1>6. \A g \in Handlers : pc'[g] = "call" /\ Pay(g)' = p => Use(g)' \in Chosen(p)
  BY <1>5, InCall
<1>7. \A u \in Purchases : Claimed(p, u)' => u \in Chosen(p)
  BY <1>1 DEF Claimed, claims, Chosen
<1>8. Chosen(p)' \subseteq Chosen(p)
  BY <1>4, <1>6, <1>7, BalanceFrame
<1>9. Unclaimed(p)' => Unclaimed(p)
  BY <1>1 DEF Unclaimed, claims
<1>10. CASE pc'[h] = "release" /\ Pay(h) = p
  <2>1. Releasing(p)' \subseteq Releasing(p) \cup {h}
    BY <1>5 DEF Releasing
  <2>2. failures[p] + 1 <= failures'[p]
    BY <1>3, <1>5, <1>10, FailuresCount
  <2> QED BY <1>3, <1>8, <1>9, <2>1, <2>2, BalanceMoves DEF BalanceInv
<1>11. CASE pc'[h] = "persist" \/ Pay(h) # p
  <2>1. Releasing(p)' \subseteq Releasing(p)
    BY <1>5, <1>11 DEF Releasing
  <2> QED BY <1>3, <1>8, <1>9, <2>1, BalanceMoves DEF BalanceInv
<1> QED BY <1>5, <1>10, <1>11

(* A claim is dropped by a handler whose call failed, and only by it.      *)
LEMMA BalanceReleases ==
    ASSUME TypeOK, HistoryTypeOK, HistoryNext, BalanceInv, NEW p \in Payments,
           NEW h \in Handlers, ReleaseStep(h)
    PROVE  /\ IsFiniteSet(Chosen(p)') /\ IsFiniteSet(Releasing(p)')
           /\ Balance(p)' <= failures'[p] + IF Unclaimed(p)' THEN 0 ELSE 1
<1>1. /\ pc[h] = "release" /\ Finish(h) /\ UNCHANGED spent
  BY DEF ReleaseStep, ReleaseOrderClaim, ReleaseTopupClaim, At, results
<1>2. Pay(h) \in Payments
  BY <1>1, JobInProgress
<1>3. failures[p] \in Nat /\ failures'[p] \in Nat /\ failures[p] <= failures'[p]
  BY FailuresCount
<1>4. /\ orderClaim'[p] \in {orderClaim[p], NoTx} /\ topupClaim'[p] \in {topupClaim[p], NoTx}
      /\ p # Pay(h) => orderClaim'[p] = orderClaim[p] /\ topupClaim'[p] = topupClaim[p]
  BY <1>2 DEF ReleaseStep, ReleaseOrderClaim, ReleaseTopupClaim, TypeOK
<1>5. /\ pc'[h] = "idle"
      /\ \A g \in Handlers : pc'[g] # "idle" =>
            g # h /\ pc'[g] = pc[g] /\ Pay(g)' = Pay(g) /\ Use(g)' = Use(g)
  BY <1>1, FinishFrame
<1>6. \A u \in Purchases : Claimed(p, u)' => Claimed(p, u)
  BY <1>4, SentinelAssumption DEF Claimed, Purchases
<1>7. Chosen(p)' \subseteq Chosen(p)
  BY <1>1, <1>5, <1>6 DEF Chosen
<1>8. Releasing(p)' \subseteq Releasing(p) \ {h}
  BY <1>5 DEF Releasing
<1>9. CASE p = Pay(h)
  <2>1. h \in Releasing(p)
    BY <1>1, <1>9 DEF Releasing
  <2> QED BY <1>3, <1>7, <1>8, <2>1, BalanceMoves DEF BalanceInv
<1>10. CASE p # Pay(h)
  <2>1. Unclaimed(p)' => Unclaimed(p)
    BY <1>4, <1>10 DEF Unclaimed
  <2> QED BY <1>3, <1>7, <1>8, <2>1, BalanceMoves DEF BalanceInv
<1> QED BY <1>9, <1>10

LEMMA BalanceStep ==
    ASSUME TypeOK, HistoryTypeOK, BoughtInv, BalanceInv,
           [HistoryNext]_<<vars, failures>>
    PROVE  BalanceInv'
<1>1. CASE UNCHANGED <<vars, failures>>
  BY <1>1 DEF BalanceInv, Balance, Chosen, Claimed, Releasing, Unclaimed, vars,
     claims, results, handlers, Pay, Use
<1> SUFFICES ASSUME HistoryNext, NEW p \in Payments
             PROVE  /\ IsFiniteSet(Chosen(p)') /\ IsFiniteSet(Releasing(p)')
                    /\ Balance(p)' <= failures'[p] + IF Unclaimed(p)' THEN 0 ELSE 1
  BY <1>1 DEF BalanceInv
<1> DEFINE Kept ==
       /\ UNCHANGED <<claims, spent>>
       /\ \A g \in Handlers : pc'[g] \in {"call", "release"} =>
             pc'[g] = pc[g] /\ Pay(g)' = Pay(g) /\ Use(g)' = Use(g)
<1>2. ASSUME NEW q \in Payments, Environment(q)
      PROVE  Kept
  BY <1>2 DEF Environment, CustomerPays, Ledger!Pay, FibRefunds, Ledger!Refund,
     RecordPaid, Ledger!RecordPaid, RecordRefunded, Ledger!RecordRefunded,
     GraceEnds, results, handlers, Pay, Use
<1>3. ASSUME NEW h \in Handlers, Verify(h) \/ FibConfirms(h)
      PROVE  Kept
  <2>1. /\ UNCHANGED <<claims, spent>>
        /\ Finish(h) \/ Goto(h, "fib") \/ Goto(h, "claim")
    BY <1>3 DEF Verify, FibConfirms, results
  <2> QED BY <2>1, FinishFrame, GotoFrame, LabelsAre
<1>4. ASSUME NEW h \in Handlers, ClientPersists(h) \/ FinalizerPersists(h)
      PROVE  Kept
  <2>1. Finish(h) /\ UNCHANGED <<claims, spent>>
    BY <1>4 DEF ClientPersists, FinalizerPersists, ClientPersistsOrder,
       FinalizerPersistsOrder, ClientAnswersTopup, MarkApplied, results
  <2> QED BY <2>1, FinishFrame
<1>5. ASSUME NEW h \in Handlers,
             FibFails(h) \/ ReleaseFails(h) \/ PersistFails(h) \/ PersistCollides(h)
      PROVE  Kept
  <2>1. Finish(h) /\ UNCHANGED <<claims, spent>>
    BY <1>5, AbortFrame DEF results
  <2> QED BY <2>1, FinishFrame
<1>6. ASSUME \/ \E c \in Clients : Request(c)
             \/ \E s \in Sweepers : Sweep(s) \/ SweepNext(s)
      PROVE  Kept
  BY <1>6, StartFrame DEF results
<1>7. ASSUME NEW H \in SUBSET Handlers, Restart(H)
      PROVE  Kept
  BY <1>7, RestartFrame DEF results
<1>8. CASE UNCHANGED vars
  BY <1>8, BalanceKept DEF vars, results, handlers, Pay, Use
<1> HIDE DEF Kept
<1>9. Kept => /\ IsFiniteSet(Chosen(p)') /\ IsFiniteSet(Releasing(p)')
              /\ Balance(p)' <= failures'[p] + IF Unclaimed(p)' THEN 0 ELSE 1
  BY BalanceKept DEF Kept
<1>10. [Next]_vars
  BY DEF HistoryNext
<1> QED BY <1>2, <1>3, <1>4, <1>5, <1>6, <1>7, <1>8, <1>9, <1>10, StepCases,
           BalanceClaims, BalanceCalls, BalanceReleases DEF GateStep

LEMMA BalanceMeansSpends ==
    ASSUME TypeOK, HistoryTypeOK, BalanceInv
    PROVE  SpendsWithinFailures
<1> SUFFICES ASSUME NEW p \in Payments
             PROVE  IsFiniteSet(spent[p]) /\ Cardinality(spent[p]) <= 1 + failures[p]
  BY DEF SpendsWithinFailures
<1>1. /\ IsFiniteSet(Chosen(p)) /\ IsFiniteSet(Releasing(p))
      /\ Cardinality(Chosen(p)) + Cardinality(Releasing(p))
            <= failures[p] + IF Unclaimed(p) THEN 0 ELSE 1
  BY DEF BalanceInv, Balance
<1>2. spent[p] \subseteq Chosen(p)
  BY DEF Chosen, TypeOK
<1>3. /\ IsFiniteSet(spent[p]) /\ Cardinality(spent[p]) <= Cardinality(Chosen(p))
      /\ Cardinality(spent[p]) \in Nat
  BY <1>1, <1>2, FS_Subset, FS_CardinalityType
<1>4. Cardinality(Chosen(p)) \in Nat /\ Cardinality(Releasing(p)) \in Nat
  BY <1>1, FS_CardinalityType
<1>5. failures[p] \in Nat
  BY DEF HistoryTypeOK
<1> QED BY <1>1, <1>3, <1>4, <1>5

LEMMA BoughtHolds == Spec => []BoughtInv
<1>1. Init => BoughtInv
  BY DEF Init, BoughtInv, DeliveryIsBought
<1>2. TypeOK /\ BoughtInv /\ [Next]_vars => BoughtInv'
  BY BoughtStep
<1> QED BY <1>1, <1>2, TypeCorrect, PTL DEF Spec

LEMMA BalanceHolds == HistorySpec => []BalanceInv
<1>1. HistoryInit => BalanceInv
  <2> SUFFICES ASSUME HistoryInit, NEW p \in Payments
               PROVE  /\ IsFiniteSet(Chosen(p)) /\ IsFiniteSet(Releasing(p))
                      /\ Balance(p) <= failures[p] + IF Unclaimed(p) THEN 0 ELSE 1
    BY DEF BalanceInv
  <2>1. \A u \in Purchases : u.tx # NoTx
    BY SentinelAssumption DEF Purchases
  <2>2. Chosen(p) = {} /\ Releasing(p) = {} /\ Unclaimed(p) /\ failures[p] = 0
    BY <2>1 DEF HistoryInit, Init, Chosen, Claimed, Releasing, Unclaimed
  <2> QED BY <2>2, FS_EmptySet DEF Balance
<1>2. TypeOK /\ HistoryTypeOK /\ BoughtInv /\ BalanceInv
          /\ [HistoryNext]_<<vars, failures>> => BalanceInv'
  BY BalanceStep
<1> QED BY <1>1, <1>2, TypeCorrect, HistoryType, BoughtHolds, HistoryWatches,
           PTL DEF HistorySpec

(* Whatever fails, and whichever handlers share a claim that one of them   *)
(* drops, a payment buys at most one thing more than calls of its own      *)
(* failed: any other fault, and any failure of another payment, costs it   *)
(* nothing.                                                                *)
THEOREM SpendsAreBounded == HistorySpec => []SpendsWithinFailures
BY BalanceMeansSpends, BalanceHolds, TypeCorrect, HistoryType, HistoryWatches, PTL

-----------------------------------------------------------------------------
(* Only the step that saves an order writes the link, and it rolls back    *)
(* when the row is linked to another order.                                *)
LEMMA LinkStep ==
    ASSUME TypeOK, [Next]_vars, NEW p \in Payments, bound[p] # NoTx
    PROVE  bound'[p] = bound[p]
<1>1. ASSUME NEW h \in Handlers, ClientPersistsOrder(h) \/ FinalizerPersistsOrder(h)
      PROVE  bound'[p] = bound[p]
  <2>1. SaveAndLink(h) /\ pc[h] # "idle"
    BY <1>1 DEF ClientPersistsOrder, FinalizerPersistsOrder, At
  <2>2. Pay(h) \in Payments
    BY <2>1, JobInProgress
  <2> QED BY <2>1, <2>2 DEF SaveAndLink, TypeOK
<1>2. (\E q \in Payments : Environment(q)) => UNCHANGED bound
  BY DEF Environment, CustomerPays, Ledger!Pay, FibRefunds, Ledger!Refund,
     RecordPaid, Ledger!RecordPaid, RecordRefunded, Ledger!RecordRefunded,
     GraceEnds, results
<1>3. ASSUME NEW h \in Handlers,
             \/ GateStep(h) \/ ReleaseStep(h) \/ MarkApplied(h)
             \/ CallSucceeds(h) \/ CallRejected(h) \/ CallLost(h)
      PROVE  UNCHANGED bound
  BY <1>3 DEF GateStep, Verify, FibConfirms, ClaimOrder, ClaimTopup,
     ReleaseStep,
     ReleaseOrderClaim, ReleaseTopupClaim, MarkApplied, CallSucceeds, CallRejected,
     CallLost, results
<1>4. UNCHANGED vars => UNCHANGED bound
  BY DEF vars, results
<1> QED BY <1>1, <1>2, <1>3, <1>4, StepCases, AbortFrame, StartFrame,
RestartFrame
        DEF ClientPersists, FinalizerPersists, results

(* Under every fault, the link of a payment to its order is final.         *)
THEOREM LinksAreFinal == Spec => LinkIsFinal
<1>1. TypeOK /\ [Next]_vars =>
          [\A p \in Payments : bound[p] # NoTx => bound'[p] = bound[p]]_vars
  BY LinkStep
<1> QED BY <1>1, TypeCorrect, PTL DEF Spec, LinkIsFinal

-----------------------------------------------------------------------------
(* The detailed steps implement SingleUsePayment: taking a claim reserves, *)
(* a successful call executes, every other step stutters.                  *)
LEMMA ReservedType ==
    ASSUME TypeOK, ClaimsExclusive, NEW p \in Payments, NEW u \in Purchases
    PROVE  Claimed(p, u) <=> Reserved[p] = u
<1>1. u.svc \in {"order", "topup"} /\ u.tx \in Txns /\ u = [svc |-> u.svc, tx |-> u.tx]
  BY DEF Purchases, Services
<1>2. CASE orderClaim[p] # NoTx
  <2>1. Reserved[p] = [svc |-> "order", tx |-> orderClaim[p]] /\ topupClaim[p] = NoTx
    BY <1>2 DEF Reserved, ClaimsExclusive
  <2>2. Reserved[p].svc = "order" /\ Reserved[p].tx = orderClaim[p]
    BY <2>1
  <2>3. topupClaim[p] # u.tx
    BY <1>1, <2>1, SentinelAssumption
  <2> QED BY <1>1, <2>1, <2>2, <2>3 DEF Claimed
<1>3. CASE orderClaim[p] = NoTx /\ topupClaim[p] # NoTx
  <2>1. Reserved[p] = [svc |-> "topup", tx |-> topupClaim[p]]
    BY <1>3 DEF Reserved
  <2>2. Reserved[p].svc = "topup" /\ Reserved[p].tx = topupClaim[p]
    BY <2>1
  <2>3. orderClaim[p] # u.tx
    BY <1>1, <1>3, SentinelAssumption
  <2> QED BY <1>1, <2>1, <2>2, <2>3 DEF Claimed
<1>4. CASE orderClaim[p] = NoTx /\ topupClaim[p] = NoTx
  <2>1. Reserved[p] = NoIntent
    BY <1>4 DEF Reserved
  <2> QED BY <1>1, <1>4, <2>1, SentinelAssumption DEF Claimed
<1> QED BY <1>2, <1>3, <1>4

(* The step that takes a claim reserves the payment, which was free or was *)
(* reserved for this same purchase.                                        *)
LEMMA ClaimReserves ==
    ASSUME TypeOK, NEW h \in Handlers, ClaimOrder(h) \/ ClaimTopup(h),
           UNCHANGED failures
    PROVE  SingleUse!Next \/ UNCHANGED <<Reserved, spent, failures>>
<1> DEFINE p == Pay(h)
           u == Use(h)
<1>1. p \in Payments /\ u \in Purchases /\ u.tx \in Txns
  BY JobInProgress DEF ClaimOrder, ClaimTopup, At
<1>2. u = [svc |-> u.svc, tx |-> u.tx]
  BY <1>1 DEF Purchases
<1>3. UNCHANGED spent
  BY DEF ClaimOrder, ClaimTopup, results
<1>4. CASE UNCHANGED claims
  BY <1>3, <1>4 DEF Reserved, claims
<1>5. CASE ClaimOrder(h) /\ EnsureFreeForOrder(p, u.tx) /\ bound[p] # u.tx
  <2>1. u.svc = "order" /\ UNCHANGED topupClaim
    BY <1>5 DEF ClaimOrder, At, Use
  <2>2. /\ topupClaim[p] = NoTx /\ orderClaim[p] \in {NoTx, u.tx}
        /\ orderClaim' = [orderClaim EXCEPT ![p] = u.tx]
    BY <1>5 DEF ClaimOrder, EnsureFreeForOrder
  <2>3. CASE orderClaim[p] = NoTx
    <3>1. Reserved[p] = NoIntent
      BY <1>1, <2>2, <2>3 DEF Reserved
    <3>2. Reserved' = [Reserved EXCEPT ![p] = u]
      BY <1>1, <1>2, <2>1, <2>2, SentinelAssumption DEF Reserved, TypeOK
    <3>3. SingleUse!Reserve(p, u)
      BY <1>3, <3>1, <3>2 DEF SingleUse!Reserve
    <3> QED BY <1>1, <3>3 DEF SingleUse!Next
  <2>4. CASE orderClaim[p] = u.tx
    <3>1. orderClaim' = orderClaim
      BY <1>1, <2>2, <2>4 DEF TypeOK
    <3> QED BY <1>4, <2>1, <3>1 DEF claims
  <2> QED BY <2>2, <2>3, <2>4
<1>6. CASE ClaimTopup(h) /\ EnsureFreeForTopup(p, u.tx)
  <2>1. u.svc = "topup" /\ UNCHANGED orderClaim
    BY <1>6 DEF ClaimTopup, At, Use
  <2>2. /\ orderClaim[p] = NoTx /\ topupClaim[p] \in {NoTx, u.tx}
        /\ topupClaim' = [topupClaim EXCEPT ![p] = u.tx]
    BY <1>6 DEF ClaimTopup, EnsureFreeForTopup
  <2>3. CASE topupClaim[p] = NoTx
    <3>1. Reserved[p] = NoIntent
      BY <1>1, <2>2, <2>3 DEF Reserved
    <3>2. Reserved' = [Reserved EXCEPT ![p] = u]
      BY <1>1, <1>2, <2>1, <2>2, SentinelAssumption DEF Reserved, TypeOK
    <3>3. SingleUse!Reserve(p, u)
      BY <1>3, <3>1, <3>2 DEF SingleUse!Reserve
    <3> QED BY <1>1, <3>3 DEF SingleUse!Next
  <2>4. CASE topupClaim[p] = u.tx
    <3>1. topupClaim' = topupClaim
      BY <1>1, <2>2, <2>4 DEF TypeOK
    <3> QED BY <1>4, <2>1, <3>1 DEF claims
  <2> QED BY <2>2, <2>3, <2>4
<1>7. CASE ClaimOrder(h) /\ (~EnsureFreeForOrder(p, u.tx) \/ bound[p] = u.tx)
  BY <1>4, <1>7 DEF ClaimOrder, claims
<1>8. CASE ~EnsureFreeForTopup(p, u.tx) /\ ClaimTopup(h)
  BY <1>4, <1>8 DEF ClaimTopup, claims
<1> QED BY <1>5, <1>6, <1>7, <1>8

(* What a handler buys at a call is the reserved purchase, unless a call   *)
(* of the payment failed before.                                           *)
LEMMA CallIsReserved ==
    ASSUME TypeOK, ClaimsExclusive, HistoryTypeOK, ReservationInv,
           NEW h \in Handlers, pc[h] = "call"
    PROVE  /\ Pay(h) \in Payments /\ Use(h) \in Purchases
           /\ Use(h) = Reserved[Pay(h)] \/ failures[Pay(h)] > 0
<1>1. Pay(h) \in Payments /\ Use(h) \in Purchases
  BY JobInProgress
<1>2. CASE failures[Pay(h)] = 0
  BY <1>1, <1>2, ReservedType DEF ReservationInv, Reservation
<1>3. CASE failures[Pay(h)] # 0
  BY <1>1, <1>3 DEF HistoryTypeOK
<1> QED BY <1>1, <1>2, <1>3

(* A call that executes the purchase does it within the payment's bounds.  *)
(* (SingleUsePayment counts with the Cardinality that it extends itself.)  *)
LEMMA CallExecutes ==
    ASSUME TypeOK, ClaimsExclusive, HistoryTypeOK, ReservationInv,
           SpendsWithinFailures', NEW h \in Handlers, pc[h] = "call", Execute(h)
    PROVE  SingleUse!Executes(Pay(h), Use(h))
<1>1. /\ Pay(h) \in Payments
      /\ Use(h) = Reserved[Pay(h)] \/ failures[Pay(h)] > 0
  BY CallIsReserved
<1>2. spent' = [spent EXCEPT ![Pay(h)] = @ \cup {Use(h)}]
  BY DEF Execute
<1>3. Cardinality(spent'[Pay(h)]) <= 1 + failures'[Pay(h)]
  BY <1>1 DEF SpendsWithinFailures
<1> QED BY <1>1, <1>2, <1>3 DEF SingleUse!Executes, SingleUse!Cardinality, Cardinality

(* A failed call is counted once, for its own payment.                     *)
LEMMA FailureIsCounted ==
    ASSUME TypeOK, HistoryTypeOK, HistoryNext,
           NEW h \in Handlers, CallRejected(h) \/ CallLost(h)
    PROVE  failures' = [failures EXCEPT ![Pay(h)] = @ + 1]
<1>1. pc[h] = "call" /\ pc' = [pc EXCEPT ![h] = "release"]
  BY DEF CallRejected, CallLost, Goto
<1>2. ASSUME NEW g \in Handlers, CallRejected(g) \/ CallLost(g)
      PROVE  g = h
  <2>1. pc[g] = "call" /\ pc'[g] = "release"
    BY <1>2 DEF CallRejected, CallLost, Goto, TypeOK
  <2> QED BY <1>1, <2>1 DEF TypeOK
<1>3. \A p \in Payments : CallFails(p) <=> Pay(h) = p
  BY <1>2 DEF CallFails
<1> QED BY <1>3 DEF HistoryNext, HistoryTypeOK

LEMMA NoFailureIsCounted ==
    ASSUME HistoryTypeOK, HistoryNext,
           \A h \in Handlers : ~CallRejected(h) /\ ~CallLost(h)
    PROVE  failures' = failures
<1>1. \A p \in Payments : ~CallFails(p)
  BY DEF CallFails
<1> QED BY <1>1 DEF HistoryNext, HistoryTypeOK

(* A claim is withdrawn only after a call of its payment failed.           *)
LEMMA ReleaseWithdraws ==
    ASSUME TypeOK, ClaimsExclusive, HistoryTypeOK, ReservationInv,
           NEW h \in Handlers, ReleaseStep(h), UNCHANGED failures
    PROVE  SingleUse!Next \/ UNCHANGED <<Reserved, spent, failures>>
<1> DEFINE p == Pay(h)
<1>1. pc[h] = "release" /\ UNCHANGED spent
  BY DEF ReleaseStep, ReleaseOrderClaim, ReleaseTopupClaim, At, results
<1>2. p \in Payments
  BY <1>1, JobInProgress
<1>3. failures[p] > 0
  <2>1. failures[p] # 0
    BY <1>1, <1>2 DEF ReservationInv, Reservation
  <2> QED BY <1>2, <2>1 DEF HistoryTypeOK
<1>4. \/ UNCHANGED claims
      \/ /\ orderClaim[p] # NoTx /\ UNCHANGED topupClaim
         /\ orderClaim' = [orderClaim EXCEPT ![p] = NoTx]
      \/ /\ topupClaim[p] # NoTx /\ UNCHANGED orderClaim
         /\ topupClaim' = [topupClaim EXCEPT ![p] = NoTx]
  BY <1>1, JobInProgress, SentinelAssumption
     DEF ReleaseStep, ReleaseOrderClaim, ReleaseTopupClaim, claims
<1>5. CASE UNCHANGED claims
  BY <1>1, <1>5 DEF Reserved, claims
<1>6. CASE ~ UNCHANGED claims
  <2>1. Reserved[p] # NoIntent
    <3>1. \/ Reserved[p] = [svc |-> "order", tx |-> orderClaim[p]] /\ orderClaim[p] \in Txns
          \/ Reserved[p] = [svc |-> "topup", tx |-> topupClaim[p]] /\ topupClaim[p] \in Txns
      BY <1>2, <1>4, <1>6 DEF Reserved, TypeOK
    <3>2. Reserved[p] \in Purchases
      BY <3>1 DEF Purchases, Services
    <3> QED BY <3>2, SentinelAssumption
  <2>2. Reserved' = [Reserved EXCEPT ![p] = NoIntent]
    BY <1>2, <1>4, <1>6 DEF Reserved, ClaimsExclusive, TypeOK
  <2>3. SingleUse!Withdraw(p)
    BY <1>1, <1>3, <2>1, <2>2 DEF SingleUse!Withdraw
  <2> QED BY <1>2, <2>3 DEF SingleUse!Next
<1> QED BY <1>5, <1>6

(* Every step is a step of SingleUsePayment or a stutter.                  *)
LEMMA RefinementStep ==
    ASSUME TypeOK, ClaimsExclusive, HistoryTypeOK, ReservationInv,
           SpendsWithinFailures', HistoryNext
    PROVE  SingleUse!Next \/ UNCHANGED <<Reserved, spent, failures>>
<1>1. UNCHANGED claims => UNCHANGED Reserved
  BY DEF Reserved, claims
<1>2. ASSUME NEW h \in Handlers, CallRejected(h) \/ CallLost(h)
      PROVE  SingleUse!Next
  <2>1. /\ pc[h] = "call" /\ UNCHANGED claims
        /\ Execute(h) \/ UNCHANGED spent
    BY <1>2 DEF CallRejected, CallLost, results
  <2>2. Execute(h) => SingleUse!Executes(Pay(h), Use(h))
    BY <2>1, CallExecutes
  <2>3. SingleUse!Fail(Pay(h), Use(h))
    BY <1>1, <1>2, <2>1, <2>2, CallIsReserved, FailureIsCounted
       DEF SingleUse!Fail
  <2> QED BY <2>1, <2>3, CallIsReserved DEF SingleUse!Next
<1> SUFFICES ASSUME \A h \in Handlers : ~CallRejected(h) /\ ~CallLost(h)
             PROVE  SingleUse!Next \/ UNCHANGED <<Reserved, spent, failures>>
  BY <1>2
<1>3. failures' = failures
  BY NoFailureIsCounted
<1>4. ASSUME NEW h \in Handlers, GateStep(h)
      PROVE  SingleUse!Next \/ UNCHANGED <<Reserved, spent, failures>>
  BY <1>1, <1>3, <1>4, ClaimReserves DEF GateStep, Verify, FibConfirms, results
<1>5. ASSUME NEW h \in Handlers, CallSucceeds(h)
      PROVE  SingleUse!Next
  <2>1. pc[h] = "call" /\ Execute(h) /\ UNCHANGED claims
    BY <1>5 DEF CallSucceeds
  <2>2. SingleUse!Execute(Pay(h), Use(h))
    BY <1>1, <1>3, <2>1, CallExecutes DEF SingleUse!Execute
  <2> QED BY <2>1, <2>2, CallIsReserved DEF SingleUse!Next
<1>6. (\E p \in Payments : Environment(p)) => UNCHANGED <<claims, spent>>
  BY DEF Environment, CustomerPays, Ledger!Pay, FibRefunds, Ledger!Refund,
     RecordPaid, Ledger!RecordPaid, RecordRefunded, Ledger!RecordRefunded,
     GraceEnds, results
<1>7. ASSUME NEW h \in Handlers, ReleaseStep(h)
      PROVE  SingleUse!Next \/ UNCHANGED <<Reserved, spent, failures>>
  BY <1>3, <1>7, ReleaseWithdraws
<1>8. ASSUME NEW h \in Handlers, ClientPersists(h) \/ FinalizerPersists(h)
      PROVE  UNCHANGED <<claims, spent>>
  BY <1>8 DEF ClientPersists, FinalizerPersists, ClientPersistsOrder,
     FinalizerPersistsOrder, ClientAnswersTopup, MarkApplied, results
<1>9. UNCHANGED vars => UNCHANGED <<claims, spent>>
  BY DEF vars, results
<1>10. [Next]_vars
  BY DEF HistoryNext
<1> QED BY <1>1, <1>3, <1>4, <1>5, <1>6, <1>7, <1>8, <1>9, <1>10, StepCases,
           AbortFrame, StartFrame, RestartFrame DEF results

LEMMA ReservationHolds == HistorySpec => []ReservationInv
<1>1. HistoryInit => ReservationInv
  BY DEF HistoryInit, Init, ReservationInv, Reservation
<1>2. TypeOK /\ HistoryTypeOK /\ ReservationInv /\ [HistoryNext]_<<vars, failures>>
          => ReservationInv'
  <2> SUFFICES ASSUME TypeOK, HistoryTypeOK, ReservationInv,
                      [HistoryNext]_<<vars, failures>>,
                      NEW p \in Payments, failures'[p] = 0
               PROVE  Reservation(p)'
    BY DEF ReservationInv
  <2>1. CASE UNCHANGED <<vars, failures>>
    BY <2>1, ReservationFrame DEF ReservationInv, vars, results, handlers,
       Pay, Use
  <2>2. CASE HistoryNext
    <3>1. failures[p] = 0 /\ ~CallFails(p)
      BY <2>2, FailuresCount
    <3> QED BY <2>2, <3>1, ReservationStep DEF ReservationInv, HistoryNext
  <2> QED BY <2>1, <2>2
<1> QED BY <1>1, <1>2, TypeCorrect, HistoryType, HistoryWatches, PTL
        DEF HistorySpec

(* Under every fault, claiming, calling, releasing and saving implement    *)
(* the single-use payment.                                                 *)
THEOREM Refinement == HistorySpec => ImplementsSingleUse
<1>1. HistoryInit => SingleUse!Init
  BY DEF HistoryInit, Init, SingleUse!Init, Reserved
<1>2. TypeOK /\ ClaimsExclusive /\ HistoryTypeOK /\ ReservationInv
          /\ SpendsWithinFailures' /\ [HistoryNext]_<<vars, failures>>
          => [SingleUse!Next]_<<Reserved, spent, failures>>
  BY RefinementStep DEF vars, Reserved, claims, results
<1> QED BY <1>1, <1>2, TypeCorrect, ClaimsAreExclusive, HistoryType,
           HistoryWatches, ReservationHolds, SpendsAreBounded, PTL
        DEF HistorySpec, ImplementsSingleUse, SingleUse!Spec

=============================================================================

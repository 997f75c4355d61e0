------------------------------ MODULE UsageSync ------------------------------
(***************************************************************************)
(* The handlers that copy the provider's data counters into the profiles.  *)
(*                                                                         *)
(* Usage syncs ask for the counters of a batch of eSIMs and write them,    *)
(* under a lock of their process.  The refresh of the cron job and of      *)
(* administrators queries one profile after the other, and a user's        *)
(* recovery asks for one; both write without the lock.  No connection is   *)
(* held during a call, so what is written was read before.                 *)
(*                                                                         *)
(* What an answer does to a profile's status is in ESimLifecycle.          *)
(***************************************************************************)
EXTENDS Naturals, FiniteSets, Sequences

CONSTANTS
    ESims,      \* eSIMs with a transaction number
    Lists,      \* the lists of eSIMs that are synced on demand
    Handlers,   \* requests and the background worker
    Processes,  \* worker processes of the server
    Nobody,     \* nobody holds the lock; an idle handler; no writer
    BatchSize,  \* ESIM_USAGE_SYNC_BATCH_SIZE
    MaxUsed     \* bound: the provider's counters

ASSUME SyncAssumption ==
    /\ IsFiniteSet(ESims)
    /\ Lists \subseteq (SUBSET ESims) \ {{}}
    /\ BatchSize \in Nat \ {0}
    /\ MaxUsed \in [ESims -> Nat]

VARIABLES
    live,    \* the provider's counters
    stored,  \* used_data_mb of the profiles
    author,  \* history: the process that wrote it last under its lock
    holder,  \* who has usage_sync_lock, per process
    queue,   \* who waits for it
    run      \* where each handler runs, and what it has still to do

syncVars == <<live, stored, author, holder, queue, run>>

(* listed: the background worker and /usage/sync/my, which skip if the     *)
(* lock is taken.  single: the syncs of administrators and after a top-up, *)
(* which wait.  recover, refresh: without the lock.                        *)
Locked    == {"listed", "single"}
SyncKinds == Locked \cup {"recover", "refresh"}

Reports ==
    UNION {{a \in [es -> UNION {0 .. MaxUsed[e] : e \in es}] : \A e \in es : a[e] \in 0 .. MaxUsed[e]} :
              es \in SUBSET ESims}

Runs == [process : Processes, kind : SyncKinds, stage : {"waiting", "asking", "writing"},
         todo : (SUBSET ESims) \ {{}}, batch : SUBSET ESims, answer : Reports]

ASSUME NobodyAssumption == Nobody \notin Handlers \cup Processes \cup Runs

(* What is stored is a counter the provider has once reported.             *)
SyncTypeOK ==
    /\ \A e \in ESims : live[e] \in 0 .. MaxUsed[e] /\ stored[e] \in 0 .. live[e]
    /\ author \in [ESims -> Processes \cup {Nobody}]
    /\ holder \in [Processes -> Handlers \cup {Nobody}]
    /\ \A p \in Processes : queue[p] \in Seq(Handlers)
    /\ \A h \in Handlers : run[h] # Nobody =>
          /\ run[h] \in Runs
          /\ run[h].batch \subseteq run[h].todo
          /\ DOMAIN run[h].answer \subseteq run[h].batch

SyncInit ==
    /\ live = [e \in ESims |-> 0]
    /\ stored = [e \in ESims |-> 0]
    /\ author = [e \in ESims |-> Nobody]
    /\ holder = [p \in Processes |-> Nobody]
    /\ queue = [p \in Processes |-> <<>>]
    /\ run = [h \in Handlers |-> Nobody]

-----------------------------------------------------------------------------
Used(e) ==
    /\ live[e] < MaxUsed[e]
    /\ live' = [live EXCEPT ![e] = @ + 1]
    /\ UNCHANGED <<stored, author, holder, queue, run>>

NewRun(p, kind, es, stage) ==
    [process |-> p, kind |-> kind, stage |-> stage, todo |-> es, batch |-> {}, answer |-> <<>>]

(* A free lock for which nobody waits is taken at once.                    *)
TakesOrWaits(h, p, kind, es) ==
    IF holder[p] = Nobody /\ queue[p] = <<>>
    THEN /\ holder' = [holder EXCEPT ![p] = h]
         /\ run' = [run EXCEPT ![h] = NewRun(p, kind, es, "asking")]
         /\ UNCHANGED queue
    ELSE /\ queue' = [queue EXCEPT ![p] = Append(@, h)]
         /\ run' = [run EXCEPT ![h] = NewRun(p, kind, es, "waiting")]
         /\ UNCHANGED holder

(* _run_periodic_usage_sync_once lists every eSIM, sync_my_usage those of  *)
(* its caller; both go on only if the lock is free.                        *)
StartsUnlessBusy(h, p, es) ==
    /\ run[h] = Nobody
    /\ holder[p] = Nobody
    /\ TakesOrWaits(h, p, "listed", es)
    /\ UNCHANGED <<live, stored, author>>

(* Mutant: an administrator's sync does not take the lock.                 *)
StartsSingleUnlocked(h, p, es) ==
    /\ run[h] = Nobody
    /\ Cardinality(es) <= BatchSize
    /\ run' = [run EXCEPT ![h] = NewRun(p, "single", es, "asking")]
    /\ UNCHANGED <<live, stored, author, holder, queue>>

(* sync_usage, top_up_managed                                              *)
StartsSingle(h, p, es) ==
    /\ run[h] = Nobody
    /\ Cardinality(es) <= BatchSize
    /\ TakesOrWaits(h, p, "single", es)
    /\ UNCHANGED <<live, stored, author>>

(* user_recover_profile asks for its profile's counter at last.            *)
StartsRecover(h, p, e) ==
    /\ run[h] = Nobody
    /\ run' = [run EXCEPT ![h] = NewRun(p, "recover", {e}, "asking")]
    /\ UNCHANGED <<live, stored, author, holder, queue>>

(* _perform_active_usage_refresh loads its targets.                        *)
StartsRefresh(h, p, es) ==
    /\ run[h] = Nobody
    /\ run' = [run EXCEPT ![h] = NewRun(p, "refresh", es, "asking")]
    /\ UNCHANGED <<live, stored, author, holder, queue>>

IsAt(h, stage) == run[h] # Nobody /\ run[h].stage = stage

(* asyncio.Lock serves those who wait in their order.                      *)
Acquires(h) ==
    /\ IsAt(h, "waiting")
    /\ LET p == run[h].process IN
       /\ Head(queue[p]) = h
       /\ holder[p] = Nobody
       /\ holder' = [holder EXCEPT ![p] = h]
       /\ queue' = [queue EXCEPT ![p] = Tail(@)]
    /\ run' = [run EXCEPT ![h].stage = "asking"]
    /\ UNCHANGED <<live, stored, author>>

BatchOf(h) ==
    LET size == IF run[h].kind = "refresh" THEN 1 ELSE BatchSize
        n    == Cardinality(run[h].todo) IN
    {b \in SUBSET run[h].todo : Cardinality(b) = IF n < size THEN n ELSE size}

(* usage_check answers with the counters; the usage in an answer of        *)
(* query_profiles may lag behind them.  Records may be missing; those that *)
(* are there hold a counter.                                               *)
Answer(h, b) ==
    LET Reported(e) == IF run[h].kind = "refresh" THEN 0 .. live[e] ELSE {live[e]} IN
    UNION {{a \in [es -> UNION {Reported(e) : e \in es}] : \A e \in es : a[e] \in Reported(e)} :
              es \in SUBSET b}

ProviderReports(h) ==
    /\ IsAt(h, "asking")
    /\ \E b \in BatchOf(h) : \E a \in Answer(h, b) :
          run' = [run EXCEPT ![h].stage = "writing", ![h].batch = b, ![h].answer = a]
    /\ UNCHANGED <<live, stored, author, holder, queue>>

(* Mutant: the lock is only released by a run that succeeds.               *)
EndsHolding(h) == run' = [run EXCEPT ![h] = Nobody] /\ UNCHANGED holder

(* The run ends; "async with" releases the lock however it does.           *)
EndsRun(h) ==
    /\ run' = [run EXCEPT ![h] = Nobody]
    /\ holder' = [p \in Processes |-> IF holder[p] = h THEN Nobody ELSE holder[p]]

Continues(h, rest) ==
    IF rest = {} THEN EndsRun(h)
    ELSE /\ run' = [run EXCEPT ![h].stage = "asking", ![h].todo = rest,
                               ![h].batch = {}, ![h].answer = <<>>]
         /\ UNCHANGED holder

AuthorOf(h) == IF run[h].kind \in Locked THEN run[h].process ELSE Nobody

(* Mutant: the usage of the answer is added to the stored one.             *)
WritesSum(h) ==
    /\ IsAt(h, "writing")
    /\ stored' = [e \in ESims |-> IF e \in DOMAIN run[h].answer THEN stored[e] + run[h].answer[e]
                                  ELSE stored[e]]
    /\ author' = [e \in ESims |-> IF e \in DOMAIN run[h].answer THEN AuthorOf(h)
                                  ELSE author[e]]
    /\ Continues(h, run[h].todo \ run[h].batch)
    /\ UNCHANGED <<live, queue>>

(* sync_usage_records, sync_profiles: the profiles named by the answer.    *)
Writes(h) ==
    /\ IsAt(h, "writing")
    /\ stored' = [e \in ESims |-> IF e \in DOMAIN run[h].answer THEN run[h].answer[e]
                                  ELSE stored[e]]
    /\ author' = [e \in ESims |-> IF e \in DOMAIN run[h].answer THEN AuthorOf(h)
                                  ELSE author[e]]
    /\ Continues(h, run[h].todo \ run[h].batch)
    /\ UNCHANGED <<live, queue>>

(* Mutant: the refresh is abandoned with the first profile that fails.     *)
BatchFailsForAll(h) ==
    /\ IsAt(h, "asking") \/ IsAt(h, "writing")
    /\ EndsRun(h)
    /\ UNCHANGED <<live, stored, author, queue>>

(* The provider or the database fails.  The refresh notes the error and    *)
(* goes on with the next profile, the others end, with batches untried.    *)
BatchFails(h) ==
    /\ IsAt(h, "asking") \/ IsAt(h, "writing")
    /\ IF run[h].kind = "refresh"
       THEN \E b \in IF run[h].stage = "writing" THEN {run[h].batch} ELSE BatchOf(h) :
               Continues(h, run[h].todo \ b)
       ELSE EndsRun(h)
    /\ UNCHANGED <<live, stored, author, queue>>

(* The process ends.                                                       *)
ProcessEnds(p) ==
    /\ run' = [h \in Handlers |-> IF run[h] # Nobody /\ run[h].process = p
                               THEN Nobody ELSE run[h]]
    /\ holder' = [holder EXCEPT ![p] = Nobody]
    /\ queue' = [queue EXCEPT ![p] = <<>>]
    /\ UNCHANGED <<live, stored, author>>

HandlerSteps(h) == Acquires(h) \/ ProviderReports(h) \/ Writes(h) \/ BatchFails(h)

SyncNext ==
    \/ \E e \in ESims : Used(e)
    \/ \E h \in Handlers :
          \/ HandlerSteps(h)
          \/ \E p \in Processes :
                \/ \E es \in Lists :
                      \/ StartsUnlessBusy(h, p, es)
                      \/ StartsSingle(h, p, es)
                      \/ StartsRefresh(h, p, es)
                \/ \E e \in ESims : StartsRecover(h, p, e)
    \/ \E p \in Processes : ProcessEnds(p)

(* Calls to the provider time out, so a handler that can go on does.       *)
SyncFairness == \A h \in Handlers : WF_syncVars(HandlerSteps(h))

SyncSpec == SyncInit /\ [][SyncNext]_syncVars

-----------------------------------------------------------------------------
(* Usage syncs of one process never turn a counter back: it takes a write  *)
(* without the lock, by a recovery or a refresh, or two processes.         *)
LockedSyncsNeverTurnBack == [][
    \A e \in ESims : stored'[e] < stored[e] =>
        \E h \in Handlers :
            /\ IsAt(h, "writing") /\ e \in DOMAIN run[h].answer
            /\ run[h].kind \in Locked => author[e] # run[h].process
    ]_syncVars

(* A profile a refresh has listed is left out only if the process ends; of *)
(* the other runs, also if a call or a write of the run fails.             *)
RefreshTriesAll == [][
    \A h \in Handlers :
        (run[h] # Nobody /\ run[h].kind = "refresh" /\ run'[h] = Nobody)
        => Cardinality(run[h].todo) = 1 \/ ProcessEnds(run[h].process)
    ]_syncVars

(* Whoever waits for the lock gets it, or its process ends, whichever      *)
(* calls fail.                                                             *)
WaitersGetTheLock ==
    \A h \in Handlers : IsAt(h, "waiting") ~> ~ IsAt(h, "waiting")

(* Syncs keep the usage: none goes back and none is left out.              *)
SyncsKeepUsage == LockedSyncsNeverTurnBack /\ RefreshTriesAll
=============================================================================

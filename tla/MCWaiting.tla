------------------------------ MODULE MCWaiting ------------------------------
(* Three components that share no state and in which something waits for   *)
(* something else: a placeholder for its eSIM (ProfileRows), a call of the *)
(* FIB client for the token and its slot (FibClient), a usage sync for the *)
(* lock of its process (UsageSync).  The first state chooses the one that  *)
(* runs and the others stand still.  The provider's counters stand still   *)
(* too, since nobody waits for them.                                       *)
EXTENDS ProfileRows, FibClient, TLC

CONSTANTS o1, e1, e2, save1, save2, cron1, ask1,
          c1, c2, s1, s2, p1, p2, Nobody

VARIABLES part, live, stored, author, holder, queue, run

MCESimsOf == [o \in Orders |-> {e1, e2}]

Sync == INSTANCE UsageSync WITH
    ESims <- {s1, s2}, Lists <- {{s1}, {s1, s2}}, Handlers <- {c1, c2},
    Processes <- {p1, p2}, BatchSize <- 1, MaxUsed <- (s1 :> 0) @@ (s2 :> 0)

syncVars == <<live, stored, author, holder, queue, run>>

MCInit == part \in {"rows", "fib", "sync"} /\ RowsInit /\ FibInit /\ Sync!SyncInit

MCNext ==
    \/ part = "rows" /\ RowsNext /\ UNCHANGED <<part, fibVars, syncVars>>
    \/ part = "fib" /\ FibNext /\ UNCHANGED <<part, rowsVars, syncVars>>
    \/ part = "sync" /\ Sync!SyncNext /\ UNCHANGED <<part, rowsVars, fibVars>>

MCVars == <<part, rowsVars, fibVars, syncVars>>

MCSpec == /\ MCInit /\ [][MCNext]_MCVars
          /\ RowsFairness /\ FibFairness /\ Sync!SyncFairness

(* Whoever waits for a lock, a slot or an answer goes on in the end: every *)
(* call of the FIB client ends, and usage syncs get their lock.            *)
NobodyWaitsForEver == EveryCallEnds /\ Sync!WaitersGetTheLock
=============================================================================

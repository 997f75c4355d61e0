-------------------------- MODULE MCESimLifecycle --------------------------
(* A small instance of ESimLifecycle for TLC, in three parts, each with    *)
(* one kind of trouble; the first state chooses the part.  In each of them *)
(* the cron refresh overlaps one other handler at a time.                  *)
EXTENDS ESimLifecycle

CONSTANTS c1, h1

VARIABLE part

EndsBy(statuses) == prov'.esim \in Ended => prov'.esim \in statuses
NoManagedCalls   == pending' = None
NoNotices        == notified' = 0
NoQueries        == seen' = seen /\ \A h \in Requests : answer'[h] = None
NoRefunds        == \A h \in Requests : change'[h] # None => change'[h].app # "REFUNDED"

MCInit == Init /\ part \in {"queries", "notices", "actions"}

(* Late answers, resyncs and refunds; notices beside installations and     *)
(* usage syncs; managed actions.                                           *)
MCNext ==
    /\ Next
    /\ UNCHANGED part
    /\ part = "queries" => NoManagedCalls /\ NoNotices /\ EndsBy({"CANCEL"})
    /\ part = "notices" =>
          NoManagedCalls /\ NoQueries /\ NoRefunds /\ EndsBy({"USED_EXPIRED"})
    /\ part = "actions" =>
          NoNotices /\ NoQueries /\ NoRefunds /\ EndsBy({"CANCEL", "REVOKED"})

MCSpec == MCInit /\ [][MCNext]_<<vars, part>> /\ Fairness
=============================================================================

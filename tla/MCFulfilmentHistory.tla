------------------------ MODULE MCFulfilmentHistory ------------------------
(* The instances of MCFulfilment with the history of failed calls.         *)
EXTENDS MCFulfilment, FulfilmentHistory
=============================================================================

------------------------ MODULE MCPricesAndProviders ------------------------
(* Five components that share no state, checked by one run for their       *)
(* safety: the first state chooses the one that runs and the others stand  *)
(* still.  Who waits in them, and for what, is in MCWaiting.               *)
EXTENDS Catalogue, PublicCaches, FibClient, ESimClient, UsageSync, TLC

CONSTANTS ad1, ad2, r1, r2, c1, c2, q1, q2, s1, s2, p1, p2

VARIABLE part

MCMaxUsed == (s1 :> 1) @@ (s2 :> 0)

MCDraft(t, k, v, p, a, d, n) ==
    [table |-> t, key |-> k, value |-> v, priority |-> p, active |-> a, delay |-> d, span |-> n]
MCKey(s, b) == [scope |-> s, applies_to |-> b, rest |-> ""]
MCRate(r, m) == [rate |-> r, markup |-> m]
MCRule(k, n) == [kind |-> k, amount |-> n]

(* A rate with a markup, and a global rule that ends.                      *)
MCConfigured ==
    << MCDraft("rate", RateKey, MCRate(2, 50), 0, TRUE, Unset, Unset),
       MCDraft("pricing", MCKey("global", "provider_cost"), MCRule("percent", 25), 1,
               TRUE, Unset, 1) >>

(* The same rule again, a rate for tomorrow, a rule for one country,       *)
(* switched on and off, and two discounts for one package: of the total,   *)
(* and of the cost.                                                        *)
MCDrafts ==
    {MCConfigured[2],
     MCDraft("rate", RateKey, MCRate(3, 0), 0, TRUE, 1, Unset)}
    \cup {MCDraft("pricing", MCKey("country", "provider_cost"), MCRule("absolute", 7), 0,
                  on, Unset, Unset) : on \in BOOLEAN}
    \cup {MCDraft("discount", MCKey("package", of), MCRule("percent", 50), 0,
                  TRUE, Unset, Unset) : of \in {"item_total", "provider_cost"}}

MCBuys == [single : {FALSE}, named : BOOLEAN, ownRate : {Unset}]
          \cup [single : {TRUE}, named : {TRUE}, ownRate : {Unset, 1}]

MCInit ==
    /\ part \in {"catalogue", "caches", "fib", "esim", "sync"}
    /\ CatalogueInit
    /\ CachesInit
    /\ FibInit
    /\ ClientInit
    /\ SyncInit

MCNext ==
    \/ /\ part = "catalogue"
       /\ CatalogueNext
       /\ UNCHANGED <<part, cachesVars, fibVars, clientVars, syncVars>>
    \/ /\ part = "caches"
       /\ CachesNext
       /\ UNCHANGED <<part, catalogueVars, fibVars, clientVars, syncVars>>
    \/ /\ part = "fib"
       /\ FibNext
       /\ UNCHANGED <<part, catalogueVars, cachesVars, clientVars, syncVars>>
    \/ /\ part = "esim"
       /\ ClientNext
       /\ UNCHANGED <<part, catalogueVars, cachesVars, fibVars, syncVars>>
    \/ /\ part = "sync"
       /\ SyncNext
       /\ UNCHANGED <<part, catalogueVars, cachesVars, fibVars, clientVars>>

MCVars == <<part, catalogueVars, cachesVars, fibVars, clientVars, syncVars>>

MCSpec == MCInit /\ [][MCNext]_MCVars

(* The types of the five components.                                       *)
MCTypeOK == CatalogueTypeOK /\ CachesTypeOK /\ FibTypeOK /\ ClientTypeOK /\ SyncTypeOK
=============================================================================

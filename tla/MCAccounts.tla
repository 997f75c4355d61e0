----------------------------- MODULE MCAccounts -----------------------------
(* Three components that share no state, checked by one run: the first     *)
(* state chooses the one that runs and the other two stand still.          *)
EXTENDS Accounts, PhoneVerification, PushNotifications, TLC

CONSTANTS p1, h1, e1, t1, t2, u1, a1, d1, d2, w1

VARIABLE part

MCPayloads ==
    {[status |-> "active", blocked |-> FALSE, deleted |-> FALSE, email |-> e] :
        e \in {Nobody, e1}}
    \cup {[status |-> s, blocked |-> TRUE, deleted |-> FALSE, email |-> Nobody] :
        s \in {"active", "blocked"}}

MCLimit == [k \in Keys |-> IF k = "cooldown" THEN 1 ELSE 2]

MCRequests ==
    {[audience |-> a, users |-> {}, direct |-> {}, dry |-> FALSE] : a \in Audiences}
    \cup {[audience |-> NoOne, users |-> {u1}, direct |-> Tokens, dry |-> b] : b \in BOOLEAN}

(* Swapped at once, as only one of the sets matters to the component that  *)
(* runs.                                                                   *)
MCSwap == d1 :> d2 @@ d2 :> d1 @@ t1 :> t2 @@ t2 :> t1
MCSymmetry == {[v \in DOMAIN MCSwap |-> IF b THEN MCSwap[v] ELSE v] : b \in BOOLEAN}

MCInit ==
    /\ part \in {"accounts", "verification", "push"}
    /\ AccountsInit
    /\ VerificationInit
    /\ PushInit

MCNext ==
    \/ /\ part = "accounts"
       /\ AccountsNext
       /\ UNCHANGED <<part, verificationVars, pushVars>>
    \/ /\ part = "verification"
       /\ VerificationNext
       /\ UNCHANGED <<part, accountsVars, pushVars>>
    \/ /\ part = "push"
       /\ PushNext
       /\ UNCHANGED <<part, accountsVars, verificationVars>>

MCVars == <<part, accountsVars, verificationVars, pushVars>>

MCSpec == MCInit /\ [][MCNext]_MCVars

(* The types of the three components.                                      *)
MCTypeOK == AccountsTypeOK /\ VerificationTypeOK /\ PushTypeOK
=============================================================================

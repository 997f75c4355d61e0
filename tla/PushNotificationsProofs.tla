----------------------- MODULE PushNotificationsProofs -----------------------
(* Proofs about PushNotifications, for any owners, writers and requests    *)
(* and any finite set of device tokens, and about the specification that   *)
(* puts it beside the accounts and the phone verification.                 *)
EXTENDS MCAccounts, AccountsProofs, PhoneVerificationProofs

-----------------------------------------------------------------------------
(* What the steps have in common.                                          *)

(* A row that owns its device once and that nobody else's columns change.  *)
LEMMA MergedRule ==
    ASSUME NEW old \in Devices, NEW seen \in Devices, NEW new \in Devices
    PROVE  /\ Merged(old, seen, new) \in Devices
           /\ \A f \in {"user", "admin", "active"} :
                 Merged(old, seen, new)[f] = IF new[f] # seen[f] THEN new[f] ELSE old[f]
BY DEF Devices, Merged

(* The campaign's own type, without the set that depends on the campaign.  *)
LEMMA CampaignRule ==
    ASSUME PushTypeOK
    PROVE  /\ campaign.sending \in BOOLEAN /\ campaign.trouble \in BOOLEAN
           /\ campaign.tokens \subseteq Tokens
           /\ campaign.todo \subseteq campaign.tokens
           /\ campaign.ok \subseteq campaign.tokens
           /\ campaign.invalid \subseteq campaign.tokens
           /\ DOMAIN campaign = {"sending", "tokens", "todo", "ok", "invalid", "trouble"}
           /\ campaign = [sending |-> campaign.sending, tokens |-> campaign.tokens,
                          todo |-> campaign.todo, ok |-> campaign.ok,
                          invalid |-> campaign.invalid, trouble |-> campaign.trouble]
BY DEF PushTypeOK

(* Silencing devices changes nothing else of them, and adds none.          *)
LEMMA DeactivatedRule ==
    ASSUME PushTypeOK, NEW ts
    PROVE  /\ Deactivated(ts) \in [Tokens -> Devices \cup {NoOne}]
           /\ \A t \in Tokens :
                 /\ (Deactivated(ts)[t] = NoOne) <=> (device[t] = NoOne)
                 /\ t \notin ts => Deactivated(ts)[t] = device[t]
                 /\ device[t] # NoOne =>
                       /\ Deactivated(ts)[t].user = device[t].user
                       /\ Deactivated(ts)[t].admin = device[t].admin
                       /\ t \notin ts => Deactivated(ts)[t].active = device[t].active
<1>1. ASSUME NEW t \in Tokens
      PROVE  /\ Deactivated(ts)[t] \in Devices \cup {NoOne}
             /\ (Deactivated(ts)[t] = NoOne) <=> (device[t] = NoOne)
             /\ t \notin ts => Deactivated(ts)[t] = device[t]
             /\ device[t] # NoOne =>
                   /\ Deactivated(ts)[t].user = device[t].user
                   /\ Deactivated(ts)[t].admin = device[t].admin
  <2>1. CASE t \in ts /\ device[t] # NoOne
    <3>1. Deactivated(ts)[t] = [device[t] EXCEPT !.active = FALSE] /\ device[t] \in Devices
      BY <2>1 DEF Deactivated, PushTypeOK
    <3>2. [device[t] EXCEPT !.active = FALSE] \in Devices
      BY <3>1 DEF Devices
    <3>3. /\ Deactivated(ts)[t].user = device[t].user
          /\ Deactivated(ts)[t].admin = device[t].admin
      BY <3>1 DEF Devices
    <3> QED BY <2>1, <3>1, <3>2, <3>3, NoOneAssumption
  <2>2. CASE ~ (t \in ts /\ device[t] # NoOne)
    BY <2>2 DEF Deactivated, PushTypeOK
  <2> QED BY <2>1, <2>2
<1>2. Deactivated(ts) = [t \in Tokens |-> Deactivated(ts)[t]]
  BY DEF Deactivated
<1> QED BY <1>1, <1>2

(* A registration's commit stores a row of the token, or nothing.          *)
LEMMA RegisterRule ==
    ASSUME PushTypeOK, NEW w \in Writers, RegisterWrites(w)
    PROVE  LET t    == writing[w].token
               seen == writing[w].seen
               new  == writing[w].new
               dev  == IF seen = NoOne THEN new ELSE Merged(device[t], seen, new) IN
           /\ t \in Tokens /\ new \in Devices
           /\ \/ UNCHANGED device
              \/ /\ dev \in Devices /\ OwnedOnce(dev)
                 /\ device' = [device EXCEPT ![t] = dev]
                 /\ (seen = NoOne) = (device[t] = NoOne)
                 /\ \/ seen = NoOne /\ dev = new
                    \/ /\ seen \in Devices /\ device[t] \in Devices
                       /\ dev.active = IF new.active # seen.active THEN new.active
                                       ELSE device[t].active
<1> DEFINE t    == writing[w].token
           seen == writing[w].seen
           new  == writing[w].new
           dev  == IF seen = NoOne THEN new ELSE Merged(device[t], seen, new)
<1>1. t \in Tokens /\ seen \in Devices \cup {NoOne} /\ new \in Devices
  BY DEF RegisterWrites, PushTypeOK, Writings
<1>2. device[t] \in Devices \cup {NoOne}
  BY <1>1 DEF PushTypeOK
<1>3. CASE (seen = NoOne) = (device[t] = NoOne) /\ OwnedOnce(dev)
  <2>1. device' = [device EXCEPT ![t] = dev]
    BY <1>3 DEF RegisterWrites
  <2>2. CASE seen = NoOne
    BY <1>1, <1>3, <2>1, <2>2
  <2>3. CASE seen # NoOne
    <3>1. seen \in Devices /\ device[t] \in Devices
      BY <1>1, <1>2, <1>3, <2>3
    <3>2. dev = Merged(device[t], seen, new)
      BY <2>3
    <3> HIDE DEF t, seen, new, dev
    <3>3. /\ dev \in Devices
          /\ dev.active = IF new.active # seen.active THEN new.active ELSE device[t].active
      BY <1>1, <3>1, <3>2, MergedRule
    <3> QED BY <1>1, <1>3, <2>1, <3>1, <3>3 DEF t, seen, new, dev
  <2> QED BY <2>2, <2>3
<1>4. CASE ~ ((seen = NoOne) = (device[t] = NoOne) /\ OwnedOnce(dev))
  <2>1. UNCHANGED device
    BY <1>4 DEF RegisterWrites
  <2> QED BY <1>1, <2>1
<1> QED BY <1>3, <1>4

(* The steps of the specification: what an administrator asks for an app   *)
(* update is a campaign like another one.                                  *)
LEMMA PushCases ==
    ASSUME PushNext
    PROVE  \/ \E u \in Users : AccountChanges(u)
           \/ \E w \in Writers : RegisterWrites(w)
           \/ \E w \in Writers : UnregisterWrites(w)
           \/ \E w \in Writers, s \in Subjects, t \in Tokens : RegisterReads(w, t, s)
           \/ \E w \in Writers, s \in Subjects, scope \in SUBSET Tokens :
                 UnregisterReads(w, s, scope)
           \/ \E t \in Tokens, s \in Subjects : Register(t, s)
           \/ \E ts \in SUBSET Tokens : Cleanup(ts)
           \/ \E ts \in SUBSET Tokens, u \in Users : PurgeStale(u, ts)
           \/ \E a \in Admins : AdminDeleted(a)
           \/ \E r \in Requests : Start(r)
           \/ CallFails
           \/ Finalize
           \/ \E batch \in SUBSET campaign.todo : \E answer \in Answers(batch) :
                 \E lost \in SUBSET (batch \ answer.ok) : SendBatch(batch, answer, lost)
           \/ Crash
<1>1. ASSUME NEW w \in Writers, NEW s \in Subjects,
             NEW scope \in {Tokens} \cup {{t} : t \in Tokens}, UnregisterReads(w, s, scope)
      PROVE  \E sc \in SUBSET Tokens : UnregisterReads(w, s, sc)
  BY <1>1
<1>2. \A r \in Requests : StartAppUpdate(r) => Start(r)
  BY DEF StartAppUpdate
<1> QED BY <1>1, <1>2 DEF PushNext, Sending

(* Whoever is addressed has a device.                                      *)
LEMMA RecipientsAreTokens == ASSUME NEW r \in Requests PROVE Recipients(r) \subseteq Tokens
<1>1. r.direct \subseteq Tokens
  BY RequestAssumption
<1> QED BY <1>1 DEF Recipients, AudienceTokens, ListPushTokens, AllTokens, AdminTokens,
                    ActiveDevices

-----------------------------------------------------------------------------
(* Types.                                                                  *)

(* Between campaigns no device is counted as reached: without this the     *)
(* next campaign could start with devices it does not address.             *)
Idle == ~ campaign.sending => reached = {}

(* The tables and the campaign keep their types in every step.             *)
LEMMA PushTypeStep ==
    ASSUME PushTypeOK, Idle, [PushNext]_pushVars
    PROVE  PushTypeOK' /\ Idle'
<1> USE DEF PushTypeOK, Idle
<1>1. ASSUME NEW u \in Users, AccountChanges(u)
      PROVE  PushTypeOK' /\ Idle'
  <2>1. PICK f \in DOMAIN account[u] : account' = [account EXCEPT ![u][f] = ~ @]
    BY <1>1 DEF AccountChanges
  <2>2. account[u] \in Customers /\ f \in {"active", "enabled", "member"}
    BY <2>1 DEF Customers
  <2>3. [account[u] EXCEPT ![f] = ~ @] \in Customers
    BY <2>2 DEF Customers
  <2>4. account' = [account EXCEPT ![u] = [account[u] EXCEPT ![f] = ~ @]]
    BY <2>1
  <2> QED BY <1>1, <2>3, <2>4 DEF AccountChanges
<1>2. ASSUME NEW w \in Writers, RegisterWrites(w)
      PROVE  PushTypeOK' /\ Idle'
  <2>1. device' \in [Tokens -> Devices \cup {NoOne}]
    BY <1>2, RegisterRule
  <2> QED BY <1>2, <2>1 DEF RegisterWrites
<1>3. ASSUME NEW w \in Writers, UnregisterWrites(w)
      PROVE  PushTypeOK' /\ Idle'
  BY <1>3, DeactivatedRule DEF UnregisterWrites
<1>4. ASSUME NEW w \in Writers, NEW s \in Subjects, NEW t \in Tokens, RegisterReads(w, t, s)
      PROVE  PushTypeOK' /\ Idle'
  <2> DEFINE r == [kind |-> "register", token |-> t, seen |-> device[t],
                   new |-> [user |-> s.user, admin |-> s.admin, active |-> TRUE]]
  <2>1. [user |-> s.user, admin |-> s.admin, active |-> TRUE] \in Devices
    BY DEF Subjects, NoSubject, Devices
  <2>2. r \in Writings
    BY <2>1 DEF Writings
  <2> HIDE DEF r
  <2>3. writing' = [writing EXCEPT ![w] = r]
    BY <1>4 DEF RegisterReads, r
  <2> QED BY <1>4, <2>2, <2>3 DEF RegisterReads
<1>5. ASSUME NEW w \in Writers, NEW s \in Subjects, NEW scope \in SUBSET Tokens,
             UnregisterReads(w, s, scope)
      PROVE  PushTypeOK' /\ Idle'
  <2> DEFINE r == [kind |-> "unregister", rows |-> DeactivateFilter(s, scope),
                   own |-> {t \in Tokens : Owns(s, t)}]
  <2>1. DeactivateFilter(s, scope) \in SUBSET Tokens
    BY DEF DeactivateFilter, DeactivatePublic, DeactivateOwned
  <2>2. r \in Writings
    BY <2>1 DEF Writings
  <2> HIDE DEF r
  <2>3. writing' = [writing EXCEPT ![w] = r]
    BY <1>5 DEF UnregisterReads, r
  <2> QED BY <1>5, <2>2, <2>3 DEF UnregisterReads
<1>6. ASSUME NEW t \in Tokens, NEW s \in Subjects, Register(t, s)
      PROVE  PushTypeOK' /\ Idle'
  <2>1. [user |-> s.user, admin |-> s.admin, active |-> TRUE] \in Devices
    BY DEF Subjects, NoSubject, Devices
  <2> QED BY <1>6, <2>1 DEF Register
<1>7. ASSUME NEW ts \in SUBSET Tokens, Cleanup(ts)
      PROVE  PushTypeOK' /\ Idle'
  BY <1>7 DEF Cleanup
<1>8. ASSUME NEW ts \in SUBSET Tokens, NEW u \in Users, PurgeStale(u, ts)
      PROVE  PushTypeOK' /\ Idle'
  BY <1>8, DeactivatedRule DEF PurgeStale
<1>9. ASSUME NEW a \in Admins, AdminDeleted(a)
      PROVE  PushTypeOK' /\ Idle'
  BY <1>9 DEF AdminDeleted
<1>10. ASSUME NEW r \in Requests, Start(r)
       PROVE  PushTypeOK' /\ Idle'
  <2>1. Recipients(r) \subseteq Tokens /\ IsFiniteSet(Recipients(r))
    BY RecipientsAreTokens, TokensAssumption, FS_Subset
  <2>2. Cardinality(Recipients(r)) \in Nat
    BY <2>1, FS_CardinalityType
  <2>3. CASE r.dry
    BY <1>10, <2>2, <2>3 DEF Start, Records
  <2>4. CASE ~ r.dry
    <3>1. ~ campaign.sending /\ campaign' = Created(Recipients(r)) /\ record' = NoOne
      BY <1>10, <2>4 DEF Start
    <3> QED BY <1>10, <2>1, <3>1 DEF Start, Created, NoCampaign
  <2> QED BY <2>3, <2>4
<1>11. CASE CallFails
  BY <1>11 DEF CallFails, Ends, NoCampaign, Records
<1>12. CASE Finalize
  <2>1. /\ Cardinality(campaign.ok) \in Nat
        /\ Cardinality(campaign.tokens \ campaign.ok) \in Nat
    BY CampaignRule, TokensAssumption, FS_Subset, FS_CardinalityType
  <2>2. \A m, n \in Nat : DeliveryStatus(m, n) \in {"sent", "partial", "failed"}
    BY DEF DeliveryStatus
  <2> QED BY <1>12, <2>1, <2>2, DeactivatedRule DEF Finalize, Ends, NoCampaign, Records
<1>13. ASSUME NEW batch \in SUBSET campaign.todo, NEW answer \in Answers(batch),
              NEW lost \in SUBSET (batch \ answer.ok), SendBatch(batch, answer, lost)
       PROVE  PushTypeOK' /\ Idle'
  <2>1. answer.ok \subseteq batch /\ answer.invalid \subseteq batch
    BY DEF Answers
  <2>2. /\ campaign.todo \subseteq campaign.tokens /\ campaign.tokens \subseteq Tokens
        /\ campaign.ok \subseteq campaign.tokens /\ campaign.invalid \subseteq campaign.tokens
        /\ campaign.trouble \in BOOLEAN
    OBVIOUS
  <2>3. campaign' = [campaign EXCEPT !.todo = @ \ batch, !.ok = @ \cup answer.ok,
                                     !.invalid = @ \cup answer.invalid,
                                     !.trouble = @ \/ lost # {}]
    BY <1>13 DEF SendBatch
  <2>4. /\ campaign'.tokens = campaign.tokens /\ campaign'.sending = campaign.sending
        /\ campaign'.ok \subseteq campaign.tokens
        /\ campaign' \in [sending : BOOLEAN, tokens : SUBSET Tokens,
                          todo : SUBSET campaign.tokens, ok : SUBSET campaign.tokens,
                          invalid : SUBSET campaign.tokens, trouble : BOOLEAN]
    BY <2>1, <2>2, <2>3
  <2>5. reached' \subseteq campaign.tokens
    BY <1>13, <2>1, <2>2 DEF SendBatch
  <2> QED BY <1>13, <2>4, <2>5 DEF SendBatch
<1>14. CASE Crash
  BY <1>14 DEF Crash, NoCampaign
<1>15. CASE UNCHANGED pushVars
  BY <1>15 DEF pushVars
<1> QED BY <1>1, <1>2, <1>3, <1>4, <1>5, <1>6, <1>7, <1>8, <1>9, <1>10, <1>11, <1>12,
           <1>13, <1>14, <1>15, PushCases

(* The push tables and campaigns have their types in every state.          *)
THEOREM PushTypeCorrect == PushSpec => [](PushTypeOK /\ Idle)
<1>1. PushInit => PushTypeOK /\ Idle
  BY DEF PushInit, PushTypeOK, NoCampaign, Customers, Idle
<1>2. PushTypeOK /\ Idle /\ [PushNext]_pushVars => PushTypeOK' /\ Idle'
  BY PushTypeStep
<1> QED BY <1>1, <1>2, PTL DEF PushSpec

-----------------------------------------------------------------------------
(* Owners of devices.                                                      *)

(* Whoever addresses or silences devices, a device has one owner.          *)
LEMMA OneOwnerStep ==
    ASSUME PushTypeOK, OneOwner, [PushNext]_pushVars
    PROVE  OneOwner'
<1> USE DEF OneOwner
<1>1. ASSUME NEW s \in Subjects
      PROVE  s.user = NoOne \/ s.admin = NoOne
  BY DEF Subjects, NoSubject
<1>2. ASSUME NEW w \in Writers, RegisterWrites(w)
      PROVE  OneOwner'
  <2> DEFINE t    == writing[w].token
             seen == writing[w].seen
             new  == writing[w].new
             d    == IF seen = NoOne THEN new ELSE Merged(device[t], seen, new)
  <2>1. CASE UNCHANGED device
    BY <2>1
  <2>2. CASE device' = [device EXCEPT ![t] = d] /\ OwnedOnce(d) /\ t \in Tokens
    <3> HIDE DEF d, t
    <3> QED BY <2>2 DEF PushTypeOK
  <2> QED BY <1>2, <2>1, <2>2, RegisterRule
<1>3. ASSUME NEW t \in Tokens, NEW s \in Subjects, Register(t, s)
      PROVE  OneOwner'
  BY <1>1, <1>3 DEF Register, OwnedOnce, PushTypeOK
<1>4. ASSUME NEW ts, device' = Deactivated(ts)
      PROVE  OneOwner'
  BY <1>4, DeactivatedRule DEF OwnedOnce
<1>5. ASSUME NEW w \in Writers, UnregisterWrites(w)
      PROVE  OneOwner'
  BY <1>4, <1>5 DEF UnregisterWrites
<1>6. ASSUME NEW ts, Cleanup(ts)
      PROVE  OneOwner'
  BY <1>6 DEF Cleanup
<1>7. ASSUME NEW ts, NEW u, PurgeStale(u, ts)
      PROVE  OneOwner'
  BY <1>4, <1>7 DEF PurgeStale
<1>8. ASSUME NEW a, AdminDeleted(a)
      PROVE  OneOwner'
  BY <1>8 DEF AdminDeleted
<1>9. CASE Finalize
  BY <1>4, <1>9 DEF Finalize
<1>10. CASE UNCHANGED device
  BY <1>10
<1> QED BY <1>2, <1>3, <1>5, <1>6, <1>7, <1>8, <1>9, <1>10, PushCases
        DEF AccountChanges, RegisterReads, UnregisterReads, Start, CallFails, SendBatch,
            Crash, pushVars

(* What handlers hold: a registration serves the device, and the rows to   *)
(* silence were the subject's.  What a campaign knows of its devices is    *)
(* consistent.                                                             *)
HeldInv == \A w \in Writers : writing[w] # NoOne =>
    /\ writing[w].kind = "register" => writing[w].new.active
    /\ writing[w].kind = "unregister" => writing[w].rows \subseteq writing[w].own

CampaignInv ==
    /\ campaign.sending => record = NoOne
    /\ campaign.ok \cap campaign.invalid = {}
    /\ campaign.todo \cap (campaign.ok \cup campaign.invalid) = {}
    /\ campaign.ok \subseteq reached
    /\ ~ campaign.trouble => reached = campaign.ok

(* Both are kept by every step.                                            *)
LEMMA HeldStep ==
    ASSUME PushTypeOK, HeldInv, [PushNext]_pushVars
    PROVE  HeldInv'
<1> USE DEF HeldInv
<1>1. ASSUME NEW w \in Writers, RegisterWrites(w) \/ UnregisterWrites(w)
      PROVE  HeldInv'
  BY <1>1 DEF RegisterWrites, UnregisterWrites, PushTypeOK
<1>2. ASSUME NEW w \in Writers, NEW s \in Subjects, NEW t \in Tokens, RegisterReads(w, t, s)
      PROVE  HeldInv'
  BY <1>2 DEF RegisterReads, PushTypeOK
<1>3. ASSUME NEW w \in Writers, NEW s \in Subjects, NEW scope \in SUBSET Tokens,
             UnregisterReads(w, s, scope)
      PROVE  HeldInv'
  <2>1. DeactivateFilter(s, scope) \subseteq {t \in Tokens : Owns(s, t)}
    BY DEF DeactivateFilter, DeactivatePublic, DeactivateOwned
  <2> QED BY <1>3, <2>1 DEF UnregisterReads, PushTypeOK
<1>4. ASSUME NEW a, AdminDeleted(a)
      PROVE  HeldInv'
  BY <1>4 DEF AdminDeleted
<1>5. CASE UNCHANGED writing
  BY <1>5
<1> QED BY <1>1, <1>2, <1>3, <1>4, <1>5, PushCases
        DEF AccountChanges, Register, Cleanup, PurgeStale, Start, CallFails, SendBatch,
            Finalize, Crash, pushVars

LEMMA CampaignStep ==
    ASSUME PushTypeOK, Idle, CampaignInv, [PushNext]_pushVars
    PROVE  CampaignInv'
<1> USE DEF CampaignInv, PushTypeOK
<1>1. ASSUME NEW r \in Requests, Start(r)
      PROVE  CampaignInv'
  <2>1. CASE r.dry
    BY <1>1, <2>1 DEF Start
  <2>2. CASE ~ r.dry
    BY <1>1, <2>2 DEF Start, Created, NoCampaign, Idle
  <2> QED BY <2>1, <2>2
<1>2. CASE CallFails \/ Finalize \/ Crash
  <2>1. campaign' = NoCampaign /\ reached' = {}
    BY <1>2 DEF CallFails, Finalize, Crash, Ends
  <2> QED BY <2>1 DEF NoCampaign
<1>3. ASSUME NEW batch \in SUBSET campaign.todo, NEW answer \in Answers(batch),
             NEW lost \in SUBSET (batch \ answer.ok), SendBatch(batch, answer, lost)
      PROVE  CampaignInv'
  <2>1. /\ answer.ok \subseteq batch /\ answer.invalid \subseteq batch
        /\ answer.ok \cap answer.invalid = {}
    BY DEF Answers
  <2>2. /\ campaign'.sending = campaign.sending
        /\ campaign'.todo = campaign.todo \ batch
        /\ campaign'.ok = campaign.ok \cup answer.ok
        /\ campaign'.invalid = campaign.invalid \cup answer.invalid
        /\ campaign'.trouble = (campaign.trouble \/ lost # {})
        /\ reached' = reached \cup answer.ok \cup lost
        /\ record' = record
    BY <1>3 DEF SendBatch
  <2> QED BY <2>1, <2>2
<1>4. CASE UNCHANGED <<campaign, record, reached>>
  BY <1>4
<1> QED BY <1>1, <1>2, <1>3, <1>4, PushCases
        DEF AccountChanges, Register, RegisterReads, RegisterWrites, UnregisterReads,
            UnregisterWrites, Cleanup, PurgeStale, AdminDeleted, pushVars

(* A device that is silenced is silenced by an unregistration, a purge or  *)
(* the campaign that did not deliver to it.                                *)
LEMMA SilencedStep ==
    ASSUME PushTypeOK, HeldInv, CampaignInv, PushNext, NEW t \in Tokens,
           device[t] # NoOne, device'[t] # NoOne, device[t].active, ~ device'[t].active
    PROVE  \/ \E w \in Writers : /\ writing[w] # NoOne /\ writing'[w] = NoOne
                                 /\ writing[w].kind = "unregister"
                                 /\ t \in writing[w].own
           \/ /\ campaign.sending /\ ~ campaign'.sending
              /\ t \in campaign.tokens \ campaign.ok
           \/ \E ts \in SUBSET Tokens : t \in ts /\ PurgeStale(device[t].user, ts)
<1> DEFINE Goal == \/ \E w \in Writers : /\ writing[w] # NoOne /\ writing'[w] = NoOne
                                         /\ writing[w].kind = "unregister"
                                         /\ t \in writing[w].own
                   \/ /\ campaign.sending /\ ~ campaign'.sending
                      /\ t \in campaign.tokens \ campaign.ok
                   \/ \E ts \in SUBSET Tokens : t \in ts /\ PurgeStale(device[t].user, ts)
<1>1. device' # device
  OBVIOUS
<1>2. ASSUME NEW w \in Writers, RegisterWrites(w)
      PROVE  FALSE
  <2> DEFINE u    == writing[w].token
             seen == writing[w].seen
             new  == writing[w].new
             d    == IF seen = NoOne THEN new ELSE Merged(device[u], seen, new)
  <2>1. /\ u \in Tokens
        /\ device' = [device EXCEPT ![u] = d]
        /\ \/ d = new
           \/ d.active = IF new.active # seen.active THEN new.active ELSE device[u].active
    BY <1>1, <1>2, RegisterRule
  <2>2. new.active /\ writing[w].kind = "register"
    BY <1>2 DEF RegisterWrites, HeldInv
  <2>3. \/ d = new
        \/ seen \in Devices /\ device[u] \in Devices /\ new \in Devices
    BY <1>1, <1>2, RegisterRule
  <2>4. d.active \/ (device[u] \in Devices /\ ~ device[u].active)
    <3>1. CASE d = new
      BY <2>2, <3>1
    <3>2. CASE d # new
      <4> HIDE DEF d
      <4> QED BY <2>1, <2>2, <2>3, <3>2 DEF Devices
    <3> QED BY <3>1, <3>2
  <2> HIDE DEF d, u
  <2>5. t = u /\ device'[t] = d
    BY <2>1 DEF PushTypeOK
  <2> QED BY <2>4, <2>5
<1>3. ASSUME NEW ts, device' = Deactivated(ts)
      PROVE  t \in ts
  BY <1>3, DeactivatedRule
<1>4. ASSUME NEW w \in Writers, UnregisterWrites(w)
      PROVE  Goal
  <2>1. t \in writing[w].rows /\ writing[w] # NoOne /\ writing[w].kind = "unregister"
    BY <1>3, <1>4 DEF UnregisterWrites
  <2>2. t \in writing[w].own
    BY <2>1 DEF HeldInv
  <2>3. writing'[w] = NoOne
    BY <1>4 DEF UnregisterWrites, PushTypeOK
  <2> QED BY <2>1, <2>2, <2>3
<1>5. ASSUME NEW ts \in SUBSET Tokens, NEW u \in Users, PurgeStale(u, ts)
      PROVE  Goal
  <2>1. t \in ts
    BY <1>3, <1>5 DEF PurgeStale
  <2>2. device[t].user = u
    BY <1>5, <2>1 DEF PurgeStale
  <2> QED BY <1>5, <2>1, <2>2
<1>6. CASE Finalize
  <2>1. t \in campaign.invalid
    BY <1>3, <1>6 DEF Finalize
  <2>2. campaign.sending /\ ~ campaign'.sending
    BY <1>6 DEF Finalize, Ends, NoCampaign
  <2> QED BY <2>1, <2>2, CampaignRule DEF CampaignInv
<1>7. ASSUME NEW u \in Tokens, NEW s \in Subjects, Register(u, s)
      PROVE  FALSE
  BY <1>7 DEF Register, PushTypeOK
<1>8. ASSUME NEW ts, Cleanup(ts)
      PROVE  FALSE
  BY <1>8 DEF Cleanup
<1>9. ASSUME NEW a, AdminDeleted(a)
      PROVE  FALSE
  BY <1>9 DEF AdminDeleted
<1> QED BY <1>1, <1>2, <1>4, <1>5, <1>6, <1>7, <1>8, <1>9, PushCases
        DEF AccountChanges, RegisterReads, UnregisterReads, Start, CallFails, SendBatch, Crash

(* For any subjects and any number of concurrent handlers, a device has    *)
(* one owner, and is silenced by its owner, by an administrator's purge or *)
(* by a campaign that addressed it and did not deliver to it.              *)
THEOREM DevicesHaveOwners == PushSpec => DevicesFollowOwners
<1>1. PushInit => OneOwner /\ HeldInv /\ CampaignInv
  BY DEF PushInit, OneOwner, HeldInv, CampaignInv, NoCampaign
<1>2. PushTypeOK /\ Idle /\ OneOwner /\ HeldInv /\ CampaignInv /\ [PushNext]_pushVars
      => OneOwner' /\ HeldInv' /\ CampaignInv'
  BY OneOwnerStep, HeldStep, CampaignStep
<1>3. ASSUME PushTypeOK, HeldInv, CampaignInv, [PushNext]_pushVars
      PROVE  [\A t \in Tokens :
                (device[t] # NoOne /\ device'[t] # NoOne
                    /\ device[t].active /\ ~ device'[t].active)
                => \/ \E w \in Writers : /\ writing[w] # NoOne /\ writing'[w] = NoOne
                                         /\ writing[w].kind = "unregister"
                                         /\ t \in writing[w].own
                   \/ /\ campaign.sending /\ ~ campaign'.sending
                      /\ t \in campaign.tokens \ campaign.ok
                   \/ \E ts \in SUBSET Tokens : t \in ts /\ PurgeStale(device[t].user, ts)
             ]_pushVars
  BY <1>3, SilencedStep
<1>4. PushSpec => [](PushTypeOK /\ Idle)
  BY PushTypeCorrect
<1> QED BY <1>1, <1>2, <1>3, <1>4, PTL
        DEF PushSpec, DevicesFollowOwners, SilencedByOwnerOrCampaign

-----------------------------------------------------------------------------
(* Campaigns.                                                              *)

(* Of any request and any accounts and devices: who is addressed was asked *)
(* for, except that an audience of customers that matches none addresses   *)
(* all of them.                                                            *)
LEMMA AddressedRequested == AddressedWereRequested
<1> SUFFICES ASSUME NEW r \in Requests, NEW t \in Recipients(r)
             PROVE  \/ Requested(r, t)
                    \/ /\ r.audience \in {"authenticated", "segment"}
                       /\ AudienceUsers(r.audience) = {}
  BY DEF AddressedWereRequested
<1>1. CASE t \in r.direct
  BY <1>1 DEF Requested
<1>2. CASE r.users # {} /\ t \in ListPushTokens(r.users)
  BY <1>2 DEF ListPushTokens, ActiveDevices, Requested
<1>3. CASE r.audience # NoOne /\ t \in AudienceTokens(r.audience)
  <2>1. r.audience \in Audiences
    BY <1>3, RequestAssumption
  <2>2. CASE r.audience \in {"all", "admins"}
    BY <1>3, <2>2 DEF AudienceTokens, AllTokens, AdminTokens, ActiveDevices, Requested, Meant
  <2>3. CASE r.audience \in {"authenticated", "segment"}
    <3>1. t \in ListPushTokens(AudienceUsers(r.audience))
      BY <1>3, <2>3 DEF AudienceTokens
    <3>2. CASE AudienceUsers(r.audience) # {}
      <4>1. /\ device[t] # NoOne /\ device[t].active /\ device[t].user # NoOne
            /\ device[t].user \in AudienceUsers(r.audience)
        BY <3>1, <3>2 DEF ListPushTokens, ActiveDevices
      <4>2. Meant(r.audience, t)
        BY <2>3, <4>1 DEF AudienceUsers, Meant
      <4> QED BY <1>3, <4>2 DEF Requested
    <3> QED BY <2>3, <3>2
  <2> QED BY <2>1, <2>2, <2>3 DEF Audiences
<1> QED BY <1>1, <1>2, <1>3 DEF Recipients

(* What is recorded at the end of a campaign is what it reached.           *)
LEMMA CountsStep ==
    ASSUME PushTypeOK, Idle, CampaignInv, PushNext, campaign.sending, record' # NoOne
    PROVE  /\ record'.success <= Cardinality(reached)
           /\ record'.status = "sent" => reached = campaign.tokens
           /\ (campaign.todo = {} /\ ~ campaign.trouble) =>
                 /\ record'.success = Cardinality(reached)
                 /\ record'.status = "failed" => reached = {}
<1>1. /\ IsFiniteSet(campaign.tokens) /\ IsFiniteSet(reached) /\ IsFiniteSet(campaign.ok)
      /\ IsFiniteSet(campaign.tokens \ campaign.ok)
  BY CampaignRule, TokensAssumption, FS_Subset DEF PushTypeOK
<1>2. /\ Cardinality(reached) \in Nat /\ Cardinality(campaign.ok) \in Nat
      /\ Cardinality(campaign.tokens \ campaign.ok) \in Nat
      /\ Cardinality(campaign.ok) <= Cardinality(reached)
      /\ Cardinality(campaign.ok) = 0 => campaign.ok = {}
      /\ Cardinality(campaign.tokens \ campaign.ok) = 0 => campaign.tokens \ campaign.ok = {}
  BY <1>1, FS_CardinalityType, FS_Subset, FS_EmptySet DEF CampaignInv
<1>3. record' # record
  BY DEF CampaignInv
<1>4. CASE CallFails
  <2>1. record'.success = 0 /\ record'.status = "failed" /\ campaign.todo # {}
    BY <1>4 DEF CallFails, Ends
  <2> QED BY <1>2, <2>1
<1>5. CASE Finalize
  <2> DEFINE success == Cardinality(campaign.ok)
             failure == Cardinality(campaign.tokens \ campaign.ok)
  <2>1. /\ record'.success = success
        /\ record'.status = DeliveryStatus(success, failure)
    BY <1>5 DEF Finalize, Ends
  <2>2. record'.status = "sent" => reached = campaign.tokens
    <3>1. record'.status = "sent" => failure = 0
      BY <2>1 DEF DeliveryStatus
    <3>2. campaign.ok \subseteq reached /\ reached \subseteq campaign.tokens
      BY DEF CampaignInv, PushTypeOK
    <3> QED BY <1>2, <3>1, <3>2
  <2>3. record'.status = "failed" => success = 0
    BY <1>2, <2>1 DEF DeliveryStatus
  <2> QED BY <1>2, <2>1, <2>2, <2>3 DEF CampaignInv
<1>6. CASE \E r \in Requests : Start(r)
  BY <1>6 DEF Start
<1> QED BY <1>3, <1>4, <1>5, <1>6, PushCases
        DEF AccountChanges, RegisterReads, RegisterWrites, UnregisterReads, UnregisterWrites,
            Register, Cleanup, PurgeStale, AdminDeleted, SendBatch, Crash

(* A campaign addresses whom it was asked to, and never claims a delivery  *)
(* that did not happen, whatever calls and answers were lost.              *)
THEOREM CampaignsHonest == PushSpec => CampaignsAreHonest
<1>1. PushInit => CampaignInv
  BY DEF PushInit, CampaignInv, NoCampaign
<1>2. PushTypeOK /\ Idle /\ CampaignInv /\ [PushNext]_pushVars => CampaignInv'
  BY CampaignStep
<1>3. ASSUME PushTypeOK, Idle, CampaignInv, [PushNext]_pushVars
      PROVE  [(campaign.sending /\ record' # NoOne) =>
                  /\ record'.success <= Cardinality(reached)
                  /\ record'.status = "sent" => reached = campaign.tokens
                  /\ (campaign.todo = {} /\ ~ campaign.trouble) =>
                        /\ record'.success = Cardinality(reached)
                        /\ record'.status = "failed" => reached = {}
             ]_pushVars
  BY <1>3, CountsStep
<1>4. PushSpec => [](PushTypeOK /\ Idle)
  BY PushTypeCorrect
<1>5. AddressedWereRequested
  BY AddressedRequested
<1> QED BY <1>1, <1>2, <1>3, <1>4, <1>5, PTL
        DEF PushSpec, CampaignsAreHonest, CountsAreReached

-----------------------------------------------------------------------------
(* The three components side by side.                                      *)

(* Each of them takes its own steps or none.                               *)
LEMMA PartsStep ==
    ASSUME [MCNext]_MCVars
    PROVE  /\ [AccountsNext]_accountsVars
           /\ [VerificationNext]_verificationVars
           /\ [PushNext]_pushVars
BY DEF MCNext, MCVars

(* The types of all three components hold in every state of the run that   *)
(* checks them, whichever of them runs and for any sizes.                  *)
THEOREM PartsTypeCorrect == MCSpec => []MCTypeOK
<1>1. MCInit => AccountsInit /\ VerificationInit /\ PushInit
  BY DEF MCInit
<1>2. [MCNext]_MCVars => /\ [AccountsNext]_accountsVars
                         /\ [VerificationNext]_verificationVars
                         /\ [PushNext]_pushVars
  BY PartsStep
<1>3. MCSpec => AccountsSpec /\ VerificationSpec /\ PushSpec
  BY <1>1, <1>2, PTL DEF MCSpec, AccountsSpec, VerificationSpec, PushSpec
<1>4. AccountsTypeOK /\ VerificationTypeOK /\ PushTypeOK => MCTypeOK
  BY DEF MCTypeOK
<1> QED BY <1>3, <1>4, AccountsTypeCorrect, VerificationTypeCorrect, PushTypeCorrect, PTL
=============================================================================

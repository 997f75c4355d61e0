-------------------------- MODULE PushNotifications --------------------------
(***************************************************************************)
(* Push devices, and campaigns sent to them through Firebase (FCM).        *)
(*                                                                         *)
(* A device row belongs to the customer or administrator who registered    *)
(* its token last, or to nobody.  Handlers read rows and write them later. *)
(* A campaign resolves its recipients, calls FCM once per language and     *)
(* batch of tokens, and only then commits its own row, so the calls lie    *)
(* between the resolution and the record.                                  *)
(*                                                                         *)
(* Titles, channels, platforms, device ids and the caps on fetched tokens  *)
(* are left out, and so are the summary and diagnostics pages.             *)
(***************************************************************************)
EXTENDS Naturals, FiniteSets

CONSTANTS
    Tokens,    \* device tokens
    Users,     \* customers
    Admins,    \* administrators
    NoOne,     \* no owner, no row, no audience, an idle handler
    Writers,   \* handlers that register and unregister devices
    Requests   \* what administrators ask to send

Audiences == {"all", "admins", "authenticated", "segment"}

(* validate_targets: a request names an audience, customers or tokens.     *)
Valid(r) == r.audience # NoOne \/ r.users # {} \/ r.direct # {}

ASSUME RequestAssumption ==
    /\ Requests \subseteq [audience : Audiences \cup {NoOne}, users : SUBSET Users,
                           direct : SUBSET Tokens, dry : BOOLEAN]
    /\ \A r \in Requests : Valid(r)
ASSUME OwnerAssumption == NoOne \notin Users \cup Admins
ASSUME TokensAssumption == IsFiniteSet(Tokens)

VARIABLES
    account,   \* what the audiences ask of each customer
    device,    \* the push_devices row of each token
    writing,   \* what each device handler has read and still has to write
    campaign,  \* the campaign being sent
    record,    \* the committed push_notifications row of the last one
    reached    \* history: the devices that got its message so far

pushVars == <<account, device, writing, campaign, record, reached>>

Customers == [active : BOOLEAN,   \* in use
              enabled : BOOLEAN,  \* notifications_enabled
              member : BOOLEAN]   \* of the loyalty or active-eSIM segment
Devices  == [user : Users \cup {NoOne}, admin : Admins \cup {NoOne},
             active : BOOLEAN]
Writings == [kind : {"register"}, token : Tokens, seen : Devices \cup {NoOne},
             new : Devices]
            \cup [kind : {"unregister"}, rows : SUBSET Tokens, own : SUBSET Tokens]
Records  == [status : {"sent", "partial", "failed", "dry_run"},
             success : Nat, failure : Nat]

ASSUME NoOneAssumption == NoOne \notin Devices \cup Writings \cup Records

PushTypeOK ==
    /\ account \in [Users -> Customers]
    /\ device \in [Tokens -> Devices \cup {NoOne}]
    /\ writing \in [Writers -> Writings \cup {NoOne}]
    /\ campaign \in [sending : BOOLEAN, tokens : SUBSET Tokens,
                     todo : SUBSET campaign.tokens, ok : SUBSET campaign.tokens,
                     invalid : SUBSET campaign.tokens, trouble : BOOLEAN]
    /\ record \in Records \cup {NoOne}
    /\ reached \subseteq campaign.tokens

NoCampaign == [sending |-> FALSE, tokens |-> {}, todo |-> {}, ok |-> {},
               invalid |-> {}, trouble |-> FALSE]

PushInit ==
    /\ account = [u \in Users |-> [active |-> TRUE, enabled |-> TRUE, member |-> FALSE]]
    /\ device = [t \in Tokens |-> NoOne]
    /\ writing = [w \in Writers |-> NoOne]
    /\ campaign = NoCampaign
    /\ record = NoOne
    /\ reached = {}

-----------------------------------------------------------------------------
(* The subject of an optional bearer token: a customer, an administrator,  *)
(* or nobody.                                                              *)
NoSubject == [user |-> NoOne, admin |-> NoOne]
Subjects  == [user : Users, admin : {NoOne}] \cup [user : {NoOne}, admin : Admins]
             \cup {NoSubject}

Owns(s, t) == /\ device[t] # NoOne
              /\ device[t].user = s.user /\ device[t].admin = s.admin

(* Accounts are blocked, deleted and revived, and their owners opt in and  *)
(* out and buy eSIMs, at any time.                                         *)
AccountChanges(u) ==
    /\ \E f \in DOMAIN account[u] : account' = [account EXCEPT ![u][f] = ~ @]
    /\ UNCHANGED <<device, writing, campaign, record, reached>>

(* register_push_device: upsert_push_device looks the token up ...         *)
RegisterReads(w, t, s) ==
    /\ writing[w] = NoOne
    /\ writing' = [writing EXCEPT ![w] =
          [kind |-> "register", token |-> t, seen |-> device[t],
           new |-> [user |-> s.user, admin |-> s.admin, active |-> TRUE]]]
    /\ UNCHANGED <<account, device, campaign, record, reached>>

(* The commit writes the columns that differ from what was read.           *)
Merged(now, seen, new) ==
    [f \in DOMAIN new |-> IF new[f] # seen[f] THEN new[f] ELSE now[f]]

OwnedOnce(d) == d.user = NoOne \/ d.admin = NoOne

(* Mutant: no constraint on the owners.                                    *)
RegisterWritesUnchecked(w) ==
    /\ writing[w] # NoOne
    /\ writing[w].kind = "register"
    /\ LET t    == writing[w].token
           seen == writing[w].seen
           new  == writing[w].new
           row  == IF seen = NoOne THEN new ELSE Merged(device[t], seen, new) IN
       IF (seen = NoOne) = (device[t] = NoOne)
       THEN device' = [device EXCEPT ![t] = row]
       ELSE UNCHANGED device
    /\ writing' = [writing EXCEPT ![w] = NoOne]
    /\ UNCHANGED <<account, campaign, record, reached>>

(* ... and commits.  The unique token refuses a second insert, the check   *)
(* constraint a row of two owners; an update of a row that was deleted     *)
(* finds nothing.  The handler fails then.                                 *)
RegisterWrites(w) ==
    /\ writing[w] # NoOne
    /\ writing[w].kind = "register"
    /\ LET t    == writing[w].token
           seen == writing[w].seen
           new  == writing[w].new
           row  == IF seen = NoOne THEN new ELSE Merged(device[t], seen, new) IN
       IF (seen = NoOne) = (device[t] = NoOne) /\ OwnedOnce(row)
       THEN device' = [device EXCEPT ![t] = row]
       ELSE UNCHANGED device
    /\ writing' = [writing EXCEPT ![w] = NoOne]
    /\ UNCHANGED <<account, campaign, record, reached>>

(* Both steps of another handler, between those of the first one.          *)
Register(t, s) ==
    /\ device' = [device EXCEPT ![t] =
          [user |-> s.user, admin |-> s.admin, active |-> TRUE]]
    /\ UNCHANGED <<account, writing, campaign, record, reached>>

(* Mutant: a token alone selects the row.                                  *)
DeactivateOwnedOrNot(s, scope) == {t \in scope : device[t] # NoOne /\ device[t].active}

(* deactivate_push_devices: the active rows of a bearer in the scope, that *)
(* is, with one token or one device id.                                    *)
DeactivateOwned(s, scope) == {t \in scope : Owns(s, t) /\ device[t].active}

(* deactivate_push_devices_public: without a bearer, those of nobody.      *)
DeactivatePublic(scope) == {t \in scope : Owns(NoSubject, t) /\ device[t].active}

DeactivateFilter(s, scope) ==
    IF s = NoSubject THEN DeactivatePublic(scope) ELSE DeactivateOwned(s, scope)

(* unregister_push_device                                                  *)
UnregisterReads(w, s, scope) ==
    /\ writing[w] = NoOne
    /\ DeactivateFilter(s, scope) # {}
    /\ writing' = [writing EXCEPT ![w] =
          [kind |-> "unregister", rows |-> DeactivateFilter(s, scope),
           own |-> {t \in Tokens : Owns(s, t)}]]
    /\ UNCHANGED <<account, device, campaign, record, reached>>

ActiveDevices == {t \in Tokens : device[t] # NoOne /\ device[t].active}

(* Deactivated(ts): the rows of these tokens that exist become inactive.   *)
Deactivated(ts) ==
    [t \in Tokens |-> IF t \in ts /\ device[t] # NoOne
                      THEN [device[t] EXCEPT !.active = FALSE] ELSE device[t]]

UnregisterWrites(w) ==
    /\ writing[w] # NoOne
    /\ writing[w].kind = "unregister"
    /\ device' = Deactivated(writing[w].rows)
    /\ writing' = [writing EXCEPT ![w] = NoOne]
    /\ UNCHANGED <<account, campaign, record, reached>>

(* cleanup_anonymous_push_devices: rows of nobody that were not seen for   *)
(* long, whoever is about to write them.                                   *)
StaleAnonymous(ts) == \A t \in ts : Owns(NoSubject, t)

Cleanup(ts) ==
    /\ ts # {}
    /\ StaleAnonymous(ts)
    /\ device' = [t \in Tokens |-> IF t \in ts THEN NoOne ELSE device[t]]
    /\ UNCHANGED <<account, writing, campaign, record, reached>>

(* purge_stale_user_devices: an administrator silences the tokens of a     *)
(* customer that look as if they were APNs tokens.                         *)
PurgeStale(u, ts) ==
    /\ ts \subseteq {t \in ActiveDevices : device[t].user = u}
    /\ ts # {}
    /\ device' = Deactivated(ts)
    /\ UNCHANGED <<account, writing, campaign, record, reached>>

(* delete_admin_user: the rows of the administrator go, and a registration *)
(* under way finds no owner any more.                                      *)
AdminDeleted(a) ==
    /\ \E t \in Tokens : Owns([user |-> NoOne, admin |-> a], t)
    /\ device' = [t \in Tokens |-> IF Owns([user |-> NoOne, admin |-> a], t)
                                   THEN NoOne ELSE device[t]]
    /\ writing' = [w \in Writers |->
          IF writing[w] # NoOne /\ writing[w].kind = "register" /\ writing[w].new.admin = a
          THEN NoOne ELSE writing[w]]
    /\ UNCHANGED <<account, campaign, record, reached>>

-----------------------------------------------------------------------------
(* The recipients of a campaign.                                           *)

(* list_push_tokens: an empty list of users does not filter.               *)
ListPushTokens(users) ==
    {t \in ActiveDevices : /\ device[t].user # NoOne
                           /\ users # {} => device[t].user \in users}

(* Mutant: customers who turned notifications off are listed.              *)
AudienceUsersAll(a) ==
    {u \in Users : account[u].active /\ (a = "segment" => account[u].member)}

(* list_push_user_ids_for_audience *)
AudienceUsers(a) ==
    {u \in Users : /\ account[u].active /\ account[u].enabled
                   /\ a = "segment" => account[u].member}

(* list_all_push_tokens: customers who turned notifications off are left   *)
(* out, devices of nobody and of administrators are kept.                  *)
AllTokens ==
    {t \in ActiveDevices : device[t].user # NoOne => account[device[t].user].enabled}

AdminTokens == {t \in ActiveDevices : device[t].admin # NoOne}

(* list_push_tokens_for_audience *)
AudienceTokens(a) ==
    IF a = "all" THEN AllTokens
    ELSE IF a = "admins" THEN AdminTokens
    ELSE ListPushTokens(AudienceUsers(a))

(* _resolve_audience_and_tokens *)
Recipients(r) ==
    (IF r.audience = NoOne THEN {} ELSE AudienceTokens(r.audience))
    \cup r.direct
    \cup (IF r.users = {} THEN {} ELSE ListPushTokens(r.users))

(* Whom the audience names: devices in service, of customers in use who    *)
(* left notifications on and are in the segment, of administrators, or of  *)
(* everybody who did not turn notifications off.                           *)
Meant(a, t) ==
    /\ device[t] # NoOne
    /\ device[t].active
    /\ LET u == device[t].user IN
       \/ a = "all" /\ (u = NoOne \/ account[u].enabled)
       \/ a = "admins" /\ device[t].admin # NoOne
       \/ /\ a \in {"authenticated", "segment"}
          /\ u # NoOne
          /\ account[u].active /\ account[u].enabled
          /\ a = "segment" => account[u].member

Requested(r, t) ==
    \/ t \in r.direct
    \/ device[t] # NoOne /\ device[t].user \in r.users
    \/ r.audience # NoOne /\ Meant(r.audience, t)

-----------------------------------------------------------------------------
Created(ts) == [NoCampaign EXCEPT !.sending = TRUE, !.tokens = ts, !.todo = ts]

(* Mutant: the row is created for the audience's tokens only.              *)
StartOfAudience(r) ==
    /\ ~ campaign.sending
    /\ Recipients(r) # {}
    /\ record' = NoOne
    /\ campaign' = [NoCampaign EXCEPT !.sending = TRUE, !.todo = Recipients(r),
                                      !.tokens = Recipients([r EXCEPT !.direct = {}])]
    /\ UNCHANGED <<account, device, writing, reached>>

(* send_push_notification.  Without tokens it answers 422.  A dry run is   *)
(* recorded at once; otherwise the row is inserted but not committed.      *)
Start(r) ==
    /\ ~ campaign.sending
    /\ Recipients(r) # {}
    /\ IF r.dry
       THEN /\ record' = [status |-> "dry_run", failure |-> 0,
                          success |-> Cardinality(Recipients(r))]
            /\ UNCHANGED campaign
       ELSE /\ record' = NoOne
            /\ campaign' = Created(Recipients(r))
    /\ UNCHANGED <<account, device, writing, reached>>

(* send_app_update_notification fills in the message, and sends it to an   *)
(* audience other than the administrators.                                 *)
StartAppUpdate(r) ==
    /\ r.audience \in Audiences \ {"admins"}
    /\ r.users = {} /\ r.direct = {}
    /\ Start(r)

(* FCM answers per token: delivered, invalid, or failed otherwise.         *)
Answers(batch) == {a \in [ok : SUBSET batch, invalid : SUBSET batch] :
                      a.ok \cap a.invalid = {}}

(* One multicast call for a batch, with its retries.  Attempts whose       *)
(* answer was lost may have delivered to other devices as well.            *)
SendBatch(batch, answer, lost) ==
    /\ campaign.sending
    /\ batch # {}
    /\ campaign' = [campaign EXCEPT !.todo = @ \ batch,
                                    !.ok = @ \cup answer.ok,
                                    !.invalid = @ \cup answer.invalid,
                                    !.trouble = @ \/ lost # {}]
    /\ reached' = reached \cup answer.ok \cup lost
    /\ UNCHANGED <<account, device, writing, record>>

(* finalize_push_notification, and the commit.                             *)
Ends(status, success, failure) ==
    /\ record' = [status |-> status, success |-> success, failure |-> failure]
    /\ campaign' = NoCampaign
    /\ reached' = {}

(* The call failed for good, or once too often: the campaign is recorded   *)
(* as failed, and the batches before it and after it are not looked at.    *)
CallFails ==
    /\ campaign.sending
    /\ campaign.todo # {}
    /\ Ends("failed", 0, 0)
    /\ UNCHANGED <<account, device, writing>>

(* Mutant: one delivery makes a campaign "sent".                           *)
DeliveryStatusAny(success, failure) == IF success > 0 THEN "sent" ELSE "failed"

DeliveryStatus(success, failure) ==
    IF failure = 0 THEN "sent" ELSE IF success > 0 THEN "partial" ELSE "failed"

(* All batches are out: invalid tokens are silenced and the row committed. *)
Finalize ==
    /\ campaign.sending
    /\ campaign.todo = {}
    /\ device' = Deactivated(campaign.invalid)
    /\ LET success == Cardinality(campaign.ok)
           failure == Cardinality(campaign.tokens \ campaign.ok) IN
       Ends(DeliveryStatus(success, failure), success, failure)
    /\ UNCHANGED <<account, writing>>

(* The process or the database fails: the row and the silencing are gone.  *)
Crash ==
    /\ campaign.sending
    /\ campaign' = NoCampaign
    /\ reached' = {}
    /\ UNCHANGED <<account, device, writing, record>>

(* _send_with_optional_localization: one language after the other, each in *)
(* batches.                                                                *)
Sending ==
    \/ CallFails \/ Finalize
    \/ \E batch \in SUBSET campaign.todo : \E answer \in Answers(batch) :
          \E lost \in SUBSET (batch \ answer.ok) : SendBatch(batch, answer, lost)

PushNext ==
    \/ \E u \in Users : AccountChanges(u)
    \/ \E w \in Writers :
          \/ RegisterWrites(w) \/ UnregisterWrites(w)
          \/ \E s \in Subjects :
                \/ \E t \in Tokens : RegisterReads(w, t, s)
                \/ \E scope \in {Tokens} \cup {{t} : t \in Tokens} :
                      UnregisterReads(w, s, scope)
    \/ \E t \in Tokens, s \in Subjects : Register(t, s)
    \/ \E ts \in SUBSET Tokens : Cleanup(ts) \/ \E u \in Users : PurgeStale(u, ts)
    \/ \E a \in Admins : AdminDeleted(a)
    \/ \E r \in Requests : Start(r) \/ StartAppUpdate(r)
    \/ Sending \/ Crash

PushSpec == PushInit /\ [][PushNext]_pushVars

-----------------------------------------------------------------------------
(* Every device a campaign addresses is asked for by the request, unless   *)
(* its audience names customers and matches none: in that case alone every *)
(* customer's device is addressed, of those who opted out as well.         *)
AddressedWereRequested ==
    \A r \in Requests : \A t \in Recipients(r) :
        \/ Requested(r, t)
        \/ r.audience \in {"authenticated", "segment"} /\ AudienceUsers(r.audience) = {}

(* Concurrent registrations never leave a device to a customer and to an   *)
(* administrator at once, who would both be sent the other one's messages. *)
OneOwner == \A t \in Tokens : device[t] # NoOne => OwnedOnce(device[t])

(* A campaign never counts more devices than it reached, and is "sent"     *)
(* only if it reached all of them.  If all calls returned and no answer    *)
(* was lost, it counts exactly those, and is "failed" if there are none.   *)
CountsAreReached == [][
    (campaign.sending /\ record' # NoOne) =>
        /\ record'.success <= Cardinality(reached)
        /\ record'.status = "sent" => reached = campaign.tokens
        /\ (campaign.todo = {} /\ ~ campaign.trouble) =>
              /\ record'.success = Cardinality(reached)
              /\ record'.status = "failed" => reached = {}
    ]_pushVars

(* A device is silenced only by the subject it belonged to when that       *)
(* subject's rows were read, by an administrator who purges its customer's *)
(* devices, or by a campaign that addressed it and did not deliver to it.  *)
SilencedByOwnerOrCampaign == [][
    \A t \in Tokens :
        (device[t] # NoOne /\ device'[t] # NoOne
            /\ device[t].active /\ ~ device'[t].active)
        => \/ \E w \in Writers : /\ writing[w] # NoOne /\ writing'[w] = NoOne
                                 /\ writing[w].kind = "unregister"
                                 /\ t \in writing[w].own
           \/ /\ campaign.sending /\ ~ campaign'.sending
              /\ t \in campaign.tokens \ campaign.ok
           \/ \E ts \in SUBSET Tokens : t \in ts /\ PurgeStale(device[t].user, ts)
    ]_pushVars

(* A campaign addresses whom it was asked to, and records what it reached. *)
CampaignsAreHonest == []AddressedWereRequested /\ CountsAreReached

(* A device has one owner, who alone decides for it.                       *)
DevicesFollowOwners == []OneOwner /\ SilencedByOwnerOrCampaign
=============================================================================

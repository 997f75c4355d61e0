---------------------------- MODULE ESimLifecycle ----------------------------
(***************************************************************************)
(* The status of one eSIM profile and of the order item it belongs to.     *)
(*                                                                         *)
(* The provider's view changes on its own and by managed actions.  The     *)
(* backend hears of it by webhook notices, which arrive late, in any order *)
(* and more than once, and by status queries, whose answers are applied    *)
(* after an await.  Users install, admins refund and act on the provider,  *)
(* and usage syncs resolve the status anew from what is stored.            *)
(*                                                                         *)
(* No handler locks the rows.  It reads them, resolves, and commits later, *)
(* writing the columns alone that differ from what it read; so handlers    *)
(* that overlap may each write a part (Writes, Commit).                    *)
(***************************************************************************)
EXTENDS Naturals, FiniteSets

CONSTANTS
    Refreshes,   \* handlers of the cron refresh
    Requests,    \* handlers of users, admins, usage syncs and webhooks
    Downloads,   \* the smdpStatus the provider may report after a download
    None,        \* nothing read, answered or to be written; no stored status
    MaxNotices   \* bound: notices of the provider that are not missed

ASSUME CountAssumption == MaxNotices \in Nat

(* What the provider says, and what the backend makes of it.               *)
EsimStatuses == {"GOT_RESOURCE", "IN_USE", "DISABLED",
                 "CANCEL", "USED_EXPIRED", "REVOKED"}
SmdpStatuses == {"RELEASED", "INSTALLATION", "ENABLED", "DELETED"}
Stamped      == {"CANCELLED", "REVOKED", "REFUNDED"}
Terminal     == Stamped \cup {"EXPIRED"}
AppStatuses  == Terminal \cup
    {"BOOKED", "INACTIVE", "PROVIDER_WAITING", "ACTIVE", "SUSPENDED"}

ASSUME DownloadAssumption == Downloads \subseteq SmdpStatuses
ASSUME SentinelAssumption ==
    None \notin EsimStatuses \cup SmdpStatuses \cup AppStatuses
                \cup {"cancel", "revoke", "suspend", "unsuspend"}

(* normalize_esim_status, of a raw or a canonical status.                  *)
Normalize(s) ==
    IF s \in {"GOT_RESOURCE", "RELEASED", "INSTALLATION"} THEN "INACTIVE"
    ELSE IF s \in {"IN_USE", "ENABLED"} THEN "ACTIVE"
    ELSE IF s = "DISABLED" THEN "SUSPENDED"
    ELSE IF s \in {"CANCEL", "DELETED"} THEN "CANCELLED"
    ELSE IF s = "USED_EXPIRED" THEN "EXPIRED"
    ELSE s

IsTerminal(s) == Normalize(s) \in Terminal
IsActive(s)   == Normalize(s) = "ACTIVE"
InstallSignals == {"INSTALLATION", "ENABLED", "IN_USE", "ACTIVE"}
Ended == {s \in EsimStatuses : IsTerminal(s)}

VARIABLES
    prov,      \* the provider's profile: esim, smdp, downloaded, used
    inbox,     \* the notices of the provider that still have to arrive
    notified,  \* how many notices the provider sent
    profile,   \* the esim_profiles row
    item,      \* item_status of its order_items row
    pending,   \* the managed action the provider executed, not yet applied
    seen,      \* the profile a resync read before it asked the provider
    answer,    \* the provider's answer each handler has still to apply
    change     \* what each handler that read the rows has still to commit

feed == <<inbox, notified>>
row  == <<profile, item>>
work == <<seen, answer, change>>
vars == <<prov, feed, row, pending, work>>

Actions == {"cancel", "revoke", "suspend", "unsuspend"}
Workers == Refreshes \cup Requests

Answers  == [esim : EsimStatuses, smdp : SmdpStatuses,
             evidence : BOOLEAN, used : BOOLEAN]
Notices  == [id : 0 .. MaxNotices, esim : EsimStatuses \cup {None},
             smdp : SmdpStatuses, evidence : BOOLEAN]
Profiles == [app : AppStatuses, installed : BOOLEAN, activated : BOOLEAN,
             esim : EsimStatuses \cup {None},    \* stored providerEsimStatus
             smdp : SmdpStatuses \cup {None},    \* provider_status
             evidence : BOOLEAN,                 \* stored install evidence
             stamps : SUBSET Stamped]            \* canceled_at, revoked_at, ...
CustomFields == [esim : EsimStatuses \cup {None}, evidence : BOOLEAN]

(* The columns a transaction will write; None is a column it leaves alone. *)
(* custom_fields is one column.                                            *)
Changes  == [app : AppStatuses \cup {None}, item : AppStatuses \cup {None},
             smdp : SmdpStatuses \cup {None}, fields : CustomFields \cup {None},
             installed : BOOLEAN, activated : BOOLEAN, stamps : SUBSET Stamped,
             notice : Notices \cup {None}]       \* the notice it records

TypeOK ==
    /\ prov \in [esim : EsimStatuses, smdp : SmdpStatuses,
                 downloaded : BOOLEAN, used : BOOLEAN]
    /\ inbox \in SUBSET Notices
    /\ notified \in 0 .. MaxNotices
    /\ profile \in Profiles
    /\ item \in AppStatuses
    /\ pending \in Actions \cup {None}
    /\ seen \in [Workers -> Profiles \cup {None}]
    /\ answer \in [Workers -> Answers \cup {None}]
    /\ change \in [Workers -> Changes \cup {None}]

(* The notice of the allocation, which holds an orderStatus alone.         *)
OrderNotice == [id |-> 0, esim |-> None, smdp |-> "RELEASED", evidence |-> FALSE]

(* The order was placed: the row is the placeholder of the order item.     *)
Init ==
    /\ prov = [esim |-> "GOT_RESOURCE", smdp |-> "RELEASED",
               downloaded |-> FALSE, used |-> FALSE]
    /\ inbox = {OrderNotice}
    /\ notified = 0
    /\ profile = [app |-> "BOOKED", installed |-> FALSE, activated |-> FALSE,
                  esim |-> None, smdp |-> None, evidence |-> FALSE, stamps |-> {}]
    /\ item = "BOOKED"
    /\ pending = None
    /\ seen = [h \in Workers |-> None]
    /\ answer = [h \in Workers |-> None]
    /\ change = [h \in Workers |-> None]

-----------------------------------------------------------------------------
(* The provider.  A change is announced with a notice of its own id, which *)
(* the provider repeats until it is accepted, unless the notice is missed. *)

Announce(esim, evidence) ==
    \/ UNCHANGED feed
    \/ /\ notified < MaxNotices
       /\ notified' = notified + 1
       /\ inbox' = inbox \cup {[id |-> notified', esim |-> esim,
                                smdp |-> prov'.smdp, evidence |-> evidence]}

(* The device downloads the profile; the notice may leave esimStatus out.  *)
Download ==
    /\ ~ prov.downloaded
    /\ prov.esim \notin Ended
    /\ \E s \in Downloads :
          prov' = [prov EXCEPT !.smdp = s, !.downloaded = TRUE]
    /\ \E esim \in {prov.esim, None}, evidence \in BOOLEAN : Announce(esim, evidence)
    /\ UNCHANGED <<row, pending, work>>

ProviderMoves(s) ==
    /\ prov' = [prov EXCEPT !.esim = s, !.used = @ \/ s = "IN_USE"]
    /\ Announce(s, FALSE)

(* The first connection.                                                   *)
Connect ==
    /\ prov.downloaded
    /\ prov.esim = "GOT_RESOURCE"
    /\ ProviderMoves("IN_USE")
    /\ UNCHANGED <<row, pending, work>>

(* The plan is used up, or the provider ends the profile itself.           *)
ProviderEnds ==
    /\ prov.esim \notin Ended
    /\ \E s \in Ended : ProviderMoves(s)
    /\ UNCHANGED <<row, pending, work>>

(* Mutant: the client does not raise when the provider refused.            *)
ManagedCallUnchecked(a) ==
    /\ pending = None
    /\ pending' = a
    /\ UNCHANGED <<prov, feed, row, work>>

(* The provider call of a managed action, of an admin who does one at a    *)
(* time.  The client raises unless the provider executed it.               *)
ManagedCall(a) ==
    /\ pending = None
    /\ pending' = a
    /\ \/ a = "cancel"    /\ prov.esim \notin Ended    /\ ProviderMoves("CANCEL")
       \/ a = "revoke"    /\ prov.esim \notin Ended    /\ ProviderMoves("REVOKED")
       \/ a = "suspend"   /\ prov.esim = "IN_USE"   /\ ProviderMoves("DISABLED")
       \/ a = "unsuspend" /\ prov.esim = "DISABLED" /\ ProviderMoves("IN_USE")
    /\ UNCHANGED <<row, work>>

-----------------------------------------------------------------------------
(* The rules the handlers share.                                           *)

(* What a report says of the status: the esimStatus it holds, if any, the  *)
(* smdpStatus, whether data was used, whether it proves the installation.  *)
Report(esim, smdp, used, confirmed) ==
    [esim |-> esim, smdp |-> smdp, used |-> used, confirmed |-> confirmed]

(* Mutants: the status is not normalised; smdpStatus drives the terminal   *)
(* status as well.                                                         *)
ResolveRaw(p, r, fallback) == IF r.esim # None THEN r.esim ELSE fallback

ResolveSmdp(p, r, fallback) ==
    IF IsTerminal(r.smdp) THEN Normalize(r.smdp)
    ELSE Normalize(IF r.esim # None THEN r.esim ELSE fallback)

(* _resolve_profile_app_status, by precedence.                             *)
Resolve(p, r, fallback) ==
    LET said   == {r.esim, r.smdp, fallback}
        active == r.used \/ \E s \in said : IsActive(s)
    IN  IF IsTerminal(r.esim) THEN Normalize(r.esim)
        ELSE IF r.esim = None /\ IsTerminal(fallback) THEN Normalize(fallback)
        ELSE IF p.installed /\ (p.activated \/ active \/ r.confirmed) THEN "ACTIVE"
        ELSE IF \/ p.installed \/ active
                \/ said \cap InstallSignals # {}
                \/ Normalize(fallback) = "PROVIDER_WAITING" THEN "PROVIDER_WAITING"
        ELSE Normalize(IF r.esim # None THEN r.esim ELSE fallback)

Resolved(p, r, fallback) == [p EXCEPT !.app = Resolve(p, r, fallback)]

(* Mutant: the timestamps are not stamped.                                 *)
StampedTerminalNever(p) == p

(* _apply_terminal_side_effects, of the row ...                            *)
StampedTerminal(p) == [p EXCEPT !.stamps = @ \cup ({p.app} \cap Stamped)]

(* Mutant: the activation is not started.                                  *)
ActivatedNever(p) == p

(* ... and _apply_active_side_effects: ACTIVE means installed, and starts  *)
(* the activation.                                                         *)
Activated(p) ==
    IF p.app # "ACTIVE" THEN p
    ELSE IF p.installed THEN [p EXCEPT !.activated = TRUE]
                        ELSE [p EXCEPT !.app = "PROVIDER_WAITING"]

WithEvidence(p, evidence) == [p EXCEPT !.installed = @ \/ evidence]

-----------------------------------------------------------------------------
(* Transactions.                                                           *)

Idle(h) == seen[h] = None /\ answer[h] = None /\ change[h] = None

Changed(old, new) == IF new = old THEN None ELSE new
Written(old, new) == IF new = None THEN old ELSE new

Fields(p) == [esim |-> p.esim, evidence |-> p.evidence]

(* custom_fields is written whole if one of its keys differs: the ones     *)
(* kept here, or another one of those the handler merges into it.          *)
Merged(p, q) == {Fields(q), Changed(Fields(p), Fields(q))}

(* h has read profile p and the item, and made q and j of them, f of       *)
(* custom_fields; it records notice n with the rest.                       *)
Writes(h, p, q, j, f, n) ==
    change' = [change EXCEPT ![h] =
        [app |-> Changed(p.app, q.app), item |-> Changed(item, j),
         smdp |-> Changed(p.smdp, q.smdp), fields |-> f,
         installed |-> q.installed /\ ~ p.installed,
         activated |-> q.activated /\ ~ p.activated,
         stamps |-> q.stamps \ p.stamps, notice |-> n]]

(* The commit, into the row as it is by then.  A notice that is recorded   *)
(* changes nothing any more when it comes again.                           *)
Commit(h) ==
    LET c == change[h]
    IN  /\ c # None
        /\ change' = [change EXCEPT ![h] = None]
        /\ profile' = [profile EXCEPT
               !.app = Written(@, c.app), !.smdp = Written(@, c.smdp),
               !.esim = IF c.fields = None THEN @ ELSE c.fields.esim,
               !.evidence = IF c.fields = None THEN @ ELSE c.fields.evidence,
               !.installed = @ \/ c.installed, !.activated = @ \/ c.activated,
               !.stamps = @ \cup c.stamps]
        /\ item' = Written(item, c.item)
        /\ inbox' = inbox \ {c.notice}
        /\ UNCHANGED <<prov, notified, pending, seen, answer>>

-----------------------------------------------------------------------------
(* Status queries: cron refreshes, polls and resyncs.                      *)

(* Mutant: the status the backend resolved is not asked for.               *)
CronTargetsBySmdp(p) == p.smdp \in {"ONBOARDING", "IN_USE"}

(* The rows the cron refresh loads.                                        *)
CronTargets(p) == p.app = "ACTIVE" \/ p.smdp \in {"ONBOARDING", "IN_USE"}

ProviderSays ==
    {[esim |-> prov.esim, smdp |-> prov.smdp, evidence |-> e, used |-> prov.used] :
        e \in {FALSE, prov.downloaded}}

ProviderAnswers(h) ==
    /\ Idle(h)
    /\ \E a \in ProviderSays : answer' = [answer EXCEPT ![h] = a]
    /\ UNCHANGED <<prov, feed, row, pending, seen, change>>

CronQueries(c) == CronTargets(profile) /\ ProviderAnswers(c)
UserQueries(h) == ProviderAnswers(h)

(* What sync_profiles makes of profile p and answer a, but for the side    *)
(* effects of ACTIVE.                                                      *)
Synced(p, a) ==
    LET q == WithEvidence([p EXCEPT !.smdp = a.smdp], a.evidence)
        r == Resolved(q, Report(a.esim, a.smdp, a.used, a.evidence), p.app)
    IN  StampedTerminal([r EXCEPT !.esim = a.esim, !.evidence = a.evidence])

(* Mutant: the order item is not mirrored.                                 *)
SyncWritesProfileOnly(h, p, a) ==
    LET s == Synced(p, a)
    IN  \E f \in Merged(p, s) : Writes(h, p, Activated(s), item, f, None)

SyncWrites(h, p, a) ==
    LET s == Synced(p, a)
    IN  \E f \in Merged(p, s) : Writes(h, p, Activated(s), s.app, f, None)

(* sync_profiles, of whatever the provider answered by then.               *)
SyncResolves(h) ==
    /\ answer[h] # None
    /\ SyncWrites(h, profile, answer[h])
    /\ answer' = [answer EXCEPT ![h] = None]
    /\ UNCHANGED <<prov, feed, row, pending, seen>>

(* A resync by an admin holds the profile it looked up, and its session    *)
(* keeps that copy through the query.                                      *)
ResyncReads(h) ==
    /\ Idle(h)
    /\ seen' = [seen EXCEPT ![h] = profile]
    /\ UNCHANGED <<prov, feed, row, pending, answer, change>>

ResyncAnswered(h) ==
    /\ seen[h] # None
    /\ \E a \in ProviderSays : SyncWrites(h, seen[h], a)
    /\ seen' = [seen EXCEPT ![h] = None]
    /\ UNCHANGED <<prov, feed, row, pending, answer>>

-----------------------------------------------------------------------------
(* Requests that resolve from what is stored, and notices.  What h reads   *)
(* is this step; it writes at Commit.                                      *)

Reads(h) == Idle(h) /\ UNCHANGED <<prov, feed, row, seen, answer>>

(* sync_usage_records: the usage is fresh, or late; the esimStatus is the  *)
(* stored one.  It merges keys of its own into custom_fields.              *)
SyncUsage(h) ==
    /\ Reads(h)
    /\ \E used \in {FALSE, prov.used} :
          LET r == Report(profile.esim, profile.smdp, used, FALSE)
              q == Activated(Resolved(profile, r, profile.app))
          IN  \E f \in Merged(profile, profile) : Writes(h, profile, q, q.app, f, None)
    /\ UNCHANGED pending

(* What record_webhook makes of profile p and notice n, but for the side   *)
(* effects.                                                                *)
Noticed(p, n) ==
    LET q == WithEvidence([p EXCEPT !.smdp = n.smdp], n.evidence)
        r == Resolved(q, Report(n.esim, n.smdp, FALSE, n.evidence), p.app)
    IN  [r EXCEPT !.esim = n.esim, !.evidence = n.evidence]

(* record_webhook, of a notice whose notifyId is not recorded yet.         *)
NoticeReads(h, n) ==
    LET s == Noticed(profile, n)
        t == StampedTerminal(Activated(s))
        mirrored == \/ n.esim # None \/ t.app \in Terminal
                    \/ t.app = "ACTIVE" /\ ~ s.activated
    IN  /\ n # OrderNotice
        /\ Reads(h)
        /\ \E f \in Merged(profile, t) :
              Writes(h, profile, t, IF mirrored THEN t.app ELSE item, f, n)
        /\ UNCHANGED pending

(* The notice of the allocation writes the item, whatever the profile has  *)
(* become.                                                                 *)
OrderNoticeReads(h) ==
    /\ OrderNotice \in inbox
    /\ Reads(h)
    /\ Writes(h, profile, profile, Normalize("GOT_RESOURCE"), None, OrderNotice)
    /\ UNCHANGED pending

-----------------------------------------------------------------------------
(* apply_profile_action                                                    *)

(* What is stored decides; the profile is never left without a status.     *)
Reassess(p, fallback) ==
    Activated(Resolved(p, Report(p.esim, p.smdp, FALSE, p.evidence), fallback))

Acts(h, q) == Reads(h) /\ Writes(h, profile, q, q.app, None, None)

(* install or activate, by the user or an admin.                           *)
Install(h) ==
    /\ Acts(h, Reassess([profile EXCEPT !.installed = TRUE], profile.app))
    /\ UNCHANGED pending

WithStatus(p, s) == StampedTerminal([p EXCEPT !.app = s])

(* What a managed action makes of the profile after the provider call.     *)
Managed(p, a) ==
    CASE a = "cancel"  -> WithStatus(p, "CANCELLED")
      [] a = "revoke"  -> WithStatus(p, "REVOKED")
      [] a = "suspend" -> WithStatus(p, "SUSPENDED")
      [] OTHER         -> Reassess(p, "ACTIVE")

ApplyManaged(h, a) ==
    /\ pending = a
    /\ pending' = None
    /\ Acts(h, Managed(profile, a))

(* A refund is the backend's alone: the provider is not called.            *)
Refund(h) == Acts(h, WithStatus(profile, "REFUNDED")) /\ UNCHANGED pending

(* The process ends: what was answered, executed or read and not committed *)
(* is lost.                                                                *)
Restart ==
    /\ pending' = None
    /\ seen' = [h \in Workers |-> None]
    /\ answer' = [h \in Workers |-> None]
    /\ change' = [h \in Workers |-> None]
    /\ UNCHANGED <<prov, feed, row>>

-----------------------------------------------------------------------------
Provider == Download \/ Connect \/ ProviderEnds

Next ==
    \/ Provider
    \/ \E a \in Actions : ManagedCall(a)
    \/ \E c \in Refreshes : CronQueries(c)
    \/ \E h \in Workers : SyncResolves(h) \/ Commit(h)
    \/ \E h \in Requests :
          \/ UserQueries(h) \/ ResyncReads(h) \/ ResyncAnswered(h)
          \/ SyncUsage(h) \/ Install(h) \/ Refund(h)
          \/ \E a \in Actions : ApplyManaged(h, a)
          \/ OrderNoticeReads(h) \/ \E n \in inbox : NoticeReads(h, n)
    \/ Restart

Spec == Init /\ [][Next]_vars

(* Cron refreshes for ever, and the process does not end whenever an answer *)
(* is there to be applied.  No notice has to arrive; no user, admin or     *)
(* usage sync has to act.                                                  *)
Fairness ==
    \A c \in Refreshes :
        WF_vars(CronQueries(c)) /\ SF_vars(SyncResolves(c)) /\ SF_vars(Commit(c))

FairSpec == Spec /\ Fairness
-----------------------------------------------------------------------------
(* A profile is ACTIVE only when its installation is known and its         *)
(* activation was started, whatever late answers, notices and admin        *)
(* actions say (_apply_active_side_effects after each resolution).         *)
ActiveMeansInstalled ==
    profile.app = "ACTIVE" => profile.installed /\ profile.activated

(* "CANCELLED but canceled_at IS NULL" does not come back: a profile that  *)
(* is cancelled, revoked or refunded has the timestamp of it, although the *)
(* usage sync and the install action resolve to a terminal status without  *)
(* stamping it (_apply_terminal_side_effects in the other handlers).       *)
TerminalIsStamped ==
    profile.app \in Stamped => profile.app \in profile.stamps

(* "esimStatus alone makes a profile terminal": a profile that is          *)
(* cancelled, revoked or expired is that at the provider, although SM-DP+  *)
(* reports DELETED of a healthy one (_resolve_profile_app_status).         *)
TerminalIsTrue ==
    profile.app \in Terminal \ {"REFUNDED"} => profile.app = Normalize(prov.esim)

(* An order is reported as ended only if its profile ended at the provider *)
(* that way or was refunded, also where handlers overlap and each writes   *)
(* one of the two rows: item and profile may then differ, but the item     *)
(* names no end that did not happen (the mirroring in every handler).      *)
EndedItemIsTrue ==
    item \in Terminal =>
        \/ item = Normalize(prov.esim)
        \/ item = "REFUNDED" /\ "REFUNDED" \in profile.stamps

(* What the cron refresh is for: an ACTIVE profile whose rows are out of   *)
(* step, because the profile ended at the provider or the item says        *)
(* something else, comes into step or is ACTIVE no more, whatever stale    *)
(* answer, late notice or overlapping commit put it there                  *)
(* (_perform_active_usage_refresh).                                        *)
InStep == prov.esim \notin Ended /\ item = "ACTIVE"

ActiveComesIntoStep ==
    (profile.app = "ACTIVE" /\ ~ InStep) ~> (profile.app # "ACTIVE" \/ InStep)

(* A usage sync or an installation that reads a terminal status does not   *)
(* resolve to another: the comment at the resolver has "the fresh provider *)
(* response" override a terminal status, not what was stored before it.    *)
ResolvesStored(h) == SyncUsage(h) \/ Install(h)

TerminalIsOverriddenByReport ==
    [][\A h \in Requests : ResolvesStored(h) /\ profile.app \in Terminal
          => change'[h].app \in Terminal \cup {None}]_vars
-----------------------------------------------------------------------------
(* Inductive invariants of the promises above.                             *)

(* What h will write keeps ActiveMeansInstalled: the installation and the  *)
(* activation are in the row already, or written with the status.          *)
ActiveInv ==
    /\ ActiveMeansInstalled
    /\ \A h \in Workers : change[h] # None /\ change[h].app = "ACTIVE" =>
          /\ profile.installed \/ change[h].installed
          /\ profile.activated \/ change[h].activated
    /\ \A h \in Workers : seen[h] # None =>
          /\ seen[h].installed => profile.installed
          /\ seen[h].activated => profile.activated

(* A stored end is stamped, so that resolving it again needs no stamp; and *)
(* an end that will be written is stamped or will be with it.              *)
StampInv ==
    /\ TerminalIsStamped
    /\ Normalize(profile.esim) \in Stamped
          => Normalize(profile.esim) \in profile.stamps
    /\ \A h \in Workers : change[h] # None =>
          LET stamps == profile.stamps \cup change[h].stamps IN
          /\ change[h].app \in Stamped => change[h].app \in stamps
          /\ change[h].fields # None /\ Normalize(change[h].fields.esim) \in Stamped
                => Normalize(change[h].fields.esim) \in stamps
    /\ \A h \in Workers : seen[h] # None => seen[h].stamps \subseteq profile.stamps

(* Whatever is on its way, stored or read to be written names an end of    *)
(* the profile only if the profile did end that way; so does a managed     *)
(* action.                                                                 *)
TrueStatus(s) == s \in Terminal \ {"REFUNDED"} => s = Normalize(prov.esim)
TrueEsim(e)   == e \in Ended => e = prov.esim

TrueInv ==
    /\ TerminalIsTrue /\ TrueEsim(profile.esim)
    /\ \A n \in inbox : TrueEsim(n.esim)
    /\ \A h \in Workers : answer[h] # None => TrueEsim(answer[h].esim)
    /\ \A h \in Workers : change[h] # None =>
          /\ TrueStatus(change[h].app)
          /\ change[h].fields # None => TrueEsim(change[h].fields.esim)
    /\ pending = "cancel" => prov.esim = "CANCEL"
    /\ pending = "revoke" => prov.esim = "REVOKED"

(* The item, now and after what will be written.                           *)
ItemInv ==
    /\ EndedItemIsTrue
    /\ \A h \in Workers : change[h] # None /\ change[h].item \in Terminal =>
          \/ change[h].item = Normalize(prov.esim)
          \/ /\ change[h].item = "REFUNDED"
             /\ "REFUNDED" \in profile.stamps \cup change[h].stamps
=============================================================================

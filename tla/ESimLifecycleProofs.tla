------------------------ MODULE ESimLifecycleProofs ------------------------
(* Proofs about ESimLifecycle, for any handlers and any number of          *)
(* notices, and about ProfileRows, for any orders, eSIMs and handlers.     *)
EXTENDS ESimLifecycle, ProfileRows, FiniteSetTheorems, SequenceTheorems, TLAPS

Reports == [esim : EsimStatuses \cup {None}, smdp : SmdpStatuses \cup {None},
            used : BOOLEAN, confirmed : BOOLEAN]

-----------------------------------------------------------------------------
(* The rules the handlers share.                                           *)

(* A raw status is normalised to a canonical one, and a canonical one is   *)
(* its own normal form.                                                    *)
LEMMA NormalForm ==
    /\ \A s \in EsimStatuses \cup SmdpStatuses : Normalize(s) \in AppStatuses
    /\ \A s \in AppStatuses : Normalize(s) = s
    /\ Normalize(None) = None
    /\ \A s \in EsimStatuses : Normalize(s) # "REFUNDED"
BY SentinelAssumption
   DEF Normalize, EsimStatuses, SmdpStatuses, AppStatuses, Terminal, Stamped

(* What _resolve_profile_app_status may return: a canonical status, ACTIVE *)
(* only of an installed profile, and a terminal one only if the esimStatus *)
(* of the report says so, or the report has none and it was terminal.      *)
LEMMA ResolveRule ==
    ASSUME NEW p \in Profiles, NEW r \in Reports, NEW fallback \in AppStatuses
    PROVE  /\ Resolve(p, r, fallback) \in AppStatuses
           /\ Resolve(p, r, fallback) = "ACTIVE" => p.installed
           /\ Resolve(p, r, fallback) \in Terminal =>
                 \/ IsTerminal(r.esim) /\ Resolve(p, r, fallback) = Normalize(r.esim)
                 \/ r.esim = None /\ Resolve(p, r, fallback) = fallback
           /\ IsTerminal(r.esim) => Resolve(p, r, fallback) = Normalize(r.esim)
           /\ r.esim = None /\ fallback \in Terminal =>
                 Resolve(p, r, fallback) = fallback
<1> DEFINE said   == {r.esim, r.smdp, fallback}
           active == r.used \/ \E s \in said : IsActive(s)
<1>1. /\ Normalize(fallback) = fallback
      /\ r.esim = None \/ Normalize(r.esim) \in AppStatuses
      /\ ~ IsTerminal(None)
  BY NormalForm, SentinelAssumption DEF Reports, IsTerminal, AppStatuses
<1>2. {"ACTIVE", "PROVIDER_WAITING"} \subseteq AppStatuses \ Terminal
  BY DEF AppStatuses, Terminal, Stamped
<1>3. p.installed \in BOOLEAN
  BY DEF Profiles
<1>4. CASE IsTerminal(r.esim)
  BY <1>1, <1>2, <1>3, <1>4 DEF Resolve, IsTerminal, Terminal, Stamped
<1>5. CASE ~ IsTerminal(r.esim) /\ r.esim = None /\ IsTerminal(fallback)
  BY <1>1, <1>2, <1>3, <1>5 DEF Resolve, IsTerminal, Terminal, Stamped
<1>6. CASE ~ IsTerminal(r.esim) /\ ~ (r.esim = None /\ IsTerminal(fallback))
  <2>1. CASE p.installed /\ (p.activated \/ active \/ r.confirmed)
    <3>1. Resolve(p, r, fallback) = "ACTIVE"
      BY <1>6, <2>1 DEF Resolve
    <3> QED BY <1>1, <1>2, <1>6, <2>1, <3>1 DEF IsTerminal
  <2>2. CASE /\ ~ (p.installed /\ (p.activated \/ active \/ r.confirmed))
             /\ \/ p.installed \/ active
                \/ said \cap InstallSignals # {}
                \/ Normalize(fallback) = "PROVIDER_WAITING"
    <3>1. Resolve(p, r, fallback) = "PROVIDER_WAITING"
      BY <1>6, <2>2 DEF Resolve
    <3> QED BY <1>1, <1>2, <1>6, <3>1 DEF IsTerminal
  <2>3. CASE /\ ~ (p.installed \/ active)
             /\ ~ (said \cap InstallSignals # {})
             /\ ~ (Normalize(fallback) = "PROVIDER_WAITING")
    <3>1. Resolve(p, r, fallback)
            = Normalize(IF r.esim # None THEN r.esim ELSE fallback)
      BY <1>6, <2>3 DEF Resolve
    <3>2. ~ IsActive(r.esim) /\ ~ IsActive(fallback)
      BY <2>3
    <3> QED BY <1>1, <1>6, <3>1, <3>2 DEF IsTerminal, IsActive
  <2> QED BY <2>1, <2>2, <2>3
<1> QED BY <1>4, <1>5, <1>6

(* What storing the resolved status changes.                               *)
LEMMA ResolvedRule ==
    ASSUME NEW p \in Profiles, NEW r \in Reports, NEW fallback \in AppStatuses
    PROVE  /\ Resolved(p, r, fallback) \in Profiles
           /\ Resolved(p, r, fallback).app = Resolve(p, r, fallback)
           /\ Resolved(p, r, fallback).installed = p.installed
           /\ Resolved(p, r, fallback).activated = p.activated
           /\ Resolved(p, r, fallback).esim = p.esim
           /\ Resolved(p, r, fallback).stamps = p.stamps
BY ResolveRule DEF Resolved, Profiles

(* The side effects of ACTIVE: it means installed and activated; no other  *)
(* status, timestamp or stored esimStatus changes.                         *)
LEMMA ActivatedRule ==
    ASSUME NEW p \in Profiles
    PROVE  /\ Activated(p) \in Profiles
           /\ Activated(p).app = "ACTIVE" =>
                 Activated(p).installed /\ Activated(p).activated
           /\ p.app = "ACTIVE" \/ Activated(p).app = p.app
           /\ Activated(p).app \in Terminal => p.app = Activated(p).app
           /\ Activated(p).installed = p.installed
           /\ p.activated => Activated(p).activated
           /\ Activated(p).esim = p.esim
           /\ Activated(p).stamps = p.stamps
BY DEF Activated, Profiles, AppStatuses, Terminal, Stamped

(* The side effects of a terminal status: its timestamp, and nothing else. *)
LEMMA StampedRule ==
    ASSUME NEW p \in Profiles
    PROVE  /\ StampedTerminal(p) \in Profiles
           /\ StampedTerminal(p).app = p.app
           /\ StampedTerminal(p).installed = p.installed
           /\ StampedTerminal(p).activated = p.activated
           /\ StampedTerminal(p).esim = p.esim
           /\ p.stamps \subseteq StampedTerminal(p).stamps
           /\ p.app \in Stamped => p.app \in StampedTerminal(p).stamps
BY DEF StampedTerminal, Profiles

-----------------------------------------------------------------------------
(* What each handler makes of a profile it read.                           *)

(* It takes no installation, activation or timestamp away, and ACTIVE      *)
(* means installed and activated.                                          *)
Grown(p, q) ==
    /\ q \in Profiles
    /\ p.installed => q.installed
    /\ p.activated => q.activated
    /\ p.stamps \subseteq q.stamps
    /\ q.app = "ACTIVE" => q.installed /\ q.activated

(* Of a report with esimStatus e: the end it stores is the report's or, if *)
(* it has none, the one before; and the one of the report is stamped.      *)
ReportedEnd(p, q, e) ==
    /\ q.esim = e
    /\ q.app \in Terminal =>
          \/ IsTerminal(e) /\ q.app = Normalize(e)
          \/ e = None /\ q.app = p.app
    /\ IsTerminal(e) => q.app = Normalize(e)

(* sync_profiles stores the answer and stamps what it ends; the item gets  *)
(* the same end.                                                           *)
LEMMA SyncedRule ==
    ASSUME NEW p \in Profiles, NEW a \in Answers,
           NEW s, s = Synced(p, a), NEW q, q = Activated(s)
    PROVE  /\ Grown(p, q) /\ ReportedEnd(p, q, a.esim) /\ a.esim \in EsimStatuses
           /\ q.app \in Stamped => q.app \in q.stamps
           /\ s.app \in AppStatuses
           /\ s.app \in Terminal => s.app = q.app
<1> DEFINE w == WithEvidence([p EXCEPT !.smdp = a.smdp], a.evidence)
           rep == Report(a.esim, a.smdp, a.used, a.evidence)
           r == Resolved(w, rep, p.app)
           t == [r EXCEPT !.esim = a.esim, !.evidence = a.evidence]
<1>1. /\ a.esim \in EsimStatuses /\ a.smdp \in SmdpStatuses
      /\ a.evidence \in BOOLEAN /\ a.used \in BOOLEAN /\ p.app \in AppStatuses
  BY DEF Answers, Profiles
<1>2. rep \in Reports /\ rep.esim = a.esim
  BY <1>1 DEF Reports, Report
<1>3. /\ w \in Profiles /\ w.stamps = p.stamps
      /\ p.installed => w.installed
      /\ p.activated => w.activated
  BY <1>1 DEF WithEvidence, Profiles
<1>4. /\ r \in Profiles /\ r.stamps = p.stamps
      /\ r.installed = w.installed /\ r.activated = w.activated
      /\ r.app = Resolve(w, rep, p.app)
  BY <1>1, <1>2, <1>3, ResolvedRule
<1>5. /\ r.app \in AppStatuses
      /\ r.app \in Terminal => IsTerminal(a.esim) /\ r.app = Normalize(a.esim)
      /\ IsTerminal(a.esim) => r.app = Normalize(a.esim)
  BY <1>1, <1>2, <1>3, <1>4, ResolveRule, SentinelAssumption
<1>6. /\ t \in Profiles /\ t.app = r.app
      /\ t.installed = r.installed /\ t.activated = r.activated
      /\ t.esim = a.esim /\ t.stamps = p.stamps
  BY <1>1, <1>4 DEF Profiles
<1>7. s = StampedTerminal(t)
  BY DEF Synced
<1>8. /\ s \in Profiles /\ s.app = t.app /\ s.esim = a.esim
      /\ s.installed = t.installed /\ s.activated = t.activated
      /\ p.stamps \subseteq s.stamps
      /\ s.app \in Stamped => s.app \in s.stamps
  BY <1>6, <1>7, StampedRule
<1>9. /\ q \in Profiles
      /\ q.app = "ACTIVE" => q.installed /\ q.activated
      /\ s.app = "ACTIVE" \/ q.app = s.app
      /\ q.app \in Terminal => q.app = s.app
      /\ q.installed = s.installed /\ (s.activated => q.activated)
      /\ q.esim = a.esim /\ q.stamps = s.stamps
  BY <1>8, ActivatedRule
<1>10. /\ Stamped \subseteq Terminal /\ "ACTIVE" \notin Terminal
       /\ IsTerminal(a.esim) => Normalize(a.esim) \in Terminal
  BY DEF Terminal, Stamped, IsTerminal
<1>11. Grown(p, q)
  BY <1>3, <1>4, <1>6, <1>8, <1>9 DEF Grown
<1>12. ReportedEnd(p, q, a.esim)
  BY <1>5, <1>6, <1>8, <1>9, <1>10 DEF ReportedEnd
<1> QED BY <1>1, <1>5, <1>6, <1>8, <1>9, <1>10, <1>11, <1>12

(* record_webhook stores the notice and stamps what it ends.               *)
LEMMA NoticedRule ==
    ASSUME NEW p \in Profiles, NEW n \in Notices,
           NEW q, q = StampedTerminal(Activated(Noticed(p, n)))
    PROVE  /\ Grown(p, q) /\ ReportedEnd(p, q, n.esim)
           /\ n.esim \in EsimStatuses \cup {None}
           /\ q.app \in Stamped => q.app \in q.stamps
<1> DEFINE w == WithEvidence([p EXCEPT !.smdp = n.smdp], n.evidence)
           rep == Report(n.esim, n.smdp, FALSE, n.evidence)
           r == Resolved(w, rep, p.app)
           s == [r EXCEPT !.esim = n.esim, !.evidence = n.evidence]
           u == Activated(s)
<1>1. /\ n.esim \in EsimStatuses \cup {None} /\ n.smdp \in SmdpStatuses
      /\ n.evidence \in BOOLEAN /\ p.app \in AppStatuses
  BY DEF Notices, Profiles
<1>2. rep \in Reports /\ rep.esim = n.esim
  BY <1>1 DEF Reports, Report
<1>3. /\ w \in Profiles /\ w.stamps = p.stamps
      /\ p.installed => w.installed
      /\ p.activated => w.activated
  BY <1>1 DEF WithEvidence, Profiles
<1>4. /\ r \in Profiles /\ r.stamps = p.stamps
      /\ r.installed = w.installed /\ r.activated = w.activated
      /\ r.app = Resolve(w, rep, p.app)
  BY <1>1, <1>2, <1>3, ResolvedRule
<1>5. /\ r.app \in Terminal =>
            \/ IsTerminal(n.esim) /\ r.app = Normalize(n.esim)
            \/ n.esim = None /\ r.app = p.app
      /\ IsTerminal(n.esim) => r.app = Normalize(n.esim)
  <2> HIDE DEF w, rep
  <2> QED BY <1>1, <1>2, <1>3, <1>4, ResolveRule
<1>6. /\ s \in Profiles /\ s.app = r.app
      /\ s.installed = r.installed /\ s.activated = r.activated
      /\ s.esim = n.esim /\ s.stamps = p.stamps
  BY <1>1, <1>4 DEF Profiles
<1>7. /\ u \in Profiles
      /\ u.app = "ACTIVE" => u.installed /\ u.activated
      /\ s.app = "ACTIVE" \/ u.app = s.app
      /\ u.app \in Terminal => u.app = s.app
      /\ u.installed = s.installed /\ (s.activated => u.activated)
      /\ u.esim = n.esim /\ u.stamps = p.stamps
  BY <1>6, ActivatedRule
<1>8. q = StampedTerminal(u)
  BY DEF Noticed
<1>9. /\ q \in Profiles /\ q.app = u.app /\ q.esim = n.esim
      /\ q.installed = u.installed /\ q.activated = u.activated
      /\ p.stamps \subseteq q.stamps
      /\ q.app \in Stamped => q.app \in q.stamps
  BY <1>7, <1>8, StampedRule
<1>10. "ACTIVE" \notin Terminal /\ (IsTerminal(n.esim) => Normalize(n.esim) \in Terminal)
  BY DEF Terminal, Stamped, IsTerminal
<1>11. Grown(p, q)
  BY <1>3, <1>4, <1>6, <1>7, <1>9 DEF Grown
<1>12. ReportedEnd(p, q, n.esim)
  BY <1>5, <1>6, <1>7, <1>9, <1>10 DEF ReportedEnd
<1> QED BY <1>1, <1>9, <1>11, <1>12

(* Resolving what is stored keeps the stored esimStatus and the stamps; a  *)
(* terminal status is the stored one's or the one before.                  *)
LEMMA ReassessRule ==
    ASSUME NEW p \in Profiles, NEW rep \in Reports, rep.esim = p.esim,
           NEW fallback \in AppStatuses, fallback = p.app \/ fallback = "ACTIVE",
           NEW q, q = Activated(Resolved(p, rep, fallback))
    PROVE  Grown(p, q) /\ ReportedEnd(p, q, p.esim) /\ q.stamps = p.stamps
<1> DEFINE r == Resolved(p, rep, fallback)
<1>1. /\ r \in Profiles /\ r.esim = p.esim /\ r.stamps = p.stamps
      /\ r.installed = p.installed /\ r.activated = p.activated
      /\ r.app = Resolve(p, rep, fallback)
  BY ResolvedRule
<1>2. r.app \in Terminal =>
          \/ IsTerminal(p.esim) /\ r.app = Normalize(p.esim)
          \/ p.esim = None /\ r.app = fallback
  BY <1>1, ResolveRule
<1>3. "ACTIVE" \notin Terminal
  BY DEF Terminal, Stamped
<1>4. IsTerminal(p.esim) => r.app = Normalize(p.esim) /\ r.app # "ACTIVE"
  BY <1>1, <1>3, ResolveRule DEF IsTerminal
<1>5. /\ q \in Profiles
      /\ q.app = "ACTIVE" => q.installed /\ q.activated
      /\ r.app = "ACTIVE" \/ q.app = r.app
      /\ q.app \in Terminal => q.app = r.app
      /\ q.installed = r.installed /\ (r.activated => q.activated)
      /\ q.esim = r.esim /\ q.stamps = r.stamps
  BY <1>1, ActivatedRule
<1>6. Grown(p, q)
  BY <1>1, <1>5 DEF Grown
<1>7. ReportedEnd(p, q, p.esim)
  BY <1>1, <1>2, <1>3, <1>4, <1>5 DEF ReportedEnd
<1> QED BY <1>1, <1>5, <1>6, <1>7

(* An admin's status is stored as it is and stamped.                       *)
LEMMA WithStatusRule ==
    ASSUME NEW p \in Profiles, NEW s \in AppStatuses \ {"ACTIVE"},
           NEW q, q = WithStatus(p, s)
    PROVE  /\ Grown(p, q) /\ q.app = s /\ q.esim = p.esim
           /\ s \in Stamped => s \in q.stamps
<1> DEFINE r == [p EXCEPT !.app = s]
<1>1. /\ r \in Profiles /\ r.app = s /\ r.esim = p.esim /\ r.stamps = p.stamps
      /\ r.installed = p.installed /\ r.activated = p.activated
  BY DEF Profiles
<1>2. q = StampedTerminal(r)
  BY DEF WithStatus
<1> HIDE DEF r
<1> QED BY <1>1, <1>2, StampedRule DEF Grown

-----------------------------------------------------------------------------
(* The invariant, and what a handler that read the rows is going to write. *)

IInv == TypeOK /\ ActiveInv /\ StampInv /\ TrueInv /\ ItemInv

(* The handlers that read the rows and leave a change to commit.           *)
Handles(h) ==
    \/ SyncResolves(h) \/ ResyncAnswered(h) \/ SyncUsage(h) \/ Install(h)
    \/ Refund(h) \/ (\E a \in Actions : ApplyManaged(h, a))
    \/ OrderNoticeReads(h) \/ (\E n \in inbox : NoticeReads(h, n))

(* What they write: every end is stamped and true.                         *)
Sound(p, q) ==
    /\ Grown(p, q)
    /\ q.app \in Stamped => q.app \in q.stamps
    /\ Normalize(q.esim) \in Stamped => Normalize(q.esim) \in q.stamps
    /\ TrueStatus(q.app)
    /\ TrueEsim(q.esim)

(* A handler of a report that is true stores a true and stamped end.       *)
LEMMA ReportIsSound ==
    ASSUME NEW p \in Profiles, NEW q, NEW e \in EsimStatuses \cup {None},
           Grown(p, q), ReportedEnd(p, q, e),
           q.app \in Stamped => q.app \in q.stamps,
           TrueEsim(e), e = None => TrueStatus(p.app)
    PROVE  Sound(p, q)
<1>1. IsTerminal(e) => e \in EsimStatuses /\ e \in Ended /\ Normalize(e) \in Terminal
  BY NormalForm, SentinelAssumption DEF IsTerminal, Ended, AppStatuses
<1>2. TrueStatus(q.app)
  BY <1>1 DEF ReportedEnd, TrueEsim, TrueStatus
<1>3. Normalize(q.esim) \in Stamped => q.app = Normalize(q.esim)
  BY DEF ReportedEnd, IsTerminal, Terminal
<1>4. TrueEsim(q.esim)
  BY DEF ReportedEnd
<1> QED BY <1>2, <1>3, <1>4 DEF Sound

(* Resolving what is stored comes to an end that is stored already, and so *)
(* was true and stamped.                                                   *)
LEMMA StoredIsSound ==
    ASSUME TypeOK, StampInv, TrueInv, NEW p \in Profiles,
           p.app = profile.app, p.esim = profile.esim, p.stamps = profile.stamps,
           NEW q, Grown(p, q), ReportedEnd(p, q, p.esim), q.stamps = p.stamps
    PROVE  Sound(p, q)
<1>1. p.esim \in EsimStatuses \cup {None}
  BY DEF Profiles
<1>2. q.app \in Stamped => q.app \in q.stamps
  BY DEF ReportedEnd, StampInv, TerminalIsStamped, Terminal
<1>3. TrueEsim(p.esim) /\ TrueStatus(p.app)
  BY DEF TrueInv, TerminalIsTrue, TrueStatus
<1> QED BY <1>1, <1>2, <1>3, ReportIsSound

(* What a transaction leaves to be committed: the parts of q that differ   *)
(* from p, and nothing else.                                               *)
LEMMA WritesRule ==
    ASSUME TypeOK, NEW h \in Workers, NEW p \in Profiles, NEW q \in Profiles,
           NEW j \in AppStatuses, NEW f \in {None, Fields(q)},
           NEW n \in Notices \cup {None}, Writes(h, p, q, j, f, n)
    PROVE  /\ change' \in [Workers -> Changes \cup {None}]
           /\ \A g \in Workers \ {h} : change'[g] = change[g]
           /\ change'[h].app \in {None, q.app}
           /\ change'[h].item \in {None, j}
           /\ j = item => change'[h].item = None
           /\ change'[h].fields \in {None, Fields(q)}
           /\ q.installed => p.installed \/ change'[h].installed
           /\ q.activated => p.activated \/ change'[h].activated
           /\ q.stamps \subseteq p.stamps \cup change'[h].stamps
<1> DEFINE c == [app |-> Changed(p.app, q.app), item |-> Changed(item, j),
                 smdp |-> Changed(p.smdp, q.smdp), fields |-> f,
                 installed |-> q.installed /\ ~ p.installed,
                 activated |-> q.activated /\ ~ p.activated,
                 stamps |-> q.stamps \ p.stamps, notice |-> n]
<1>1. change' = [change EXCEPT ![h] = c] /\ change \in [Workers -> Changes \cup {None}]
  BY DEF Writes, TypeOK
<1>2. /\ c.app \in {None, q.app} /\ c.item \in {None, j}
      /\ c.smdp \in {None, q.smdp}
      /\ j = item => c.item = None
  BY DEF Changed
<1>3. /\ q.app \in AppStatuses /\ q.smdp \in SmdpStatuses \cup {None}
      /\ p.installed \in BOOLEAN /\ p.activated \in BOOLEAN
      /\ q.installed \in BOOLEAN /\ q.activated \in BOOLEAN
      /\ q.stamps \in SUBSET Stamped /\ Fields(q) \in CustomFields
  BY DEF Profiles, Fields, CustomFields
<1>4. c \in Changes
  BY <1>2, <1>3 DEF Changes
<1>5. /\ change' \in [Workers -> Changes \cup {None}]
      /\ \A g \in Workers \ {h} : change'[g] = change[g]
      /\ change'[h] = c
  BY <1>1, <1>4
<1>6. /\ c.fields = f
      /\ q.installed => p.installed \/ c.installed
      /\ q.activated => p.activated \/ c.activated
      /\ q.stamps \subseteq p.stamps \cup c.stamps
  BY <1>3
<1> HIDE DEF c
<1> QED BY <1>2, <1>5, <1>6

(* The provider answers with what it says.                                 *)
LEMMA ProviderSaysRule ==
    ASSUME TypeOK, NEW a \in ProviderSays
    PROVE  a \in Answers /\ a.esim = prov.esim
<1>1. PICK e \in {FALSE, prov.downloaded} :
         a = [esim |-> prov.esim, smdp |-> prov.smdp, evidence |-> e, used |-> prov.used]
  BY DEF ProviderSays
<1>2. e \in BOOLEAN
  BY Zenon, <1>1 DEF TypeOK
<1> QED BY <1>1, <1>2 DEF TypeOK, Answers

(* Every handler leaves a sound change, made of the row as it is or, in a  *)
(* resync, as it was read before the query; an end that it writes to the   *)
(* item is the end it writes to the profile.                               *)
HandlerWrites(h) ==
    \E p \in Profiles, q \in Profiles : \E j \in AppStatuses,
       f \in {None, Fields(q)}, n \in Notices \cup {None} :
          /\ Writes(h, p, q, j, f, n)
          /\ p = profile \/ (p = seen[h] /\ p # None)
          /\ Sound(p, q)
          /\ j \in Terminal => j = item \/ j = q.app

LEMMA SyncIsSound ==
    ASSUME IInv, NEW h \in Workers, NEW p \in Profiles, p = profile \/ (p = seen[h] /\ p # None),
           NEW a \in Answers, TrueEsim(a.esim), SyncWrites(h, p, a)
    PROVE  HandlerWrites(h)
<1> DEFINE s == Synced(p, a)
           q == Activated(s)
<1>1. PICK f \in Merged(p, s) : Writes(h, p, q, s.app, f, None)
  BY DEF SyncWrites
<1>2. /\ Grown(p, q) /\ ReportedEnd(p, q, a.esim) /\ a.esim \in EsimStatuses
      /\ q.app \in Stamped => q.app \in q.stamps
      /\ s.app \in AppStatuses
      /\ s.app \in Terminal => s.app = q.app
  BY SyncedRule
<1>3. Sound(p, q)
  BY <1>2, ReportIsSound, SentinelAssumption
<1>4. f \in {None, Fields(q)}
  BY DEF Merged, Changed, Fields, Activated
<1>5. q \in Profiles
  BY <1>2 DEF Grown
<1> HIDE DEF s, q
<1> QED BY <1>1, <1>2, <1>3, <1>4, <1>5 DEF HandlerWrites

LEMMA HandlersWrite ==
    ASSUME IInv, NEW h \in Workers, Handles(h)
    PROVE  HandlerWrites(h)
<1>1. /\ TypeOK /\ StampInv /\ TrueInv
      /\ profile \in Profiles /\ item \in AppStatuses
      /\ profile.app \in AppStatuses /\ profile.esim \in EsimStatuses \cup {None}
      /\ profile.smdp \in SmdpStatuses \cup {None} /\ profile.evidence \in BOOLEAN
      /\ "ACTIVE" \in AppStatuses
  BY DEF IInv, TypeOK, Profiles, AppStatuses
(* What was made of the stored status is written to both rows.             *)
<1>a. ASSUME NEW q, Sound(profile, q), NEW f \in {None, Fields(q)},
             Writes(h, profile, q, q.app, f, None)
      PROVE  HandlerWrites(h)
  <2>1. q \in Profiles /\ q.app \in AppStatuses
    BY <1>a DEF Sound, Grown, Profiles
  <2> QED BY <1>1, <1>a, <2>1 DEF HandlerWrites
<1>2. CASE SyncResolves(h)
  <2>1. answer[h] \in Answers /\ TrueEsim(answer[h].esim)
    BY <1>1, <1>2 DEF SyncResolves, TypeOK, TrueInv
  <2> QED BY <1>1, <1>2, <2>1, SyncIsSound DEF SyncResolves
<1>3. CASE ResyncAnswered(h)
  <2>1. seen[h] \in Profiles /\ seen[h] # None
    BY <1>1, <1>3 DEF ResyncAnswered, TypeOK
  <2>2. PICK a \in ProviderSays : SyncWrites(h, seen[h], a)
    BY <1>3 DEF ResyncAnswered
  <2>3. a \in Answers /\ TrueEsim(a.esim)
    BY <1>1, <2>2, ProviderSaysRule DEF TrueEsim
  <2> QED BY <2>1, <2>2, <2>3, SyncIsSound
<1>4. CASE SyncUsage(h)
  <2>1. prov.used \in BOOLEAN
    BY <1>1 DEF TypeOK
  <2> DEFINE rep(u) == Report(profile.esim, profile.smdp, u, FALSE)
             made(u) == Activated(Resolved(profile, rep(u), profile.app))
  <2>2. PICK used \in {FALSE, prov.used} :
          \E f \in Merged(profile, profile) :
             Writes(h, profile, made(used), made(used).app, f, None)
    BY <1>4, Zenon DEF SyncUsage
  <2>3. used \in BOOLEAN
    BY <2>1, <2>2, Zenon
  <2>4. PICK f \in Merged(profile, profile) :
          Writes(h, profile, made(used), made(used).app, f, None)
    BY <2>2
  <2>5. rep(used) \in Reports /\ rep(used).esim = profile.esim
    BY <1>1, <2>3 DEF Report, Reports
  <2>6. f \in {None, Fields(made(used))}
    BY DEF Merged, Changed, Fields, Activated, Resolved
  <2> HIDE DEF rep
  <2>7. /\ Grown(profile, made(used))
        /\ ReportedEnd(profile, made(used), profile.esim)
        /\ made(used).stamps = profile.stamps
    BY <1>1, <2>5, ReassessRule
  <2> HIDE DEF made
  <2> QED BY <1>1, <1>a, <2>4, <2>6, <2>7, StoredIsSound
<1>5. CASE Install(h)
  <2> DEFINE p == [profile EXCEPT !.installed = TRUE]
             rep == Report(p.esim, p.smdp, FALSE, p.evidence)
             q == Activated(Resolved(p, rep, profile.app))
  <2>1. /\ p \in Profiles /\ p.app = profile.app /\ p.installed
        /\ p.activated = profile.activated
        /\ p.esim = profile.esim /\ p.stamps = profile.stamps
    BY <1>1 DEF Profiles
  <2>2. rep \in Reports /\ rep.esim = p.esim
    BY <1>1 DEF Report, Reports, Profiles
  <2>3. Writes(h, profile, q, q.app, None, None)
    BY <1>5 DEF Install, Acts, Reassess
  <2> HIDE DEF p, rep
  <2>4. /\ Grown(p, q) /\ ReportedEnd(p, q, p.esim) /\ q.stamps = p.stamps
    BY <1>1, <2>1, <2>2, ReassessRule
  <2> HIDE DEF q
  <2>5. Sound(p, q)
    BY <1>1, <2>1, <2>4, StoredIsSound
  <2>6. Sound(profile, q)
    BY <2>1, <2>5 DEF Sound, Grown
  <2> QED BY <1>a, <2>3, <2>6
<1>6. ASSUME NEW s \in AppStatuses \ {"ACTIVE"}, TrueStatus(s),
             Acts(h, WithStatus(profile, s))
      PROVE  HandlerWrites(h)
  <2> DEFINE q == WithStatus(profile, s)
  <2>1. Writes(h, profile, q, q.app, None, None)
    BY <1>6 DEF Acts
  <2>2. /\ Grown(profile, q) /\ q.app = s /\ q.esim = profile.esim
        /\ s \in Stamped => s \in q.stamps
    BY <1>1, <1>6, WithStatusRule
  <2> HIDE DEF q
  <2>3. Sound(profile, q)
    BY <1>1, <1>6, <2>2 DEF Sound, Grown, StampInv, TrueInv
  <2> QED BY <1>a, <2>1, <2>3
<1>7. CASE Refund(h)
  <2>1. "REFUNDED" \in AppStatuses \ {"ACTIVE"} /\ TrueStatus("REFUNDED")
    BY DEF AppStatuses, Terminal, Stamped, TrueStatus
  <2> QED BY <1>6, <1>7, <2>1 DEF Refund
<1>8. ASSUME NEW a \in Actions, ApplyManaged(h, a) PROVE HandlerWrites(h)
  <2>1. CASE a = "unsuspend"
    <3> DEFINE rep == Report(profile.esim, profile.smdp, FALSE, profile.evidence)
               q == Activated(Resolved(profile, rep, "ACTIVE"))
    <3>1. Writes(h, profile, q, q.app, None, None)
      BY <1>8, <2>1 DEF ApplyManaged, Managed, Acts, Reassess
    <3>2. rep \in Reports /\ rep.esim = profile.esim
      BY <1>1 DEF Report, Reports
    <3> HIDE DEF rep
    <3>3. Grown(profile, q) /\ ReportedEnd(profile, q, profile.esim) /\ q.stamps = profile.stamps
      BY <1>1, <3>2, ReassessRule
    <3> HIDE DEF q
    <3> QED BY <1>1, <1>a, <3>1, <3>3, StoredIsSound
  <2>2. CASE a # "unsuspend"
    <3>1. PICK s \in {"CANCELLED", "REVOKED", "SUSPENDED"} :
            /\ Managed(profile, a) = WithStatus(profile, s)
            /\ s = "CANCELLED" => a = "cancel"
            /\ s = "REVOKED" => a = "revoke"
      BY <1>8, <2>2 DEF Managed, Actions
    <3>2. TrueStatus(s) /\ s \in AppStatuses \ {"ACTIVE"}
      BY <1>1, <1>8, <3>1
         DEF ApplyManaged, TrueInv, TrueStatus, Normalize, AppStatuses, Terminal, Stamped
    <3> QED BY <1>6, <1>8, <3>1, <3>2 DEF ApplyManaged
  <2> QED BY <2>1, <2>2
<1>9. CASE OrderNoticeReads(h)
  <2>1. Writes(h, profile, profile, "INACTIVE", None, OrderNotice)
    BY <1>9 DEF OrderNoticeReads, Normalize
  <2>2. OrderNotice \in Notices /\ "INACTIVE" \in AppStatuses \ Terminal
    BY CountAssumption
       DEF OrderNotice, Notices, SmdpStatuses, AppStatuses, Terminal, Stamped
  <2>3. Sound(profile, profile)
    BY <1>1
       DEF IInv, ActiveInv, ActiveMeansInstalled, StampInv, TerminalIsStamped,
           TrueInv, TerminalIsTrue, TrueStatus, Sound, Grown
  <2> QED BY <1>1, <2>1, <2>2, <2>3 DEF HandlerWrites
<1>10. ASSUME NEW n \in inbox, NoticeReads(h, n) PROVE HandlerWrites(h)
  <2> DEFINE q == StampedTerminal(Activated(Noticed(profile, n)))
  <2>1. n \in Notices /\ TrueEsim(n.esim)
    BY <1>1 DEF TypeOK, TrueInv
  <2>2. PICK f \in Merged(profile, q), j \in {q.app, item} :
          Writes(h, profile, q, j, f, n)
    BY <1>10 DEF NoticeReads
  <2>3. f \in {None, Fields(q)}
    BY DEF Merged, Changed
  <2> HIDE DEF q
  <2>4. /\ Grown(profile, q) /\ ReportedEnd(profile, q, n.esim)
        /\ n.esim \in EsimStatuses \cup {None}
        /\ q.app \in Stamped => q.app \in q.stamps
    BY <1>1, <2>1, NoticedRule DEF q
  <2>5. Sound(profile, q)
    BY <1>1, <2>1, <2>4, ReportIsSound DEF TrueInv, TerminalIsTrue, TrueStatus
  <2>6. q \in Profiles /\ q.app \in AppStatuses
    BY <2>4 DEF Grown, Profiles
  <2> QED BY <1>1, <2>1, <2>2, <2>3, <2>5, <2>6 DEF HandlerWrites
<1> QED BY <1>2, <1>3, <1>4, <1>5, <1>7, <1>8, <1>9, <1>10 DEF Handles

(* A handler takes away what it used and touches neither rows nor provider. *)
LEMMA HandlerFrame ==
    ASSUME TypeOK, NEW h \in Workers, Handles(h)
    PROVE  /\ UNCHANGED <<prov, inbox, notified, profile, item>>
           /\ pending' \in {pending, None}
           /\ seen' \in [Workers -> Profiles \cup {None}]
           /\ answer' \in [Workers -> Answers \cup {None}]
           /\ \A g \in Workers : seen'[g] \in {seen[g], None}
           /\ \A g \in Workers : answer'[g] \in {answer[g], None}
<1>1. CASE SyncResolves(h)
  BY <1>1 DEF SyncResolves, feed, row, TypeOK
<1>2. CASE ResyncAnswered(h)
  BY <1>2 DEF ResyncAnswered, feed, row, TypeOK
<1>3. CASE Reads(h) /\ pending' \in {pending, None}
  BY <1>3 DEF Reads, feed, row, TypeOK
<1>4. ASSUME NEW a \in Actions, ApplyManaged(h, a)
      PROVE  Reads(h) /\ pending' \in {pending, None}
  BY <1>4 DEF ApplyManaged, Acts
<1> QED
  BY <1>1, <1>2, <1>3, <1>4
     DEF Handles, SyncUsage, Install, Refund, Acts, OrderNoticeReads, NoticeReads

(* Its change keeps the invariant.                                         *)
LEMMA HandlerKeeps ==
    ASSUME IInv, NEW h \in Workers, Handles(h)
    PROVE  IInv'
<1>1. /\ UNCHANGED <<prov, inbox, notified, profile, item>>
      /\ pending' \in {pending, None}
      /\ seen' \in [Workers -> Profiles \cup {None}]
      /\ answer' \in [Workers -> Answers \cup {None}]
      /\ \A g \in Workers : seen'[g] \in {seen[g], None}
      /\ \A g \in Workers : answer'[g] \in {answer[g], None}
  BY HandlerFrame DEF IInv
<1>a. PICK p \in Profiles, q \in Profiles :
        \E j \in AppStatuses, f \in {None, Fields(q)}, n \in Notices \cup {None} :
           /\ Writes(h, p, q, j, f, n)
           /\ p = profile \/ (p = seen[h] /\ p # None)
           /\ Sound(p, q)
           /\ j \in Terminal => j = item \/ j = q.app
  BY HandlersWrite DEF HandlerWrites
<1>2. PICK j \in AppStatuses, f \in {None, Fields(q)}, n \in Notices \cup {None} :
        /\ Writes(h, p, q, j, f, n)
        /\ p = profile \/ (p = seen[h] /\ p # None)
        /\ Sound(p, q)
        /\ j \in Terminal => j = item \/ j = q.app
  BY <1>a
<1> DEFINE c == change'[h]
<1>3. /\ change' \in [Workers -> Changes \cup {None}]
      /\ \A g \in Workers \ {h} : change'[g] = change[g]
      /\ c.app \in {None, q.app} /\ c.item \in {None, j}
      /\ j = item => c.item = None
      /\ c.fields \in {None, Fields(q)}
      /\ q.installed => p.installed \/ c.installed
      /\ q.activated => p.activated \/ c.activated
      /\ q.stamps \subseteq p.stamps \cup c.stamps
  BY <1>2, WritesRule DEF IInv
<1>4. /\ p.installed => profile.installed
      /\ p.activated => profile.activated
      /\ p.stamps \subseteq profile.stamps
  BY <1>2 DEF IInv, ActiveInv, StampInv
<1>5. Fields(q).esim = q.esim
  BY DEF Fields
<1>6. None \notin AppStatuses
  BY SentinelAssumption
<1>7. Stamped \subseteq Terminal /\ Terminal \subseteq AppStatuses /\ "ACTIVE" \in AppStatuses
  BY DEF Terminal, AppStatuses
<1> HIDE DEF c
<1>8. TypeOK'
  BY <1>1, <1>3 DEF IInv, TypeOK
<1>9. ActiveInv'
  <2>1. c.app = "ACTIVE" =>
           /\ profile.installed \/ c.installed
           /\ profile.activated \/ c.activated
    BY <1>2, <1>3, <1>4, <1>6, <1>7 DEF Sound, Grown
  <2> QED BY <1>1, <1>3, <2>1 DEF IInv, ActiveInv, ActiveMeansInstalled, c
<1>10. StampInv'
  <2>1. /\ c.app \in Stamped => c.app \in profile.stamps \cup c.stamps
        /\ c.fields # None /\ Normalize(c.fields.esim) \in Stamped
              => Normalize(c.fields.esim) \in profile.stamps \cup c.stamps
    BY <1>2, <1>3, <1>4, <1>5, <1>6, <1>7 DEF Sound
  <2> QED BY <1>1, <1>3, <2>1 DEF IInv, StampInv, TerminalIsStamped, c
<1>11. TrueInv'
  <2>1. TrueStatus(c.app) /\ (c.fields # None => TrueEsim(c.fields.esim))
    BY <1>2, <1>3, <1>5, <1>6, <1>7 DEF Sound, TrueStatus
  <2>2. pending' = pending \/ pending' \notin {"cancel", "revoke"}
    BY <1>1, SentinelAssumption
  <2> QED
    BY <1>1, <1>3, <2>1, <2>2
       DEF IInv, TrueInv, TerminalIsTrue, TrueStatus, TrueEsim, c
<1>12. ItemInv'
  <2>1. c.item \in Terminal =>
           \/ c.item = Normalize(prov.esim)
           \/ c.item = "REFUNDED" /\ "REFUNDED" \in profile.stamps \cup c.stamps
    <3>1. SUFFICES ASSUME c.item \in Terminal
                   PROVE  \/ c.item = Normalize(prov.esim)
                          \/ /\ c.item = "REFUNDED"
                             /\ "REFUNDED" \in profile.stamps \cup c.stamps
      OBVIOUS
    <3>2. c.item = q.app
      BY <1>2, <1>3, <1>6, <1>7, <3>1
    <3> QED BY <1>2, <1>3, <1>4, <3>1, <3>2 DEF Sound, TrueStatus, Stamped
  <2> QED BY <1>1, <1>3, <2>1 DEF IInv, ItemInv, EndedItemIsTrue, c
<1> QED BY <1>8, <1>9, <1>10, <1>11, <1>12 DEF IInv

(* A commit changes what was to be written and nothing else; installation, *)
(* activation and timestamps are only added.                               *)
LEMMA CommitRule ==
    ASSUME TypeOK, NEW h \in Workers, Commit(h)
    PROVE  LET c == change[h] IN
           /\ c \in Changes /\ c # None
           /\ change' \in [Workers -> Changes \cup {None}]
           /\ \A g \in Workers : change'[g] # None => change'[g] = change[g]
           /\ profile' \in Profiles
           /\ profile'.app = IF c.app = None THEN profile.app ELSE c.app
           /\ profile'.esim = IF c.fields = None THEN profile.esim ELSE c.fields.esim
           /\ profile'.installed = (profile.installed \/ c.installed)
           /\ profile'.activated = (profile.activated \/ c.activated)
           /\ profile'.stamps = profile.stamps \cup c.stamps
           /\ item' \in AppStatuses
           /\ item' = IF c.item = None THEN item ELSE c.item
           /\ inbox' \subseteq inbox
           /\ UNCHANGED <<prov, notified, pending, seen, answer>>
<1> DEFINE c == change[h]
<1>1. /\ c \in Changes /\ c # None
      /\ change' \in [Workers -> Changes \cup {None}]
      /\ \A g \in Workers : change'[g] # None => change'[g] = change[g]
  BY DEF Commit, TypeOK
<1>2. /\ c.app \in AppStatuses \cup {None} /\ c.item \in AppStatuses \cup {None}
      /\ c.smdp \in SmdpStatuses \cup {None}
      /\ c.fields # None =>
            /\ c.fields.esim \in EsimStatuses \cup {None}
            /\ c.fields.evidence \in BOOLEAN
      /\ c.installed \in BOOLEAN /\ c.activated \in BOOLEAN
      /\ c.stamps \in SUBSET Stamped
  BY <1>1 DEF Changes, CustomFields
<1>3. profile \in Profiles /\ item \in AppStatuses
  BY DEF TypeOK
<1>4. /\ profile' = [profile EXCEPT
            !.app = Written(@, c.app), !.smdp = Written(@, c.smdp),
            !.esim = IF c.fields = None THEN @ ELSE c.fields.esim,
            !.evidence = IF c.fields = None THEN @ ELSE c.fields.evidence,
            !.installed = @ \/ c.installed, !.activated = @ \/ c.activated,
            !.stamps = @ \cup c.stamps]
      /\ item' = Written(item, c.item) /\ inbox' = inbox \ {c.notice}
      /\ UNCHANGED <<prov, notified, pending, seen, answer>>
  BY DEF Commit
<1> HIDE DEF c
<1>5. /\ profile' \in Profiles
      /\ profile'.app = IF c.app = None THEN profile.app ELSE c.app
      /\ profile'.esim = IF c.fields = None THEN profile.esim ELSE c.fields.esim
      /\ profile'.installed = (profile.installed \/ c.installed)
      /\ profile'.activated = (profile.activated \/ c.activated)
      /\ profile'.stamps = profile.stamps \cup c.stamps
  <2> DEFINE app == Written(profile.app, c.app)
             smdp == Written(profile.smdp, c.smdp)
             esim == IF c.fields = None THEN profile.esim ELSE c.fields.esim
             evidence == IF c.fields = None THEN profile.evidence ELSE c.fields.evidence
             installed == profile.installed \/ c.installed
             activated == profile.activated \/ c.activated
             stamps == profile.stamps \cup c.stamps
  <2>1. /\ app \in AppStatuses /\ smdp \in SmdpStatuses \cup {None}
        /\ esim \in EsimStatuses \cup {None} /\ evidence \in BOOLEAN
        /\ installed \in BOOLEAN /\ activated \in BOOLEAN
        /\ stamps \in SUBSET Stamped
    BY <1>2, <1>3 DEF Written, Profiles
  <2>2. profile' = [profile EXCEPT
            !.app = app, !.smdp = smdp, !.esim = esim, !.evidence = evidence,
            !.installed = installed, !.activated = activated, !.stamps = stamps]
    BY <1>4, Zenon
  <2>3. app = IF c.app = None THEN profile.app ELSE c.app
    BY DEF Written
  <2> HIDE DEF app, smdp, esim, evidence, installed, activated, stamps
  <2>4. /\ profile' \in Profiles /\ profile'.app = app /\ profile'.esim = esim
        /\ profile'.installed = installed /\ profile'.activated = activated
        /\ profile'.stamps = stamps
    BY <1>3, <2>1, <2>2 DEF Profiles
  <2> QED BY <2>3, <2>4 DEF esim, installed, activated, stamps
<1>6. item' \in AppStatuses /\ item' = IF c.item = None THEN item ELSE c.item
  BY <1>2, <1>3, <1>4 DEF Written
<1> QED BY <1>1, <1>4, <1>5, <1>6 DEF c

LEMMA CommitKeeps ==
    ASSUME IInv, NEW h \in Workers, Commit(h)
    PROVE  IInv'
<1> DEFINE c == change[h]
<1>1. /\ c \in Changes /\ c # None
      /\ change' \in [Workers -> Changes \cup {None}]
      /\ \A g \in Workers : change'[g] # None => change'[g] = change[g]
      /\ profile' \in Profiles
      /\ profile'.app = IF c.app = None THEN profile.app ELSE c.app
      /\ profile'.esim = IF c.fields = None THEN profile.esim ELSE c.fields.esim
      /\ profile'.installed = (profile.installed \/ c.installed)
      /\ profile'.activated = (profile.activated \/ c.activated)
      /\ profile'.stamps = profile.stamps \cup c.stamps
      /\ item' \in AppStatuses
      /\ item' = IF c.item = None THEN item ELSE c.item
      /\ inbox' \subseteq inbox
      /\ UNCHANGED <<prov, notified, pending, seen, answer>>
  BY CommitRule DEF IInv
<1>2. None \notin Stamped /\ None # "ACTIVE" /\ None \notin Terminal
  BY SentinelAssumption DEF AppStatuses, Terminal
<1>3. TypeOK'
  BY <1>1 DEF IInv, TypeOK
<1>4. ActiveInv'
  <2>1. ActiveMeansInstalled'
    BY <1>1, <1>2 DEF IInv, ActiveInv, ActiveMeansInstalled
  <2> QED BY <1>1, <2>1 DEF IInv, ActiveInv
<1>5. StampInv'
  <2>1. TerminalIsStamped'
    BY <1>1, <1>2 DEF IInv, StampInv, TerminalIsStamped
  <2>2. (Normalize(profile.esim) \in Stamped
           => Normalize(profile.esim) \in profile.stamps)'
    BY <1>1 DEF IInv, StampInv
  <2> QED BY <1>1, <2>1, <2>2 DEF IInv, StampInv
<1>6. TrueInv'
  <2>1. TerminalIsTrue'
    BY <1>1, <1>2 DEF IInv, TrueInv, TerminalIsTrue, TrueStatus
  <2>2. TrueEsim(profile.esim)'
    BY <1>1 DEF IInv, TrueInv, TrueEsim
  <2> QED BY <1>1, <2>1, <2>2 DEF IInv, TrueInv, TrueStatus, TrueEsim
<1>7. ItemInv'
  <2>1. EndedItemIsTrue'
    BY <1>1, <1>2 DEF IInv, ItemInv, EndedItemIsTrue
  <2> QED BY <1>1, <2>1 DEF IInv, ItemInv
<1> QED BY <1>3, <1>4, <1>5, <1>6, <1>7 DEF IInv

-----------------------------------------------------------------------------
(* The provider.                                                           *)

(* The provider's own steps keep the type of what it says and announces.   *)
LEMMA AnnounceTypeOK ==
    ASSUME TypeOK, NEW esim \in EsimStatuses \cup {None}, NEW evidence \in BOOLEAN,
           prov'.smdp \in SmdpStatuses, Announce(esim, evidence)
    PROVE  inbox' \in SUBSET Notices /\ notified' \in 0 .. MaxNotices
<1>1. CASE UNCHANGED feed
  BY <1>1 DEF TypeOK, feed
<1>2. CASE ~ UNCHANGED feed
  <2>1. /\ notified < MaxNotices /\ notified' = notified + 1
        /\ inbox' = inbox \cup {[id |-> notified', esim |-> esim,
                                 smdp |-> prov'.smdp, evidence |-> evidence]}
    BY <1>2 DEF Announce
  <2>2. notified' \in 0 .. MaxNotices
    BY <2>1, CountAssumption DEF TypeOK
  <2> QED BY <2>1, <2>2 DEF TypeOK, Notices
<1> QED BY <1>1, <1>2

(* A notice is announced with the status it is announced for.              *)
LEMMA AnnounceIsTrue ==
    ASSUME NEW esim, NEW evidence, Announce(esim, evidence)
    PROVE  \A n \in inbox' \ inbox : n.esim = esim
BY DEF Announce, feed

(* While the profile has not ended, the invariant says that nothing says   *)
(* it did; so a step of the provider that is announced truly keeps it.     *)
LEMMA ProviderKeeps ==
    ASSUME IInv, UNCHANGED <<row, work>>,
           prov' \in [esim : EsimStatuses, smdp : SmdpStatuses,
                      downloaded : BOOLEAN, used : BOOLEAN],
           prov.esim \notin Ended \/ prov'.esim = prov.esim,
           NEW esim \in EsimStatuses \cup {None}, esim \in {prov'.esim, None},
           NEW evidence \in BOOLEAN, Announce(esim, evidence),
           pending' \in Actions \cup {None},
           pending' = "cancel" => prov'.esim = "CANCEL",
           pending' = "revoke" => prov'.esim = "REVOKED"
    PROVE  IInv'
<1>1. /\ profile' = profile /\ item' = item /\ seen' = seen
      /\ answer' = answer /\ change' = change
  BY DEF row, work
<1>2. /\ prov.esim \in EsimStatuses /\ None \notin Ended
      /\ prov.esim \in Ended <=> Normalize(prov.esim) \in Terminal
  BY SentinelAssumption DEF IInv, TypeOK, Ended, IsTerminal
<1>3. TypeOK'
  BY <1>1, AnnounceTypeOK DEF IInv, TypeOK
<1>4. \A n \in inbox' : n \in inbox \/ TrueEsim(n.esim)'
  BY <1>2, AnnounceIsTrue DEF TrueEsim
<1>5. \A e : TrueEsim(e) => TrueEsim(e)'
  BY DEF TrueEsim
<1>6. \A s : TrueStatus(s) => TrueStatus(s)'
  BY <1>2 DEF TrueStatus
<1>7. ActiveInv' /\ StampInv'
  BY <1>1
     DEF IInv, ActiveInv, ActiveMeansInstalled, StampInv, TerminalIsStamped
<1>8. TrueInv'
  <2>1. TerminalIsTrue'
    BY <1>1, <1>6 DEF IInv, TrueInv, TerminalIsTrue, TrueStatus
  <2> QED BY <1>1, <1>4, <1>5, <1>6, <2>1 DEF IInv, TrueInv
<1>9. ItemInv'
  BY <1>1, <1>2 DEF IInv, ItemInv, EndedItemIsTrue
<1> QED BY <1>3, <1>7, <1>8, <1>9 DEF IInv

LEMMA ProviderSteps ==
    ASSUME IInv, Provider \/ (\E a \in Actions : ManagedCall(a))
    PROVE  IInv'
<1>1. /\ prov \in [esim : EsimStatuses, smdp : SmdpStatuses,
                   downloaded : BOOLEAN, used : BOOLEAN]
      /\ pending \in Actions \cup {None}
  BY DEF IInv, TypeOK
<1>2. {"GOT_RESOURCE", "IN_USE", "DISABLED"} \cap Ended = {}
      /\ {"CANCEL", "REVOKED"} \subseteq Ended
  BY DEF Ended, EsimStatuses, IsTerminal, Normalize, Terminal, Stamped
<1>3. prov.esim \notin Ended => pending \notin {"cancel", "revoke"}
  BY <1>2 DEF IInv, TrueInv
<1>4. ASSUME NEW s \in EsimStatuses, ProviderMoves(s),
             prov.esim \notin Ended, UNCHANGED <<row, work>>,
             pending' \in Actions \cup {None},
             pending' = "cancel" => s = "CANCEL",
             pending' = "revoke" => s = "REVOKED"
      PROVE  IInv'
  <2>1. /\ prov' = [prov EXCEPT !.esim = s, !.used = @ \/ s = "IN_USE"]
        /\ Announce(s, FALSE)
    BY <1>4 DEF ProviderMoves
  <2>2. /\ prov' \in [esim : EsimStatuses, smdp : SmdpStatuses,
                      downloaded : BOOLEAN, used : BOOLEAN]
        /\ prov'.esim = s
    BY <1>1, <2>1
  <2> QED BY <1>4, <2>1, <2>2, ProviderKeeps
<1>5. CASE Download
  <2>1. PICK esim \in {prov.esim, None}, evidence \in BOOLEAN :
           Announce(esim, evidence)
    BY <1>5 DEF Download
  <2>2. /\ prov' \in [esim : EsimStatuses, smdp : SmdpStatuses,
                      downloaded : BOOLEAN, used : BOOLEAN]
        /\ prov'.esim = prov.esim
    BY <1>1, <1>5, DownloadAssumption DEF Download
  <2> QED BY <1>1, <1>5, <2>1, <2>2, ProviderKeeps DEF Download, IInv, TrueInv
<1>6. CASE Connect
  BY <1>1, <1>2, <1>3, <1>4, <1>6 DEF Connect, EsimStatuses
<1>7. CASE ProviderEnds
  BY <1>1, <1>3, <1>4, <1>7 DEF ProviderEnds, Ended
<1>8. ASSUME NEW a \in Actions, ManagedCall(a) PROVE IInv'
  BY <1>2, <1>4, <1>8 DEF ManagedCall, EsimStatuses
<1> QED BY <1>5, <1>6, <1>7, <1>8 DEF Provider

-----------------------------------------------------------------------------
(* The invariant holds in every state, although the handlers overlap.      *)
THEOREM Inductive == Spec => []IInv
<1>1. Init => IInv
  <2> SUFFICES ASSUME Init PROVE IInv
    OBVIOUS
  <2>1. /\ TypeOK
        /\ profile.app = "BOOKED" /\ profile.esim = None /\ item = "BOOKED"
        /\ inbox = {OrderNotice} /\ pending = None
        /\ \A h \in Workers : seen[h] = None /\ answer[h] = None /\ change[h] = None
    BY CountAssumption
       DEF Init, TypeOK, EsimStatuses, SmdpStatuses, Notices, OrderNotice,
           Profiles, AppStatuses, Terminal, Stamped, Actions
  <2>2. /\ Normalize(None) = None /\ None \notin Stamped
        /\ None \notin {"cancel", "revoke"} /\ None \notin Ended
        /\ "BOOKED" \notin Terminal \cup {"ACTIVE"} /\ Stamped \subseteq Terminal
    BY NormalForm, SentinelAssumption DEF Ended, AppStatuses, Terminal, Stamped
  <2> QED
    BY <2>1, <2>2
       DEF IInv, ActiveInv, ActiveMeansInstalled, StampInv, TerminalIsStamped,
           TrueInv, TerminalIsTrue, TrueEsim, ItemInv, EndedItemIsTrue, OrderNotice
<1>2. IInv /\ [Next]_vars => IInv'
  <2> SUFFICES ASSUME IInv, [Next]_vars PROVE IInv'
    OBVIOUS
  (* What does not touch rows, changes or the provider, and only lets true *)
  (* answers and older rows be held.                                       *)
  <2>a. ASSUME TypeOK', UNCHANGED <<prov, inbox, profile, item>>,
               pending' \in {pending, None},
               \A h \in Workers : change'[h] \in {change[h], None},
               \A h \in Workers : seen'[h] \in {seen[h], profile, None},
               \A h \in Workers : answer'[h] # None =>
                  answer'[h] = answer[h] \/ TrueEsim(answer'[h].esim)
        PROVE  IInv'
    <3>1. ActiveInv'
      BY <2>a DEF IInv, ActiveInv, ActiveMeansInstalled
    <3>2. StampInv'
      BY <2>a DEF IInv, StampInv, TerminalIsStamped
    <3>3. TrueInv'
      BY <2>a, SentinelAssumption
         DEF IInv, TrueInv, TerminalIsTrue, TrueStatus, TrueEsim
    <3>4. ItemInv'
      BY <2>a DEF IInv, ItemInv, EndedItemIsTrue
    <3> QED BY <2>a, <3>1, <3>2, <3>3, <3>4 DEF IInv
  <2>1. CASE Provider \/ (\E a \in Actions : ManagedCall(a))
    BY <2>1, ProviderSteps
  <2>2. ASSUME NEW h \in Workers, ProviderAnswers(h) PROVE IInv'
    <3>1. PICK a \in ProviderSays : answer' = [answer EXCEPT ![h] = a]
      BY <2>2 DEF ProviderAnswers
    <3>2. a \in Answers /\ TrueEsim(a.esim)
      BY <3>1, ProviderSaysRule DEF IInv, TrueEsim
    <3>3. TypeOK'
      BY <2>2, <3>1, <3>2 DEF ProviderAnswers, IInv, TypeOK, feed, row
    <3>4. \A g \in Workers : answer'[g] = answer[g] \/ TrueEsim(answer'[g].esim)
      BY <3>1, <3>2 DEF IInv, TypeOK
    <3> QED BY <2>2, <2>a, <3>3, <3>4 DEF ProviderAnswers, feed, row
  <2>3. ASSUME NEW h \in Workers, ResyncReads(h) PROVE IInv'
    <3>1. TypeOK'
      BY <2>3 DEF ResyncReads, IInv, TypeOK, feed, row
    <3>2. \A g \in Workers : seen'[g] \in {seen[g], profile}
      BY <2>3 DEF ResyncReads, IInv, TypeOK
    <3> QED BY <2>3, <2>a, <3>1, <3>2 DEF ResyncReads, feed, row
  <2>4. ASSUME NEW h \in Workers, Handles(h) PROVE IInv'
    BY <2>4, HandlerKeeps
  <2>5. ASSUME NEW h \in Workers, Commit(h) PROVE IInv'
    BY <2>5, CommitKeeps
  <2>6. CASE Restart
    <3>1. TypeOK'
      BY <2>6 DEF Restart, IInv, TypeOK, feed, row
    <3> QED BY <2>6, <2>a, <3>1 DEF Restart, feed, row
  <2>7. CASE UNCHANGED vars
    <3>1. TypeOK'
      BY <2>7 DEF vars, feed, row, work, IInv, TypeOK
    <3> QED BY <2>7, <2>a, <3>1 DEF vars, feed, row, work
  <2>8. Requests \subseteq Workers /\ Refreshes \subseteq Workers
    BY DEF Workers
  <2> QED
    BY <2>1, <2>2, <2>3, <2>4, <2>5, <2>6, <2>7, <2>8
       DEF Next, CronQueries, UserQueries, Handles
<1> QED BY <1>1, <1>2, PTL DEF Spec

(* Every variable keeps its type: in particular each handler stores a      *)
(* canonical status, whatever the provider reports.                        *)
THEOREM TypeCorrect == Spec => []TypeOK
<1>1. IInv => TypeOK
  BY DEF IInv
<1> QED BY <1>1, Inductive, PTL

(* A profile is ACTIVE only when its installation is known and its         *)
(* activation was started, although the commits of overlapping handlers    *)
(* mix: a status is written with what it needs, or over it.                *)
THEOREM ActiveInstalled == Spec => []ActiveMeansInstalled
<1>1. IInv => ActiveMeansInstalled
  BY DEF IInv, ActiveInv
<1> QED BY <1>1, Inductive, PTL

(* A cancelled, revoked or refunded profile has its timestamp, although    *)
(* usage syncs and installations resolve to a terminal status and stamp    *)
(* nothing: what they find stored was stamped when it was stored.          *)
THEOREM TerminalsAreStamped == Spec => []TerminalIsStamped
<1>1. IInv => TerminalIsStamped
  BY DEF IInv, StampInv
<1> QED BY <1>1, Inductive, PTL

(* "esimStatus alone makes a profile terminal": a profile that is          *)
(* cancelled, revoked or expired is that at the provider, whatever SM-DP+  *)
(* reports, in whatever order answers, notices and actions are applied.    *)
THEOREM TerminalsAreTrue == Spec => []TerminalIsTrue
<1>1. IInv => TerminalIsTrue
  BY DEF IInv, TrueInv
<1> QED BY <1>1, Inductive, PTL

(* An order item names no end that did not happen, although a handler that *)
(* overlaps another may write it alone.                                    *)
THEOREM EndedItemsAreTrue == Spec => []EndedItemIsTrue
<1>1. IInv => EndedItemIsTrue
  BY DEF IInv, ItemInv
<1> QED BY <1>1, Inductive, PTL

-----------------------------------------------------------------------------
(* ProfileRows: the rows.                                                  *)

Cards == [order : Orders, esim : ESims \cup {Missing}, owner : BOOLEAN]

(* The eSIMs of a finite set, one after the other.                         *)
LEMMA ListRule ==
    ASSUME NEW S, IsFiniteSet(S)
    PROVE  /\ Seqs!SetToSeq(S) \in Seq(S)
           /\ \A x \in S : \E i \in 1 .. Len(Seqs!SetToSeq(S)) : Seqs!SetToSeq(S)[i] = x
<1> DEFINE n == Cardinality(S)
           s == Seqs!SetToSeq(S)
<1>1. n \in Nat /\ ExistsBijection(1 .. n, S)
  BY FS_CardinalityType
<1>2. PICK f \in Injection(1 .. n, S) : TRUE
  BY <1>1 DEF ExistsBijection, Bijection
<1>3. f \in [1 .. n -> S] /\ Seqs!IsInjective(f)
  BY <1>2 DEF Injection, IsInjective, Seqs!IsInjective
<1>4. s \in [1 .. n -> S] /\ Seqs!IsInjective(s)
  BY <1>3 DEF Seqs!SetToSeq, Seqs!Cardinality, Cardinality, Seqs!IsFiniteSet, IsFiniteSet
<1> HIDE DEF n, s
<1>5. s \in Injection(1 .. n, S)
  BY <1>4 DEF Injection, IsInjective, Seqs!IsInjective
<1>6. IsFiniteSet(1 .. n) /\ Cardinality(1 .. n) = n
  BY <1>1, FS_Interval
<1>7. s \in Surjection(1 .. n, S)
  BY <1>1, <1>5, <1>6, FS_Injection DEF n
<1>8. s \in Seq(S) /\ Len(s) = n
  BY <1>1, <1>4
<1> QED BY <1>7, <1>8 DEF Surjection, s

(* An order's eSIMs are finitely many, and no other order's.               *)
LEMMA ESimsRule ==
    /\ \A o \in Orders : IsFiniteSet(ESimsOf[o]) /\ ESimsOf[o] # {}
    /\ \A o \in Orders : ESimsOf[o] \subseteq ESims
    /\ \A o, p \in Orders : \A e \in ESimsOf[o] : e \in ESimsOf[p] => o = p
    /\ \A e \in ESims : OrderOf(e) \in Orders /\ e \in ESimsOf[OrderOf(e)]
    /\ Missing \notin ESims
<1>1. ASSUME NEW e \in ESims
      PROVE  OrderOf(e) \in Orders /\ e \in ESimsOf[OrderOf(e)]
  <2>1. \E o \in Orders : e \in ESimsOf[o]
    BY DEF ESims
  <2> QED BY <2>1 DEF OrderOf
<1>2. \A o \in Orders : ESimsOf[o] \subseteq ESims
  BY DEF ESims
<1> QED BY <1>1, <1>2, OrdersAssumption

(* The rows S that may follow the present ones when a sync commits: those  *)
(* there are, one of them perhaps filled, and a row for each new eSIM.     *)
Follows(t, S) ==
    /\ S \in Seq(Cards)
    /\ Len(S) \in Nat /\ Len(cards) <= Len(S)
    /\ \A i \in Ids :
          /\ S[i].order = cards[i].order
          /\ cards[i].owner => S[i].owner
          /\ IF \E f \in t.fill : f[1] = i
             THEN t.fill = {<<i, S[i].esim>>}
             ELSE S[i].esim = cards[i].esim
    /\ \A i \in DOMAIN S \ Ids :
          /\ S[i].order = t.order /\ S[i].owner = t.owned
          /\ S[i].esim \in t.new
    /\ \A e \in t.new : \E i \in DOMAIN S \ Ids : S[i].esim = e

(* Such are the rows that the commit stores.                               *)
LEMMA StoredRule ==
    ASSUME cards \in Seq(Cards), NEW t, t.order \in Orders, t.owned \in BOOLEAN,
           t.new \subseteq ESimsOf[t.order],
           t.fill # {} => \E i \in Ids, e \in ESims : t.fill = {<<i, e>>}
    PROVE  Follows(t, Stored(t))
<1> DEFINE N == {[order |-> t.order, esim |-> e, owner |-> t.owned] : e \in t.new}
           s == Seqs!SetToSeq(N)
           c == Filled(t)
           R(e) == [order |-> t.order, esim |-> e, owner |-> t.owned]
<1>1. IsFiniteSet(N)
  <2>1. IsFiniteSet(t.new)
    BY ESimsRule, FS_Subset
  <2> DEFINE g == [e \in t.new |-> R(e)]
  <2>2. g \in [t.new -> N] /\ \A x \in N : \E e \in t.new : g[e] = x
    OBVIOUS
  <2> HIDE DEF N, g
  <2>3. g \in Surjection(t.new, N)
    BY <2>2 DEF Surjection
  <2> QED BY <2>1, <2>3, FS_Surjection
<1>2. s \in Seq(N) /\ \A x \in N : \E i \in 1 .. Len(s) : s[i] = x
  BY <1>1, ListRule
<1>3. /\ N \subseteq Cards
      /\ \A x \in N : x.order = t.order /\ x.owner = t.owned /\ x.esim \in t.new
      /\ \A e \in t.new : \E x \in N : x.esim = e
  <2>1. ASSUME NEW e \in t.new
        PROVE  /\ R(e) \in Cards /\ R(e) \in N
               /\ R(e).order = t.order /\ R(e).owner = t.owned /\ R(e).esim = e
    <3>1. e \in ESims
      BY ESimsRule
    <3> QED BY <3>1 DEF Cards
  <2>2. \A x \in N : \E e \in t.new : x = R(e)
    OBVIOUS
  <2> HIDE DEF N, R
  <2> QED BY <2>1, <2>2
<1>4. Ids = 1 .. Len(cards) /\ Len(cards) \in Nat
  BY DEF Ids
<1> DEFINE E(i) == IF \E f \in t.fill : f[1] = i
                   THEN (CHOOSE f \in t.fill : f[1] = i)[2]
                   ELSE cards[i].esim
           W(i) == \/ cards[i].owner
                   \/ t.owned /\ (i \in t.own \/ \E f \in t.fill : f[1] = i)
<1>5. c = [i \in Ids |-> [order |-> cards[i].order, esim |-> E(i), owner |-> W(i)]]
  BY DEF Filled
<1> \A i : W(i) \in BOOLEAN /\ (cards[i].owner => W(i))
  BY Zenon
<1> HIDE DEF W
<1>6. ASSUME NEW i \in Ids
      PROVE  /\ c[i] \in Cards
             /\ c[i].order = cards[i].order
             /\ cards[i].owner => c[i].owner
             /\ IF \E f \in t.fill : f[1] = i
                THEN t.fill = {<<i, c[i].esim>>}
                ELSE c[i].esim = cards[i].esim
  <2>1. cards[i] \in Cards
    BY <1>4
  <2>4. /\ c[i] = [order |-> cards[i].order, esim |-> E(i), owner |-> W(i)]
        /\ c[i].order = cards[i].order /\ c[i].esim = E(i) /\ c[i].owner = W(i)
        /\ W(i) \in BOOLEAN /\ (cards[i].owner => W(i))
    BY <1>5
  <2>2. CASE \E f \in t.fill : f[1] = i
    <3>1. PICK k \in Ids, e \in ESims : t.fill = {<<k, e>>}
      BY <2>2
    <3>2. k = i /\ \A f \in t.fill : f[2] = e
      BY <2>2, <3>1
    <3>3. (CHOOSE f \in t.fill : f[1] = i) \in t.fill
      BY <2>2
    <3>4. E(i) = e
      BY <2>2, <3>2, <3>3
    <3> QED BY <2>1, <2>2, <2>4, <3>1, <3>2, <3>4 DEF Cards
  <2>3. CASE ~ \E f \in t.fill : f[1] = i
    <3>1. E(i) = cards[i].esim
      BY <2>3
    <3> QED BY <2>1, <2>3, <2>4, <3>1 DEF Cards
  <2> QED BY <2>2, <2>3
<1> HIDE DEF N, s, c, E
<1>7. c \in Seq(Cards) /\ Len(c) = Len(cards)
  <2>1. c \in [1 .. Len(cards) -> Cards]
    BY <1>4, <1>5, <1>6
  <2> QED BY <1>4, <2>1
<1>8. Stored(t) = c \o s
  BY DEF Stored, c, s, N
<1> HIDE DEF R
<1>9. s \in Seq(Cards) /\ Len(s) \in Nat
  BY <1>2, <1>3
<1>10. /\ Stored(t) \in Seq(Cards)
       /\ Len(Stored(t)) = Len(cards) + Len(s)
       /\ \A i \in 1 .. Len(cards) + Len(s) :
             Stored(t)[i] = IF i <= Len(cards) THEN c[i] ELSE s[i - Len(cards)]
  <2>1. Len(c) = Len(cards) /\ Len(c) \in Nat /\ c \in Seq(Cards)
    BY <1>4, <1>7
  <2>2. /\ c \o s \in Seq(Cards) /\ Len(c \o s) = Len(c) + Len(s)
        /\ \A i \in 1 .. Len(c) + Len(s) :
              (c \o s)[i] = IF i <= Len(c) THEN c[i] ELSE s[i - Len(c)]
    BY <1>9, <2>1, ConcatProperties
  <2> QED BY <1>8, <2>1, <2>2
<1>11. DOMAIN Stored(t) = 1 .. Len(cards) + Len(s)
  BY <1>10
<1>12. ASSUME NEW i \in Ids
       PROVE  Stored(t)[i] = c[i]
  BY <1>4, <1>9, <1>10
<1>13. ASSUME NEW i \in DOMAIN Stored(t) \ Ids
       PROVE  Stored(t)[i] \in N
  <2>1. i - Len(cards) \in 1 .. Len(s) /\ Stored(t)[i] = s[i - Len(cards)]
    BY <1>4, <1>9, <1>10, <1>11
  <2> QED BY <1>2, <2>1
<1>14. ASSUME NEW e \in t.new
       PROVE  \E i \in DOMAIN Stored(t) \ Ids : Stored(t)[i].esim = e
  <2>1. PICK x \in N : x.esim = e
    BY <1>3
  <2>2. PICK j \in 1 .. Len(s) : s[j] = x
    BY <1>2
  <2>3. j + Len(cards) \in DOMAIN Stored(t) \ Ids
    BY <1>4, <1>9, <1>11
  <2>4. Stored(t)[j + Len(cards)] = s[j]
    BY <1>4, <1>9, <1>10, SMTT(20)
  <2> QED BY <2>1, <2>2, <2>3, <2>4
<1>15. Len(Stored(t)) \in Nat /\ Len(cards) <= Len(Stored(t))
  BY <1>4, <1>9, <1>10
<1>16. ASSUME NEW i \in Ids
       PROVE  /\ Stored(t)[i].order = cards[i].order
              /\ cards[i].owner => Stored(t)[i].owner
              /\ IF \E f \in t.fill : f[1] = i
                 THEN t.fill = {<<i, Stored(t)[i].esim>>}
                 ELSE Stored(t)[i].esim = cards[i].esim
  BY <1>6, <1>12
<1>17. \A i \in DOMAIN Stored(t) \ Ids :
          /\ Stored(t)[i].order = t.order /\ Stored(t)[i].owner = t.owned
          /\ Stored(t)[i].esim \in t.new
  BY <1>3, <1>13
<1> QED BY <1>10, <1>14, <1>15, <1>16, <1>17 DEF Follows

-----------------------------------------------------------------------------
(* ProfileRows: the inductive invariant.                                   *)

RowsTyped ==
    /\ placed \subseteq Orders /\ aged \subseteq Orders /\ strays \subseteq Orders
    /\ allocated \subseteq ESims
    /\ saved \in [Orders -> {"absent", "stray", "saved"}]
    /\ cards \in Seq(Cards)
    /\ task \in [Handlers -> Tasks]
    /\ failures \in 0 .. MaxFailures

(* A row is of the order its eSIM is of, an eSIM has one row, and an order *)
(* has rows once it is stored.  A placeholder is the only row of its order.*)
CardsInv ==
    /\ \A i \in Ids : cards[i].esim \in ESimsOf[cards[i].order] \cup {Missing}
    /\ \A i, j \in Ids : cards[i].esim = cards[j].esim /\ cards[i].esim # Missing => i = j
    /\ \A o \in Orders : saved[o] = "absent" <=> \A i \in Ids : cards[i].order # o
    /\ \A i, j \in Ids : cards[i].order = cards[j].order /\ cards[i].esim = Missing => i = j
    /\ \A o \in Orders : saved[o] = "stray" => o \in strays

(* What a handler has read, as far as it stays true until it commits: a    *)
(* save knows rows of its order, and a sync that found the order stored,   *)
(* and gives rows to eSIMs, fills the placeholder that may still be there. *)
SoundSync(t) ==
    LET o == t.order IN
    /\ t.new \subseteq t.esims
    /\ IF t.found THEN saved[o] # "absent" /\ (t.owned \/ o \in strays)
                  ELSE t.fill = {} /\ t.new = t.esims
    /\ t.fill # {} => \E i \in RowsOf(o), e \in t.esims :
                          t.fill = {<<i, e>>} /\ t.esims = {e} \cup t.new
    /\ t.found /\ (t.fill # {} \/ t.new # {}) =>
          \A i \in Placeholders(o) : \E f \in t.fill : f[1] = i

SoundTask(h) ==
    LET t == task[h]
        o == t.order IN
    /\ t.stage = "save" =>
          IF t.found THEN saved[o] # "absent" /\ t.row # {} /\ t.row \subseteq RowsOf(o)
                     ELSE t.row = {}
    /\ t.stage \in {"answered", "sync"} => t.esims # {} /\ t.esims \subseteq ESimsOf[o]
    /\ t.stage = "sync" => SoundSync(t)

TasksInv == \A h \in Handlers : SoundTask(h)

RowsInvs == RowsTyped /\ CardsInv /\ CardsBelongToCustomer /\ TasksInv

(* What a handler holds, by its stage.                                     *)
LEMMA TaskRule ==
    ASSUME NEW t \in Tasks
    PROVE  /\ t.stage \in {"free", "save", "answered", "sync"}
           /\ t.stage # "free" => t.order \in Orders /\ t # Free
           /\ t.stage = "save" => t.found \in BOOLEAN /\ t.row \subseteq Nat
           /\ t.stage \in {"answered", "sync"} => t.esims \subseteq ESims
           /\ t.stage = "sync" => t.found \in BOOLEAN /\ t.owned \in BOOLEAN
BY DEF Tasks, Free

LEMMA FreeRule == Free \in Tasks /\ Free.stage = "free"
BY DEF Tasks, Free

(* Rows are numbered.                                                      *)
LEMMA IdsRule ==
    ASSUME RowsTyped
    PROVE  /\ Len(cards) \in Nat /\ Ids = 1 .. Len(cards) /\ Ids \subseteq Nat
           /\ \A i \in Ids : cards[i] \in Cards /\ cards[i].order \in Orders
                             /\ cards[i].esim \in ESims \cup {Missing}
                             /\ cards[i].owner \in BOOLEAN
           /\ IsFiniteSet(Ids)
<1>1. Len(cards) \in Nat /\ Ids = 1 .. Len(cards) /\ \A i \in Ids : cards[i] \in Cards
  BY DEF RowsTyped, Ids
<1>2. IsFiniteSet(Ids)
  BY <1>1, FS_Interval
<1> QED BY <1>1, <1>2 DEF Cards

(* Two eSIMs are more than one.                                            *)
LEMMA TwoESims ==
    ASSUME NEW o \in Orders, NEW a \in ESimsOf[o], NEW b \in ESimsOf[o], a # b
    PROVE  Cardinality(ESimsOf[o]) > 1
<1>1. IsFiniteSet(ESimsOf[o]) /\ Cardinality(ESimsOf[o]) \in Nat
  BY ESimsRule, FS_CardinalityType
<1>2. Cardinality(ESimsOf[o]) # 0 /\ Cardinality(ESimsOf[o]) # 1
  BY <1>1, FS_EmptySet, FS_Singleton
<1> QED BY <1>1, <1>2

(* Stored orders and rows stay, and no placeholder comes to a stored order.*)
DatabaseGrows ==
    /\ strays \subseteq strays'
    /\ Ids \subseteq Ids'
    /\ \A o \in Orders : saved[o] # "absent" => saved'[o] # "absent"
    /\ \A i \in Ids : cards'[i].order = cards[i].order
    /\ \A i \in Ids' : cards'[i].esim = Missing /\ saved[cards'[i].order] # "absent" =>
                          i \in Ids /\ cards[i].esim = Missing

(* So what a handler has read stays as true as it has to be.               *)
LEMMA TaskStable ==
    ASSUME RowsTyped, NEW h \in Handlers, SoundTask(h), DatabaseGrows, task'[h] = task[h]
    PROVE  SoundTask(h)'
<1> DEFINE t == task[h]
           o == t.order
<1>1. t \in Tasks
  BY DEF RowsTyped
<1>2. t.stage # "free" => o \in Orders
  BY <1>1, TaskRule
<1>3. t.stage # "free" => RowsOf(o) \subseteq RowsOf(o)'
  BY <1>2 DEF DatabaseGrows, RowsOf
<1>4. t.stage # "free" /\ saved[o] # "absent" =>
         saved'[o] # "absent" /\ Placeholders(o)' \subseteq Placeholders(o)
  BY <1>2 DEF DatabaseGrows, RowsOf, Placeholders
<1>5. o \in strays => o \in strays'
  BY DEF DatabaseGrows
<1> HIDE DEF t, o
<1>6. /\ t.stage = "save" =>
            IF t.found THEN saved[o] # "absent" /\ t.row # {} /\ t.row \subseteq RowsOf(o)
                       ELSE t.row = {}
      /\ t.stage \in {"answered", "sync"} => t.esims # {} /\ t.esims \subseteq ESimsOf[o]
      /\ t.stage = "sync" =>
            /\ t.new \subseteq t.esims
            /\ IF t.found THEN saved[o] # "absent" /\ (t.owned \/ o \in strays)
                          ELSE t.fill = {} /\ t.new = t.esims
            /\ t.fill # {} => \E i \in RowsOf(o), e \in t.esims :
                                  t.fill = {<<i, e>>} /\ t.esims = {e} \cup t.new
            /\ t.found /\ (t.fill # {} \/ t.new # {}) =>
                  \A i \in Placeholders(o) : \E f \in t.fill : f[1] = i
  BY DEF SoundTask, SoundSync, t, o
<1>7. task'[h] = t /\ t.order = o /\ o' = o
  BY DEF t, o
<1>8. t.stage = "save" =>
          IF t.found THEN saved'[o] # "absent" /\ t.row # {} /\ t.row \subseteq RowsOf(o)'
                     ELSE t.row = {}
  BY <1>1, <1>3, <1>4, <1>6, TaskRule
<1>9. ASSUME t.stage = "sync"
      PROVE  /\ IF t.found THEN saved'[o] # "absent" /\ (t.owned \/ o \in strays')
                           ELSE t.fill = {} /\ t.new = t.esims
             /\ t.fill # {} => \E i \in RowsOf(o)', e \in t.esims :
                                   t.fill = {<<i, e>>} /\ t.esims = {e} \cup t.new
             /\ t.found /\ (t.fill # {} \/ t.new # {}) =>
                   \A i \in Placeholders(o)' : \E f \in t.fill : f[1] = i
  <2>1. t.found \in BOOLEAN /\ t.owned \in BOOLEAN
    BY <1>1, <1>9, TaskRule
  <2>2. t.found => saved[o] # "absent" /\ saved'[o] # "absent"
                   /\ Placeholders(o)' \subseteq Placeholders(o)
    BY <1>4, <1>6, <1>9
  <2>3. IF t.found THEN saved'[o] # "absent" /\ (t.owned \/ o \in strays')
                   ELSE t.fill = {} /\ t.new = t.esims
    BY <1>5, <1>6, <1>9, <2>1, <2>2
  <2>4. t.fill # {} => \E i \in RowsOf(o)', e \in t.esims :
                           t.fill = {<<i, e>>} /\ t.esims = {e} \cup t.new
    BY <1>3, <1>6, <1>9
  <2>5. t.found /\ (t.fill # {} \/ t.new # {}) =>
            \A i \in Placeholders(o)' : \E f \in t.fill : f[1] = i
    BY <1>6, <1>9, <2>2
  <2> QED BY <2>3, <2>4, <2>5
<1> QED BY <1>6, <1>7, <1>8, <1>9 DEF SoundTask, SoundSync

(* A step that keeps the rows in order, and of which each handler that     *)
(* takes part knows what it should.                                        *)
LEMMA StepRule ==
    ASSUME RowsInvs, DatabaseGrows, RowsTyped', CardsInv', CardsBelongToCustomer',
           \A h \in Handlers : task'[h] = task[h] \/ SoundTask(h)'
    PROVE  RowsInvs'
<1>1. ASSUME NEW h \in Handlers
      PROVE  SoundTask(h)'
  BY TaskStable DEF RowsInvs, TasksInv
<1> QED BY <1>1 DEF RowsInvs, TasksInv

(* A step that leaves the tables alone.                                    *)
LEMMA TablesKept ==
    ASSUME RowsInvs, UNCHANGED database
    PROVE  DatabaseGrows /\ CardsInv' /\ CardsBelongToCustomer'
<1>1. Ids' = Ids /\ cards' = cards /\ saved' = saved /\ strays' = strays
  BY DEF database, Ids
<1>2. CardsBelongToCustomer'
  BY <1>1 DEF RowsInvs, CardsBelongToCustomer
<1>3. CardsInv'
  BY <1>1 DEF RowsInvs, CardsInv
<1> QED BY <1>1, <1>2, <1>3 DEF DatabaseGrows

(* A handler that begins, or goes on, without a commit.                    *)
LEMMA BeginRule ==
    ASSUME RowsInvs, NEW h \in Handlers, task' = [task EXCEPT ![h] = task'[h]],
           task'[h] \in Tasks, SoundTask(h)',
           UNCHANGED database, UNCHANGED <<provider, aged>>, UNCHANGED failures
    PROVE  RowsInvs'
<1>1. RowsTyped'
  BY DEF RowsInvs, RowsTyped, database, provider
<1>2. \A g \in Handlers : g # h => task'[g] = task[g]
  BY DEF RowsInvs, RowsTyped
<1> QED BY <1>1, <1>2, TablesKept, StepRule

LEMMA DoneSound ==
    ASSUME RowsTyped, NEW h \in Handlers, Done(h)
    PROVE  SoundTask(h)' /\ task'[h] = Free /\ task' \in [Handlers -> Tasks]
           /\ \A g \in Handlers : g # h => task'[g] = task[g]
<1>1. task'[h] = Free /\ task' \in [Handlers -> Tasks]
      /\ \A g \in Handlers : g # h => task'[g] = task[g]
  BY FreeRule DEF RowsTyped, Done, Begin
<1> QED BY <1>1, FreeRule DEF SoundTask

(* Every query is for eSIMs of one order.                                  *)
LEMMA QueryRule ==
    ASSUME RowsInvs, NEW h \in Handlers,
           \/ Asks(h)
           \/ \E o \in Orders : CronRecovers(h, o)
           \/ \E i \in Ids : CronRefreshes(h, i)
    PROVE  \E o \in Orders : \E E \in SUBSET ESimsOf[o] : Answered(h, o, E)
<1>1. \A o \in Orders : AskOrder(h, o) =>
         \E E \in SUBSET ESimsOf[o] : Answered(h, o, E)
  BY DEF AskOrder
<1>2. \A e \in ESims : AskESim(h, e) =>
         OrderOf(e) \in Orders /\ \E E \in SUBSET ESimsOf[OrderOf(e)] : Answered(h, OrderOf(e), E)
  BY ESimsRule DEF AskESim
<1>3. placed \subseteq Orders /\ allocated \subseteq ESims
  BY DEF RowsInvs, RowsTyped
<1>4. \A i \in Ids : cards[i].order \in Orders /\ cards[i].esim \in ESims \cup {Missing}
  BY IdsRule DEF RowsInvs
<1>5. (\E o \in Orders : AskOrder(h, o)) \/ (\E e \in ESims : AskESim(h, e))
  BY <1>3, <1>4
     DEF Asks, OrderAsks, UserRecovers, AdminResyncs, AdminAsks, CronRecovers, CronRefreshes
<1> QED BY <1>1, <1>2, <1>5

LEMMA AnsweredStep ==
    ASSUME RowsInvs, NEW h \in Handlers, NEW o \in Orders, NEW E \in SUBSET ESimsOf[o],
           Answered(h, o, E)
    PROVE  RowsInvs'
<1> DEFINE t == [stage |-> "answered", order |-> o, esims |-> E \cap allocated]
<1>1. t \in Tasks /\ t.stage = "answered" /\ t.order = o /\ t.esims = E \cap allocated
  BY ESimsRule DEF Tasks
<1>2. Begin(h, t) /\ UNCHANGED database /\ UNCHANGED <<provider, aged>> /\ failures' = failures
      /\ t.esims # {} /\ t.esims \subseteq ESimsOf[o]
  BY DEF Answered
<1> HIDE DEF t
<1>3. task'[h] = t
  BY <1>2 DEF Begin, RowsInvs, RowsTyped
<1>4. SoundTask(h)'
  BY <1>1, <1>2, <1>3 DEF SoundTask
<1> QED BY <1>1, <1>2, <1>3, <1>4, BeginRule DEF Begin

(* A save that found the order stored takes one of its rows.               *)
LEMMA SaveReadsStep ==
    ASSUME RowsInvs, NEW h \in Handlers, NEW o \in Orders, SaveReads(h, o)
    PROVE  RowsInvs'
<1>1. PICK r \in SUBSET RowsOf(o) :
         /\ IF RowsOf(o) = {} THEN r = {} ELSE Cardinality(r) = 1
         /\ Begin(h, [stage |-> "save", order |-> o, row |-> r, found |-> saved[o] # "absent"])
  BY DEF SaveReads
<1> DEFINE t == [stage |-> "save", order |-> o, row |-> r, found |-> saved[o] # "absent"]
<1>2. /\ t.stage = "save" /\ t.order = o /\ t.row = r
      /\ t.found \in BOOLEAN /\ (t.found <=> saved[o] # "absent")
  BY Zenon
<1>3. t \in Tasks
  BY IdsRule DEF Tasks, RowsOf, RowsInvs
<1>4. UNCHANGED database /\ UNCHANGED <<provider, aged>> /\ UNCHANGED failures
  BY DEF SaveReads
<1> HIDE DEF t
<1>5. task'[h] = t /\ task' = [task EXCEPT ![h] = t]
  BY <1>1 DEF Begin, RowsInvs, RowsTyped, t
<1>6. saved[o] = "absent" <=> RowsOf(o) = {}
  BY DEF RowsInvs, CardsInv, RowsOf
<1>7. RowsOf(o) # {} => r # {}
  BY <1>1, FS_EmptySet
<1>8. saved' = saved /\ RowsOf(o)' = RowsOf(o)
  BY <1>4 DEF database, RowsOf, Ids
<1>9. SoundTask(h)'
  <2>1. IF t.found THEN saved'[o] # "absent" /\ t.row # {} /\ t.row \subseteq RowsOf(o)'
                   ELSE t.row = {}
    BY <1>1, <1>2, <1>6, <1>7, <1>8
  <2> QED BY <1>2, <1>5, <2>1 DEF SoundTask
<1> QED BY <1>3, <1>4, <1>5, <1>9, BeginRule

(* A sync that reads the placeholder of its order fills it, as no eSIM of  *)
(* the order can have a row beside it; one that finds none knows that none *)
(* will come.                                                              *)
LEMMA SyncReadsStep ==
    ASSUME RowsInvs, NEW h \in Handlers, SyncReads(h)
    PROVE  RowsInvs'
<1> DEFINE t == task[h]
           o == t.order
           strange == {e \in t.esims : RowsFor(e) = {}}
<1>1. PICK fill \in SUBSET (Placeholders(o) \X strange) :
         /\ IF Placeholders(o) = {} \/ strange = {} THEN fill = {} ELSE Cardinality(fill) = 1
         /\ Begin(h, [stage |-> "sync", order |-> o, esims |-> t.esims,
                      found |-> saved[o] # "absent", owned |-> saved[o] = "saved",
                      own |-> UNION {RowsFor(e) : e \in t.esims},
                      fill |-> fill,
                      new |-> strange \ {f[2] : f \in fill}])
  BY DEF SyncReads, Reusable
<1> DEFINE u == [stage |-> "sync", order |-> o, esims |-> t.esims,
                 found |-> saved[o] # "absent", owned |-> saved[o] = "saved",
                 own |-> UNION {RowsFor(e) : e \in t.esims},
                 fill |-> fill,
                 new |-> strange \ {f[2] : f \in fill}]
<1>2. t \in Tasks /\ t.stage = "answered"
  BY DEF SyncReads, RowsInvs, RowsTyped
<1>3. o \in Orders /\ t.esims # {} /\ t.esims \subseteq ESimsOf[o] /\ t.esims \subseteq ESims
  <2>1. SoundTask(h)
    BY DEF RowsInvs, TasksInv
  <2> QED BY <1>2, <2>1, TaskRule DEF SoundTask
<1>4. /\ u.stage = "sync" /\ u.order = o /\ u.esims = t.esims /\ u.fill = fill
      /\ u.new = strange \ {f[2] : f \in fill}
      /\ u.found \in BOOLEAN /\ (u.found <=> saved[o] # "absent")
      /\ u.owned \in BOOLEAN /\ (u.owned <=> saved[o] = "saved")
  BY Zenon
<1>5. u \in Tasks
  <2>1. Placeholders(o) \subseteq Nat /\ UNION {RowsFor(e) : e \in t.esims} \subseteq Nat
    BY IdsRule DEF RowsInvs, Placeholders, RowsOf, RowsFor
  <2>2. fill \subseteq Nat \X ESims /\ u.new \subseteq ESims
    BY <1>3, <1>4, <2>1
  <2> QED BY <1>3, <2>1, <2>2 DEF Tasks
<1>6. UNCHANGED database /\ UNCHANGED <<provider, aged>> /\ UNCHANGED failures
  BY DEF SyncReads
<1>7. task'[h] = u /\ task' = [task EXCEPT ![h] = u]
  BY <1>1 DEF Begin, RowsInvs, RowsTyped
<1> HIDE DEF u
<1>8. PICK p \in Orders : p = o
  BY <1>3
<1>9. /\ saved' = saved /\ strays' = strays
      /\ RowsOf(p)' = RowsOf(p) /\ Placeholders(p)' = Placeholders(p)
  BY <1>6 DEF database, RowsOf, Placeholders, Ids
<1>10. fill # {} => \E i \in Placeholders(p), e \in strange : fill = {<<i, e>>}
  <2>1. IsFiniteSet(Placeholders(p)) /\ IsFiniteSet(strange)
    <3>1. Placeholders(p) \subseteq Ids /\ strange \subseteq ESimsOf[o]
      BY <1>3 DEF Placeholders, RowsOf
    <3> QED BY <1>3, <3>1, IdsRule, ESimsRule, FS_Subset DEF RowsInvs
  <2>2. IsFiniteSet(fill)
    BY <1>8, <2>1, FS_Product, FS_Subset
  <2> QED BY <1>1, <1>8, <2>2, FS_Singleton
<1>11. (strange # {} /\ Placeholders(p) # {}) => fill # {}
  BY <1>1, <1>8, FS_EmptySet
<1>12. \A i \in Placeholders(p), j \in RowsOf(p) : i = j
  BY DEF RowsInvs, CardsInv, Placeholders, RowsOf
<1>13. (Placeholders(p) # {} \/ RowsOf(p) = {}) => strange = t.esims
  <2>1. ASSUME NEW e \in t.esims, NEW i \in RowsFor(e)
        PROVE  i \in RowsOf(p) /\ i \notin Placeholders(p)
    <3>1. i \in Ids /\ cards[i].esim = e /\ e \in ESimsOf[p] /\ e # Missing
      BY <1>3, <1>8, <2>1, ESimsRule DEF RowsFor
    <3>2. cards[i].order \in Orders /\ e \in ESimsOf[cards[i].order]
      BY <3>1, IdsRule DEF RowsInvs, CardsInv
    <3> QED BY <3>1, <3>2, ESimsRule DEF RowsOf, Placeholders
  <2>2. ASSUME NEW e \in t.esims, RowsFor(e) # {}
        PROVE  ~ (Placeholders(p) # {} \/ RowsOf(p) = {})
    BY <1>12, <2>1, <2>2
  <2> QED BY <2>2
<1>14. saved[p] = "absent" <=> RowsOf(p) = {}
  BY DEF RowsInvs, CardsInv, RowsOf
<1>15. saved[p] \in {"absent", "stray", "saved"} /\ (saved[p] = "stray" => p \in strays)
  BY DEF RowsInvs, RowsTyped, CardsInv
<1>16. Placeholders(p) \subseteq RowsOf(p)
  BY DEF Placeholders
<1> HIDE DEF strange
<1>17. IF u.found THEN saved'[p] # "absent" /\ (u.owned \/ p \in strays')
                  ELSE u.fill = {} /\ u.new = u.esims
  BY <1>4, <1>8, <1>9, <1>10, <1>13, <1>14, <1>15, <1>16
<1>18. u.new \subseteq u.esims
  BY <1>4 DEF strange
<1>19. u.fill # {} => \E i \in RowsOf(p)', e \in u.esims :
                         u.fill = {<<i, e>>} /\ u.esims = {e} \cup u.new
  <2> SUFFICES ASSUME fill # {}
               PROVE  \E i \in RowsOf(p), e \in t.esims :
                          fill = {<<i, e>>} /\ t.esims = {e} \cup u.new
    BY <1>4, <1>9
  <2>1. PICK i \in Placeholders(p), e \in strange : fill = {<<i, e>>}
    BY <1>10
  <2>2. strange = t.esims
    BY <1>13, <2>1
  <2>3. {f[2] : f \in fill} = {e}
    BY <2>1
  <2> QED BY <1>4, <1>16, <2>1, <2>2, <2>3
<1>20. u.fill # {} \/ u.new # {} => \A i \in Placeholders(p)' : \E f \in u.fill : f[1] = i
  <2> SUFFICES ASSUME fill # {} \/ u.new # {}, NEW i \in Placeholders(p)
               PROVE  \E f \in fill : f[1] = i
    BY <1>4, <1>9
  <2>1. strange # {}
    BY <1>4, <1>10
  <2>2. PICK j \in Placeholders(p), e \in strange : fill = {<<j, e>>}
    BY <1>10, <1>11, <2>1
  <2>3. i = j
    BY <1>12, <1>16
  <2> QED BY <2>2, <2>3
<1>21. u.stage = "sync" /\ u.order = p /\ u.esims # {} /\ u.esims \subseteq ESimsOf[p]
  BY <1>3, <1>4, <1>8
<1>22. SoundTask(h)'
  BY <1>7, <1>17, <1>18, <1>19, <1>20, <1>21 DEF SoundTask, SoundSync
<1> QED BY <1>5, <1>6, <1>7, <1>22, BeginRule

(* The commit of a save: nothing, the first row of an order, or the        *)
(* customer of rows that are there.                                        *)
LEMMA SaveStoredMoves ==
    ASSUME RowsInvs, NEW h \in Handlers, SaveCommits(h)
    PROVE  /\ Done(h) /\ UNCHANGED <<provider, aged>> /\ UNCHANGED <<failures, strays>>
           /\ \/ UNCHANGED <<saved, cards>>
              \/ \E o \in Orders :
                    /\ saved' = [saved EXCEPT ![o] = "saved"]
                    /\ \/ /\ saved[o] = "absent"
                          /\ cards' = Append(cards, [order |-> o, esim |-> Missing,
                                                     owner |-> TRUE])
                       \/ /\ saved[o] # "absent"
                          /\ \E r \in SUBSET RowsOf(o) :
                                /\ r # {}
                                /\ cards' = [i \in Ids |->
                                      IF i \in r THEN [cards[i] EXCEPT !.owner = TRUE]
                                      ELSE cards[i]]
<1> DEFINE t == task[h]
           o == t.order
<1>1. t \in Tasks /\ t.stage = "save" /\ o \in Orders /\ t.found \in BOOLEAN
  <2>1. t \in Tasks /\ t.stage = "save"
    BY DEF SaveCommits, RowsInvs, RowsTyped
  <2> QED BY <2>1, TaskRule
<1>2. IF t.found THEN saved[o] # "absent" /\ t.row # {} /\ t.row \subseteq RowsOf(o)
                 ELSE t.row = {}
  <2>1. SoundTask(h)
    BY DEF RowsInvs, TasksInv
  <2> QED BY <1>1, <2>1 DEF SoundTask
<1>3. Done(h) /\ UNCHANGED <<provider, aged>> /\ UNCHANGED <<failures, strays>>
  BY DEF SaveCommits
<1>4. \/ UNCHANGED <<saved, cards>>
      \/ /\ saved' = [saved EXCEPT ![o] = "saved"] /\ cards' = WithPlaceholder(t.row, o)
         /\ t.found \/ saved[o] = "absent"
  BY DEF SaveCommits
<1>5. t.row = {} => WithPlaceholder(t.row, o) =
                       Append(cards, [order |-> o, esim |-> Missing, owner |-> TRUE])
  BY DEF WithPlaceholder
<1>6. t.row # {} => WithPlaceholder(t.row, o) =
                       [i \in Ids |-> IF i \in t.row THEN [cards[i] EXCEPT !.owner = TRUE]
                                      ELSE cards[i]]
  BY DEF WithPlaceholder
<1> HIDE DEF t, o
<1> QED BY <1>1, <1>2, <1>3, <1>4, <1>5, <1>6

(* The first row of an order is a placeholder, its customer's.             *)
LEMMA FirstRow ==
    ASSUME RowsTyped, CardsInv, CardsBelongToCustomer, NEW o \in Orders,
           saved[o] = "absent", saved' = [saved EXCEPT ![o] = "saved"], strays' = strays,
           cards' = Append(cards, [order |-> o, esim |-> Missing, owner |-> TRUE])
    PROVE  DatabaseGrows /\ CardsInv' /\ CardsBelongToCustomer' /\ cards' \in Seq(Cards)
<1> DEFINE x == [order |-> o, esim |-> Missing, owner |-> TRUE]
           m == Len(cards) + 1
<1>1. x \in Cards /\ x.order = o /\ x.esim = Missing /\ x.owner = TRUE
  BY DEF Cards
<1>2. Len(cards) \in Nat /\ Ids = 1 .. Len(cards) /\ cards \in Seq(Cards)
  BY IdsRule DEF RowsTyped
<1> HIDE DEF x
<1>3. cards' = Append(cards, x) /\ cards' \in Seq(Cards) /\ Len(cards') = m
      /\ cards'[m] = x /\ \A i \in Ids : cards'[i] = cards[i]
  BY <1>1, <1>2 DEF x
<1>4. Ids' = Ids \cup {m} /\ m \notin Ids
  BY <1>2, <1>3 DEF Ids
<1> HIDE DEF m
<1>5. \A i \in Ids : cards[i].order # o
  BY DEF CardsInv
<1>6. \A p \in Orders : saved'[p] = IF p = o THEN "saved" ELSE saved[p]
  BY DEF RowsTyped
<1>7. DatabaseGrows
  BY <1>1, <1>3, <1>4, <1>6, IdsRule DEF DatabaseGrows
<1>8. CardsInv'
  <2>a. \A i \in Ids' : /\ i \in Ids => cards'[i] = cards[i]
                        /\ i \notin Ids => i = m /\ cards'[i].order = o /\ cards'[i].esim = Missing
    BY <1>1, <1>3, <1>4
  <2>b. m \in Ids' /\ cards'[m].order = o /\ Ids \subseteq Ids'
    BY <1>1, <1>3, <1>4
  <2>1. \A i \in Ids' : cards'[i].esim \in ESimsOf[cards'[i].order] \cup {Missing}
    BY <2>a DEF CardsInv
  <2>2. ASSUME NEW i \in Ids', NEW j \in Ids',
               cards'[i].esim = cards'[j].esim, cards'[i].esim # Missing
        PROVE  i = j
    <3>1. i \in Ids /\ j \in Ids /\ cards'[i] = cards[i] /\ cards'[j] = cards[j]
      BY <2>2, <2>a
    <3>2. \A k, l \in Ids : cards[k].esim = cards[l].esim /\ cards[k].esim # Missing => k = l
      BY DEF CardsInv
    <3> QED BY <2>2, <3>1, <3>2
  <2>3. ASSUME NEW p \in Orders
        PROVE  saved'[p] = "absent" <=> \A i \in Ids' : cards'[i].order # p
    <3>1. CASE p = o
      <4>1. saved'[p] = "saved" /\ cards'[m].order = p /\ m \in Ids'
        BY <1>6, <2>b, <3>1
      <4>2. saved'[p] # "absent" /\ ~ \A i \in Ids' : cards'[i].order # p
        BY <4>1
      <4> QED BY <4>2
    <3>2. CASE p # o
      <4>1. saved'[p] = saved[p]
        BY <1>6, <3>2
      <4>2. (\A i \in Ids' : cards'[i].order # p) <=> \A i \in Ids : cards[i].order # p
        BY <2>a, <2>b, <3>2
      <4> QED BY <4>1, <4>2 DEF CardsInv
    <3> QED BY <3>1, <3>2
  <2>4. ASSUME NEW i \in Ids', NEW j \in Ids',
               cards'[i].order = cards'[j].order, cards'[i].esim = Missing
        PROVE  i = j
    <3>1. CASE i \in Ids /\ j \in Ids
      <4>1. cards'[i] = cards[i] /\ cards'[j] = cards[j]
        BY <2>a, <3>1
      <4>2. \A k, l \in Ids : cards[k].order = cards[l].order /\ cards[k].esim = Missing => k = l
        BY DEF CardsInv
      <4> QED BY <2>4, <3>1, <4>1, <4>2
    <3>2. CASE ~ (i \in Ids /\ j \in Ids)
      BY <1>5, <2>4, <2>a, <3>2
    <3> QED BY <3>1, <3>2
  <2>5. \A p \in Orders : saved'[p] = "stray" => p \in strays'
    BY <1>6 DEF CardsInv
  <2> QED BY <2>1, <2>2, <2>3, <2>4, <2>5 DEF CardsInv
<1>9. CardsBelongToCustomer'
  BY <1>1, <1>3, <1>4, <1>5, <1>6, IdsRule DEF CardsBelongToCustomer
<1> QED BY <1>3, <1>7, <1>8, <1>9

(* If an order a sync stored is handed over by one of its rows, that is    *)
(* the only one unless the order has several eSIMs.                        *)
LEMMA HandedOver ==
    ASSUME RowsTyped, CardsInv, CardsBelongToCustomer, NEW o \in Orders,
           saved[o] # "absent", saved' = [saved EXCEPT ![o] = "saved"], strays' = strays,
           NEW r \in SUBSET RowsOf(o), r # {},
           cards' = [i \in Ids |-> IF i \in r THEN [cards[i] EXCEPT !.owner = TRUE]
                                   ELSE cards[i]]
    PROVE  DatabaseGrows /\ CardsInv' /\ CardsBelongToCustomer' /\ cards' \in Seq(Cards)
<1>1. Len(cards) \in Nat /\ Ids = 1 .. Len(cards) /\ \A i \in Ids : cards[i] \in Cards
  BY IdsRule
<1>2. \A i \in Ids : /\ cards'[i] \in Cards
                     /\ cards'[i].order = cards[i].order /\ cards'[i].esim = cards[i].esim
                     /\ cards'[i].owner = (i \in r \/ cards[i].owner)
  <2> TAKE i \in Ids
  <2>1. CASE i \in r
    <3>1. cards'[i] = [cards[i] EXCEPT !.owner = TRUE]
      BY <2>1
    <3> QED BY <1>1, <2>1, <3>1 DEF Cards
  <2>2. CASE i \notin r
    <3>1. cards'[i] = cards[i]
      BY <2>2
    <3>2. cards[i].owner \in BOOLEAN
      BY IdsRule
    <3> QED BY <1>1, <2>2, <3>1, <3>2
  <2> QED BY <2>1, <2>2
<1>3. cards' \in Seq(Cards) /\ Ids' = Ids
  <2>1. cards' \in [1 .. Len(cards) -> Cards]
    BY <1>1, <1>2
  <2> QED BY <1>1, <2>1 DEF Ids
<1>4. \A p \in Orders : saved'[p] = IF p = o THEN "saved" ELSE saved[p]
  BY DEF RowsTyped
<1>5. DatabaseGrows
  BY <1>2, <1>3, <1>4, IdsRule DEF DatabaseGrows
<1>6. CardsInv'
  <2>1. \A p \in Orders : saved'[p] = "absent" <=> saved[p] = "absent"
    BY <1>4
  <2> QED BY <1>2, <1>3, <1>4, <2>1 DEF CardsInv
<1>7. CardsBelongToCustomer'
  <2> SUFFICES ASSUME NEW i \in Ids, saved'[cards[i].order] = "saved", i \notin r, ~ cards[i].owner
               PROVE  cards[i].order \in strays /\ Cardinality(ESimsOf[cards[i].order]) > 1
    BY <1>2, <1>3 DEF CardsBelongToCustomer
  <2>1. cards[i].order \in Orders
    BY IdsRule
  <2>2. CASE saved[cards[i].order] = "saved"
    BY <2>2 DEF CardsBelongToCustomer
  <2>3. CASE saved[cards[i].order] # "saved"
    <3>1. cards[i].order = o /\ saved[o] = "stray" /\ o \in strays
      BY <1>4, <2>1, <2>3 DEF CardsInv, RowsTyped
    <3>2. PICK k \in r : k # i /\ k \in Ids /\ cards[k].order = o
      BY DEF RowsOf
    <3>3. cards[i].esim # Missing /\ cards[k].esim # Missing /\ cards[i].esim # cards[k].esim
      BY <3>1, <3>2 DEF CardsInv
    <3>4. cards[i].esim \in ESimsOf[o] /\ cards[k].esim \in ESimsOf[o]
      BY <3>1, <3>2, <3>3 DEF CardsInv
    <3> QED BY <3>1, <3>3, <3>4, TwoESims
  <2> QED BY <2>2, <2>3
<1> QED BY <1>3, <1>5, <1>6, <1>7

LEMMA SaveCommitsStep ==
    ASSUME RowsInvs, NEW h \in Handlers, SaveCommits(h)
    PROVE  RowsInvs'
<1>1. Done(h) /\ UNCHANGED <<provider, aged>> /\ UNCHANGED <<failures, strays>>
  BY SaveStoredMoves
<1>2. DatabaseGrows /\ CardsInv' /\ CardsBelongToCustomer' /\ cards' \in Seq(Cards)
      /\ saved' \in [Orders -> {"absent", "stray", "saved"}]
  <2>1. CASE UNCHANGED <<saved, cards>>
    BY <1>1, <2>1, TablesKept DEF database, RowsInvs, RowsTyped
  <2>2. CASE ~ UNCHANGED <<saved, cards>>
    BY <1>1, <2>2, SaveStoredMoves, FirstRow, HandedOver DEF RowsInvs, RowsTyped
  <2> QED BY <2>1, <2>2
<1>3. RowsTyped'
  BY <1>1, <1>2, DoneSound DEF RowsInvs, RowsTyped, provider
<1> QED BY <1>1, <1>2, <1>3, DoneSound, StepRule DEF RowsInvs

(* What the commit of a sync does to the rows.  Each of them is of the     *)
(* answer now, or as it was.                                               *)
LEMMA SyncStores ==
    ASSUME RowsTyped, CardsInv, CardsBelongToCustomer,
           NEW t \in Tasks, t.stage = "sync", SoundSync(t),
           t.esims # {}, t.esims \subseteq ESimsOf[t.order],
           ~ Collides(t), cards' = Stored(t),
           saved' = IF t.found THEN saved ELSE [saved EXCEPT ![t.order] = "stray"],
           strays' = IF t.found THEN strays ELSE strays \cup {t.order}
    PROVE  /\ DatabaseGrows /\ CardsInv' /\ CardsBelongToCustomer'
           /\ cards' \in Seq(Cards) /\ saved' \in [Orders -> {"absent", "stray", "saved"}]
           /\ strays' \subseteq Orders
           /\ \A i \in Ids : cards'[i].esim # cards[i].esim =>
                 /\ \E f \in t.fill : f[1] = i
                 /\ t.esims = {cards'[i].esim} \cup t.new
           /\ \A e \in t.new : \E i \in Ids' : cards'[i].esim = e
<1> DEFINE o == t.order
<1>1. o \in Orders /\ t.found \in BOOLEAN /\ t.owned \in BOOLEAN /\ t.new \subseteq ESimsOf[o]
  BY TaskRule DEF SoundSync
<1>2. t.fill # {} => \E i \in RowsOf(o), e \in t.esims :
                         t.fill = {<<i, e>>} /\ t.esims = {e} \cup t.new
  BY DEF SoundSync
<1>3. t.fill # {} => \E i \in Ids, e \in ESims : t.fill = {<<i, e>>}
  BY <1>1, <1>2, ESimsRule DEF RowsOf
<1>4. cards \in Seq(Cards)
  BY DEF RowsTyped
<1>5. /\ cards' \in Seq(Cards) /\ Len(cards') \in Nat /\ Len(cards) <= Len(cards')
      /\ \A i \in Ids : /\ cards'[i].order = cards[i].order
                        /\ cards[i].owner => cards'[i].owner
                        /\ IF \E f \in t.fill : f[1] = i
                           THEN t.fill = {<<i, cards'[i].esim>>}
                           ELSE cards'[i].esim = cards[i].esim
      /\ \A i \in DOMAIN cards' \ Ids : /\ cards'[i].order = o /\ cards'[i].owner = t.owned
                                        /\ cards'[i].esim \in t.new
      /\ \A e \in t.new : \E i \in DOMAIN cards' \ Ids : cards'[i].esim = e
  <2>1. Follows(t, Stored(t))
    BY <1>1, <1>3, <1>4, StoredRule
  <2>2. Follows(t, cards')
    BY <2>1
  <2> QED BY <2>2 DEF Follows
<1>6. DOMAIN cards' = Ids' /\ Ids \subseteq Ids'
  BY <1>5, IdsRule DEF Ids
<1>7. /\ t.found \/ saved[o] = "absent"
      /\ \A i, j \in Ids' : cards'[i].esim = cards'[j].esim /\ cards'[i].esim \in t.esims => i = j
  BY <1>1, <1>6 DEF Collides
<1>8. t.new \subseteq t.esims /\ IF t.found THEN saved[o] # "absent" /\ (t.owned \/ o \in strays)
                                            ELSE t.fill = {} /\ t.new = t.esims
  BY DEF SoundSync
<1>9. t.found /\ (t.fill # {} \/ t.new # {}) =>
          \A i \in Placeholders(o) : \E f \in t.fill : f[1] = i
  BY DEF SoundSync
<1>10. \A p \in Orders : saved'[p] = IF ~ t.found /\ p = o THEN "stray" ELSE saved[p]
  BY <1>1 DEF RowsTyped
<1>11. saved' \in [Orders -> {"absent", "stray", "saved"}]
  BY <1>1 DEF RowsTyped
<1>12. strays' \subseteq Orders
  BY <1>1 DEF RowsTyped
<1>13. strays \subseteq strays' /\ (~ t.found => o \in strays')
  BY <1>1
<1>14. t.esims \subseteq ESimsOf[o] /\ Missing \notin t.esims /\ t.esims # {}
  BY <1>1, ESimsRule
<1> HIDE DEF o
<1>15. \A i \in Ids : (\E f \in t.fill : f[1] = i) =>
          /\ cards[i].order = o /\ cards'[i].esim \in t.esims
          /\ t.esims = {cards'[i].esim} \cup t.new
  <2> SUFFICES ASSUME NEW i \in Ids, \E f \in t.fill : f[1] = i
               PROVE  /\ cards[i].order = o /\ cards'[i].esim \in t.esims
                      /\ t.esims = {cards'[i].esim} \cup t.new
    OBVIOUS
  <2>1. PICK k \in RowsOf(o), e \in t.esims : t.fill = {<<k, e>>} /\ t.esims = {e} \cup t.new
    BY <1>2
  <2>2. t.fill = {<<i, cards'[i].esim>>}
    BY <1>5
  <2>3. k = i /\ e = cards'[i].esim
    BY <2>1, <2>2
  <2> QED BY <2>1, <2>3 DEF RowsOf
<1>16. \A i \in Ids' :
          \/ cards'[i].order = o /\ cards'[i].esim \in t.esims
          \/ i \in Ids /\ cards'[i].order = cards[i].order /\ cards'[i].esim = cards[i].esim
  BY <1>5, <1>6, <1>8, <1>15
<1>17. \A i, j \in Ids : cards[i].order = cards[j].order /\ cards[i].esim = Missing => i = j
  BY DEF CardsInv
<1>18. saved[o] = "absent" <=> \A i \in Ids : cards[i].order # o
  BY <1>1 DEF CardsInv, o
<1>19. CardsInv'
  <2>1. \A i \in Ids' : cards'[i].esim \in ESimsOf[cards'[i].order] \cup {Missing}
    BY <1>14, <1>16 DEF CardsInv
  <2>2. ASSUME NEW i \in Ids', NEW j \in Ids',
               cards'[i].esim = cards'[j].esim, cards'[i].esim # Missing
        PROVE  i = j
    <3>1. CASE cards'[i].esim \in t.esims
      BY <1>7, <2>2, <3>1
    <3>2. CASE cards'[i].esim \notin t.esims
      <4>1. i \in Ids /\ j \in Ids /\ cards[i].esim = cards[j].esim /\ cards[i].esim # Missing
        BY <1>16, <2>2, <3>2
      <4>2. \A k, l \in Ids : cards[k].esim = cards[l].esim /\ cards[k].esim # Missing => k = l
        BY DEF CardsInv
      <4> QED BY <4>1, <4>2
    <3> QED BY <3>1, <3>2
  <2>3. ASSUME NEW p \in Orders
        PROVE  saved'[p] = "absent" <=> \A i \in Ids' : cards'[i].order # p
    <3>1. saved[p] = "absent" <=> \A i \in Ids : cards[i].order # p
      BY DEF CardsInv
    <3>2. CASE p # o
      <4>1. saved'[p] = saved[p]
        BY <1>10, <3>2
      <4>2. (\A i \in Ids' : cards'[i].order # p) <=> \A i \in Ids : cards[i].order # p
        BY <1>5, <1>6, <1>16, <3>2
      <4> QED BY <3>1, <4>1, <4>2
    <3>3. CASE p = o /\ t.found
      <4>1. saved'[p] = saved[p] /\ saved[p] # "absent"
        BY <1>8, <1>10, <3>3
      <4>2. PICK i \in Ids : cards[i].order = p
        BY <3>1, <4>1
      <4> QED BY <1>5, <1>6, <4>1, <4>2
    <3>4. CASE p = o /\ ~ t.found
      <4>1. saved'[p] = "stray"
        BY <1>10, <3>4
      <4>2. PICK i \in DOMAIN cards' \ Ids : cards'[i].order = o
        BY <1>5, <1>8, <1>14, <3>4
      <4> QED BY <1>6, <3>4, <4>1, <4>2
    <3> QED BY <3>2, <3>3, <3>4
  <2>4. ASSUME NEW i \in Ids', NEW j \in Ids',
               cards'[i].order = cards'[j].order, cards'[i].esim = Missing
        PROVE  i = j
    <3>1. i \in Ids /\ cards'[i].order = cards[i].order /\ cards[i].esim = Missing
      BY <1>14, <1>16, <2>4
    <3>2. CASE j \in Ids
      <4>1. cards'[j].order = cards[j].order
        BY <1>5, <3>2
      <4> QED BY <1>17, <2>4, <3>1, <3>2, <4>1
    <3>3. CASE j \notin Ids
      <4>1. cards[i].order = o /\ t.new # {}
        BY <1>5, <1>6, <2>4, <3>1, <3>3
      <4>2. t.found /\ i \in Placeholders(o)
        BY <1>7, <1>18, <3>1, <4>1 DEF Placeholders, RowsOf
      <4>3. \E f \in t.fill : f[1] = i
        BY <1>9, <4>1, <4>2
      <4>4. cards'[i].esim \in t.esims
        BY <1>15, <3>1, <4>3
      <4> QED BY <1>14, <2>4, <4>4
    <3> QED BY <3>2, <3>3
  <2>5. \A p \in Orders : saved'[p] = "stray" => p \in strays'
    BY <1>10, <1>13 DEF CardsInv
  <2> QED BY <2>1, <2>2, <2>3, <2>4, <2>5 DEF CardsInv
<1>20. CardsBelongToCustomer'
  <2> SUFFICES ASSUME NEW i \in Ids', saved'[cards'[i].order] = "saved", ~ cards'[i].owner
               PROVE  cards'[i].order \in strays' /\ Cardinality(ESimsOf[cards'[i].order]) > 1
    BY DEF CardsBelongToCustomer
  <2>1. CASE i \in Ids
    <3>1. cards'[i].order = cards[i].order /\ ~ cards[i].owner /\ cards[i].order \in Orders
      BY <1>5, <2>1, IdsRule
    <3>2. saved[cards[i].order] = "saved"
      BY <1>10, <3>1
    <3>3. cards[i].order \in strays /\ Cardinality(ESimsOf[cards[i].order]) > 1
      BY <2>1, <3>1, <3>2 DEF CardsBelongToCustomer
    <3> QED BY <1>13, <3>1, <3>3
  <2>2. CASE i \notin Ids
    <3>1. cards'[i].order = o /\ ~ t.owned /\ cards'[i].esim \in t.new
      BY <1>5, <1>6, <2>2
    <3>2. t.found
      BY <1>1, <1>10, <3>1 DEF o
    <3>3. o \in strays /\ saved[o] # "absent"
      BY <1>8, <3>1, <3>2
    <3>4. PICK k \in Ids : cards[k].order = o
      BY <1>18, <3>3
    <3>5. k \in Ids' /\ k # i /\ cards'[k].order = o
      BY <1>5, <1>6, <2>2, <3>4
    <3>6. /\ \A a, b \in Ids' : cards'[a].order = cards'[b].order /\ cards'[a].esim = Missing => a = b
          /\ \A a, b \in Ids' : cards'[a].esim = cards'[b].esim /\ cards'[a].esim # Missing => a = b
          /\ \A a \in Ids' : cards'[a].esim \in ESimsOf[cards'[a].order] \cup {Missing}
      BY <1>19 DEF CardsInv
    <3>7. cards'[k].esim # Missing /\ cards'[k].esim # cards'[i].esim /\ cards'[i].esim # Missing
      BY <3>1, <3>5, <3>6
    <3>8. cards'[k].esim \in ESimsOf[o] /\ cards'[i].esim \in ESimsOf[o]
      BY <3>1, <3>5, <3>6, <3>7
    <3>9. Cardinality(ESimsOf[o]) > 1
      BY <1>1, <3>7, <3>8, TwoESims DEF o
    <3> QED BY <1>13, <3>1, <3>3, <3>9
  <2> QED BY <2>1, <2>2
<1>21. DatabaseGrows
  <2>1. \A i \in Ids' : cards'[i].esim = Missing => i \in Ids /\ cards[i].esim = Missing
    BY <1>14, <1>16
  <2>2. \A p \in Orders : saved[p] # "absent" => saved'[p] # "absent"
    BY <1>10
  <2> QED BY <1>5, <1>6, <1>13, <2>1, <2>2 DEF DatabaseGrows
<1>22. \A i \in Ids : cards'[i].esim # cards[i].esim =>
          (\E f \in t.fill : f[1] = i) /\ t.esims = {cards'[i].esim} \cup t.new
  BY <1>5, <1>15
<1> QED BY <1>5, <1>6, <1>11, <1>12, <1>19, <1>20, <1>21, <1>22

LEMMA SyncStoredMoves ==
    ASSUME RowsInvs, NEW h \in Handlers, SyncCommits(h)
    PROVE  /\ Done(h) /\ UNCHANGED <<provider, aged>> /\ UNCHANGED failures
           /\ \/ UNCHANGED database
              \/ \E t \in Tasks :
                    /\ t = task[h] /\ t.stage = "sync" /\ SoundSync(t)
                    /\ t.esims # {} /\ t.esims \subseteq ESimsOf[t.order]
                    /\ ~ Collides(t) /\ cards' = Stored(t)
                    /\ saved' = IF t.found THEN saved ELSE [saved EXCEPT ![t.order] = "stray"]
                    /\ strays' = IF t.found THEN strays ELSE strays \cup {t.order}
<1>1. task[h] \in Tasks /\ task[h].stage = "sync"
  BY DEF SyncCommits, RowsInvs, RowsTyped
<1>2. SoundSync(task[h]) /\ task[h].esims # {} /\ task[h].esims \subseteq ESimsOf[task[h].order]
  <2>1. SoundTask(h)
    BY DEF RowsInvs, TasksInv
  <2> QED BY <1>1, <2>1 DEF SoundTask
<1>3. /\ Done(h) /\ UNCHANGED <<provider, aged>> /\ UNCHANGED failures
      /\ \/ UNCHANGED database
         \/ /\ ~ Collides(task[h]) /\ cards' = Stored(task[h])
            /\ saved' = IF task[h].found THEN saved
                        ELSE [saved EXCEPT ![task[h].order] = "stray"]
            /\ strays' = IF task[h].found THEN strays ELSE strays \cup {task[h].order}
  BY DEF SyncCommits
<1> QED BY <1>1, <1>2, <1>3

LEMMA SyncCommitsStep ==
    ASSUME RowsInvs, NEW h \in Handlers, SyncCommits(h)
    PROVE  RowsInvs'
<1>1. Done(h) /\ UNCHANGED <<provider, aged>> /\ UNCHANGED failures
  BY SyncStoredMoves
<1>2. /\ DatabaseGrows /\ CardsInv' /\ CardsBelongToCustomer'
      /\ cards' \in Seq(Cards) /\ saved' \in [Orders -> {"absent", "stray", "saved"}]
      /\ strays' \subseteq Orders
  <2>1. CASE UNCHANGED database
    BY <2>1, TablesKept DEF database, RowsInvs, RowsTyped
  <2>2. CASE ~ UNCHANGED database
    BY <2>2, SyncStoredMoves, SyncStores DEF RowsInvs
  <2> QED BY <2>1, <2>2
<1>3. RowsTyped'
  BY <1>1, <1>2, DoneSound DEF RowsInvs, RowsTyped, provider
<1> QED BY <1>1, <1>2, <1>3, DoneSound, StepRule DEF RowsInvs

(* Handlers read, commit, or fail; the provider moves on, and rows age.    *)
LEMMA RowsStep ==
    ASSUME RowsInvs, [RowsNext]_rowsVars
    PROVE  RowsInvs'
<1>1. ASSUME NEW o \in Orders, Place(o) \/ GrowsOld(o)
      PROVE  RowsInvs'
  <2>1. UNCHANGED database /\ UNCHANGED <<task, failures, allocated>>
        /\ placed' \subseteq Orders /\ aged' \subseteq Orders
    BY <1>1 DEF Place, GrowsOld, provider, RowsInvs, RowsTyped
  <2>2. RowsTyped'
    BY <2>1 DEF RowsInvs, RowsTyped, database
  <2> QED BY <2>1, <2>2, TablesKept, StepRule
<1>2. ASSUME NEW e \in ESims, Allocate(e)
      PROVE  RowsInvs'
  <2>1. UNCHANGED database /\ UNCHANGED <<task, failures, placed, aged>>
        /\ allocated' \subseteq ESims
    BY <1>2 DEF Allocate, RowsInvs, RowsTyped
  <2>2. RowsTyped'
    BY <2>1 DEF RowsInvs, RowsTyped, database
  <2> QED BY <2>1, <2>2, TablesKept, StepRule
<1>3. ASSUME NEW h \in Handlers, TaskFails(h)
      PROVE  RowsInvs'
  <2>1. Done(h) /\ UNCHANGED database /\ UNCHANGED <<provider, aged>>
        /\ failures' \in 0 .. MaxFailures
    BY <1>3, OrdersAssumption DEF TaskFails, RowsInvs, RowsTyped
  <2>2. RowsTyped'
    BY <2>1, DoneSound DEF RowsInvs, RowsTyped, database, provider
  <2> QED BY <2>1, <2>2, DoneSound, TablesKept, StepRule DEF RowsInvs
<1>4. ASSUME NEW h \in Savers, Saves(h)
      PROVE  RowsInvs'
  BY <1>4, SaveReadsStep, SaveCommitsStep DEF Saves, Handlers
<1>5. ASSUME NEW h \in Askers \cup Crons, Syncs(h)
      PROVE  RowsInvs'
  BY <1>5, SyncReadsStep, SyncCommitsStep DEF Syncs, Handlers
<1>6. ASSUME NEW h \in Handlers,
             \/ Asks(h)
             \/ \E o \in Orders : CronRecovers(h, o)
             \/ \E i \in Ids : CronRefreshes(h, i)
      PROVE  RowsInvs'
  BY <1>6, QueryRule, AnsweredStep
<1>7. CASE UNCHANGED rowsVars
  <2>1. UNCHANGED database /\ UNCHANGED <<placed, allocated, aged, task, failures>>
    BY <1>7 DEF rowsVars, database
  <2>2. RowsTyped'
    BY <2>1 DEF RowsInvs, RowsTyped, database
  <2> QED BY <2>1, <2>2, TablesKept, StepRule
<1>8. Askers \subseteq Handlers /\ Crons \subseteq Handlers
  BY DEF Handlers
<1> QED BY <1>1, <1>2, <1>3, <1>4, <1>5, <1>6, <1>7, <1>8 DEF RowsNext

LEMMA RowsStart ==
    ASSUME RowsInit
    PROVE  RowsInvs
<1>1. Ids = {} /\ cards \in Seq(Cards)
  BY DEF RowsInit, Ids
<1>2. RowsTyped
  BY <1>1, FreeRule, OrdersAssumption DEF RowsInit, RowsTyped
<1>3. CardsInv /\ CardsBelongToCustomer
  BY <1>1 DEF RowsInit, CardsInv, CardsBelongToCustomer
<1>4. TasksInv
  BY FreeRule DEF RowsInit, TasksInv, SoundTask
<1> QED BY <1>2, <1>3, <1>4 DEF RowsInvs

(* Rows and tasks have their types, and no eSIM has two rows, although     *)
(* saves and syncs commit what they read earlier.                          *)
THEOREM RowsTypeCorrect == RowsSpec => []RowsTypeOK
<1>1. ASSUME RowsInvs
      PROVE  RowsTypeOK
  <2>1. ASSUME NEW e \in ESims
        PROVE  Cardinality(RowsFor(e)) <= 1
    <3>1. \A i, j \in RowsFor(e) : i = j
      BY <1>1, <2>1, ESimsRule DEF RowsInvs, CardsInv, RowsFor
    <3>2. CASE RowsFor(e) = {}
      BY <3>2, FS_EmptySet
    <3>3. CASE RowsFor(e) # {}
      <4>1. PICK i \in RowsFor(e) : RowsFor(e) = {i}
        BY <3>1, <3>3
      <4>2. Cardinality({i}) = 1
        BY FS_Singleton
      <4> QED BY <4>1, <4>2
    <3> QED BY <3>2, <3>3
  <2> QED BY <1>1, <2>1 DEF RowsInvs, RowsTyped, RowsTypeOK, Cards
<1> QED BY <1>1, RowsStart, RowsStep, PTL DEF RowsSpec

(* A placeholder is alone, and without one every card is of another eSIM.  *)
LEMMA NoDuplicates ==
    ASSUME RowsInvs
    PROVE  NoDuplicateCards
<1> SUFFICES ASSUME NEW o \in Orders, saved[o] = "saved"
             PROVE  Cardinality(Shown(o)) \in 1 .. Cardinality(ESimsOf[o])
  BY DEF NoDuplicateCards
<1>1. /\ IsFiniteSet(ESimsOf[o]) /\ Cardinality(ESimsOf[o]) \in Nat
      /\ Cardinality(ESimsOf[o]) # 0
  BY ESimsRule, FS_CardinalityType, FS_EmptySet
<1>2. RowsOf(o) # {}
  BY DEF RowsInvs, CardsInv, RowsOf
<1>3. Shown(o) = {cards[i].esim : i \in RowsOf(o)}
  BY <1>2 DEF Shown
<1>4. CASE \E i \in RowsOf(o) : cards[i].esim = Missing
  <2>1. PICK i \in RowsOf(o) : cards[i].esim = Missing
    BY <1>4
  <2>2. \A j \in RowsOf(o) : i = j
    BY <2>1 DEF RowsInvs, CardsInv, RowsOf
  <2>3. Shown(o) = {Missing}
    BY <1>3, <2>1, <2>2
  <2> QED BY <1>1, <2>3, FS_Singleton
<1>5. CASE ~ \E i \in RowsOf(o) : cards[i].esim = Missing
  <2>1. \A i \in RowsOf(o) : cards[i].esim \in ESimsOf[o]
    BY <1>5 DEF RowsInvs, CardsInv, RowsOf
  <2>2. Shown(o) \subseteq ESimsOf[o] /\ Shown(o) # {}
    BY <1>2, <1>3, <2>1
  <2>3. /\ IsFiniteSet(Shown(o)) /\ Cardinality(Shown(o)) \in Nat
        /\ Cardinality(Shown(o)) <= Cardinality(ESimsOf[o]) /\ Cardinality(Shown(o)) # 0
    BY <1>1, <2>2, FS_Subset, FS_CardinalityType, FS_EmptySet
  <2> QED BY <1>1, <2>3
<1> QED BY <1>4, <1>5

(* Only a sync takes a row from an eSIM: it fills it, with another eSIM,   *)
(* and gives a row to whatever its answer holds.                           *)
LEMMA RowsLost ==
    ASSUME RowsInvs, [RowsNext]_rowsVars, NEW e \in ESims,
           RowsFor(e) # {}, RowsFor(e)' = {}
    PROVE  \E h \in Handlers :
              /\ task[h].stage = "sync" /\ task'[h] = Free
              /\ e \notin task[h].esims
              /\ \E f \in task[h].fill : f[1] \in RowsFor(e)
<1>1. PICK i \in RowsFor(e) : i \in Ids /\ cards[i].esim = e
  BY DEF RowsFor
<1>2. ~ (i \in Ids' /\ cards'[i].esim = e)
  BY DEF RowsFor
<1>3. ~ UNCHANGED cards
  BY <1>1, <1>2 DEF Ids
<1>4. \E h \in Handlers : SaveCommits(h) \/ SyncCommits(h)
  <2>1. \A h \in Handlers : (\E o \in Orders : SaveReads(h, o)) \/ SyncReads(h) => UNCHANGED cards
    BY DEF SaveReads, SyncReads, database
  <2>2. \A h \in Handlers :
           ( \/ Asks(h)
             \/ \E o \in Orders : CronRecovers(h, o)
             \/ \E k \in Ids : CronRefreshes(h, k)) => UNCHANGED cards
    BY QueryRule DEF Answered, database
  <2>3. \A h \in Handlers : TaskFails(h) => UNCHANGED cards
    BY DEF TaskFails, database
  <2>4. \A o \in Orders : Place(o) \/ GrowsOld(o) => UNCHANGED cards
    BY DEF Place, GrowsOld, database
  <2>5. \A a \in ESims : Allocate(a) => UNCHANGED cards
    BY DEF Allocate, database
  <2>6. UNCHANGED rowsVars => UNCHANGED cards
    BY DEF rowsVars
  <2>7. Savers \subseteq Handlers /\ Askers \subseteq Handlers /\ Crons \subseteq Handlers
    BY DEF Handlers
  <2> QED BY <1>3, <2>1, <2>2, <2>3, <2>4, <2>5, <2>6, <2>7 DEF RowsNext, Saves, Syncs
<1>5. PICK h \in Handlers : SaveCommits(h) \/ SyncCommits(h)
  BY <1>4
<1>6. CASE SaveCommits(h)
  <2>1. PICK o \in Orders :
           \/ cards' = Append(cards, [order |-> o, esim |-> Missing, owner |-> TRUE])
           \/ \E r \in SUBSET RowsOf(o) :
                 cards' = [k \in Ids |-> IF k \in r THEN [cards[k] EXCEPT !.owner = TRUE]
                                         ELSE cards[k]]
    BY <1>3, <1>6, SaveStoredMoves
  <2>2. i \in Ids' /\ cards'[i].esim = cards[i].esim
    <3>1. CASE cards' = Append(cards, [order |-> o, esim |-> Missing, owner |-> TRUE])
      BY <1>1, <3>1, IdsRule DEF Ids, RowsInvs, RowsTyped
    <3>2. CASE \E r \in SUBSET RowsOf(o) :
                  cards' = [k \in Ids |-> IF k \in r THEN [cards[k] EXCEPT !.owner = TRUE]
                                          ELSE cards[k]]
      <4>1. cards[i] \in Cards
        BY <1>1, IdsRule DEF RowsInvs
      <4> QED BY <1>1, <3>2, <4>1 DEF Ids, Cards
    <3> QED BY <2>1, <3>1, <3>2
  <2> QED BY <1>1, <1>2, <2>2
<1>7. CASE SyncCommits(h)
  <2>1. PICK t \in Tasks :
           /\ t = task[h] /\ t.stage = "sync"
           /\ Ids \subseteq Ids'
           /\ \A k \in Ids : cards'[k].esim # cards[k].esim =>
                 /\ \E f \in t.fill : f[1] = k
                 /\ t.esims = {cards'[k].esim} \cup t.new
           /\ \A a \in t.new : \E k \in Ids' : cards'[k].esim = a
    BY <1>3, <1>7, SyncStoredMoves, SyncStores DEF database, RowsInvs, DatabaseGrows
  <2>2. cards'[i].esim # e
    BY <1>1, <1>2, <2>1
  <2>3. \E f \in t.fill : f[1] \in RowsFor(e)
    BY <1>1, <2>1, <2>2
  <2>4. e \notin t.esims
    BY <1>1, <2>1, <2>2 DEF RowsFor
  <2>5. task'[h] = Free
    BY <1>7, SyncStoredMoves, DoneSound DEF RowsInvs
  <2> QED BY <2>1, <2>3, <2>4, <2>5
<1> QED BY <1>5, <1>6, <1>7

(* Whatever saves and syncs overlap, an order shows no more cards than it  *)
(* has eSIMs, all of them its customer's, and keeps them.                  *)
THEOREM RowsKept == RowsSpec => OrdersKeepTheirCards
<1>1. RowsInvs => NoDuplicateCards /\ CardsBelongToCustomer
  BY NoDuplicates DEF RowsInvs
<1>2. RowsInvs /\ [RowsNext]_rowsVars =>
         [\A e \in ESims : (RowsFor(e) # {} /\ RowsFor(e)' = {}) =>
             \E h \in Handlers :
                 /\ task[h].stage = "sync" /\ task'[h] = Free
                 /\ e \notin task[h].esims
                 /\ \E f \in task[h].fill : f[1] \in RowsFor(e)]_rowsVars
  BY RowsLost
<1> QED BY <1>1, <1>2, RowsStart, RowsStep, PTL
        DEF RowsSpec, OrdersKeepTheirCards, RowsLostOnlyToPartialAnswers
=============================================================================

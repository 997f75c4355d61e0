-------------------------- MODULE ProvidersProofs --------------------------
(* Proofs about the components that stand between the server and what can  *)
(* be away: the copy of the featured locations, the usage syncs, and the   *)
(* clients of FIB and of the eSIM provider.  The last part joins them and  *)
(* Catalogue, as the run that checks them does.                            *)
EXTENDS MCPricesAndProviders, CatalogueProofs, SequenceTheorems

-----------------------------------------------------------------------------
(* PublicCaches.                                                           *)

(* What a handler of the page knows, and what it answers.                  *)
PageRequests ==
    [copy : Copies \cup {Nothing}, since : EditIds, read : EditIds \cup {Nothing}]
PageAnswers == [copy : Copies \cup {Nothing}, since : EditIds]

(* The types, with the shapes of the records.                              *)
PagesInv ==
    /\ moment \in 0 .. MaxMoment
    /\ content \in EditIds
    /\ edited \in EditIds
    /\ edited <= content
    /\ edit \in EditIds \cup {Nothing}
    /\ edit # Nothing => edited <= edit /\ edit <= content
    /\ retryAfter \in 0 .. MaxMoment + Backoff
    /\ copy \in Copies \cup {Nothing}
    /\ request \in [Requesters -> PageRequests \cup {Nothing}]
    /\ shown \in PageAnswers \cup {Nothing}
    /\ shown # Nothing => shown.since <= edited
    /\ \A r \in Requesters : request[r] # Nothing =>
          /\ request[r].since <= edited
          /\ request[r].read # Nothing => request[r].since <= request[r].read
                                          /\ request[r].read <= content

(* Every step keeps the types.                                             *)
LEMMA PagesStep == PagesInv /\ [CachesNext]_cachesVars => PagesInv'
<1> SUFFICES ASSUME PagesInv, [CachesNext]_cachesVars PROVE PagesInv'
  OBVIOUS
<1> USE CacheAssumption DEF PagesInv, EditIds
<1>0. /\ \A r \in Requesters : request[r] # Nothing =>
            /\ request[r].since \in Nat
            /\ request[r].read # Nothing => request[r].read \in Nat
      /\ shown # Nothing => shown.since \in Nat
  BY DEF PageRequests, PageAnswers
<1>1. CASE MomentPasses
  BY <1>1 DEF MomentPasses
<1>2. CASE EditCommits
  BY <1>0, <1>2 DEF EditCommits
<1>3. CASE EditAnswers
  BY <1>0, <1>3 DEF EditAnswers
<1>4. CASE EditElsewhere
  BY <1>0, <1>4 DEF EditElsewhere
<1>5. ASSUME NEW r \in Requesters, TakesCopy(r)
      PROVE  PagesInv'
  <2> DEFINE new == [copy |-> copy, since |-> edited, read |-> Nothing]
  <2>1. CASE moment < retryAfter
    <3>1. shown' = [copy |-> copy, since |-> edited]
      BY <1>5, <2>1 DEF TakesCopy, Shows
    <3>2. shown' \in PageAnswers /\ shown'.since = edited
      BY <3>1 DEF PageAnswers
    <3> QED BY <1>5, <2>1, <3>2 DEF TakesCopy
  <2>2. CASE ~ (moment < retryAfter)
    <3>1. new \in PageRequests /\ new.since = edited /\ new.read = Nothing
      BY DEF PageRequests
    <3>2. request' = [request EXCEPT ![r] = new]
      BY <1>5, <2>2 DEF TakesCopy
    <3> HIDE DEF new
    <3> QED BY <1>5, <2>2, <3>1, <3>2 DEF TakesCopy
  <2> QED BY <2>1, <2>2
<1>6. ASSUME NEW r \in Requesters, ReadsDatabase(r)
      PROVE  PagesInv'
  <2> DEFINE new == [request[r] EXCEPT !.read = content]
  <2>1. request[r] \in PageRequests
    BY <1>6 DEF ReadsDatabase, Asking
  <2>2. new \in PageRequests /\ new.since = request[r].since /\ new.read = content
    BY <2>1 DEF PageRequests
  <2>3. request' = [request EXCEPT ![r] = new]
    BY <1>6 DEF ReadsDatabase
  <2>4. request[r].since <= edited
    BY <1>6 DEF ReadsDatabase, Asking
  <2>5. request[r].since <= content
    BY <2>1, <2>4 DEF PageRequests
  <2> HIDE DEF new
  <2> QED BY <1>6, <2>2, <2>3, <2>4, <2>5 DEF ReadsDatabase
<1>7. ASSUME NEW r \in Requesters, ReadFails(r)
      PROVE  PagesInv'
  <2>1. request[r] \in PageRequests /\ request[r].since <= edited
    BY <1>7 DEF ReadFails, Asking
  <2>2. shown' = [copy |-> request[r].copy, since |-> request[r].since]
    BY <1>7 DEF ReadFails, Shows
  <2>3. request[r].copy \in Copies \cup {Nothing} /\ request[r].since \in EditIds
    BY <2>1 DEF PageRequests
  <2>4. shown' \in PageAnswers /\ shown'.since = request[r].since
    BY <2>2, <2>3 DEF PageAnswers
  <2> QED BY <1>7, <2>1, <2>4 DEF ReadFails
<1>8. ASSUME NEW r \in Requesters, Fills(r)
      PROVE  PagesInv'
  <2>1. request[r] \in PageRequests /\ request[r].since <= edited /\ request[r].read # Nothing
    BY <1>8 DEF Fills
  <2>2. copy' \in Copies /\ request[r].since \in EditIds
    BY <1>8, <2>1 DEF Fills, Copies, PageRequests
  <2>3. shown' = [copy |-> copy', since |-> request[r].since]
    BY <1>8 DEF Fills, Shows
  <2>4. shown' \in PageAnswers /\ shown'.since = request[r].since
    BY <2>2, <2>3 DEF PageAnswers
  <2> QED BY <1>8, <2>1, <2>2, <2>4 DEF Fills
<1>9. CASE UNCHANGED cachesVars
  BY <1>9 DEF cachesVars
<1> QED BY <1>1, <1>2, <1>3, <1>4, <1>5, <1>6, <1>7, <1>8, <1>9 DEF CachesNext

(* The copies keep their types and what their histories say of each other. *)
LEMMA PagesTyped == PagesInv => CachesTypeOK
BY CacheAssumption DEF PagesInv, CachesTypeOK, EditIds, PageAnswers, PageRequests

(* A copy with a past: what filled it had read what was there when it      *)
(* began.  The present copy has been filled since the last edit.           *)
FilledSince(c, n) == c # Nothing => c.version >= c.began /\ c.filled >= n

CopiesInv ==
    /\ FilledSince(copy, edited)
    /\ shown # Nothing => FilledSince(shown.copy, shown.since)
    /\ \A r \in Requesters : request[r] # Nothing =>
          FilledSince(request[r].copy, request[r].since)

(* Every step keeps the histories.                                         *)
LEMMA CopiesStep ==
    PagesInv /\ CopiesInv /\ [CachesNext]_cachesVars => CopiesInv'
<1> SUFFICES ASSUME PagesInv, CopiesInv, [CachesNext]_cachesVars
             PROVE  CopiesInv'
  OBVIOUS
<1> USE DEF CopiesInv
<1>1. CASE MomentPasses \/ EditCommits \/ EditElsewhere \/ UNCHANGED cachesVars
  BY <1>1 DEF MomentPasses, EditCommits, EditElsewhere, cachesVars
<1>2. CASE EditAnswers
  BY <1>2 DEF EditAnswers, FilledSince
<1>3. ASSUME NEW r \in Requesters, TakesCopy(r)
      PROVE  CopiesInv'
  <2> DEFINE new == [copy |-> copy, since |-> edited, read |-> Nothing]
  <2>1. CASE moment < retryAfter
    BY <1>3, <2>1 DEF TakesCopy, Shows
  <2>2. CASE ~ (moment < retryAfter)
    <3>1. new.since = edited /\ new.copy = copy
      OBVIOUS
    <3>2. request' = [request EXCEPT ![r] = new]
      BY <1>3, <2>2 DEF TakesCopy
    <3> HIDE DEF new
    <3> QED BY <1>3, <2>2, <3>1, <3>2 DEF TakesCopy, PagesInv
  <2> QED BY <2>1, <2>2
<1>4. ASSUME NEW r \in Requesters, ReadsDatabase(r)
      PROVE  CopiesInv'
  <2> DEFINE new == [request[r] EXCEPT !.read = content]
  <2>1. request[r] \in PageRequests /\ request[r] # Nothing
    BY <1>4 DEF ReadsDatabase, Asking, PagesInv
  <2>2. new.since = request[r].since /\ new.copy = request[r].copy
    BY <2>1 DEF PageRequests
  <2>3. request' = [request EXCEPT ![r] = new]
    BY <1>4 DEF ReadsDatabase
  <2> HIDE DEF new
  <2> QED BY <1>4, <2>1, <2>2, <2>3 DEF ReadsDatabase, PagesInv
<1>5. ASSUME NEW r \in Requesters, ReadFails(r)
      PROVE  CopiesInv'
  <2>1. request[r] # Nothing
    BY <1>5 DEF ReadFails, Asking
  <2>2. shown'.copy = request[r].copy /\ shown'.since = request[r].since
    BY <1>5 DEF ReadFails, Shows
  <2> QED BY <1>5, <2>1, <2>2 DEF ReadFails, PagesInv
<1>6. ASSUME NEW r \in Requesters, Fills(r)
      PROVE  CopiesInv'
  <2>1. request[r] \in PageRequests /\ request[r] # Nothing /\ request[r].read # Nothing
    BY <1>6 DEF Fills, PagesInv
  <2>2. /\ request[r].since \in Nat /\ request[r].read \in Nat /\ edited \in Nat
        /\ request[r].since <= edited /\ request[r].since <= request[r].read
    BY <2>1 DEF PagesInv, PageRequests, EditIds
  <2>3. copy' = [version |-> request[r].read, began |-> request[r].since, filled |-> edited]
    BY <1>6 DEF Fills
  <2>4. FilledSince(copy', edited) /\ FilledSince(copy', request[r].since)
    BY <2>2, <2>3 DEF FilledSince
  <2>5. shown'.copy = copy' /\ shown'.since = request[r].since
    BY <1>6 DEF Fills, Shows
  <2> QED BY <1>6, <2>4, <2>5 DEF Fills, PagesInv
<1> QED BY <1>1, <1>2, <1>3, <1>4, <1>5, <1>6 DEF CachesNext

(* The histories say what an outage may show.                              *)
LEMMA CopiesShown == PagesInv /\ CopiesInv => AnsweredEditsAreShown
<1> SUFFICES ASSUME PagesInv, CopiesInv, shown # Nothing, shown.copy # Nothing
             PROVE  \/ shown.copy.version >= shown.since
                    \/ shown.copy.began < shown.since /\ shown.copy.filled >= shown.since
  BY DEF AnsweredEditsAreShown
<1>1. shown.copy \in Copies /\ shown.since \in Nat
  BY CacheAssumption DEF PagesInv, PageAnswers, EditIds
<1>2. shown.copy.version \in Nat /\ shown.copy.began \in Nat /\ shown.copy.filled \in Nat
  BY <1>1, CacheAssumption DEF Copies, EditIds
<1>3. shown.copy.version >= shown.copy.began /\ shown.copy.filled >= shown.since
  BY DEF CopiesInv, FilledSince
<1> QED BY <1>1, <1>2, <1>3

(* The page starts without a copy.                                         *)
LEMMA PagesInit == CachesInit => PagesInv /\ CopiesInv
BY CacheAssumption DEF CachesInit, PagesInv, CopiesInv, FilledSince, EditIds

(* The copy, the deadline and the answers of the page keep their types     *)
(* through any edits, outages and overlapping requests.                    *)
THEOREM CachesTypeCorrect == CachesSpec => []CachesTypeOK
<1>1. CachesSpec => []PagesInv
  BY PagesInit, PagesStep, PTL DEF CachesSpec
<1> QED BY <1>1, PagesTyped, PTL

(* Once an edit of the featured locations is answered, a request of the    *)
(* same process that begins later does not show locations without it,      *)
(* unless a handler that had begun before the edit filled the copy after   *)
(* it was dropped (save_featured_location, public_featured_locations).     *)
THEOREM EditsAreShown == CachesSpec => []AnsweredEditsAreShown
<1>1. CachesSpec => [](PagesInv /\ CopiesInv)
  BY PagesInit, PagesStep, CopiesStep, PTL DEF CachesSpec
<1> QED BY <1>1, CopiesShown, PTL

-----------------------------------------------------------------------------
(* UsageSync.                                                              *)

(* A run that holds the lock of its process.                               *)
Inside(h) == run[h] # Nobody /\ run[h].kind \in Locked /\ run[h].stage # "waiting"

(* The types, with the shapes of the functions.                            *)
CountersInv ==
    /\ live \in [ESims -> Nat]
    /\ stored \in [ESims -> Nat]
    /\ \A e \in ESims : live[e] <= MaxUsed[e] /\ stored[e] <= live[e]
    /\ author \in [ESims -> Processes \cup {Nobody}]
    /\ holder \in [Processes -> Handlers \cup {Nobody}]
    /\ queue \in [Processes -> Seq(Handlers)]
    /\ run \in [Handlers -> Runs \cup {Nobody}]
    /\ \A h \in Handlers : run[h] # Nobody =>
          /\ run[h].batch \subseteq run[h].todo
          /\ DOMAIN run[h].answer \subseteq run[h].batch
          /\ \A e \in DOMAIN run[h].answer : run[h].answer[e] <= live[e]

(* Who is inside holds the lock, and who waits for it is in its queue.     *)
LockInv ==
    \A h \in Handlers :
        /\ Inside(h) => holder[run[h].process] = h
        /\ IsAt(h, "waiting") =>
              /\ run[h].kind \in Locked
              /\ \E i \in 1 .. Len(queue[run[h].process]) : queue[run[h].process][i] = h

(* An answer waiting to be written is no older than what another run of    *)
(* the same process wrote last under the lock; a refresh has one profile   *)
(* at a time.                                                              *)
WritesInv ==
    \A h \in Handlers : IsAt(h, "writing") =>
        /\ run[h].kind \in Locked =>
              \A e \in DOMAIN run[h].answer :
                  author[e] = run[h].process => stored[e] <= run[h].answer[e]
        /\ run[h].kind = "refresh" => Cardinality(run[h].batch) = 1

(* What a report holds.                                                    *)
LEMMA ReportRule ==
    /\ \A a : a \in Reports <=> /\ a = [e \in DOMAIN a |-> a[e]]
                                /\ DOMAIN a \subseteq ESims
                                /\ \A e \in DOMAIN a : a[e] \in Nat /\ a[e] <= MaxUsed[e]
    /\ <<>> \in Reports /\ DOMAIN <<>> = {}
<1>0. \A e \in ESims : MaxUsed[e] \in Nat
  BY SyncAssumption
<1>1. ASSUME NEW a, a \in Reports
      PROVE  /\ a = [e \in DOMAIN a |-> a[e]]
             /\ DOMAIN a \subseteq ESims
             /\ \A e \in DOMAIN a : a[e] \in Nat /\ a[e] <= MaxUsed[e]
  <2>1. PICK es \in SUBSET ESims :
           a \in {f \in [es -> UNION {0 .. MaxUsed[e] : e \in es}] :
                     \A e \in es : f[e] \in 0 .. MaxUsed[e]}
    BY <1>1 DEF Reports
  <2>2. DOMAIN a = es /\ a = [e \in DOMAIN a |-> a[e]] /\ \A e \in es : a[e] \in 0 .. MaxUsed[e]
    BY <2>1
  <2> QED BY <1>0, <2>2
<1>2. ASSUME NEW a, a = [e \in DOMAIN a |-> a[e]], DOMAIN a \subseteq ESims,
             \A e \in DOMAIN a : a[e] \in Nat /\ a[e] <= MaxUsed[e]
      PROVE  a \in Reports
  <2> DEFINE es == DOMAIN a
             R  == UNION {0 .. MaxUsed[e] : e \in es}
  <2>1. \A e \in es : a[e] \in 0 .. MaxUsed[e]
    BY <1>0, <1>2
  <2>2. \A e \in es : a[e] \in R
    BY <2>1
  <2> HIDE DEF R
  <2>3. a \in [es -> R]
    BY <1>2, <2>2
  <2> QED BY <1>2, <2>1, <2>3 DEF R, Reports
<1>3. DOMAIN <<>> = {} /\ <<>> = [e \in {} |-> <<>>[e]]
  OBVIOUS
<1>4. <<>> \in Reports
  BY <1>2, <1>3
<1> QED BY <1>1, <1>2, <1>3, <1>4

(* The records of runs.                                                    *)
LEMMA NewRunRule ==
    ASSUME NEW p \in Processes, NEW k \in SyncKinds, NEW es \in (SUBSET ESims) \ {{}},
           NEW s \in {"waiting", "asking"}
    PROVE  /\ NewRun(p, k, es, s) \in Runs
           /\ NewRun(p, k, es, s).process = p /\ NewRun(p, k, es, s).kind = k
           /\ NewRun(p, k, es, s).stage = s
           /\ NewRun(p, k, es, s).batch = {}
           /\ DOMAIN NewRun(p, k, es, s).answer = {}
<1>1. <<>> \in Reports /\ DOMAIN <<>> = {}
  BY ReportRule
<1>2. {} \in SUBSET ESims /\ s \in {"waiting", "asking", "writing"}
  OBVIOUS
<1> QED BY <1>1, <1>2 DEF NewRun, Runs

(* A batch is a part of what there is to do; the refresh's are single.     *)
LEMMA BatchRule ==
    ASSUME CountersInv, NEW h \in Handlers, run[h] # Nobody, NEW b \in BatchOf(h)
    PROVE  /\ b \subseteq run[h].todo
           /\ run[h].kind = "refresh" => Cardinality(b) = 1
<1>1. run[h] \in Runs
  BY DEF CountersInv
<1>2. run[h].todo # {} /\ run[h].todo \subseteq ESims
  BY <1>1 DEF Runs
<1>3. IsFiniteSet(run[h].todo)
  BY <1>2, SyncAssumption, FS_Subset
<1>4. Cardinality(run[h].todo) \in Nat /\ Cardinality(run[h].todo) # 0
  BY <1>2, <1>3, FS_CardinalityType, FS_EmptySet
<1> QED BY <1>4 DEF BatchOf

(* What is answered is what the provider's counters are, or were.          *)
LEMMA AnswerRule ==
    ASSUME CountersInv, NEW h \in Handlers, NEW b \in SUBSET ESims, NEW a \in Answer(h, b)
    PROVE  /\ a \in Reports
           /\ DOMAIN a \subseteq b
           /\ \A e \in DOMAIN a : a[e] <= live[e]
           /\ run[h].kind # "refresh" => \A e \in DOMAIN a : a[e] = live[e]
<1> DEFINE Reported(e) == IF run[h].kind = "refresh" THEN 0 .. live[e] ELSE {live[e]}
<1>1. PICK es \in SUBSET b :
          a \in {f \in [es -> UNION {Reported(e) : e \in es}] : \A e \in es : f[e] \in Reported(e)}
  BY DEF Answer
<1>2. DOMAIN a = es /\ a = [e \in DOMAIN a |-> a[e]] /\ \A e \in es : a[e] \in Reported(e)
  BY <1>1
<1>3. \A e \in ESims : live[e] \in Nat /\ MaxUsed[e] \in Nat /\ live[e] <= MaxUsed[e]
  BY SyncAssumption DEF CountersInv
<1>4. \A e \in es : a[e] \in Nat /\ a[e] <= live[e] /\ a[e] <= MaxUsed[e]
                   /\ (run[h].kind # "refresh" => a[e] = live[e])
  BY <1>2, <1>3
<1> HIDE DEF Reported
<1>5. a \in Reports
  BY <1>2, <1>4, ReportRule
<1> QED BY <1>2, <1>4, <1>5

(* A run begins inside the lock, before it, or without it.                 *)
Begins(h, p, k, es, s) ==
    /\ run[h] = Nobody
    /\ run' = [run EXCEPT ![h] = NewRun(p, k, es, s)]
    /\ UNCHANGED <<live, stored, author>>
    /\ \/ /\ k \in Locked /\ s = "asking" /\ holder[p] = Nobody
          /\ holder' = [holder EXCEPT ![p] = h]
          /\ UNCHANGED queue
       \/ /\ k \in Locked /\ s = "waiting"
          /\ queue' = [queue EXCEPT ![p] = Append(@, h)]
          /\ UNCHANGED holder
       \/ k \in SyncKinds \ Locked /\ s = "asking" /\ UNCHANGED <<holder, queue>>

(* After a batch, a run ends, or goes on with what is left to do.          *)
GoesOn(h) ==
    /\ run' = [run EXCEPT ![h] = run'[h]]
    /\ \/ /\ run'[h] = Nobody
          /\ holder' = [p \in Processes |-> IF holder[p] = h THEN Nobody ELSE holder[p]]
       \/ /\ run'[h] \in Runs
          /\ run'[h].process = run[h].process /\ run'[h].kind = run[h].kind
          /\ run'[h].stage = "asking"
          /\ run'[h].batch = {} /\ DOMAIN run'[h].answer = {}
          /\ UNCHANGED holder

(* The steps of the specification, by what they have in common.            *)
LEMMA SyncCases ==
    ASSUME SyncNext
    PROVE  \/ \E e \in ESims : Used(e)
           \/ \E h \in Handlers : Acquires(h)
           \/ \E h \in Handlers : ProviderReports(h)
           \/ \E h \in Handlers : Writes(h)
           \/ \E h \in Handlers : BatchFails(h)
           \/ \E h \in Handlers, p \in Processes, k \in SyncKinds,
                 es \in (SUBSET ESims) \ {{}}, s \in {"waiting", "asking"} : Begins(h, p, k, es, s)
           \/ \E p \in Processes : ProcessEnds(p)
<1> DEFINE Begin == \E h \in Handlers, p \in Processes, k \in SyncKinds,
                       es \in (SUBSET ESims) \ {{}}, s \in {"waiting", "asking"} :
                          Begins(h, p, k, es, s)
<1>1. \A k \in Locked : k \in SyncKinds
  BY DEF SyncKinds
<1>2. "listed" \in Locked /\ "single" \in Locked
      /\ "recover" \in SyncKinds \ Locked /\ "refresh" \in SyncKinds \ Locked
  BY DEF SyncKinds, Locked
<1>3. ASSUME NEW h \in Handlers, NEW p \in Processes, NEW es \in Lists,
             StartsUnlessBusy(h, p, es) \/ StartsSingle(h, p, es)
      PROVE  Begin
  <2>1. es \in (SUBSET ESims) \ {{}}
    BY SyncAssumption
  <2>2. PICK k \in Locked : run[h] = Nobody /\ TakesOrWaits(h, p, k, es)
                            /\ UNCHANGED <<live, stored, author>>
    BY <1>2, <1>3 DEF StartsUnlessBusy, StartsSingle
  <2>3. Begins(h, p, k, es, "asking") \/ Begins(h, p, k, es, "waiting")
    BY <2>2 DEF TakesOrWaits, Begins
  <2> QED BY <1>1, <2>1, <2>3
<1>4. ASSUME NEW h \in Handlers, NEW p \in Processes, NEW es \in Lists, StartsRefresh(h, p, es)
      PROVE  Begin
  <2>1. es \in (SUBSET ESims) \ {{}}
    BY SyncAssumption
  <2>2. Begins(h, p, "refresh", es, "asking")
    BY <1>2, <1>4 DEF StartsRefresh, Begins
  <2> QED BY <1>2, <2>1, <2>2
<1>5. ASSUME NEW h \in Handlers, NEW p \in Processes, NEW e \in ESims, StartsRecover(h, p, e)
      PROVE  Begin
  <2>1. {e} \in (SUBSET ESims) \ {{}}
    OBVIOUS
  <2>2. Begins(h, p, "recover", {e}, "asking")
    BY <1>2, <1>5 DEF StartsRecover, Begins
  <2> QED BY <1>2, <2>1, <2>2
<1> HIDE DEF Begin
<1>6. \/ \E e \in ESims : Used(e)
      \/ \E h \in Handlers : Acquires(h)
      \/ \E h \in Handlers : ProviderReports(h)
      \/ \E h \in Handlers : Writes(h)
      \/ \E h \in Handlers : BatchFails(h)
      \/ Begin
      \/ \E p \in Processes : ProcessEnds(p)
  BY <1>3, <1>4, <1>5 DEF SyncNext, HandlerSteps
<1> QED BY <1>6 DEF Begin

(* A run that ends or goes on.                                             *)
LEMMA GoesOnRule ==
    ASSUME CountersInv, NEW h \in Handlers, run[h] # Nobody, NEW b,
           Continues(h, run[h].todo \ b) \/ EndsRun(h)
    PROVE  GoesOn(h)
<1>1. run[h] \in Runs /\ run \in [Handlers -> Runs \cup {Nobody}]
  BY DEF CountersInv
<1>2. CASE EndsRun(h)
  BY <1>1, <1>2 DEF EndsRun, GoesOn
<1>3. CASE Continues(h, run[h].todo \ b) /\ ~ EndsRun(h)
  <2> DEFINE rest == run[h].todo \ b
             new  == [run[h] EXCEPT !.stage = "asking", !.todo = rest,
                                    !.batch = {}, !.answer = <<>>]
  <2>1. rest # {} /\ run' = [run EXCEPT ![h].stage = "asking", ![h].todo = rest,
                                        ![h].batch = {}, ![h].answer = <<>>]
        /\ UNCHANGED holder
    BY <1>3 DEF Continues
  <2>2. rest \in (SUBSET ESims) \ {{}}
    <3>1. run[h].todo \subseteq ESims
      BY <1>1 DEF Runs
    <3> QED BY <2>1, <3>1
  <2> HIDE DEF rest
  <2>3. run' = [run EXCEPT ![h] = new]
    BY <1>1, <2>1
  <2>4. <<>> \in Reports /\ DOMAIN <<>> = {}
    BY ReportRule
  <2>5. /\ new \in Runs /\ new.process = run[h].process /\ new.kind = run[h].kind
        /\ new.stage = "asking" /\ new.batch = {} /\ DOMAIN new.answer = {}
    BY <1>1, <2>2, <2>4 DEF Runs
  <2> HIDE DEF new
  <2>6. run'[h] = new /\ run' = [run EXCEPT ![h] = run'[h]]
    BY <1>1, <2>3
  <2> QED BY <2>1, <2>5, <2>6 DEF GoesOn
<1> QED BY <1>2, <1>3

(* Who acquires the lock was at the head of the queue.                     *)
LEMMA AcquiresRule ==
    ASSUME CountersInv, LockInv, NEW h \in Handlers, Acquires(h)
    PROVE  /\ run[h] \in Runs /\ run[h] # Nobody /\ run[h].kind \in Locked
           /\ queue[run[h].process] \in Seq(Handlers)
           /\ Len(queue[run[h].process]) \in Nat \ {0}
           /\ queue[run[h].process][1] = h
           /\ Tail(queue[run[h].process]) \in Seq(Handlers)
           /\ Len(Tail(queue[run[h].process])) = Len(queue[run[h].process]) - 1
           /\ \A i \in 1 .. Len(queue[run[h].process]) - 1 :
                 Tail(queue[run[h].process])[i] = queue[run[h].process][i + 1]
<1> DEFINE q == queue[run[h].process]
<1>1. run[h] \in Runs /\ run[h] # Nobody /\ run[h].process \in Processes
  BY DEF Acquires, IsAt, CountersInv, Runs
<1>2. run[h].kind \in Locked /\ \E i \in 1 .. Len(q) : q[i] = h
  BY DEF Acquires, LockInv
<1>3. q \in Seq(Handlers) /\ Head(q) = h
  BY <1>1 DEF Acquires, CountersInv
<1> HIDE DEF q
<1>4. Len(q) \in Nat \ {0}
  BY <1>2, <1>3
<1>5. /\ q[1] = h /\ Tail(q) \in Seq(Handlers) /\ Len(Tail(q)) = Len(q) - 1
      /\ \A i \in 1 .. Len(q) - 1 : Tail(q)[i] = q[i + 1]
  BY <1>3, <1>4
<1> QED BY <1>1, <1>2, <1>3, <1>4, <1>5 DEF q

(* Every step keeps the types.                                             *)
LEMMA CountersStep == CountersInv /\ LockInv /\ [SyncNext]_syncVars => CountersInv'
<1> SUFFICES ASSUME CountersInv, LockInv, [SyncNext]_syncVars PROVE CountersInv'
  OBVIOUS
<1>0. \A h \in Handlers : run[h] # Nobody =>
         /\ run[h] \in Runs
         /\ run[h].answer \in Reports
         /\ \A e \in DOMAIN run[h].answer : e \in ESims /\ run[h].answer[e] \in Nat
  <2>1. \A h \in Handlers : run[h] # Nobody => run[h] \in Runs /\ run[h].answer \in Reports
    BY DEF CountersInv, Runs
  <2>2. ASSUME NEW h \in Handlers, run[h] # Nobody
        PROVE  \A e \in DOMAIN run[h].answer : e \in ESims /\ run[h].answer[e] \in Nat
    BY <2>1, <2>2, ReportRule
  <2> QED BY <2>1, <2>2
<1>1. ASSUME NEW e \in ESims, Used(e)
      PROVE  CountersInv'
  <2>1. live[e] \in Nat /\ MaxUsed[e] \in Nat /\ live[e] < MaxUsed[e]
    BY <1>1, SyncAssumption DEF Used, CountersInv
  <2>2. live' \in [ESims -> Nat] /\ \A f \in ESims : live[f] <= live'[f] /\ live'[f] <= MaxUsed[f]
    BY <1>1, <2>1 DEF Used, CountersInv
  <2>3. \A f \in ESims : stored[f] <= live'[f]
    BY <2>2 DEF CountersInv
  <2>4. ASSUME NEW h \in Handlers, run[h] # Nobody
        PROVE  \A f \in DOMAIN run[h].answer : run[h].answer[f] <= live'[f]
    BY <1>0, <2>2, <2>4 DEF CountersInv
  <2> QED BY <1>1, <2>2, <2>3, <2>4 DEF Used, CountersInv
<1>2. ASSUME NEW h \in Handlers, Acquires(h)
      PROVE  CountersInv'
  <2> DEFINE new == [run[h] EXCEPT !.stage = "asking"]
             p   == run[h].process
  <2>1. run[h] # Nobody /\ run[h] \in Runs /\ Tail(queue[p]) \in Seq(Handlers)
    BY <1>2, AcquiresRule
  <2>2. /\ new \in Runs /\ new.batch = run[h].batch /\ new.todo = run[h].todo
        /\ new.answer = run[h].answer /\ p \in Processes
    BY <2>1 DEF Runs
  <2>3. run' = [run EXCEPT ![h] = new] /\ holder' = [holder EXCEPT ![p] = h]
        /\ queue' = [queue EXCEPT ![p] = Tail(@)]
    BY <1>2 DEF Acquires
  <2> HIDE DEF new, p
  <2>4. queue' \in [Processes -> Seq(Handlers)]
    BY <2>1, <2>2, <2>3 DEF CountersInv
  <2>5. holder' \in [Processes -> Handlers \cup {Nobody}]
    BY <2>2, <2>3 DEF CountersInv
  <2>6. /\ run' \in [Handlers -> Runs \cup {Nobody}]
        /\ \A g \in Handlers : run'[g] # Nobody =>
              /\ run[g] # Nobody
              /\ run'[g].batch = run[g].batch /\ run'[g].todo = run[g].todo
              /\ run'[g].answer = run[g].answer
    BY <2>1, <2>2, <2>3 DEF CountersInv
  <2>7. UNCHANGED <<live, stored, author>>
    BY <1>2 DEF Acquires
  <2> QED BY <2>4, <2>5, <2>6, <2>7 DEF CountersInv
<1>3. ASSUME NEW h \in Handlers, ProviderReports(h)
      PROVE  CountersInv'
  <2>1. run[h] # Nobody /\ run[h] \in Runs
    BY <1>0, <1>3 DEF ProviderReports, IsAt
  <2>2. PICK b \in BatchOf(h) : \E a \in Answer(h, b) :
           run' = [run EXCEPT ![h].stage = "writing", ![h].batch = b, ![h].answer = a]
    BY <1>3 DEF ProviderReports
  <2>2a. PICK a \in Answer(h, b) :
           run' = [run EXCEPT ![h].stage = "writing", ![h].batch = b, ![h].answer = a]
    BY <2>2
  <2>3. b \subseteq run[h].todo /\ b \in SUBSET ESims
    BY <2>1, BatchRule DEF Runs
  <2>4. a \in Reports /\ DOMAIN a \subseteq b /\ \A e \in DOMAIN a : a[e] <= live[e]
    BY <2>3, AnswerRule
  <2> DEFINE new == [run[h] EXCEPT !.stage = "writing", !.batch = b, !.answer = a]
  <2>5. run' = [run EXCEPT ![h] = new]
    BY <2>2a
  <2>6. new \in Runs /\ new.batch = b /\ new.todo = run[h].todo /\ new.answer = a
    BY <2>1, <2>3, <2>4 DEF Runs
  <2> HIDE DEF new
  <2> QED BY <1>3, <2>3, <2>4, <2>5, <2>6 DEF ProviderReports, CountersInv
<1>4. ASSUME NEW h \in Handlers, Writes(h)
      PROVE  CountersInv'
  <2>1. run[h] # Nobody /\ run[h] \in Runs
    BY <1>0, <1>4 DEF Writes, IsAt
  <2>2. GoesOn(h)
    BY <1>4, <2>1, GoesOnRule DEF Writes
  <2>3. stored' \in [ESims -> Nat] /\ \A e \in ESims : stored'[e] <= live[e]
    BY <1>0, <1>4, <2>1 DEF Writes, CountersInv
  <2>4. AuthorOf(h) \in Processes \cup {Nobody}
    BY <2>1 DEF AuthorOf, Runs
  <2>5. author' \in [ESims -> Processes \cup {Nobody}]
    BY <1>4, <2>4 DEF Writes, CountersInv
  <2>6. UNCHANGED <<live, queue>>
    BY <1>4 DEF Writes
  <2> QED BY <2>1, <2>2, <2>3, <2>5, <2>6 DEF GoesOn, CountersInv
<1>5. ASSUME NEW h \in Handlers, BatchFails(h)
      PROVE  CountersInv'
  <2>1. run[h] # Nobody /\ UNCHANGED <<live, stored, author, queue>>
    BY <1>5 DEF BatchFails, IsAt
  <2>2. \E b : Continues(h, run[h].todo \ b) \/ EndsRun(h)
    BY <1>5 DEF BatchFails
  <2>3. GoesOn(h)
    BY <2>1, <2>2, GoesOnRule
  <2> QED BY <2>1, <2>3 DEF GoesOn, CountersInv
<1>6. ASSUME NEW h \in Handlers, NEW p \in Processes, NEW k \in SyncKinds,
             NEW es \in (SUBSET ESims) \ {{}}, NEW s \in {"waiting", "asking"},
             Begins(h, p, k, es, s)
      PROVE  CountersInv'
  <2>1. queue' \in [Processes -> Seq(Handlers)]
    <3>1. queue[p] \in Seq(Handlers)
      BY DEF CountersInv
    <3>2. Append(queue[p], h) \in Seq(Handlers)
      BY <3>1
    <3>3. queue' = queue \/ queue' = [queue EXCEPT ![p] = Append(queue[p], h)]
      BY <1>6 DEF Begins
    <3> QED BY <3>2, <3>3 DEF CountersInv
  <2>2. holder' \in [Processes -> Handlers \cup {Nobody}]
    BY <1>6 DEF Begins, CountersInv
  <2> DEFINE new == NewRun(p, k, es, s)
  <2>3. new \in Runs /\ new.batch = {} /\ DOMAIN new.answer = {}
    BY NewRunRule
  <2>4. run' = [run EXCEPT ![h] = new] /\ UNCHANGED <<live, stored, author>>
    BY <1>6 DEF Begins
  <2> HIDE DEF new
  <2>5. run' \in [Handlers -> Runs \cup {Nobody}]
    BY <2>3, <2>4 DEF CountersInv
  <2>6. \A g \in Handlers : run'[g] # Nobody =>
          /\ run'[g].batch \subseteq run'[g].todo
          /\ DOMAIN run'[g].answer \subseteq run'[g].batch
          /\ \A e \in DOMAIN run'[g].answer : run'[g].answer[e] <= live[e]
    BY <2>3, <2>4 DEF CountersInv
  <2> QED BY <2>1, <2>2, <2>4, <2>5, <2>6 DEF CountersInv
<1>7. ASSUME NEW p \in Processes, ProcessEnds(p)
      PROVE  CountersInv'
  <2>1. queue' \in [Processes -> Seq(Handlers)]
    BY <1>7 DEF ProcessEnds, CountersInv
  <2> QED BY <1>7, <2>1 DEF ProcessEnds, CountersInv
<1>8. CASE UNCHANGED syncVars
  BY <1>8 DEF syncVars, CountersInv
<1> QED BY <1>1, <1>2, <1>3, <1>4, <1>5, <1>6, <1>7, <1>8, SyncCases

(* The types of the specification are among these.                         *)
LEMMA CountersTyped == CountersInv => SyncTypeOK
BY SyncAssumption DEF CountersInv, SyncTypeOK

(* Runs that a step leaves alone keep what the lock's invariant says.      *)
LEMMA GoesOnLock ==
    ASSUME CountersInv, LockInv, NEW h \in Handlers, run[h] # Nobody, ~ IsAt(h, "waiting"),
           GoesOn(h), UNCHANGED queue
    PROVE  LockInv'
<1>1. run[h] \in Runs /\ run \in [Handlers -> Runs \cup {Nobody}]
  BY DEF CountersInv
<1>2. ASSUME NEW g \in Handlers, g # h
      PROVE  /\ Inside(g)' => holder'[run'[g].process] = g
             /\ IsAt(g, "waiting")' =>
                   /\ run'[g].kind \in Locked
                   /\ \E i \in 1 .. Len(queue'[run'[g].process]) : queue'[run'[g].process][i] = g
  <2>1. run'[g] = run[g]
    BY <1>1, <1>2 DEF GoesOn
  <2>2. Inside(g) => holder'[run[g].process] = g
    <3>1. run[g] # Nobody => run[g].process \in Processes
      BY <1>1 DEF Runs
    <3> QED BY <1>2, <3>1 DEF Inside, GoesOn, LockInv
  <2> QED BY <2>1, <2>2 DEF Inside, IsAt, LockInv
<1>3. /\ Inside(h)' => holder'[run'[h].process] = h
      /\ ~ IsAt(h, "waiting")'
  BY NobodyAssumption DEF GoesOn, Inside, IsAt, LockInv
<1> QED BY <1>2, <1>3 DEF LockInv

(* Every step keeps the lock.                                              *)
LEMMA LockStep == CountersInv /\ LockInv /\ [SyncNext]_syncVars => LockInv'
<1> SUFFICES ASSUME CountersInv, LockInv, [SyncNext]_syncVars PROVE LockInv'
  OBVIOUS
<1>0. /\ \A g \in Handlers : run[g] # Nobody => run[g] \in Runs /\ run[g].process \in Processes
      /\ run \in [Handlers -> Runs \cup {Nobody}]
      /\ holder \in [Processes -> Handlers \cup {Nobody}]
      /\ queue \in [Processes -> Seq(Handlers)]
  BY DEF CountersInv, Runs
<1>1. ASSUME NEW e \in ESims, Used(e)
      PROVE  LockInv'
  BY <1>1 DEF Used, LockInv, Inside, IsAt
<1>2. ASSUME NEW h \in Handlers, Acquires(h)
      PROVE  LockInv'
  <2> DEFINE p == run[h].process
             q == queue[p]
  <2>1. /\ run[h] \in Runs /\ run[h] # Nobody /\ run[h].kind \in Locked /\ p \in Processes
        /\ Len(q) \in Nat \ {0} /\ q[1] = h
        /\ Len(Tail(q)) = Len(q) - 1
        /\ \A i \in 1 .. Len(q) - 1 : Tail(q)[i] = q[i + 1]
    BY <1>0, <1>2, AcquiresRule
  <2>2. /\ holder[p] = Nobody
        /\ holder' = [holder EXCEPT ![p] = h]
        /\ queue' = [queue EXCEPT ![p] = Tail(q)]
        /\ run' = [run EXCEPT ![h].stage = "asking"]
    BY <1>2 DEF Acquires
  <2>3. /\ run'[h] # Nobody /\ run'[h].process = p /\ run'[h].kind \in Locked
        /\ run'[h].stage = "asking"
        /\ \A g \in Handlers \ {h} : run'[g] = run[g]
    <3>1. run'[h] = [run[h] EXCEPT !.stage = "asking"]
      BY <1>0, <2>2
    <3>2. [run[h] EXCEPT !.stage = "asking"] \in Runs
      BY <2>1 DEF Runs
    <3>3. run'[h] # Nobody
      BY <3>1, <3>2, NobodyAssumption
    <3>4. /\ run'[h].process = p /\ run'[h].kind = run[h].kind
          /\ run'[h].stage = "asking"
      BY <2>1, <3>1 DEF Runs
    <3>5. \A g \in Handlers \ {h} : run'[g] = run[g]
      BY <1>0, <2>2
    <3> QED BY <2>1, <3>3, <3>4, <3>5
  <2> HIDE DEF p, q
  <2>4. ASSUME NEW g \in Handlers, g # h
        PROVE  /\ Inside(g)' => holder'[run'[g].process] = g
               /\ IsAt(g, "waiting")' =>
                     /\ run'[g].kind \in Locked
                     /\ \E i \in 1 .. Len(queue'[run'[g].process]) :
                           queue'[run'[g].process][i] = g
    <3>1. ASSUME Inside(g)
          PROVE  holder'[run[g].process] = g
      <4>1. holder[run[g].process] = g /\ run[g].process \in Processes
        BY <1>0, <3>1 DEF LockInv, Inside
      <4>2. run[g].process # p
        BY <2>2, <4>1, NobodyAssumption
      <4> QED BY <1>0, <2>1, <2>2, <4>1, <4>2
    <3>2. ASSUME IsAt(g, "waiting")
          PROVE  /\ run[g].kind \in Locked
                 /\ \E i \in 1 .. Len(queue'[run[g].process]) : queue'[run[g].process][i] = g
      <4>1. PICK i \in 1 .. Len(queue[run[g].process]) : queue[run[g].process][i] = g
        BY <3>2 DEF LockInv
      <4>2. run[g].kind \in Locked /\ run[g].process \in Processes
        BY <1>0, <3>2 DEF LockInv, IsAt
      <4>3. CASE run[g].process # p
        BY <1>0, <2>1, <2>2, <4>1, <4>2, <4>3
      <4>4. CASE run[g].process = p
        <5>1. queue'[run[g].process] = Tail(q)
          BY <1>0, <2>1, <2>2, <4>4
        <5>2. i \in 1 .. Len(q) /\ q[i] = g
          BY <4>1, <4>4 DEF q
        <5>3. i # 1 /\ i - 1 \in 1 .. Len(q) - 1 /\ (i - 1) + 1 = i
          BY <2>1, <2>4, <5>2
        <5>4. Tail(q)[i - 1] = g /\ i - 1 \in 1 .. Len(Tail(q))
          BY <2>1, <5>2, <5>3
        <5> QED BY <4>2, <5>1, <5>4
      <4> QED BY <4>3, <4>4
    <3> QED BY <2>3, <2>4, <3>1, <3>2 DEF Inside, IsAt
  <2>5. Inside(h)' => holder'[run'[h].process] = h
    BY <1>0, <2>1, <2>2, <2>3
  <2>6. ~ IsAt(h, "waiting")'
    BY <2>3 DEF IsAt
  <2> QED BY <2>4, <2>5, <2>6 DEF LockInv
<1>3. ASSUME NEW h \in Handlers, ProviderReports(h)
      PROVE  LockInv'
  <2>1. run[h] # Nobody /\ run[h].stage = "asking" /\ run[h] \in Runs
    BY <1>0, <1>3 DEF ProviderReports, IsAt
  <2>2. PICK b \in BatchOf(h) : \E a \in Answer(h, b) :
           run' = [run EXCEPT ![h].stage = "writing", ![h].batch = b, ![h].answer = a]
    BY <1>3 DEF ProviderReports
  <2>3. /\ run'[h].process = run[h].process /\ run'[h].kind = run[h].kind
        /\ run'[h].stage = "writing"
        /\ \A g \in Handlers \ {h} : run'[g] = run[g]
    BY <1>0, <2>1, <2>2 DEF Runs
  <2>4. UNCHANGED <<holder, queue>>
    BY <1>3 DEF ProviderReports
  <2>5. ASSUME NEW g \in Handlers, g # h
        PROVE  /\ Inside(g)' => holder'[run'[g].process] = g
               /\ IsAt(g, "waiting")' =>
                     /\ run'[g].kind \in Locked
                     /\ \E i \in 1 .. Len(queue'[run'[g].process]) :
                           queue'[run'[g].process][i] = g
    BY <2>3, <2>4, <2>5 DEF LockInv, Inside, IsAt
  <2>6. Inside(h)' => holder'[run'[h].process] = h
    BY <2>1, <2>3, <2>4 DEF LockInv, Inside
  <2>7. ~ IsAt(h, "waiting")'
    BY <2>3 DEF IsAt
  <2> QED BY <2>5, <2>6, <2>7 DEF LockInv
<1>4. ASSUME NEW h \in Handlers, Writes(h)
      PROVE  LockInv'
  <2>1. run[h] # Nobody /\ ~ IsAt(h, "waiting") /\ UNCHANGED queue
    BY <1>4 DEF Writes, IsAt
  <2>2. GoesOn(h)
    BY <1>4, <2>1, GoesOnRule DEF Writes
  <2> QED BY <2>1, <2>2, GoesOnLock
<1>5. ASSUME NEW h \in Handlers, BatchFails(h)
      PROVE  LockInv'
  <2>1. run[h] # Nobody /\ ~ IsAt(h, "waiting") /\ UNCHANGED queue
    BY <1>5 DEF BatchFails, IsAt
  <2>2. \E b : Continues(h, run[h].todo \ b) \/ EndsRun(h)
    BY <1>5 DEF BatchFails
  <2>3. GoesOn(h)
    BY <2>1, <2>2, GoesOnRule
  <2> QED BY <2>1, <2>3, GoesOnLock
<1>6. ASSUME NEW h \in Handlers, NEW p \in Processes, NEW k \in SyncKinds,
             NEW es \in (SUBSET ESims) \ {{}}, NEW s \in {"waiting", "asking"},
             Begins(h, p, k, es, s)
      PROVE  LockInv'
  <2> DEFINE new == NewRun(p, k, es, s)
  <2>1. new \in Runs /\ new # Nobody /\ new.process = p /\ new.kind = k /\ new.stage = s
    BY NewRunRule, NobodyAssumption
  <2>2. run[h] = Nobody /\ run' = [run EXCEPT ![h] = new]
    BY <1>6 DEF Begins
  <2> HIDE DEF new
  <2>3. run'[h] = new /\ \A g \in Handlers \ {h} : run'[g] = run[g]
    BY <1>0, <2>2
  <2>4. ASSUME NEW g \in Handlers, g # h, Inside(g)
        PROVE  holder'[run[g].process] = g
    <3>1. holder[run[g].process] = g /\ run[g].process \in Processes
      BY <1>0, <2>4 DEF LockInv, Inside
    <3> QED BY <1>0, <1>6, <3>1, NobodyAssumption DEF Begins
  <2>5. ASSUME NEW g \in Handlers, g # h, IsAt(g, "waiting")
        PROVE  /\ run[g].kind \in Locked
               /\ \E i \in 1 .. Len(queue'[run[g].process]) : queue'[run[g].process][i] = g
    <3>1. PICK i \in 1 .. Len(queue[run[g].process]) : queue[run[g].process][i] = g
      BY <2>5 DEF LockInv
    <3>2. run[g].kind \in Locked /\ run[g].process \in Processes
      BY <1>0, <2>5 DEF LockInv, IsAt
    <3> DEFINE r == queue[run[g].process]
    <3>3. r \in Seq(Handlers)
      BY <1>0, <3>2
    <3>4. queue'[run[g].process] = r \/ queue'[run[g].process] = Append(r, h)
      BY <1>0, <1>6, <3>2 DEF Begins
    <3> HIDE DEF r
    <3>5. i \in 1 .. Len(r) /\ r[i] = g
      BY <3>1 DEF r
    <3>6. i \in 1 .. Len(Append(r, h)) /\ Append(r, h)[i] = g
      BY <3>3, <3>5
    <3> QED BY <3>2, <3>4, <3>5, <3>6
  <2>6. Inside(h)' => holder'[p] = h
    <3>1. ASSUME k \in Locked, s # "waiting" PROVE holder'[p] = h
      BY <1>0, <1>6, <3>1 DEF Begins
    <3> QED BY <2>1, <2>3, <3>1 DEF Inside
  <2>7. ASSUME s = "waiting"
        PROVE  k \in Locked /\ \E i \in 1 .. Len(queue'[p]) : queue'[p][i] = h
    <3> DEFINE r == queue[p]
    <3>1. k \in Locked /\ queue'[p] = Append(r, h) /\ r \in Seq(Handlers)
      BY <1>0, <1>6, <2>7 DEF Begins
    <3> HIDE DEF r
    <3>2. Len(r) + 1 \in 1 .. Len(Append(r, h)) /\ Append(r, h)[Len(r) + 1] = h
      BY <3>1
    <3> QED BY <3>1, <3>2
  <2>8. IsAt(h, "waiting")' =>
           /\ run'[h].kind \in Locked
           /\ \E i \in 1 .. Len(queue'[run'[h].process]) : queue'[run'[h].process][i] = h
    BY <2>1, <2>3, <2>7 DEF IsAt
  <2>9. ASSUME NEW g \in Handlers, g # h
        PROVE  /\ Inside(g)' => holder'[run'[g].process] = g
               /\ IsAt(g, "waiting")' =>
                     /\ run'[g].kind \in Locked
                     /\ \E i \in 1 .. Len(queue'[run'[g].process]) :
                           queue'[run'[g].process][i] = g
    BY <2>3, <2>4, <2>5, <2>9 DEF Inside, IsAt
  <2> QED BY <2>1, <2>3, <2>6, <2>8, <2>9 DEF LockInv
<1>7. ASSUME NEW p \in Processes, ProcessEnds(p)
      PROVE  LockInv'
  <2>1. ASSUME NEW g \in Handlers, run'[g] # Nobody
        PROVE  run'[g] = run[g] /\ run[g].process # p /\ run[g].process \in Processes
    BY <1>0, <1>7, <2>1 DEF ProcessEnds
  <2>2. \A r \in Processes : r # p => holder'[r] = holder[r] /\ queue'[r] = queue[r]
    BY <1>0, <1>7 DEF ProcessEnds
  <2>3. ASSUME NEW g \in Handlers, run'[g] # Nobody
        PROVE  /\ run'[g] = run[g] /\ run[g] # Nobody
               /\ holder'[run[g].process] = holder[run[g].process]
               /\ queue'[run[g].process] = queue[run[g].process]
    BY <2>1, <2>2, <2>3
  <2> QED BY <2>3 DEF LockInv, Inside, IsAt
<1>8. CASE UNCHANGED syncVars
  BY <1>8 DEF syncVars, LockInv, Inside, IsAt
<1> QED BY <1>1, <1>2, <1>3, <1>4, <1>5, <1>6, <1>7, <1>8, SyncCases

(* Two runs are never inside the same lock.                                *)
LEMMA OneInside ==
    ASSUME LockInv, NEW g \in Handlers, NEW h \in Handlers, Inside(g), Inside(h),
           run[g].process = run[h].process
    PROVE  g = h
BY DEF LockInv

(* Every step keeps what is said of the answers that wait to be written.   *)
LEMMA WritesStep ==
    CountersInv /\ LockInv /\ WritesInv /\ [SyncNext]_syncVars => WritesInv'
<1> SUFFICES ASSUME CountersInv, LockInv, WritesInv, [SyncNext]_syncVars PROVE WritesInv'
  OBVIOUS
<1> DEFINE Sound(g) ==
      /\ run[g].kind \in Locked =>
            \A e \in DOMAIN run[g].answer :
                author[e] = run[g].process => stored[e] <= run[g].answer[e]
      /\ run[g].kind = "refresh" => Cardinality(run[g].batch) = 1
<1>0. /\ \A g \in Handlers : run[g] # Nobody =>
            run[g] \in Runs /\ run[g].process \in Processes /\ run[g].answer \in Reports
      /\ run \in [Handlers -> Runs \cup {Nobody}]
      /\ \A g \in Handlers : IsAt(g, "writing") => Sound(g)
  BY DEF CountersInv, Runs, WritesInv
<1>a. SUFFICES ASSUME NEW g \in Handlers, IsAt(g, "writing")' PROVE Sound(g)'
  BY DEF WritesInv
<1>1. CASE run'[g] = run[g] /\ UNCHANGED <<stored, author>>
  BY <1>0, <1>1, <1>a DEF IsAt
<1>2. ASSUME NEW e \in ESims, Used(e)
      PROVE  Sound(g)'
  BY <1>1, <1>2 DEF Used
<1>3. ASSUME NEW h \in Handlers, Acquires(h)
      PROVE  Sound(g)'
  <2>1. run' = [run EXCEPT ![h].stage = "asking"] /\ run[h] \in Runs
    BY <1>0, <1>3 DEF Acquires, IsAt
  <2>2. run'[h].stage = "asking"
    BY <1>0, <2>1 DEF Runs
  <2>3. g # h
    BY <1>a, <2>2 DEF IsAt
  <2>4. run'[g] = run[g]
    BY <1>0, <2>1, <2>3
  <2> QED BY <1>1, <1>3, <2>4 DEF Acquires
<1>4. ASSUME NEW h \in Handlers, ProviderReports(h)
      PROVE  Sound(g)'
  <2>1. run[h] # Nobody /\ run[h] \in Runs /\ UNCHANGED <<stored, author>>
    BY <1>0, <1>4 DEF ProviderReports, IsAt
  <2>2. PICK b \in BatchOf(h) : \E a \in Answer(h, b) :
           run' = [run EXCEPT ![h].stage = "writing", ![h].batch = b, ![h].answer = a]
    BY <1>4 DEF ProviderReports
  <2>3. PICK a \in Answer(h, b) :
           run' = [run EXCEPT ![h].stage = "writing", ![h].batch = b, ![h].answer = a]
    BY <2>2
  <2>4. /\ b \in SUBSET ESims
        /\ run[h].kind = "refresh" => Cardinality(b) = 1
    BY <2>1, BatchRule DEF Runs
  <2>5. DOMAIN a \subseteq b
        /\ (run[h].kind # "refresh" => \A e \in DOMAIN a : a[e] = live[e])
    BY <2>4, AnswerRule
  <2>6. \A e \in DOMAIN a : stored[e] <= live[e]
    BY <2>4, <2>5 DEF CountersInv
  <2>7. /\ run'[h].kind = run[h].kind /\ run'[h].batch = b /\ run'[h].answer = a
        /\ \A f \in Handlers \ {h} : run'[f] = run[f]
    BY <1>0, <2>1, <2>3 DEF Runs
  <2>8. CASE g = h
    <3>1. run[h].kind \in Locked => run[h].kind # "refresh"
      BY DEF Locked
    <3> QED BY <2>1, <2>4, <2>5, <2>6, <2>7, <2>8, <3>1
  <2>9. CASE g # h
    BY <1>1, <2>1, <2>7, <2>9
  <2> QED BY <2>8, <2>9
<1>5. ASSUME NEW h \in Handlers, GoesOn(h), UNCHANGED <<stored, author>>
      PROVE  Sound(g)'
  <2>1. g # h
    BY <1>5, <1>a DEF GoesOn, IsAt
  <2>2. run'[g] = run[g]
    BY <1>0, <1>5, <2>1 DEF GoesOn
  <2> QED BY <1>1, <1>5, <2>2
<1>6. ASSUME NEW h \in Handlers, Writes(h)
      PROVE  Sound(g)'
  <2>1. run[h] # Nobody /\ run[h].stage = "writing"
    BY <1>6 DEF Writes, IsAt
  <2>2. GoesOn(h)
    BY <1>6, <2>1, GoesOnRule DEF Writes
  <2>3. g # h
    BY <1>a, <2>2 DEF GoesOn, IsAt
  <2>4. run'[g] = run[g] /\ IsAt(g, "writing")
    BY <1>0, <1>a, <2>2, <2>3 DEF GoesOn, IsAt
  <2>5. Sound(g) /\ run[g] # Nobody /\ run[g].stage = "writing"
    BY <1>0, <2>4 DEF IsAt
  <2>6. ASSUME run[g].kind \in Locked, NEW e \in DOMAIN run[g].answer,
               author'[e] = run[g].process
        PROVE  stored'[e] <= run[g].answer[e]
    <3>1. e \in ESims /\ run[g].process \in Processes
      BY <1>0, <2>5, ReportRule
    <3>2. CASE e \in DOMAIN run[h].answer
      <4>1. AuthorOf(h) = run[g].process
        BY <1>6, <2>6, <3>1, <3>2 DEF Writes
      <4>2. run[h].kind \in Locked /\ run[h].process = run[g].process
        BY <3>1, <4>1, NobodyAssumption DEF AuthorOf
      <4>3. Inside(g) /\ Inside(h)
        BY <2>1, <2>5, <2>6, <4>2 DEF Inside
      <4> QED BY <2>3, <4>2, <4>3, OneInside
    <3>3. CASE e \notin DOMAIN run[h].answer
      <4>1. stored'[e] = stored[e] /\ author'[e] = author[e]
        BY <1>6, <3>1, <3>3 DEF Writes
      <4> QED BY <2>5, <2>6, <4>1
    <3> QED BY <3>2, <3>3
  <2> QED BY <2>4, <2>5, <2>6
<1>7. ASSUME NEW h \in Handlers, BatchFails(h)
      PROVE  Sound(g)'
  <2>1. run[h] # Nobody /\ UNCHANGED <<stored, author>>
    BY <1>7 DEF BatchFails, IsAt
  <2>2. \E b : Continues(h, run[h].todo \ b) \/ EndsRun(h)
    BY <1>7 DEF BatchFails
  <2>3. GoesOn(h)
    BY <2>1, <2>2, GoesOnRule
  <2> QED BY <1>5, <2>1, <2>3
<1>8. ASSUME NEW h \in Handlers, NEW p \in Processes, NEW k \in SyncKinds,
             NEW es \in (SUBSET ESims) \ {{}}, NEW s \in {"waiting", "asking"},
             Begins(h, p, k, es, s)
      PROVE  Sound(g)'
  <2> DEFINE new == NewRun(p, k, es, s)
  <2>1. new.stage = s
    BY NewRunRule
  <2>2. run' = [run EXCEPT ![h] = new] /\ UNCHANGED <<stored, author>>
    BY <1>8 DEF Begins
  <2> HIDE DEF new
  <2>3. g # h
    BY <1>0, <1>a, <2>1, <2>2 DEF IsAt
  <2>4. run'[g] = run[g]
    BY <1>0, <2>2, <2>3
  <2> QED BY <1>1, <2>2, <2>4
<1>9. ASSUME NEW p \in Processes, ProcessEnds(p)
      PROVE  Sound(g)'
  <2>1. run'[g] = run[g]
    BY <1>9, <1>a DEF ProcessEnds, IsAt
  <2> QED BY <1>1, <1>9, <2>1 DEF ProcessEnds
<1>10. CASE UNCHANGED syncVars
  BY <1>1, <1>10 DEF syncVars
<1> QED BY <1>2, <1>3, <1>4, <1>6, <1>7, <1>8, <1>9, <1>10, SyncCases

(* The syncs start idle.                                                   *)
LEMMA SyncStart == SyncInit => CountersInv /\ LockInv /\ WritesInv
<1> SUFFICES ASSUME SyncInit PROVE CountersInv /\ LockInv /\ WritesInv
  OBVIOUS
<1>1. \A h \in Handlers : run[h] = Nobody
  BY DEF SyncInit
<1>2. <<>> \in Seq(Handlers)
  OBVIOUS
<1>3. queue \in [Processes -> Seq(Handlers)]
  BY <1>2 DEF SyncInit
<1>4. \A e \in ESims : MaxUsed[e] \in Nat
  BY SyncAssumption
<1>5. CountersInv
  BY <1>1, <1>3, <1>4 DEF SyncInit, CountersInv
<1>6. LockInv /\ WritesInv
  BY <1>1 DEF LockInv, WritesInv, Inside, IsAt
<1> QED BY <1>5, <1>6

(* What every step of the syncs starts from.                               *)
LEMMA SyncInv == SyncSpec => [](CountersInv /\ LockInv /\ WritesInv)
BY SyncStart, CountersStep, LockStep, WritesStep, PTL DEF SyncSpec

(* The counters, the locks with their queues and the runs keep their types *)
(* through any interleaving of syncs, refreshes, recoveries and restarts.  *)
THEOREM SyncTypeCorrect == SyncSpec => []SyncTypeOK
BY SyncInv, CountersTyped, PTL

(* Only a writer that is not covered by the lock turns a counter back.     *)
LEMMA TurnBackStep ==
    CountersInv /\ LockInv /\ WritesInv /\ [SyncNext]_syncVars =>
        [\A e \in ESims : stored'[e] < stored[e] =>
            \E h \in Handlers :
                /\ IsAt(h, "writing") /\ e \in DOMAIN run[h].answer
                /\ run[h].kind \in Locked => author[e] # run[h].process]_syncVars
<1> SUFFICES ASSUME CountersInv, LockInv, WritesInv, SyncNext,
                    NEW e \in ESims, stored'[e] < stored[e]
             PROVE  \E h \in Handlers :
                        /\ IsAt(h, "writing") /\ e \in DOMAIN run[h].answer
                        /\ run[h].kind \in Locked => author[e] # run[h].process
  OBVIOUS
<1>1. stored[e] \in Nat /\ stored'[e] # stored[e]
  BY DEF CountersInv
<1>2. PICK h \in Handlers : Writes(h)
  BY <1>1, SyncCases
     DEF Used, Acquires, ProviderReports, BatchFails, Begins, ProcessEnds
<1>3. IsAt(h, "writing") /\ e \in DOMAIN run[h].answer /\ stored'[e] = run[h].answer[e]
  BY <1>1, <1>2 DEF Writes
<1>4. run[h].answer[e] \in Nat
  <2>1. run[h].answer \in Reports
    BY <1>3 DEF CountersInv, Runs, IsAt
  <2> QED BY <1>3, <2>1, ReportRule
<1>5. run[h].kind \in Locked => author[e] # run[h].process
  <2>1. ASSUME run[h].kind \in Locked, author[e] = run[h].process
        PROVE  stored[e] <= run[h].answer[e]
    BY <1>3, <2>1 DEF WritesInv
  <2> QED BY <1>1, <1>3, <1>4, <2>1
<1> QED BY <1>3, <1>5

(* A refresh ends with its last profile, or with its process.              *)
LEMMA RefreshStep ==
    CountersInv /\ LockInv /\ WritesInv /\ [SyncNext]_syncVars =>
        [\A h \in Handlers :
            (run[h] # Nobody /\ run[h].kind = "refresh" /\ run'[h] = Nobody)
            => Cardinality(run[h].todo) = 1 \/ ProcessEnds(run[h].process)]_syncVars
<1> SUFFICES ASSUME CountersInv, LockInv, WritesInv, SyncNext, NEW h \in Handlers,
                    run[h] # Nobody, run[h].kind = "refresh", run'[h] = Nobody,
                    ~ ProcessEnds(run[h].process)
             PROVE  Cardinality(run[h].todo) = 1
  OBVIOUS
<1>0. /\ run \in [Handlers -> Runs \cup {Nobody}] /\ run[h] \in Runs
      /\ run[h].batch \subseteq run[h].todo
  BY DEF CountersInv
<1>1. ASSUME NEW b, Cardinality(b) = 1, b \subseteq run[h].todo,
             Continues(h, run[h].todo \ b)
      PROVE  Cardinality(run[h].todo) = 1
  <2>1. CASE run[h].todo \ b = {}
    <3>1. b = run[h].todo
      BY <1>1, <2>1
    <3> QED BY <1>1, <3>1
  <2>2. CASE run[h].todo \ b # {}
    <3> DEFINE rest == run[h].todo \ b
               new  == [run[h] EXCEPT !.stage = "asking", !.todo = rest,
                                      !.batch = {}, !.answer = <<>>]
    <3>1. run' = [run EXCEPT ![h].stage = "asking", ![h].todo = rest,
                             ![h].batch = {}, ![h].answer = <<>>]
      BY <1>1, <2>2 DEF Continues
    <3>2. rest \in (SUBSET ESims) \ {{}}
      <4>1. run[h].todo \subseteq ESims
        BY <1>0 DEF Runs
      <4> QED BY <2>2, <4>1
    <3> HIDE DEF rest
    <3>3. <<>> \in Reports
      BY ReportRule
    <3>4. new \in Runs
      BY <1>0, <3>2, <3>3 DEF Runs
    <3>5. run'[h] = new
      BY <1>0, <3>1
    <3> QED BY <3>4, <3>5, NobodyAssumption
  <2> QED BY <2>1, <2>2
<1>2. ASSUME NEW g \in Handlers, Writes(g)
      PROVE  Cardinality(run[h].todo) = 1
  <2>1. run[g] # Nobody /\ GoesOn(g)
    BY <1>2, GoesOnRule DEF Writes, IsAt
  <2>2. g = h
    BY <1>0, <2>1 DEF GoesOn
  <2>3. Cardinality(run[h].batch) = 1
    BY <1>2, <2>2 DEF Writes, WritesInv
  <2> QED BY <1>0, <1>1, <1>2, <2>2, <2>3 DEF Writes
<1>3. ASSUME NEW g \in Handlers, BatchFails(g)
      PROVE  Cardinality(run[h].todo) = 1
  <2>1. run[g] # Nobody /\ \E b : Continues(g, run[g].todo \ b) \/ EndsRun(g)
    BY <1>3 DEF BatchFails, IsAt
  <2>2. GoesOn(g)
    BY <2>1, GoesOnRule
  <2>3. g = h
    BY <1>0, <2>2 DEF GoesOn
  <2>4. CASE run[h].stage = "writing"
    <3>1. Continues(h, run[h].todo \ run[h].batch)
      BY <1>3, <2>3, <2>4 DEF BatchFails
    <3>2. Cardinality(run[h].batch) = 1
      BY <2>4 DEF WritesInv, IsAt
    <3> QED BY <1>0, <1>1, <3>1, <3>2
  <2>5. CASE run[h].stage # "writing"
    <3>1. PICK b \in BatchOf(h) : Continues(h, run[h].todo \ b)
      BY <1>3, <2>3, <2>5 DEF BatchFails
    <3>2. b \subseteq run[h].todo /\ Cardinality(b) = 1
      BY BatchRule
    <3> QED BY <1>1, <3>1, <3>2
  <2> QED BY <2>4, <2>5
<1>4. ASSUME NEW g \in Handlers, Acquires(g)
      PROVE  FALSE
  <2>1. run' = [run EXCEPT ![g].stage = "asking"] /\ run[g] \in Runs /\ run[g].kind \in Locked
    BY <1>4, AcquiresRule DEF Acquires
  <2>2. g # h
    BY <2>1 DEF Locked
  <2> QED BY <1>0, <2>1, <2>2
<1>5. ASSUME NEW g \in Handlers, ProviderReports(g)
      PROVE  FALSE
  <2>1. run[g] # Nobody /\ run[g] \in Runs
    BY <1>5 DEF ProviderReports, IsAt, CountersInv
  <2>2. PICK b \in BatchOf(g) : \E a \in Answer(g, b) :
           run' = [run EXCEPT ![g].stage = "writing", ![g].batch = b, ![g].answer = a]
    BY <1>5 DEF ProviderReports
  <2>3. PICK a \in Answer(g, b) :
           run' = [run EXCEPT ![g].stage = "writing", ![g].batch = b, ![g].answer = a]
    BY <2>2
  <2>4. b \in SUBSET ESims
    BY <2>1, BatchRule DEF Runs
  <2>5. a \in Reports
    BY <2>4, AnswerRule
  <2> DEFINE new == [run[g] EXCEPT !.stage = "writing", !.batch = b, !.answer = a]
  <2>6. new \in Runs
    BY <2>1, <2>4, <2>5 DEF Runs
  <2>7. run' = [run EXCEPT ![g] = new]
    BY <2>3
  <2> HIDE DEF new
  <2> QED BY <1>0, <2>6, <2>7, NobodyAssumption
<1>6. ASSUME NEW g \in Handlers, NEW p \in Processes, NEW k \in SyncKinds,
             NEW es \in (SUBSET ESims) \ {{}}, NEW s \in {"waiting", "asking"},
             Begins(g, p, k, es, s)
      PROVE  FALSE
  <2>1. run[g] = Nobody /\ run' = [run EXCEPT ![g] = NewRun(p, k, es, s)]
    BY <1>6 DEF Begins
  <2>2. g # h
    BY <2>1
  <2> QED BY <1>0, <2>1, <2>2
<1>7. ASSUME NEW p \in Processes, ProcessEnds(p)
      PROVE  FALSE
  <2>1. run[h].process = p
    BY <1>7 DEF ProcessEnds
  <2> QED BY <1>7, <2>1
<1>8. ~ \E e \in ESims : Used(e)
  BY DEF Used
<1> QED BY <1>2, <1>3, <1>4, <1>5, <1>6, <1>7, <1>8, SyncCases

(* Under the lock no counter goes back, whatever the order in which calls  *)
(* are answered; and a refresh leaves no profile out, unless its process   *)
(* ends (_run_periodic_usage_sync_once, sync_usage,                        *)
(* _perform_active_usage_refresh).                                         *)
THEOREM SyncsKeep == SyncSpec => SyncsKeepUsage
<1>1. SyncSpec => LockedSyncsNeverTurnBack
  BY SyncInv, TurnBackStep, PTL DEF SyncSpec, LockedSyncsNeverTurnBack
<1>2. SyncSpec => RefreshTriesAll
  BY SyncInv, RefreshStep, PTL DEF SyncSpec, RefreshTriesAll
<1> QED BY <1>1, <1>2, PTL DEF SyncsKeepUsage

-----------------------------------------------------------------------------
(* FibClient.                                                              *)

CallRecords ==
    [stage : {"new", "locking", "authslot", "auth", "slot", "sent", "executed",
              "done", "failed", "unauthorised"},
     token : 1 .. MaxIssued \cup {NoToken},
     refused : SUBSET (1 .. MaxIssued),
     known : 0 .. MaxIssued,
     executions : Nat]

(* Who is in a queue, and that nobody is in it twice.                      *)
Members(q) == {q[i] : i \in 1 .. Len(q)}
Once(q)    == \A i, j \in 1 .. Len(q) : q[i] = q[j] => i = j

Queued    == {"locking", "authslot", "auth"}
Throttled == {"authslot", "slot"}

(* The queues hold who waits for their locks, and the token is fetched by  *)
(* who holds the token lock.                                               *)
QueueInv ==
    /\ call \in [Calls -> CallRecords]
    /\ tokenQueue \in Seq(Calls) /\ Once(tokenQueue)
    /\ limiterQueue \in Seq(Calls) /\ Once(limiterQueue)
    /\ \A c \in Calls : c \in Members(tokenQueue) <=> call[c].stage \in Queued
    /\ \A c \in Calls : c \in Members(limiterQueue) <=> call[c].stage \in Throttled
    /\ \A c \in Calls : call[c].stage \in {"authslot", "auth"} => Head(tokenQueue) = c

(* What is cached, accepted and sent has been issued.                      *)
TokensInv ==
    /\ untilSlot \in {0, 1}
    /\ left \in Seq(0 .. TokenLife) /\ Len(left) <= MaxIssued
    /\ cached \in Issued \cup {NoToken}
    /\ accepted \subseteq Issued
    /\ \A c \in Calls : call[c].stage \in {"slot", "sent"} => call[c].token \in Issued

(* What a call has behind it, when n tokens have been issued: a second try *)
(* has a token younger than the refusal of the first.                      *)
SoundCall(r, n) ==
    /\ r.executions \in {0, 1}
    /\ r.stage \notin {"executed", "done", "failed"} => r.executions = 0
    /\ r.stage = "new" => r.refused = {}
    /\ r.known <= n
    /\ r.refused # {} /\ r.stage \in {"slot", "sent"} => r.token \in Nat /\ r.token > r.known
    /\ r.stage = "unauthorised" => \E t \in r.refused : t > r.known

CallsInv == \A c \in Calls : SoundCall(call[c], Len(left))

(* Queues that grow at their end and shrink at their head.                 *)
LEMMA QueueRule ==
    ASSUME NEW q \in Seq(Calls), Once(q), NEW c \in Calls
    PROVE  /\ c \notin Members(q) =>
                 /\ Append(q, c) \in Seq(Calls) /\ Once(Append(q, c))
                 /\ Members(Append(q, c)) = Members(q) \cup {c}
                 /\ Len(Append(q, c)) = Len(q) + 1
                 /\ Append(q, c)[Len(q) + 1] = c
                 /\ \A i \in 1 .. Len(q) : Append(q, c)[i] = q[i]
                 /\ q # <<>> => Head(Append(q, c)) = Head(q)
           /\ c \in Members(q) /\ Head(q) = c =>
                 /\ Tail(q) \in Seq(Calls) /\ Once(Tail(q))
                 /\ Members(Tail(q)) = Members(q) \ {c}
                 /\ Len(q) \in Nat \ {0} /\ Len(Tail(q)) = Len(q) - 1
                 /\ q[1] = c
                 /\ \A i \in 1 .. Len(q) - 1 : Tail(q)[i] = q[i + 1]
<1>1. ASSUME c \notin Members(q)
      PROVE  /\ Append(q, c) \in Seq(Calls) /\ Once(Append(q, c))
             /\ Members(Append(q, c)) = Members(q) \cup {c}
             /\ Len(Append(q, c)) = Len(q) + 1
             /\ Append(q, c)[Len(q) + 1] = c
             /\ \A i \in 1 .. Len(q) : Append(q, c)[i] = q[i]
             /\ q # <<>> => Head(Append(q, c)) = Head(q)
  <2> DEFINE a == Append(q, c)
  <2>1. /\ a \in Seq(Calls) /\ Len(a) = Len(q) + 1 /\ a[Len(q) + 1] = c /\ Len(q) \in Nat
        /\ \A i \in 1 .. Len(q) : a[i] = q[i]
    OBVIOUS
  <2>2. q # <<>> => Head(a) = Head(q)
    <3>1. ASSUME q # <<>> PROVE Head(a) = Head(q)
      <4>1. Len(q) \in Nat \ {0}
        BY <3>1
      <4>2. Head(a) = a[1] /\ Head(q) = q[1] /\ 1 \in 1 .. Len(q)
        BY <2>1, <4>1
      <4> QED BY <2>1, <4>2
    <3> QED BY <3>1
  <2> HIDE DEF a
  <2>3. \A i \in 1 .. Len(q) : q[i] # c
    BY <1>1 DEF Members
  <2>4. \A i \in 1 .. Len(a) : i \in 1 .. Len(q) \/ i = Len(q) + 1
    BY <2>1
  <2>5. Once(a)
    BY <2>1, <2>3, <2>4 DEF Once
  <2>6. Members(a) = Members(q) \cup {c}
    <3>1. \A i \in 1 .. Len(q) : i \in 1 .. Len(a)
      BY <2>1
    <3>2. Len(q) + 1 \in 1 .. Len(a)
      BY <2>1
    <3> QED BY <2>1, <2>4, <3>1, <3>2 DEF Members
  <2> QED BY <2>1, <2>2, <2>5, <2>6 DEF a
<1>2. ASSUME c \in Members(q), Head(q) = c
      PROVE  /\ Tail(q) \in Seq(Calls) /\ Once(Tail(q))
             /\ Members(Tail(q)) = Members(q) \ {c}
             /\ Len(q) \in Nat \ {0} /\ Len(Tail(q)) = Len(q) - 1
             /\ q[1] = c
             /\ \A i \in 1 .. Len(q) - 1 : Tail(q)[i] = q[i + 1]
  <2> DEFINE t == Tail(q)
  <2>1. Len(q) \in Nat \ {0}
    BY <1>2 DEF Members
  <2>2. q[1] = c
    BY <1>2, <2>1
  <2>3. /\ t \in Seq(Calls) /\ Len(t) = Len(q) - 1
        /\ \A i \in 1 .. Len(q) - 1 : t[i] = q[i + 1]
    BY <2>1
  <2> HIDE DEF t
  <2>4. Once(t)
    <3> SUFFICES ASSUME NEW i \in 1 .. Len(t), NEW j \in 1 .. Len(t), t[i] = t[j]
                 PROVE  i = j
      BY DEF Once
    <3>1. q[i + 1] = q[j + 1] /\ i + 1 \in 1 .. Len(q) /\ j + 1 \in 1 .. Len(q)
      BY <2>1, <2>3
    <3>2. i + 1 = j + 1
      BY <3>1 DEF Once
    <3> QED BY <3>2
  <2>5. Members(t) = Members(q) \ {c}
    <3>1. ASSUME NEW i \in 1 .. Len(t)
          PROVE  t[i] \in Members(q) \ {c}
      <4>1. t[i] = q[i + 1] /\ i + 1 \in 1 .. Len(q) /\ i + 1 # 1 /\ 1 \in 1 .. Len(q)
        BY <2>1, <2>3
      <4>2. q[i + 1] # q[1]
        BY <4>1 DEF Once
      <4> QED BY <2>2, <4>1, <4>2 DEF Members
    <3>2. ASSUME NEW i \in 1 .. Len(q), q[i] # c
          PROVE  q[i] \in Members(t)
      <4>1. i - 1 \in 1 .. Len(t) /\ i - 1 \in 1 .. Len(q) - 1 /\ (i - 1) + 1 = i
        BY <2>1, <2>2, <2>3, <3>2
      <4>2. t[i - 1] = q[i]
        BY <2>3, <4>1
      <4> QED BY <4>1, <4>2 DEF Members
    <3> QED BY <3>1, <3>2 DEF Members
  <2> QED BY <2>1, <2>2, <2>3, <2>4, <2>5 DEF t
<1> QED BY <1>1, <1>2

(* What the steps of a call have in common: how it moves in the queues,    *)
(* and what is issued.                                                     *)
Moves(c, r) ==
    /\ r \in CallRecords /\ call' = [call EXCEPT ![c] = r]
    /\ \/ tokenQueue' = tokenQueue /\ (r.stage \in Queued <=> call[c].stage \in Queued)
       \/ /\ tokenQueue' = Append(tokenQueue, c)
          /\ call[c].stage \notin Queued /\ r.stage \in Queued
       \/ /\ tokenQueue' = Tail(tokenQueue) /\ Head(tokenQueue) = c
          /\ call[c].stage \in Queued /\ r.stage \notin Queued
    /\ r.stage \in {"authslot", "auth"} => tokenQueue' = tokenQueue /\ Head(tokenQueue) = c
    /\ \/ /\ limiterQueue' = limiterQueue /\ untilSlot' = untilSlot
          /\ call[c].stage \notin Throttled /\ r.stage \notin Throttled
       \/ /\ limiterQueue' = Append(limiterQueue, c) /\ untilSlot' = untilSlot
          /\ call[c].stage \notin Throttled /\ r.stage \in Throttled
       \/ /\ limiterQueue' = Tail(limiterQueue) /\ Head(limiterQueue) = c
          /\ untilSlot = 0 /\ untilSlot' = 1
          /\ call[c].stage \in Throttled /\ r.stage \notin Throttled
    /\ left' = left \/ (left' = Append(left, TokenLife) /\ Len(left) < MaxIssued)
    /\ cached' \in Issued' \cup {NoToken} /\ accepted' \subseteq Issued'
    /\ r.stage \in {"slot", "sent"} => r.token \in Issued'
    /\ r.stage = "slot" => left'[r.token] > Margin \/ left'[r.token] = TokenLife
    /\ r.stage = "sent" => call[c].stage = "slot" /\ r.token = call[c].token /\ untilSlot = 0
                           /\ Head(limiterQueue) = c
    /\ SoundCall(r, Len(left'))

(* Who stands in a queue is in it.                                         *)
LEMMA IssuedRule ==
    ASSUME TokensInv
    PROVE  /\ Issued = 1 .. Len(left) /\ Issued \subseteq 1 .. MaxIssued /\ Len(left) \in Nat
           /\ Len(left) < MaxIssued =>
                 /\ Append(left, TokenLife) \in Seq(0 .. TokenLife)
                 /\ Len(Append(left, TokenLife)) = Len(left) + 1
                 /\ DOMAIN Append(left, TokenLife) = 1 .. Len(left) + 1
                 /\ Append(left, TokenLife)[Len(left) + 1] = TokenLife
                 /\ \A t \in Issued : Append(left, TokenLife)[t] = left[t]
                 /\ Len(left) + 1 \in 1 .. MaxIssued
<1>1. left \in Seq(0 .. TokenLife) /\ Len(left) <= MaxIssued /\ TokenLife \in 0 .. TokenLife
  BY FibAssumption DEF TokensInv
<1>2. Issued = 1 .. Len(left) /\ Len(left) \in Nat
  BY <1>1 DEF Issued
<1>3. Issued \subseteq 1 .. MaxIssued
  BY <1>1, <1>2, FibAssumption
<1>4. ASSUME Len(left) < MaxIssued
      PROVE  /\ Append(left, TokenLife) \in Seq(0 .. TokenLife)
             /\ Len(Append(left, TokenLife)) = Len(left) + 1
             /\ DOMAIN Append(left, TokenLife) = 1 .. Len(left) + 1
             /\ Append(left, TokenLife)[Len(left) + 1] = TokenLife
             /\ \A t \in Issued : Append(left, TokenLife)[t] = left[t]
             /\ Len(left) + 1 \in 1 .. MaxIssued
  <2>1. Len(left) + 1 \in 1 .. MaxIssued
    BY <1>2, <1>4, FibAssumption
  <2>2. /\ Append(left, TokenLife) \in Seq(0 .. TokenLife)
        /\ Len(Append(left, TokenLife)) = Len(left) + 1
        /\ Append(left, TokenLife)[Len(left) + 1] = TokenLife
        /\ \A t \in 1 .. Len(left) : Append(left, TokenLife)[t] = left[t]
    BY <1>1
  <2>3. DOMAIN Append(left, TokenLife) = 1 .. Len(left) + 1
    BY <2>2
  <2> QED BY <1>2, <2>1, <2>2, <2>3
<1> QED BY <1>2, <1>3, <1>4

(* Every step of a call is such a move.                                    *)
LEMMA CallMoves ==
    ASSUME QueueInv, TokensInv, CallsInv, NEW c \in Calls, CallStarts(c) \/ CallSteps(c)
    PROVE  \E r \in CallRecords : Moves(c, r)
<1>0. /\ call \in [Calls -> CallRecords] /\ call[c] \in CallRecords
      /\ SoundCall(call[c], Len(left)) /\ Len(left) \in Nat
      /\ Issued = 1 .. Len(left) /\ Issued \subseteq 1 .. MaxIssued
      /\ cached \in Issued \cup {NoToken} /\ accepted \subseteq Issued
      /\ call[c].stage \in {"slot", "sent"} => call[c].token \in Issued
      /\ call[c].stage \in {"authslot", "auth"} => Head(tokenQueue) = c
      /\ call[c].executions \in Nat /\ call[c].known \in Nat
  <2>1. call[c].known \in Nat
    BY FibAssumption DEF QueueInv, CallRecords
  <2> QED BY <2>1, IssuedRule DEF QueueInv, TokensInv, CallsInv, CallRecords
<1>1. CASE CallStarts(c) /\ Usable
  <2> DEFINE r == [call[c] EXCEPT !.stage = "slot", !.token = cached]
  <2>1. cached \in Issued /\ cached \in Nat /\ left[cached] > Margin
    BY <1>0, <1>1 DEF Usable
  <2>2. /\ r \in CallRecords /\ call' = [call EXCEPT ![c] = r] /\ r.stage = "slot"
        /\ r.token = cached /\ r.refused = call[c].refused /\ r.known = call[c].known
        /\ r.executions = call[c].executions
    BY <1>0, <1>1, <2>1 DEF CallStarts, WithToken, CallRecords
  <2> HIDE DEF r
  <2>3. SoundCall(r, Len(left))
    BY <1>0, <1>1, <2>2 DEF SoundCall, CallStarts
  <2>4. Moves(c, r)
    BY <1>0, <1>1, <2>1, <2>2, <2>3
       DEF CallStarts, WithToken, Moves, Queued, Throttled, Issued
  <2> QED BY <2>4 DEF Moves
<1>2. CASE CallStarts(c) /\ ~ Usable
  <2> DEFINE r == [call[c] EXCEPT !.stage = "locking"]
  <2>1. /\ r \in CallRecords /\ call' = [call EXCEPT ![c] = r] /\ r.stage = "locking"
        /\ r.refused = call[c].refused /\ r.known = call[c].known
        /\ r.executions = call[c].executions
    BY <1>0, <1>2 DEF CallStarts, CallRecords
  <2> HIDE DEF r
  <2>2. SoundCall(r, Len(left))
    BY <1>0, <1>2, <2>1 DEF SoundCall, CallStarts
  <2>3. Moves(c, r)
    BY <1>0, <1>2, <2>1, <2>2
       DEF CallStarts, Moves, Queued, Throttled, Issued
  <2> QED BY <2>3 DEF Moves
<1>3. CASE TokenWasFetched(c)
  <2> DEFINE r == [call[c] EXCEPT !.stage = "slot", !.token = cached]
  <2>1. /\ cached \in Issued /\ cached \in Nat /\ left[cached] > Margin
        /\ call[c].stage = "locking" /\ Head(tokenQueue) = c /\ call[c].refused = {}
    BY <1>0, <1>3 DEF TokenWasFetched, HasTokenLock, Forced, Usable
  <2>2. /\ r \in CallRecords /\ call' = [call EXCEPT ![c] = r] /\ r.stage = "slot"
        /\ r.token = cached /\ r.refused = call[c].refused /\ r.known = call[c].known
        /\ r.executions = call[c].executions
    BY <1>0, <1>3, <2>1 DEF TokenWasFetched, WithToken, CallRecords
  <2> HIDE DEF r
  <2>3. SoundCall(r, Len(left))
    BY <1>0, <2>1, <2>2 DEF SoundCall
  <2>4. Moves(c, r)
    BY <1>0, <1>3, <2>1, <2>2, <2>3
       DEF TokenWasFetched, WithToken, Moves, Queued, Throttled, Issued
  <2> QED BY <2>4 DEF Moves
<1>4. CASE FetchesToken(c)
  <2> DEFINE r == [call[c] EXCEPT !.stage = "authslot"]
  <2>1. call[c].stage = "locking" /\ Head(tokenQueue) = c
    BY <1>4 DEF FetchesToken, HasTokenLock
  <2>2. /\ r \in CallRecords /\ call' = [call EXCEPT ![c] = r] /\ r.stage = "authslot"
        /\ r.refused = call[c].refused /\ r.known = call[c].known
        /\ r.executions = call[c].executions
    BY <1>0, <1>4 DEF FetchesToken, CallRecords
  <2> HIDE DEF r
  <2>3. SoundCall(r, Len(left))
    BY <1>0, <2>1, <2>2 DEF SoundCall
  <2>4. Moves(c, r)
    BY <1>0, <1>4, <2>1, <2>2, <2>3
       DEF FetchesToken, Moves, Queued, Throttled, Issued
  <2> QED BY <2>4 DEF Moves
<1>5. CASE GetsSlot(c) /\ call[c].stage = "authslot"
  <2> DEFINE r == [call[c] EXCEPT !.stage = "auth"]
  <2>1. /\ r \in CallRecords /\ call' = [call EXCEPT ![c] = r] /\ r.stage = "auth"
        /\ r.refused = call[c].refused /\ r.known = call[c].known
        /\ r.executions = call[c].executions
    BY <1>0, <1>5 DEF GetsSlot, CallRecords
  <2> HIDE DEF r
  <2>2. SoundCall(r, Len(left))
    BY <1>0, <1>5, <2>1 DEF SoundCall
  <2>3. Moves(c, r)
    BY <1>0, <1>5, <2>1, <2>2
       DEF GetsSlot, Moves, Queued, Throttled, Issued
  <2> QED BY <2>3 DEF Moves
<1>6. CASE GetsSlot(c) /\ call[c].stage # "authslot"
  <2> DEFINE r == [call[c] EXCEPT !.stage = "sent"]
  <2>1. call[c].stage = "slot"
    BY <1>6 DEF GetsSlot
  <2>2. /\ r \in CallRecords /\ call' = [call EXCEPT ![c] = r] /\ r.stage = "sent"
        /\ r.refused = call[c].refused /\ r.known = call[c].known
        /\ r.executions = call[c].executions /\ r.token = call[c].token
    BY <1>0, <1>6, <2>1 DEF GetsSlot, CallRecords
  <2> HIDE DEF r
  <2>3. SoundCall(r, Len(left))
    BY <1>0, <2>1, <2>2 DEF SoundCall
  <2>4. Moves(c, r)
    BY <1>0, <1>6, <2>1, <2>2, <2>3
       DEF GetsSlot, Moves, Queued, Throttled, Issued
  <2> QED BY <2>4 DEF Moves
<1>7. CASE FibIssues(c)
  <2> DEFINE n == Len(left) + 1
             r == [call[c] EXCEPT !.stage = "slot", !.token = n]
  <2>1. /\ call[c].stage = "auth" /\ Len(left) < MaxIssued
        /\ left' = Append(left, TokenLife) /\ tokenQueue' = Tail(tokenQueue)
        /\ limiterQueue' = Append(limiterQueue, c) /\ untilSlot' = untilSlot
        /\ cached' = n /\ accepted' = accepted \cup {n}
    BY <1>7 DEF FibIssues, WithToken
  <2>2. /\ n \in 1 .. MaxIssued /\ n > Len(left) /\ Len(left') = n /\ Issued' = 1 .. n
        /\ left'[n] = TokenLife /\ n \in Nat
    BY <1>0, <2>1, IssuedRule DEF Issued
  <2> HIDE DEF n
  <2>3. /\ r \in CallRecords /\ r.stage = "slot"
        /\ r.refused = call[c].refused /\ r.known = call[c].known
        /\ r.executions = call[c].executions /\ r.token = n
    BY <1>0, <2>2 DEF CallRecords
  <2>4. call' = [call EXCEPT ![c] = r]
    BY <1>0, <1>7 DEF FibIssues, WithToken, n
  <2> HIDE DEF r
  <2>5. SoundCall(r, n)
    BY <1>0, <2>1, <2>2, <2>3 DEF SoundCall
  <2>6. n \in Issued' /\ accepted' \subseteq Issued'
    BY <1>0, <2>1, <2>2
  <2>7. Moves(c, r)
    BY <1>0, <2>1, <2>2, <2>3, <2>4, <2>5, <2>6 DEF Moves, Queued, Throttled
  <2> QED BY <2>3, <2>7
<1>8. CASE AuthFails(c)
  <2> DEFINE r == [call[c] EXCEPT !.stage = "failed"]
  <2>1. /\ r \in CallRecords /\ call' = [call EXCEPT ![c] = r] /\ r.stage = "failed"
        /\ r.refused = call[c].refused /\ r.known = call[c].known
        /\ r.executions = call[c].executions
    BY <1>0, <1>8 DEF AuthFails, CallRecords
  <2> HIDE DEF r
  <2>2. SoundCall(r, Len(left))
    BY <1>0, <1>8, <2>1 DEF SoundCall
  <2>3. Moves(c, r)
    BY <1>0, <1>8, <2>1, <2>2
       DEF AuthFails, Moves, Queued, Throttled, Issued
  <2> QED BY <2>3 DEF Moves
<1>9. CASE FibExecutes(c)
  <2> DEFINE r == [call[c] EXCEPT !.stage = "executed", !.executions = @ + 1]
  <2>1. /\ r \in CallRecords /\ call' = [call EXCEPT ![c] = r] /\ r.stage = "executed"
        /\ r.refused = call[c].refused /\ r.known = call[c].known
        /\ r.executions = call[c].executions + 1
    BY <1>0, <1>9 DEF FibExecutes, CallRecords
  <2> HIDE DEF r
  <2>2. SoundCall(r, Len(left))
    BY <1>0, <1>9, <2>1 DEF SoundCall, FibExecutes
  <2>3. Moves(c, r)
    BY <1>0, <1>9, <2>1, <2>2
       DEF FibExecutes, Moves, Queued, Throttled, Issued
  <2> QED BY <2>3 DEF Moves
<1>10. CASE FibRefuses(c) /\ Forced(c)
  <2> DEFINE r == [call[c] EXCEPT !.stage = "unauthorised",
                                  !.refused = @ \cup {call[c].token}]
  <2>1. /\ call[c].token \in 1 .. MaxIssued /\ call[c].token > call[c].known
        /\ call[c].stage = "sent"
    BY <1>0, <1>10 DEF FibRefuses, Forced, SoundCall
  <2>2. /\ r \in CallRecords /\ call' = [call EXCEPT ![c] = r] /\ r.stage = "unauthorised"
        /\ call[c].token \in r.refused /\ r.known = call[c].known
        /\ r.executions = call[c].executions
    BY <1>0, <1>10, <2>1 DEF FibRefuses, CallRecords
  <2> HIDE DEF r
  <2>3. SoundCall(r, Len(left))
    BY <1>0, <2>1, <2>2 DEF SoundCall
  <2>4. Moves(c, r)
    BY <1>0, <1>10, <2>1, <2>2, <2>3
       DEF FibRefuses, Moves, Queued, Throttled, Issued
  <2> QED BY <2>4 DEF Moves
<1>11. CASE FibRefuses(c) /\ ~ Forced(c)
  <2> DEFINE r == [call[c] EXCEPT !.stage = "locking", !.known = Len(left),
                                  !.refused = {call[c].token}]
  <2>1. /\ call[c].token \in 1 .. MaxIssued /\ call[c].stage = "sent"
        /\ Len(left) \in 0 .. MaxIssued
    BY <1>0, <1>11, FibAssumption DEF FibRefuses, TokensInv
  <2>2. /\ r \in CallRecords /\ call' = [call EXCEPT ![c] = r] /\ r.stage = "locking"
        /\ r.known = Len(left) /\ r.executions = call[c].executions
    BY <1>0, <1>11, <2>1 DEF FibRefuses, CallRecords
  <2> HIDE DEF r
  <2>3. SoundCall(r, Len(left))
    BY <1>0, <2>1, <2>2 DEF SoundCall
  <2>4. Moves(c, r)
    BY <1>0, <1>11, <2>1, <2>2, <2>3
       DEF FibRefuses, Moves, Queued, Throttled, Issued
  <2> QED BY <2>4 DEF Moves
<1>12. CASE CallAnswered(c)
  <2> DEFINE r == [call[c] EXCEPT !.stage = "done"]
  <2>1. /\ r \in CallRecords /\ call' = [call EXCEPT ![c] = r] /\ r.stage = "done"
        /\ r.refused = call[c].refused /\ r.known = call[c].known
        /\ r.executions = call[c].executions
    BY <1>0, <1>12 DEF CallAnswered, CallRecords
  <2> HIDE DEF r
  <2>2. SoundCall(r, Len(left))
    BY <1>0, <1>12, <2>1 DEF SoundCall
  <2>3. Moves(c, r)
    BY <1>0, <1>12, <2>1, <2>2
       DEF CallAnswered, Moves, Queued, Throttled, Issued
  <2> QED BY <2>3 DEF Moves
<1>13. CASE CallFails(c)
  <2> DEFINE r == [call[c] EXCEPT !.stage = "failed"]
  <2>1. /\ r \in CallRecords /\ call' = [call EXCEPT ![c] = r] /\ r.stage = "failed"
        /\ r.refused = call[c].refused /\ r.known = call[c].known
        /\ r.executions = call[c].executions
    BY <1>0, <1>13 DEF CallFails, CallRecords
  <2> HIDE DEF r
  <2>2. SoundCall(r, Len(left))
    BY <1>0, <1>13, <2>1 DEF SoundCall
  <2>3. Moves(c, r)
    BY <1>0, <1>13, <2>1, <2>2
       DEF CallFails, Moves, Queued, Throttled, Issued
  <2> QED BY <2>3 DEF Moves
<1> QED BY <1>1, <1>2, <1>3, <1>4, <1>5, <1>6, <1>7, <1>8, <1>9, <1>10, <1>11, <1>12, <1>13
        DEF CallSteps

(* A move keeps the queues.                                                *)
LEMMA MovesQueue ==
    ASSUME QueueInv, NEW c \in Calls, NEW r \in CallRecords, Moves(c, r)
    PROVE  QueueInv'
<1>1. /\ call' \in [Calls -> CallRecords] /\ call'[c] = r
      /\ \A d \in Calls \ {c} : call'[d] = call[d]
  BY DEF Moves, QueueInv
<1>2. /\ tokenQueue' \in Seq(Calls) /\ Once(tokenQueue')
      /\ \A d \in Calls : d \in Members(tokenQueue') <=> call'[d].stage \in Queued
      /\ \A d \in Calls : call'[d].stage \in {"authslot", "auth"} => Head(tokenQueue') = d
  <2>0. /\ tokenQueue \in Seq(Calls) /\ Once(tokenQueue)
        /\ \A d \in Calls : d \in Members(tokenQueue) <=> call[d].stage \in Queued
        /\ \A d \in Calls : call[d].stage \in {"authslot", "auth"} => Head(tokenQueue) = d
        /\ call'[c].stage \in {"authslot", "auth"} => tokenQueue' = tokenQueue
                                                      /\ Head(tokenQueue) = c
    BY <1>1 DEF QueueInv, Moves
  <2>1. CASE tokenQueue' = tokenQueue /\ (r.stage \in Queued <=> call[c].stage \in Queued)
    BY <1>1, <2>0, <2>1
  <2>2. CASE /\ tokenQueue' = Append(tokenQueue, c)
             /\ call[c].stage \notin Queued /\ r.stage \in Queued
    <3>1. /\ Append(tokenQueue, c) \in Seq(Calls) /\ Once(Append(tokenQueue, c))
          /\ Members(Append(tokenQueue, c)) = Members(tokenQueue) \cup {c}
          /\ tokenQueue # <<>> => Head(Append(tokenQueue, c)) = Head(tokenQueue)
      BY <2>0, <2>2, QueueRule
    <3>2. ASSUME NEW d \in Calls, call'[d].stage \in {"authslot", "auth"}
          PROVE  Head(tokenQueue') = d
      <4>1. CASE d = c
        <5>1. Append(tokenQueue, c) = tokenQueue
          BY <2>0, <2>2, <3>2, <4>1
        <5>2. Members(tokenQueue) = Members(tokenQueue) \cup {c}
          BY <3>1, <5>1
        <5> QED BY <2>0, <2>2, <5>2
      <4>2. CASE d # c
        <5>1. call[d].stage \in {"authslot", "auth"}
          BY <1>1, <3>2, <4>2
        <5>2. d \in Members(tokenQueue) /\ Head(tokenQueue) = d
          BY <2>0, <5>1 DEF Queued
        <5>3. tokenQueue # <<>>
          BY <5>2 DEF Members
        <5> QED BY <2>2, <3>1, <5>2, <5>3
      <4> QED BY <4>1, <4>2
    <3> QED BY <1>1, <2>0, <2>2, <3>1, <3>2
  <2>3. CASE /\ tokenQueue' = Tail(tokenQueue) /\ Head(tokenQueue) = c
             /\ call[c].stage \in Queued /\ r.stage \notin Queued
    <3>1. /\ Tail(tokenQueue) \in Seq(Calls) /\ Once(Tail(tokenQueue))
          /\ Members(Tail(tokenQueue)) = Members(tokenQueue) \ {c}
      BY <2>0, <2>3, QueueRule
    <3>2. \A d \in Calls : call'[d].stage \notin {"authslot", "auth"}
      BY <1>1, <2>0, <2>3 DEF Queued
    <3> QED BY <1>1, <2>0, <2>3, <3>1, <3>2
  <2> QED BY <2>1, <2>2, <2>3 DEF Moves
<1>3. /\ limiterQueue' \in Seq(Calls) /\ Once(limiterQueue')
      /\ \A d \in Calls : d \in Members(limiterQueue') <=> call'[d].stage \in Throttled
  <2>0. /\ limiterQueue \in Seq(Calls) /\ Once(limiterQueue)
        /\ \A d \in Calls : d \in Members(limiterQueue) <=> call[d].stage \in Throttled
    BY DEF QueueInv
  <2>1. CASE limiterQueue' = limiterQueue
             /\ call[c].stage \notin Throttled /\ r.stage \notin Throttled
    BY <1>1, <2>0, <2>1
  <2>2. CASE /\ limiterQueue' = Append(limiterQueue, c)
             /\ call[c].stage \notin Throttled /\ r.stage \in Throttled
    <3>1. /\ Append(limiterQueue, c) \in Seq(Calls) /\ Once(Append(limiterQueue, c))
          /\ Members(Append(limiterQueue, c)) = Members(limiterQueue) \cup {c}
      BY <2>0, <2>2, QueueRule
    <3> QED BY <1>1, <2>0, <2>2, <3>1
  <2>3. CASE /\ limiterQueue' = Tail(limiterQueue) /\ Head(limiterQueue) = c
             /\ call[c].stage \in Throttled /\ r.stage \notin Throttled
    <3>1. /\ Tail(limiterQueue) \in Seq(Calls) /\ Once(Tail(limiterQueue))
          /\ Members(Tail(limiterQueue)) = Members(limiterQueue) \ {c}
      BY <2>0, <2>3, QueueRule
    <3> QED BY <1>1, <2>0, <2>3, <3>1
  <2> QED BY <2>1, <2>2, <2>3 DEF Moves
<1> QED BY <1>1, <1>2, <1>3 DEF QueueInv

(* A move keeps what is said of the tokens and of each call.               *)
LEMMA MovesCalls ==
    ASSUME QueueInv, TokensInv, CallsInv, NEW c \in Calls, NEW r \in CallRecords, Moves(c, r)
    PROVE  TokensInv' /\ CallsInv'
<1>1. call'[c] = r /\ \A d \in Calls \ {c} : call'[d] = call[d]
  BY DEF Moves, QueueInv
<1>2. /\ left' \in Seq(0 .. TokenLife) /\ Len(left') <= MaxIssued /\ Len(left') \in Nat
      /\ Issued \subseteq Issued' /\ Len(left) <= Len(left') /\ Len(left) \in Nat
  <2>1. CASE left' = left
    BY <2>1, IssuedRule DEF TokensInv, Issued
  <2>2. CASE left' = Append(left, TokenLife) /\ Len(left) < MaxIssued
    <3>1. /\ Append(left, TokenLife) \in Seq(0 .. TokenLife)
          /\ Len(Append(left, TokenLife)) = Len(left) + 1
          /\ DOMAIN Append(left, TokenLife) = 1 .. Len(left) + 1
          /\ Len(left) + 1 \in 1 .. MaxIssued
          /\ Issued = 1 .. Len(left) /\ Len(left) \in Nat
      BY <2>2, IssuedRule
    <3>2. Issued' = 1 .. Len(left) + 1
      BY <2>2, <3>1 DEF Issued
    <3>3. Issued \subseteq Issued'
      BY <3>1, <3>2
    <3> QED BY <2>2, <3>1, <3>3, FibAssumption
  <2> QED BY <2>1, <2>2 DEF Moves
<1>3. untilSlot' \in {0, 1}
  BY DEF Moves, TokensInv
<1>4. \A d \in Calls : call'[d].stage \in {"slot", "sent"} => call'[d].token \in Issued'
  BY <1>1, <1>2 DEF Moves, TokensInv
<1>5. TokensInv'
  BY <1>2, <1>3, <1>4 DEF Moves, TokensInv
<1>6. ASSUME NEW d \in Calls
      PROVE  SoundCall(call'[d], Len(left'))
  <2>1. CASE d = c
    BY <1>1, <2>1 DEF Moves
  <2>2. CASE d # c
    <3>1. SoundCall(call[d], Len(left)) /\ call[d].known \in Nat
      BY FibAssumption DEF CallsInv, QueueInv, CallRecords
    <3>2. SoundCall(call[d], Len(left'))
      BY <1>2, <3>1 DEF SoundCall
    <3> QED BY <1>1, <2>2, <3>2
  <2> QED BY <2>1, <2>2
<1>7. CallsInv'
  BY <1>6 DEF CallsInv
<1> QED BY <1>5, <1>7

(* A tick: every token has one tick less to live, or none.                 *)
LEMMA FibTickRule ==
    ASSUME TokensInv, FibTick
    PROVE  /\ left' \in Seq(0 .. TokenLife) /\ Len(left') = Len(left) /\ Issued' = Issued
           /\ \A t \in Issued : left'[t] = IF left[t] = 0 THEN 0 ELSE left[t] - 1
<1>1. Issued = 1 .. Len(left) /\ Len(left) \in Nat
  BY IssuedRule
<1>2. left' = [t \in 1 .. Len(left) |-> IF left[t] = 0 THEN 0 ELSE left[t] - 1]
  BY <1>1 DEF FibTick
<1>3. \A t \in 1 .. Len(left) : left[t] \in 0 .. TokenLife
  <2>1. left \in Seq(0 .. TokenLife)
    BY DEF TokensInv
  <2> QED BY <2>1, ElementOfSeq
<1>4. \A t \in 1 .. Len(left) : (IF left[t] = 0 THEN 0 ELSE left[t] - 1) \in 0 .. TokenLife
  BY <1>3, FibAssumption
<1>5. left' \in Seq(0 .. TokenLife) /\ Len(left') = Len(left) /\ DOMAIN left' = 1 .. Len(left)
  BY <1>1, <1>2, <1>4
<1> QED BY <1>1, <1>2, <1>5 DEF Issued

(* Every step keeps the queues, the tokens and what is said of the calls.  *)
LEMMA FibStep ==
    QueueInv /\ TokensInv /\ CallsInv /\ [FibNext]_fibVars
        => QueueInv' /\ TokensInv' /\ CallsInv'
<1> SUFFICES ASSUME QueueInv, TokensInv, CallsInv, [FibNext]_fibVars
             PROVE  QueueInv' /\ TokensInv' /\ CallsInv'
  OBVIOUS
<1>1. ASSUME NEW c \in Calls, CallStarts(c) \/ CallSteps(c)
      PROVE  QueueInv' /\ TokensInv' /\ CallsInv'
  BY <1>1, CallMoves, MovesQueue, MovesCalls
<1>2. ASSUME NEW t \in Issued, FibDrops(t)
      PROVE  QueueInv' /\ TokensInv' /\ CallsInv'
  BY <1>2 DEF FibDrops, QueueInv, TokensInv, CallsInv, Issued
<1>3. CASE FibTick
  <2>1. /\ left' \in Seq(0 .. TokenLife) /\ Len(left') = Len(left) /\ Issued' = Issued
        /\ untilSlot' = 0 /\ UNCHANGED <<call, tokenQueue, limiterQueue, cached, accepted>>
    BY <1>3, FibTickRule DEF FibTick
  <2> QED BY <2>1 DEF QueueInv, TokensInv, CallsInv
<1>4. CASE UNCHANGED fibVars
  BY <1>4 DEF fibVars, QueueInv, TokensInv, CallsInv, Issued
<1> QED BY <1>1, <1>2, <1>3, <1>4 DEF FibNext

(* The client starts without calls and without a token.                    *)
LEMMA FibStart == FibInit => QueueInv /\ TokensInv /\ CallsInv
<1> SUFFICES ASSUME FibInit PROVE QueueInv /\ TokensInv /\ CallsInv
  OBVIOUS
<1>1. /\ <<>> \in Seq(Calls) /\ Once(<<>>) /\ Members(<<>>) = {}
      /\ <<>> \in Seq(0 .. TokenLife) /\ Len(<<>>) = 0 /\ DOMAIN <<>> = {}
  BY DEF Once, Members
<1> DEFINE new == [stage |-> "new", token |-> NoToken, refused |-> {},
                   known |-> 0, executions |-> 0]
<1>2. new \in CallRecords /\ SoundCall(new, 0) /\ new.stage = "new"
  BY FibAssumption DEF CallRecords, SoundCall
<1> HIDE DEF new
<1>3. call = [c \in Calls |-> new]
  BY DEF FibInit, new
<1>4. QueueInv
  BY <1>1, <1>2, <1>3 DEF FibInit, QueueInv, Queued, Throttled
<1>5. TokensInv
  BY <1>1, <1>2, <1>3, FibAssumption DEF FibInit, TokensInv, Issued
<1>6. CallsInv
  BY <1>1, <1>2, <1>3 DEF FibInit, CallsInv
<1> QED BY <1>4, <1>5, <1>6

(* What every step of the client starts from.                              *)
LEMMA FibInv == FibSpec => [](QueueInv /\ TokensInv /\ CallsInv)
BY FibStart, FibStep, PTL DEF FibSpec

(* The types of the specification are among these.                         *)
LEMMA FibTyped == QueueInv /\ TokensInv => FibTypeOK
<1> SUFFICES ASSUME QueueInv, TokensInv PROVE FibTypeOK
  OBVIOUS
<1>1. ASSUME NEW c \in Calls, call[c].stage \in {"authslot", "auth"}
      PROVE  tokenQueue # <<>> /\ c = Head(tokenQueue)
  <2>1. c \in Members(tokenQueue) /\ Head(tokenQueue) = c
    BY <1>1 DEF QueueInv, Queued
  <2>2. tokenQueue # <<>>
    BY <2>1 DEF Members
  <2> QED BY <2>1, <2>2
<1>2. \A q \in {tokenQueue, limiterQueue} :
          /\ q \in Seq(Calls)
          /\ \A i, j \in 1 .. Len(q) : q[i] = q[j] => i = j
  BY DEF QueueInv, Once
<1> QED BY <1>1, <1>2 DEF QueueInv, TokensInv, FibTypeOK, CallRecords

(* The calls, the two locks with their queues and the tokens keep their    *)
(* types; who fetches a token holds the token lock, for any number of      *)
(* calls.                                                                  *)
THEOREM FibTypeCorrect == FibSpec => []FibTypeOK
BY FibInv, FibTyped, PTL

(* A call waits for a slot behind all others at most: its token, with more *)
(* than the margin to live, lives on until the slot.                       *)
Slack == IsFiniteSet(Calls) /\ Cardinality(Calls) <= Margin /\ Margin < TokenLife

LivesInv ==
    \A i \in 1 .. Len(limiterQueue) : call[limiterQueue[i]].stage = "slot"
        => left[call[limiterQueue[i]].token] >= i + untilSlot

(* The queue has a place for everybody.                                    *)
LEMMA QueueIsShort ==
    ASSUME QueueInv, Slack, NEW c \in Calls, c \notin Members(limiterQueue)
    PROVE  Len(limiterQueue) + 1 <= Cardinality(Calls)
<1> DEFINE n == Len(limiterQueue)
           others == Calls \ {c}
<1>1. limiterQueue \in Seq(Calls) /\ n \in Nat
  BY DEF QueueInv
<1>2. IsFiniteSet(others) /\ Cardinality(others) = Cardinality(Calls) - 1
  BY FS_RemoveElement DEF Slack
<1>3. IsFiniteSet(1 .. n) /\ Cardinality(1 .. n) = n
  <2>1. 1 \in Int /\ n \in Int
    BY <1>1
  <2> QED BY <1>1, <2>1, FS_Interval
<1>4. limiterQueue \in [1 .. n -> others]
  <2>1. \A i \in 1 .. n : limiterQueue[i] \in Calls /\ limiterQueue[i] # c
    BY <1>1 DEF Members
  <2> QED BY <1>1, <2>1
<1>5. limiterQueue \in Injection(1 .. n, others)
  BY <1>4 DEF Injection, IsInjective, QueueInv, Once
<1>6. n <= Cardinality(others)
  <2> HIDE DEF n, others
  <2> QED BY <1>2, <1>3, <1>5, FS_Injection
<1>7. Cardinality(Calls) \in Nat
  BY FS_CardinalityType DEF Slack
<1> QED BY <1>1, <1>2, <1>6, <1>7

(* Every step keeps the tokens that wait alive.                            *)
LEMMA LivesStep ==
    Slack /\ QueueInv /\ TokensInv /\ CallsInv /\ LivesInv /\ [FibNext]_fibVars => LivesInv'
<1> SUFFICES ASSUME Slack, QueueInv, TokensInv, CallsInv, LivesInv, [FibNext]_fibVars
             PROVE  LivesInv'
  OBVIOUS
<1>0. /\ \A i \in 1 .. Len(limiterQueue) :
            /\ limiterQueue[i] \in Calls
            /\ call[limiterQueue[i]].stage = "slot" =>
                  /\ call[limiterQueue[i]].token \in Issued
                  /\ left[call[limiterQueue[i]].token] \in Nat
                  /\ left[call[limiterQueue[i]].token] >= i + untilSlot
      /\ limiterQueue \in Seq(Calls) /\ Once(limiterQueue) /\ Len(limiterQueue) \in Nat
      /\ untilSlot \in {0, 1}
      /\ call \in [Calls -> CallRecords]
      /\ \A t \in Issued : left[t] \in 0 .. TokenLife
  <2>1. left \in Seq(0 .. TokenLife) /\ Issued = 1 .. Len(left)
    BY IssuedRule DEF TokensInv
  <2>2. \A t \in Issued : left[t] \in 0 .. TokenLife
    BY <2>1, ElementOfSeq
  <2>3. limiterQueue \in Seq(Calls) /\ Once(limiterQueue) /\ Len(limiterQueue) \in Nat
    BY DEF QueueInv
  <2>4. \A i \in 1 .. Len(limiterQueue) : limiterQueue[i] \in Calls
    BY <2>3
  <2>5. \A i \in 1 .. Len(limiterQueue) : call[limiterQueue[i]].stage = "slot" =>
            call[limiterQueue[i]].token \in Issued
    BY <2>4 DEF TokensInv
  <2> QED BY <2>2, <2>3, <2>4, <2>5, FibAssumption DEF TokensInv, QueueInv, LivesInv
<1>1. ASSUME NEW c \in Calls, CallStarts(c) \/ CallSteps(c)
      PROVE  LivesInv'
  <2>1. PICK r \in CallRecords : Moves(c, r)
    BY <1>1, CallMoves
  <2>2. call'[c] = r /\ \A d \in Calls \ {c} : call'[d] = call[d]
    BY <1>0, <2>1 DEF Moves
  <2>3. \A t \in Issued : t \in Issued' /\ left'[t] = left[t]
    BY <2>1, IssuedRule DEF Moves, Issued
  <2>4. CASE /\ limiterQueue' = limiterQueue /\ untilSlot' = untilSlot
             /\ call[c].stage \notin Throttled /\ r.stage \notin Throttled
    <3> SUFFICES ASSUME NEW i \in 1 .. Len(limiterQueue),
                        call'[limiterQueue[i]].stage = "slot"
                 PROVE  left'[call'[limiterQueue[i]].token] >= i + untilSlot
      BY <2>4 DEF LivesInv
    <3>1. limiterQueue[i] # c
      BY <2>2, <2>4 DEF Throttled
    <3>2. call'[limiterQueue[i]] = call[limiterQueue[i]]
      BY <1>0, <2>2, <3>1
    <3> QED BY <1>0, <2>3, <3>2
  <2>5. CASE /\ limiterQueue' = Append(limiterQueue, c) /\ untilSlot' = untilSlot
             /\ call[c].stage \notin Throttled /\ r.stage \in Throttled
    <3> DEFINE n == Len(limiterQueue)
    <3>1. c \notin Members(limiterQueue)
      BY <2>5 DEF QueueInv
    <3>2. /\ Len(limiterQueue') = n + 1 /\ limiterQueue'[n + 1] = c
          /\ \A i \in 1 .. n : limiterQueue'[i] = limiterQueue[i] /\ limiterQueue[i] # c
      BY <1>0, <2>5, <3>1, QueueRule DEF Members
    <3>3. n + 1 <= Cardinality(Calls) /\ Cardinality(Calls) \in Nat
      BY <3>1, QueueIsShort, FS_CardinalityType DEF Slack
    <3>4. ASSUME r.stage = "slot"
          PROVE  left'[r.token] >= n + 1 + untilSlot
      <4>1. r.token \in Issued' /\ (left'[r.token] > Margin \/ left'[r.token] = TokenLife)
        BY <2>1, <3>4 DEF Moves
      <4>2. left'[r.token] \in Nat
        <5>1. left' \in Seq(0 .. TokenLife) /\ Issued' = 1 .. Len(left')
          <6>1. TokensInv'
            BY <2>1, MovesCalls
          <6>2. left' \in Seq(0 .. TokenLife)
            BY <6>1 DEF TokensInv
          <6> QED BY <6>2 DEF Issued
        <5> QED BY <4>1, <5>1, ElementOfSeq, FibAssumption
      <4> QED BY <1>0, <3>3, <4>1, <4>2, FibAssumption DEF Slack
    <3> SUFFICES ASSUME NEW i \in 1 .. n + 1, call'[limiterQueue'[i]].stage = "slot"
                 PROVE  left'[call'[limiterQueue'[i]].token] >= i + untilSlot
      BY <2>5, <3>2 DEF LivesInv
    <3>5. CASE i = n + 1
      BY <2>2, <3>2, <3>4, <3>5
    <3>6. CASE i # n + 1
      <4>1. i \in 1 .. n
        BY <1>0, <3>6
      <4>2. limiterQueue'[i] = limiterQueue[i] /\ call'[limiterQueue[i]] = call[limiterQueue[i]]
        BY <1>0, <2>2, <3>2, <4>1
      <4> QED BY <1>0, <2>3, <4>1, <4>2
    <3> QED BY <3>5, <3>6
  <2>6. CASE /\ limiterQueue' = Tail(limiterQueue) /\ Head(limiterQueue) = c
             /\ untilSlot = 0 /\ untilSlot' = 1
             /\ call[c].stage \in Throttled /\ r.stage \notin Throttled
    <3> DEFINE n == Len(limiterQueue)
    <3>1. c \in Members(limiterQueue)
      BY <2>6 DEF QueueInv
    <3>2. /\ n \in Nat \ {0} /\ Len(limiterQueue') = n - 1 /\ limiterQueue[1] = c
          /\ \A i \in 1 .. n - 1 : limiterQueue'[i] = limiterQueue[i + 1]
      BY <1>0, <2>6, <3>1, QueueRule
    <3> SUFFICES ASSUME NEW i \in 1 .. n - 1, call'[limiterQueue'[i]].stage = "slot"
                 PROVE  left'[call'[limiterQueue'[i]].token] >= i + 1
      BY <2>6, <3>2 DEF LivesInv
    <3>3. i + 1 \in 1 .. n /\ limiterQueue'[i] = limiterQueue[i + 1]
      BY <3>2
    <3>4. limiterQueue[i + 1] # c
      BY <2>2, <2>6, <3>3 DEF Throttled
    <3>5. call'[limiterQueue'[i]] = call[limiterQueue[i + 1]]
      BY <1>0, <2>2, <3>3, <3>4
    <3> QED BY <1>0, <2>3, <2>6, <3>3, <3>5
  <2> QED BY <2>1, <2>4, <2>5, <2>6 DEF Moves
<1>2. ASSUME NEW t \in Issued, FibDrops(t)
      PROVE  LivesInv'
  BY <1>2 DEF FibDrops, LivesInv
<1>3. CASE FibTick
  <2>1. /\ \A t \in Issued : left'[t] = IF left[t] = 0 THEN 0 ELSE left[t] - 1
        /\ untilSlot' = 0 /\ UNCHANGED <<call, limiterQueue>> /\ Prompt
    BY <1>3, FibTickRule DEF FibTick
  <2>2. ASSUME NEW i \in 1 .. Len(limiterQueue)
        PROVE  untilSlot = 1
    <3>1. 1 \in 1 .. Len(limiterQueue) /\ Head(limiterQueue) = limiterQueue[1]
      BY <1>0
    <3> DEFINE h == limiterQueue[1]
    <3>2. h \in Calls /\ h \in Members(limiterQueue)
      BY <1>0, <3>1 DEF Members
    <3>3. call[h].stage \in {"authslot", "slot"}
      BY <3>2 DEF QueueInv, Throttled
    <3>4. untilSlot > 0
      BY <2>1, <3>1, <3>2, <3>3 DEF Prompt
    <3> QED BY <1>0, <3>4
  <2> SUFFICES ASSUME NEW i \in 1 .. Len(limiterQueue), call[limiterQueue[i]].stage = "slot"
               PROVE  left'[call[limiterQueue[i]].token] >= i
    BY <2>1 DEF LivesInv
  <2>3. /\ call[limiterQueue[i]].token \in Issued
        /\ left[call[limiterQueue[i]].token] \in Nat
        /\ left[call[limiterQueue[i]].token] >= i + 1
    BY <1>0, <2>2
  <2> QED BY <2>1, <2>3
<1>4. CASE UNCHANGED fibVars
  BY <1>4 DEF fibVars, LivesInv
<1> QED BY <1>1, <1>2, <1>3, <1>4 DEF FibNext

(* The first in the queue is sent with a token that lives.                 *)
LEMMA SentStep ==
    QueueInv /\ TokensInv /\ CallsInv /\ LivesInv /\ [FibNext]_fibVars =>
        [\A c \in Calls :
            call[c].stage = "slot" /\ call'[c].stage = "sent" => left[call[c].token] > 0]_fibVars
<1> SUFFICES ASSUME QueueInv, TokensInv, CallsInv, LivesInv, FibNext, NEW d \in Calls,
                    call[d].stage = "slot", call'[d].stage = "sent"
             PROVE  left[call[d].token] > 0
  OBVIOUS
<1>1. PICK c \in Calls : CallStarts(c) \/ CallSteps(c)
  BY DEF FibNext, FibDrops, FibTick
<1>2. PICK r \in CallRecords : Moves(c, r)
  BY <1>1, CallMoves
<1>3. call'[c] = r /\ \A e \in Calls \ {c} : call'[e] = call[e]
  BY <1>2 DEF Moves, QueueInv
<1>4. d = c /\ r.stage = "sent"
  BY <1>3
<1>5. untilSlot = 0 /\ Head(limiterQueue) = d
  BY <1>2, <1>4 DEF Moves
<1>6. limiterQueue \in Seq(Calls) /\ d \in Members(limiterQueue)
  BY DEF QueueInv, Throttled
<1>7. 1 \in 1 .. Len(limiterQueue) /\ limiterQueue[1] = d
  BY <1>5, <1>6 DEF Members
<1>8. left[call[d].token] >= 1
  BY <1>5, <1>7 DEF LivesInv
<1>9. left[call[d].token] \in Nat
  <2>1. left \in Seq(0 .. TokenLife) /\ call[d].token \in 1 .. Len(left)
    BY IssuedRule DEF TokensInv
  <2> QED BY <2>1, ElementOfSeq, FibAssumption
<1> QED BY <1>8, <1>9

(* A payment or a refund is executed once per call at most, also if the    *)
(* call is repeated with a new token, and not at all if it ends with 401,  *)
(* which takes two refusals, the second of a token issued after the first  *)
(* (_request_json, get_access_token).                                      *)
THEOREM CallsExecuteOnce == FibSpec => [](ExecutedOnce /\ UnauthorisedMeansRefusedTwice)
<1>1. QueueInv /\ CallsInv => ExecutedOnce /\ UnauthorisedMeansRefusedTwice
  BY DEF CallsInv, SoundCall, ExecutedOnce, UnauthorisedMeansRefusedTwice
<1> QED BY <1>1, FibInv, PTL

(* With these, no token that the client knows to have expired is sent, if  *)
(* there are no more calls at once than the margin has ticks, and tokens   *)
(* live longer than the margin (get_access_token).                         *)
THEOREM CallsSound == Slack /\ FibSpec => CallsAreSound
<1>1. FibInit => LivesInv
  BY DEF FibInit, LivesInv
<1>2. Slack /\ FibSpec => [](QueueInv /\ TokensInv /\ CallsInv /\ LivesInv)
  <2>1. ASSUME Slack
        PROVE  QueueInv /\ TokensInv /\ CallsInv /\ LivesInv /\ [FibNext]_fibVars => LivesInv'
    BY <2>1, LivesStep
  <2>2. ASSUME Slack
        PROVE  FibSpec => [](QueueInv /\ TokensInv /\ CallsInv /\ LivesInv)
    BY <1>1, <2>1, <2>2, FibStart, FibStep, PTL DEF FibSpec
  <2> QED BY <2>2
<1>3. Slack /\ FibSpec => SentBeforeExpiry
  BY <1>2, SentStep, PTL DEF FibSpec, SentBeforeExpiry
<1>4. FibSpec => [](ExecutedOnce /\ UnauthorisedMeansRefusedTwice)
  BY CallsExecuteOnce
<1> QED BY <1>3, <1>4 DEF CallsAreSound

-----------------------------------------------------------------------------
(* ESimClient: the caches.                                                 *)

(* t is what is left of s: some of its entries, in their order.            *)
Thins(t, s) ==
    /\ t \in Seq(Entries) /\ Len(t) <= Len(s)
    /\ \E f \in [1 .. Len(t) -> 1 .. Len(s)] :
          /\ \A i, j \in 1 .. Len(t) : i < j => f[i] < f[j]
          /\ \A i \in 1 .. Len(t) : t[i] = s[f[i]]

(* A cache of this kind, of a catalogue that has been changed v times: who *)
(* was stored first expires first, no query is cached twice, and what      *)
(* lives on is as recent as its time to live says.                         *)
GoodCache(s, k, v) ==
    /\ s \in Seq(Entries)
    /\ \A i \in 1 .. Len(s) :
          /\ CacheOf(s[i].query) = k
          /\ s[i].content <= v
          /\ s[i].left > 0 => s[i].left + s[i].age <= Ttl + MaxLag
    /\ \A i, j \in 1 .. Len(s) : i < j => /\ s[i].left <= s[j].left
                                         /\ s[i].query # s[j].query

(* What is left of a good cache is good.                                   *)
LEMMA ThinsGood ==
    ASSUME NEW s, NEW t, NEW k, NEW v, GoodCache(s, k, v), Thins(t, s)
    PROVE  GoodCache(t, k, v)
<1>1. PICK f \in [1 .. Len(t) -> 1 .. Len(s)] :
         /\ \A i, j \in 1 .. Len(t) : i < j => f[i] < f[j]
         /\ \A i \in 1 .. Len(t) : t[i] = s[f[i]]
  BY DEF Thins
<1>2. \A i \in 1 .. Len(t) : f[i] \in 1 .. Len(s)
  BY <1>1
<1>3. ASSUME NEW i \in 1 .. Len(t)
      PROVE  /\ CacheOf(t[i].query) = k
             /\ t[i].content <= v
             /\ t[i].left > 0 => t[i].left + t[i].age <= Ttl + MaxLag
  <2>1. f[i] \in 1 .. Len(s) /\ t[i] = s[f[i]]
    BY <1>1, <1>2
  <2> QED BY <2>1 DEF GoodCache
<1>4. ASSUME NEW i \in 1 .. Len(t), NEW j \in 1 .. Len(t), i < j
      PROVE  t[i].left <= t[j].left /\ t[i].query # t[j].query
  <2>1. f[i] \in 1 .. Len(s) /\ f[j] \in 1 .. Len(s) /\ f[i] < f[j]
        /\ t[i] = s[f[i]] /\ t[j] = s[f[j]]
    BY <1>1, <1>2, <1>4
  <2> QED BY <2>1 DEF GoodCache
<1>5. t \in Seq(Entries)
  BY DEF Thins
<1> QED BY <1>3, <1>4, <1>5 DEF GoodCache

(* What is left of what is left.                                           *)
LEMMA ThinsTransitive ==
    ASSUME NEW s, NEW t, NEW u, Thins(t, s), Thins(u, t), s \in Seq(Entries)
    PROVE  Thins(u, s)
<1>1. PICK f \in [1 .. Len(t) -> 1 .. Len(s)] :
         /\ \A i, j \in 1 .. Len(t) : i < j => f[i] < f[j]
         /\ \A i \in 1 .. Len(t) : t[i] = s[f[i]]
  BY DEF Thins
<1>2. PICK g \in [1 .. Len(u) -> 1 .. Len(t)] :
         /\ \A i, j \in 1 .. Len(u) : i < j => g[i] < g[j]
         /\ \A i \in 1 .. Len(u) : u[i] = t[g[i]]
  BY DEF Thins
<1> DEFINE h == [i \in 1 .. Len(u) |-> f[g[i]]]
<1>3. \A i \in 1 .. Len(u) : g[i] \in 1 .. Len(t) /\ f[g[i]] \in 1 .. Len(s) /\ h[i] = f[g[i]]
  BY <1>1, <1>2
<1>4. h \in [1 .. Len(u) -> 1 .. Len(s)]
  BY <1>3
<1> HIDE DEF h
<1>5. /\ \A i, j \in 1 .. Len(u) : i < j => h[i] < h[j]
      /\ \A i \in 1 .. Len(u) : u[i] = s[h[i]]
  BY <1>1, <1>2, <1>3
<1>6. u \in Seq(Entries) /\ Len(u) <= Len(s)
  <2>1. u \in Seq(Entries) /\ t \in Seq(Entries) /\ Len(u) <= Len(t) /\ Len(t) <= Len(s)
    BY DEF Thins
  <2> QED BY <2>1
<1> QED BY <1>4, <1>5, <1>6 DEF Thins

(* Every sequence is what is left of itself; so is one without its head.   *)
LEMMA ThinsFrom ==
    ASSUME NEW s \in Seq(Entries), NEW m \in 1 .. Len(s) + 1
    PROVE  /\ Thins(SubSeq(s, m, Len(s)), s)
           /\ Thins(s, s)
<1> DEFINE t == SubSeq(s, m, Len(s))
           f == [i \in 1 .. Len(t) |-> i + m - 1]
<1>1. t \in Seq(Entries) /\ Len(t) = Len(s) + 1 - m /\ Len(s) \in Nat
  OBVIOUS
<1>2. \A i \in 1 .. Len(t) : t[i] = s[i + m - 1]
  BY <1>1
<1> HIDE DEF t
<1>3. \A i \in 1 .. Len(t) : f[i] = i + m - 1 /\ f[i] \in 1 .. Len(s)
  BY <1>1
<1>4. f \in [1 .. Len(t) -> 1 .. Len(s)]
  BY <1>3
<1> HIDE DEF f
<1>5. /\ \A i, j \in 1 .. Len(t) : i < j => f[i] < f[j]
      /\ \A i \in 1 .. Len(t) : t[i] = s[f[i]]
  BY <1>2, <1>3
<1>6. Thins(t, s)
  <2>1. Len(t) <= Len(s)
    BY <1>1
  <2> QED BY <1>1, <1>4, <1>5, <2>1 DEF Thins
<1>7. Thins(s, s)
  <2> DEFINE g == [i \in 1 .. Len(s) |-> i]
  <2>1. g \in [1 .. Len(s) -> 1 .. Len(s)] /\ \A i \in 1 .. Len(s) : g[i] = i
    OBVIOUS
  <2> HIDE DEF g
  <2>2. /\ \A i, j \in 1 .. Len(s) : i < j => g[i] < g[j]
        /\ \A i \in 1 .. Len(s) : s[i] = s[g[i]]
    BY <2>1
  <2> QED BY <1>1, <2>1, <2>2 DEF Thins
<1> QED BY <1>6, <1>7 DEF t

(* What is left without a query.                                           *)
LEMMA WithoutRule ==
    ASSUME NEW s, NEW k, NEW v, GoodCache(s, k, v), NEW q
    PROVE  /\ Thins(Without(s, q), s)
           /\ Places(Without(s, q), q) = {}
<1>0. s \in Seq(Entries) /\ Len(s) \in Nat
  BY DEF GoodCache
<1>1. CASE Places(s, q) = {}
  BY <1>0, <1>1, ThinsFrom DEF Without
<1>2. CASE Places(s, q) # {}
  <2> DEFINE p == CHOOSE i \in Places(s, q) : TRUE
             t == SubSeq(s, 1, p - 1) \o SubSeq(s, p + 1, Len(s))
             f == [i \in 1 .. Len(t) |-> IF i < p THEN i ELSE i + 1]
  <2>1. p \in 1 .. Len(s) /\ s[p].query = q
    BY <1>2 DEF Places
  <2>2. Without(s, q) = t
    BY <1>2 DEF Without
  <2> HIDE DEF p
  <2>3. /\ SubSeq(s, 1, p - 1) \in Seq(Entries) /\ Len(SubSeq(s, 1, p - 1)) = p - 1
        /\ \A i \in 1 .. p - 1 : SubSeq(s, 1, p - 1)[i] = s[i]
    BY <1>0, <2>1
  <2>4. /\ SubSeq(s, p + 1, Len(s)) \in Seq(Entries)
        /\ Len(SubSeq(s, p + 1, Len(s))) = Len(s) - p
        /\ \A i \in 1 .. Len(s) - p : SubSeq(s, p + 1, Len(s))[i] = s[i + p]
    BY <1>0, <2>1
  <2> DEFINE a == SubSeq(s, 1, p - 1)
             b == SubSeq(s, p + 1, Len(s))
  <2>5. /\ t \in Seq(Entries) /\ Len(t) = (p - 1) + (Len(s) - p)
        /\ \A i \in 1 .. (p - 1) + (Len(s) - p) :
              t[i] = IF i <= p - 1 THEN a[i] ELSE b[i - (p - 1)]
    <3>1. /\ a \in Seq(Entries) /\ b \in Seq(Entries) /\ Len(a) = p - 1 /\ Len(b) = Len(s) - p
          /\ t = a \o b
      BY <2>3, <2>4
    <3> HIDE DEF a, b, t
    <3>2. /\ a \o b \in Seq(Entries) /\ Len(a \o b) = Len(a) + Len(b)
          /\ \A i \in 1 .. Len(a) + Len(b) :
                (a \o b)[i] = IF i <= Len(a) THEN a[i] ELSE b[i - Len(a)]
      BY <3>1, ConcatProperties
    <3> QED BY <3>1, <3>2
  <2>6. /\ Len(t) = Len(s) - 1
        /\ \A i \in 1 .. Len(t) : t[i] = s[IF i < p THEN i ELSE i + 1]
    <3> HIDE DEF a, b, t
    <3>1. Len(t) = Len(s) - 1
      <4>1. Len(t) = (p - 1) + (Len(s) - p) /\ Len(s) \in Nat /\ p \in Nat
        BY <1>0, <2>1, <2>5
      <4> QED BY <4>1
    <3>2. ASSUME NEW i \in 1 .. Len(t)
          PROVE  t[i] = s[IF i < p THEN i ELSE i + 1]
      <4>1. CASE i < p
        <5>1. i \in 1 .. p - 1 /\ i \in 1 .. (p - 1) + (Len(s) - p)
          BY <1>0, <2>1, <3>1, <4>1
        <5> QED BY <2>3, <2>5, <4>1, <5>1 DEF a
      <4>2. CASE ~ (i < p)
        <5> DEFINE n == Len(s)
        <5>0. i \in Nat /\ p \in Nat /\ n \in Nat /\ 1 <= p /\ p <= n /\ p <= i /\ i <= n - 1
          BY <1>0, <2>1, <3>1, <4>2
        <5> HIDE DEF n
        <5>a. /\ i \in 1 .. (p - 1) + (n - p) /\ ~ (i <= p - 1)
              /\ i - (p - 1) \in 1 .. n - p /\ (i - (p - 1)) + p = i + 1
          BY <5>0
        <5>1. /\ i \in 1 .. (p - 1) + (Len(s) - p) /\ ~ (i <= p - 1)
              /\ i - (p - 1) \in 1 .. Len(s) - p /\ (i - (p - 1)) + p = i + 1
          BY <5>a DEF n
        <5>2. t[i] = b[i - (p - 1)]
          BY <2>5, <5>1
        <5>3. b[i - (p - 1)] = s[(i - (p - 1)) + p]
          BY <2>4, <5>1 DEF b
        <5> QED BY <4>2, <5>1, <5>2, <5>3
      <4> QED BY <4>1, <4>2
    <3> QED BY <3>1, <3>2
  <2> HIDE DEF t
  <2>7. \A i \in 1 .. Len(t) : /\ f[i] = IF i < p THEN i ELSE i + 1
                              /\ f[i] \in 1 .. Len(s) /\ f[i] # p
    BY <1>0, <2>1, <2>6
  <2>8. f \in [1 .. Len(t) -> 1 .. Len(s)]
    BY <2>7
  <2> HIDE DEF f
  <2>9. /\ \A i, j \in 1 .. Len(t) : i < j => f[i] < f[j]
        /\ \A i \in 1 .. Len(t) : t[i] = s[f[i]]
    BY <2>1, <2>6, <2>7
  <2>10. Thins(t, s)
    <3>1. Len(t) <= Len(s)
      BY <1>0, <2>6
    <3> QED BY <2>5, <2>8, <2>9, <3>1 DEF Thins
  <2>11. Places(t, q) = {}
    <3>1. ASSUME NEW i \in 1 .. Len(t), t[i].query = q
          PROVE  FALSE
      <4>1. f[i] \in 1 .. Len(s) /\ f[i] # p /\ s[f[i]].query = s[p].query
        BY <2>1, <2>7, <2>9, <3>1
      <4>2. f[i] < p \/ p < f[i]
        BY <1>0, <2>1, <4>1
      <4> QED BY <2>1, <4>1, <4>2 DEF GoodCache
    <3> QED BY <3>1 DEF Places
  <2> QED BY <2>2, <2>10, <2>11
<1> QED BY <1>1, <1>2

(* The eviction leaves some of the entries, and makes room for one.        *)
LEMMA EvictRule ==
    ASSUME NEW s \in Seq(Entries)
    PROVE  /\ Thins(Evict(s), s)
           /\ Len(s) <= MaxEntries + 1 => Len(Evict(s)) <= MaxEntries
<1> DEFINE dead == {i \in 1 .. Len(s) : s[i].left = 0}
           n    == Cardinality(dead)
<1>0. Len(s) \in Nat /\ MaxEntries \in Nat \ {0}
  BY ClientAssumption
<1>1. n \in 0 .. Len(s)
  <2>1. 1 \in Int /\ Len(s) \in Int
    BY <1>0
  <2>2. IsFiniteSet(1 .. Len(s)) /\ Cardinality(1 .. Len(s)) = Len(s)
    BY <1>0, <2>1, FS_Interval
  <2>3. dead \subseteq 1 .. Len(s)
    OBVIOUS
  <2> HIDE DEF dead
  <2>4. Cardinality(dead) \in Nat /\ Cardinality(dead) <= Cardinality(1 .. Len(s))
    BY <2>2, <2>3, FS_Subset, FS_CardinalityType
  <2> QED BY <1>0, <2>2, <2>4
<1>2. Live(s) = SubSeq(s, n + 1, Len(s))
  BY DEF Live
<1> HIDE DEF n
<1>3. n + 1 \in 1 .. Len(s) + 1
  BY <1>0, <1>1
<1>4. Thins(Live(s), s) /\ Thins(s, s)
  BY <1>2, <1>3, ThinsFrom
<1>5. Live(s) \in Seq(Entries) /\ Len(Live(s)) \in Nat /\ Len(Live(s)) <= Len(s)
  BY <1>4 DEF Thins
<1>6. CASE Len(s) <= MaxEntries
  BY <1>4, <1>6 DEF Evict
<1>7. CASE ~ (Len(s) <= MaxEntries) /\ Len(Live(s)) <= MaxEntries
  BY <1>4, <1>7 DEF Evict
<1>8. CASE ~ (Len(s) <= MaxEntries) /\ ~ (Len(Live(s)) <= MaxEntries)
  <2> DEFINE l == Live(s)
  <2>1. Evict(s) = Tail(l)
    BY <1>8 DEF Evict
  <2>2. l \in Seq(Entries) /\ Len(l) \in Nat \ {0} /\ Len(l) <= Len(s) /\ Thins(l, s)
    BY <1>0, <1>4, <1>5, <1>8
  <2> HIDE DEF l
  <2>3. Tail(l) = SubSeq(l, 2, Len(l)) /\ 2 \in 1 .. Len(l) + 1 /\ Len(Tail(l)) = Len(l) - 1
    BY <2>2
  <2>4. Thins(Tail(l), l)
    BY <2>2, <2>3, ThinsFrom
  <2>5. Thins(Tail(l), s)
    BY <2>2, <2>4, ThinsTransitive
  <2> QED BY <1>0, <2>1, <2>2, <2>3, <2>5
<1> QED BY <1>6, <1>7, <1>8

(* A cache with a new entry for a query.                                   *)
LEMMA StoredRule ==
    ASSUME NEW s, NEW k, NEW v, GoodCache(s, k, v), NEW e \in Entries,
           e.left = Ttl, e.age <= MaxLag, e.content <= v, CacheOf(e.query) = k
    PROVE  LET t == Append(Without(s, e.query), e)
               u == Evict(t) IN
           /\ GoodCache(u, k, v)
           /\ \A i \in 1 .. Len(u) :
                 u[i] = e \/ (u[i].query # e.query /\ \E j \in 1 .. Len(s) : u[i] = s[j])
           /\ Len(s) <= MaxEntries => Len(u) <= MaxEntries
<1> DEFINE w == Without(s, e.query)
           t == Append(w, e)
           u == Evict(t)
<1>1. Thins(w, s) /\ Places(w, e.query) = {}
  BY WithoutRule
<1>2. GoodCache(w, k, v)
  BY <1>1, ThinsGood
<1> HIDE DEF w
<1>3. w \in Seq(Entries) /\ Len(w) \in Nat /\ Len(s) \in Nat /\ Len(w) <= Len(s)
  BY <1>1, <1>2 DEF GoodCache, Thins
<1>4. /\ t \in Seq(Entries) /\ Len(t) = Len(w) + 1 /\ t[Len(w) + 1] = e
      /\ \A i \in 1 .. Len(w) : t[i] = w[i]
  BY <1>3
<1> HIDE DEF t
<1>5. \A i \in 1 .. Len(t) : i \in 1 .. Len(w) \/ i = Len(w) + 1
  BY <1>3, <1>4
<1>6. /\ Ttl \in Nat /\ MaxLag \in Nat
      /\ \A i \in 1 .. Len(w) : w[i] \in Entries /\ w[i].left \in 0 .. Ttl
      /\ \A i \in 1 .. Len(w) : w[i].query # e.query
      /\ e.age \in Nat
  <2>1. \A i \in 1 .. Len(w) : w[i] \in Entries
    BY <1>3
  <2>2. \A i \in 1 .. Len(w) : w[i].left \in 0 .. Ttl
    BY <2>1 DEF Entries
  <2>3. \A i \in 1 .. Len(w) : w[i].query # e.query
    BY <1>1 DEF Places
  <2>4. Ttl \in Nat /\ MaxLag \in Nat
    BY ClientAssumption
  <2>5. e.age \in Nat
    BY <2>4 DEF Entries
  <2> QED BY <2>1, <2>2, <2>3, <2>4, <2>5
<1>7. GoodCache(t, k, v)
  <2>1. ASSUME NEW i \in 1 .. Len(t)
        PROVE  /\ CacheOf(t[i].query) = k
               /\ t[i].content <= v
               /\ t[i].left > 0 => t[i].left + t[i].age <= Ttl + MaxLag
    <3>1. CASE i \in 1 .. Len(w)
      BY <1>2, <1>4, <3>1 DEF GoodCache
    <3>2. CASE i = Len(w) + 1
      BY <1>4, <1>6, <3>2
    <3> QED BY <1>5, <3>1, <3>2
  <2>2. ASSUME NEW i \in 1 .. Len(t), NEW j \in 1 .. Len(t), i < j
        PROVE  t[i].left <= t[j].left /\ t[i].query # t[j].query
    <3>1. i \in 1 .. Len(w)
      BY <1>3, <1>4, <2>2
    <3>2. CASE j \in 1 .. Len(w)
      BY <1>2, <1>4, <2>2, <3>1, <3>2 DEF GoodCache
    <3>3. CASE j = Len(w) + 1
      BY <1>4, <1>6, <3>1, <3>3
    <3> QED BY <1>5, <3>2, <3>3
  <2> QED BY <1>4, <2>1, <2>2 DEF GoodCache
<1>8. Thins(u, t) /\ (Len(t) <= MaxEntries + 1 => Len(u) <= MaxEntries)
  BY <1>4, EvictRule
<1> HIDE DEF u
<1>9. GoodCache(u, k, v)
  BY <1>7, <1>8, ThinsGood
<1>10. ASSUME NEW i \in 1 .. Len(u)
       PROVE  u[i] = e \/ (u[i].query # e.query /\ \E j \in 1 .. Len(s) : u[i] = s[j])
  <2>1. PICK m \in 1 .. Len(t) : u[i] = t[m]
    BY <1>8 DEF Thins
  <2>2. CASE m \in 1 .. Len(w)
    <3>1. u[i] = w[m] /\ w[m].query # e.query
      BY <1>4, <1>6, <2>1, <2>2
    <3>2. \E j \in 1 .. Len(s) : w[m] = s[j]
      BY <1>1, <2>2 DEF Thins
    <3> QED BY <3>1, <3>2
  <2>3. CASE m = Len(w) + 1
    BY <1>4, <2>1, <2>3
  <2> QED BY <1>5, <2>2, <2>3
<1>11. Len(s) <= MaxEntries => Len(u) <= MaxEntries
  BY <1>3, <1>4, <1>8, ClientAssumption
<1> QED BY <1>9, <1>10, <1>11 DEF u, t, w

(* A tick ages every entry of a cache.                                     *)
LEMMA AgedRule ==
    ASSUME NEW s, NEW k, NEW v, GoodCache(s, k, v)
    PROVE  LET t == [i \in 1 .. Len(s) |-> Aged(s[i])] IN
           /\ GoodCache(t, k, v)
           /\ Len(t) = Len(s)
           /\ \A i \in 1 .. Len(s) : /\ t[i].query = s[i].query
                                    /\ t[i].content = s[i].content
<1> DEFINE t == [i \in 1 .. Len(s) |-> Aged(s[i])]
<1>0. s \in Seq(Entries) /\ Len(s) \in Nat /\ Ttl \in Nat /\ MaxLag \in Nat
  BY ClientAssumption DEF GoodCache
<1>1. ASSUME NEW i \in 1 .. Len(s)
      PROVE  /\ Aged(s[i]) \in Entries
             /\ Aged(s[i]).query = s[i].query /\ Aged(s[i]).content = s[i].content
             /\ Aged(s[i]).left = Less(s[i].left)
             /\ s[i].left \in Nat /\ s[i].age \in Nat
             /\ Aged(s[i]).left > 0 => Aged(s[i]).left + Aged(s[i]).age <= Ttl + MaxLag
  <2> DEFINE e == s[i]
             older == IF e.age < Ttl + MaxLag THEN e.age + 1 ELSE e.age
  <2>1. e \in Entries
    BY <1>0
  <2>2. e.left \in 0 .. Ttl /\ e.age \in 0 .. Ttl + MaxLag
    BY <2>1 DEF Entries
  <2>3. e.left > 0 => e.left + e.age <= Ttl + MaxLag
    BY DEF GoodCache
  <2> HIDE DEF e
  <2>4. Less(e.left) \in 0 .. Ttl /\ older \in 0 .. Ttl + MaxLag
    BY <1>0, <2>2 DEF Less
  <2>5. Less(e.left) > 0 => Less(e.left) + older <= Ttl + MaxLag
    BY <1>0, <2>2, <2>3 DEF Less
  <2>6. Aged(e) = [e EXCEPT !.left = Less(e.left), !.age = older]
    BY DEF Aged
  <2> HIDE DEF older
  <2>7. /\ Aged(e) \in Entries /\ Aged(e).query = e.query /\ Aged(e).content = e.content
        /\ Aged(e).left = Less(e.left) /\ Aged(e).age = older
    BY <2>1, <2>4, <2>6 DEF Entries
  <2>8. Aged(e).left > 0 => Aged(e).left + Aged(e).age <= Ttl + MaxLag
    BY <2>5, <2>7
  <2>9. e.left \in Nat /\ e.age \in Nat
    BY <1>0, <2>2
  <2> QED BY <2>7, <2>8, <2>9 DEF e
<1>2. t \in Seq(Entries) /\ Len(t) = Len(s) /\ \A i \in 1 .. Len(s) : t[i] = Aged(s[i])
  BY <1>0, <1>1
<1> HIDE DEF t
<1>3. ASSUME NEW i \in 1 .. Len(s), NEW j \in 1 .. Len(s), i < j
      PROVE  t[i].left <= t[j].left /\ t[i].query # t[j].query
  <2>1. s[i].left <= s[j].left /\ s[i].query # s[j].query
    BY <1>3 DEF GoodCache
  <2> QED BY <1>1, <1>2, <2>1 DEF Less
<1>4. GoodCache(t, k, v)
  BY <1>1, <1>2, <1>3 DEF GoodCache
<1> QED BY <1>1, <1>2, <1>4 DEF t

-----------------------------------------------------------------------------
(* ESimClient: the calls and the slots of the limiter.                     *)

PendingInv ==
    /\ version \in 0 .. MaxVersion
    /\ pending \in [Callers -> Awaited \cup {Idle}]
    /\ \A c \in Callers : pending[c] # Idle => pending[c].content <= version
    /\ sentNow \in BOOLEAN

(* The slot of this tick is taken.                                         *)
Taken == IF sentNow THEN 1 ELSE 0

(* The slots that are reserved and still to come are those of the calls    *)
(* that sleep: one each, without a gap.                                    *)
SlotsInv ==
    /\ reserved = Cardinality(Sleeping) + Taken
    /\ \A c \in Sleeping : pending[c].wait \in Taken .. reserved - 1
    /\ \A c, d \in Sleeping : pending[c].wait = pending[d].wait => c = d
    /\ \A n \in Taken .. reserved - 1 : \E c \in Sleeping : pending[c].wait = n

LEMMA SleepingFinite ==
    /\ IsFiniteSet(Sleeping) /\ Cardinality(Sleeping) \in Nat
    /\ Cardinality(Callers) \in Nat
    /\ Cardinality(Sleeping) <= Cardinality(Callers)
    /\ \A c \in Callers \ Sleeping : Cardinality(Sleeping) + 1 <= Cardinality(Callers)
<1>1. IsFiniteSet(Callers) /\ Cardinality(Callers) \in Nat
  BY ClientAssumption, FS_CardinalityType
<1>2. Sleeping \subseteq Callers
  BY DEF Sleeping
<1>3. IsFiniteSet(Sleeping) /\ Cardinality(Sleeping) <= Cardinality(Callers)
  BY <1>1, <1>2, FS_Subset
<1>4. Cardinality(Sleeping) \in Nat
  BY <1>3, FS_CardinalityType
<1>5. ASSUME NEW c \in Callers \ Sleeping
      PROVE  Cardinality(Sleeping) + 1 <= Cardinality(Callers)
  <2>1. /\ IsFiniteSet(Callers \ {c})
        /\ Cardinality(Callers \ {c}) = Cardinality(Callers) - 1
    BY <1>1, <1>5, FS_RemoveElement
  <2>2. Sleeping \subseteq Callers \ {c}
    BY <1>2, <1>5
  <2>3. Cardinality(Sleeping) <= Cardinality(Callers \ {c})
    BY <2>1, <2>2, FS_Subset
  <2> QED BY <1>1, <1>4, <2>1, <2>3
<1> QED BY <1>1, <1>3, <1>4, <1>5

(* A step that lets the calls sleep leaves them their slots.               *)
LEMMA SameSleeping ==
    ASSUME SlotsInv, sentNow' = sentNow, reserved' = reserved,
           \A c \in Callers : /\ CallerAt(c, "sleeping")' <=> CallerAt(c, "sleeping")
                              /\ CallerAt(c, "sleeping") => pending'[c].wait = pending[c].wait
    PROVE  SlotsInv'
<1>1. Sleeping' = Sleeping
  BY DEF Sleeping
<1>2. \A c \in Sleeping : pending'[c].wait = pending[c].wait
  BY DEF Sleeping
<1>3. Taken' = Taken
  BY DEF Taken
<1> QED BY <1>1, <1>2, <1>3 DEF SlotsInv

LEMMA AskStep ==
    ASSUME PendingInv, SlotsInv, NEW c \in Callers, NEW q \in Cached \cup {Uncached}, Asks(c, q)
    PROVE  PendingInv' /\ SlotsInv'
<1> DEFINE p == [query |-> q, stage |-> "sleeping", wait |-> reserved, content |-> 0,
                 age |-> 0, overlaps |-> FALSE]
<1>1. /\ pending[c] = Idle /\ version' = version /\ sentNow' = sentNow
      /\ pending' = [pending EXCEPT ![c] = p]
  BY DEF Asks
<1>2. reserved' = reserved + 1
  BY DEF Asks, Reserves
<1>3. c \in Callers \ Sleeping
  BY <1>1 DEF Sleeping, CallerAt
<1>4. /\ reserved \in Nat /\ reserved <= Cardinality(Callers) /\ Taken \in 0 .. 1 /\ Taken <= reserved
      /\ reserved = Cardinality(Sleeping) + Taken
  BY <1>3, SleepingFinite DEF SlotsInv, Taken
<1>5. p \in Awaited
  <2>1. reserved \in 0 .. Cardinality(Callers)
    BY <1>4, SleepingFinite
  <2>2. 0 \in 0 .. MaxVersion /\ 0 \in 0 .. MaxLag
    BY ClientAssumption
  <2> QED BY <2>1, <2>2 DEF Awaited
<1>6. p # Idle
  BY <1>5, IdleAssumption
<1>7. p.stage = "sleeping" /\ p.wait = reserved /\ p.content = 0
  OBVIOUS
<1> HIDE DEF p
<1>8. pending'[c] = p /\ \A d \in Callers : d # c => pending'[d] = pending[d]
  BY <1>1 DEF PendingInv
<1>9. PendingInv'
  <2>1. pending' \in [Callers -> Awaited \cup {Idle}]
    BY <1>1, <1>5 DEF PendingInv
  <2>2. \A d \in Callers : pending'[d] # Idle => pending'[d].content <= version'
    BY <1>1, <1>7, <1>8 DEF PendingInv
  <2> QED BY <1>1, <2>1, <2>2 DEF PendingInv
<1>10. Sleeping' = Sleeping \cup {c}
  BY <1>6, <1>7, <1>8 DEF Sleeping, CallerAt
<1>11. /\ \A d \in Sleeping : d # c /\ pending'[d].wait = pending[d].wait
       /\ pending'[c].wait = reserved
  BY <1>3, <1>7, <1>8 DEF Sleeping
<1>12. Cardinality(Sleeping') = Cardinality(Sleeping) + 1
  BY <1>3, <1>10, SleepingFinite, FS_AddElement
<1>13. Taken' = Taken
  BY <1>1 DEF Taken
<1>14. SlotsInv'
  <2>1. reserved' = Cardinality(Sleeping') + Taken'
    BY <1>2, <1>4, <1>12, <1>13, SleepingFinite
  <2>2. \A d \in Sleeping' : pending'[d].wait \in Taken' .. reserved' - 1
    BY <1>2, <1>4, <1>10, <1>11, <1>13 DEF SlotsInv
  <2>3. \A d \in Sleeping : pending'[d].wait # reserved
    BY <1>4, <1>11 DEF SlotsInv
  <2>4. \A d, e \in Sleeping' : pending'[d].wait = pending'[e].wait => d = e
    BY <1>10, <1>11, <2>3 DEF SlotsInv
  <2>5. \A n \in Taken' .. reserved' - 1 : \E d \in Sleeping' : pending'[d].wait = n
    <3>1. \A n \in Taken .. reserved : n = reserved \/ n \in Taken .. reserved - 1
      BY <1>4
    <3>2. Taken' .. reserved' - 1 = Taken .. reserved
      BY <1>2, <1>4, <1>13
    <3> QED BY <1>10, <1>11, <3>1, <3>2 DEF SlotsInv
  <2> QED BY <2>1, <2>2, <2>4, <2>5 DEF SlotsInv
<1> QED BY <1>9, <1>14

LEMMA SendStep ==
    ASSUME PendingInv, SlotsInv, NEW c \in Callers, Sends(c)
    PROVE  PendingInv' /\ SlotsInv'
<1> DEFINE p == [pending[c] EXCEPT !.stage = "sent"]
<1>1. /\ c \in Sleeping /\ pending[c].wait = 0 /\ pending[c] # Idle /\ pending[c] \in Awaited
      /\ version' = version /\ sentNow' = TRUE /\ reserved' = reserved
      /\ pending' = [pending EXCEPT ![c] = p]
  BY DEF Sends, Sleeping, CallerAt, PendingInv
<1>2. p \in Awaited /\ p.stage = "sent" /\ p.content = pending[c].content
  BY <1>1 DEF Awaited
<1>3. p # Idle
  BY <1>2, IdleAssumption
<1> HIDE DEF p
<1>4. pending'[c] = p /\ \A d \in Callers : d # c => pending'[d] = pending[d]
  BY <1>1 DEF PendingInv
<1>5. PendingInv'
  <2>1. pending' \in [Callers -> Awaited \cup {Idle}]
    BY <1>1, <1>2 DEF PendingInv
  <2>2. \A d \in Callers : pending'[d] # Idle => pending'[d].content <= version'
    BY <1>1, <1>2, <1>4 DEF PendingInv
  <2> QED BY <1>1, <2>1, <2>2 DEF PendingInv
<1>6. Sleeping' = Sleeping \ {c}
  BY <1>2, <1>3, <1>4 DEF Sleeping, CallerAt
<1>7. \A d \in Sleeping' : d \in Sleeping /\ d # c /\ pending'[d].wait = pending[d].wait
  BY <1>4, <1>6 DEF Sleeping
<1>8. Cardinality(Sleeping') = Cardinality(Sleeping) - 1
  BY <1>1, <1>6, SleepingFinite, FS_RemoveElement
<1>9. Taken = 0 /\ Taken' = 1 /\ reserved = Cardinality(Sleeping) /\ reserved \in Nat
  <2>1. Taken \in 0 .. 1 /\ 0 \in Taken .. reserved - 1
    BY <1>1 DEF SlotsInv, Taken
  <2>2. Taken = 0
    BY <2>1
  <2> QED BY <1>1, <2>2, SleepingFinite DEF SlotsInv, Taken
<1>10. SlotsInv'
  <2>1. reserved' = Cardinality(Sleeping') + Taken'
    BY <1>1, <1>8, <1>9, SleepingFinite
  <2>2. ASSUME NEW d \in Sleeping'
        PROVE  pending'[d].wait \in Taken' .. reserved' - 1
    <3>1. pending[d].wait \in 0 .. reserved - 1 /\ pending[d].wait # 0
      BY <1>1, <1>7, <1>9 DEF SlotsInv
    <3> QED BY <1>1, <1>7, <1>9, <3>1
  <2>3. \A d, e \in Sleeping' : pending'[d].wait = pending'[e].wait => d = e
    BY <1>7 DEF SlotsInv
  <2>4. ASSUME NEW n \in Taken' .. reserved' - 1
        PROVE  \E d \in Sleeping' : pending'[d].wait = n
    <3>1. n \in Taken .. reserved - 1 /\ n # 0
      BY <1>1, <1>9
    <3>2. PICK d \in Sleeping : pending[d].wait = n
      BY <3>1 DEF SlotsInv
    <3> QED BY <1>1, <1>6, <1>7, <3>1, <3>2
  <2> QED BY <2>1, <2>2, <2>3, <2>4 DEF SlotsInv
<1> QED BY <1>5, <1>10

(* The steps of a call that has been sent leave the slots alone.           *)
LEMMA AnswerStep ==
    ASSUME PendingInv, SlotsInv, NEW c \in Callers,
           ProviderAnswers(c) \/ Arrives(c) \/ ClientFails(c)
    PROVE  PendingInv' /\ SlotsInv'
<1>1. /\ pending[c] # Idle /\ pending[c] \in Awaited /\ pending[c].stage # "sleeping"
      /\ version' = version /\ sentNow' = sentNow /\ reserved' = reserved
  BY DEF ProviderAnswers, Arrives, ClientFails, CallerAt, PendingInv
<1>2. /\ pending' \in [Callers -> Awaited \cup {Idle}]
      /\ pending'[c] # Idle => /\ pending'[c].content <= version
                               /\ pending'[c].stage # "sleeping"
      /\ \A d \in Callers : d # c =>
            /\ pending'[d] = Idle <=> pending[d] = Idle
            /\ pending[d] # Idle => /\ pending'[d].stage = pending[d].stage
                                    /\ pending'[d].wait = pending[d].wait
                                    /\ pending'[d].content = pending[d].content
  <2>1. CASE ProviderAnswers(c)
    <3> DEFINE p == [pending[c] EXCEPT !.stage = "answered", !.content = version]
    <3>1. p \in Awaited /\ p.stage = "answered" /\ p.content = version
      BY <1>1 DEF Awaited, PendingInv
    <3>2. pending' = [pending EXCEPT ![c] = p]
      BY <2>1 DEF ProviderAnswers
    <3> HIDE DEF p
    <3>3. version <= version
      BY DEF PendingInv
    <3> QED BY <3>1, <3>2, <3>3 DEF PendingInv
  <2>2. CASE pending' = [pending EXCEPT ![c] = Idle]
    BY <2>2 DEF PendingInv
  <2>3. CASE pending' = [Overlapped(pending[c].query, c) EXCEPT ![c] = Idle]
    <3> DEFINE f == Overlapped(pending[c].query, c)
    <3>1. f = [d \in Callers |-> f[d]]
      BY DEF Overlapped
    <3>2. ASSUME NEW d \in Callers
          PROVE  f[d] = pending[d] \/ (pending[d] # Idle /\ f[d] = [pending[d] EXCEPT !.overlaps = TRUE])
      BY DEF Overlapped
    <3> HIDE DEF f
    <3>3. ASSUME NEW d \in Callers, pending[d] # Idle
          PROVE  /\ f[d] \in Awaited /\ f[d].stage = pending[d].stage
                 /\ f[d].wait = pending[d].wait /\ f[d].content = pending[d].content
      <4>1. pending[d] \in Awaited
        BY <3>3 DEF PendingInv
      <4>2. [pending[d] EXCEPT !.overlaps = TRUE] \in Awaited
        BY <4>1 DEF Awaited
      <4> QED BY <3>2, <4>1, <4>2 DEF Awaited
    <3>4. \A d \in Callers : f[d] \in Awaited \cup {Idle} /\ (f[d] = Idle <=> pending[d] = Idle)
      BY <3>2, <3>3, IdleAssumption
    <3>5. f \in [Callers -> Awaited \cup {Idle}]
      BY <3>1, <3>4
    <3>6. pending' = [f EXCEPT ![c] = Idle]
      BY <2>3 DEF f
    <3>7. pending' \in [Callers -> Awaited \cup {Idle}] /\ pending'[c] = Idle
          /\ \A d \in Callers : d # c => pending'[d] = f[d]
      BY <3>5, <3>6
    <3> QED BY <3>3, <3>4, <3>7
  <2> QED BY <2>1, <2>2, <2>3 DEF Arrives, ClientFails
<1>3. PendingInv'
  <2>1. \A d \in Callers : pending'[d] # Idle => pending'[d].content <= version'
    BY <1>1, <1>2 DEF PendingInv
  <2> QED BY <1>1, <1>2, <2>1 DEF PendingInv
<1>4. \A d \in Callers : /\ CallerAt(d, "sleeping")' <=> CallerAt(d, "sleeping")
                         /\ CallerAt(d, "sleeping") => pending'[d].wait = pending[d].wait
  BY <1>1, <1>2 DEF CallerAt
<1>5. SlotsInv'
  BY <1>1, <1>4, SameSleeping
<1> QED BY <1>3, <1>5

LEMMA TickStep ==
    ASSUME PendingInv, SlotsInv, ClientTick
    PROVE  PendingInv' /\ SlotsInv'
<1> DEFINE p(c) == IF CallerAt(c, "sleeping") THEN [pending[c] EXCEPT !.wait = @ - 1]
                   ELSE IF CallerAt(c, "answered") THEN [pending[c] EXCEPT !.age = @ + 1]
                   ELSE pending[c]
<1>1. /\ pending' = [c \in Callers |-> p(c)]
      /\ reserved' = Less(reserved) /\ sentNow' = FALSE /\ version' = version
  BY DEF ClientTick
<1>2. ASSUME NEW c \in Callers
      PROVE  /\ p(c) \in Awaited \cup {Idle}
             /\ p(c) = Idle <=> pending[c] = Idle
             /\ pending[c] # Idle => /\ p(c).stage = pending[c].stage
                                     /\ p(c).content = pending[c].content
             /\ CallerAt(c, "sleeping") => p(c).wait = pending[c].wait - 1
  <2>1. CASE CallerAt(c, "sleeping")
    <3>1. pending[c] # Idle /\ pending[c] \in Awaited /\ pending[c].wait > 0
      BY <2>1 DEF CallerAt, PendingInv, ClientTick
    <3>2. pending[c].wait \in 0 .. Cardinality(Callers) /\ Cardinality(Callers) \in Nat
      BY <3>1, SleepingFinite DEF Awaited
    <3>3. pending[c].wait - 1 \in 0 .. Cardinality(Callers)
      BY <3>1, <3>2
    <3>4. p(c) = [pending[c] EXCEPT !.wait = pending[c].wait - 1]
      BY <2>1
    <3>5. /\ p(c) \in Awaited /\ p(c).stage = pending[c].stage
          /\ p(c).content = pending[c].content /\ p(c).wait = pending[c].wait - 1
      BY <3>1, <3>3, <3>4 DEF Awaited
    <3> QED BY <3>1, <3>5, IdleAssumption
  <2>2. CASE ~ CallerAt(c, "sleeping") /\ CallerAt(c, "answered")
    <3>1. pending[c] # Idle /\ pending[c] \in Awaited /\ pending[c].age < MaxLag
      BY <2>2 DEF CallerAt, PendingInv, ClientTick
    <3>2. pending[c].age \in 0 .. MaxLag /\ MaxLag \in Nat
      BY <3>1, ClientAssumption DEF Awaited
    <3>3. pending[c].age + 1 \in 0 .. MaxLag
      BY <3>1, <3>2
    <3>4. p(c) = [pending[c] EXCEPT !.age = pending[c].age + 1]
      BY <2>2
    <3>5. /\ p(c) \in Awaited /\ p(c).stage = pending[c].stage
          /\ p(c).content = pending[c].content
      BY <3>1, <3>3, <3>4 DEF Awaited
    <3> QED BY <2>2, <3>1, <3>5, IdleAssumption
  <2>3. CASE ~ CallerAt(c, "sleeping") /\ ~ CallerAt(c, "answered")
    BY <2>3 DEF PendingInv
  <2> QED BY <2>1, <2>2, <2>3
<1> HIDE DEF p
<1>3. \A c \in Callers : pending'[c] = p(c)
  BY <1>1
<1>4. PendingInv'
  <2>1. pending' \in [Callers -> Awaited \cup {Idle}]
    BY <1>1, <1>2
  <2>2. \A c \in Callers : pending'[c] # Idle => pending'[c].content <= version'
    BY <1>1, <1>2, <1>3 DEF PendingInv
  <2> QED BY <1>1, <2>1, <2>2 DEF PendingInv
<1>5. Sleeping' = Sleeping
  BY <1>2, <1>3 DEF Sleeping, CallerAt
<1>6. \A c \in Sleeping : c \in Callers /\ pending'[c].wait = pending[c].wait - 1 /\ pending[c].wait > 0
  BY <1>2, <1>3 DEF Sleeping, ClientTick
<1>7. /\ Taken \in 0 .. 1 /\ Taken' = 0 /\ reserved \in Nat /\ Cardinality(Sleeping) \in Nat
      /\ reserved = Cardinality(Sleeping) + Taken
  BY <1>1, SleepingFinite DEF SlotsInv, Taken
<1>8. CASE Taken = 0
  <2>1. reserved = 0
    <3>1. ASSUME reserved # 0
          PROVE  FALSE
      <4>1. 0 \in Taken .. reserved - 1
        BY <1>7, <1>8, <3>1
      <4>2. PICK c \in Sleeping : pending[c].wait = 0
        BY <4>1 DEF SlotsInv
      <4> QED BY <1>6, <4>2
    <3> QED BY <3>1
  <2>2. reserved' = 0 /\ Cardinality(Sleeping) = 0 /\ Sleeping = {}
    <3>1. Cardinality(Sleeping) = 0
      BY <1>7, <1>8, <2>1
    <3>2. Sleeping = {}
      BY <3>1, SleepingFinite, FS_EmptySet
    <3> QED BY <1>1, <2>1, <3>1, <3>2 DEF Less
  <2>3. Taken' .. reserved' - 1 = {}
    BY <1>7, <2>2
  <2>4. reserved' = Cardinality(Sleeping') + Taken'
    BY <1>5, <1>7, <2>2
  <2> QED BY <1>4, <1>5, <2>2, <2>3, <2>4 DEF SlotsInv
<1>9. CASE Taken = 1
  <2>1. reserved' = reserved - 1 /\ reserved' = Cardinality(Sleeping)
    BY <1>1, <1>7, <1>9 DEF Less
  <2>2. reserved' = Cardinality(Sleeping') + Taken'
    BY <1>5, <1>7, <2>1
  <2>3. \A c \in Sleeping' : pending'[c].wait \in Taken' .. reserved' - 1
    BY <1>5, <1>6, <1>7, <1>9, <2>1 DEF SlotsInv
  <2>4. ASSUME NEW c \in Sleeping', NEW d \in Sleeping', pending'[c].wait = pending'[d].wait
        PROVE  c = d
    <3>1. /\ c \in Sleeping /\ d \in Sleeping
          /\ pending[c].wait - 1 = pending[d].wait - 1
          /\ pending[c].wait \in 1 .. reserved - 1 /\ pending[d].wait \in 1 .. reserved - 1
      BY <1>5, <1>6, <1>9, <2>4 DEF SlotsInv
    <3>2. pending[c].wait = pending[d].wait
      BY <3>1
    <3> QED BY <3>1, <3>2 DEF SlotsInv
  <2>5. ASSUME NEW n \in Taken' .. reserved' - 1
        PROVE  \E c \in Sleeping' : pending'[c].wait = n
    <3>1. n + 1 \in Taken .. reserved - 1 /\ n \in Nat /\ (n + 1) - 1 = n
      BY <1>7, <1>9, <2>1
    <3>2. PICK c \in Sleeping : pending[c].wait = n + 1
      BY <3>1 DEF SlotsInv
    <3> QED BY <1>5, <1>6, <3>1, <3>2
  <2> QED BY <1>4, <2>2, <2>3, <2>4, <2>5 DEF SlotsInv
<1> QED BY <1>7, <1>8, <1>9

LEMMA SlotsStart == ClientInit => PendingInv /\ SlotsInv
<1> SUFFICES ASSUME ClientInit
             PROVE  PendingInv /\ SlotsInv
  OBVIOUS
<1>1. PendingInv
  <2>1. version \in 0 .. MaxVersion
    BY ClientAssumption DEF ClientInit
  <2>2. sentNow \in BOOLEAN
    BY DEF ClientInit
  <2>3. pending = [c \in Callers |-> Idle]
    BY DEF ClientInit
  <2>4. /\ pending \in [Callers -> Awaited \cup {Idle}]
        /\ \A c \in Callers : pending[c] = Idle
    BY <2>3
  <2> QED BY <2>1, <2>2, <2>4 DEF PendingInv
<1>2. Sleeping = {} /\ Taken = 0 /\ reserved = 0
  BY DEF ClientInit, Sleeping, CallerAt, Taken
<1>3. Cardinality(Sleeping) = 0
  BY <1>2, FS_EmptySet
<1>4. Taken .. reserved - 1 = {}
  BY <1>2
<1>5. reserved = Cardinality(Sleeping) + Taken
  BY <1>2, <1>3
<1> QED BY <1>1, <1>2, <1>4, <1>5 DEF SlotsInv

LEMMA SlotsStep == PendingInv /\ SlotsInv /\ [ClientNext]_clientVars => PendingInv' /\ SlotsInv'
<1> SUFFICES ASSUME PendingInv, SlotsInv, [ClientNext]_clientVars
             PROVE  PendingInv' /\ SlotsInv'
  OBVIOUS
<1>1. CASE ProviderChanges
  <2>1. version' \in 0 .. MaxVersion /\ version < version'
    BY <1>1, ClientAssumption DEF ProviderChanges, PendingInv
  <2>2. pending' = pending /\ reserved' = reserved /\ sentNow' = sentNow
    BY <1>1 DEF ProviderChanges
  <2>3. ASSUME NEW c \in Callers, pending[c] # Idle
        PROVE  pending[c].content <= version'
    <3>1. pending[c] \in Awaited /\ pending[c].content <= version /\ version \in Nat
      BY <2>3, ClientAssumption DEF PendingInv
    <3>2. pending[c].content \in Nat
      BY <3>1, ClientAssumption DEF Awaited
    <3> QED BY <2>1, <3>1, <3>2
  <2>4. PendingInv'
    BY <2>1, <2>2, <2>3 DEF PendingInv
  <2>5. SlotsInv'
    BY <2>2, SameSleeping DEF CallerAt
  <2> QED BY <2>4, <2>5
<1>2. CASE UNCHANGED clientVars
  <2>1. version' = version /\ pending' = pending /\ reserved' = reserved /\ sentNow' = sentNow
    BY <1>2 DEF clientVars
  <2>2. SlotsInv'
    BY <2>1, SameSleeping DEF CallerAt
  <2> QED BY <2>1, <2>2 DEF PendingInv
<1> QED BY <1>1, <1>2, AskStep, SendStep, AnswerStep, TickStep DEF ClientNext

(* The limiter sends one call per tick, and lets no slot pass while a call *)
(* waits (AsyncRateLimiter.acquire).                                       *)
THEOREM LimiterUsesSlots == ClientSpec => []SlotsAreUsed
<1>1. PendingInv /\ SlotsInv => SlotsAreUsed
  <2> SUFFICES ASSUME PendingInv, SlotsInv
               PROVE  SlotsAreUsed
    OBVIOUS
  <2> DEFINE n == Cardinality(Sleeping)
  <2>1. n \in Nat /\ Taken \in 0 .. 1 /\ reserved = n + Taken
    BY SleepingFinite DEF SlotsInv, Taken
  <2>2. {pending[c].wait : c \in Sleeping} = Taken .. reserved - 1
    BY DEF SlotsInv
  <2> HIDE DEF n
  <2>3. Taken .. reserved - 1 = {i + Taken : i \in 0 .. n - 1}
    <3>1. ASSUME NEW m \in Taken .. reserved - 1
          PROVE  m \in {i + Taken : i \in 0 .. n - 1}
      <4>1. m - Taken \in 0 .. n - 1 /\ m = (m - Taken) + Taken
        BY <2>1
      <4> QED BY <4>1
    <3>2. \A i \in 0 .. n - 1 : i + Taken \in Taken .. reserved - 1
      BY <2>1
    <3> QED BY <3>1, <3>2
  <2> QED BY <2>1, <2>2, <2>3 DEF SlotsAreUsed, Taken, n
<1> QED BY <1>1, SlotsStart, SlotsStep, PTL DEF ClientSpec

-----------------------------------------------------------------------------
(* ESimClient: what the caches serve.                                      *)

EntriesInv ==
    /\ entries \in [Caches -> Seq(Entries)]
    /\ \A k \in Caches : GoodCache(entries[k], k, version)
    /\ Len(entries["packages"]) <= MaxEntries

(* As long as no answer to its query has been stored since it was asked,   *)
(* a call knows that the cache has none: it dropped what had expired.      *)
OverlapInv ==
    \A c \in Callers :
        pending[c] # Idle /\ pending[c].query \in Cached /\ ~ pending[c].overlaps =>
            Places(entries[CacheOf(pending[c].query)], pending[c].query) = {}

CacheInvs == PendingInv /\ EntriesInv /\ OverlapInv

(* A cache goes back from newer to older content.                          *)
GoesBackOverlapped ==
    \A q \in Cached : \A e \in Entry(q), f \in Entry(q)' :
        f.content < e.content =>
            \E c \in Callers : /\ CallerAt(c, "answered") /\ pending[c].query = q
                               /\ pending[c].overlaps /\ pending'[c] = Idle

(* Nothing is stored: what the caches have they had before.                *)
StoresNothing ==
    \A k \in Caches : \A i \in 1 .. Len(entries'[k]) : \E j \in 1 .. Len(entries[k]) :
        /\ entries'[k][i].query = entries[k][j].query
        /\ entries'[k][i].content = entries[k][j].content

LEMMA CacheOfRule == \A q : CacheOf(q) \in Caches
BY DEF CacheOf, Caches

(* What a query finds in a good cache is one entry.                        *)
LEMMA OneEntry ==
    ASSUME NEW s, NEW k, NEW v, GoodCache(s, k, v), NEW i \in 1 .. Len(s), NEW j \in 1 .. Len(s),
           s[i].query = s[j].query
    PROVE  i = j /\ s[i] \in Entries /\ s[i].content \in Nat
<1>1. s \in Seq(Entries) /\ Len(s) \in Nat
  BY DEF GoodCache
<1>2. s[i] \in Entries
  BY <1>1
<1>3. s[i].content \in Nat
  BY <1>2, ClientAssumption DEF Entries
<1>4. ~ (i < j) /\ ~ (j < i)
  BY DEF GoodCache
<1>5. i \in Nat /\ j \in Nat
  BY <1>1
<1> QED BY <1>2, <1>3, <1>4, <1>5

LEMMA NothingStored ==
    ASSUME EntriesInv, StoresNothing
    PROVE  /\ GoesBackOverlapped
           /\ \A q : Places(entries[CacheOf(q)], q) = {} => Places(entries'[CacheOf(q)], q) = {}
<1>1. ASSUME NEW q \in Cached, NEW e \in Entry(q), NEW f \in Entry(q)', f.content < e.content
      PROVE  FALSE
  <2> DEFINE k == CacheOf(q)
  <2>1. k \in Caches
    BY CacheOfRule
  <2>2. PICK i \in 1 .. Len(entries[k]) : e = entries[k][i] /\ entries[k][i].query = q
    BY <1>1 DEF Entry, Places
  <2>3. PICK m \in 1 .. Len(entries'[k]) : f = entries'[k][m] /\ entries'[k][m].query = q
    BY <1>1 DEF Entry, Places, CacheOf
  <2>4. PICK j \in 1 .. Len(entries[k]) : /\ f.query = entries[k][j].query
                                         /\ f.content = entries[k][j].content
    BY <2>1, <2>3 DEF StoresNothing
  <2>5. GoodCache(entries[k], k, version)
    BY <2>1 DEF EntriesInv
  <2> HIDE DEF k
  <2>6. entries[k][i].query = entries[k][j].query
    BY <2>2, <2>3, <2>4
  <2>7. i = j /\ e.content \in Nat
    BY <2>2, <2>5, <2>6, OneEntry
  <2> QED BY <1>1, <2>2, <2>4, <2>7
<1>2. ASSUME NEW q, Places(entries[CacheOf(q)], q) = {}
      PROVE  Places(entries'[CacheOf(q)], q) = {}
  BY <1>2, CacheOfRule DEF StoresNothing, Places
<1> QED BY <1>1, <1>2 DEF GoesBackOverlapped

LEMMA SameCaches ==
    ASSUME EntriesInv, entries' = entries, version' = version
    PROVE  EntriesInv' /\ StoresNothing
BY DEF EntriesInv, StoresNothing

LEMMA AskCaches ==
    ASSUME CacheInvs, NEW c \in Callers, NEW q \in Cached \cup {Uncached}, Asks(c, q)
    PROVE  EntriesInv' /\ OverlapInv' /\ GoesBackOverlapped
<1> DEFINE k == CacheOf(q)
           w == Without(entries[k], q)
<1>1. k \in Caches
  BY CacheOfRule
<1>2. /\ entries \in [Caches -> Seq(Entries)] /\ GoodCache(entries[k], k, version)
      /\ \A m \in Caches : GoodCache(entries[m], m, version)
      /\ Len(entries["packages"]) <= MaxEntries
  BY <1>1 DEF CacheInvs, EntriesInv
<1>3. entries' = [entries EXCEPT ![k] = w] /\ version' = version
  BY DEF Asks
<1>4. Thins(w, entries[k]) /\ Places(w, q) = {} /\ GoodCache(w, k, version)
  BY <1>2, WithoutRule, ThinsGood
<1>5. pending' = [pending EXCEPT ![c] =
          [query |-> q, stage |-> "sleeping", wait |-> reserved, content |-> 0, age |-> 0,
           overlaps |-> FALSE]]
  BY DEF Asks
<1> HIDE DEF k, w
<1>6. entries'[k] = w /\ \A m \in Caches : m # k => entries'[m] = entries[m]
  BY <1>1, <1>2, <1>3
<1>7. w \in Seq(Entries) /\ Len(w) <= Len(entries[k]) /\ Len(w) \in Nat /\ Len(entries[k]) \in Nat
  BY <1>2, <1>4 DEF Thins, GoodCache
<1>8. EntriesInv'
  <2>1. entries' \in [Caches -> Seq(Entries)]
    BY <1>2, <1>3, <1>7
  <2>2. \A m \in Caches : GoodCache(entries'[m], m, version)
    BY <1>2, <1>4, <1>6
  <2>3. Len(entries'["packages"]) <= MaxEntries
    <3>1. CASE k = "packages"
      BY <1>2, <1>6, <1>7, <3>1, ClientAssumption
    <3>2. CASE k # "packages"
      BY <1>2, <1>6, <3>2 DEF Caches
    <3> QED BY <3>1, <3>2
  <2> QED BY <1>3, <2>1, <2>2, <2>3 DEF EntriesInv
<1>9. StoresNothing
  <2>1. ASSUME NEW m \in Caches, NEW i \in 1 .. Len(entries'[m])
        PROVE  \E j \in 1 .. Len(entries[m]) : entries'[m][i] = entries[m][j]
    <3>1. CASE m = k
      <4>1. i \in 1 .. Len(w)
        BY <1>6, <2>1, <3>1
      <4>2. \E j \in 1 .. Len(entries[k]) : w[i] = entries[k][j]
        BY <1>4, <4>1 DEF Thins
      <4> QED BY <1>6, <3>1, <4>2
    <3>2. CASE m # k
      BY <1>6, <3>2
    <3> QED BY <3>1, <3>2
  <2> QED BY <2>1 DEF StoresNothing
<1>10. OverlapInv'
  <2> SUFFICES ASSUME NEW d \in Callers, pending'[d] # Idle, pending'[d].query \in Cached,
                      ~ pending'[d].overlaps
               PROVE  Places(entries'[CacheOf(pending'[d].query)], pending'[d].query) = {}
    BY DEF OverlapInv, CacheOf
  <2>1. CASE d = c
    <3>1. pending'[d].query = q
      BY <1>5, <2>1 DEF CacheInvs, PendingInv
    <3> QED BY <1>4, <1>6, <3>1 DEF k
  <2>2. CASE d # c
    <3>1. pending'[d] = pending[d]
      BY <1>5, <2>2 DEF CacheInvs, PendingInv
    <3>2. Places(entries[CacheOf(pending[d].query)], pending[d].query) = {}
      BY <3>1 DEF CacheInvs, OverlapInv
    <3>3. EntriesInv
      BY DEF CacheInvs
    <3> QED BY <1>9, <3>1, <3>2, <3>3, NothingStored
  <2> QED BY <2>1, <2>2
<1>11. EntriesInv
  BY DEF CacheInvs
<1> QED BY <1>8, <1>9, <1>10, <1>11, NothingStored

(* A step of one call, or of the tick, that stores nothing.                *)
LEMMA OverlapKept ==
    ASSUME EntriesInv, OverlapInv, StoresNothing,
           \A c \in Callers : pending'[c] # Idle => /\ pending[c] # Idle
                                                    /\ pending'[c].query = pending[c].query
                                                    /\ pending'[c].overlaps = pending[c].overlaps
    PROVE  OverlapInv'
<1> SUFFICES ASSUME NEW c \in Callers, pending'[c] # Idle, pending'[c].query \in Cached,
                    ~ pending'[c].overlaps
             PROVE  Places(entries'[CacheOf(pending'[c].query)], pending'[c].query) = {}
  BY DEF OverlapInv, CacheOf
<1>1. Places(entries[CacheOf(pending[c].query)], pending[c].query) = {}
  BY DEF OverlapInv
<1> QED BY <1>1, NothingStored

LEMMA ArriveCaches ==
    ASSUME CacheInvs, NEW c \in Callers, Arrives(c), pending[c].query # Uncached
    PROVE  EntriesInv' /\ OverlapInv' /\ GoesBackOverlapped
<1> DEFINE p == pending[c]
           q == p.query
           k == CacheOf(q)
           e == [query |-> q, left |-> Ttl, age |-> p.age, content |-> p.content]
           u == Evict(Append(Without(entries[k], q), e))
<1>1. /\ p # Idle /\ p \in Awaited /\ p.content <= version
      /\ pending' = [Overlapped(q, c) EXCEPT ![c] = Idle] /\ version' = version
      /\ entries' = [entries EXCEPT ![k] = u]
  BY DEF Arrives, CallerAt, CacheInvs, PendingInv, Stored
<1>2. q \in Cached /\ p.age \in 0 .. MaxLag /\ p.content \in 0 .. MaxVersion
  BY <1>1 DEF Awaited
<1>3. k \in Caches
  BY CacheOfRule
<1>4. /\ entries \in [Caches -> Seq(Entries)] /\ GoodCache(entries[k], k, version)
      /\ \A m \in Caches : GoodCache(entries[m], m, version)
      /\ Len(entries["packages"]) <= MaxEntries
  BY <1>3 DEF CacheInvs, EntriesInv
<1>5. /\ e \in Entries /\ e.query = q /\ e.left = Ttl /\ e.age <= MaxLag /\ e.content <= version
      /\ CacheOf(e.query) = k
  BY <1>1, <1>2, ClientAssumption DEF Entries
<1> HIDE DEF e
<1>6. /\ GoodCache(u, k, version)
      /\ \A i \in 1 .. Len(u) :
            u[i] = e \/ (u[i].query # q /\ \E j \in 1 .. Len(entries[k]) : u[i] = entries[k][j])
      /\ Len(entries[k]) <= MaxEntries => Len(u) <= MaxEntries
  BY <1>4, <1>5, StoredRule
<1> HIDE DEF k, u
<1>7. entries'[k] = u /\ \A m \in Caches : m # k => entries'[m] = entries[m]
  BY <1>1, <1>3, <1>4
<1>8. EntriesInv'
  <2>1. entries' \in [Caches -> Seq(Entries)]
    <3>1. u \in Seq(Entries)
      BY <1>6 DEF GoodCache
    <3> QED BY <1>1, <1>4, <3>1
  <2>2. \A m \in Caches : GoodCache(entries'[m], m, version)
    BY <1>4, <1>6, <1>7
  <2>3. Len(entries'["packages"]) <= MaxEntries
    BY <1>4, <1>6, <1>7 DEF Caches
  <2> QED BY <1>1, <2>1, <2>2, <2>3 DEF EntriesInv
<1>9. ASSUME NEW r \in Cached, r # q
      PROVE  \A i \in Places(entries'[CacheOf(r)], r) :
                \E j \in Places(entries[CacheOf(r)], r) :
                    entries'[CacheOf(r)][i] = entries[CacheOf(r)][j]
  <2>1. CASE CacheOf(r) = k
    <3>1. ASSUME NEW i \in 1 .. Len(u), u[i].query = r
          PROVE  \E j \in Places(entries[k], r) : u[i] = entries[k][j]
      <4>1. u[i] # e
        BY <1>5, <1>9, <3>1
      <4> QED BY <1>6, <3>1, <4>1 DEF Places
    <3> QED BY <1>7, <2>1, <3>1 DEF Places
  <2>2. CASE CacheOf(r) # k
    BY <1>7, <2>2, CacheOfRule
  <2> QED BY <2>1, <2>2
<1>10. \A i \in Places(entries'[k], q) : entries'[k][i] = e
  BY <1>6, <1>7 DEF Places
<1>11. ASSUME NEW d \in Callers, pending'[d] # Idle
       PROVE  /\ d # c /\ pending[d] # Idle /\ pending'[d].query = pending[d].query
              /\ pending'[d].query = q => pending'[d].overlaps
              /\ pending'[d].query # q => pending'[d].overlaps = pending[d].overlaps
  <2>1. d # c /\ pending'[d] = Overlapped(q, c)[d]
    BY <1>1, <1>11 DEF Overlapped
  <2>2. pending[d] # Idle
    BY <1>11, <2>1 DEF Overlapped
  <2>3. pending[d] \in Awaited
    BY <2>2 DEF CacheInvs, PendingInv
  <2>4. CASE pending[d].query = q
    <3>1. pending'[d] = [pending[d] EXCEPT !.overlaps = TRUE]
      BY <2>1, <2>2, <2>4 DEF Overlapped
    <3> QED BY <2>1, <2>2, <2>3, <2>4, <3>1 DEF Awaited
  <2>5. CASE pending[d].query # q
    <3>1. pending'[d] = pending[d]
      BY <2>1, <2>5 DEF Overlapped
    <3> QED BY <2>1, <2>2, <2>5, <3>1
  <2> QED BY <2>4, <2>5
<1>12. OverlapInv'
  <2> SUFFICES ASSUME NEW d \in Callers, pending'[d] # Idle, pending'[d].query \in Cached,
                      ~ pending'[d].overlaps
               PROVE  Places(entries'[CacheOf(pending'[d].query)], pending'[d].query) = {}
    BY DEF OverlapInv, CacheOf
  <2>1. pending'[d].query # q /\ pending[d] # Idle /\ pending'[d].query = pending[d].query
        /\ ~ pending[d].overlaps
    BY <1>11
  <2>2. Places(entries[CacheOf(pending[d].query)], pending[d].query) = {}
    BY <2>1 DEF CacheInvs, OverlapInv
  <2> QED BY <1>9, <2>1, <2>2
<1>13. GoesBackOverlapped
  <2> SUFFICES ASSUME NEW r \in Cached, NEW f \in Entry(r), NEW g \in Entry(r)',
                      g.content < f.content
               PROVE  \E d \in Callers : /\ CallerAt(d, "answered") /\ pending[d].query = r
                                         /\ pending[d].overlaps /\ pending'[d] = Idle
    BY DEF GoesBackOverlapped
  <2>1. PICK i \in Places(entries[CacheOf(r)], r) : f = entries[CacheOf(r)][i]
    BY DEF Entry
  <2>2. PICK m \in Places(entries'[CacheOf(r)], r) : g = entries'[CacheOf(r)][m]
    BY DEF Entry, CacheOf
  <2>3. CASE r = q
    <3>1. p.overlaps
      BY <1>1, <1>2, <2>1, <2>3 DEF CacheInvs, OverlapInv
    <3>2. CallerAt(c, "answered") /\ pending'[c] = Idle
      BY <1>1 DEF Arrives, Overlapped
    <3> QED BY <2>3, <3>1, <3>2
  <2>4. CASE r # q
    <3>1. PICK j \in Places(entries[CacheOf(r)], r) : g = entries[CacheOf(r)][j]
      BY <1>9, <2>2, <2>4
    <3>2. GoodCache(entries[CacheOf(r)], CacheOf(r), version)
      BY <1>4, CacheOfRule
    <3>3. /\ i \in 1 .. Len(entries[CacheOf(r)]) /\ j \in 1 .. Len(entries[CacheOf(r)])
          /\ entries[CacheOf(r)][i].query = entries[CacheOf(r)][j].query
      BY <2>1, <3>1 DEF Places
    <3>4. i = j /\ f.content \in Nat
      BY <2>1, <3>2, <3>3, OneEntry
    <3> QED BY <2>1, <3>1, <3>4
  <2> QED BY <2>3, <2>4
<1> QED BY <1>8, <1>12, <1>13

LEMMA TickCaches ==
    ASSUME CacheInvs, ClientTick
    PROVE  EntriesInv' /\ OverlapInv' /\ GoesBackOverlapped
<1>1. /\ entries' = [k \in Caches |-> [i \in 1 .. Len(entries[k]) |-> Aged(entries[k][i])]]
      /\ version' = version
  BY DEF ClientTick
<1>2. ASSUME NEW k \in Caches
      PROVE  /\ GoodCache(entries'[k], k, version)
             /\ Len(entries'[k]) = Len(entries[k])
             /\ \A i \in 1 .. Len(entries[k]) :
                   /\ entries'[k][i].query = entries[k][i].query
                   /\ entries'[k][i].content = entries[k][i].content
  <2>1. GoodCache(entries[k], k, version)
    BY DEF CacheInvs, EntriesInv
  <2>2. entries'[k] = [i \in 1 .. Len(entries[k]) |-> Aged(entries[k][i])]
    BY <1>1
  <2> QED BY <2>1, <2>2, AgedRule
<1>3. EntriesInv'
  <2>1. entries' \in [Caches -> Seq(Entries)]
    <3>1. \A k \in Caches : entries'[k] \in Seq(Entries)
      BY <1>2 DEF GoodCache
    <3>2. entries' = [k \in Caches |-> entries'[k]]
      BY <1>1
    <3> QED BY <3>1, <3>2
  <2>2. Len(entries'["packages"]) <= MaxEntries
    BY <1>2 DEF CacheInvs, EntriesInv, Caches
  <2> QED BY <1>1, <1>2, <2>1, <2>2 DEF EntriesInv
<1>4. StoresNothing
  BY <1>2 DEF StoresNothing
<1>5. \A c \in Callers : pending'[c] # Idle => /\ pending[c] # Idle
                                               /\ pending'[c].query = pending[c].query
                                               /\ pending'[c].overlaps = pending[c].overlaps
  <2> TAKE c \in Callers
  <2> HAVE pending'[c] # Idle
  <2>1. CASE CallerAt(c, "sleeping")
    <3>1. pending'[c] = [pending[c] EXCEPT !.wait = pending[c].wait - 1]
      BY <2>1 DEF ClientTick
    <3>2. pending[c] # Idle /\ pending[c] \in Awaited
      BY <2>1 DEF CallerAt, CacheInvs, PendingInv
    <3> QED BY <3>1, <3>2 DEF Awaited
  <2>2. CASE ~ CallerAt(c, "sleeping") /\ CallerAt(c, "answered")
    <3>1. pending'[c] = [pending[c] EXCEPT !.age = pending[c].age + 1]
      BY <2>2 DEF ClientTick
    <3>2. pending[c] # Idle /\ pending[c] \in Awaited
      BY <2>2 DEF CallerAt, CacheInvs, PendingInv
    <3> QED BY <3>1, <3>2 DEF Awaited
  <2>3. CASE ~ CallerAt(c, "sleeping") /\ ~ CallerAt(c, "answered")
    <3>1. pending'[c] = pending[c]
      BY <2>3 DEF ClientTick
    <3> QED BY <3>1
  <2> QED BY <2>1, <2>2, <2>3
<1>6. EntriesInv /\ OverlapInv
  BY DEF CacheInvs
<1> QED BY <1>3, <1>4, <1>5, <1>6, NothingStored, OverlapKept

LEMMA CachesStep ==
    CacheInvs /\ [ClientNext]_clientVars => EntriesInv' /\ OverlapInv' /\ GoesBackOverlapped
<1> SUFFICES ASSUME CacheInvs, [ClientNext]_clientVars
             PROVE  EntriesInv' /\ OverlapInv' /\ GoesBackOverlapped
  OBVIOUS
<1>1. ASSUME entries' = entries, version' = version,
             \A c \in Callers : pending'[c] # Idle =>
                /\ pending[c] # Idle
                /\ pending'[c].query = pending[c].query
                /\ pending'[c].overlaps = pending[c].overlaps
      PROVE  EntriesInv' /\ OverlapInv' /\ GoesBackOverlapped
  <2>1. EntriesInv /\ OverlapInv
    BY DEF CacheInvs
  <2>2. EntriesInv' /\ StoresNothing
    BY <1>1, <2>1, SameCaches
  <2> QED BY <1>1, <2>1, <2>2, NothingStored, OverlapKept
<1>2. ASSUME NEW c \in Callers, Sends(c) \/ ProviderAnswers(c) \/ ClientFails(c)
      PROVE  EntriesInv' /\ OverlapInv' /\ GoesBackOverlapped
  <2>1. entries' = entries /\ version' = version
    BY <1>2 DEF Sends, ProviderAnswers, ClientFails
  <2>2. pending[c] # Idle /\ pending[c] \in Awaited
    BY <1>2 DEF Sends, ProviderAnswers, ClientFails, CallerAt, CacheInvs, PendingInv
  <2>3. /\ \A d \in Callers : d # c => pending'[d] = pending[d]
        /\ pending'[c] # Idle => /\ pending'[c].query = pending[c].query
                                 /\ pending'[c].overlaps = pending[c].overlaps
    <3>1. CASE Sends(c)
      <4>1. pending' = [pending EXCEPT ![c] = [pending[c] EXCEPT !.stage = "sent"]]
        BY <3>1 DEF Sends
      <4> QED BY <2>2, <4>1 DEF CacheInvs, PendingInv, Awaited
    <3>2. CASE ProviderAnswers(c)
      <4>1. pending' = [pending EXCEPT ![c] =
                           [pending[c] EXCEPT !.stage = "answered", !.content = version]]
        BY <3>2 DEF ProviderAnswers
      <4> QED BY <2>2, <4>1 DEF CacheInvs, PendingInv, Awaited
    <3>3. CASE ClientFails(c)
      BY <3>3 DEF ClientFails, CacheInvs, PendingInv
    <3> QED BY <1>2, <3>1, <3>2, <3>3
  <2> QED BY <1>1, <2>1, <2>2, <2>3
<1>3. ASSUME NEW c \in Callers, Arrives(c)
      PROVE  EntriesInv' /\ OverlapInv' /\ GoesBackOverlapped
  <2>1. CASE pending[c].query # Uncached
    BY <1>3, <2>1, ArriveCaches
  <2>2. CASE pending[c].query = Uncached
    <3>1. pending' = [pending EXCEPT ![c] = Idle] /\ entries' = entries /\ version' = version
      BY <1>3, <2>2 DEF Arrives
    <3>2. \A d \in Callers : pending'[d] # Idle => pending'[d] = pending[d]
      BY <3>1 DEF CacheInvs, PendingInv
    <3> QED BY <1>1, <3>1, <3>2
  <2> QED BY <2>1, <2>2
<1>4. CASE ProviderChanges
  <2>1. /\ version' = version + 1 /\ version \in Nat
        /\ entries' = entries /\ pending' = pending
    BY <1>4, ClientAssumption DEF ProviderChanges, CacheInvs, PendingInv
  <2>2. ASSUME NEW k \in Caches
        PROVE  GoodCache(entries[k], k, version')
    <3>1. GoodCache(entries[k], k, version)
      BY DEF CacheInvs, EntriesInv
    <3>2. \A i \in 1 .. Len(entries[k]) : entries[k][i].content \in Nat
      BY <3>1, OneEntry
    <3>3. ASSUME NEW i \in 1 .. Len(entries[k])
          PROVE  entries[k][i].content <= version'
      <4>1. entries[k][i].content \in Nat
        BY <3>2
      <4>2. entries[k][i].content <= version
        BY <3>1 DEF GoodCache
      <4> QED BY <2>1, <4>1, <4>2
    <3> QED BY <3>1, <3>3 DEF GoodCache
  <2>3. EntriesInv' /\ StoresNothing
    <3>1. EntriesInv'
      BY <2>1, <2>2 DEF CacheInvs, EntriesInv
    <3> QED BY <2>1, <3>1 DEF StoresNothing
  <2>4. EntriesInv /\ OverlapInv
    BY DEF CacheInvs
  <2> QED BY <2>1, <2>3, <2>4, NothingStored, OverlapKept
<1>5. CASE ClientTick
  BY <1>5, TickCaches
<1>6. CASE UNCHANGED clientVars
  BY <1>1, <1>6 DEF clientVars
<1> QED BY <1>2, <1>3, <1>4, <1>5, <1>6, AskCaches DEF ClientNext

LEMMA ClientInv == ClientSpec => [](SlotsInv /\ CacheInvs)
<1>1. ClientInit => EntriesInv /\ OverlapInv
  <2> SUFFICES ASSUME ClientInit
               PROVE  EntriesInv /\ OverlapInv
    OBVIOUS
  <2>1. entries = [k \in Caches |-> <<>>]
    BY DEF ClientInit
  <2>2. \A k \in Caches : entries[k] = <<>> /\ GoodCache(entries[k], k, version)
    BY <2>1 DEF GoodCache
  <2>3. Len(entries["packages"]) <= MaxEntries
    BY <2>1, ClientAssumption DEF Caches
  <2>4. EntriesInv
    BY <2>1, <2>2, <2>3 DEF EntriesInv
  <2>5. OverlapInv
    BY DEF ClientInit, OverlapInv
  <2> QED BY <2>4, <2>5
<1>2. CacheInvs <=> PendingInv /\ EntriesInv /\ OverlapInv
  BY DEF CacheInvs
<1> QED BY <1>1, <1>2, SlotsStart, SlotsStep, CachesStep, PTL DEF ClientSpec

THEOREM ClientTypeCorrect == ClientSpec => []ClientTypeOK
<1>1. SlotsInv /\ CacheInvs => ClientTypeOK
  <2> SUFFICES ASSUME SlotsInv, CacheInvs
               PROVE  ClientTypeOK
    OBVIOUS
  <2>1. reserved \in 0 .. Cardinality(Callers) + 1
    BY SleepingFinite DEF SlotsInv, Taken
  <2>2. PendingInv /\ EntriesInv
    BY DEF CacheInvs
  <2> QED BY <2>1, <2>2 DEF ClientTypeOK, PendingInv, EntriesInv, GoodCache
<1> QED BY <1>1, ClientInv, PTL

(* What the caches serve is as recent as the time to live and the time of  *)
(* one call say, and goes back only by an answer that was asked for before *)
(* the newer one was stored (get_packages, get_locations).                 *)
THEOREM CachesRecent == ClientSpec => CachesServeRecent
<1>1. CacheInvs => ServedIsRecent
  <2> SUFFICES ASSUME CacheInvs, NEW q \in Cached, NEW e \in Entry(q), e.left > 0
               PROVE  e.age < Ttl + MaxLag
    BY DEF ServedIsRecent
  <2> DEFINE s == entries[CacheOf(q)]
  <2>1. PICK i \in 1 .. Len(s) : e = s[i]
    BY DEF Entry, Places
  <2>2. GoodCache(s, CacheOf(q), version)
    BY CacheOfRule DEF CacheInvs, EntriesInv
  <2>3. s \in Seq(Entries) /\ e.left + e.age <= Ttl + MaxLag
    BY <2>1, <2>2 DEF GoodCache
  <2> HIDE DEF s
  <2>4. e \in Entries
    BY <2>1, <2>3
  <2>5. e.left \in 0 .. Ttl /\ e.age \in 0 .. Ttl + MaxLag /\ Ttl \in Nat /\ MaxLag \in Nat
    BY <2>4, ClientAssumption DEF Entries
  <2> QED BY <2>3, <2>5
<1>2. CacheInvs /\ [ClientNext]_clientVars => [GoesBackOverlapped]_clientVars
  BY CachesStep
<1>3. ClientSpec => [][GoesBackOverlapped]_clientVars
  BY <1>2, ClientInv, PTL DEF ClientSpec
<1>4. ClientSpec => GoesBackOnlyWhenOverlapped
  BY <1>3 DEF GoesBackOverlapped, GoesBackOnlyWhenOverlapped
<1> QED BY <1>1, <1>4, ClientInv, PTL DEF CachesServeRecent

-----------------------------------------------------------------------------
(* The five components of the run.                                         *)

LEMMA PartsStep ==
    ASSUME [MCNext]_MCVars
    PROVE  /\ [CatalogueNext]_catalogueVars
           /\ [CachesNext]_cachesVars
           /\ [FibNext]_fibVars
           /\ [ClientNext]_clientVars
           /\ [SyncNext]_syncVars
BY DEF MCNext, MCVars

(* The types of all five components hold in every state of the run that    *)
(* checks them, whichever of them runs and for any sizes.                  *)
THEOREM PartsTypeCorrect == MCSpec => []MCTypeOK
<1>1. MCInit => CatalogueInit /\ CachesInit /\ FibInit /\ ClientInit /\ SyncInit
  BY DEF MCInit
<1>2. [MCNext]_MCVars => /\ [CatalogueNext]_catalogueVars
                         /\ [CachesNext]_cachesVars
                         /\ [FibNext]_fibVars
                         /\ [ClientNext]_clientVars
                         /\ [SyncNext]_syncVars
  BY PartsStep
<1>3. MCSpec => CatalogueSpec /\ CachesSpec
  BY <1>1, <1>2, PTL DEF MCSpec, CatalogueSpec, CachesSpec
<1>4. MCSpec => FibSpec /\ ClientSpec
  BY <1>1, <1>2, PTL DEF MCSpec, FibSpec, ClientSpec
<1>5. MCSpec => SyncSpec
  BY <1>1, <1>2, PTL DEF MCSpec, SyncSpec
<1>6. CatalogueTypeOK /\ CachesTypeOK /\ FibTypeOK /\ ClientTypeOK /\ SyncTypeOK => MCTypeOK
  BY DEF MCTypeOK
<1> QED BY <1>3, <1>4, <1>5, <1>6, CatalogueTypeCorrect, CachesTypeCorrect,
           FibTypeCorrect, ClientTypeCorrect, SyncTypeCorrect, PTL
=============================================================================

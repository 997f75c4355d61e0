---------------------------- MODULE PublicCaches ----------------------------
(***************************************************************************)
(* The copy one process keeps of the public page of featured locations,    *)
(* for the time the database is away.                                      *)
(*                                                                         *)
(* Every request reads the database, and puts what it read in the copy.    *)
(* When that fails, the copy is served instead, and for a while nobody     *)
(* asks the database again.  An administrator's edit drops the copy, in    *)
(* the process that handles it alone.  Contents are numbered by the edits  *)
(* so far.                                                                 *)
(***************************************************************************)
EXTENDS Naturals

CONSTANTS
    Requesters,  \* handlers of the page
    Nothing,     \* no copy, no request, no edit under way
    Backoff,     \* PUBLIC_DB_FAILURE_BACKOFF_SECONDS
    MaxEdits,    \* bound: edits
    MaxMoment    \* bound: time

ASSUME CacheAssumption == {Backoff, MaxEdits, MaxMoment} \subseteq Nat /\ Nothing \notin Nat

VARIABLES
    moment,      \* the clock
    content,     \* what the database holds
    copy,        \* the copy
    retryAfter,  \* until when the database is left alone
    request,     \* what each handler knows
    edit,        \* the edit that is committed and not yet answered
    edited,      \* history: the last edit this process answered
    shown        \* history: the last answer

cachesVars == <<moment, content, copy, retryAfter, request, edit, edited, shown>>

EditIds == 0 .. MaxEdits
Copies  == [version : EditIds,
            began : EditIds,    \* history: edited when the request began that filled it
            filled : EditIds]   \* history: edited when it was filled

CachesTypeOK ==
    /\ moment \in 0 .. MaxMoment
    /\ content \in EditIds
    /\ copy \in Copies \cup {Nothing}
    /\ retryAfter \in 0 .. MaxMoment + Backoff
    /\ edit \in EditIds \cup {Nothing}
    /\ edited \in 0 .. content
    /\ shown # Nothing => /\ shown.copy \in Copies \cup {Nothing}
                          /\ shown.since \in 0 .. edited
    /\ \A r \in Requesters : request[r] # Nothing =>
          /\ request[r].copy \in Copies \cup {Nothing}
          /\ request[r].since \in 0 .. edited
          /\ request[r].read \in request[r].since .. content \cup {Nothing}

CachesInit ==
    /\ moment = 0
    /\ content = 0
    /\ copy = Nothing
    /\ retryAfter = 0
    /\ request = [r \in Requesters |-> Nothing]
    /\ edit = Nothing
    /\ edited = 0
    /\ shown = Nothing

-----------------------------------------------------------------------------
MomentPasses ==
    /\ moment < MaxMoment
    /\ moment' = moment + 1
    /\ UNCHANGED <<content, copy, retryAfter, request, edit, edited, shown>>

(* Mutant: the edit is answered before it is committed.                    *)
EditAnswersFirst ==
    /\ edit = Nothing
    /\ content < MaxEdits
    /\ edit' = content + 1
    /\ edited' = content + 1
    /\ UNCHANGED <<moment, content, copy, retryAfter, request, shown>>

(* save_featured_location, delete_featured_location in this process: the   *)
(* change is committed ...                                                 *)
EditCommits ==
    /\ edit = Nothing
    /\ content < MaxEdits
    /\ content' = content + 1
    /\ edit' = content'
    /\ UNCHANGED <<moment, copy, retryAfter, request, edited, shown>>

(* Mutant: the copy is kept.                                               *)
EditAnswersOnly ==
    /\ edit # Nothing
    /\ edited' = edit
    /\ edit' = Nothing
    /\ UNCHANGED <<moment, content, copy, retryAfter, request, shown>>

(* ... and the copy dropped, before the answer.                            *)
EditAnswers ==
    /\ edit # Nothing
    /\ edited' = edit
    /\ edit' = Nothing
    /\ copy' = Nothing
    /\ retryAfter' = 0
    /\ UNCHANGED <<moment, content, request, shown>>

(* An edit that another process handles.                                   *)
EditElsewhere ==
    /\ content < MaxEdits
    /\ content' = content + 1
    /\ UNCHANGED <<moment, copy, retryAfter, request, edit, edited, shown>>

Shows(c, since) == shown' = [copy |-> c, since |-> since]

(* The request takes the copy and the deadline.  Before the deadline the   *)
(* copy is the answer, or a default.                                       *)
TakesCopy(r) ==
    /\ request[r] = Nothing
    /\ IF moment < retryAfter
       THEN Shows(copy, edited) /\ UNCHANGED request
       ELSE /\ request' = [request EXCEPT ![r] =
                  [copy |-> copy, since |-> edited, read |-> Nothing]]
            /\ UNCHANGED shown
    /\ UNCHANGED <<moment, content, copy, retryAfter, edit, edited>>

Asking(r) == request[r] # Nothing /\ request[r].read = Nothing

ReadsDatabase(r) ==
    /\ Asking(r)
    /\ request' = [request EXCEPT ![r].read = content]
    /\ UNCHANGED <<moment, content, copy, retryAfter, edit, edited, shown>>

(* The database is away: the answer is the copy the request took.          *)
ReadFails(r) ==
    /\ Asking(r)
    /\ retryAfter' = moment + Backoff
    /\ Shows(request[r].copy, request[r].since)
    /\ request' = [request EXCEPT ![r] = Nothing]
    /\ UNCHANGED <<moment, content, copy, edit, edited>>

(* What was read is the copy from now on, whatever happened meanwhile.     *)
Fills(r) ==
    /\ request[r] # Nothing
    /\ request[r].read # Nothing
    /\ copy' = [version |-> request[r].read, began |-> request[r].since, filled |-> edited]
    /\ retryAfter' = 0
    /\ Shows(copy', request[r].since)
    /\ request' = [request EXCEPT ![r] = Nothing]
    /\ UNCHANGED <<moment, content, edit, edited>>

CachesNext ==
    \/ MomentPasses \/ EditCommits \/ EditAnswers \/ EditElsewhere
    \/ \E r \in Requesters :
          TakesCopy(r) \/ ReadsDatabase(r) \/ ReadFails(r) \/ Fills(r)

CachesSpec == CachesInit /\ [][CachesNext]_cachesVars

-----------------------------------------------------------------------------
(* Once an edit of the featured locations is answered, no request of the   *)
(* same process that begins later shows locations without it, outages      *)
(* included, unless a request that had read them before the edit filled    *)
(* the copy in after it was dropped.                                       *)
AnsweredEditsAreShown ==
    (shown # Nothing /\ shown.copy # Nothing)
        => \/ shown.copy.version >= shown.since
           \/ shown.copy.began < shown.since /\ shown.copy.filled >= shown.since
=============================================================================

------------------------------ MODULE ESimClient ------------------------------
(***************************************************************************)
(* esim_access_api.py: the client of the eSIM provider.  Calls reserve a   *)
(* slot of the rate limiter and sleep until it comes.  The answers to      *)
(* package and location queries are cached; nothing joins the queries that *)
(* miss the cache at the same time.                                        *)
(*                                                                         *)
(* Time is relative, in ticks of the limiter: until the slots, until an    *)
(* entry expires, since an answer was given.                               *)
(***************************************************************************)
EXTENDS Naturals, Sequences, FiniteSets

CONSTANTS
    Callers,     \* requests that call the provider
    Queries,     \* package queries that differ: the keys of their cache
    Locations,   \* the query for the locations, which has a cache of its own
    Uncached,    \* a call whose answer is not cached
    Idle,        \* the caller is not in a call
    Ttl,         \* ESIM_PACKAGES_CACHE_TTL_SECONDS, ESIM_LOCATIONS_CACHE_TTL_SECONDS
    MaxEntries,  \* ESIM_PACKAGES_CACHE_MAX_ENTRIES
    MaxLag,      \* bound: ticks an answer is under way, by the client's timeouts
    MaxVersion   \* bound: changes of the provider's catalogue

ASSUME ClientAssumption ==
    /\ IsFiniteSet(Callers)
    /\ Ttl \in Nat \ {0} /\ MaxEntries \in Nat \ {0}
    /\ MaxLag \in Nat /\ MaxVersion \in Nat
    /\ Locations \notin Queries /\ Uncached \notin Queries \cup {Locations}

VARIABLES
    version,      \* the provider's catalogue
    pending,      \* the call of each caller
    reserved,     \* ticks until next_allowed
    sentNow,      \* history: a call was sent in this tick
    entries       \* the two caches, the entry stored first at the head

clientVars == <<version, pending, reserved, sentNow, entries>>

Cached == Queries \cup {Locations}
Caches == {"packages", "locations"}

(* A call, from its reservation of a slot to the arrival of its answer.    *)
Awaited ==
    [query : Cached \cup {Uncached}, stage : {"sleeping", "sent", "answered"},
     wait : 0 .. Cardinality(Callers), content : 0 .. MaxVersion, age : 0 .. MaxLag,
     overlaps : BOOLEAN]

Entries == [query : Cached, left : 0 .. Ttl, age : 0 .. Ttl + MaxLag, content : 0 .. MaxVersion]

ASSUME IdleAssumption == Idle \notin Awaited

CacheOf(q) == IF q = Locations THEN "locations" ELSE "packages"

(* Who was stored first expires first, and no query is cached twice.       *)
ClientTypeOK ==
    /\ version \in 0 .. MaxVersion
    /\ pending \in [Callers -> Awaited \cup {Idle}]
    /\ \A c \in Callers : pending[c] # Idle => pending[c].content <= version
    /\ reserved \in 0 .. Cardinality(Callers) + 1
    /\ sentNow \in BOOLEAN
    /\ entries \in [Caches -> Seq(Entries)]
    /\ \A k \in Caches : \A i, j \in 1 .. Len(entries[k]) :
          /\ CacheOf(entries[k][i].query) = k
          /\ entries[k][i].content <= version
          /\ i < j => /\ entries[k][i].left <= entries[k][j].left
                      /\ entries[k][i].query # entries[k][j].query
    /\ Len(entries["packages"]) <= MaxEntries

ClientInit ==
    /\ version = 0
    /\ pending = [c \in Callers |-> Idle]
    /\ reserved = 0
    /\ sentNow = FALSE
    /\ entries = [k \in Caches |-> <<>>]

-----------------------------------------------------------------------------
Places(s, q) == {i \in 1 .. Len(s) : s[i].query = q}

Without(s, q) ==
    IF Places(s, q) = {} THEN s
    ELSE LET i == CHOOSE i \in Places(s, q) : TRUE IN
         SubSeq(s, 1, i - 1) \o SubSeq(s, i + 1, Len(s))

Entry(q) == {entries[CacheOf(q)][i] : i \in Places(entries[CacheOf(q)], q)}

(* The entry is served and left as it is.                                  *)
Hit(q) == \E e \in Entry(q) : e.left > 0

(* Mutant: every call is let go a slot from now, whatever is reserved.     *)
ReservesFromNow == reserved' = 1

(* AsyncRateLimiter.acquire: the slot after the last one reserved.         *)
Reserves == reserved' = reserved + 1

(* The cache is missed, or there is none: an expired entry is dropped, and *)
(* _post waits for its slot, without the cache's lock.                     *)
Asks(c, q) ==
    /\ pending[c] = Idle
    /\ ~ Hit(q)
    /\ entries' = [entries EXCEPT ![CacheOf(q)] = Without(@, q)]
    /\ pending' = [pending EXCEPT ![c] =
          [query |-> q, stage |-> "sleeping", wait |-> reserved, content |-> 0, age |-> 0,
           overlaps |-> FALSE]]
    /\ Reserves
    /\ UNCHANGED <<version, sentNow>>

CallerAt(c, stage) == pending[c] # Idle /\ pending[c].stage = stage

Sends(c) ==
    /\ CallerAt(c, "sleeping")
    /\ pending[c].wait = 0
    /\ pending' = [pending EXCEPT ![c].stage = "sent"]
    /\ sentNow' = TRUE
    /\ UNCHANGED <<version, reserved, entries>>

ProviderAnswers(c) ==
    /\ CallerAt(c, "sent")
    /\ pending' = [pending EXCEPT ![c].stage = "answered", ![c].content = version]
    /\ UNCHANGED <<version, reserved, sentNow, entries>>

(* What has expired is at the head.                                        *)
Live(s) == SubSeq(s, Cardinality({i \in 1 .. Len(s) : s[i].left = 0}) + 1, Len(s))

(* Mutant: what expired is dropped, and no more.                           *)
EvictExpired(s) == IF Len(s) <= MaxEntries THEN s ELSE Live(s)

(* The eviction: what expired first, then the oldest, as long as there are *)
(* too many.  One more than allowed at most, as only one is added.         *)
Evict(s) ==
    IF Len(s) <= MaxEntries THEN s
    ELSE IF Len(Live(s)) <= MaxEntries THEN Live(s)
    ELSE Tail(Live(s))

Stored(q, e) == [entries EXCEPT ![CacheOf(q)] = Evict(Append(Without(@, q), e))]

(* The calls for q that are under way when an answer to one is stored.     *)
Overlapped(q, c) ==
    [d \in Callers |-> IF d # c /\ pending[d] # Idle /\ pending[d].query = q
                       THEN [pending[d] EXCEPT !.overlaps = TRUE] ELSE pending[d]]

(* The answer is cached from its arrival on, whatever has been cached      *)
(* while it was under way.                                                 *)
Arrives(c) ==
    /\ CallerAt(c, "answered")
    /\ LET p == pending[c]
           e == [query |-> p.query, left |-> Ttl, age |-> p.age, content |-> p.content] IN
       IF p.query = Uncached
       THEN pending' = [pending EXCEPT ![c] = Idle] /\ UNCHANGED entries
       ELSE /\ entries' = Stored(p.query, e)
            /\ pending' = [Overlapped(p.query, c) EXCEPT ![c] = Idle]
    /\ UNCHANGED <<version, reserved, sentNow>>

(* Mutant: an error is cached, too.                                        *)
ClientFailsCached(c) ==
    /\ CallerAt(c, "sent")
    /\ LET q == pending[c].query IN
       /\ q # Uncached
       /\ entries' = Stored(q, [query |-> q, left |-> Ttl, age |-> 0, content |-> 0])
    /\ pending' = [pending EXCEPT ![c] = Idle]
    /\ UNCHANGED <<version, reserved, sentNow>>

(* An error, a timeout or an answer that cannot be read: nothing is cached.*)
ClientFails(c) ==
    /\ CallerAt(c, "sent") \/ CallerAt(c, "answered")
    /\ pending' = [pending EXCEPT ![c] = Idle]
    /\ UNCHANGED <<version, reserved, sentNow, entries>>

ProviderChanges ==
    /\ version < MaxVersion
    /\ version' = version + 1
    /\ UNCHANGED <<pending, reserved, sentNow, entries>>

Less(n) == IF n = 0 THEN 0 ELSE n - 1

(* Mutant: a served entry lives on as long as it is asked for.             *)
AgedAndKept(e) == [e EXCEPT !.age = IF e.age < Ttl + MaxLag THEN e.age + 1 ELSE e.age]

Aged(e) ==
    [e EXCEPT !.left = Less(e.left),
              !.age = IF e.age < Ttl + MaxLag THEN e.age + 1 ELSE e.age]

(* Sleeps end when they are due, and answers arrive within MaxLag.         *)
ClientTick ==
    /\ \A c \in Callers :
          /\ CallerAt(c, "sleeping") => pending[c].wait > 0
          /\ CallerAt(c, "answered") => pending[c].age < MaxLag
    /\ pending' = [c \in Callers |->
          IF CallerAt(c, "sleeping") THEN [pending[c] EXCEPT !.wait = @ - 1]
          ELSE IF CallerAt(c, "answered") THEN [pending[c] EXCEPT !.age = @ + 1]
          ELSE pending[c]]
    /\ reserved' = Less(reserved)
    /\ sentNow' = FALSE
    /\ entries' = [k \in Caches |-> [i \in 1 .. Len(entries[k]) |-> Aged(entries[k][i])]]
    /\ UNCHANGED version

ClientNext ==
    \/ \E c \in Callers :
          \/ \E q \in Cached \cup {Uncached} : Asks(c, q)
          \/ Sends(c) \/ ProviderAnswers(c) \/ Arrives(c) \/ ClientFails(c)
    \/ ProviderChanges
    \/ ClientTick

ClientSpec == ClientInit /\ [][ClientNext]_clientVars

-----------------------------------------------------------------------------
Sleeping == {c \in Callers : CallerAt(c, "sleeping")}

(* The calls that sleep have the next slots, one each: the limiter sends   *)
(* one call per tick and lets no slot pass while a call waits.             *)
SlotsAreUsed ==
    /\ {pending[c].wait : c \in Sleeping}
          = {n + (IF sentNow THEN 1 ELSE 0) : n \in 0 .. Cardinality(Sleeping) - 1}
    /\ reserved = Cardinality(Sleeping) + (IF sentNow THEN 1 ELSE 0)

(* What the caches serve the provider said at most the time to live and    *)
(* the time of one call ago.                                               *)
ServedIsRecent ==
    \A q \in Cached : \A e \in Entry(q) : e.left > 0 => e.age < Ttl + MaxLag

(* A cache returns from newer to older content only by an answer that was  *)
(* asked for before the newer one was stored: the answers to two queries   *)
(* overtook each other, and the older is served for a whole time to live.  *)
GoesBackOnlyWhenOverlapped == [][
    \A q \in Cached : \A e \in Entry(q), f \in Entry(q)' :
        f.content < e.content =>
            \E c \in Callers : /\ CallerAt(c, "answered") /\ pending[c].query = q
                               /\ pending[c].overlaps /\ pending'[c] = Idle
    ]_clientVars

(* What the caches serve is recent, and goes back only by an overtaken     *)
(* answer.                                                                 *)
CachesServeRecent == []ServedIsRecent /\ GoesBackOnlyWhenOverlapped
=============================================================================

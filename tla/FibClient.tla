------------------------------ MODULE FibClient ------------------------------
(***************************************************************************)
(* fib_payment_api.py: the client of FIB.  All its calls share an access   *)
(* token, which is fetched under the token lock, and a rate limiter, which *)
(* sleeps under the limiter's lock; the auth call passes the limiter too,  *)
(* so a call may hold the token lock and wait for the limiter's.           *)
(*                                                                         *)
(* Time is relative: how long tokens live on, and how long until the       *)
(* limiter's next slot.  FIB may stop to accept a token at any time.       *)
(***************************************************************************)
EXTENDS Naturals, Sequences

CONSTANTS
    Calls,      \* calls of _request_json: create, status, cancel, refund
    NoToken,    \* no token is cached; a call without one
    TokenLife,  \* expires_in of a token
    Margin,     \* a cached token is used if it lives longer than this
    MaxIssued   \* bound: tokens FIB issues

ASSUME FibAssumption ==
    /\ TokenLife \in Nat /\ Margin \in Nat /\ MaxIssued \in Nat
    /\ NoToken \notin Nat

VARIABLES
    call,          \* how far each call is
    tokenQueue,    \* who holds _token_lock, and who waits for it
    limiterQueue,  \* who holds the limiter's lock, and who waits for it
    untilSlot,     \* ticks until next_allowed
    cached,        \* _access_token
    left,          \* ticks each token issued lives on
    accepted       \* the tokens FIB accepts

fibVars == <<call, tokenQueue, limiterQueue, untilSlot, cached, left, accepted>>

Issued == DOMAIN left

(* A call waits for its turn in a queue while "locking", "authslot" and    *)
(* "slot"; it waits for FIB while "auth" and "sent".                       *)
FibTypeOK ==
    /\ call \in [Calls -> [
          stage : {"new", "locking", "authslot", "auth", "slot", "sent", "executed",
                   "done", "failed", "unauthorised"},
          token : 1 .. MaxIssued \cup {NoToken},
          refused : SUBSET (1 .. MaxIssued),  \* history: the tokens FIB refused it
          known : 0 .. MaxIssued,   \* history: the tokens issued when it was refused
          executions : Nat]]        \* history: how often FIB executed it
    /\ \A q \in {tokenQueue, limiterQueue} :
          /\ q \in Seq(Calls)
          /\ \A i, j \in 1 .. Len(q) : q[i] = q[j] => i = j
    /\ \A c \in Calls :
          call[c].stage \in {"authslot", "auth"} => tokenQueue # <<>> /\ c = Head(tokenQueue)
    /\ untilSlot \in {0, 1}
    /\ left \in Seq(0 .. TokenLife) /\ Len(left) <= MaxIssued
    /\ cached \in Issued \cup {NoToken}
    /\ accepted \subseteq Issued

FibInit ==
    /\ call = [c \in Calls |-> [stage |-> "new", token |-> NoToken, refused |-> {},
                                known |-> 0, executions |-> 0]]
    /\ tokenQueue = <<>>
    /\ limiterQueue = <<>>
    /\ untilSlot = 0
    /\ cached = NoToken
    /\ left = <<>>
    /\ accepted = {}

-----------------------------------------------------------------------------
(* Mutant: a cached token is used as long as it lives.                     *)
UsableToTheLast == cached # NoToken /\ left[cached] > 0

Usable == cached # NoToken /\ left[cached] > Margin

(* get_access_token is left, and the request asks for its slot.            *)
WithToken(c, t) ==
    /\ call' = [call EXCEPT ![c].stage = "slot", ![c].token = t]
    /\ limiterQueue' = Append(limiterQueue, c)

(* get_access_token: without the lock if a cached token will do.           *)
CallStarts(c) ==
    /\ call[c].stage = "new"
    /\ IF Usable
       THEN WithToken(c, cached) /\ UNCHANGED tokenQueue
       ELSE /\ call' = [call EXCEPT ![c].stage = "locking"]
            /\ tokenQueue' = Append(tokenQueue, c)
            /\ UNCHANGED limiterQueue
    /\ UNCHANGED <<untilSlot, cached, left, accepted>>

Forced(c) == call[c].refused # {}

HasTokenLock(c) == call[c].stage = "locking" /\ Head(tokenQueue) = c

(* Mutant: a forced refresh takes what another call fetched, or has cached *)
(* all along.                                                              *)
TokenWasFetchedForAll(c) ==
    /\ HasTokenLock(c)
    /\ Usable
    /\ WithToken(c, cached)
    /\ tokenQueue' = Tail(tokenQueue)
    /\ UNCHANGED <<untilSlot, cached, left, accepted>>

(* The second look at the cache: another call has fetched a token.         *)
TokenWasFetched(c) ==
    /\ HasTokenLock(c)
    /\ ~ Forced(c) /\ Usable
    /\ WithToken(c, cached)
    /\ tokenQueue' = Tail(tokenQueue)
    /\ UNCHANGED <<untilSlot, cached, left, accepted>>

(* Mutant: the lock is released before the token is fetched.               *)
FetchesTokenUnlocked(c) ==
    /\ HasTokenLock(c)
    /\ Forced(c) \/ ~ Usable
    /\ call' = [call EXCEPT ![c].stage = "authslot"]
    /\ limiterQueue' = Append(limiterQueue, c)
    /\ tokenQueue' = Tail(tokenQueue)
    /\ UNCHANGED <<untilSlot, cached, left, accepted>>

(* The token is fetched under the lock, once the limiter lets it pass.     *)
FetchesToken(c) ==
    /\ HasTokenLock(c)
    /\ Forced(c) \/ ~ Usable
    /\ call' = [call EXCEPT ![c].stage = "authslot"]
    /\ limiterQueue' = Append(limiterQueue, c)
    /\ UNCHANGED <<tokenQueue, untilSlot, cached, left, accepted>>

(* AsyncRateLimiter.acquire: the holder of the lock sleeps until the slot. *)
GetsSlot(c) ==
    /\ call[c].stage \in {"authslot", "slot"}
    /\ Head(limiterQueue) = c
    /\ untilSlot = 0
    /\ untilSlot' = 1
    /\ limiterQueue' = Tail(limiterQueue)
    /\ call' = [call EXCEPT ![c].stage = IF @ = "authslot" THEN "auth" ELSE "sent"]
    /\ UNCHANGED <<tokenQueue, cached, left, accepted>>

FibIssues(c) ==
    /\ call[c].stage = "auth"
    /\ Len(left) < MaxIssued
    /\ left' = Append(left, TokenLife)
    /\ cached' = Len(left) + 1
    /\ accepted' = accepted \cup {Len(left) + 1}
    /\ WithToken(c, Len(left) + 1)
    /\ tokenQueue' = Tail(tokenQueue)
    /\ UNCHANGED untilSlot

(* Mutant: the token lock is not released when no token comes.             *)
AuthFailsLocked(c) ==
    /\ call[c].stage = "auth"
    /\ call' = [call EXCEPT ![c].stage = "failed"]
    /\ UNCHANGED <<tokenQueue, limiterQueue, untilSlot, cached, left, accepted>>

(* An error, a timeout or an answer that cannot be read.                   *)
AuthFails(c) ==
    /\ call[c].stage = "auth"
    /\ call' = [call EXCEPT ![c].stage = "failed"]
    /\ tokenQueue' = Tail(tokenQueue)
    /\ UNCHANGED <<limiterQueue, untilSlot, cached, left, accepted>>

FibExecutes(c) ==
    /\ call[c].stage = "sent"
    /\ call[c].token \in accepted
    /\ call' = [call EXCEPT ![c].stage = "executed", ![c].executions = @ + 1]
    /\ UNCHANGED <<tokenQueue, limiterQueue, untilSlot, cached, left, accepted>>

(* 401: once, a new token is fetched and the request sent again.           *)
FibRefuses(c) ==
    /\ call[c].stage = "sent"
    /\ call[c].token \notin accepted
    /\ IF Forced(c)
       THEN /\ call' = [call EXCEPT ![c].stage = "unauthorised",
                                    ![c].refused = @ \cup {call[c].token}]
            /\ UNCHANGED tokenQueue
       ELSE /\ call' = [call EXCEPT ![c].stage = "locking", ![c].known = Len(left),
                                    ![c].refused = {call[c].token}]
            /\ tokenQueue' = Append(tokenQueue, c)
    /\ UNCHANGED <<limiterQueue, untilSlot, cached, left, accepted>>

CallAnswered(c) ==
    /\ call[c].stage = "executed"
    /\ call' = [call EXCEPT ![c].stage = "done"]
    /\ UNCHANGED <<tokenQueue, limiterQueue, untilSlot, cached, left, accepted>>

(* Mutant: a call whose answer is lost is sent again, too.                 *)
CallFailsAndRetries(c) ==
    /\ call[c].stage \in {"sent", "executed"}
    /\ WithToken(c, call[c].token)
    /\ UNCHANGED <<tokenQueue, untilSlot, cached, left, accepted>>

(* Another error, or no answer: executed or not.                           *)
CallFails(c) ==
    /\ call[c].stage \in {"sent", "executed"}
    /\ call' = [call EXCEPT ![c].stage = "failed"]
    /\ UNCHANGED <<tokenQueue, limiterQueue, untilSlot, cached, left, accepted>>

FibDrops(t) ==
    /\ t \in accepted
    /\ accepted' = accepted \ {t}
    /\ UNCHANGED <<call, tokenQueue, limiterQueue, untilSlot, cached, left>>

(* Who can go on without FIB does before a tick has passed.                *)
Prompt ==
    \A c \in Calls :
        /\ ~ HasTokenLock(c)
        /\ call[c].stage \in {"authslot", "slot"} => Head(limiterQueue) # c \/ untilSlot > 0

FibTick ==
    /\ Prompt
    /\ untilSlot' = 0
    /\ left' = [t \in Issued |-> IF left[t] = 0 THEN 0 ELSE left[t] - 1]
    /\ <<untilSlot, left>>' # <<untilSlot, left>>
    /\ UNCHANGED <<call, tokenQueue, limiterQueue, cached, accepted>>

CallSteps(c) ==
    \/ TokenWasFetched(c) \/ FetchesToken(c) \/ GetsSlot(c)
    \/ FibIssues(c) \/ AuthFails(c)
    \/ FibExecutes(c) \/ FibRefuses(c) \/ CallAnswered(c) \/ CallFails(c)

FibNext ==
    \/ \E c \in Calls : CallStarts(c) \/ CallSteps(c)
    \/ \E t \in Issued : FibDrops(t)
    \/ FibTick

(* Time passes, and httpx gives up on a call after its timeout.            *)
FibFairness == WF_fibVars(FibTick) /\ \A c \in Calls : WF_fibVars(CallSteps(c))

FibSpec == FibInit /\ [][FibNext]_fibVars

-----------------------------------------------------------------------------
(* A refund or a payment is executed at most once per call, although the   *)
(* call is repeated, and not at all if it ends with 401.                   *)
ExecutedOnce ==
    \A c \in Calls :
        /\ call[c].executions <= 1
        /\ call[c].stage = "unauthorised" => call[c].executions = 0

(* A call ends with 401 only if FIB refused it a token issued after it had *)
(* refused another: not because calls that were refused together share one.*)
UnauthorisedMeansRefusedTwice ==
    \A c \in Calls :
        call[c].stage = "unauthorised" => \E t \in call[c].refused : t > call[c].known

(* A token the client knows to have expired is never sent, if the margin   *)
(* covers the wait for a slot behind all other calls.                      *)
SentBeforeExpiry == [][
    \A c \in Calls :
        call[c].stage = "slot" /\ call'[c].stage = "sent" => left[call[c].token] > 0
    ]_fibVars

(* Every call ends, so no call keeps a lock another waits for.             *)
EveryCallEnds ==
    \A c \in Calls :
        call[c].stage # "new" ~> call[c].stage \in {"done", "failed", "unauthorised"}

(* A call is sent with a token that lives, again only after a refusal, and *)
(* given up only after two.                                                *)
CallsAreSound == [](ExecutedOnce /\ UnauthorisedMeansRefusedTwice) /\ SentBeforeExpiry
=============================================================================

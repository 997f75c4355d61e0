-------------------------- MODULE PhoneVerification --------------------------
(***************************************************************************)
(* The sliding-window rate limiter of one server process, and the one-time *)
(* codes that prove a phone, which it guards.                              *)
(*                                                                         *)
(* Logins run in worker threads: one reads the clock before it takes the   *)
(* limiter's lock, so events enter a bucket out of order.  Codes are sent  *)
(* and checked on the event loop, where reading the clock and entering     *)
(* the bucket are one step.  Nothing about a code is stored: the signed    *)
(* challenge carries its expiry, and the limiter counts the tries.         *)
(*                                                                         *)
(* One phone and one address; the caps per address of the two code         *)
(* endpoints are further keys of the same limiter and are left out.        *)
(***************************************************************************)
EXTENDS Integers, Sequences, FiniteSets

CONSTANTS
    Threads,     \* worker threads that serve logins
    NotWaiting,  \* a thread that is not waiting for the lock; no code
    Limit,       \* max_events of each key
    CodeTTL,     \* lifetime of a code, and window of the tries
    Cooldown,    \* window of the resend cooldown
    LongWindow,  \* window of the other keys
    Horizon,     \* age at which the sweep drops a bucket
    SweepEvery,  \* accepted events between two sweeps
    PhoneProofTTL, \* lifetime of a proof of the phone
    MaxDelay,    \* bound: ticks a thread waits between clock and lock
    MaxTime,     \* bound: the last tick
    MaxCodes,    \* bound: codes sent
    MaxRestarts  \* bound: restarts of the process

Keys == {"login", "send", "cooldown", "verify"}

(* Mutant: the tries are counted over the cooldown.                        *)
WindowOfTriesShort == [k \in Keys |-> IF k \in {"verify", "cooldown"} THEN Cooldown
                                      ELSE LongWindow]

Window == [k \in Keys |-> IF k = "verify" THEN CodeTTL
                          ELSE IF k = "cooldown" THEN Cooldown ELSE LongWindow]

ASSUME LimitAssumption == Limit \in [Keys -> Nat \ {0}]
ASSUME NumberAssumption ==
    {CodeTTL, Cooldown, LongWindow, Horizon, SweepEvery, PhoneProofTTL} \subseteq Nat \ {0}
ASSUME BoundAssumption == {MaxDelay, MaxTime, MaxCodes, MaxRestarts} \subseteq Nat
ASSUME HorizonAssumption == \A k \in Keys : Window[k] <= Horizon
ASSUME NotWaitingAssumption == NotWaiting \notin Int

VARIABLES
    now,        \* the clock
    limiter,    \* the buckets, and the accepted events since the last sweep
    waiting,    \* the clock each thread has read, before it has the lock
    issued,     \* when each code was sent
    tries,      \* history: tries of each code that met it unexpired
    proofUntil, \* when the last proof of the phone expires
    granted,    \* history: when the events of each key were accepted
    restarts    \* of the process since each code was sent, and in all

history == <<tries, granted>>
verificationVars ==
    <<now, limiter, waiting, issued, tries, proofUntil, granted, restarts>>

Codes == 1 .. MaxCodes
Times == 0 .. MaxTime

(* A code the messenger was asked to send, and has not answered for.       *)
Posting == 0 - 1
Sent(c) == issued[c] \notin {NotWaiting, Posting}

VerificationTypeOK ==
    /\ now \in Times
    /\ limiter \in [bucket : [Keys -> Seq(Times)], calls : 0 .. SweepEvery - 1]
    /\ \A k \in Keys : Len(limiter.bucket[k]) <= Limit[k]
    /\ waiting \in [Threads -> Times \cup {NotWaiting}]
    /\ issued \in [Codes -> Times \cup {NotWaiting, Posting}]
    /\ tries \in [Codes -> Nat]
    /\ proofUntil \in 0 .. MaxTime + PhoneProofTTL
    /\ granted \in [Keys -> Seq(Times)]
    /\ restarts \in [Codes \cup {0} -> 0 .. MaxRestarts]

Empty == [bucket |-> [k \in Keys |-> <<>>], calls |-> 0]

VerificationInit ==
    /\ now = 0
    /\ limiter = Empty
    /\ waiting = [t \in Threads |-> NotWaiting]
    /\ issued = [c \in Codes |-> NotWaiting]
    /\ tries = [c \in Codes |-> 0]
    /\ proofUntil = 0
    /\ granted = [k \in Keys |-> <<>>]
    /\ restarts = [c \in Codes \cup {0} |-> 0]

-----------------------------------------------------------------------------
(* The limiter.                                                            *)

(* Events leave a bucket from its front, up to the first one in the window. *)
Drained(bucket, cutoff) ==
    LET live == {i \in DOMAIN bucket : bucket[i] > cutoff} IN
    IF live = {} THEN <<>>
    ELSE LET first == CHOOSE i \in live : \A j \in live : i <= j IN
         SubSeq(bucket, first, Len(bucket))

(* Mutant: the sweep looks at the first event.                             *)
SweepByOldest(bucket, ts) ==
    [k \in Keys |->
        IF bucket[k] # <<>> /\ bucket[k][1] <= ts - Horizon THEN <<>> ELSE bucket[k]]

(* _sweep_stale_buckets_locked looks at the last event of a bucket.        *)
SweepStaleBuckets(bucket, ts) ==
    [k \in Keys |->
        IF bucket[k] # <<>> /\ bucket[k][Len(bucket[k])] <= ts - Horizon
        THEN <<>> ELSE bucket[k]]

Recorded(l, k, ts, live) ==
    LET bucket == [l.bucket EXCEPT ![k] = Append(live, ts)] IN
    IF l.calls + 1 >= SweepEvery
    THEN [bucket |-> SweepStaleBuckets(bucket, ts), calls |-> 0]
    ELSE [bucket |-> bucket, calls |-> l.calls + 1]

(* Mutant: one event too many.                                             *)
EnforcedOneMore(l, k, ts) ==
    LET live == Drained(l.bucket[k], ts - Window[k]) IN
    IF Len(live) > Limit[k]
    THEN [ok |-> FALSE, limiter |-> [l EXCEPT !.bucket[k] = live]]
    ELSE [ok |-> TRUE, limiter |-> Recorded(l, k, ts, live)]

(* enforce_rate_limit of an event whose clock was ts: whether it is        *)
(* accepted, and the limiter it leaves.                                    *)
Enforced(l, k, ts) ==
    LET live == Drained(l.bucket[k], ts - Window[k]) IN
    IF Len(live) >= Limit[k]
    THEN [ok |-> FALSE, limiter |-> [l EXCEPT !.bucket[k] = live]]
    ELSE [ok |-> TRUE, limiter |-> Recorded(l, k, ts, live)]

(* The history of accepted events; ClockTicks forgets what no window reaches.    *)
Grant(ks) ==
    granted' = [k \in Keys |-> IF k \in ks THEN Append(granted[k], now) ELSE granted[k]]

ClockTicks ==
    /\ now < MaxTime
    /\ \A t \in Threads : waiting[t] # NotWaiting => now < waiting[t] + MaxDelay
    /\ now' = now + 1
    /\ granted' = [k \in Keys |-> Drained(granted[k], now' - Window[k])]
    /\ UNCHANGED <<limiter, waiting, issued, tries, proofUntil, restarts>>

-----------------------------------------------------------------------------
(* Logins, in threads.                                                     *)

LoginReadsClock(t) ==
    /\ waiting[t] = NotWaiting
    /\ waiting' = [waiting EXCEPT ![t] = now]
    /\ UNCHANGED <<now, limiter, issued, proofUntil, history, restarts>>

LoginEnters(t) ==
    /\ waiting[t] # NotWaiting
    /\ LET e == Enforced(limiter, "login", waiting[t]) IN
          /\ limiter' = e.limiter
          /\ Grant(IF e.ok THEN {"login"} ELSE {})
    /\ waiting' = [waiting EXCEPT ![t] = NotWaiting]
    /\ UNCHANGED <<now, issued, tries, proofUntil, restarts>>

-----------------------------------------------------------------------------
(* Codes, on the event loop.                                               *)

(* otp_send: the cap of the phone is spent even if the cooldown refuses.   *)
SendCode(c) ==
    /\ issued[c] = NotWaiting
    /\ LET cap == Enforced(limiter, "send", now)
           cool == Enforced(cap.limiter, "cooldown", now) IN
       IF ~ cap.ok
       THEN limiter' = cap.limiter /\ UNCHANGED <<granted, issued>>
       ELSE /\ limiter' = cool.limiter
            /\ Grant({"send"} \cup (IF cool.ok THEN {"cooldown"} ELSE {}))
            /\ issued' = [issued EXCEPT ![c] = IF cool.ok THEN Posting ELSE @]
    /\ UNCHANGED <<now, waiting, tries, proofUntil, restarts>>

(* The messenger answered: the challenge is made now.  If it failed, there *)
(* is none, and the events stay spent.                                     *)
CodePosted(c) ==
    /\ issued[c] = Posting
    /\ \E at \in {now, NotWaiting} : issued' = [issued EXCEPT ![c] = at]
    /\ restarts' = [restarts EXCEPT ![c] = 0]
    /\ UNCHANGED <<now, limiter, waiting, granted, tries, proofUntil>>

(* Mutant: the expiry is not checked.                                      *)
CheckChallengeForever(c) == Sent(c)

(* _check_challenge, of the code's own challenge: not yet expired.         *)
CheckChallenge(c) == now < issued[c] + CodeTTL

(* otp_verify, with the right code or a wrong one.                         *)
Verify(c, right) ==
    /\ Sent(c)
    /\ LET e == Enforced(limiter, "verify", now) IN
       /\ limiter' = e.limiter
       /\ Grant(IF e.ok THEN {"verify"} ELSE {})
       /\ tries' = [tries EXCEPT ![c] =
                       IF e.ok /\ now < issued[c] + CodeTTL THEN @ + 1 ELSE @]
       /\ proofUntil' = IF e.ok /\ right /\ CheckChallenge(c)
                        THEN now + PhoneProofTTL ELSE proofUntil
    /\ UNCHANGED <<now, waiting, issued, restarts>>

(* The process starts anew: the windows are empty, and codes stay valid.   *)
Restart ==
    /\ restarts[0] < MaxRestarts
    /\ limiter' = Empty
    /\ waiting' = [t \in Threads |-> NotWaiting]
    /\ granted' = [k \in Keys |-> <<>>]
    /\ restarts' = [c \in Codes \cup {0} |-> restarts[c] + 1]
    /\ issued' = [c \in Codes |-> IF issued[c] = Posting THEN NotWaiting ELSE issued[c]]
    /\ UNCHANGED <<now, tries, proofUntil>>

VerificationNext ==
    \/ ClockTicks \/ Restart
    \/ \E t \in Threads : LoginReadsClock(t) \/ LoginEnters(t)
    \/ \E c \in Codes : SendCode(c) \/ CodePosted(c) \/ \E right \in BOOLEAN : Verify(c, right)

VerificationSpec == VerificationInit /\ [][VerificationNext]_verificationVars

-----------------------------------------------------------------------------
(* No window sees more accepted events of a key than its limit, although   *)
(* buckets are drained and swept by clocks read out of order: for logins   *)
(* the window is shorter by the time a thread may wait for the lock.       *)
AtMostLimitPerWindow == \A k \in Keys :
    LET width == Window[k] - (IF k = "login" THEN MaxDelay ELSE 0) IN
    Cardinality({i \in DOMAIN granted[k] : granted[k][i] > now - width}) <= Limit[k]

(* The window of tries doubles as the cap of tries per code: before it     *)
(* expires, a code is tried at most that often in each life of the server. *)
TriesPerCode == \A c \in Codes :
    Sent(c) => tries[c] <= Limit["verify"] * (restarts[c] + 1)

(* A proof of the phone in force was earned by a code that was sent no     *)
(* longer ago than the lifetimes of a code and of a proof together.        *)
ProofIsFresh == proofUntil > now =>
    \E c \in Codes : /\ Sent(c)
                     /\ now < issued[c] + CodeTTL + PhoneProofTTL

(* A code proves the phone: it is not guessed, and not for long.           *)
CodesProvePhone == TriesPerCode /\ ProofIsFresh
=============================================================================

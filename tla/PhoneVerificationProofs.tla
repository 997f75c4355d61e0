----------------------- MODULE PhoneVerificationProofs -----------------------
(* Proofs about PhoneVerification, for any threads, limits, windows and    *)
(* lifetimes, any delay of a thread and any number of codes and restarts.  *)
EXTENDS PhoneVerification, FiniteSetTheorems, SequenceTheorems, TLAPS

-----------------------------------------------------------------------------
(* The bucket and the history of a key.                                    *)

(* A set of numbers has a least one.                                       *)
LEMMA LeastNumber ==
    ASSUME NEW T, T \subseteq Nat, T # {}
    PROVE  \E m \in T : \A j \in T : m <= j
<1> DEFINE R == OpToRel(<, Nat)
<1>1. \A i, j \in Nat : i < j => <<i, j>> \in R
  BY Zenon DEF OpToRel
<1>2. IsWellFoundedOn(R, Nat)
  BY NatLessThanWellFounded
<1> HIDE DEF R
<1>3. PICK m \in T : \A j \in T : ~ (<<j, m>> \in R)
  BY <1>2, WFMin
<1>4. ASSUME NEW j \in T
      PROVE  m <= j
  <2>1. m \in Nat /\ j \in Nat /\ ~ (j < m)
    BY <1>1, <1>3
  <2> QED BY <2>1
<1> QED BY <1>4

(* What leaves a bucket is a prefix of events that are out of the window,  *)
(* and the first event that stays is in it.                                *)
LEMMA DrainedRule ==
    ASSUME NEW S \in SUBSET Int, NEW b \in Seq(S), NEW cutoff \in Int
    PROVE  \E n \in 0 .. Len(b) :
              /\ Drained(b, cutoff) \in Seq(S)
              /\ Len(Drained(b, cutoff)) = Len(b) - n
              /\ \A i \in 1 .. Len(b) - n : Drained(b, cutoff)[i] = b[i + n]
              /\ \A i \in 1 .. n : b[i] <= cutoff
              /\ n < Len(b) => b[n + 1] > cutoff
<1> DEFINE live == {i \in DOMAIN b : b[i] > cutoff}
           left == Drained(b, cutoff)
           Leaves(n) == /\ left \in Seq(S)
                        /\ Len(left) = Len(b) - n
                        /\ \A i \in 1 .. Len(b) - n : left[i] = b[i + n]
                        /\ \A i \in 1 .. n : b[i] <= cutoff
                        /\ n < Len(b) => b[n + 1] > cutoff
<1> SUFFICES \E n \in 0 .. Len(b) : Leaves(n)
  OBVIOUS
<1>0. Len(b) \in Nat /\ DOMAIN b = 1 .. Len(b)
  OBVIOUS
<1>1. \A i \in 1 .. Len(b) : b[i] \in S /\ b[i] \in Int
  <2>1. \A i \in 1 .. Len(b) : b[i] \in S
    OBVIOUS
  <2> QED BY <2>1
<1>2. CASE live = {}
  <2>1. Drained(b, cutoff) = <<>>
    BY <1>2 DEF Drained
  <2>2. ASSUME NEW i \in 1 .. Len(b)
        PROVE  b[i] <= cutoff
    <3>1. ~ (b[i] > cutoff)
      BY <1>0, <1>2
    <3> QED BY <1>1, <3>1
  <2>3. Len(b) \in 0 .. Len(b)
    BY <1>0
  <2>4. Leaves(Len(b))
    BY <1>0, <2>1, <2>2
  <2> HIDE DEF Leaves
  <2> QED BY <2>3, <2>4
<1>3. CASE live # {}
  <2>1. PICK f \in live : \A j \in live : f <= j
    <3>1. live \subseteq Nat
      BY <1>0
    <3> HIDE DEF live
    <3> QED BY <1>3, <3>1, LeastNumber
  <2>2. f \in 1 .. Len(b) /\ b[f] > cutoff
    BY <1>0, <2>1
  <2>3. (CHOOSE i \in live : \A j \in live : i <= j) = f
    <3>1. ASSUME NEW i \in live, \A j \in live : i <= j
          PROVE  i = f
      <4>1. i \in Nat /\ f \in Nat
        BY <1>0
      <4> QED BY <2>1, <3>1, <4>1
    <3> HIDE DEF live
    <3> QED BY <2>1, <3>1
  <2>4. Drained(b, cutoff) = SubSeq(b, f, Len(b))
    BY <1>3, <2>3 DEF Drained
  <2>5. /\ SubSeq(b, f, Len(b)) \in Seq(S)
        /\ Len(SubSeq(b, f, Len(b))) = Len(b) - (f - 1)
        /\ \A i \in 1 .. Len(b) - (f - 1) : SubSeq(b, f, Len(b))[i] = b[i + (f - 1)]
    BY <1>0, <2>2
  <2>6. ASSUME NEW i \in 1 .. f - 1
        PROVE  b[i] <= cutoff
    <3>1. i \notin live /\ i \in 1 .. Len(b)
      BY <1>0, <2>1, <2>2
    <3>2. ~ (b[i] > cutoff)
      BY <1>0, <3>1
    <3> QED BY <1>1, <3>1, <3>2
  <2>7. f - 1 \in 0 .. Len(b)
    BY <1>0, <2>2
  <2>8. Leaves(f - 1)
    BY <1>0, <2>2, <2>4, <2>5, <2>6
  <2> HIDE DEF Leaves
  <2> QED BY <2>7, <2>8
<1> QED BY <1>2, <1>3

(* How long an event may have waited between the clock and the bucket.     *)
Slack(k) == IF k = "login" THEN MaxDelay ELSE 0

(* Counted from their ends, a bucket and the history hold the same events: *)
(* the bucket the clock each one read, the history when it was accepted.   *)
(* Events the bucket has lost are out of the window.                       *)
Aligned(k, b, g, n) ==
    /\ \A i, j \in 1 .. Len(g) : i <= j => g[i] <= g[j]
    /\ \A j \in 1 .. Len(g) : g[j] <= n
    /\ \A i \in 1 .. Len(b), j \in 1 .. Len(g) :
          Len(b) - i = Len(g) - j => b[i] <= g[j] /\ g[j] <= b[i] + Slack(k)
    /\ \A j \in 1 .. Len(g) : Len(b) <= Len(g) - j => g[j] <= n - Window[k] + Slack(k)

(* The constants are numbers, and no window is longer than the horizon.    *)
LEMMA NumberRule ==
    /\ MaxTime \in Nat /\ MaxDelay \in Nat /\ MaxRestarts \in Nat /\ MaxCodes \in Nat
    /\ Times \subseteq Nat /\ Times \in SUBSET Int
    /\ Horizon \in Nat /\ SweepEvery \in Nat \ {0} /\ CodeTTL \in Nat /\ PhoneProofTTL \in Nat
    /\ \A k \in Keys : /\ Window[k] \in Nat /\ Window[k] <= Horizon /\ Window[k] >= 1
                       /\ Slack(k) \in Nat
                       /\ Limit[k] \in Nat /\ Limit[k] >= 1
<1>1. /\ MaxTime \in Nat /\ MaxDelay \in Nat /\ MaxRestarts \in Nat /\ MaxCodes \in Nat
      /\ Horizon \in Nat /\ SweepEvery \in Nat \ {0} /\ CodeTTL \in Nat \ {0}
      /\ PhoneProofTTL \in Nat /\ Cooldown \in Nat \ {0} /\ LongWindow \in Nat \ {0}
  BY NumberAssumption, BoundAssumption
<1>2. \A k \in Keys : Window[k] \in Nat /\ Window[k] >= 1
  BY <1>1 DEF Window
<1> QED BY <1>1, <1>2, LimitAssumption, HorizonAssumption DEF Times, Slack

(* The clocks of a bucket or a history are numbers.                        *)
LEMMA ClocksRule ==
    ASSUME NEW g \in Seq(Times)
    PROVE  /\ Len(g) \in Nat
           /\ \A j \in 1 .. Len(g) : g[j] \in Times /\ g[j] \in Nat
<1>1. Len(g) \in Nat /\ \A j \in 1 .. Len(g) : g[j] \in Times
  OBVIOUS
<1>2. Times \subseteq Nat
  BY NumberRule
<1> QED BY <1>1, <1>2

(* A bucket that drops what a clock not ahead of now is done with.         *)
LEMMA AlignedDrained ==
    ASSUME NEW k \in Keys, NEW b \in Seq(Times), NEW g \in Seq(Times), NEW n \in Times,
           NEW ts \in Times, ts <= n, Aligned(k, b, g, n)
    PROVE  LET live == Drained(b, ts - Window[k]) IN
           live \in Seq(Times) /\ Len(live) <= Len(b) /\ Aligned(k, live, g, n)
<1> DEFINE live == Drained(b, ts - Window[k])
<1>1. ts - Window[k] \in Int /\ Window[k] \in Nat /\ Slack(k) \in Nat /\ Times \subseteq Nat
  BY NumberRule
<1>2. PICK d \in 0 .. Len(b) :
         /\ live \in Seq(Times)
         /\ Len(live) = Len(b) - d
         /\ \A i \in 1 .. Len(b) - d : live[i] = b[i + d]
         /\ \A i \in 1 .. d : b[i] <= ts - Window[k]
  BY <1>1, NumberRule, DrainedRule
<1> HIDE DEF live
<1>3. Len(b) \in Nat /\ Len(g) \in Nat /\ Len(live) \in Nat /\ d \in Nat
  BY <1>2
<1>4. \A i \in 1 .. Len(live), j \in 1 .. Len(g) :
         Len(live) - i = Len(g) - j => live[i] <= g[j] /\ g[j] <= live[i] + Slack(k)
  <2> SUFFICES ASSUME NEW i \in 1 .. Len(live), NEW j \in 1 .. Len(g),
                      Len(live) - i = Len(g) - j
               PROVE  live[i] <= g[j] /\ g[j] <= live[i] + Slack(k)
    OBVIOUS
  <2>1. i + d \in 1 .. Len(b) /\ Len(b) - (i + d) = Len(g) - j /\ live[i] = b[i + d]
    BY <1>2, <1>3
  <2> QED BY <2>1 DEF Aligned
<1>5. \A j \in 1 .. Len(g) : Len(live) <= Len(g) - j => g[j] <= n - Window[k] + Slack(k)
  <2> SUFFICES ASSUME NEW j \in 1 .. Len(g), Len(live) <= Len(g) - j
               PROVE  g[j] <= n - Window[k] + Slack(k)
    OBVIOUS
  <2>1. CASE Len(b) <= Len(g) - j
    BY <2>1 DEF Aligned
  <2>2. CASE Len(b) > Len(g) - j
    <3> DEFINE i == Len(b) - (Len(g) - j)
    <3>1. i \in 1 .. d /\ i \in 1 .. Len(b) /\ Len(b) - i = Len(g) - j
      BY <1>2, <1>3, <2>2
    <3> HIDE DEF i
    <3>2. b[i] \in Nat /\ g[j] \in Nat /\ n \in Nat /\ ts \in Nat
      BY <1>1, <3>1, ClocksRule
    <3>3. b[i] <= ts - Window[k] /\ g[j] <= b[i] + Slack(k)
      BY <1>2, <3>1 DEF Aligned
    <3>4. Window[k] \in Nat /\ Slack(k) \in Nat
      BY <1>1
    <3> HIDE DEF live
    <3> QED BY <3>2, <3>3, <3>4, SMTT(20)
  <2> QED BY <1>3, <2>1, <2>2
<1> QED BY <1>2, <1>3, <1>4, <1>5 DEF Aligned, live

(* One more event, whose clock is at most the slack old.                   *)
LEMMA AlignedAppend ==
    ASSUME NEW k \in Keys, NEW b \in Seq(Times), NEW g \in Seq(Times), NEW n \in Times,
           NEW ts \in Times, ts <= n, n <= ts + Slack(k), Aligned(k, b, g, n)
    PROVE  Aligned(k, Append(b, ts), Append(g, n), n)
<1> DEFINE c == Append(b, ts)
           h == Append(g, n)
<1>1. /\ Len(b) \in Nat /\ Len(g) \in Nat /\ Len(c) = Len(b) + 1 /\ Len(h) = Len(g) + 1
      /\ \A i \in 1 .. Len(b) : c[i] = b[i]
      /\ \A j \in 1 .. Len(g) : h[j] = g[j]
      /\ c[Len(b) + 1] = ts /\ h[Len(g) + 1] = n
  OBVIOUS
<1>2. /\ \A j \in 1 .. Len(g) : g[j] \in Nat
      /\ ts \in Nat /\ n \in Nat /\ Slack(k) \in Nat /\ Window[k] \in Nat
  BY NumberRule, ClocksRule
<1> HIDE DEF c, h
<1>3. \A j \in 1 .. Len(h) : j = Len(g) + 1 \/ j \in 1 .. Len(g)
  BY <1>1
<1>4. \A j \in 1 .. Len(h) : h[j] <= n
  <2> SUFFICES ASSUME NEW j \in 1 .. Len(h) PROVE h[j] <= n
    OBVIOUS
  <2>1. CASE j \in 1 .. Len(g)
    BY <1>1, <2>1 DEF Aligned
  <2>2. CASE j = Len(g) + 1
    BY <1>1, <1>2, <2>2
  <2> QED BY <1>3, <2>1, <2>2
<1>5. \A i, j \in 1 .. Len(h) : i <= j => h[i] <= h[j]
  <2> SUFFICES ASSUME NEW i \in 1 .. Len(h), NEW j \in 1 .. Len(h), i <= j
               PROVE  h[i] <= h[j]
    OBVIOUS
  <2>1. CASE j = Len(g) + 1
    BY <1>1, <1>4, <2>1
  <2>2. CASE j \in 1 .. Len(g)
    <3>1. i \in 1 .. Len(g)
      BY <1>1, <2>2
    <3> QED BY <1>1, <2>2, <3>1 DEF Aligned
  <2> QED BY <1>3, <2>1, <2>2
<1>6. \A i \in 1 .. Len(c), j \in 1 .. Len(h) :
         Len(c) - i = Len(h) - j => c[i] <= h[j] /\ h[j] <= c[i] + Slack(k)
  <2> SUFFICES ASSUME NEW i \in 1 .. Len(c), NEW j \in 1 .. Len(h),
                      Len(c) - i = Len(h) - j
               PROVE  c[i] <= h[j] /\ h[j] <= c[i] + Slack(k)
    OBVIOUS
  <2>1. CASE j = Len(g) + 1
    <3>1. i = Len(b) + 1
      BY <1>1, <2>1
    <3> QED BY <1>1, <1>2, <2>1, <3>1
  <2>2. CASE j \in 1 .. Len(g)
    <3>1. i \in 1 .. Len(b) /\ Len(b) - i = Len(g) - j
      BY <1>1, <2>2
    <3> QED BY <1>1, <2>2, <3>1 DEF Aligned
  <2> QED BY <1>3, <2>1, <2>2
<1>7. \A j \in 1 .. Len(h) : Len(c) <= Len(h) - j => h[j] <= n - Window[k] + Slack(k)
  <2> SUFFICES ASSUME NEW j \in 1 .. Len(h), Len(c) <= Len(h) - j
               PROVE  h[j] <= n - Window[k] + Slack(k)
    OBVIOUS
  <2>1. j \in 1 .. Len(g) /\ Len(b) <= Len(g) - j
    BY <1>1
  <2> QED BY <1>1, <2>1 DEF Aligned
<1> QED BY <1>4, <1>5, <1>6, <1>7 DEF Aligned, c, h

(* A bucket that is dropped for the age of its last event.                 *)
LEMMA AlignedSwept ==
    ASSUME NEW k \in Keys, NEW b \in Seq(Times), NEW g \in Seq(Times), NEW n \in Times,
           NEW ts \in Times, ts <= n, Aligned(k, b, g, n),
           b # <<>>, b[Len(b)] <= ts - Horizon
    PROVE  Aligned(k, <<>>, g, n)
<1>1. /\ Len(b) \in Nat /\ Len(b) >= 1 /\ Len(g) \in Nat /\ Len(<<>>) = 0
      /\ b[Len(b)] \in Times
  OBVIOUS
<1>2. /\ \A j \in 1 .. Len(g) : g[j] \in Nat
      /\ ts \in Nat /\ n \in Nat /\ Slack(k) \in Nat /\ Window[k] \in Nat
      /\ Horizon \in Nat /\ Window[k] <= Horizon /\ b[Len(b)] \in Nat
  BY <1>1, NumberRule, ClocksRule
<1>3. \A j \in 1 .. Len(g) : g[j] <= n - Window[k] + Slack(k)
  <2> SUFFICES ASSUME NEW j \in 1 .. Len(g)
               PROVE  g[j] <= n - Window[k] + Slack(k)
    OBVIOUS
  <2>1. Len(g) \in 1 .. Len(g) /\ Len(b) \in 1 .. Len(b) /\ j <= Len(g)
    BY <1>1
  <2>2. g[j] <= g[Len(g)] /\ g[Len(g)] <= b[Len(b)] + Slack(k)
    BY <1>1, <2>1 DEF Aligned
  <2>3. g[j] \in Nat /\ g[Len(g)] \in Nat
    BY <1>2, <2>1
  <2> QED BY <1>2, <2>2, <2>3, SMTT(20)
<1>4. \A i \in 1 .. Len(<<>>) : FALSE
  BY <1>1
<1> QED BY <1>3, <1>4 DEF Aligned

(* The clock ticks, and the history forgets what is out of the window.     *)
LEMMA AlignedTick ==
    ASSUME NEW k \in Keys, NEW b \in Seq(Times), NEW g \in Seq(Times), NEW n \in Times,
           Aligned(k, b, g, n)
    PROVE  LET h == Drained(g, (n + 1) - Window[k]) IN
           h \in Seq(Times) /\ Aligned(k, b, h, n + 1)
<1> DEFINE h == Drained(g, (n + 1) - Window[k])
<1> SUFFICES h \in Seq(Times) /\ Aligned(k, b, h, n + 1)
  OBVIOUS
<1>1. /\ (n + 1) - Window[k] \in Int /\ Window[k] \in Nat /\ Slack(k) \in Nat /\ n \in Nat
      /\ \A j \in 1 .. Len(g) : g[j] \in Nat
  BY NumberRule, ClocksRule
<1>2. PICK d \in 0 .. Len(g) :
         /\ h \in Seq(Times)
         /\ Len(h) = Len(g) - d
         /\ \A i \in 1 .. Len(g) - d : h[i] = g[i + d]
  <2>1. Times \in SUBSET Int
    BY NumberRule
  <2>2. PICK d \in 0 .. Len(g) :
           /\ Drained(g, (n + 1) - Window[k]) \in Seq(Times)
           /\ Len(Drained(g, (n + 1) - Window[k])) = Len(g) - d
           /\ \A i \in 1 .. Len(g) - d : Drained(g, (n + 1) - Window[k])[i] = g[i + d]
    <3> DEFINE cutoff == (n + 1) - Window[k]
    <3>1. cutoff \in Int
      BY <1>1
    <3> HIDE DEF cutoff
    <3>2. \E d \in 0 .. Len(g) :
             /\ Drained(g, cutoff) \in Seq(Times)
             /\ Len(Drained(g, cutoff)) = Len(g) - d
             /\ \A i \in 1 .. Len(g) - d : Drained(g, cutoff)[i] = g[i + d]
             /\ \A i \in 1 .. d : g[i] <= cutoff
             /\ d < Len(g) => g[d + 1] > cutoff
      BY <2>1, <3>1, DrainedRule, Zenon
    <3> QED BY <3>2 DEF cutoff
  <2> QED BY <2>2
<1> HIDE DEF h
<1>3. Len(b) \in Nat /\ Len(g) \in Nat /\ Len(h) \in Nat /\ d \in Nat
  BY <1>2
<1>4. \A j \in 1 .. Len(h) : j + d \in 1 .. Len(g) /\ h[j] = g[j + d]
                             /\ Len(g) - (j + d) = Len(h) - j
  BY <1>2, <1>3
<1>5. \A i, j \in 1 .. Len(h) : i <= j => h[i] <= h[j]
  <2> SUFFICES ASSUME NEW i \in 1 .. Len(h), NEW j \in 1 .. Len(h), i <= j
               PROVE  h[i] <= h[j]
    OBVIOUS
  <2>1. i + d <= j + d
    BY <1>3
  <2> QED BY <1>4, <2>1 DEF Aligned
<1>6. \A j \in 1 .. Len(h) : h[j] <= n + 1
  <2> SUFFICES ASSUME NEW j \in 1 .. Len(h) PROVE h[j] <= n + 1
    OBVIOUS
  <2>1. h[j] \in Nat /\ h[j] <= n
    BY <1>1, <1>4 DEF Aligned
  <2> QED BY <1>1, <2>1
<1>7. \A i \in 1 .. Len(b), j \in 1 .. Len(h) :
         Len(b) - i = Len(h) - j => b[i] <= h[j] /\ h[j] <= b[i] + Slack(k)
  BY <1>4 DEF Aligned
<1>8. \A j \in 1 .. Len(h) : Len(b) <= Len(h) - j => h[j] <= (n + 1) - Window[k] + Slack(k)
  <2> SUFFICES ASSUME NEW j \in 1 .. Len(h), Len(b) <= Len(h) - j
               PROVE  h[j] <= (n + 1) - Window[k] + Slack(k)
    OBVIOUS
  <2>1. h[j] \in Nat /\ h[j] <= n - Window[k] + Slack(k)
    BY <1>1, <1>4 DEF Aligned
  <2>2. Window[k] \in Nat /\ Slack(k) \in Nat /\ n \in Nat
    BY <1>1
  <2> QED BY <2>1, <2>2, SMTT(20)
<1>9. Aligned(k, b, h, n + 1)
  BY <1>5, <1>6, <1>7, <1>8 DEF Aligned
<1> QED BY <1>2, <1>9

-----------------------------------------------------------------------------
(* The limiter.                                                            *)

LimiterOK(l) ==
    /\ l \in [bucket : [Keys -> Seq(Times)], calls : 0 .. SweepEvery - 1]
    /\ \A k \in Keys : Len(l.bucket[k]) <= Limit[k]

Histories == [Keys -> Seq(Times)]

AllAligned(l, g, n) == \A k \in Keys : Aligned(k, l.bucket[k], g[k], n)

(* The history of an event that was accepted, or was not.                  *)
Noted(g, k, n, ok) == IF ok THEN [g EXCEPT ![k] = Append(@, n)] ELSE g

(* Recording an event in a bucket with room for it, and the sweep that may *)
(* follow, keep the limiter's types, its limits and its alignment.         *)
LEMMA RecordedRule ==
    ASSUME NEW l, LimiterOK(l), NEW g \in Histories, NEW n \in Times, AllAligned(l, g, n),
           NEW k \in Keys, NEW ts \in Times, ts <= n, n <= ts + Slack(k),
           NEW live \in Seq(Times), Len(live) < Limit[k], Aligned(k, live, g[k], n)
    PROVE  /\ LimiterOK(Recorded(l, k, ts, live))
           /\ AllAligned(Recorded(l, k, ts, live), Noted(g, k, n, TRUE), n)
<1> DEFINE b == [l.bucket EXCEPT ![k] = Append(live, ts)]
           h == Noted(g, k, n, TRUE)
           swept == SweepStaleBuckets(b, ts)
<1>1. /\ l.bucket \in [Keys -> Seq(Times)] /\ l.calls \in 0 .. SweepEvery - 1
      /\ SweepEvery \in Nat \ {0} /\ \A q \in Keys : Limit[q] \in Nat /\ Limit[q] >= 1
  BY NumberRule DEF LimiterOK
<1>2. /\ Append(live, ts) \in Seq(Times) /\ Append(g[k], n) \in Seq(Times)
      /\ Len(Append(live, ts)) = Len(live) + 1 /\ Len(live) \in Nat
  BY DEF Histories
<1>3. /\ b \in [Keys -> Seq(Times)] /\ h \in [Keys -> Seq(Times)]
      /\ b[k] = Append(live, ts) /\ h[k] = Append(g[k], n)
      /\ \A q \in Keys \ {k} : b[q] = l.bucket[q] /\ h[q] = g[q]
  BY <1>1, <1>2 DEF Noted, Histories
<1>4. Aligned(k, Append(live, ts), Append(g[k], n), n)
  BY AlignedAppend DEF Histories
<1> HIDE DEF b, h
<1>5. \A q \in Keys : Len(b[q]) <= Limit[q] /\ Aligned(q, b[q], h[q], n)
  <2>1. Len(live) + 1 <= Limit[k]
    BY <1>1, <1>2
  <2>2. \A q \in Keys : Len(l.bucket[q]) <= Limit[q] /\ Aligned(q, l.bucket[q], g[q], n)
    BY DEF LimiterOK, AllAligned
  <2>3. \A q \in Keys \ {k} : Len(b[q]) <= Limit[q] /\ Aligned(q, b[q], h[q], n)
    BY <1>3, <2>2
  <2>4. Len(b[k]) <= Limit[k] /\ Aligned(k, b[k], h[k], n)
    BY <1>2, <1>3, <1>4, <2>1
  <2> QED BY <2>3, <2>4
<1>6. \A q \in Keys : swept[q] = IF b[q] # <<>> /\ b[q][Len(b[q])] <= ts - Horizon
                                 THEN <<>> ELSE b[q]
  BY DEF SweepStaleBuckets
<1>7. swept = [q \in Keys |-> swept[q]]
  BY DEF SweepStaleBuckets
<1> HIDE DEF swept
<1>8. ASSUME NEW q \in Keys
      PROVE  swept[q] \in Seq(Times) /\ Len(swept[q]) <= Limit[q] /\ Aligned(q, swept[q], h[q], n)
  <2>1. CASE b[q] # <<>> /\ b[q][Len(b[q])] <= ts - Horizon
    <3>1. swept[q] = <<>>
      BY <1>6, <2>1
    <3>2. Aligned(q, <<>>, h[q], n)
      BY <1>3, <1>5, <2>1, AlignedSwept
    <3>3. <<>> \in Seq(Times) /\ Len(<<>>) = 0
      OBVIOUS
    <3> QED BY <1>1, <3>1, <3>2, <3>3
  <2>2. CASE ~ (b[q] # <<>> /\ b[q][Len(b[q])] <= ts - Horizon)
    BY <1>3, <1>5, <1>6, <2>2
  <2> QED BY <2>1, <2>2
<1>9. swept \in [Keys -> Seq(Times)]
  BY <1>7, <1>8
<1>10. CASE l.calls + 1 >= SweepEvery
  <2>1. Recorded(l, k, ts, live) = [bucket |-> swept, calls |-> 0]
    BY <1>10 DEF Recorded, b, swept
  <2>2. 0 \in 0 .. SweepEvery - 1
    BY <1>1
  <2>3. LimiterOK(Recorded(l, k, ts, live))
    BY <1>8, <1>9, <2>1, <2>2 DEF LimiterOK
  <2>4. AllAligned(Recorded(l, k, ts, live), h, n)
    BY <1>8, <2>1 DEF AllAligned
  <2> QED BY <2>3, <2>4 DEF h
<1>11. CASE ~ (l.calls + 1 >= SweepEvery)
  <2>1. Recorded(l, k, ts, live) = [bucket |-> b, calls |-> l.calls + 1]
    BY <1>11 DEF Recorded, b
  <2>2. l.calls + 1 \in 0 .. SweepEvery - 1
    BY <1>1, <1>11
  <2>3. LimiterOK(Recorded(l, k, ts, live))
    BY <1>3, <1>5, <2>1, <2>2 DEF LimiterOK
  <2>4. AllAligned(Recorded(l, k, ts, live), h, n)
    BY <1>5, <2>1 DEF AllAligned
  <2> QED BY <2>3, <2>4 DEF h
<1> QED BY <1>10, <1>11

(* So does enforce_rate_limit as a whole, of an event whose clock is not   *)
(* ahead of now and at most the slack behind it.                           *)
LEMMA EnforcedRule ==
    ASSUME NEW l, LimiterOK(l), NEW g \in Histories, NEW n \in Times, AllAligned(l, g, n),
           NEW k \in Keys, NEW ts \in Times, ts <= n, n <= ts + Slack(k)
    PROVE  LET e == Enforced(l, k, ts) IN
           /\ e.ok \in BOOLEAN
           /\ LimiterOK(e.limiter)
           /\ Noted(g, k, n, e.ok) \in Histories
           /\ AllAligned(e.limiter, Noted(g, k, n, e.ok), n)
<1> DEFINE live == Drained(l.bucket[k], ts - Window[k])
           e == Enforced(l, k, ts)
           only == [l EXCEPT !.bucket[k] = live]
<1> SUFFICES /\ e.ok \in BOOLEAN
             /\ LimiterOK(e.limiter)
             /\ Noted(g, k, n, e.ok) \in Histories
             /\ AllAligned(e.limiter, Noted(g, k, n, e.ok), n)
  OBVIOUS
<1>1. /\ l.bucket \in [Keys -> Seq(Times)] /\ l.bucket[k] \in Seq(Times)
      /\ Len(l.bucket[k]) <= Limit[k] /\ g[k] \in Seq(Times)
      /\ Aligned(k, l.bucket[k], g[k], n)
  BY DEF LimiterOK, AllAligned, Histories
<1>2. live \in Seq(Times) /\ Len(live) <= Len(l.bucket[k]) /\ Aligned(k, live, g[k], n)
  BY <1>1, AlignedDrained
<1>3. e = IF Len(live) >= Limit[k] THEN [ok |-> FALSE, limiter |-> only]
          ELSE [ok |-> TRUE, limiter |-> Recorded(l, k, ts, live)]
  BY DEF Enforced
<1> HIDE DEF live, e
<1>4. Len(live) \in Nat /\ Len(l.bucket[k]) \in Nat /\ Limit[k] \in Nat
  BY <1>1, <1>2, NumberRule
<1>5. CASE Len(live) >= Limit[k]
  <2>1. e.ok = FALSE /\ e.limiter = only
    BY <1>3, <1>5
  <2>2. /\ only \in [bucket : [Keys -> Seq(Times)], calls : 0 .. SweepEvery - 1]
        /\ only.bucket[k] = live
        /\ \A q \in Keys \ {k} : only.bucket[q] = l.bucket[q]
    BY <1>1, <1>2 DEF LimiterOK
  <2> HIDE DEF only
  <2>3. LimiterOK(only)
    <3>1. Len(live) <= Limit[k]
      BY <1>1, <1>2, <1>4
    <3>2. \A q \in Keys : Len(l.bucket[q]) <= Limit[q]
      BY DEF LimiterOK
    <3>3. \A q \in Keys : Len(only.bucket[q]) <= Limit[q]
      BY <2>2, <3>1, <3>2
    <3> QED BY <2>2, <3>3 DEF LimiterOK
  <2>4. AllAligned(only, g, n)
    BY <1>2, <2>2 DEF AllAligned
  <2> QED BY <2>1, <2>3, <2>4 DEF Noted
<1>6. CASE ~ (Len(live) >= Limit[k])
  <2>1. e.ok = TRUE /\ e.limiter = Recorded(l, k, ts, live)
    BY <1>3, <1>6
  <2>2. LimiterOK(e.limiter) /\ AllAligned(e.limiter, Noted(g, k, n, TRUE), n)
    <3>1. Len(live) < Limit[k]
      BY <1>4, <1>6
    <3> QED BY <1>2, <2>1, <3>1, RecordedRule
  <2>3. Append(g[k], n) \in Seq(Times)
    BY <1>1
  <2> QED BY <2>1, <2>2, <2>3 DEF Noted, Histories
<1> QED BY <1>5, <1>6

-----------------------------------------------------------------------------
(* The inductive invariant of the limiter: besides the types, the clock a  *)
(* thread holds is at most MaxDelay old, the buckets are aligned with the  *)
(* history, and no code outlived more restarts than there were.            *)
WaitInv == \A t \in Threads : waiting[t] # NotWaiting =>
               waiting[t] <= now /\ now <= waiting[t] + MaxDelay

RestartInv == \A c \in Codes : restarts[c] <= restarts[0]

LimiterInv ==
    VerificationTypeOK /\ WaitInv /\ RestartInv /\ AllAligned(limiter, granted, now)

(* The parts of the type invariant, where the limiter's lemmas want them.  *)
LEMMA LimiterParts ==
    ASSUME LimiterInv
    PROVE  /\ LimiterOK(limiter) /\ granted \in Histories
           /\ now \in Times /\ now \in Nat /\ now <= now
           /\ AllAligned(limiter, granted, now)
           /\ \A k \in Keys : Slack(k) \in Nat /\ now <= now + Slack(k)
<1>1. now \in Times /\ now \in Nat /\ \A k \in Keys : Slack(k) \in Nat
  BY NumberRule DEF LimiterInv, VerificationTypeOK
<1> QED BY <1>1 DEF LimiterInv, VerificationTypeOK, LimiterOK, Histories

(* What an action does to the limiter and its history, one event or two.   *)
LEMMA GrantRule ==
    ASSUME LimiterInv, NEW k \in Keys
    PROVE  /\ Grant({k}) => granted' = Noted(granted, k, now, TRUE)
           /\ Grant({}) => granted' = granted
BY DEF Grant, Noted, LimiterInv, VerificationTypeOK

(* Sending a code spends an event of the phone's cap and then one of the   *)
(* cooldown, each as far as it is accepted.                                *)
LEMMA SendRule ==
    ASSUME LimiterInv, NEW c \in Codes, SendCode(c)
    PROVE  /\ LimiterOK(limiter') /\ granted' \in Histories
           /\ AllAligned(limiter', granted', now)
           /\ granted'["verify"] = granted["verify"]
           /\ issued' = issued \/ issued' = [issued EXCEPT ![c] = Posting]
<1> DEFINE cap == Enforced(limiter, "send", now)
           cool == Enforced(cap.limiter, "cooldown", now)
           h == Noted(granted, "send", now, TRUE)
<1>1. "send" \in Keys /\ "cooldown" \in Keys /\ "verify" \in Keys
  BY DEF Keys
<1>2. /\ cap.ok \in BOOLEAN /\ LimiterOK(cap.limiter)
      /\ Noted(granted, "send", now, cap.ok) \in Histories
      /\ AllAligned(cap.limiter, Noted(granted, "send", now, cap.ok), now)
  BY <1>1, LimiterParts, EnforcedRule
<1>3. CASE ~ cap.ok
  <2>1. limiter' = cap.limiter /\ granted' = granted /\ issued' = issued
    BY <1>3 DEF SendCode
  <2> HIDE DEF cap
  <2> QED BY <1>2, <1>3, <2>1 DEF Noted
<1>4. CASE cap.ok
  <2>1. /\ limiter' = cool.limiter
        /\ Grant({"send"} \cup (IF cool.ok THEN {"cooldown"} ELSE {}))
        /\ issued' = [issued EXCEPT ![c] = IF cool.ok THEN Posting ELSE @]
    BY <1>4 DEF SendCode
  <2>2. h \in Histories /\ AllAligned(cap.limiter, h, now)
    <3> HIDE DEF cap
    <3> QED BY <1>2, <1>4 DEF Noted
  <2>3. /\ cool.ok \in BOOLEAN /\ LimiterOK(cool.limiter)
        /\ Noted(h, "cooldown", now, cool.ok) \in Histories
        /\ AllAligned(cool.limiter, Noted(h, "cooldown", now, cool.ok), now)
    <3> HIDE DEF cap, h
    <3> QED BY <1>1, <1>2, <2>2, LimiterParts, EnforcedRule
  <2> HIDE DEF cool
  <2>4. granted' = Noted(h, "cooldown", now, cool.ok)
    BY <2>1, <2>3, LimiterParts DEF Grant, Noted, Histories, Keys
  <2>5. granted'["verify"] = granted["verify"]
    BY <2>4, LimiterParts DEF Noted, Histories, Keys
  <2>6. issued' = issued \/ issued' = [issued EXCEPT ![c] = Posting]
    BY <2>1 DEF LimiterInv, VerificationTypeOK
  <2> QED BY <2>1, <2>3, <2>4, <2>5, <2>6
<1> QED BY <1>2, <1>3, <1>4

(* Every step keeps it.                                                    *)
LEMMA LimiterStep ==
    ASSUME LimiterInv, [VerificationNext]_verificationVars
    PROVE  LimiterInv'
<1> DEFINE Rest == /\ limiter \in [bucket : [Keys -> Seq(Times)], calls : 0 .. SweepEvery - 1]
                   /\ \A k \in Keys : Len(limiter.bucket[k]) <= Limit[k]
                   /\ granted \in [Keys -> Seq(Times)]
                   /\ AllAligned(limiter, granted, now)
<1>1. /\ now \in Times /\ waiting \in [Threads -> Times \cup {NotWaiting}]
      /\ issued \in [Codes -> Times \cup {NotWaiting, Posting}]
      /\ tries \in [Codes -> Nat]
      /\ proofUntil \in 0 .. MaxTime + PhoneProofTTL
      /\ restarts \in [Codes \cup {0} -> 0 .. MaxRestarts]
      /\ WaitInv /\ RestartInv /\ Rest
  BY DEF LimiterInv, VerificationTypeOK
<1>2. /\ Times = 0 .. MaxTime /\ MaxTime \in Nat /\ MaxDelay \in Nat /\ MaxRestarts \in Nat
      /\ PhoneProofTTL \in Nat /\ NotWaiting \notin Int
      /\ Codes = 1 .. MaxCodes /\ MaxCodes \in Nat
  BY NumberRule, NotWaitingAssumption DEF Times, Codes
<1>3. ASSUME LimiterOK(limiter'), granted' \in Histories, AllAligned(limiter', granted', now'),
             now' = now
      PROVE  Rest'
  BY <1>3 DEF LimiterOK, Histories
<1>4. CASE ClockTicks
  <2>1. now' \in Times /\ now' = now + 1
    BY <1>1, <1>2, <1>4 DEF ClockTicks
  <2>2. WaitInv'
    BY <1>1, <1>2, <1>4 DEF ClockTicks, WaitInv
  <2>3. ASSUME NEW k \in Keys
        PROVE  granted'[k] \in Seq(Times) /\ Aligned(k, limiter.bucket[k], granted'[k], now')
    <3>1. granted'[k] = Drained(granted[k], (now + 1) - Window[k])
      BY <1>4, <2>1 DEF ClockTicks
    <3>2. /\ limiter.bucket[k] \in Seq(Times) /\ granted[k] \in Seq(Times)
          /\ Aligned(k, limiter.bucket[k], granted[k], now)
      BY <1>1 DEF AllAligned
    <3> QED BY <1>1, <2>1, <3>1, <3>2, AlignedTick
  <2>4. granted' = [k \in Keys |-> granted'[k]] /\ limiter' = limiter
    BY <1>4 DEF ClockTicks
  <2>5. Rest'
    BY <1>1, <2>3, <2>4 DEF AllAligned
  <2>6. UNCHANGED <<waiting, issued, tries, proofUntil, restarts>>
    BY <1>4 DEF ClockTicks
  <2> QED BY <1>1, <2>1, <2>2, <2>5, <2>6 DEF LimiterInv, VerificationTypeOK, RestartInv
<1>5. ASSUME NEW t \in Threads, LoginReadsClock(t)
      PROVE  LimiterInv'
  <2>1. WaitInv'
    BY <1>1, <1>2, <1>5 DEF LoginReadsClock, WaitInv
  <2>2. UNCHANGED <<now, limiter, issued, proofUntil, tries, granted, restarts>>
    BY <1>5 DEF LoginReadsClock, history
  <2>3. waiting' \in [Threads -> Times \cup {NotWaiting}]
    BY <1>1, <1>5 DEF LoginReadsClock
  <2> QED BY <1>1, <2>1, <2>2, <2>3 DEF LimiterInv, VerificationTypeOK, RestartInv
<1>6. ASSUME NEW t \in Threads, LoginEnters(t)
      PROVE  LimiterInv'
  <2> DEFINE ts == waiting[t]
             e == Enforced(limiter, "login", ts)
  <2>1. ts \in Times /\ ts <= now /\ now <= ts + Slack("login") /\ "login" \in Keys
    BY <1>1, <1>6 DEF LoginEnters, WaitInv, Slack, Keys
  <2>2. /\ e.ok \in BOOLEAN /\ LimiterOK(e.limiter)
        /\ Noted(granted, "login", now, e.ok) \in Histories
        /\ AllAligned(e.limiter, Noted(granted, "login", now, e.ok), now)
    <3> HIDE DEF ts
    <3> QED BY <2>1, LimiterParts, EnforcedRule
  <2>3. limiter' = e.limiter /\ Grant(IF e.ok THEN {"login"} ELSE {}) /\ now' = now
    BY <1>6 DEF LoginEnters
  <2> HIDE DEF e
  <2>4. granted' = Noted(granted, "login", now, e.ok)
    BY <2>1, <2>2, <2>3, GrantRule DEF Noted
  <2>5. Rest'
    BY <1>3, <2>2, <2>3, <2>4
  <2>6. /\ waiting' = [waiting EXCEPT ![t] = NotWaiting]
        /\ UNCHANGED <<now, issued, tries, proofUntil, restarts>>
    BY <1>6 DEF LoginEnters
  <2>7. WaitInv' /\ waiting' \in [Threads -> Times \cup {NotWaiting}]
    BY <1>1, <2>6 DEF WaitInv
  <2> QED BY <1>1, <2>5, <2>6, <2>7 DEF LimiterInv, VerificationTypeOK, RestartInv
<1>7. ASSUME NEW c \in Codes, SendCode(c)
      PROVE  LimiterInv'
  <2>1. UNCHANGED <<now, waiting, tries, proofUntil, restarts>>
    BY <1>7 DEF SendCode
  <2>2. Rest'
    BY <1>3, <1>7, <2>1, SendRule
  <2>3. issued' \in [Codes -> Times \cup {NotWaiting, Posting}]
    BY <1>1, <1>7, SendRule
  <2> QED BY <1>1, <2>1, <2>2, <2>3 DEF LimiterInv, VerificationTypeOK, RestartInv, WaitInv
<1>8. ASSUME NEW c \in Codes, CodePosted(c)
      PROVE  LimiterInv'
  <2>1. UNCHANGED <<now, limiter, waiting, granted, tries, proofUntil>>
    BY <1>8 DEF CodePosted
  <2>2. issued' \in [Codes -> Times \cup {NotWaiting, Posting}]
    BY <1>1, <1>8 DEF CodePosted
  <2>3. restarts' \in [Codes \cup {0} -> 0 .. MaxRestarts] /\ RestartInv'
    BY <1>1, <1>2, <1>8 DEF CodePosted, RestartInv
  <2> QED BY <1>1, <2>1, <2>2, <2>3 DEF LimiterInv, VerificationTypeOK, WaitInv
<1>9. ASSUME NEW c \in Codes, NEW right \in BOOLEAN, Verify(c, right)
      PROVE  LimiterInv'
  <2> DEFINE e == Enforced(limiter, "verify", now)
  <2>1. "verify" \in Keys
    BY DEF Keys
  <2>2. /\ e.ok \in BOOLEAN /\ LimiterOK(e.limiter)
        /\ Noted(granted, "verify", now, e.ok) \in Histories
        /\ AllAligned(e.limiter, Noted(granted, "verify", now, e.ok), now)
    BY <2>1, LimiterParts, EnforcedRule
  <2>3. /\ limiter' = e.limiter /\ Grant(IF e.ok THEN {"verify"} ELSE {})
        /\ tries' = [tries EXCEPT ![c] = IF e.ok /\ now < issued[c] + CodeTTL THEN @ + 1 ELSE @]
        /\ proofUntil' = IF e.ok /\ right /\ CheckChallenge(c)
                         THEN now + PhoneProofTTL ELSE proofUntil
        /\ UNCHANGED <<now, waiting, issued, restarts>>
    BY <1>9 DEF Verify
  <2> HIDE DEF e
  <2>4. granted' = Noted(granted, "verify", now, e.ok)
    BY <2>1, <2>2, <2>3, GrantRule DEF Noted
  <2>5. Rest'
    BY <1>3, <2>2, <2>3, <2>4
  <2>6. tries' \in [Codes -> Nat] /\ proofUntil' \in 0 .. MaxTime + PhoneProofTTL
    BY <1>1, <1>2, <2>3
  <2> QED BY <1>1, <2>3, <2>5, <2>6 DEF LimiterInv, VerificationTypeOK, RestartInv, WaitInv
<1>10. CASE Restart
  <2>1. WaitInv' /\ waiting' \in [Threads -> Times \cup {NotWaiting}]
    BY <1>10 DEF Restart, WaitInv
  <2>2. restarts' \in [Codes \cup {0} -> 0 .. MaxRestarts] /\ RestartInv'
    <3>1. /\ restarts' = [c \in Codes \cup {0} |-> restarts[c] + 1]
          /\ restarts[0] < MaxRestarts
      BY <1>10 DEF Restart
    <3>2. \A c \in Codes \cup {0} : restarts[c] \in 0 .. MaxRestarts /\ restarts[c] <= restarts[0]
      BY <1>1 DEF RestartInv
    <3>3. \A c \in Codes \cup {0} : restarts[c] + 1 \in 0 .. MaxRestarts
      BY <1>2, <3>1, <3>2
    <3> QED BY <3>1, <3>2, <3>3 DEF RestartInv
  <2>3. issued' \in [Codes -> Times \cup {NotWaiting, Posting}]
    BY <1>1, <1>10 DEF Restart
  <2>4. Rest'
    <3>1. \A k \in Keys : Limit[k] >= 0 /\ SweepEvery \in Nat \ {0}
      BY NumberRule
    <3>2. /\ limiter' = [bucket |-> [k \in Keys |-> <<>>], calls |-> 0]
          /\ granted' = [k \in Keys |-> <<>>]
      BY <1>10 DEF Restart, Empty
    <3>3. \A k \in Keys : Aligned(k, <<>>, <<>>, now')
      BY DEF Aligned
    <3>4. 0 \in 0 .. SweepEvery - 1 /\ <<>> \in Seq(Times) /\ Len(<<>>) = 0
      BY NumberRule
    <3>5. limiter' \in [bucket : [Keys -> Seq(Times)], calls : 0 .. SweepEvery - 1]
      BY <3>2, <3>4
    <3>6. \A k \in Keys : Len(limiter'.bucket[k]) <= Limit[k]
      BY <3>1, <3>2, <3>4
    <3>7. granted' \in [Keys -> Seq(Times)] /\ AllAligned(limiter', granted', now')
      BY <3>2, <3>3, <3>4 DEF AllAligned
    <3> QED BY <3>5, <3>6, <3>7
  <2>5. UNCHANGED <<now, tries, proofUntil>>
    BY <1>10 DEF Restart
  <2> QED BY <1>1, <2>1, <2>2, <2>3, <2>4, <2>5 DEF LimiterInv, VerificationTypeOK
<1>11. CASE UNCHANGED verificationVars
  BY <1>1, <1>11 DEF verificationVars, LimiterInv, VerificationTypeOK, RestartInv, WaitInv
<1> QED BY <1>4, <1>5, <1>6, <1>7, <1>8, <1>9, <1>10, <1>11 DEF VerificationNext

(* The invariant holds in every state.                                     *)
LEMMA LimiterCorrect == VerificationSpec => []LimiterInv
<1>1. VerificationInit => LimiterInv
  <2> SUFFICES ASSUME VerificationInit PROVE LimiterInv
    OBVIOUS
  <2>1. /\ 0 \in Times /\ 0 \in 0 .. SweepEvery - 1 /\ 0 \in 0 .. MaxTime + PhoneProofTTL
        /\ 0 \in 0 .. MaxRestarts
        /\ <<>> \in Seq(Times) /\ Len(<<>>) = 0 /\ \A k \in Keys : Limit[k] >= 0
    BY NumberRule DEF Times
  <2>2. /\ limiter = [bucket |-> [k \in Keys |-> <<>>], calls |-> 0]
        /\ granted = [k \in Keys |-> <<>>]
    BY DEF VerificationInit, Empty
  <2>3. \A k \in Keys : Aligned(k, <<>>, <<>>, now)
    BY DEF Aligned
  <2>4. AllAligned(limiter, granted, now)
    BY <2>2, <2>3 DEF AllAligned
  <2>5. limiter \in [bucket : [Keys -> Seq(Times)], calls : 0 .. SweepEvery - 1]
    BY <2>1, <2>2
  <2>6. \A k \in Keys : Len(limiter.bucket[k]) <= Limit[k]
    BY <2>1, <2>2
  <2>7. VerificationTypeOK
    BY <2>1, <2>2, <2>5, <2>6 DEF VerificationTypeOK, VerificationInit
  <2> QED BY <2>4, <2>7 DEF LimiterInv, WaitInv, RestartInv, VerificationInit
<1>2. LimiterInv /\ [VerificationNext]_verificationVars => LimiterInv'
  BY LimiterStep
<1> QED BY <1>1, <1>2, PTL DEF VerificationSpec

(* The types hold in every state.                                          *)
THEOREM VerificationTypeCorrect == VerificationSpec => []VerificationTypeOK
<1>1. LimiterInv => VerificationTypeOK
  BY DEF LimiterInv
<1> QED BY <1>1, LimiterCorrect, PTL

(* For any limits and windows, any number of threads and any delay between *)
(* a thread's clock and the lock, no window holds more accepted events     *)
(* than the limit, although the buckets are not in order.                  *)
THEOREM LimitHolds == VerificationSpec => []AtMostLimitPerWindow
<1>1. LimiterInv => AtMostLimitPerWindow
  <2> SUFFICES ASSUME LimiterInv, NEW k \in Keys
               PROVE  Cardinality({i \in DOMAIN granted[k] :
                          granted[k][i] > now - (Window[k] - Slack(k))}) <= Limit[k]
    BY DEF AtMostLimitPerWindow, Slack
  <2> DEFINE b == limiter.bucket[k]
             g == granted[k]
             recent == {i \in DOMAIN g : g[i] > now - (Window[k] - Slack(k))}
  <2>1. /\ b \in Seq(Times) /\ g \in Seq(Times) /\ Len(b) <= Limit[k] /\ Aligned(k, b, g, now)
    BY DEF LimiterInv, VerificationTypeOK, AllAligned
  <2>2. /\ Len(b) \in Nat /\ Len(g) \in Nat /\ DOMAIN g = 1 .. Len(g)
        /\ \A j \in 1 .. Len(g) : g[j] \in Nat
    BY <2>1, ClocksRule
  <2>3. now \in Nat /\ Window[k] \in Nat /\ Slack(k) \in Nat /\ Limit[k] \in Nat
    BY LimiterParts, NumberRule
  <2> HIDE DEF b, g
  <2> DEFINE last == (Len(g) - Len(b) + 1) .. Len(g)
             room == IF Len(b) <= Len(g) THEN last ELSE 1 .. Len(g)
  <2>4. recent \subseteq room
    <3> SUFFICES ASSUME NEW i \in 1 .. Len(g), g[i] > now - (Window[k] - Slack(k)),
                        i \notin room
                 PROVE  FALSE
      BY <2>2
    <3>1. Len(b) <= Len(g) - i
      BY <2>2
    <3>2. g[i] <= now - Window[k] + Slack(k)
      BY <2>1, <3>1 DEF Aligned
    <3>3. g[i] \in Nat
      BY <2>2
    <3> HIDE DEF room
    <3> QED BY <2>3, <3>2, <3>3
  <2>5. IsFiniteSet(room) /\ Cardinality(room) <= Len(b) /\ Cardinality(room) \in Nat
    <3>1. CASE Len(b) <= Len(g)
      <4>1. /\ IsFiniteSet(last)
            /\ Cardinality(last) = IF Len(g) - Len(b) + 1 > Len(g) THEN 0
                                   ELSE Len(g) - (Len(g) - Len(b) + 1) + 1
        <5>1. Len(g) - Len(b) + 1 \in Int /\ Len(g) \in Int
          BY <2>2
        <5> QED BY <5>1, FS_Interval
      <4> HIDE DEF last
      <4> QED BY <2>2, <3>1, <4>1
    <3>2. CASE ~ (Len(b) <= Len(g))
      <4>1. /\ IsFiniteSet(1 .. Len(g))
            /\ Cardinality(1 .. Len(g)) = IF 1 > Len(g) THEN 0 ELSE Len(g) - 1 + 1
        <5>1. 1 \in Int /\ Len(g) \in Int
          BY <2>2
        <5> QED BY <5>1, FS_Interval
      <4> QED BY <2>2, <3>2, <4>1
    <3> QED BY <3>1, <3>2
  <2> HIDE DEF recent, room
  <2>6. IsFiniteSet(recent) /\ Cardinality(recent) <= Cardinality(room) /\ Cardinality(recent) \in Nat
    BY <2>4, <2>5, FS_Subset, FS_CardinalityType
  <2>7. Cardinality(recent) <= Limit[k]
    BY <2>1, <2>2, <2>3, <2>5, <2>6
  <2> QED BY <2>7 DEF recent, g
<1> QED BY <1>1, LimiterCorrect, PTL

-----------------------------------------------------------------------------
(* Codes.                                                                  *)

(* The tries of a code in the present life of the server.                  *)
Recent(c) == tries[c] - Limit["verify"] * restarts[c]

Unexpired(c) == Sent(c) /\ now < issued[c] + CodeTTL

(* While a code is in force, the last events of its window are its tries   *)
(* of this life, so that the limit caps them.                              *)
InForce == \A c \in Codes : Unexpired(c) =>
    /\ Recent(c) <= Len(granted["verify"])
    /\ \A j \in 1 .. Len(granted["verify"]) :
          Len(granted["verify"]) - j < Recent(c) => issued[c] <= granted["verify"][j]

Capped == \A c \in Codes : Unexpired(c) => Recent(c) <= Limit["verify"]

(* A code that was not sent has no tries; the others keep to the limit     *)
(* after they expired.                                                     *)
Counted == \A c \in Codes :
    /\ ~ Sent(c) => tries[c] = 0
    /\ Sent(c) => issued[c] <= now /\ Recent(c) <= Limit["verify"]

(* A proof in force was earned by a code in force.                         *)
ProofInv == proofUntil > 0 =>
    \E c \in Codes : Sent(c) /\ proofUntil < issued[c] + CodeTTL + PhoneProofTTL

(* What a code counts, as numbers.                                         *)
LEMMA CodeNumbers ==
    ASSUME LimiterInv
    PROVE  /\ "verify" \in Keys /\ Window["verify"] = CodeTTL /\ Slack("verify") = 0
           /\ now \in Nat /\ CodeTTL \in Nat /\ PhoneProofTTL \in Nat /\ proofUntil \in Nat
           /\ Limit["verify"] \in Nat
           /\ granted["verify"] \in Seq(Times)
           /\ Len(granted["verify"]) \in Nat
           /\ \A j \in 1 .. Len(granted["verify"]) : granted["verify"][j] \in Nat
           /\ \A c \in Codes : /\ tries[c] \in Nat /\ restarts[c] \in Nat
                               /\ Recent(c) \in Int
                               /\ Sent(c) => issued[c] \in Nat
                               /\ issued[c] # NotWaiting /\ issued[c] # Posting <=> Sent(c)
<1>1. "verify" \in Keys
  BY DEF Keys
<1>2. /\ now \in Times /\ proofUntil \in 0 .. MaxTime + PhoneProofTTL
      /\ granted["verify"] \in Seq(Times)
      /\ tries \in [Codes -> Nat] /\ restarts \in [Codes \cup {0} -> 0 .. MaxRestarts]
      /\ issued \in [Codes -> Times \cup {NotWaiting, Posting}]
  BY <1>1 DEF LimiterInv, VerificationTypeOK
<1>3. Times \subseteq Nat /\ CodeTTL \in Nat /\ PhoneProofTTL \in Nat /\ MaxRestarts \in Nat
      /\ MaxTime \in Nat
  BY NumberRule
<1>4. Limit["verify"] \in Nat
  BY <1>1, NumberRule
<1>5. Len(granted["verify"]) \in Nat
      /\ \A j \in 1 .. Len(granted["verify"]) : granted["verify"][j] \in Nat
  BY <1>2, ClocksRule
<1>6. \A c \in Codes : tries[c] \in Nat /\ restarts[c] \in Nat
                       /\ Limit["verify"] * restarts[c] \in Nat
  BY <1>2, <1>3, <1>4
<1>7. \A c \in Codes : Recent(c) \in Int
  BY <1>6 DEF Recent
<1>8. Window["verify"] = CodeTTL /\ Slack("verify") = 0
  BY <1>1 DEF Window, Slack
<1>9. \A c \in Codes : /\ Sent(c) => issued[c] \in Nat
                       /\ issued[c] # NotWaiting /\ issued[c] # Posting <=> Sent(c)
  BY <1>2, <1>3 DEF Sent
<1> QED BY <1>1, <1>2, <1>3, <1>4, <1>5, <1>6, <1>7, <1>8, <1>9

(* The tries of a code in force are in its bucket, so the limit caps them. *)
LEMMA TriesCapped == LimiterInv /\ InForce => Capped
<1> SUFFICES ASSUME LimiterInv, InForce, NEW c \in Codes, Unexpired(c)
             PROVE  Recent(c) <= Limit["verify"]
  BY DEF Capped
<1> DEFINE b == limiter.bucket["verify"]
           g == granted["verify"]
           m == Recent(c)
<1>1. /\ m \in Int /\ Len(g) \in Nat /\ m <= Len(g) /\ now \in Nat /\ CodeTTL \in Nat
      /\ issued[c] \in Nat /\ now < issued[c] + CodeTTL /\ Limit["verify"] \in Nat
      /\ \A j \in 1 .. Len(g) : Len(g) - j < m => issued[c] <= g[j]
      /\ \A j \in 1 .. Len(g) : g[j] \in Nat
  BY CodeNumbers DEF InForce, Unexpired
<1>2. \A j \in 1 .. Len(g) : Len(b) <= Len(g) - j => g[j] <= now - CodeTTL
  <2>1. \A j \in 1 .. Len(g) : Len(b) <= Len(g) - j
                               => g[j] <= now - Window["verify"] + Slack("verify")
    BY CodeNumbers DEF LimiterInv, AllAligned, Aligned
  <2> QED BY <1>1, <2>1, CodeNumbers
<1>3. Len(b) \in Nat /\ Len(b) <= Limit["verify"]
  BY CodeNumbers DEF LimiterInv, VerificationTypeOK
<1> HIDE DEF b, g
<1>4. ASSUME m > Len(b)
      PROVE  FALSE
  <2> HIDE DEF m
  <2> DEFINE j == Len(g) - Len(b)
  <2>1. j \in 1 .. Len(g) /\ Len(g) - j = Len(b)
    BY <1>1, <1>3, <1>4
  <2>2. Len(b) <= Len(g) - j /\ Len(g) - j < m
    BY <1>1, <1>3, <1>4, <2>1
  <2> HIDE DEF j
  <2>3. issued[c] <= g[j] /\ g[j] <= now - CodeTTL /\ g[j] \in Nat
    BY <1>1, <1>2, <2>1, <2>2
  <2> QED BY <1>1, <2>3
<1> QED BY <1>1, <1>3, <1>4

(* Steps that leave the codes, their tries and their window alone.         *)
LEMMA CodesUntouched ==
    ASSUME LimiterInv, InForce, Counted,
           UNCHANGED <<now, tries, restarts>>, granted'["verify"] = granted["verify"],
           \A c \in Codes : /\ Sent(c)' <=> Sent(c)
                            /\ Sent(c) => issued'[c] = issued[c]
    PROVE  InForce' /\ Counted'
<1>1. \A c \in Codes : Recent(c)' = Recent(c) /\ (Unexpired(c)' <=> Unexpired(c))
  BY DEF Recent, Unexpired
<1>2. InForce'
  BY <1>1 DEF InForce, Unexpired
<1>3. Counted'
  BY <1>1 DEF Counted
<1> QED BY <1>2, <1>3

(* One more try of code c, or of none: the event is the last of the window. *)
LEMMA TryStep ==
    ASSUME LimiterInv, InForce, Counted, NEW c \in Codes, NEW right \in BOOLEAN, Verify(c, right)
    PROVE  /\ InForce'
           /\ \A d \in Codes : Recent(d)' = Recent(d) \/ Unexpired(d)'
           /\ \A d \in Codes : (Sent(d)' <=> Sent(d)) /\ issued'[d] = issued[d]
           /\ \A d \in Codes : ~ Sent(d) => tries'[d] = tries[d]
           /\ now' = now
<1> DEFINE e == Enforced(limiter, "verify", now)
           g == granted["verify"]
           h == granted'["verify"]
<1>1. /\ Sent(c) /\ UNCHANGED <<now, issued, restarts>>
      /\ Grant(IF e.ok THEN {"verify"} ELSE {})
      /\ tries' = [tries EXCEPT ![c] = IF e.ok /\ now < issued[c] + CodeTTL THEN @ + 1 ELSE @]
  BY DEF Verify
<1> HIDE DEF e
<1>2. \A d \in Codes : Sent(d)' <=> Sent(d)
  BY <1>1 DEF Sent
<1>3. \A d \in Codes : Unexpired(d)' <=> Unexpired(d)
  BY <1>1, <1>2 DEF Unexpired
<1>4. tries \in [Codes -> Nat]
  BY DEF LimiterInv, VerificationTypeOK
<1>5. \A d \in Codes : d # c \/ ~ (e.ok /\ Unexpired(c)) => Recent(d)' = Recent(d)
  BY <1>1, <1>4 DEF Recent, Unexpired
<1>6. e.ok /\ Unexpired(c) => Recent(c)' = Recent(c) + 1
  <2> SUFFICES ASSUME e.ok, Unexpired(c) PROVE Recent(c)' = Recent(c) + 1
    OBVIOUS
  <2>1. tries'[c] = tries[c] + 1 /\ restarts' = restarts
    BY <1>1, <1>4 DEF Unexpired
  <2>2. tries[c] \in Nat /\ Limit["verify"] * restarts[c] \in Nat
    <3>1. Limit["verify"] \in Nat /\ restarts[c] \in Nat
      BY CodeNumbers
    <3> QED BY <1>4, <3>1
  <2> QED BY <2>1, <2>2 DEF Recent
<1>7. CASE ~ e.ok
  <2>1. h = g
    BY <1>1, <1>7, CodeNumbers DEF Grant
  <2>2. InForce'
    BY <1>1, <1>3, <1>5, <1>7, <2>1 DEF InForce
  <2> QED BY <1>1, <1>2, <1>5, <1>7, <2>2
<1>8. CASE e.ok
  <2>1. h = Append(g, now)
    BY <1>1, <1>8, CodeNumbers DEF Grant
  <2>2. /\ g \in Seq(Times) /\ Len(g) \in Nat /\ now \in Times /\ now \in Nat
        /\ \A d \in Codes : Recent(d) \in Int /\ (Sent(d) => issued[d] \in Nat)
    BY CodeNumbers, LimiterParts
  <2>3. /\ Len(h) = Len(g) + 1 /\ h[Len(g) + 1] = now
        /\ \A j \in 1 .. Len(g) : h[j] = g[j]
    BY <2>1, <2>2
  <2> HIDE DEF g, h
  <2>4. ASSUME NEW d \in Codes, Unexpired(d)'
        PROVE  /\ Recent(d)' <= Len(h)
               /\ \A j \in 1 .. Len(h) : Len(h) - j < Recent(d)' => issued'[d] <= h[j]
    <3>1. /\ Recent(d) <= Len(g) /\ Recent(d) \in Int
          /\ \A j \in 1 .. Len(g) : Len(g) - j < Recent(d) => issued[d] <= g[j]
      BY <1>3, <2>2, <2>4 DEF InForce, g
    <3>2. Recent(d)' = Recent(d) \/ Recent(d)' = Recent(d) + 1
      BY <1>5, <1>6
    <3>3. Recent(d)' \in Int /\ Recent(d)' <= Recent(d) + 1
      BY <3>1, <3>2
    <3>4. issued'[d] = issued[d] /\ issued[d] <= now
      <4>1. Sent(d) /\ issued'[d] = issued[d]
        BY <1>1, <1>3, <2>4 DEF Unexpired
      <4> QED BY <4>1 DEF Counted
    <3>5. ASSUME NEW j \in 1 .. Len(h), Len(h) - j < Recent(d)'
          PROVE  issued[d] <= h[j]
      <4>1. CASE j \in 1 .. Len(g)
        <5>1. Len(g) - j < Recent(d)
          BY <2>2, <2>3, <3>1, <3>3, <3>5, <4>1
        <5> QED BY <2>3, <3>1, <4>1, <5>1
      <4>2. CASE j = Len(g) + 1
        BY <2>3, <3>4, <4>2
      <4> QED BY <2>2, <2>3, <4>1, <4>2
    <3>6. Recent(d)' <= Len(h)
      BY <2>2, <2>3, <3>1, <3>3
    <3> QED BY <3>4, <3>5, <3>6
  <2>5. InForce'
    BY <2>4 DEF InForce, h
  <2> QED BY <1>1, <1>2, <1>3, <1>5, <2>5
<1> QED BY <1>7, <1>8

(* What the codes count is kept by every step.                             *)
LEMMA CodesStep ==
    ASSUME LimiterInv, LimiterInv', InForce, Counted, [VerificationNext]_verificationVars
    PROVE  InForce' /\ Counted'
<1>1. CASE ClockTicks
  <2> DEFINE g == granted["verify"]
             h == granted'["verify"]
  <2>1. /\ now' = now + 1 /\ h = Drained(g, (now + 1) - CodeTTL)
        /\ UNCHANGED <<limiter, waiting, issued, tries, proofUntil, restarts>>
    BY <1>1, CodeNumbers DEF ClockTicks
  <2>2. /\ g \in Seq(Times) /\ Len(g) \in Nat /\ now \in Nat /\ CodeTTL \in Nat
        /\ \A j \in 1 .. Len(g) : g[j] \in Nat
        /\ \A c \in Codes : Recent(c) \in Int /\ (Sent(c) => issued[c] \in Nat)
    BY CodeNumbers
  <2>3. (now + 1) - CodeTTL \in Int /\ Times \in SUBSET Int
    BY <2>2, NumberRule
  <2>4. PICK n \in 0 .. Len(g) :
           /\ Len(h) = Len(g) - n
           /\ \A i \in 1 .. Len(g) - n : h[i] = g[i + n]
           /\ \A i \in 1 .. n : g[i] <= (now + 1) - CodeTTL
    <3> HIDE DEF g, h
    <3> QED BY <2>1, <2>2, <2>3, DrainedRule
  <2> HIDE DEF g, h
  <2>5. \A c \in Codes : /\ Recent(c)' = Recent(c) /\ (Sent(c)' <=> Sent(c))
                         /\ issued'[c] = issued[c] /\ tries'[c] = tries[c]
    BY <2>1 DEF Recent, Sent
  <2>6. ASSUME NEW c \in Codes, Unexpired(c)'
        PROVE  /\ Recent(c) <= Len(h)
               /\ \A j \in 1 .. Len(h) : Len(h) - j < Recent(c) => issued[c] <= h[j]
    <3>1. Sent(c) /\ now + 1 < issued[c] + CodeTTL /\ issued[c] \in Nat
      BY <2>1, <2>2, <2>5, <2>6 DEF Unexpired
    <3>2. Unexpired(c)
      BY <2>2, <3>1 DEF Unexpired
    <3>3. /\ Recent(c) <= Len(g) /\ Recent(c) \in Int
          /\ \A j \in 1 .. Len(g) : Len(g) - j < Recent(c) => issued[c] <= g[j]
      BY <2>2, <3>2 DEF InForce, g
    <3>4. Recent(c) <= Len(h)
      <4> SUFFICES ASSUME ~ (Recent(c) <= Len(h)) PROVE FALSE
        OBVIOUS
      <4>1. n \in 1 .. Len(g) /\ Len(g) - n < Recent(c)
        BY <2>2, <2>4, <3>3
      <4>2. issued[c] <= g[n] /\ g[n] <= (now + 1) - CodeTTL /\ g[n] \in Nat
        BY <2>2, <2>4, <3>3, <4>1
      <4> QED BY <2>2, <3>1, <4>2
    <3>5. ASSUME NEW j \in 1 .. Len(h), Len(h) - j < Recent(c)
          PROVE  issued[c] <= h[j]
      <4>1. j + n \in 1 .. Len(g) /\ Len(g) - (j + n) < Recent(c) /\ h[j] = g[j + n]
        BY <2>2, <2>4, <3>5
      <4> QED BY <3>3, <4>1
    <3> QED BY <3>4, <3>5
  <2>7. InForce'
    BY <2>5, <2>6 DEF InForce, h
  <2>8. Counted'
    <3>1. \A c \in Codes : Sent(c) => issued[c] <= now + 1
      BY <2>2 DEF Counted
    <3> QED BY <2>1, <2>5, <3>1 DEF Counted
  <2> QED BY <2>7, <2>8
<1>2. ASSUME NEW t \in Threads, LoginReadsClock(t) \/ LoginEnters(t)
      PROVE  InForce' /\ Counted'
  <2>1. UNCHANGED <<now, issued, tries, restarts>>
    BY <1>2 DEF LoginReadsClock, LoginEnters, history
  <2>2. granted'["verify"] = granted["verify"]
    BY <1>2 DEF LoginReadsClock, LoginEnters, history, Grant, Keys
  <2> QED BY <2>1, <2>2, CodesUntouched DEF Sent
<1>3. ASSUME NEW c \in Codes, SendCode(c)
      PROVE  InForce' /\ Counted'
  <2>1. UNCHANGED <<now, tries, restarts>> /\ issued[c] = NotWaiting
    BY <1>3 DEF SendCode
  <2>2. /\ granted'["verify"] = granted["verify"]
        /\ issued' = issued \/ issued' = [issued EXCEPT ![c] = Posting]
    BY <1>3, SendRule
  <2>3. \A d \in Codes : (Sent(d)' <=> Sent(d)) /\ (Sent(d) => issued'[d] = issued[d])
    BY <2>1, <2>2 DEF Sent, LimiterInv, VerificationTypeOK
  <2> QED BY <2>1, <2>2, <2>3, CodesUntouched
<1>4. ASSUME NEW c \in Codes, CodePosted(c)
      PROVE  InForce' /\ Counted'
  <2>1. /\ UNCHANGED <<now, granted, tries>>
        /\ restarts' = [restarts EXCEPT ![c] = 0]
        /\ \A d \in Codes \ {c} : issued'[d] = issued[d] /\ restarts'[d] = restarts[d]
        /\ issued'[c] \in {now, NotWaiting} /\ restarts'[c] = 0 /\ ~ Sent(c)
    BY <1>4 DEF CodePosted, Sent, LimiterInv, VerificationTypeOK
  <2>2. \A d \in Codes \ {c} : /\ Recent(d)' = Recent(d) /\ (Sent(d)' <=> Sent(d))
                               /\ (Unexpired(d)' <=> Unexpired(d))
    BY <2>1 DEF Recent, Sent, Unexpired
  <2>3. Recent(c)' = 0
    <3>1. tries'[c] = 0 /\ Limit["verify"] \in Nat
      BY <2>1, CodeNumbers DEF Counted
    <3> QED BY <2>1, <3>1 DEF Recent
  <2>4. Len(granted["verify"]) \in Nat /\ Limit["verify"] \in Nat /\ now \in Nat
    BY CodeNumbers
  <2>5. InForce'
    <3>1. ASSUME NEW d \in Codes, Unexpired(d)', d # c
          PROVE  /\ Recent(d)' <= Len(granted'["verify"])
                 /\ \A j \in 1 .. Len(granted'["verify"]) :
                       Len(granted'["verify"]) - j < Recent(d)' => issued'[d] <= granted'["verify"][j]
      BY <2>1, <2>2, <3>1 DEF InForce
    <3>2. /\ Recent(c)' <= Len(granted'["verify"])
          /\ \A j \in 1 .. Len(granted'["verify"]) :
                Len(granted'["verify"]) - j < Recent(c)' => issued'[c] <= granted'["verify"][j]
      BY <2>1, <2>3, <2>4
    <3> QED BY <3>1, <3>2 DEF InForce
  <2>6. Counted'
    <3>1. ASSUME NEW d \in Codes, d # c
          PROVE  /\ ~ Sent(d)' => tries'[d] = 0
                 /\ Sent(d)' => issued'[d] <= now' /\ Recent(d)' <= Limit["verify"]
      BY <2>1, <2>2, <3>1 DEF Counted
    <3>2. tries'[c] = 0
      BY <2>1 DEF Counted
    <3>3. Sent(c)' => issued'[c] <= now'
      BY <2>1, <2>4 DEF Sent
    <3> QED BY <2>3, <2>4, <3>1, <3>2, <3>3 DEF Counted
  <2> QED BY <2>5, <2>6
<1>5. ASSUME NEW c \in Codes, NEW right \in BOOLEAN, Verify(c, right)
      PROVE  InForce' /\ Counted'
  <2>1. /\ InForce'
        /\ \A d \in Codes : Recent(d)' = Recent(d) \/ Unexpired(d)'
        /\ \A d \in Codes : (Sent(d)' <=> Sent(d)) /\ issued'[d] = issued[d]
        /\ \A d \in Codes : ~ Sent(d) => tries'[d] = tries[d]
        /\ now' = now
    BY <1>5, TryStep
  <2>2. Capped'
    BY <2>1, TriesCapped, PTL
  <2>3. ASSUME NEW d \in Codes, Sent(d)'
        PROVE  Recent(d)' <= Limit["verify"]
    BY <2>1, <2>2, <2>3 DEF Capped, Counted
  <2>4. Counted'
    BY <2>1, <2>3 DEF Counted
  <2> QED BY <2>1, <2>4
<1>6. CASE Restart
  <2>1. /\ UNCHANGED <<now, tries>> /\ granted' = [k \in Keys |-> <<>>]
        /\ restarts' = [c \in Codes \cup {0} |-> restarts[c] + 1]
        /\ issued' = [c \in Codes |-> IF issued[c] = Posting THEN NotWaiting ELSE issued[c]]
    BY <1>6 DEF Restart
  <2>2. granted'["verify"] = <<>> /\ Len(<<>>) = 0
    BY <2>1, CodeNumbers
  <2>3. ASSUME NEW c \in Codes
        PROVE  /\ Recent(c)' = Recent(c) - Limit["verify"]
               /\ Recent(c) \in Int /\ Limit["verify"] \in Nat
    <3>1. restarts'[c] = restarts[c] + 1 /\ tries' = tries
      BY <2>1
    <3>2. tries[c] \in Nat /\ restarts[c] \in Nat /\ Limit["verify"] \in Nat /\ Recent(c) \in Int
      BY CodeNumbers
    <3>3. Limit["verify"] * (restarts[c] + 1) = Limit["verify"] * restarts[c] + Limit["verify"]
      BY <3>2
    <3>4. Limit["verify"] * restarts[c] \in Nat
      BY <3>2
    <3> QED BY <3>1, <3>2, <3>3, <3>4 DEF Recent
  <2>4. \A c \in Codes : (Sent(c)' <=> Sent(c)) /\ (Sent(c) => issued'[c] = issued[c])
    BY <2>1 DEF Sent
  <2>5. \A c \in Codes : Sent(c) => Recent(c)' <= 0
    BY <2>3 DEF Counted
  <2>6. InForce'
    BY <2>2, <2>4, <2>5 DEF InForce, Unexpired
  <2>7. \A c \in Codes : Sent(c) => Recent(c)' <= Limit["verify"]
    BY <2>3 DEF Counted
  <2>8. Counted'
    BY <2>1, <2>4, <2>7 DEF Counted
  <2> QED BY <2>6, <2>8
<1>7. CASE UNCHANGED verificationVars
  BY <1>7, CodesUntouched DEF verificationVars, Sent
<1> QED BY <1>1, <1>2, <1>3, <1>4, <1>5, <1>6, <1>7 DEF VerificationNext

(* A proof of the phone comes from a code that is not expired, and codes   *)
(* that were sent stay sent.                                               *)
LEMMA ProofStep ==
    ASSUME LimiterInv, ProofInv, [VerificationNext]_verificationVars
    PROVE  ProofInv'
<1>1. ASSUME NEW c \in Codes, NEW right \in BOOLEAN, Verify(c, right)
      PROVE  ProofInv'
  <2>1. /\ Sent(c) /\ UNCHANGED <<now, issued>>
        /\ \/ proofUntil' = proofUntil
           \/ now < issued[c] + CodeTTL /\ proofUntil' = now + PhoneProofTTL
    <3> DEFINE earned == Enforced(limiter, "verify", now).ok /\ right /\ CheckChallenge(c)
    <3>1. /\ Sent(c) /\ UNCHANGED <<now, issued>>
          /\ proofUntil' = IF earned THEN now + PhoneProofTTL ELSE proofUntil
      BY <1>1 DEF Verify
    <3>2. earned => now < issued[c] + CodeTTL
      BY DEF CheckChallenge
    <3> HIDE DEF earned
    <3> QED BY <3>1, <3>2
  <2>2. \A d \in Codes : Sent(d)' <=> Sent(d)
    BY <2>1 DEF Sent
  <2>3. CASE proofUntil' = proofUntil
    BY <2>1, <2>2, <2>3 DEF ProofInv
  <2>4. CASE now < issued[c] + CodeTTL /\ proofUntil' = now + PhoneProofTTL
    <3>1. /\ now \in Nat /\ issued[c] \in Nat /\ CodeTTL \in Nat /\ PhoneProofTTL \in Nat
          /\ issued'[c] = issued[c] /\ Sent(c)'
      BY <2>1, <2>2, CodeNumbers
    <3>2. proofUntil' < issued'[c] + CodeTTL + PhoneProofTTL
      BY <2>4, <3>1
    <3> QED BY <3>1, <3>2 DEF ProofInv
  <2> QED BY <2>1, <2>3, <2>4
<1>2. ASSUME proofUntil' = proofUntil,
             \A d \in Codes : Sent(d) => Sent(d)' /\ issued'[d] = issued[d]
      PROVE  ProofInv'
  BY <1>2 DEF ProofInv
<1>3. ASSUME NEW c \in Codes, SendCode(c) \/ CodePosted(c)
      PROVE  ProofInv'
  <2>1. proofUntil' = proofUntil /\ ~ Sent(c)
    BY <1>3 DEF SendCode, CodePosted, Sent
  <2>2. \A d \in Codes \ {c} : issued'[d] = issued[d]
    BY <1>3, SendRule DEF CodePosted, LimiterInv, VerificationTypeOK
  <2> QED BY <1>2, <2>1, <2>2 DEF Sent
<1>4. CASE Restart
  <2>1. \A d \in Codes : Sent(d) => Sent(d)' /\ issued'[d] = issued[d]
    BY <1>4 DEF Restart, Sent
  <2> QED BY <1>2, <1>4, <2>1 DEF Restart
<1>5. CASE UNCHANGED <<proofUntil, issued>>
  BY <1>2, <1>5 DEF Sent
<1> QED BY <1>1, <1>3, <1>4, <1>5
        DEF VerificationNext, ClockTicks, LoginReadsClock, LoginEnters, verificationVars

(* For any limits, lifetimes and windows: a code is tried at most the limit *)
(* of times per life of the server while it is in force, and a proof of    *)
(* the phone is as fresh as the lifetimes of code and proof allow.         *)
THEOREM CodesProve == VerificationSpec => []CodesProvePhone
<1>1. VerificationInit => InForce /\ Counted /\ ProofInv
  <2> SUFFICES ASSUME VerificationInit PROVE InForce /\ Counted /\ ProofInv
    OBVIOUS
  <2>1. \A c \in Codes : ~ Sent(c) /\ tries[c] = 0
    BY DEF VerificationInit, Sent
  <2>2. ~ (proofUntil > 0)
    BY DEF VerificationInit
  <2> QED BY <2>1, <2>2 DEF InForce, Unexpired, Counted, ProofInv
<1>2. LimiterInv /\ LimiterInv' /\ InForce /\ Counted /\ ProofInv
      /\ [VerificationNext]_verificationVars => InForce' /\ Counted' /\ ProofInv'
  BY CodesStep, ProofStep
<1>3. LimiterInv /\ Counted /\ ProofInv => CodesProvePhone
  <2> SUFFICES ASSUME LimiterInv, Counted, ProofInv PROVE CodesProvePhone
    OBVIOUS
  <2>1. TriesPerCode
    <3> SUFFICES ASSUME NEW c \in Codes, Sent(c)
                 PROVE  tries[c] <= Limit["verify"] * (restarts[c] + 1)
      BY DEF TriesPerCode
    <3>1. /\ tries[c] \in Nat /\ restarts[c] \in Nat /\ Limit["verify"] \in Nat
          /\ tries[c] - Limit["verify"] * restarts[c] <= Limit["verify"]
      BY CodeNumbers DEF Counted, Recent
    <3>2. Limit["verify"] * (restarts[c] + 1) = Limit["verify"] * restarts[c] + Limit["verify"]
      BY <3>1
    <3>3. Limit["verify"] * restarts[c] \in Nat
      BY <3>1
    <3> QED BY <3>1, <3>2, <3>3
  <2>2. ProofIsFresh
    <3> SUFFICES ASSUME proofUntil > now
                 PROVE  \E c \in Codes : Sent(c) /\ now < issued[c] + CodeTTL + PhoneProofTTL
      BY DEF ProofIsFresh
    <3>1. proofUntil > 0 /\ now \in Nat /\ proofUntil \in Nat /\ CodeTTL \in Nat
          /\ PhoneProofTTL \in Nat
      BY CodeNumbers
    <3>2. PICK c \in Codes : Sent(c) /\ proofUntil < issued[c] + CodeTTL + PhoneProofTTL
      BY <3>1 DEF ProofInv
    <3>3. issued[c] \in Nat
      BY <3>2, CodeNumbers
    <3> QED BY <3>1, <3>2, <3>3
  <2> QED BY <2>1, <2>2 DEF CodesProvePhone
<1> QED BY <1>1, <1>2, <1>3, LimiterCorrect, PTL DEF VerificationSpec
=============================================================================

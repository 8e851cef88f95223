-------------------------- MODULE PollTimingProofs --------------------------
(***************************************************************************)
(* Proofs about PollTiming for every configuration the runner accepts.     *)
(* TypeOK says that the schedule never leaves Interval..MaxInterval, which *)
(* is why doubling cannot overflow. The other results need to know what    *)
(* the two halves of the streak (stableSince and the last failure) have to *)
(* do with each other and with the clock.                                  *)
(***************************************************************************)
EXTENDS PollTiming, TLAPS

(* stableSince is the first success after the last failure, and both lie   *)
(* in the past.                                                            *)
StreakInv ==
  /\ lastBad <= now
  /\ stableSince <= now
  /\ stableSince # Unset => lastBad <= stableSince /\ failures = 0
  /\ stableSince = Unset => consecutive = 0

(* What a satisfied run had when it completed. *)
OutcomeInv ==
  /\ ~ ctxDone => now <= Timeout
  /\ outcome = "satisfied" =>
       /\ phase = "done"
       /\ ~ ctxDone
       /\ stableSince # Unset
       /\ now - stableSince >= StableFor

IInv == TypeOK /\ StreakInv /\ OutcomeInv

(* Doubling stays within the maximum and never shrinks the interval. *)
LEMMA ExponentialBounds ==
  ASSUME NEW max \in Nat, max <= MaxDuration, MaxDuration \in Nat, NEW c \in 1..max
  PROVE  NextExponentialInterval(c, max) \in c..max
BY DEF NextExponentialInterval, Least, Wrap

(* The schedule stays within its range. *)
LEMMA CurrentInRange ==
  ASSUME TimingAssumption, current \in Interval..MaxInterval, NEW success \in BOOLEAN
  PROVE  NextCurrent(success) \in Interval..MaxInterval
PROOF
<1>1. MaxInterval \in Nat /\ MaxInterval <= MaxDuration /\ current \in 1..MaxInterval
  BY DEF TimingAssumption, MaxInterval
<1>2. NextExponentialInterval(current, MaxInterval) \in current..MaxInterval
  BY <1>1, ExponentialBounds DEF TimingAssumption
<1>. QED
  BY <1>1, <1>2 DEF NextCurrent, TimingAssumption

(* Every jittered wait is a positive duration, whatever the random factor. *)
LEMMA JitteredPositive ==
  ASSUME TimingAssumption, NEW d \in Nat \ {0}, NEW w \in Jittered(d)
  PROVE  w \in Nat \ {0}
BY DEF Jittered, Greatest, TimingAssumption

(* The invariant holds before the first poll. *)
LEMMA InitIInv ==
  ASSUME TimingAssumption, Init
  PROVE  IInv
PROOF
<1>1. Interval \in Interval..MaxInterval
  BY DEF TimingAssumption, MaxInterval
<1>2. TypeOK
  BY <1>1 DEF Init, TypeOK
<1>3. StreakInv /\ OutcomeInv
  BY DEF TimingAssumption, Init, StreakInv, OutcomeInv, Unset
<1>. QED
  BY <1>2, <1>3 DEF IInv

(* The whole of a judged check: types, streak and outcome. *)
LEMMA CheckStep ==
  ASSUME TimingAssumption, IInv,
         NEW answer \in {"satisfied", "unsatisfied", "expired"}, CheckReturns(answer)
  PROVE  IInv'
PROOF
<1> USE DEF IInv, CheckReturns, ApplyStability, Unset
<1>1. current' \in Interval..MaxInterval
  BY CurrentInRange DEF TypeOK, schedule
<1>2. timer' \in Nat
  <2>1. WaitInterval(answer = "satisfied") \in Nat \ {0}
    BY DEF WaitInterval, TypeOK, TimingAssumption
  <2>. QED
    BY <2>1, JitteredPositive DEF TypeOK, schedule
<1>3. TypeOK'
  BY <1>1, <1>2 DEF TypeOK, schedule
<1>4. StreakInv'
  BY DEF TypeOK, StreakInv
<1>5. OutcomeInv'
  BY DEF TypeOK, StreakInv, OutcomeInv, Judged, StabilitySatisfied, TimingAssumption
<1>. QED
  BY <1>3, <1>4, <1>5

(* IInv is an inductive invariant. *)
THEOREM Invariance == Spec => []IInv
PROOF
<1>1. Init => IInv
  BY InitIInv, TimingAssumption
<1>2. ASSUME IInv, [Next]_vars PROVE IInv'
  <2> USE <1>2, TimingAssumption
      DEF IInv, TypeOK, StreakInv, OutcomeInv, vars, schedule, progress, history
  <2>1. CASE StartCheck
    BY <2>1 DEF StartCheck
  <2>2. ASSUME NEW answer \in {"satisfied", "unsatisfied", "expired"}, CheckReturns(answer)
        PROVE  IInv'
    BY <2>2, CheckStep
  <2>3. CASE CheckDiscarded
    BY <2>3 DEF CheckDiscarded
  <2>4. CASE TimerFires
    BY <2>4 DEF TimerFires
  <2>5. CASE AbandonWait
    BY <2>5 DEF AbandonWait
  <2>6. CASE DeadlineFires
    BY <2>6 DEF DeadlineFires
  <2>7. CASE BackendSettles
    BY <2>7 DEF BackendSettles
  <2>8. CASE Tick
    BY <2>8 DEF Tick, MayPass, TimingAssumption, Unset
  <2>9. CASE Stopped
    BY <2>9 DEF Stopped
  <2>10. CASE UNCHANGED vars
    BY <2>10
  <2>. QED
    BY <2>1, <2>2, <2>3, <2>4, <2>5, <2>6, <2>7, <2>8, <2>9, <2>10 DEF Next
<1>. QED
  BY <1>1, <1>2, PTL DEF Spec

(* The schedule never leaves Interval..MaxInterval and no timer is set in  *)
(* the past, for every interval up to the largest duration.                *)
THEOREM TypeCorrect == Spec => []TypeOK
PROOF
<1>1. IInv => TypeOK
  BY DEF IInv
<1>. QED
  BY <1>1, Invariance, PTL

(* A run is satisfied only after StableFor without a failed check. *)
THEOREM StretchIsStable == Spec => []StableStretch
PROOF
<1>1. IInv => StableStretch
  BY TimingAssumption
     DEF IInv, TypeOK, StreakInv, OutcomeInv, StableStretch, TimingAssumption, Unset
<1>. QED
  BY <1>1, Invariance, PTL

(* No answer after the deadline satisfies a run. *)
THEOREM NoLateSuccess == Spec => []SatisfiedInTime
PROOF
<1>1. IInv => SatisfiedInTime
  BY DEF IInv, OutcomeInv, SatisfiedInTime
<1>. QED
  BY <1>1, Invariance, PTL
-----------------------------------------------------------------------------
(* Backoff. The schedule is at the doubled interval, or at the maximum,    *)
(* which halving an odd number lets it reach one early.                    *)
BackoffInv ==
  phase # "done" =>
    IF Backoff = "constant" THEN current = Interval
    ELSE \/ current = doubled /\ doubled <= MaxInterval
         \/ current = MaxInterval /\ MaxInterval <= doubled + 1

LEMMA Doubling ==
  ASSUME NEW max \in Nat, max <= MaxDuration, MaxDuration \in Nat, NEW c \in Nat, NEW d \in Nat,
         (c = d /\ d <= max) \/ (c = max /\ max <= d + 1)
  PROVE  LET next == NextExponentialInterval(c, max) IN
         (next = 2 * d /\ 2 * d <= max) \/ (next = max /\ max <= 2 * d + 1)
<1>1. CASE c >= max \div 2
  <2>1. NextExponentialInterval(c, max) = max
    BY <1>1 DEF NextExponentialInterval
  <2>2. max <= 2 * d + 1
    BY <1>1
  <2> QED
    BY <2>1, <2>2
<1>2. CASE ~ (c >= max \div 2)
  <2>1. c = d /\ 2 * d <= max /\ c * 2 = 2 * d
    BY <1>2
  <2>2. NextExponentialInterval(c, max) = 2 * d
    BY <1>2, <2>1 DEF NextExponentialInterval, Wrap, Least
  <2> QED
    BY <2>1, <2>2
<1> QED
  BY <1>1, <1>2

(* Every check moves the schedule as it moves the history.                 *)
LEMMA BackoffStep ==
  ASSUME TimingAssumption, IInv, BackoffInv,
         NEW answer \in {"satisfied", "unsatisfied", "expired"}, CheckReturns(answer)
  PROVE  BackoffInv'
<1> DEFINE success == answer = "satisfied"
<1>1. /\ MaxInterval \in Nat /\ MaxInterval <= MaxDuration /\ MaxDuration \in Nat
      /\ Interval \in Nat /\ Interval <= MaxInterval
      /\ current \in Nat /\ doubled \in Nat /\ phase = "check"
      /\ Backoff \in {"constant", "exponential"}
  BY DEF TimingAssumption, MaxInterval, IInv, TypeOK, CheckReturns, Judged
<1>2. /\ phase' = "done" \/ current' = NextCurrent(success)
      /\ doubled' = IF success THEN Interval ELSE 2 * doubled
  BY DEF CheckReturns
<1>3. CASE phase' = "done"
  BY <1>3 DEF BackoffInv
<1>4. CASE phase' # "done" /\ success
  <2>1. current' = Interval /\ doubled' = Interval
    BY <1>2, <1>4 DEF NextCurrent
  <2> QED
    BY <1>1, <2>1 DEF BackoffInv
<1>5. CASE phase' # "done" /\ ~ success /\ Backoff = "constant"
  <2>1. current' = current /\ current = Interval
    BY <1>1, <1>2, <1>5 DEF NextCurrent, BackoffInv
  <2> QED
    BY <1>5, <2>1 DEF BackoffInv
<1>6. CASE phase' # "done" /\ ~ success /\ Backoff = "exponential"
  <2>1. current' = NextExponentialInterval(current, MaxInterval) /\ doubled' = 2 * doubled
    BY <1>2, <1>6 DEF NextCurrent
  <2>2. \/ current = doubled /\ doubled <= MaxInterval
        \/ current = MaxInterval /\ MaxInterval <= doubled + 1
    BY <1>1, <1>6 DEF BackoffInv
  <2>3. \/ current' = 2 * doubled /\ 2 * doubled <= MaxInterval
        \/ current' = MaxInterval /\ MaxInterval <= 2 * doubled + 1
    BY <1>1, <2>1, <2>2, Doubling
  <2> QED
    BY <1>6, <2>1, <2>3 DEF BackoffInv
<1> QED
  BY <1>1, <1>3, <1>4, <1>5, <1>6

(* However many checks fail, the interval is doubled for each of them up   *)
(* to the maximum, without overflow, and a success brings it back, for     *)
(* every interval and maximum (pollSchedule, nextExponentialInterval).     *)
THEOREM BackoffIsExact == Spec => []BackoffFollowsFailures
<1>1. Init => BackoffInv
  BY TimingAssumption DEF Init, BackoffInv, TimingAssumption, MaxInterval
<1>2. ASSUME IInv, BackoffInv, [Next]_vars PROVE BackoffInv'
  <2>1. ASSUME NEW answer \in {"satisfied", "unsatisfied", "expired"}, CheckReturns(answer)
        PROVE  BackoffInv'
    BY <1>2, <2>1, BackoffStep, TimingAssumption
  <2>2. ASSUME UNCHANGED <<current, doubled>>, phase' # "done" => phase # "done" PROVE BackoffInv'
    BY <1>2, <2>2 DEF BackoffInv
  <2>3. CASE StartCheck \/ CheckDiscarded \/ TimerFires \/ AbandonWait
    BY <2>2, <2>3 DEF StartCheck, CheckDiscarded, TimerFires, AbandonWait, schedule, history
  <2>4. CASE DeadlineFires \/ BackendSettles \/ Tick \/ Stopped \/ UNCHANGED vars
    BY <2>2, <2>4 DEF DeadlineFires, BackendSettles, Tick, Stopped, vars, schedule, history
  <2> QED
    BY <1>2, <2>1, <2>3, <2>4 DEF Next
<1>3. IInv /\ BackoffInv => BackoffFollowsFailures
  BY TimingAssumption
     DEF IInv, TypeOK, BackoffInv, BackoffFollowsFailures, Least, TimingAssumption, MaxInterval
<1> QED
  BY <1>1, <1>2, <1>3, Invariance, PTL DEF Spec
-----------------------------------------------------------------------------
(* Detection. The longest wait after a success, and after anything.        *)
BaseWait == Greatest(High(Interval), 1)
LongWait == Greatest(High(MaxInterval), 1)

(* No phase takes longer than it may.                                      *)
PhaseInv ==
  /\ since <= now
  /\ steady # Unset => steady <= now
  /\ phase = "poll" => now = since
  /\ phase = "check" => now <= since + CheckBudget
  /\ phase = "wait" => now <= timer /\ timer <= since + LongWait

(* By when the first check on the steady backend has begun and is over.    *)
FirstBegun == steady + MaxLatency + LongWait
FirstOver == FirstBegun + GoodLatency

(* The last check succeeded on the steady backend, at time t. The streak   *)
(* lacks successes, and has got one in every round, or else time.          *)
StreakAt(t) ==
  /\ consecutive >= 1 /\ stableSince # Unset /\ stableSince <= FirstOver
  /\ consecutive < RequiredSuccesses => t <= FirstOver + (consecutive - 1) * Round
  /\ consecutive >= RequiredSuccesses => StableFor > 0 /\ t < stableSince + StableFor

BeginsBy(t) == t <= FirstBegun \/ StreakAt(t - BaseWait)

DetectInv ==
  /\ PhaseInv
  /\ (steady # Unset /\ ~ ctxDone) =>
       /\ phase = "poll" => BeginsBy(since)
       /\ phase = "check" => since < steady \/ BeginsBy(since)
       /\ phase = "wait" =>
            (timer <= FirstBegun \/ (StreakAt(since) /\ timer <= since + BaseWait))
       /\ phase = "done" => now <= steady + DetectionBound

LEMMA ProductGrows ==
  ASSUME NEW a \in Nat, NEW b \in Nat, NEW r \in Nat, a <= b
  PROVE  a * r \in Nat /\ b * r \in Nat /\ a * r <= b * r
<1>1. b * r = a * r + (b - a) * r /\ (b - a) * r \in Nat /\ a * r \in Nat
  OBVIOUS
<1> QED
  BY <1>1

(* A longer interval has longer waits.                                     *)
LEMMA HighGrows ==
  ASSUME NEW a \in Nat, NEW b \in Nat, a <= b
  PROVE  High(a) \in Nat /\ High(b) \in Nat /\ High(a) <= High(b)
<1>1. Jitter \in Nat /\ 100 + Jitter \in Nat
  BY TimingAssumption DEF TimingAssumption
<1>2. a * (100 + Jitter) \in Nat /\ b * (100 + Jitter) \in Nat
      /\ a * (100 + Jitter) <= b * (100 + Jitter)
  BY <1>1, ProductGrows
<1> QED
  BY <1>2 DEF High

LEMMA JitteredIsShort ==
  ASSUME NEW d \in Nat \ {0}, NEW w \in Jittered(d)
  PROVE  w \in Nat /\ w <= Greatest(High(d), 1)
<1>1. CASE Jitter = 0
  BY <1>1 DEF Jittered, High, Greatest
<1>2. CASE Jitter # 0
  <2>1. PICK j \in (d * (100 - Jitter)) \div 100 .. (d * (100 + Jitter)) \div 100 : w = Greatest(j, 1)
    BY <1>2 DEF Jittered
  <2>2. High(d) \in Nat /\ j <= High(d) /\ j \in Int
    BY <2>1, HighGrows DEF High
  <2> QED
    BY <2>1, <2>2 DEF Greatest
<1> QED
  BY <1>1, <1>2

LEMMA WaitsAreShort ==
  /\ BaseWait \in Nat \ {0} /\ LongWait \in Nat \ {0} /\ BaseWait <= LongWait
  /\ \A d \in Interval..MaxInterval : \A w \in Jittered(d) : w \in Nat /\ w <= LongWait
  /\ \A w \in Jittered(Interval) : w \in Nat /\ w <= BaseWait
<1>1. Interval \in Nat \ {0} /\ MaxInterval \in Nat /\ Interval <= MaxInterval
  BY TimingAssumption DEF TimingAssumption, MaxInterval
<1>2. /\ High(Interval) \in Nat /\ High(MaxInterval) \in Nat
      /\ High(Interval) <= High(MaxInterval)
  BY <1>1, HighGrows
<1>3. /\ BaseWait \in Nat \ {0} /\ LongWait \in Nat \ {0} /\ BaseWait <= LongWait
  BY <1>2 DEF BaseWait, LongWait, Greatest
<1>4. ASSUME NEW d \in Interval..MaxInterval, NEW w \in Jittered(d)
      PROVE  w \in Nat /\ w <= LongWait
  <2>1. d \in Nat \ {0} /\ d <= MaxInterval
    BY <1>1
  <2>2. w \in Nat /\ w <= Greatest(High(d), 1)
    BY <2>1, JitteredIsShort
  <2>3. High(d) \in Nat /\ High(d) <= High(MaxInterval)
    BY <1>1, <2>1, HighGrows
  <2> QED
    BY <1>2, <2>2, <2>3 DEF LongWait, Greatest
<1>5. ASSUME NEW w \in Jittered(Interval)
      PROVE  w \in Nat /\ w <= BaseWait
  BY <1>1, JitteredIsShort DEF BaseWait
<1> QED
  BY <1>3, <1>4, <1>5

(* The constants and the state, as the arithmetic below needs them.        *)
LEMMA Numbers ==
  ASSUME TypeOK
  PROVE  /\ MaxLatency \in Nat /\ GoodLatency \in Nat /\ GoodLatency <= MaxLatency
         /\ RequiredSuccesses \in Nat \ {0} /\ StableFor \in Nat
         /\ BaseWait \in Nat \ {0} /\ LongWait \in Nat \ {0} /\ BaseWait <= LongWait
         /\ Round \in Nat /\ Round = BaseWait + GoodLatency
         /\ consecutive \in Nat /\ now \in Nat /\ since \in Nat /\ timer \in Nat
         /\ steady # Unset => steady \in Nat /\ FirstBegun \in Nat /\ FirstOver \in Nat
<1>1. /\ MaxLatency \in Nat /\ GoodLatency \in Nat /\ GoodLatency <= MaxLatency
      /\ RequiredSuccesses \in Nat \ {0} /\ StableFor \in Nat
  BY TimingAssumption DEF TimingAssumption, RequiredSuccesses
<1>2. BaseWait \in Nat \ {0} /\ LongWait \in Nat \ {0} /\ BaseWait <= LongWait
  BY WaitsAreShort
<1>3. Round = BaseWait + GoodLatency
  BY DEF Round, BaseWait
<1> QED
  BY <1>1, <1>2, <1>3 DEF TypeOK, FirstBegun, FirstOver, Unset

LEMMA BoundIsLater ==
  ASSUME TypeOK, steady # Unset
  PROVE  /\ steady + DetectionBound \in Nat
         /\ FirstOver <= steady + DetectionBound
         /\ FirstOver + (RequiredSuccesses - 1) * Round <= steady + DetectionBound
         /\ StableFor > 0 => FirstOver + StableFor + Round <= steady + DetectionBound
<1>1. RequiredSuccesses - 1 \in Nat /\ Round \in Nat /\ StableFor \in Nat
  BY Numbers
<1>2. (RequiredSuccesses - 1) * Round \in Nat
  BY <1>1, ProductGrows
<1>3. DetectionBound = MaxLatency + LongWait + GoodLatency
        + Greatest((RequiredSuccesses - 1) * Round, IF StableFor = 0 THEN 0 ELSE StableFor + Round)
  BY DEF DetectionBound, LongWait
<1>4. /\ MaxLatency \in Nat /\ LongWait \in Nat /\ GoodLatency \in Nat /\ steady \in Nat
      /\ FirstOver = steady + MaxLatency + LongWait + GoodLatency
  BY Numbers DEF FirstOver, FirstBegun
<1> DEFINE rounds == (RequiredSuccesses - 1) * Round
<1> HIDE DEF rounds
<1>5. /\ Greatest(rounds, IF StableFor = 0 THEN 0 ELSE StableFor + Round) >= rounds
      /\ Greatest(rounds, IF StableFor = 0 THEN 0 ELSE StableFor + Round) \in Nat
      /\ StableFor > 0 =>
           Greatest(rounds, IF StableFor = 0 THEN 0 ELSE StableFor + Round) >= StableFor + Round
  BY <1>1, <1>2 DEF Greatest, rounds
<1> HIDE DEF Greatest
<1> DEFINE most == Greatest(rounds, IF StableFor = 0 THEN 0 ELSE StableFor + Round)
<1>6. most \in Nat /\ most >= rounds /\ (StableFor > 0 => most >= StableFor + Round)
  BY <1>5
<1>7. steady + DetectionBound = FirstOver + most /\ rounds \in Nat /\ FirstOver \in Nat
  <2>1. DetectionBound = MaxLatency + LongWait + GoodLatency + most
    BY <1>3 DEF rounds
  <2> HIDE DEF most
  <2> QED
    BY <1>2, <1>4, <1>6, <2>1 DEF rounds
<1> HIDE DEF most
<1>8. FirstOver + rounds <= steady + DetectionBound
  BY <1>6, <1>7
<1>9. steady + DetectionBound \in Nat
  BY <1>6, <1>7
<1> QED
  BY <1>1, <1>6, <1>7, <1>8, <1>9 DEF rounds

(* One round after the last success the run is not yet late.               *)
LEMMA StreakInTime ==
  ASSUME TypeOK, steady # Unset, NEW t \in Int, StreakAt(t)
  PROVE  t + Round <= steady + DetectionBound
<1>1. /\ Round \in Nat /\ consecutive \in Nat /\ RequiredSuccesses \in Nat /\ FirstOver \in Nat
      /\ StableFor \in Nat
  BY Numbers
<1>2. CASE consecutive < RequiredSuccesses
  <2>1. consecutive \in Nat /\ RequiredSuccesses - 1 \in Nat /\ consecutive <= RequiredSuccesses - 1
    BY <1>1, <1>2
  <2>2. /\ consecutive * Round <= (RequiredSuccesses - 1) * Round
        /\ consecutive * Round \in Nat /\ (RequiredSuccesses - 1) * Round \in Nat
    BY <1>1, <2>1, ProductGrows
  <2>3. (consecutive - 1) * Round + Round = consecutive * Round
    BY <1>1
  <2>4. (consecutive - 1) * Round \in Int
    BY <1>1
  <2>5. steady + DetectionBound >= FirstOver + (RequiredSuccesses - 1) * Round
    BY BoundIsLater
  <2>6. t + Round <= FirstOver + consecutive * Round
    BY <1>1, <1>2, <2>2, <2>3, <2>4 DEF StreakAt
  <2>7. steady + DetectionBound \in Nat
    BY BoundIsLater
  <2> QED
    BY <1>1, <2>2, <2>5, <2>6, <2>7
<1>3. CASE consecutive >= RequiredSuccesses
  <2> USE DEF StreakAt
  <2>1. stableSince <= FirstOver /\ stableSince \in Int
    BY DEF StreakAt, TypeOK, Unset
  <2>2. FirstOver + StableFor + Round <= steady + DetectionBound
    BY <1>3, BoundIsLater
  <2>3. steady + DetectionBound \in Nat
    BY BoundIsLater
  <2> QED
    BY <1>1, <1>3, <2>1, <2>2, <2>3
<1> QED
  BY <1>1, <1>2, <1>3

(* Who has succeeded by t has more time than who has only by then.         *)
LEMMA StreakEarlier ==
  ASSUME TypeOK, steady # Unset, NEW t \in Int, NEW u \in Int, u <= t, StreakAt(t)
  PROVE  StreakAt(u)
<1>1. /\ consecutive \in Nat /\ RequiredSuccesses \in Nat /\ Round \in Nat
      /\ FirstOver \in Nat /\ StableFor \in Nat /\ stableSince \in Int
  BY Numbers DEF TypeOK, Unset
<1>2. (consecutive - 1) * Round \in Int
  BY <1>1
<1> QED
  BY <1>1, <1>2 DEF StreakAt

(* What a check that began on the steady backend leads to: the run is over *)
(* in time, or the streak has one success more and one round less to go.   *)
LEMMA GoodCheckReturns ==
  ASSUME IInv, DetectInv, NEW answer \in {"satisfied", "unsatisfied", "expired"},
         CheckReturns(answer), steady # Unset, steady <= since
  PROVE  /\ phase' = "done" => now' <= steady' + DetectionBound
         /\ phase' = "wait" => StreakAt(since)' /\ timer' <= since' + BaseWait
<1> DEFINE c == consecutive
<1>1. /\ TypeOK /\ PhaseInv /\ StreakInv
      /\ UNCHANGED <<now, ctxDone, steady>> /\ since' = now /\ phase = "check" /\ ~ ctxDone
  BY DEF IInv, DetectInv, CheckReturns, Judged
<1>2. /\ MaxLatency \in Nat /\ GoodLatency \in Nat /\ StableFor \in Nat /\ Round \in Nat
      /\ BaseWait \in Nat \ {0} /\ LongWait \in Nat /\ Round = BaseWait + GoodLatency
      /\ consecutive \in Nat /\ now \in Nat /\ since \in Nat /\ steady \in Nat
      /\ FirstBegun \in Nat /\ FirstOver \in Nat /\ FirstOver = FirstBegun + GoodLatency
  BY <1>1, Numbers DEF FirstOver
<1>3. now <= since + GoodLatency
  BY <1>1 DEF PhaseInv, CheckBudget
<1>4. answer = "satisfied"
  <2>1. AttemptTimeout > 0 => ~ (now - since >= AttemptTimeout)
    BY <1>2, <1>3, ReliableAssumption, TimingAssumption DEF AttemptTimeout, TimingAssumption
  <2> QED
    BY <2>1 DEF CheckReturns, Judgements
<1>5. now <= FirstOver \/ StreakAt(now - Round)
  <2>1. CASE since <= FirstBegun
    BY <1>2, <1>3, <2>1
  <2>2. CASE StreakAt(since - BaseWait)
    <3>1. now - Round <= since - BaseWait /\ now - Round \in Int /\ since - BaseWait \in Int
      BY <1>2, <1>3
    <3>2. stableSince \in Int /\ (consecutive - 1) * Round \in Int
      BY <1>1, <1>2 DEF TypeOK, Unset
    <3> QED
      BY <1>2, <2>2, <3>1, <3>2 DEF StreakAt
  <2> QED
    BY <1>1, <1>2, <2>1, <2>2 DEF DetectInv, BeginsBy
<1>6. /\ consecutive' = consecutive + 1
      /\ stableSince' = IF stableSince = Unset THEN now ELSE stableSince
  BY <1>4 DEF CheckReturns, ApplyStability
<1>7. (stableSince = Unset => consecutive = 0) /\ stableSince <= now
      /\ stableSince \in Nat \cup {Unset}
  BY <1>1 DEF StreakInv, TypeOK
<1>8. FirstOver' = FirstOver
  BY <1>1 DEF FirstOver, FirstBegun
<1>9. stableSince' # Unset /\ stableSince' <= FirstOver /\ stableSince' \in Nat
  BY <1>2, <1>5, <1>6, <1>7 DEF StreakAt, Unset
<1>10. RequiredSuccesses \in Nat
  BY <1>1, Numbers
<1>11. CASE phase' = "wait"
  <2>1. ~ StabilitySatisfied /\ \E d \in Jittered(Interval) : timer' = now + d
    BY <1>4, <1>11 DEF CheckReturns, WaitInterval
  <2>2. timer' <= since' + BaseWait
    BY <1>1, <1>2, <2>1, WaitsAreShort
  <2>3. ASSUME consecutive' < RequiredSuccesses PROVE now <= FirstOver + consecutive * Round
    <3>1. consecutive * Round \in Nat /\ (consecutive - 1) * Round + Round = consecutive * Round
      BY <1>2, ProductGrows
    <3>2. consecutive < RequiredSuccesses /\ (consecutive - 1) * Round \in Int
      BY <1>2, <1>6, <1>10, <2>3
    <3>3. CASE now <= FirstOver
      BY <1>2, <3>1, <3>3
    <3>4. CASE StreakAt(now - Round)
      <4>1. now - Round <= FirstOver + (consecutive - 1) * Round
        BY <3>2, <3>4 DEF StreakAt
      <4> QED
        BY <1>2, <3>1, <3>2, <4>1
    <3> QED
      BY <1>5, <3>3, <3>4
  <2>4. ASSUME consecutive' >= RequiredSuccesses
        PROVE  StableFor > 0 /\ now < stableSince' + StableFor
    BY <1>2, <1>6, <1>9, <1>10, <2>1, <2>4 DEF StabilitySatisfied
  <2>5. consecutive' >= 1 /\ consecutive' - 1 = consecutive /\ since' = now
    BY <1>1, <1>2, <1>6
  <2>6. StreakAt(since)'
    BY <1>8, <1>9, <2>3, <2>4, <2>5 DEF StreakAt
  <2> QED
    BY <1>11, <2>2, <2>6
<1>12. CASE phase' = "done"
  <2>1. now <= steady + DetectionBound
    <3>1. CASE now <= FirstOver
      BY <1>1, <1>2, <3>1, BoundIsLater
    <3>2. CASE StreakAt(now - Round)
      <4>1. now - Round \in Int /\ (now - Round) + Round = now
        BY <1>2
      <4> QED
        BY <1>1, <3>2, <4>1, StreakInTime
    <3> QED
      BY <1>5, <3>1, <3>2
  <2> QED
    BY <1>1, <1>12, <2>1
<1> QED
  BY <1>4, <1>11, <1>12 DEF CheckReturns

(* Checks, of whatever kind.                                               *)
LEMMA CheckDetects ==
  ASSUME IInv, DetectInv,
         NEW answer \in {"satisfied", "unsatisfied", "expired"}, CheckReturns(answer)
  PROVE  DetectInv'
<1>1. /\ TypeOK /\ PhaseInv
      /\ UNCHANGED <<now, ctxDone, steady>> /\ since' = now /\ phase = "check" /\ ~ ctxDone
      /\ phase' \in {"wait", "done"}
  BY DEF IInv, DetectInv, CheckReturns, Judged
<1>2. /\ MaxLatency \in Nat /\ GoodLatency \in Nat /\ GoodLatency <= MaxLatency
      /\ LongWait \in Nat /\ now \in Nat /\ since \in Nat /\ since <= now
      /\ steady # Unset => steady \in Nat /\ steady <= now /\ FirstBegun \in Nat
  BY <1>1, Numbers DEF PhaseInv
<1>3. phase' = "wait" => timer' \in Nat /\ timer' >= now /\ timer' <= now + LongWait
  <2>1. SUFFICES ASSUME phase' = "wait"
                 PROVE  timer' \in Nat /\ timer' >= now /\ timer' <= now + LongWait
    OBVIOUS
  <2>2. PICK d \in Jittered(WaitInterval(answer = "satisfied")) : timer' = now + d
    BY <2>1 DEF CheckReturns
  <2>3. WaitInterval(answer = "satisfied") \in Interval..MaxInterval
    BY <1>1, TimingAssumption DEF WaitInterval, TypeOK, TimingAssumption, MaxInterval
  <2>4. d \in Nat /\ d <= LongWait
    BY <2>2, <2>3, WaitsAreShort
  <2> QED
    BY <1>2, <2>2, <2>4
<1>4. PhaseInv'
  BY <1>1, <1>2, <1>3, WaitsAreShort DEF PhaseInv, LongWait, BaseWait
<1>5. CASE steady # Unset /\ steady <= since
  BY <1>1, <1>4, <1>5, GoodCheckReturns DEF DetectInv
<1>6. CASE steady # Unset /\ ~ (steady <= since)
  <2>1. now <= since + MaxLatency /\ since < steady /\ FirstBegun = steady + MaxLatency + LongWait
    BY <1>1, <1>2, <1>6 DEF PhaseInv, CheckBudget, FirstBegun
  <2>2. phase' = "wait" => timer' <= FirstBegun'
    BY <1>1, <1>2, <1>3, <1>6, <2>1 DEF FirstBegun
  <2>3. now <= steady + DetectionBound
    <3>1. now <= FirstOver /\ FirstOver \in Nat
      BY <1>1, <1>2, <1>6, <2>1, Numbers DEF FirstOver
    <3> QED
      BY <1>1, <1>2, <1>6, <3>1, BoundIsLater
  <2> QED
    BY <1>1, <1>4, <2>2, <2>3 DEF DetectInv
<1>7. CASE steady = Unset
  BY <1>1, <1>4, <1>7 DEF DetectInv
<1> QED
  BY <1>5, <1>6, <1>7

LEMMA StepDetects ==
  ASSUME IInv, DetectInv, [Next]_vars
  PROVE  DetectInv'
<1>1. /\ TypeOK /\ PhaseInv
      /\ MaxLatency \in Nat /\ GoodLatency \in Nat /\ GoodLatency <= MaxLatency
      /\ LongWait \in Nat /\ BaseWait \in Nat /\ now \in Nat /\ since \in Nat /\ timer \in Nat
  BY Numbers DEF IInv, DetectInv
<1> USE DEF vars, schedule, progress, history
<1>2. CASE StartCheck
  <2>1. /\ UNCHANGED <<now, steady, ctxDone, consecutive, stableSince, timer>>
        /\ phase = "poll" /\ since' = now /\ now = since
        /\ phase' = "check" \/ (phase' = "done" /\ ctxDone)
    BY <1>1, <1>2 DEF StartCheck, PhaseInv
  <2>2. PhaseInv'
    BY <1>1, <2>1 DEF PhaseInv, CheckBudget
  <2>3. BeginsBy(since)' <=> BeginsBy(since)
    BY <2>1 DEF BeginsBy, StreakAt, FirstOver, FirstBegun
  <2> QED
    BY <2>1, <2>2, <2>3 DEF DetectInv
<1>3. ASSUME NEW answer \in {"satisfied", "unsatisfied", "expired"}, CheckReturns(answer)
      PROVE  DetectInv'
  BY <1>3, CheckDetects
<1>4. CASE CheckDiscarded \/ AbandonWait
  BY <1>1, <1>4 DEF CheckDiscarded, AbandonWait, DetectInv, PhaseInv
<1>5. CASE TimerFires
  <2>1. /\ UNCHANGED <<now, steady, ctxDone, consecutive, stableSince, timer>>
        /\ phase = "wait" /\ phase' = "poll" /\ since' = now /\ now <= timer
    BY <1>1, <1>5 DEF TimerFires, PhaseInv
  <2>2. PhaseInv'
    BY <1>1, <2>1 DEF PhaseInv
  <2>3. SUFFICES ASSUME steady # Unset, ~ ctxDone PROVE BeginsBy(since)'
    BY <2>1, <2>2 DEF DetectInv
  <2>4. BeginsBy(since)' <=> BeginsBy(now)
    BY <2>1 DEF BeginsBy, StreakAt, FirstOver, FirstBegun
  <2>5. CASE timer <= FirstBegun
    BY <1>1, <2>1, <2>3, <2>4, <2>5, Numbers DEF BeginsBy
  <2>6. CASE StreakAt(since) /\ timer <= since + BaseWait
    <3>1. now - BaseWait \in Int /\ since \in Int /\ now - BaseWait <= since
      BY <1>1, <2>1, <2>6
    <3> QED
      BY <1>1, <2>3, <2>4, <2>6, <3>1, StreakEarlier DEF BeginsBy
  <2> QED
    BY <2>1, <2>3, <2>5, <2>6 DEF DetectInv
<1>6. CASE DeadlineFires
  BY <1>1, <1>6 DEF DeadlineFires, DetectInv, PhaseInv, CheckBudget
<1>7. CASE BackendSettles
  <2>1. /\ UNCHANGED <<now, phase, since, timer, ctxDone>>
        /\ phase # "done" /\ steady' = now
    BY <1>7 DEF BackendSettles
  <2>2. /\ since <= now
        /\ phase = "poll" => now = since
        /\ phase = "check" => now <= since + MaxLatency \/ now <= since + GoodLatency
        /\ phase = "wait" => now <= timer /\ timer <= since + LongWait
    BY <1>1 DEF PhaseInv, CheckBudget
  <2>3. PhaseInv'
    BY <1>1, <2>1, <2>2 DEF PhaseInv, CheckBudget
  <2>4. FirstBegun' = now + MaxLatency + LongWait
    BY <2>1 DEF FirstBegun
  <2> QED
    BY <1>1, <2>1, <2>2, <2>3, <2>4 DEF DetectInv, BeginsBy
<1>8. CASE Tick
  <2>1. /\ UNCHANGED <<phase, since, steady, ctxDone, consecutive, stableSince, timer>>
        /\ now' = now + 1 /\ phase \in {"check", "wait"}
        /\ phase = "check" => now < since + CheckBudget
        /\ phase = "wait" => now < timer
    BY <1>8 DEF Tick, MayPass
  <2>2. CheckBudget' = CheckBudget /\ CheckBudget \in Nat
    BY <1>1, <2>1 DEF CheckBudget
  <2>3. PhaseInv'
    BY <1>1, <2>1, <2>2 DEF PhaseInv, TypeOK, Unset
  <2>4. /\ BeginsBy(since)' <=> BeginsBy(since)
        /\ StreakAt(since)' <=> StreakAt(since)
        /\ FirstBegun' = FirstBegun
    BY <2>1 DEF BeginsBy, StreakAt, FirstOver, FirstBegun
  <2> QED
    BY <2>1, <2>3, <2>4 DEF DetectInv
<1>9. CASE UNCHANGED vars
  BY <1>9 DEF DetectInv, PhaseInv, CheckBudget, BeginsBy, StreakAt, FirstBegun, FirstOver
<1> QED
  BY <1>2, <1>3, <1>4, <1>5, <1>6, <1>7, <1>8, <1>9 DEF Next, Stopped

(* Detection implies the bound at every moment between two steps.          *)
LEMMA DetectsEnough ==
  ASSUME IInv, DetectInv
  PROVE  DetectedInTime
<1> SUFFICES ASSUME steady # Unset, ~ ctxDone PROVE now <= steady + DetectionBound
  BY DEF DetectedInTime
<1>1. /\ TypeOK /\ PhaseInv
      /\ MaxLatency \in Nat /\ GoodLatency \in Nat /\ GoodLatency <= MaxLatency
      /\ LongWait \in Nat /\ BaseWait \in Nat /\ Round = BaseWait + GoodLatency
      /\ now \in Nat /\ since \in Nat /\ timer \in Nat /\ steady \in Nat
      /\ FirstBegun \in Nat /\ FirstBegun = steady + MaxLatency + LongWait
      /\ FirstOver = FirstBegun + GoodLatency
  BY Numbers DEF IInv, DetectInv, FirstBegun, FirstOver
<1>2. FirstOver <= steady + DetectionBound /\ steady + DetectionBound \in Nat
  BY <1>1, BoundIsLater
<1>3. CASE now <= FirstOver
  BY <1>1, <1>2, <1>3
<1>4. ASSUME NEW t \in Int, StreakAt(t), now <= t + Round
      PROVE  now <= steady + DetectionBound
  BY <1>1, <1>2, <1>4, StreakInTime
<1>5. ASSUME BeginsBy(since), now <= since + GoodLatency
      PROVE  now <= steady + DetectionBound
  <2>1. CASE since <= FirstBegun
    BY <1>1, <1>3, <1>5, <2>1
  <2>2. CASE StreakAt(since - BaseWait)
    <3>1. since - BaseWait \in Int /\ now <= (since - BaseWait) + Round
      BY <1>1, <1>5
    <3> QED
      BY <1>4, <2>2, <3>1
  <2> QED
    BY <1>5, <2>1, <2>2 DEF BeginsBy
<1>6. CASE phase = "poll"
  BY <1>1, <1>5, <1>6 DEF DetectInv, PhaseInv
<1>7. CASE phase = "check"
  <2>1. CASE since < steady
    BY <1>1, <1>3, <1>7, <2>1 DEF PhaseInv, CheckBudget
  <2>2. CASE ~ (since < steady)
    <3>1. now <= since + GoodLatency /\ BeginsBy(since)
      BY <1>1, <1>7, <2>2 DEF DetectInv, PhaseInv, CheckBudget
    <3> QED
      BY <1>5, <3>1
  <2> QED
    BY <2>1, <2>2
<1>8. CASE phase = "wait"
  <2>1. now <= timer
    BY <1>1, <1>8 DEF PhaseInv
  <2>2. CASE timer <= FirstBegun
    BY <1>1, <1>3, <2>1, <2>2
  <2>3. CASE StreakAt(since) /\ timer <= since + BaseWait
    BY <1>1, <1>4, <2>1, <2>3
  <2> QED
    BY <1>8, <2>2, <2>3 DEF DetectInv
<1>9. CASE phase = "done"
  BY <1>9 DEF DetectInv
<1> QED
  BY <1>1, <1>6, <1>7, <1>8, <1>9 DEF TypeOK

(* Once a backend answers reliably, within the attempt's budget, the run   *)
(* completes within one check under way, the longest wait and the rounds   *)
(* its streak takes: for every interval, backoff, jitter and threshold     *)
(* (pollSchedule, stabilityProgress).                                      *)
THEOREM ReadinessIsDetected == Spec => []DetectedInTime
<1>1. Init => DetectInv
  BY TimingAssumption DEF Init, DetectInv, PhaseInv, Unset
<1>2. IInv /\ DetectInv /\ [Next]_vars => DetectInv'
  BY StepDetects
<1>3. IInv /\ DetectInv => DetectedInTime
  BY DetectsEnough
<1> QED
  BY <1>1, <1>2, <1>3, Invariance, PTL DEF Spec
=============================================================================

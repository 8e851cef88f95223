----------------------------- MODULE PollTiming -----------------------------
(***************************************************************************)
(* Time in internal/runner/runner.go: the polling of one ready condition   *)
(* with a clock. pollSchedule chooses the waits, stabilityProgress measures*)
(* the success streak, every attempt and the whole run have a deadline.    *)
(*                                                                         *)
(* Runner.tla has the goroutines and no clock; here there is one goroutine *)
(* and its durations. What it does between the return of Check and the     *)
(* start of its wait takes no time and is one action. Timers fire when     *)
(* they are due: the clock waits for them.                                 *)
(***************************************************************************)
EXTENDS Integers

CONSTANTS
  Timeout,            (* Config.Timeout                                     *)
  Interval,           (* Config.Interval                                    *)
  RawMaxInterval,     (* Config.MaxInterval, 0 for "the interval"           *)
  Backoff,            (* "constant" or "exponential"                        *)
  Jitter,             (* Config.Jitter in percent                           *)
  RawAttemptTimeout,  (* Config.PerAttemptTimeout, 0 for none               *)
  RawSuccesses,       (* Config.RequiredSuccesses, 0 for 1                  *)
  StableFor,          (* Config.StableFor, 0 for none                       *)
  MaxDuration,        (* the largest time.Duration                          *)
  MaxLatency,         (* bound: how long a Check may take                   *)
  GoodLatency         (* ... once the backend answers reliably              *)

(* normalizeRunConfig *)
MaxInterval == IF RawMaxInterval = 0 THEN Interval ELSE RawMaxInterval
AttemptTimeout == IF RawAttemptTimeout > Timeout THEN Timeout ELSE RawAttemptTimeout
RequiredSuccesses == IF RawSuccesses = 0 THEN 1 ELSE RawSuccesses

(* validateTimingConfig, validateBackoffConfig, validateStabilityConfig, and *)
(* durations that do not leave the type when jitter lengthens them.          *)
ASSUME TimingAssumption ==
  /\ Timeout \in Nat \ {0}
  /\ Interval \in Nat \ {0}
  /\ RawMaxInterval \in Nat
  /\ MaxInterval >= Interval
  /\ Backoff \in {"constant", "exponential"}
  /\ Jitter \in 0..100
  /\ RawAttemptTimeout \in Nat
  /\ RawSuccesses \in Nat
  /\ StableFor \in Nat
  /\ MaxDuration \in Nat
  /\ MaxInterval <= MaxDuration
  /\ (MaxInterval * (100 + Jitter)) \div 100 <= MaxDuration
  /\ MaxLatency \in Nat
  /\ GoodLatency \in 0..MaxLatency

(* A backend that answers reliably does so within the attempt's budget.    *)
ASSUME ReliableAssumption == AttemptTimeout > 0 => GoodLatency < AttemptTimeout

Unset == -1   (* the zero time.Time *)

VARIABLES
  now,          (* the clock                                                *)
  phase,        (* "poll", "check", "wait", or "done"                       *)
  since,        (* when the phase began                                     *)
  timer,        (* when waitInterval's timer is due                         *)
  current,      (* pollSchedule.current                                     *)
  consecutive,  (* stabilityProgress.consecutive                            *)
  stableSince,  (* stabilityProgress.stableSince                            *)
  ctxDone,      (* the run's deadline has fired                             *)
  outcome,      (* "none", "satisfied" or "timeout"                         *)
  steady,       (* since when the backend answers reliably, Unset before    *)
  lastBad,      (* history: when the last check that did not succeed ended  *)
  failures,     (* history: failed checks since the last successful one     *)
  doubled       (* history: Interval, doubled with each of these            *)

schedule == <<timer, current>>
progress == <<consecutive, stableSince>>
history == <<lastBad, failures, doubled>>
vars == <<now, phase, since, schedule, progress, ctxDone, outcome, steady, history>>

TypeOK ==
  /\ now \in Nat
  /\ phase \in {"poll", "check", "wait", "done"}
  /\ since \in Nat
  /\ timer \in Nat
  /\ current \in Interval..MaxInterval
  /\ consecutive \in Nat
  /\ stableSince \in Nat \cup {Unset}
  /\ ctxDone \in BOOLEAN
  /\ outcome \in {"none", "satisfied", "timeout"}
  /\ steady \in Nat \cup {Unset}
  /\ lastBad \in Nat \cup {Unset}
  /\ failures \in Nat
  /\ doubled \in Nat

Init ==
  /\ now = 0
  /\ phase = "poll"
  /\ since = 0
  /\ timer = 0
  /\ current = Interval
  /\ consecutive = 0
  /\ stableSince = Unset
  /\ ctxDone = FALSE
  /\ outcome = "none"
  /\ steady = Unset
  /\ lastBad = Unset
  /\ failures = 0
  /\ doubled = Interval
-----------------------------------------------------------------------------
(* pollSchedule.                                                           *)

Least(a, b) == IF a < b THEN a ELSE b
Greatest(a, b) == IF a > b THEN a ELSE b

(* A time.Duration wraps around. *)
Wrap(d) == IF d > MaxDuration THEN d - 2 * (MaxDuration + 1) ELSE d

(* Fault: double first, compare afterwards. *)
NextExponentialUnguarded(c, max) == Least(Wrap(c * 2), max)

NextExponentialInterval(c, max) ==
  IF c >= max \div 2 THEN max ELSE Least(Wrap(c * 2), max)

(* withJitter: a factor from [1 - Jitter, 1 + Jitter), rounded down to a   *)
(* whole duration, at least one.                                           *)
Jittered(d) ==
  IF Jitter = 0 THEN {d}
  ELSE {Greatest(j, 1) : j \in (d * (100 - Jitter)) \div 100 .. (d * (100 + Jitter)) \div 100}

(* Fault: a success waits for the interval the failures left behind. *)
WaitIntervalStale(success) == current

(* pollSchedule.next returns this interval, jittered ... *)
WaitInterval(success) == IF success THEN Interval ELSE current

(* Fault: a success does not bring the schedule back to its base. *)
NextCurrentNoReset(success) ==
  IF Backoff = "exponential" /\ ~ success
  THEN NextExponentialInterval(current, MaxInterval) ELSE current

(* ... and leaves the schedule with this one. *)
NextCurrent(success) ==
  IF success THEN Interval
  ELSE IF Backoff = "exponential"
       THEN NextExponentialInterval(current, MaxInterval) ELSE current
-----------------------------------------------------------------------------
(* The goroutine.                                                          *)

(* The select at the top of the loop, then the gate, which is free. *)
StartCheck ==
  /\ phase = "poll"
  /\ phase' = IF ctxDone THEN "done" ELSE "check"
  /\ outcome' = IF ctxDone THEN "timeout" ELSE outcome
  /\ since' = now
  /\ UNCHANGED <<now, schedule, progress, ctxDone, steady, history>>

(* What a check that began at "since" may be judged as. At the very end of *)
(* its budget the attempt's deadline may or may not have fired. A check    *)
(* started on a steady backend succeeds.                                   *)
Judgements ==
  LET late == AttemptTimeout > 0 /\ now - since >= AttemptTimeout
      over == AttemptTimeout > 0 /\ now - since > AttemptTimeout
      good == steady # Unset /\ since >= steady
  IN  (IF over THEN {} ELSE IF good THEN {"satisfied"} ELSE {"satisfied", "unsatisfied"})
      \cup (IF late THEN {"expired"} ELSE {})

(* stabilitySatisfied, for the progress after this success. *)
StabilitySatisfied ==
  /\ consecutive' >= RequiredSuccesses
  /\ StableFor = 0 \/ now - stableSince' >= StableFor

(* Fault: a failed check leaves the start of the streak in place. *)
ApplyStabilityKeepsSince(success) ==
  /\ consecutive' = IF success THEN consecutive + 1 ELSE 0
  /\ stableSince' = IF success /\ stableSince = Unset THEN now ELSE stableSince

(* applyStabilityThreshold's bookkeeping. *)
ApplyStability(success) ==
  /\ consecutive' = IF success THEN consecutive + 1 ELSE 0
  /\ stableSince' = IF ~ success THEN Unset
                    ELSE IF stableSince = Unset THEN now ELSE stableSince

(* Fault: the answer is taken even if the run's deadline fired meanwhile. *)
JudgedLate == phase = "check"

(* checkCondition discards the answer if the run's context is done. *)
Judged == phase = "check" /\ ~ ctxDone

(* Check returned and its result was judged: the run completes, or the     *)
(* goroutine waits for the interval the schedule gives it.                 *)
CheckReturns(answer) ==
  LET success == answer = "satisfied"
  IN  /\ Judged
      /\ answer \in Judgements
      /\ ApplyStability(success)
      /\ lastBad' = IF success THEN lastBad ELSE now
      /\ failures' = IF success THEN 0 ELSE failures + 1
      /\ doubled' = IF success THEN Interval ELSE 2 * doubled
      /\ since' = now
      /\ IF success /\ StabilitySatisfied
         THEN /\ phase' = "done"
              /\ outcome' = "satisfied"
              /\ UNCHANGED schedule
         ELSE /\ phase' = "wait"
              /\ current' = NextCurrent(success)
              /\ \E d \in Jittered(WaitInterval(success)) : timer' = now + d
              /\ UNCHANGED outcome
      /\ UNCHANGED <<now, ctxDone, steady>>

CheckDiscarded ==
  /\ phase = "check"
  /\ ctxDone
  /\ phase' = "done"
  /\ outcome' = "timeout"
  /\ since' = now
  /\ UNCHANGED <<now, schedule, progress, ctxDone, steady, history>>

(* waitInterval: the timer is due, or the context ends the wait. *)
TimerFires ==
  /\ phase = "wait"
  /\ now >= timer
  /\ phase' = "poll"
  /\ since' = now
  /\ UNCHANGED <<now, schedule, progress, ctxDone, outcome, steady, history>>

AbandonWait ==
  /\ phase = "wait"
  /\ ctxDone
  /\ phase' = "done"
  /\ outcome' = "timeout"
  /\ since' = now
  /\ UNCHANGED <<now, schedule, progress, ctxDone, steady, history>>

DeadlineFires ==
  /\ phase # "done"
  /\ now >= Timeout
  /\ ~ ctxDone
  /\ ctxDone' = TRUE
  /\ UNCHANGED <<now, phase, since, schedule, progress, outcome, steady, history>>

(* The backend becomes ready and stays so. *)
BackendSettles ==
  /\ phase # "done"
  /\ steady = Unset
  /\ steady' = now
  /\ UNCHANGED <<now, phase, since, schedule, progress, ctxDone, outcome, history>>

(* Time passes while no timer is due and the check still has time left. *)
CheckBudget ==
  IF steady # Unset /\ since >= steady THEN GoodLatency ELSE MaxLatency

MayPass ==
  /\ phase \in {"check", "wait"}
  /\ phase = "check" => now < since + CheckBudget
  /\ phase = "wait" => now < timer /\ ~ ctxDone
  /\ ctxDone \/ now < Timeout

Tick ==
  /\ MayPass
  /\ now' = now + 1
  /\ UNCHANGED <<phase, since, schedule, progress, ctxDone, outcome, steady, history>>

Stopped ==
  /\ phase = "done"
  /\ UNCHANGED vars

Next ==
  \/ StartCheck
  \/ \E answer \in {"satisfied", "unsatisfied", "expired"} : CheckReturns(answer)
  \/ CheckDiscarded
  \/ TimerFires
  \/ AbandonWait
  \/ DeadlineFires
  \/ BackendSettles
  \/ Tick
  \/ Stopped

Spec == Init /\ [][Next]_vars
-----------------------------------------------------------------------------
(* Properties.                                                             *)

High(d) == (d * (100 + Jitter)) \div 100

(* As long as the run goes on the schedule stands, after k failures in a   *)
(* row, at Interval doubled k times, up to MaxInterval (one more only      *)
(* where halving an odd maximum rounds down), and a success brings it      *)
(* back: however long the outage, no doubling overflows and no wait is     *)
(* shorter than the last (pollSchedule.next, nextExponentialInterval).     *)
BackoffFollowsFailures ==
  phase # "done" =>
    IF Backoff = "constant" THEN current = Interval
    ELSE current \in Least(doubled, MaxInterval) .. Least(doubled + 1, MaxInterval)

(* A run is satisfied only at the end of a stretch of at least StableFor   *)
(* in which no check failed or expired; a failure starts a new streak      *)
(* (applyStabilityThreshold, stabilityProgress.reset).                     *)
StableStretch ==
  outcome = "satisfied" =>
    /\ failures = 0
    /\ lastBad # Unset => now - lastBad >= StableFor
    /\ lastBad = Unset => now >= StableFor

(* No answer that comes after the run's deadline fired satisfies it, even  *)
(* if Check does not heed its context (checkCondition).                    *)
SatisfiedInTime ==
  outcome = "satisfied" => ~ ctxDone /\ now <= Timeout

(* Once the backend answers reliably the run completes within one check,   *)
(* one longest wait and the streak it has to observe at the base rate,     *)
(* unless the timeout comes first.                                         *)
Round == Greatest(High(Interval), 1) + GoodLatency
DetectionBound ==
  MaxLatency + Greatest(High(MaxInterval), 1) + GoodLatency
    + Greatest((RequiredSuccesses - 1) * Round, IF StableFor = 0 THEN 0 ELSE StableFor + Round)
DetectedInTime ==
  steady # Unset /\ ~ ctxDone => now <= steady + DetectionBound

(* docs/SPEC.md, "Global Flags": --max-interval is the "maximum interval   *)
(* when exponential backoff is enabled". The jitter is applied after the   *)
(* cap, so a wait may be longer: this does not hold.                       *)
WaitsCapped ==
  Backoff = "exponential" /\ phase = "wait" => timer - since <= MaxInterval
=============================================================================

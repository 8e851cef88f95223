------------------------------- MODULE Runner -------------------------------
(***************************************************************************)
(* internal/runner/runner.go: one goroutine per condition polls a backend, *)
(* applies the stability threshold, races the others for the terminal      *)
(* status, cancels the shared context, writes its own record and calls     *)
(* OnAttempt; Run joins the goroutines and computes the status.            *)
(*                                                                         *)
(* A goroutine's program counter names the statement it is about to run:   *)
(*   poll      the select on ctx.Done at the top of the loop               *)
(*   gate      acquireConditionGate                                        *)
(*   check     inside cond.Check, holding the gate                         *)
(*   judge     Check returned; ctx.Err is about to be read, gate released  *)
(*   apply     stability threshold, then resultEndsCondition               *)
(*   claim     the compare-and-swap on terminal                            *)
(*   cancel    the call of cancel() after winning the swap                 *)
(*   record    record.Attempts and updateRecord                            *)
(*   emit      waiting for the recorder's mutex                            *)
(*   callback  inside OnAttempt, holding the mutex                         *)
(*   wait      waitInterval                                                *)
(*   done      returned                                                    *)
(* Time is abstract: the deadline, the end of a poll interval, an attempt  *)
(* deadline and the moment a success streak becomes StableFor old may come *)
(* at any point. PollTiming.tla treats durations.                          *)
(***************************************************************************)
EXTENDS Naturals, FiniteSets

CONSTANTS
  Conds,              (* Config.Conditions, one goroutine each              *)
  Guards,             (* those whose ConditionRole is RoleGuard             *)
  Gates,              (* gate channels                                      *)
  GateOf,             (* conditionGates: same inner pointer, same gate      *)
  Mode,               (* Config.Mode: "all" or "any"                        *)
  RequiredSuccesses,  (* Config.RequiredSuccesses after normalisation       *)
  HasStableFor,       (* Config.StableFor > 0                               *)
  HasAttemptTimeout,  (* Config.PerAttemptTimeout > 0                       *)
  MaxAttempts,        (* bound: polls of one condition before it only waits *)
  NoOne               (* the holder of a free gate or mutex                 *)

ASSUME RunnerAssumption ==
  /\ IsFiniteSet(Conds)
  /\ Guards \subseteq Conds
  /\ Conds \ Guards # {}           (* validateRunConfig: hasReadyCondition  *)
  /\ GateOf \in [Conds -> Gates]
  /\ Mode \in {"all", "any"}       (* validateModeConfig                    *)
  /\ RequiredSuccesses \in Nat \ {0}
  /\ HasStableFor \in BOOLEAN
  /\ HasAttemptTimeout \in BOOLEAN
  /\ MaxAttempts \in Nat \ {0}
  /\ NoOne \notin Conds

Ready == Conds \ Guards

VARIABLES
  pc,              (* program counter of each goroutine                     *)
  result,          (* result of the goroutine's current check               *)
  consecutive,     (* stabilityProgress.consecutive                         *)
  aged,            (* now - stabilityProgress.stableSince >= StableFor      *)
  rec,             (* ConditionResult: attempts, satisfied, fatal           *)
  emitted,         (* OnAttempt calls that have returned, per condition     *)
  holder,          (* who holds each gate                                   *)
  recorder,        (* who holds attemptRecorder.mu                          *)
  readyRemaining,  (* the atomic counter                                    *)
  terminal,        (* the atomic terminal status                            *)
  ctxErr,          (* ctx.Err(): "none", "deadline" or "canceled"           *)
  parentDone,      (* the caller's context was cancelled                    *)
  outcome          (* Outcome.Status, "none" until Run returns              *)

local == <<result, consecutive, aged>>
shared == <<readyRemaining, terminal>>
locks == <<holder, recorder>>
report == <<rec, emitted, outcome>>
context == <<ctxErr, parentDone>>
vars == <<pc, local, shared, locks, report, context>>

Statuses == {"satisfied", "unsatisfied", "fatal"}

PCs == {"poll", "gate", "check", "judge", "apply", "claim", "cancel",
        "record", "emit", "callback", "wait", "done"}

TypeOK ==
  /\ pc \in [Conds -> PCs]
  /\ result \in [Conds -> Statuses \cup {"expired"}]
  /\ consecutive \in [Conds -> Nat]
  /\ aged \in [Conds -> BOOLEAN]
  /\ rec \in [Conds -> [attempts : Nat, satisfied : BOOLEAN, fatal : BOOLEAN]]
  /\ emitted \in [Conds -> Nat]
  /\ holder \in [Gates -> Conds \cup {NoOne}]
  /\ recorder \in Conds \cup {NoOne}
  /\ readyRemaining \in Nat
  /\ terminal \in {"none", "satisfied", "fatal"}
  /\ ctxErr \in {"none", "deadline", "canceled"}
  /\ parentDone \in BOOLEAN
  /\ outcome \in {"none", "satisfied", "fatal", "timeout", "cancelled"}

Goto(c, label) == pc' = [pc EXCEPT ![c] = label]

(* Fault: the counter starts one short of the ready conditions. *)
InitMiscounts ==
  /\ pc = [c \in Conds |-> "poll"]
  /\ result = [c \in Conds |-> "unsatisfied"]
  /\ consecutive = [c \in Conds |-> 0]
  /\ aged = [c \in Conds |-> FALSE]
  /\ rec = [c \in Conds |-> [attempts |-> 0, satisfied |-> FALSE, fatal |-> FALSE]]
  /\ emitted = [c \in Conds |-> 0]
  /\ holder = [g \in Gates |-> NoOne]
  /\ recorder = NoOne
  /\ readyRemaining = Cardinality(Ready) - 1
  /\ terminal = "none"
  /\ ctxErr = "none"
  /\ parentDone = FALSE
  /\ outcome = "none"

Init ==
  /\ pc = [c \in Conds |-> "poll"]
  /\ result = [c \in Conds |-> "unsatisfied"]
  /\ consecutive = [c \in Conds |-> 0]
  /\ aged = [c \in Conds |-> FALSE]
  /\ rec = [c \in Conds |-> [attempts |-> 0, satisfied |-> FALSE, fatal |-> FALSE]]
  /\ emitted = [c \in Conds |-> 0]
  /\ holder = [g \in Gates |-> NoOne]
  /\ recorder = NoOne
  /\ readyRemaining = Cardinality(Ready)
  /\ terminal = "none"
  /\ ctxErr = "none"
  /\ parentDone = FALSE
  /\ outcome = "none"
-----------------------------------------------------------------------------
(* One goroutine: runCondition and what it calls.                          *)

(* The loop's first select: a done context returns, a live one goes on. *)
PollTop(c) ==
  /\ pc[c] = "poll"
  /\ Goto(c, IF ctxErr = "none" THEN "gate" ELSE "done")
  /\ UNCHANGED <<local, shared, locks, report, context>>

(* Fault: one gate per wrapper instead of one per inner condition. *)
AcquireGateUnchecked(c) ==
  /\ pc[c] = "gate"
  /\ holder' = [holder EXCEPT ![GateOf[c]] = c]
  /\ Goto(c, "check")
  /\ UNCHANGED <<local, shared, recorder, report, context>>

(* The send on the gate channel, which has room for one token. *)
AcquireGate(c) ==
  /\ pc[c] = "gate"
  /\ holder[GateOf[c]] = NoOne
  /\ holder' = [holder EXCEPT ![GateOf[c]] = c]
  /\ Goto(c, "check")
  /\ UNCHANGED <<local, shared, recorder, report, context>>

(* The other case of that select: the wait for the gate is not an attempt. *)
AbandonGate(c) ==
  /\ pc[c] = "gate"
  /\ ctxErr # "none"
  /\ Goto(c, "done")
  /\ UNCHANGED <<local, shared, locks, report, context>>

(* GuardCondition.Check turns a satisfied guard into a fatal result. *)
CheckResult(c, inner) ==
  IF c \in Guards /\ inner = "satisfied" THEN "fatal" ELSE inner

(* cond.Check returns. "expired" stands for attemptCtx.Err() # nil: its    *)
(* own deadline passed, or the run's context, its parent, is done.         *)
CheckReturns(c) ==
  /\ pc[c] = "check"
  /\ \/ /\ ctxErr = "none"
        /\ \E inner \in Statuses :
             result' = [result EXCEPT ![c] = CheckResult(c, inner)]
     \/ /\ HasAttemptTimeout \/ ctxErr # "none"
        /\ result' = [result EXCEPT ![c] = "expired"]
  /\ Goto(c, "judge")
  /\ UNCHANGED <<consecutive, aged, shared, locks, report, context>>

(* Fault: the context is not looked at again once Check has returned. *)
JudgeLate(c) ==
  /\ pc[c] = "judge"
  /\ holder' = [holder EXCEPT ![GateOf[c]] = NoOne]
  /\ Goto(c, "apply")
  /\ result' = [result EXCEPT ![c] = IF @ = "expired" THEN "unsatisfied" ELSE @]
  /\ UNCHANGED <<consecutive, aged, shared, recorder, report, context>>

(* checkCondition after Check: a done context discards the result, an      *)
(* expired attempt replaces it; the deferred release frees the gate.       *)
Judge(c) ==
  /\ pc[c] = "judge"
  /\ holder' = [holder EXCEPT ![GateOf[c]] = NoOne]
  /\ IF ctxErr # "none"
     THEN /\ Goto(c, "done")
          /\ UNCHANGED result
     ELSE /\ Goto(c, "apply")
          /\ result' = [result EXCEPT ![c] = IF @ = "expired" THEN "unsatisfied" ELSE @]
  /\ UNCHANGED <<consecutive, aged, shared, recorder, report, context>>

(* stabilitySatisfied, for a streak of n successes. *)
StabilitySatisfied(c, n) ==
  /\ n >= RequiredSuccesses
  /\ HasStableFor => aged[c]

(* Fault: a failed check leaves the streak as it was. *)
ApplyNoReset(c) ==
  LET success   == result[c] = "satisfied" /\ c \in Ready
      streak    == IF success THEN consecutive[c] + 1 ELSE consecutive[c]
      status    == IF success /\ ~ StabilitySatisfied(c, streak)
                   THEN "unsatisfied" ELSE result[c]
      completes == status = "satisfied" /\ Mode = "all" /\ c \in Ready
  IN  /\ pc[c] = "apply"
      /\ consecutive' = [consecutive EXCEPT ![c] = streak]
      /\ UNCHANGED aged
      /\ result' = [result EXCEPT ![c] = status]
      /\ readyRemaining' = IF completes THEN readyRemaining - 1 ELSE readyRemaining
      /\ Goto(c, IF \/ status = "fatal"
                    \/ status = "satisfied" /\ Mode = "any"
                    \/ completes /\ readyRemaining' = 0
                 THEN "claim" ELSE "record")
      /\ UNCHANGED <<terminal, locks, report, context>>

(* Fault: the counter is decremented for a success below the threshold. *)
ApplyCountsRaw(c) ==
  LET success   == result[c] = "satisfied" /\ c \in Ready
      streak    == IF success THEN consecutive[c] + 1 ELSE 0
      status    == IF success /\ ~ StabilitySatisfied(c, streak)
                   THEN "unsatisfied" ELSE result[c]
      completes == success /\ Mode = "all"
  IN  /\ pc[c] = "apply"
      /\ consecutive' = [consecutive EXCEPT ![c] = streak]
      /\ aged' = [aged EXCEPT ![c] = success /\ @]
      /\ readyRemaining' = IF completes THEN readyRemaining - 1 ELSE readyRemaining
      /\ result' = [result EXCEPT ![c] =
                      IF completes /\ readyRemaining' = 0 THEN "satisfied" ELSE status]
      /\ Goto(c, IF \/ status = "fatal"
                    \/ status = "satisfied" /\ Mode = "any"
                    \/ completes /\ readyRemaining' = 0
                 THEN "claim" ELSE "record")
      /\ UNCHANGED <<terminal, locks, report, context>>

(* applyStabilityThreshold and the switch of resultEndsCondition. A ready  *)
(* condition whose streak is too short or too young stays unsatisfied.     *)
Apply(c) ==
  LET success   == result[c] = "satisfied" /\ c \in Ready
      streak    == IF success THEN consecutive[c] + 1 ELSE 0
      status    == IF success /\ ~ StabilitySatisfied(c, streak)
                   THEN "unsatisfied" ELSE result[c]
      completes == status = "satisfied" /\ Mode = "all" /\ c \in Ready
  IN  /\ pc[c] = "apply"
      /\ consecutive' = [consecutive EXCEPT ![c] = streak]
      /\ aged' = [aged EXCEPT ![c] = success /\ @]
      /\ result' = [result EXCEPT ![c] = status]
      /\ readyRemaining' = IF completes THEN readyRemaining - 1 ELSE readyRemaining
      /\ Goto(c, IF \/ status = "fatal"
                    \/ status = "satisfied" /\ Mode = "any"
                    \/ completes /\ readyRemaining' = 0
                 THEN "claim" ELSE "record")
      /\ UNCHANGED <<terminal, locks, report, context>>

(* Fault: a plain store instead of the compare-and-swap. *)
ClaimByStore(c) ==
  /\ pc[c] = "claim"
  /\ terminal' = result[c]
  /\ Goto(c, "cancel")
  /\ UNCHANGED <<local, readyRemaining, locks, report, context>>

(* Fault: a fatal result that lost the swap is recorded all the same. *)
ClaimRecordsLoser(c) ==
  /\ pc[c] = "claim"
  /\ IF terminal = "none"
     THEN /\ terminal' = result[c]
          /\ Goto(c, "cancel")
     ELSE /\ UNCHANGED terminal
          /\ Goto(c, "record")
  /\ UNCHANGED <<local, readyRemaining, locks, report, context>>

(* terminal.CompareAndSwap(terminalNone, ...): the winner cancels the run. *)
(* A loser with a fatal result returns without recording it.               *)
Claim(c) ==
  /\ pc[c] = "claim"
  /\ IF terminal = "none"
     THEN /\ terminal' = result[c]
          /\ Goto(c, "cancel")
     ELSE /\ UNCHANGED terminal
          /\ Goto(c, IF result[c] = "fatal" THEN "done" ELSE "record")
  /\ UNCHANGED <<local, readyRemaining, locks, report, context>>

(* cancel(): the first error of a context stays. *)
Cancel(c) ==
  /\ pc[c] = "cancel"
  /\ ctxErr' = IF ctxErr = "none" THEN "canceled" ELSE ctxErr
  /\ Goto(c, "record")
  /\ UNCHANGED <<local, shared, locks, report, parentDone>>

(* record.Attempts and updateRecord, which only ever sets the two flags. *)
Record(c) ==
  /\ pc[c] = "record"
  /\ rec' = [rec EXCEPT ![c] =
               [attempts  |-> @.attempts + 1,
                satisfied |-> @.satisfied \/ result[c] = "satisfied",
                fatal     |-> @.fatal \/ result[c] = "fatal"]]
  /\ Goto(c, "emit")
  /\ UNCHANGED <<local, shared, locks, emitted, outcome, context>>

(* attemptRecorder.emit takes the mutex ... *)
Emit(c) ==
  /\ pc[c] = "emit"
  /\ recorder = NoOne
  /\ recorder' = c
  /\ Goto(c, "callback")
  /\ UNCHANGED <<local, shared, holder, report, context>>

(* Fault: the mutex is not released on the way out. *)
CallbackKeepsLock(c) ==
  /\ pc[c] = "callback"
  /\ emitted' = [emitted EXCEPT ![c] = @ + 1]
  /\ Goto(c, IF result[c] = "unsatisfied" THEN "wait" ELSE "done")
  /\ UNCHANGED <<local, shared, locks, rec, outcome, context>>

(* ... and frees it when OnAttempt returns; then the loop ends or waits. *)
CallbackReturns(c) ==
  /\ pc[c] = "callback"
  /\ recorder' = NoOne
  /\ emitted' = [emitted EXCEPT ![c] = @ + 1]
  /\ Goto(c, IF result[c] = "unsatisfied" THEN "wait" ELSE "done")
  /\ UNCHANGED <<local, shared, holder, rec, outcome, context>>

(* waitInterval: the timer fires (MaxAttempts bounds the polls) ... *)
TimerFires(c) ==
  /\ pc[c] = "wait"
  /\ rec[c].attempts < MaxAttempts
  /\ Goto(c, "poll")
  /\ UNCHANGED <<local, shared, locks, report, context>>

(* ... or the context ends first. *)
AbandonWait(c) ==
  /\ pc[c] = "wait"
  /\ ctxErr # "none"
  /\ Goto(c, "done")
  /\ UNCHANGED <<local, shared, locks, report, context>>
-----------------------------------------------------------------------------
(* The clock, the caller and Run itself.                                   *)

(* A success streak reaches the age StableFor; stableSince is set only     *)
(* while a streak lasts.                                                   *)
StreakAges(c) ==
  /\ HasStableFor
  /\ consecutive[c] > 0
  /\ ~ aged[c]
  /\ aged' = [aged EXCEPT ![c] = TRUE]
  /\ UNCHANGED <<pc, result, consecutive, shared, locks, report, context>>

(* context.WithTimeout's timer. *)
DeadlineFires ==
  /\ outcome = "none"
  /\ ctxErr = "none"
  /\ ctxErr' = "deadline"
  /\ UNCHANGED <<pc, local, shared, locks, report, parentDone>>

(* A signal, or any caller, cancels the context Run was given. *)
ParentCancels ==
  /\ outcome = "none"
  /\ ~ parentDone
  /\ parentDone' = TRUE
  /\ ctxErr' = IF ctxErr = "none" THEN "canceled" ELSE ctxErr
  /\ UNCHANGED <<pc, local, shared, locks, report>>

OutcomeSatisfied ==
  IF Mode = "any" THEN \E c \in Ready : rec[c].satisfied
                  ELSE \A c \in Ready : rec[c].satisfied

(* Fault: the context is consulted before the terminal status. *)
FinalStatusByContext ==
  IF ctxErr = "deadline" THEN "timeout"
  ELSE IF parentDone THEN "cancelled"
  ELSE IF terminal # "none" THEN terminal
  ELSE IF OutcomeSatisfied THEN "satisfied" ELSE "cancelled"

FinalStatus ==
  IF terminal # "none" THEN terminal
  ELSE IF \E c \in Conds : rec[c].fatal THEN "fatal"
  ELSE IF OutcomeSatisfied THEN "satisfied"
  ELSE IF ctxErr = "deadline" THEN "timeout"
  ELSE "cancelled"

(* Fault: Run returns when the context is done, without joining. *)
RunReturnsEarly ==
  /\ outcome = "none"
  /\ ctxErr # "none"
  /\ outcome' = FinalStatus
  /\ UNCHANGED <<pc, local, shared, locks, rec, emitted, context>>

(* g.Wait returns when every goroutine has, then the status is computed. *)
RunReturns ==
  /\ outcome = "none"
  /\ \A c \in Conds : pc[c] = "done"
  /\ outcome' = FinalStatus
  /\ UNCHANGED <<pc, local, shared, locks, rec, emitted, context>>

Terminated ==
  /\ outcome # "none"
  /\ UNCHANGED vars

(* Statements the Go scheduler is bound to run once they can. *)
Step(c) ==
  \/ PollTop(c) \/ AcquireGate(c) \/ AbandonGate(c) \/ Judge(c) \/ Apply(c)
  \/ Claim(c) \/ Cancel(c) \/ Record(c) \/ Emit(c) \/ CallbackReturns(c)
  \/ TimerFires(c) \/ AbandonWait(c)

Next ==
  \/ \E c \in Conds : Step(c) \/ CheckReturns(c) \/ StreakAges(c)
  \/ DeadlineFires
  \/ ParentCancels
  \/ RunReturns
  \/ Terminated

(* A backend owes an answer only once the context is done ("Check must     *)
(* return promptly when ctx is cancelled", condition.go); a live check may *)
(* hang. OnAttempt returns, the deadline's timer fires.                    *)
Fairness ==
  /\ \A c \in Conds : WF_vars(Step(c))
  /\ \A c \in Conds : WF_vars(ctxErr # "none" /\ CheckReturns(c))
  /\ WF_vars(DeadlineFires)
  /\ WF_vars(RunReturns)

Spec == Init /\ [][Next]_vars /\ Fairness
-----------------------------------------------------------------------------
(* Properties.                                                             *)

Returned == outcome # "none"

(* Checks of one inner condition never overlap, whichever wrappers or      *)
(* copies of it the run was given (conditionGates, acquireConditionGate).  *)
ChecksSerialized ==
  \A c, d \in Conds :
    /\ GateOf[c] = GateOf[d]
    /\ pc[c] \in {"check", "judge"}
    /\ pc[d] \in {"check", "judge"}
    => c = d

(* A run that reports success has every ready condition (any: one of them) *)
(* marked satisfied in its report, and no condition marked fatal: the      *)
(* counter and the swap on terminal agree with records written later.      *)
SatisfiedIsEarned ==
  outcome = "satisfied" =>
    /\ OutcomeSatisfied
    /\ \A c \in Conds : ~ rec[c].fatal

(* A run that reports a timeout or a cancellation was ended by the         *)
(* deadline or by its caller, not by its own cancel(), and neither failed  *)
(* nor completed: a completion racing the deadline is never lost.          *)
GiveUpIsHonest ==
  outcome \in {"timeout", "cancelled"} =>
    /\ outcome = "timeout" => ctxErr = "deadline"
    /\ outcome = "cancelled" => parentDone
    /\ ~ OutcomeSatisfied
    /\ \A c \in Conds : ~ rec[c].fatal

(* However many conditions fail at once, a returned report blames exactly  *)
(* one of them if it is fatal, and none otherwise.                         *)
OneFatalRecord ==
  Returned =>
    Cardinality({c \in Conds : rec[c].fatal}) = IF outcome = "fatal" THEN 1 ELSE 0

(* When Run returns nothing of the run is still going on: every recorded   *)
(* attempt has been announced to OnAttempt exactly once and every callback *)
(* has returned, so no progress line follows the summary.                  *)
ReportMatchesProgress ==
  Returned =>
    /\ recorder = NoOne
    /\ \A c \in Conds : pc[c] = "done" /\ emitted[c] = rec[c].attempts

(* Once the context is done, a goroutine that has not yet judged its check *)
(* records nothing more: answers that come after the deadline or after the *)
(* run was decided are ignored.                                            *)
Undecided == {"poll", "gate", "check", "judge", "wait", "done"}
NoLateRecord ==
  [][ \A c \in Conds :
        ctxErr # "none" /\ pc[c] \in Undecided =>
          pc'[c] \in Undecided /\ rec'[c] = rec[c] ]_vars

(* Run returns, whatever the backends, the callbacks' order, the shared    *)
(* gates and the caller do.                                                *)
EventuallyReturns == <>Returned

(* The run keeps the contract: a condition is satisfied from the moment    *)
(* its goroutine has an accepted success, and failed from the moment its   *)
(* fatal result won the swap.                                              *)
Accepted(c) ==
  \/ rec[c].satisfied
  \/ result[c] = "satisfied" /\ pc[c] \in {"claim", "cancel", "record"}
Blamed(c) ==
  \/ rec[c].fatal
  \/ result[c] = "fatal" /\ pc[c] \in {"cancel", "record"}

Contract ==
  INSTANCE WaitContract WITH
    satisfied <- {c \in Ready : Accepted(c)},
    failed    <- {c \in Conds : Blamed(c)},
    verdict   <- terminal

KeepsContract == Contract!ContractSpec

(* The same without the fairness: every step of the runner is a step of    *)
(* the contract or leaves what the contract speaks of alone.               *)
ContractSteps == Contract!ContractInit /\ [][Contract!ContractNext]_(Contract!cvars)

(* docs/SPEC.md, "Runner": a fatal guard that completes after all required *)
(* readiness conditions have completed does not make the run fatal. The    *)
(* code promises less: between the decrement of readyRemaining to zero and *)
(* the swap on terminal, a guard still in flight can win the swap.         *)
LateGuardNeverFatal ==
  \A c \in Guards :
    [](Mode = "all" /\ readyRemaining = 0 /\ pc[c] = "check" => []~ rec[c].fatal)
=============================================================================

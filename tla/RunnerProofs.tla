---------------------------- MODULE RunnerProofs ----------------------------
(***************************************************************************)
(* Proofs about Runner for any number of conditions, gates and attempts,   *)
(* either mode and any stability threshold.                                *)
(*                                                                         *)
(* None of the safety properties is inductive: each depends on where the   *)
(* goroutines are between their atomic steps. IInv adds what every         *)
(* statement of runCondition knows: which results can be in flight at each *)
(* program counter, that terminal and the records agree on who was blamed, *)
(* and that readyRemaining counts the ready conditions not yet accepted.   *)
(***************************************************************************)
EXTENDS RunnerHistory, FiniteSetTheorems, TLAPS

Pending == {c \in Ready : ~ Accepted(c)}

(* What a goroutine's program counter says of its own result and record. *)
ResultInv ==
  \A c \in Conds :
    /\ pc[c] \in {"poll", "gate", "check", "wait"} => result[c] = "unsatisfied"
    /\ pc[c] \in {"apply", "claim", "cancel", "record", "emit", "callback"}
         => result[c] # "expired"
    /\ pc[c] \in {"claim", "cancel"} => result[c] # "unsatisfied"
    /\ c \in Guards => result[c] # "satisfied"
    /\ rec[c].satisfied => pc[c] \in {"emit", "callback",
          "done"} /\ result[c] = "satisfied"
    /\ rec[c].fatal => pc[c] \in {"emit", "callback",
          "done"} /\ result[c] = "fatal"
    /\ pc[c] \in {"emit", "callback"} =>
         /\ result[c] = "satisfied" => rec[c].satisfied
         /\ result[c] = "fatal" => rec[c].fatal

(* The two kinds of lock are held exactly inside their critical sections,  *)
(* and every attempt on record is announced or about to be.                *)
LockInv ==
  \A c \in Conds :
    /\ recorder = c <=> pc[c] = "callback"
    /\ holder[GateOf[c]] = c <=> pc[c] \in {"check", "judge"}
    /\ rec[c].attempts = emitted[c] + (IF pc[c] \in {"emit",
          "callback"} THEN 1 ELSE 0)

(* terminal is the verdict of exactly one goroutine. *)
BlameInv ==
  /\ \A c \in Conds : Blamed(c) => terminal = "fatal"
  /\ \A c, d \in Conds : Blamed(c) /\ Blamed(d) => c = d
  /\ \A c \in Conds : pc[c] = "cancel" => terminal # "none"
  /\ terminal = "fatal" => \E c \in Conds : Blamed(c)

(* The counter of ready conditions, and what its zero stands for. *)
CountInv ==
  /\ Mode = "all" => readyRemaining = Cardinality(Pending)
  /\ \A c \in Conds : Mode = "all" /\ pc[c] = "claim" /\ result[c] = "satisfied"
                        => Pending = {}
  /\ Mode = "all" /\ Pending = {} =>
       \/ terminal # "none"
       \/ \E c \in Conds : pc[c] = "claim" /\ result[c] = "satisfied"
  /\ \A c \in Conds : Mode = "any" /\ Accepted(c) =>
       terminal # "none" \/ pc[c] = "claim"
  /\ terminal = "satisfied" =>
       IF Mode = "any" THEN \E c \in Ready : Accepted(c) ELSE Pending = {}

(* Why a goroutine is done, why a context was cancelled, and what Run saw  *)
(* when it returned.                                                       *)
ExitInv ==
  /\ \A c \in Conds : pc[c] = "done" =>
       ctxErr # "none" \/ terminal # "none" \/ rec[c].satisfied
  /\ ctxErr = "canceled" => parentDone \/ terminal # "none"
  /\ Returned => outcome = FinalStatus /\ \A c \in Conds : pc[c] = "done"

IInv == TypeOK /\ ResultInv /\ LockInv /\ BlameInv /\ CountInv /\ ExitInv

-----------------------------------------------------------------------------
(* What a goroutine's program counter says of its result is preserved.    *)
LEMMA ResultStep ==
  ASSUME RunnerAssumption, TypeOK, ResultInv, [Next]_vars
  PROVE  ResultInv'
PROOF
<1> USE DEF vars, local, shared, locks, report, context, ResultInv, TypeOK,
      Goto, RunnerAssumption, Ready, Statuses, CheckResult, StabilitySatisfied
<1>1. ASSUME NEW c \in Conds, PollTop(c) PROVE ResultInv'
  BY <1>1 DEF PollTop
<1>2. ASSUME NEW c \in Conds, AcquireGate(c) PROVE ResultInv'
  BY <1>2 DEF AcquireGate
<1>3. ASSUME NEW c \in Conds, AbandonGate(c) PROVE ResultInv'
  BY <1>3 DEF AbandonGate
<1>4. ASSUME NEW c \in Conds, CheckReturns(c) PROVE ResultInv'
  BY <1>4 DEF CheckReturns
<1>5. ASSUME NEW c \in Conds, Judge(c) PROVE ResultInv'
  BY <1>5 DEF Judge
<1>6. ASSUME NEW c \in Conds, Apply(c) PROVE ResultInv'
  BY <1>6 DEF Apply
<1>7. ASSUME NEW c \in Conds, Claim(c) PROVE ResultInv'
  BY <1>7 DEF Claim
<1>8. ASSUME NEW c \in Conds, Cancel(c) PROVE ResultInv'
  BY <1>8 DEF Cancel
<1>9. ASSUME NEW c \in Conds, Record(c) PROVE ResultInv'
  BY <1>9 DEF Record
<1>10. ASSUME NEW c \in Conds, Emit(c) PROVE ResultInv'
  BY <1>10 DEF Emit
<1>11. ASSUME NEW c \in Conds, CallbackReturns(c) PROVE ResultInv'
  BY <1>11 DEF CallbackReturns
<1>12. ASSUME NEW c \in Conds, TimerFires(c) PROVE ResultInv'
  BY <1>12 DEF TimerFires
<1>13. ASSUME NEW c \in Conds, AbandonWait(c) PROVE ResultInv'
  BY <1>13 DEF AbandonWait
<1>14. ASSUME NEW c \in Conds, StreakAges(c) PROVE ResultInv'
  BY <1>14 DEF StreakAges
<1>15. CASE DeadlineFires
  BY <1>15 DEF DeadlineFires
<1>16. CASE ParentCancels
  BY <1>16 DEF ParentCancels
<1>17. CASE RunReturns
  BY <1>17 DEF RunReturns
<1>18. CASE Terminated
  BY <1>18 DEF Terminated
<1>19. CASE UNCHANGED vars
  BY <1>19
<1>20. QED
  BY <1>1, <1>2, <1>3, <1>4, <1>5, <1>6, <1>7, <1>8, <1>9, <1>10, <1>11, <1>12,
        <1>13, <1>14, <1>15, <1>16, <1>17, <1>18, <1>19 DEF Next, Step

(* The gates and the recorder's mutex are held where they should be: only *)
(* AcquireGate, Judge, Emit and CallbackReturns touch them.               *)
LEMMA LockStep ==
  ASSUME RunnerAssumption, TypeOK, LockInv, [Next]_vars
  PROVE  LockInv'
PROOF
<1> USE DEF vars, local, shared, locks, report, context, LockInv, TypeOK, Goto,
      RunnerAssumption
<1>1. ASSUME NEW c \in Conds, PollTop(c) PROVE LockInv'
  BY <1>1 DEF PollTop
<1>2. ASSUME NEW c \in Conds, AcquireGate(c) PROVE LockInv'
  BY <1>2 DEF AcquireGate
<1>3. ASSUME NEW c \in Conds, AbandonGate(c) PROVE LockInv'
  BY <1>3 DEF AbandonGate
<1>4. ASSUME NEW c \in Conds, CheckReturns(c) PROVE LockInv'
  BY <1>4 DEF CheckReturns
<1>5. ASSUME NEW c \in Conds, Judge(c) PROVE LockInv'
  BY <1>5 DEF Judge
<1>6. ASSUME NEW c \in Conds, Apply(c) PROVE LockInv'
  BY <1>6 DEF Apply
<1>7. ASSUME NEW c \in Conds, Claim(c) PROVE LockInv'
  BY <1>7 DEF Claim
<1>8. ASSUME NEW c \in Conds, Cancel(c) PROVE LockInv'
  BY <1>8 DEF Cancel
<1>9. ASSUME NEW c \in Conds, Record(c) PROVE LockInv'
  BY <1>9 DEF Record
<1>10. ASSUME NEW c \in Conds, Emit(c) PROVE LockInv'
  BY <1>10 DEF Emit
<1>11. ASSUME NEW c \in Conds, CallbackReturns(c) PROVE LockInv'
  BY <1>11 DEF CallbackReturns
<1>12. ASSUME NEW c \in Conds, TimerFires(c) PROVE LockInv'
  BY <1>12 DEF TimerFires
<1>13. ASSUME NEW c \in Conds, AbandonWait(c) PROVE LockInv'
  BY <1>13 DEF AbandonWait
<1>14. ASSUME NEW c \in Conds, StreakAges(c) PROVE LockInv'
  BY <1>14 DEF StreakAges
<1>15. CASE DeadlineFires
  BY <1>15 DEF DeadlineFires
<1>16. CASE ParentCancels
  BY <1>16 DEF ParentCancels
<1>17. CASE RunReturns
  BY <1>17 DEF RunReturns
<1>18. CASE Terminated
  BY <1>18 DEF Terminated
<1>19. CASE UNCHANGED vars
  BY <1>19
<1>20. QED
  BY <1>1, <1>2, <1>3, <1>4, <1>5, <1>6, <1>7, <1>8, <1>9, <1>10, <1>11, <1>12,
        <1>13, <1>14, <1>15, <1>16, <1>17, <1>18, <1>19 DEF Next, Step

(* At most one goroutine is blamed, and only the winner of the swap: a    *)
(* loser leaves without a record.                                         *)
LEMMA BlameStep ==
  ASSUME RunnerAssumption, TypeOK, ResultInv, BlameInv, [Next]_vars
  PROVE  BlameInv'
PROOF
<1> USE DEF vars, local, shared, locks, report, context, BlameInv, ResultInv,
      TypeOK, Goto, RunnerAssumption, Blamed, Ready, Statuses, CheckResult
<1>1. ASSUME NEW c \in Conds, PollTop(c) PROVE BlameInv'
  BY <1>1 DEF PollTop
<1>2. ASSUME NEW c \in Conds, AcquireGate(c) PROVE BlameInv'
  BY <1>2 DEF AcquireGate
<1>3. ASSUME NEW c \in Conds, AbandonGate(c) PROVE BlameInv'
  BY <1>3 DEF AbandonGate
<1>4. ASSUME NEW c \in Conds, CheckReturns(c) PROVE BlameInv'
  BY <1>4 DEF CheckReturns
<1>5. ASSUME NEW c \in Conds, Judge(c) PROVE BlameInv'
  BY <1>5 DEF Judge
<1>6. ASSUME NEW c \in Conds, Apply(c) PROVE BlameInv'
  BY <1>6 DEF Apply
<1>7. ASSUME NEW c \in Conds, Claim(c) PROVE BlameInv'
  BY <1>7 DEF Claim
<1>8. ASSUME NEW c \in Conds, Cancel(c) PROVE BlameInv'
  BY <1>8 DEF Cancel
<1>9. ASSUME NEW c \in Conds, Record(c) PROVE BlameInv'
  <2>1. \A d \in Conds : Blamed(d)' <=> Blamed(d)
    BY <1>9 DEF Record
  <2>2. terminal' = terminal /\ \A d \in Conds : pc'[d] = "cancel" => pc[d] = "cancel"
    BY <1>9 DEF Record
  <2>. HIDE DEF Blamed
  <2>. QED
    BY <1>9, <2>1, <2>2
<1>10. ASSUME NEW c \in Conds, Emit(c) PROVE BlameInv'
  BY <1>10 DEF Emit
<1>11. ASSUME NEW c \in Conds, CallbackReturns(c) PROVE BlameInv'
  BY <1>11 DEF CallbackReturns
<1>12. ASSUME NEW c \in Conds, TimerFires(c) PROVE BlameInv'
  BY <1>12 DEF TimerFires
<1>13. ASSUME NEW c \in Conds, AbandonWait(c) PROVE BlameInv'
  BY <1>13 DEF AbandonWait
<1>14. ASSUME NEW c \in Conds, StreakAges(c) PROVE BlameInv'
  BY <1>14 DEF StreakAges
<1>15. CASE DeadlineFires
  BY <1>15 DEF DeadlineFires
<1>16. CASE ParentCancels
  BY <1>16 DEF ParentCancels
<1>17. CASE RunReturns
  BY <1>17 DEF RunReturns
<1>18. CASE Terminated
  BY <1>18 DEF Terminated
<1>19. CASE UNCHANGED vars
  BY <1>19
<1>20. QED
  BY <1>1, <1>2, <1>3, <1>4, <1>5, <1>6, <1>7, <1>8, <1>9, <1>10, <1>11, <1>12,
        <1>13, <1>14, <1>15, <1>16, <1>17, <1>18, <1>19 DEF Next, Step

(* A goroutine only leaves for a reason, and Run only after all of them.  *)
LEMMA ExitStep ==
  ASSUME RunnerAssumption, TypeOK, ResultInv, BlameInv, ExitInv, [Next]_vars
  PROVE  ExitInv'
PROOF
<1> USE DEF vars, local, shared, locks, report, context, ExitInv, BlameInv,
      ResultInv, TypeOK, Goto, RunnerAssumption, Blamed, Returned, FinalStatus,
      OutcomeSatisfied, Statuses
<1>1. ASSUME NEW c \in Conds, PollTop(c) PROVE ExitInv'
  BY <1>1 DEF PollTop
<1>2. ASSUME NEW c \in Conds, AcquireGate(c) PROVE ExitInv'
  BY <1>2 DEF AcquireGate
<1>3. ASSUME NEW c \in Conds, AbandonGate(c) PROVE ExitInv'
  BY <1>3 DEF AbandonGate
<1>4. ASSUME NEW c \in Conds, CheckReturns(c) PROVE ExitInv'
  BY <1>4 DEF CheckReturns
<1>5. ASSUME NEW c \in Conds, Judge(c) PROVE ExitInv'
  BY <1>5 DEF Judge
<1>6. ASSUME NEW c \in Conds, Apply(c) PROVE ExitInv'
  BY <1>6 DEF Apply
<1>7. ASSUME NEW c \in Conds, Claim(c) PROVE ExitInv'
  BY <1>7 DEF Claim
<1>8. ASSUME NEW c \in Conds, Cancel(c) PROVE ExitInv'
  BY <1>8 DEF Cancel
<1>9. ASSUME NEW c \in Conds, Record(c) PROVE ExitInv'
  BY <1>9 DEF Record
<1>10. ASSUME NEW c \in Conds, Emit(c) PROVE ExitInv'
  BY <1>10 DEF Emit
<1>11. ASSUME NEW c \in Conds, CallbackReturns(c) PROVE ExitInv'
  BY <1>11 DEF CallbackReturns
<1>12. ASSUME NEW c \in Conds, TimerFires(c) PROVE ExitInv'
  BY <1>12 DEF TimerFires
<1>13. ASSUME NEW c \in Conds, AbandonWait(c) PROVE ExitInv'
  BY <1>13 DEF AbandonWait
<1>14. ASSUME NEW c \in Conds, StreakAges(c) PROVE ExitInv'
  BY <1>14 DEF StreakAges
<1>15. CASE DeadlineFires
  BY <1>15 DEF DeadlineFires
<1>16. CASE ParentCancels
  BY <1>16 DEF ParentCancels
<1>17. CASE RunReturns
  BY <1>17 DEF RunReturns
<1>18. CASE Terminated
  BY <1>18 DEF Terminated
<1>19. CASE UNCHANGED vars
  BY <1>19
<1>20. QED
  BY <1>1, <1>2, <1>3, <1>4, <1>5, <1>6, <1>7, <1>8, <1>9, <1>10, <1>11, <1>12,
        <1>13, <1>14, <1>15, <1>16, <1>17, <1>18, <1>19 DEF Next, Step

(* The ready conditions still pending can be counted. *)
LEMMA PendingFinite ==
  ASSUME RunnerAssumption
  PROVE  IsFiniteSet(Pending)
BY FS_Subset DEF RunnerAssumption, Pending, Ready

(* The counter follows the set of pending conditions: Apply takes out one *)
(* condition and decrements once, every other step leaves both alone.      *)
LEMMA CountStep ==
  ASSUME RunnerAssumption, TypeOK, ResultInv, CountInv, [Next]_vars
  PROVE  CountInv'
PROOF
<1> USE DEF vars, local, shared, locks, report, context, CountInv, ResultInv,
      TypeOK, Goto, RunnerAssumption
<1>1. ASSUME NEW c \in Conds, PollTop(c) PROVE CountInv'
  <2>1. \A d \in Conds : Accepted(d)' <=> Accepted(d)
    BY <1>1 DEF PollTop, Accepted
  <2>2. Pending' = Pending
    BY <2>1 DEF Pending, Ready
  <2>. QED
    BY <1>1, <2>1, <2>2 DEF PollTop, Ready
<1>2. ASSUME NEW c \in Conds, AcquireGate(c) PROVE CountInv'
  <2>1. \A d \in Conds : Accepted(d)' <=> Accepted(d)
    BY <1>2 DEF AcquireGate, Accepted
  <2>2. Pending' = Pending
    BY <2>1 DEF Pending, Ready
  <2>. QED
    BY <1>2, <2>1, <2>2 DEF AcquireGate, Ready
<1>3. ASSUME NEW c \in Conds, AbandonGate(c) PROVE CountInv'
  <2>1. \A d \in Conds : Accepted(d)' <=> Accepted(d)
    BY <1>3 DEF AbandonGate, Accepted
  <2>2. Pending' = Pending
    BY <2>1 DEF Pending, Ready
  <2>. QED
    BY <1>3, <2>1, <2>2 DEF AbandonGate, Ready
<1>4. ASSUME NEW c \in Conds, CheckReturns(c) PROVE CountInv'
  <2>1. \A d \in Conds : Accepted(d)' <=> Accepted(d)
    BY <1>4 DEF CheckReturns, Accepted
  <2>2. Pending' = Pending
    BY <2>1 DEF Pending, Ready
  <2>. QED
    BY <1>4, <2>1, <2>2 DEF CheckReturns, Ready
<1>5. ASSUME NEW c \in Conds, Judge(c) PROVE CountInv'
  <2>1. \A d \in Conds : Accepted(d)' <=> Accepted(d)
    BY <1>5 DEF Judge, Accepted
  <2>2. Pending' = Pending
    BY <2>1 DEF Pending, Ready
  <2>. QED
    BY <1>5, <2>1, <2>2 DEF Judge, Ready
<1>6. ASSUME NEW c \in Conds, Apply(c) PROVE CountInv'
  <2>1. result'[c] = "satisfied" => c \in Ready /\ result[c] = "satisfied"
    BY <1>6 DEF Apply, Ready
  <2>2. CASE result'[c] = "satisfied"
    <3>1. c \in Pending /\ ~ Accepted(c)
      BY <1>6, <2>1, <2>2 DEF Apply, Pending, Accepted
    <3>2. \A d \in Conds : Accepted(d)' <=> Accepted(d) \/ d = c
      BY <1>6, <2>2 DEF Apply, Accepted, StabilitySatisfied
    <3>3. Pending' = Pending \ {c}
      BY <3>1, <3>2 DEF Pending, Ready
    <3>4. Cardinality(Pending') = Cardinality(Pending) - 1 /\ Cardinality(Pending') \in Nat
      BY <3>1, <3>3, PendingFinite, FS_RemoveElement, FS_CardinalityType
    <3>5. Pending' = {} <=> Cardinality(Pending') = 0
      BY <3>3, PendingFinite, FS_RemoveElement, FS_EmptySet
    <3>6. Mode = "all" => readyRemaining' = Cardinality(Pending')
      BY <1>6, <2>1, <2>2, <3>4 DEF Apply
    <3>7. Mode = "all" => (pc'[c] = "claim" <=> readyRemaining' = 0)
      BY <1>6, <2>1, <2>2 DEF Apply
    <3>8. Mode = "any" => pc'[c] = "claim"
      BY <1>6, <2>1, <2>2 DEF Apply
    <3>9. /\ terminal' = terminal
          /\ \A d \in Conds \ {c} : pc'[d] = pc[d] /\ result'[d] = result[d]
      BY <1>6 DEF Apply
    <3>10. c \in Ready
      BY <3>1 DEF Pending
    <3>. QED
      BY <2>2, <3>1, <3>2, <3>3, <3>5, <3>6, <3>7, <3>8, <3>9, <3>10 DEF Ready
  <2>3. CASE result'[c] # "satisfied"
    <3>1. \A d \in Conds : Accepted(d)' <=> Accepted(d)
      BY <1>6, <2>3 DEF Apply, Accepted
    <3>2. Pending' = Pending
      BY <3>1 DEF Pending, Ready
    <3>3. readyRemaining' = readyRemaining /\ terminal' = terminal
      BY <1>6, <2>3 DEF Apply
    <3>. QED
      BY <1>6, <2>3, <3>1, <3>2, <3>3 DEF Apply, Ready
  <2>. QED
    BY <2>2, <2>3
<1>7. ASSUME NEW c \in Conds, Claim(c) PROVE CountInv'
  <2>1. \A d \in Conds : Accepted(d)' <=> Accepted(d)
    BY <1>7 DEF Claim, Accepted
  <2>2. Pending' = Pending
    BY <2>1 DEF Pending, Ready
  <2>3. readyRemaining' = readyRemaining /\ result' = result /\ terminal' # "none"
    BY <1>7 DEF Claim, Statuses
  <2>4. \A d \in Conds : pc'[d] = "claim" => pc[d] = "claim"
    BY <1>7 DEF Claim
  <2>5. CASE terminal = "none" /\ result[c] = "satisfied"
    <3>1. c \in Ready
      BY <1>7, <2>5 DEF Ready
    <3>2. Mode = "any" => Accepted(c)
      BY <1>7, <2>5 DEF Claim, Accepted
    <3>3. Mode = "all" => Pending = {}
      BY <1>7, <2>5 DEF Claim
    <3>. QED
      BY <2>1, <2>2, <2>3, <2>4, <3>1, <3>2, <3>3 DEF Ready
  <2>6. CASE ~ (terminal = "none" /\ result[c] = "satisfied")
    <3>1. terminal' = "satisfied" => terminal = "satisfied"
      BY <1>7, <2>6 DEF Claim
    <3>. QED
      BY <2>1, <2>2, <2>3, <2>4, <3>1 DEF Ready
  <2>. QED
    BY <2>5, <2>6
<1>8. ASSUME NEW c \in Conds, Cancel(c) PROVE CountInv'
  <2>1. \A d \in Conds : Accepted(d)' <=> Accepted(d)
    BY <1>8 DEF Cancel, Accepted
  <2>2. Pending' = Pending
    BY <2>1 DEF Pending, Ready
  <2>. QED
    BY <1>8, <2>1, <2>2 DEF Cancel, Ready
<1>9. ASSUME NEW c \in Conds, Record(c) PROVE CountInv'
  <2>1. \A d \in Conds : Accepted(d)' <=> Accepted(d)
    BY <1>9 DEF Record, Accepted
  <2>2. Pending' = Pending
    BY <2>1 DEF Pending, Ready
  <2>. QED
    BY <1>9, <2>1, <2>2 DEF Record, Ready
<1>10. ASSUME NEW c \in Conds, Emit(c) PROVE CountInv'
  <2>1. \A d \in Conds : Accepted(d)' <=> Accepted(d)
    BY <1>10 DEF Emit, Accepted
  <2>2. Pending' = Pending
    BY <2>1 DEF Pending, Ready
  <2>. QED
    BY <1>10, <2>1, <2>2 DEF Emit, Ready
<1>11. ASSUME NEW c \in Conds, CallbackReturns(c) PROVE CountInv'
  <2>1. \A d \in Conds : Accepted(d)' <=> Accepted(d)
    BY <1>11 DEF CallbackReturns, Accepted
  <2>2. Pending' = Pending
    BY <2>1 DEF Pending, Ready
  <2>. QED
    BY <1>11, <2>1, <2>2 DEF CallbackReturns, Ready
<1>12. ASSUME NEW c \in Conds, TimerFires(c) PROVE CountInv'
  <2>1. \A d \in Conds : Accepted(d)' <=> Accepted(d)
    BY <1>12 DEF TimerFires, Accepted
  <2>2. Pending' = Pending
    BY <2>1 DEF Pending, Ready
  <2>. QED
    BY <1>12, <2>1, <2>2 DEF TimerFires, Ready
<1>13. ASSUME NEW c \in Conds, AbandonWait(c) PROVE CountInv'
  <2>1. \A d \in Conds : Accepted(d)' <=> Accepted(d)
    BY <1>13 DEF AbandonWait, Accepted
  <2>2. Pending' = Pending
    BY <2>1 DEF Pending, Ready
  <2>. QED
    BY <1>13, <2>1, <2>2 DEF AbandonWait, Ready
<1>14. ASSUME NEW c \in Conds, StreakAges(c) PROVE CountInv'
  <2>1. \A d \in Conds : Accepted(d)' <=> Accepted(d)
    BY <1>14 DEF StreakAges, Accepted
  <2>2. Pending' = Pending
    BY <2>1 DEF Pending, Ready
  <2>. QED
    BY <1>14, <2>1, <2>2 DEF StreakAges, Ready
<1>15. CASE DeadlineFires
  BY <1>15 DEF DeadlineFires, Pending, Accepted, Ready
<1>16. CASE ParentCancels
  BY <1>16 DEF ParentCancels, Pending, Accepted, Ready
<1>17. CASE RunReturns
  BY <1>17 DEF RunReturns, Pending, Accepted, Ready
<1>18. CASE Terminated
  BY <1>18 DEF Terminated, Pending, Accepted, Ready
<1>19. CASE UNCHANGED vars
  BY <1>19 DEF Pending, Accepted, Ready
<1>20. QED
  BY <1>1, <1>2, <1>3, <1>4, <1>5, <1>6, <1>7, <1>8, <1>9, <1>10, <1>11, <1>12,
        <1>13, <1>14, <1>15, <1>16, <1>17, <1>18, <1>19 DEF Next, Step

(* Types are preserved; the counter stays a natural number because the    *)
(* condition that decrements it was pending.                               *)
LEMMA TypeStep ==
  ASSUME RunnerAssumption, IInv, [Next]_vars
  PROVE  TypeOK'
PROOF
<1> USE DEF vars, local, shared, locks, report, context, IInv, TypeOK, Goto,
      RunnerAssumption, Statuses, PCs, CheckResult, FinalStatus
<1>1. ASSUME NEW c \in Conds, PollTop(c) PROVE TypeOK'
  BY <1>1 DEF PollTop
<1>2. ASSUME NEW c \in Conds, AcquireGate(c) PROVE TypeOK'
  BY <1>2 DEF AcquireGate
<1>3. ASSUME NEW c \in Conds, AbandonGate(c) PROVE TypeOK'
  BY <1>3 DEF AbandonGate
<1>4. ASSUME NEW c \in Conds, CheckReturns(c) PROVE TypeOK'
  BY <1>4 DEF CheckReturns
<1>5. ASSUME NEW c \in Conds, Judge(c) PROVE TypeOK'
  BY <1>5 DEF Judge
<1>6. ASSUME NEW c \in Conds, Apply(c) PROVE TypeOK'
  <2>1. CASE /\ Mode = "all"
             /\ result'[c] = "satisfied"
             /\ c \in Ready
    <3>1. c \in Pending
      BY <1>6, <2>1 DEF Apply, Pending, Accepted, IInv, ResultInv
    <3>2. Cardinality(Pending \ {c}) \in Nat /\ Cardinality(Pending \ {c}) = Cardinality(Pending) - 1
      BY <3>1, PendingFinite, FS_RemoveElement, FS_CardinalityType
    <3>3. readyRemaining - 1 \in Nat
      BY <2>1, <3>2 DEF CountInv
    <3>. QED
      BY <1>6, <2>1, <3>3 DEF Apply, IInv
  <2>2. CASE ~ (/\ Mode = "all"
                /\ result'[c] = "satisfied"
                /\ c \in Ready)
    <3>1. readyRemaining' = readyRemaining
      BY <1>6, <2>2 DEF Apply, IInv
    <3>. QED
      BY <1>6, <3>1 DEF Apply, IInv
  <2>. QED
    BY <2>1, <2>2
<1>7. ASSUME NEW c \in Conds, Claim(c) PROVE TypeOK'
  BY <1>7 DEF Claim, ResultInv
<1>8. ASSUME NEW c \in Conds, Cancel(c) PROVE TypeOK'
  BY <1>8 DEF Cancel
<1>9. ASSUME NEW c \in Conds, Record(c) PROVE TypeOK'
  BY <1>9 DEF Record
<1>10. ASSUME NEW c \in Conds, Emit(c) PROVE TypeOK'
  BY <1>10 DEF Emit
<1>11. ASSUME NEW c \in Conds, CallbackReturns(c) PROVE TypeOK'
  BY <1>11 DEF CallbackReturns
<1>12. ASSUME NEW c \in Conds, TimerFires(c) PROVE TypeOK'
  BY <1>12 DEF TimerFires
<1>13. ASSUME NEW c \in Conds, AbandonWait(c) PROVE TypeOK'
  BY <1>13 DEF AbandonWait
<1>14. ASSUME NEW c \in Conds, StreakAges(c) PROVE TypeOK'
  BY <1>14 DEF StreakAges
<1>15. CASE DeadlineFires
  BY <1>15 DEF DeadlineFires
<1>16. CASE ParentCancels
  BY <1>16 DEF ParentCancels
<1>17. CASE RunReturns
  BY <1>17 DEF RunReturns
<1>18. CASE Terminated
  BY <1>18 DEF Terminated
<1>19. CASE UNCHANGED vars
  BY <1>19
<1>20. QED
  BY <1>1, <1>2, <1>3, <1>4, <1>5, <1>6, <1>7, <1>8, <1>9, <1>10, <1>11, <1>12,
        <1>13, <1>14, <1>15, <1>16, <1>17, <1>18, <1>19 DEF Next, Step

(* The invariant holds when the goroutines start. *)
LEMMA InitIInv ==
  ASSUME RunnerAssumption, Init
  PROVE  IInv
PROOF
<1> USE DEF Init, Ready, RunnerAssumption
<1>1. Pending = Ready
  BY DEF Pending, Accepted
<1>2. IsFiniteSet(Ready) /\ Cardinality(Ready) \in Nat
  BY FS_Subset, FS_CardinalityType
<1>3. TypeOK
  BY <1>2 DEF TypeOK, PCs, Statuses
<1>4. ResultInv /\ LockInv /\ BlameInv /\ ExitInv
  BY DEF ResultInv, LockInv, BlameInv, ExitInv, Blamed, Returned
<1>5. CountInv
  BY <1>1 DEF CountInv, Accepted
<1>. QED
  BY <1>3, <1>4, <1>5 DEF IInv

(* IInv is an inductive invariant: every statement of every goroutine, the *)
(* clock, the caller and Run preserve it.                                  *)
THEOREM Invariance == Spec => []IInv
PROOF
<1>1. Init => IInv
  BY InitIInv, RunnerAssumption
<1>2. IInv /\ [Next]_vars => IInv'
  BY ResultStep, LockStep, BlameStep, ExitStep, CountStep, TypeStep,
        RunnerAssumption
     DEF IInv
<1>. QED
  BY <1>1, <1>2, PTL DEF Spec

(* Every variable keeps its type; in particular readyRemaining never goes  *)
(* below zero (resultEndsCondition decrements it once per condition).      *)
THEOREM TypeCorrect == Spec => []TypeOK
PROOF
<1>1. IInv => TypeOK
  BY DEF IInv
<1>. QED
  BY <1>1, Invariance, PTL

(* Two checks of one inner condition are never under way together.         *)
THEOREM Serialization == Spec => []ChecksSerialized
PROOF
<1>1. IInv => ChecksSerialized
  BY DEF IInv, LockInv, ChecksSerialized
<1>. QED
  BY <1>1, Invariance, PTL

(* A run reported satisfied is satisfied in its records, with no fatal     *)
(* record, although the records are written after the verdict.             *)
THEOREM SatisfiedRunsEarned == Spec => []SatisfiedIsEarned
PROOF
<1>1. ASSUME RunnerAssumption, IInv, outcome = "satisfied"
      PROVE  OutcomeSatisfied /\ \A c \in Conds : ~ rec[c].fatal
  <2>1. /\ outcome = FinalStatus
        /\ \A c \in Conds : pc[c] = "done"
    BY <1>1 DEF IInv, ExitInv, Returned
  <2>2. \A c \in Conds : (Accepted(c) <=> rec[c].satisfied) /\ (Blamed(c) <=> rec[c].fatal)
    BY <2>1 DEF Accepted, Blamed
  <2>3. terminal = "satisfied" \/ (terminal = "none" /\ OutcomeSatisfied)
    BY <1>1, <2>1 DEF FinalStatus, IInv, TypeOK
  <2>4. OutcomeSatisfied
    BY <1>1, <2>2, <2>3 DEF OutcomeSatisfied, IInv, CountInv, Pending, Ready
  <2>5. \A c \in Conds : ~ rec[c].fatal
    BY <1>1, <2>2, <2>3 DEF IInv, BlameInv
  <2>. QED
    BY <2>4, <2>5
<1>2. IInv => SatisfiedIsEarned
  BY <1>1, RunnerAssumption DEF SatisfiedIsEarned
<1>. QED
  BY <1>2, Invariance, PTL

(* A run reported timed out or cancelled was ended by its deadline or its  *)
(* caller, and was neither complete nor stopped by a fatal result.         *)
THEOREM GiveUpsAreHonest == Spec => []GiveUpIsHonest
PROOF
<1>1. ASSUME RunnerAssumption, IInv, outcome \in {"timeout", "cancelled"}
      PROVE  /\ outcome = "timeout" => ctxErr = "deadline"
             /\ outcome = "cancelled" => parentDone
             /\ ~ OutcomeSatisfied
             /\ \A c \in Conds : ~ rec[c].fatal
  <2>1. /\ outcome = FinalStatus
        /\ \A c \in Conds : pc[c] = "done"
    BY <1>1 DEF IInv, ExitInv, Returned
  <2>2. /\ terminal = "none"
        /\ \A c \in Conds : ~ rec[c].fatal
        /\ ~ OutcomeSatisfied
        /\ outcome = IF ctxErr = "deadline" THEN "timeout" ELSE "cancelled"
    BY <1>1, <2>1 DEF FinalStatus, IInv, TypeOK
  <2>3. ctxErr = "none" => \A c \in Conds : rec[c].satisfied
    BY <1>1, <2>1, <2>2 DEF IInv, ExitInv
  <2>4. ctxErr # "none"
    BY <1>1, <2>2, <2>3 DEF OutcomeSatisfied, Ready, RunnerAssumption
  <2>. QED
    BY <1>1, <2>2, <2>4 DEF IInv, TypeOK, ExitInv
<1>2. IInv => GiveUpIsHonest
  BY <1>1, RunnerAssumption DEF GiveUpIsHonest
<1>. QED
  BY <1>2, Invariance, PTL

(* A returned report has one fatal record if the run is fatal, else none. *)
THEOREM OneIsBlamed == Spec => []OneFatalRecord
PROOF
<1>1. ASSUME RunnerAssumption, IInv, Returned
      PROVE  Cardinality({c \in Conds : rec[c].fatal}) = IF outcome = "fatal" THEN 1 ELSE 0
  <2>1. /\ outcome = FinalStatus
        /\ \A c \in Conds : pc[c] = "done"
    BY <1>1 DEF IInv, ExitInv
  <2>2. \A c \in Conds : Blamed(c) <=> rec[c].fatal
    BY <2>1 DEF Blamed
  <2>3. CASE terminal = "fatal"
    <3>1. outcome = "fatal"
      BY <2>1, <2>3 DEF FinalStatus
    <3>2. PICK c \in Conds : Blamed(c)
      BY <1>1, <2>3 DEF IInv, BlameInv
    <3>3. {d \in Conds : rec[d].fatal} = {c}
      BY <1>1, <2>2, <3>2 DEF IInv, BlameInv
    <3>. QED
      BY <3>1, <3>3, FS_Singleton
  <2>4. CASE terminal # "fatal"
    <3>1. \A c \in Conds : ~ rec[c].fatal
      BY <1>1, <2>2, <2>4 DEF IInv, BlameInv
    <3>2. outcome # "fatal"
      BY <2>1, <2>4, <3>1 DEF FinalStatus
    <3>. QED
      BY <3>1, <3>2, FS_EmptySet
  <2>. QED
    BY <2>3, <2>4
<1>2. IInv => OneFatalRecord
  BY <1>1, RunnerAssumption DEF OneFatalRecord
<1>. QED
  BY <1>2, Invariance, PTL

(* When Run has returned, every recorded attempt has been announced and no *)
(* callback is under way.                                                  *)
THEOREM ReportsMatch == Spec => []ReportMatchesProgress
PROOF
<1>1. IInv => ReportMatchesProgress
  BY DEF IInv, TypeOK, LockInv, ExitInv, ReportMatchesProgress, Returned
<1>. QED
  BY <1>1, Invariance, PTL

(* After the context is done, an undecided goroutine records nothing more. *)
THEOREM NothingLate == Spec => NoLateRecord
PROOF
<1> DEFINE Quiet == \A c \in Conds :
              ctxErr # "none" /\ pc[c] \in Undecided =>
                pc'[c] \in Undecided /\ rec'[c] = rec[c]
<1>1. ASSUME IInv, [Next]_vars PROVE Quiet
  <2> USE <1>1 DEF Undecided, IInv, TypeOK, Goto, vars, local, shared, locks,
        report, context
  <2>1. ASSUME NEW c \in Conds, PollTop(c) PROVE Quiet
    BY <2>1 DEF PollTop
  <2>2. ASSUME NEW c \in Conds, AcquireGate(c) PROVE Quiet
    BY <2>2 DEF AcquireGate
  <2>3. ASSUME NEW c \in Conds, AbandonGate(c) PROVE Quiet
    BY <2>3 DEF AbandonGate
  <2>4. ASSUME NEW c \in Conds, CheckReturns(c) PROVE Quiet
    BY <2>4 DEF CheckReturns
  <2>5. ASSUME NEW c \in Conds, Judge(c) PROVE Quiet
    BY <2>5 DEF Judge
  <2>6. ASSUME NEW c \in Conds, Apply(c) PROVE Quiet
    BY <2>6 DEF Apply
  <2>7. ASSUME NEW c \in Conds, Claim(c) PROVE Quiet
    BY <2>7 DEF Claim
  <2>8. ASSUME NEW c \in Conds, Cancel(c) PROVE Quiet
    BY <2>8 DEF Cancel
  <2>9. ASSUME NEW c \in Conds, Record(c) PROVE Quiet
    BY <2>9 DEF Record
  <2>10. ASSUME NEW c \in Conds, Emit(c) PROVE Quiet
    BY <2>10 DEF Emit
  <2>11. ASSUME NEW c \in Conds, CallbackReturns(c) PROVE Quiet
    BY <2>11 DEF CallbackReturns
  <2>12. ASSUME NEW c \in Conds, TimerFires(c) PROVE Quiet
    BY <2>12 DEF TimerFires
  <2>13. ASSUME NEW c \in Conds, AbandonWait(c) PROVE Quiet
    BY <2>13 DEF AbandonWait
  <2>14. ASSUME NEW c \in Conds, StreakAges(c) PROVE Quiet
    BY <2>14 DEF StreakAges
  <2>15. CASE DeadlineFires
    BY <2>15 DEF DeadlineFires
  <2>16. CASE ParentCancels
    BY <2>16 DEF ParentCancels
  <2>17. CASE RunReturns
    BY <2>17 DEF RunReturns
  <2>18. CASE Terminated
    BY <2>18 DEF Terminated
  <2>19. CASE UNCHANGED vars
    BY <2>19
  <2>20. QED
    BY <2>1, <2>2, <2>3, <2>4, <2>5, <2>6, <2>7, <2>8, <2>9, <2>10, <2>11,
          <2>12, <2>13, <2>14, <2>15, <2>16, <2>17, <2>18, <2>19 DEF Next,
          Step
<1>2. IInv /\ [Next]_vars => [Quiet]_vars
  BY <1>1
<1>. QED
  BY <1>2, Invariance, PTL DEF Spec, NoLateRecord, Quiet

-----------------------------------------------------------------------------
(* The runner implements the contract: a goroutine's accepted success is a *)
(* Satisfy, winning the swap is a Complete or a Fail, the return of Run is *)
(* a ReturnVerdict or a GiveUp, everything else is a stutter.              *)

CUnchanged == UNCHANGED (Contract!cvars)
Succeeded == {c \in Ready : Accepted(c)}
Failed == {c \in Conds : Blamed(c)}

(* A step that moves neither what is accepted and blamed nor terminal and *)
(* the outcome is a stutter of the contract.                               *)
LEMMA Frame ==
  ASSUME \A c \in Conds : Accepted(c)' <=> Accepted(c),
         \A c \in Conds : Blamed(c)' <=> Blamed(c),
         UNCHANGED <<terminal, outcome>>
  PROVE  CUnchanged
BY DEF CUnchanged, Contract!cvars, Ready

(* Judging a check is a Satisfy when it accepts a success, else a stutter. *)
LEMMA ApplyStep ==
  ASSUME RunnerAssumption, IInv, NEW c \in Conds, Apply(c)
  PROVE  Contract!ContractNext \/ CUnchanged
PROOF
<1> USE DEF IInv, TypeOK, Apply, Goto, shared, locks, report, context
<1>1. \A d \in Conds : ~ Blamed(c) /\ (Blamed(d)' <=> Blamed(d))
  BY DEF Blamed, ResultInv, Statuses
<1>2. CASE result'[c] = "satisfied"
  <2>1. c \in Ready /\ ~ Accepted(c)
    BY <1>2 DEF Ready, Accepted, ResultInv
  <2>2. \A d \in Conds : Accepted(d)' <=> Accepted(d) \/ d = c
    BY <1>2 DEF Accepted
  <2>3. Succeeded' = Succeeded \cup {c} /\ Failed' = Failed
    BY <1>1, <2>1, <2>2 DEF Succeeded, Failed, Ready
  <2>4. outcome = "none"
    BY DEF ExitInv, Returned
  <2>5. Contract!Satisfy(c)
    BY <1>1, <2>1, <2>3, <2>4 DEF Contract!Satisfy, Succeeded, Failed
  <2>. QED
    BY <2>1, <2>5 DEF Contract!ContractNext, Contract!ReadyConds, Ready
<1>3. CASE result'[c] # "satisfied"
  <2>1. \A d \in Conds : Accepted(d)' <=> Accepted(d)
    BY <1>3 DEF Accepted
  <2>. QED
    BY <1>1, <2>1, Frame
<1>. QED
  BY <1>2, <1>3

(* Winning the swap is a Fail or a Complete, losing it a stutter. *)
LEMMA ClaimStep ==
  ASSUME RunnerAssumption, IInv, NEW c \in Conds, Claim(c)
  PROVE  Contract!ContractNext \/ CUnchanged
PROOF
<1> USE DEF IInv, TypeOK, Claim, Goto, local, locks, report, context
<1>1. \A d \in Conds : Accepted(d)' <=> Accepted(d)
  BY DEF Accepted
<1>2. Succeeded' = Succeeded
  BY <1>1 DEF Succeeded, Ready
<1>3. outcome = "none" /\ ~ Blamed(c)
  BY DEF ExitInv, Returned, Blamed, ResultInv
<1>4. \A d \in Conds \ {c} : Blamed(d)' <=> Blamed(d)
  BY DEF Blamed
<1>5. CASE terminal = "none" /\ result[c] = "fatal"
  <2>1. \A d \in Conds : ~ Blamed(d)
    BY <1>5 DEF BlameInv
  <2>2. Blamed(c)'
    BY <1>5 DEF Blamed
  <2>3. Failed' = {c}
    BY <1>4, <2>1, <2>2 DEF Failed
  <2>4. c \notin Succeeded
    BY <1>5 DEF Succeeded, Accepted, ResultInv
  <2>5. Contract!Fail(c)
    BY <1>2, <1>3, <1>5, <2>3, <2>4 DEF Contract!Fail, Succeeded, Failed
  <2>. QED
    BY <2>5 DEF Contract!ContractNext
<1>6. CASE terminal = "none" /\ result[c] = "satisfied"
  <2>1. ~ Blamed(c)'
    BY <1>6 DEF Blamed, ResultInv
  <2>2. Failed' = Failed
    BY <1>3, <1>4, <2>1 DEF Failed
  <2>3. c \in Succeeded
    BY <1>6 DEF Succeeded, Accepted, Ready, ResultInv
  <2>4. Contract!Enough(Succeeded)
    BY <1>6, <2>3 DEF Contract!Enough, Contract!ReadyConds, RunnerAssumption,
                      CountInv, Pending, Succeeded, Ready
  <2>5. Contract!Complete
    BY <1>2, <1>3, <1>6, <2>2, <2>4 DEF Contract!Complete, Succeeded, Failed
  <2>. QED
    BY <2>5 DEF Contract!ContractNext
<1>7. CASE terminal # "none"
  <2>1. ~ Blamed(c)'
    BY <1>7 DEF Blamed, ResultInv
  <2>. QED
    BY <1>1, <1>3, <1>4, <1>7, <2>1, Frame
<1>8. result[c] \in {"fatal", "satisfied"}
  BY DEF ResultInv, Statuses
<1>. QED
  BY <1>5, <1>6, <1>7, <1>8

(* The return of Run is a ReturnVerdict or a GiveUp. *)
LEMMA ReturnStep ==
  ASSUME RunnerAssumption, IInv, RunReturns
  PROVE  Contract!ContractNext
PROOF
<1> USE DEF IInv, TypeOK, RunReturns, local, shared, locks, context
<1>1. \A c \in Conds : /\ Accepted(c) <=> rec[c].satisfied
                       /\ Blamed(c) <=> rec[c].fatal
                       /\ Accepted(c)' <=> Accepted(c)
                       /\ Blamed(c)' <=> Blamed(c)
  BY DEF Accepted, Blamed
<1>2. Succeeded' = Succeeded /\ Failed' = Failed
  BY <1>1 DEF Succeeded, Failed, Ready
<1>3. CASE terminal # "none"
  <2>1. Contract!ReturnVerdict
    BY <1>2, <1>3 DEF Contract!ReturnVerdict, FinalStatus, Succeeded, Failed
  <2>. QED
    BY <2>1 DEF Contract!ContractNext
<1>4. CASE terminal = "none"
  <2>1. \A c \in Conds : ~ rec[c].fatal
    BY <1>1, <1>4 DEF BlameInv
  <2>2. ~ Contract!Enough(Succeeded) /\ ~ OutcomeSatisfied
    BY <1>1, <1>4 DEF CountInv, Pending, Contract!Enough, Contract!ReadyConds,
                      Succeeded, OutcomeSatisfied, Ready, RunnerAssumption
  <2>3. outcome' \in {"timeout", "cancelled"}
    BY <1>4, <2>1, <2>2 DEF FinalStatus
  <2>4. Contract!GiveUp
    BY <1>2, <1>4, <2>2, <2>3 DEF Contract!GiveUp, Succeeded, Failed
  <2>. QED
    BY <2>4 DEF Contract!ContractNext
<1>. QED
  BY <1>3, <1>4

(* Every behaviour of the runner is one of the contract: verdicts are      *)
(* never overwritten, a give-up never hides a completion, and the status   *)
(* Run returns is the first terminal event (runner.go finalStatus).        *)
THEOREM Refinement == Spec => ContractSteps
PROOF
<1>1. ASSUME RunnerAssumption, Init PROVE Contract!ContractInit
  BY <1>1 DEF Init, Contract!ContractInit, Accepted, Blamed, Ready
<1>2. ASSUME RunnerAssumption, IInv, [Next]_vars
      PROVE  Contract!ContractNext \/ CUnchanged
  <2> USE <1>2 DEF IInv, TypeOK, Goto, vars, local, shared, locks, report,
        context
  <2>1. ASSUME NEW c \in Conds,
        PollTop(c) PROVE Contract!ContractNext \/ CUnchanged
    <3>1. \A d \in Conds : (Accepted(d)' <=> Accepted(d)) /\ (Blamed(d)' <=> Blamed(d))
      BY <2>1 DEF PollTop, Accepted, Blamed, ResultInv, CheckResult
    <3>. QED
      BY <2>1, <3>1, Frame DEF PollTop
  <2>2. ASSUME NEW c \in Conds,
        AcquireGate(c) PROVE Contract!ContractNext \/ CUnchanged
    <3>1. \A d \in Conds : (Accepted(d)' <=> Accepted(d)) /\ (Blamed(d)' <=> Blamed(d))
      BY <2>2 DEF AcquireGate, Accepted, Blamed, ResultInv, CheckResult
    <3>. QED
      BY <2>2, <3>1, Frame DEF AcquireGate
  <2>3. ASSUME NEW c \in Conds,
        AbandonGate(c) PROVE Contract!ContractNext \/ CUnchanged
    <3>1. \A d \in Conds : (Accepted(d)' <=> Accepted(d)) /\ (Blamed(d)' <=> Blamed(d))
      BY <2>3 DEF AbandonGate, Accepted, Blamed, ResultInv, CheckResult
    <3>. QED
      BY <2>3, <3>1, Frame DEF AbandonGate
  <2>4. ASSUME NEW c \in Conds,
        CheckReturns(c) PROVE Contract!ContractNext \/ CUnchanged
    <3>1. \A d \in Conds : (Accepted(d)' <=> Accepted(d)) /\ (Blamed(d)' <=> Blamed(d))
      BY <2>4 DEF CheckReturns, Accepted, Blamed, ResultInv, CheckResult
    <3>. QED
      BY <2>4, <3>1, Frame DEF CheckReturns
  <2>5. ASSUME NEW c \in Conds,
        Judge(c) PROVE Contract!ContractNext \/ CUnchanged
    <3>1. \A d \in Conds : (Accepted(d)' <=> Accepted(d)) /\ (Blamed(d)' <=> Blamed(d))
      BY <2>5 DEF Judge, Accepted, Blamed, ResultInv, CheckResult
    <3>. QED
      BY <2>5, <3>1, Frame DEF Judge
  <2>6. ASSUME NEW c \in Conds,
        Apply(c) PROVE Contract!ContractNext \/ CUnchanged
    BY <2>6, ApplyStep
  <2>7. ASSUME NEW c \in Conds,
        Claim(c) PROVE Contract!ContractNext \/ CUnchanged
    BY <2>7, ClaimStep
  <2>8. ASSUME NEW c \in Conds,
        Cancel(c) PROVE Contract!ContractNext \/ CUnchanged
    <3>1. \A d \in Conds : (Accepted(d)' <=> Accepted(d)) /\ (Blamed(d)' <=> Blamed(d))
      BY <2>8 DEF Cancel, Accepted, Blamed, ResultInv, CheckResult
    <3>. QED
      BY <2>8, <3>1, Frame DEF Cancel
  <2>9. ASSUME NEW c \in Conds,
        Record(c) PROVE Contract!ContractNext \/ CUnchanged
    <3>1. \A d \in Conds : (Accepted(d)' <=> Accepted(d)) /\ (Blamed(d)' <=> Blamed(d))
      BY <2>9 DEF Record, Accepted, Blamed, ResultInv, CheckResult
    <3>. QED
      BY <2>9, <3>1, Frame DEF Record
  <2>10. ASSUME NEW c \in Conds,
        Emit(c) PROVE Contract!ContractNext \/ CUnchanged
    <3>1. \A d \in Conds : (Accepted(d)' <=> Accepted(d)) /\ (Blamed(d)' <=> Blamed(d))
      BY <2>10 DEF Emit, Accepted, Blamed, ResultInv, CheckResult
    <3>. QED
      BY <2>10, <3>1, Frame DEF Emit
  <2>11. ASSUME NEW c \in Conds,
        CallbackReturns(c) PROVE Contract!ContractNext \/ CUnchanged
    <3>1. \A d \in Conds : (Accepted(d)' <=> Accepted(d)) /\ (Blamed(d)' <=> Blamed(d))
      BY <2>11 DEF CallbackReturns, Accepted, Blamed, ResultInv, CheckResult
    <3>. QED
      BY <2>11, <3>1, Frame DEF CallbackReturns
  <2>12. ASSUME NEW c \in Conds,
        TimerFires(c) PROVE Contract!ContractNext \/ CUnchanged
    <3>1. \A d \in Conds : (Accepted(d)' <=> Accepted(d)) /\ (Blamed(d)' <=> Blamed(d))
      BY <2>12 DEF TimerFires, Accepted, Blamed, ResultInv, CheckResult
    <3>. QED
      BY <2>12, <3>1, Frame DEF TimerFires
  <2>13. ASSUME NEW c \in Conds,
        AbandonWait(c) PROVE Contract!ContractNext \/ CUnchanged
    <3>1. \A d \in Conds : (Accepted(d)' <=> Accepted(d)) /\ (Blamed(d)' <=> Blamed(d))
      BY <2>13 DEF AbandonWait, Accepted, Blamed, ResultInv, CheckResult
    <3>. QED
      BY <2>13, <3>1, Frame DEF AbandonWait
  <2>14. ASSUME NEW c \in Conds,
        StreakAges(c) PROVE Contract!ContractNext \/ CUnchanged
    <3>1. \A d \in Conds : (Accepted(d)' <=> Accepted(d)) /\ (Blamed(d)' <=> Blamed(d))
      BY <2>14 DEF StreakAges, Accepted, Blamed, ResultInv, CheckResult
    <3>. QED
      BY <2>14, <3>1, Frame DEF StreakAges
  <2>15. CASE DeadlineFires
    BY <2>15, Frame DEF DeadlineFires, Accepted, Blamed
  <2>16. CASE ParentCancels
    BY <2>16, Frame DEF ParentCancels, Accepted, Blamed
  <2>17. CASE RunReturns
    BY <2>17, ReturnStep
  <2>18. CASE Terminated
    BY <2>18, Frame DEF Terminated, Accepted, Blamed
  <2>19. CASE UNCHANGED vars
    BY <2>19, Frame DEF Accepted, Blamed
  <2>20. QED
    BY <2>1, <2>2, <2>3, <2>4, <2>5, <2>6, <2>7, <2>8, <2>9, <2>10, <2>11,
          <2>12, <2>13, <2>14, <2>15, <2>16, <2>17, <2>18, <2>19 DEF Next,
          Step
<1>3. IInv /\ [Next]_vars => [Contract!ContractNext]_(Contract!cvars)
  BY <1>2, RunnerAssumption DEF CUnchanged
<1>. QED
  BY <1>1, <1>3, Invariance, RunnerAssumption, PTL DEF Spec, ContractSteps
-----------------------------------------------------------------------------
(* The streak. What the goroutine counts is the end of its history.        *)
Answers == Statuses \cup {"aged"}
Since(k) == {i \in k..Len(seen) : seen[i] = "satisfied"}

(* The streak that lasts began with the k-th entry, or is yet to begin.    *)
StreakFrom(k) ==
  /\ \A i \in k..Len(seen) : seen[i] \in {"satisfied", "aged"}
  /\ IsFiniteSet(Since(k)) /\ Cardinality(Since(k)) = consecutive[Watched]
  /\ IF consecutive[Watched] = 0 THEN k = Len(seen) + 1
                                 ELSE k \in 1..Len(seen) /\ seen[k] = "satisfied"
  /\ aged[Watched] => \E i \in k..Len(seen) : seen[i] = "aged"

(* A success that was accepted leaves the streak that earned it alone.     *)
HistoryInv ==
  /\ seen \in Seq(Answers)
  /\ \E k \in 1..(Len(seen) + 1) : StreakFrom(k)
  /\ Accepted(Watched) => /\ consecutive[Watched] >= RequiredSuccesses
                          /\ HasStableFor => aged[Watched]

LEMMA FewSince ==
  ASSUME NEW k \in Nat, Len(seen) \in Nat
  PROVE  IsFiniteSet(Since(k))
<1>1. IsFiniteSet(k..Len(seen)) /\ Since(k) \in SUBSET (k..Len(seen))
  BY FS_Interval DEF Since
<1> QED
  BY <1>1, FS_Subset

(* One more answer.                                                        *)
LEMMA SinceAppend ==
  ASSUME seen \in Seq(Answers), NEW x \in Answers, seen' = Append(seen, x),
         NEW k \in 1..(Len(seen) + 1), IsFiniteSet(Since(k))
  PROVE  /\ seen' \in Seq(Answers) /\ Len(seen') = Len(seen) + 1 /\ Len(seen) \in Nat
         /\ \A i \in 1..Len(seen) : seen'[i] = seen[i]
         /\ seen'[Len(seen) + 1] = x
         /\ IsFiniteSet(Since(k)')
         /\ Cardinality(Since(k)') = Cardinality(Since(k)) + (IF x = "satisfied" THEN 1 ELSE 0)
         /\ Cardinality(Since(k)) \in Nat
<1>1. /\ seen' \in Seq(Answers) /\ Len(seen') = Len(seen) + 1 /\ Len(seen) \in Nat
      /\ \A i \in 1..Len(seen) : seen'[i] = seen[i]
      /\ seen'[Len(seen) + 1] = x
  OBVIOUS
<1>2. Since(k)' = {i \in k..Len(seen') : seen'[i] = "satisfied"}
  BY DEF Since
<1>3. Cardinality(Since(k)) \in Nat /\ Len(seen) + 1 \notin Since(k)
  BY <1>1, FS_CardinalityType DEF Since
<1>4. CASE x = "satisfied"
  <2>1. Since(k)' = Since(k) \cup {Len(seen) + 1}
    BY <1>1, <1>2, <1>4 DEF Since
  <2> QED
    BY <1>1, <1>3, <1>4, <2>1, FS_AddElement
<1>5. CASE x # "satisfied"
  <2>1. Since(k)' = Since(k)
    BY <1>1, <1>2, <1>5 DEF Since
  <2> QED
    BY <1>1, <1>3, <1>5, <2>1
<1> QED
  BY <1>4, <1>5

(* An answer is judged: it continues the streak, or ends it.               *)
LEMMA JudgedAnswer ==
  ASSUME RunnerAssumption, WatchedAssumption, TypeOK, ResultInv, HistoryInv,
         Apply(Watched), seen' = Append(seen, result[Watched])
  PROVE  HistoryInv'
<1> DEFINE c == Watched
           success == result[c] = "satisfied"
<1>1. c \in Ready /\ c \in Conds /\ pc[c] = "apply" /\ result[c] \in Statuses
  BY DEF WatchedAssumption, Ready, Apply, ResultInv, TypeOK
<1>2. result[c] \in Answers /\ consecutive[c] \in Nat /\ RequiredSuccesses \in Nat \ {0}
      /\ aged[c] \in BOOLEAN
  BY <1>1 DEF Answers, TypeOK, RunnerAssumption
<1>3. ~ rec[c].satisfied
  BY <1>1 DEF ResultInv
<1>4. /\ consecutive'[c] = IF success THEN consecutive[c] + 1 ELSE 0
      /\ aged'[c] = (success /\ aged[c])
      /\ rec' = rec
  BY <1>1 DEF Apply, TypeOK, report
<1>5. Accepted(c)' => /\ success
                      /\ consecutive'[c] >= RequiredSuccesses
                      /\ HasStableFor => aged'[c]
  <2>1. Accepted(c)' => result'[c] = "satisfied"
    BY <1>3, <1>4 DEF Accepted
  <2>2. result'[c] = IF success /\ ~ StabilitySatisfied(c, consecutive'[c])
                     THEN "unsatisfied" ELSE result[c]
    BY <1>1, <1>4 DEF Apply, TypeOK
  <2>3. result'[c] = "satisfied" => success /\ StabilitySatisfied(c, consecutive'[c])
    BY <2>2
  <2> QED
    BY <1>4, <2>1, <2>3 DEF StabilitySatisfied
<1>6. PICK k \in 1..(Len(seen) + 1) : StreakFrom(k)
  BY DEF HistoryInv
<1>7. seen \in Seq(Answers) /\ IsFiniteSet(Since(k))
  BY <1>6 DEF HistoryInv, StreakFrom
<1>8. /\ seen' \in Seq(Answers) /\ Len(seen') = Len(seen) + 1 /\ Len(seen) \in Nat
      /\ \A i \in 1..Len(seen) : seen'[i] = seen[i]
      /\ seen'[Len(seen) + 1] = result[c]
      /\ IsFiniteSet(Since(k)')
      /\ Cardinality(Since(k)') = Cardinality(Since(k)) + (IF result[c] = "satisfied" THEN 1 ELSE 0)
  BY <1>2, <1>7, SinceAppend
<1>9. CASE success
  <2>1. \A i \in k..Len(seen') : seen'[i] \in {"satisfied", "aged"}
    BY <1>6, <1>8, <1>9 DEF StreakFrom
  <2>2. Cardinality(Since(k)') = consecutive'[c]
    BY <1>4, <1>6, <1>8, <1>9 DEF StreakFrom
  <2>3. k \in 1..Len(seen') /\ seen'[k] = "satisfied" /\ consecutive'[c] # 0
    BY <1>2, <1>4, <1>6, <1>8, <1>9 DEF StreakFrom
  <2>4. ASSUME aged'[c] PROVE \E i \in k..Len(seen') : seen'[i] = "aged"
    <3>1. aged[c]
      BY <1>4, <2>4
    <3>2. PICK i \in k..Len(seen) : seen[i] = "aged"
      BY <1>6, <3>1 DEF StreakFrom
    <3> QED
      BY <1>6, <1>8, <3>2
  <2>5. StreakFrom(k)'
    BY <1>8, <2>1, <2>2, <2>3, <2>4 DEF StreakFrom
  <2>6. k \in 1..(Len(seen') + 1)
    BY <2>3, <1>8
  <2> QED
    BY <1>5, <1>8, <2>5, <2>6 DEF HistoryInv
<1>10. CASE ~ success
  <2>0. PICK j \in Nat : j = Len(seen') + 1
    BY <1>8
  <2>1. Since(j)' = {} /\ \A i \in j..Len(seen') : FALSE
    BY <1>8, <2>0 DEF Since
  <2>2. IsFiniteSet(Since(j)') /\ Cardinality(Since(j)') = 0
    BY <2>1, FS_EmptySet
  <2>3. consecutive'[c] = 0 /\ ~ aged'[c]
    BY <1>4, <1>10
  <2>4. j \in 1..(Len(seen') + 1) /\ j = Len(seen') + 1
    BY <1>8, <2>0
  <2>5. StreakFrom(j)'
    BY <2>1, <2>2, <2>3, <2>4 DEF StreakFrom
  <2> QED
    BY <1>5, <1>8, <1>10, <2>4, <2>5 DEF HistoryInv
<1> QED
  BY <1>9, <1>10

(* The streak becomes StableFor old.                                       *)
LEMMA StreakGrowsOld ==
  ASSUME RunnerAssumption, WatchedAssumption, TypeOK, HistoryInv,
         StreakAges(Watched), seen' = Append(seen, "aged")
  PROVE  HistoryInv'
<1> DEFINE c == Watched
<1>1. c \in Conds /\ "aged" \in Answers
  BY DEF WatchedAssumption, Ready, Answers
<1>2. /\ consecutive[c] > 0 /\ aged'[c] = TRUE
      /\ UNCHANGED <<pc, result, consecutive, rec>>
  BY <1>1 DEF StreakAges, TypeOK, report
<1>3. consecutive[c] \in Nat
  BY <1>1 DEF TypeOK
<1>4. PICK k \in 1..(Len(seen) + 1) : StreakFrom(k)
  BY DEF HistoryInv
<1>5. seen \in Seq(Answers) /\ IsFiniteSet(Since(k))
  BY <1>4 DEF HistoryInv, StreakFrom
<1>6. /\ seen' \in Seq(Answers) /\ Len(seen') = Len(seen) + 1 /\ Len(seen) \in Nat
      /\ \A i \in 1..Len(seen) : seen'[i] = seen[i]
      /\ seen'[Len(seen) + 1] = "aged"
      /\ IsFiniteSet(Since(k)') /\ Cardinality(Since(k)') = Cardinality(Since(k)) + 0
      /\ Cardinality(Since(k)) \in Nat
  BY <1>1, <1>5, SinceAppend
<1>7. k \in 1..Len(seen) /\ seen[k] = "satisfied"
  BY <1>2, <1>3, <1>4 DEF StreakFrom
<1>8. \A i \in k..Len(seen') : seen'[i] \in {"satisfied", "aged"}
  BY <1>4, <1>6 DEF StreakFrom
<1>9. k \in 1..Len(seen') /\ seen'[k] = "satisfied" /\ k \in 1..(Len(seen') + 1)
      /\ Len(seen') \in k..Len(seen') /\ seen'[Len(seen')] = "aged"
  BY <1>6, <1>7
<1>10. Cardinality(Since(k)') = consecutive'[c] /\ consecutive'[c] # 0
  BY <1>2, <1>3, <1>4, <1>6 DEF StreakFrom
<1>11. StreakFrom(k)'
  BY <1>6, <1>8, <1>9, <1>10 DEF StreakFrom
<1>12. Accepted(c)' <=> Accepted(c)
  BY <1>2 DEF Accepted
<1> QED
  BY <1>2, <1>6, <1>9, <1>11, <1>12 DEF HistoryInv

(* Any other statement leaves streak and history alone, and what it makes  *)
(* an accepted success was one.                                            *)
LEMMA QuietHistory ==
  ASSUME HistoryInv, seen' = seen, Accepted(Watched)' => Accepted(Watched),
         consecutive'[Watched] = consecutive[Watched], aged'[Watched] = aged[Watched]
  PROVE  HistoryInv'
<1>1. \A k : StreakFrom(k)' <=> StreakFrom(k)
  BY DEF StreakFrom, Since
<1> QED
  BY <1>1 DEF HistoryInv

LEMMA StreakUntouched ==
  ASSUME RunnerAssumption, WatchedAssumption, TypeOK, ResultInv, [Next]_vars,
         ~ Apply(Watched), ~ StreakAges(Watched)
  PROVE  /\ consecutive'[Watched] = consecutive[Watched] /\ aged'[Watched] = aged[Watched]
         /\ Accepted(Watched)' => Accepted(Watched)
         /\ ~ (pc[Watched] = "apply" /\ pc'[Watched] # "apply")
<1> USE DEF vars, local, shared, locks, report, context, TypeOK, ResultInv, Goto,
      Accepted, WatchedAssumption, Ready
<1> DEFINE Untouched ==
             /\ consecutive'[Watched] = consecutive[Watched] /\ aged'[Watched] = aged[Watched]
             /\ Accepted(Watched)' => Accepted(Watched)
             /\ ~ (pc[Watched] = "apply" /\ pc'[Watched] # "apply")
<1>1. ASSUME NEW c \in Conds, PollTop(c) PROVE Untouched
  BY <1>1 DEF PollTop
<1>2. ASSUME NEW c \in Conds, AcquireGate(c) PROVE Untouched
  BY <1>2 DEF AcquireGate
<1>3. ASSUME NEW c \in Conds, AbandonGate(c) PROVE Untouched
  BY <1>3 DEF AbandonGate
<1>4. ASSUME NEW c \in Conds, CheckReturns(c) PROVE Untouched
  BY <1>4 DEF CheckReturns
<1>5. ASSUME NEW c \in Conds, Judge(c) PROVE Untouched
  BY <1>5 DEF Judge
<1>6. ASSUME NEW c \in Conds \ {Watched}, Apply(c) PROVE Untouched
  BY <1>6 DEF Apply
<1>7. ASSUME NEW c \in Conds, Claim(c) PROVE Untouched
  BY <1>7 DEF Claim
<1>8. ASSUME NEW c \in Conds, Cancel(c) PROVE Untouched
  BY <1>8 DEF Cancel
<1>9. ASSUME NEW c \in Conds, Record(c) PROVE Untouched
  BY <1>9 DEF Record
<1>10. ASSUME NEW c \in Conds, Emit(c) PROVE Untouched
  BY <1>10 DEF Emit
<1>11. ASSUME NEW c \in Conds, CallbackReturns(c) PROVE Untouched
  BY <1>11 DEF CallbackReturns
<1>12. ASSUME NEW c \in Conds, TimerFires(c) PROVE Untouched
  BY <1>12 DEF TimerFires
<1>13. ASSUME NEW c \in Conds, AbandonWait(c) PROVE Untouched
  BY <1>13 DEF AbandonWait
<1>14. ASSUME NEW c \in Conds \ {Watched}, StreakAges(c) PROVE Untouched
  BY <1>14 DEF StreakAges
<1>15. CASE DeadlineFires \/ ParentCancels \/ RunReturns
  BY <1>15 DEF DeadlineFires, ParentCancels, RunReturns
<1>16. CASE Terminated \/ UNCHANGED vars
  BY <1>16 DEF Terminated
<1> QED
  BY <1>1, <1>2, <1>3, <1>4, <1>5, <1>6, <1>7, <1>8, <1>9, <1>10, <1>11, <1>12,
     <1>13, <1>14, <1>15, <1>16 DEF Next, Step

LEMMA HistoryStep ==
  ASSUME RunnerAssumption, WatchedAssumption, IInv, HistoryInv, [SeenNext]_<<vars, seen>>
  PROVE  HistoryInv'
<1>1. TypeOK /\ ResultInv /\ [Next]_vars /\ Watched \in Conds
  BY DEF IInv, SeenNext, vars, WatchedAssumption, Ready
<1>2. CASE UNCHANGED <<vars, seen>>
  <2>1. UNCHANGED <<pc, consecutive, aged, rec, result, seen>>
    BY <1>2 DEF vars, local, report
  <2> QED
    BY <2>1, QuietHistory DEF Accepted
<1>3. CASE SeenNext /\ Apply(Watched)
  <2>1. pc[Watched] = "apply" /\ pc'[Watched] # "apply"
    BY <1>1, <1>3 DEF Apply, Goto, TypeOK
  <2>2. seen' = Append(seen, result[Watched])
    BY <1>3, <2>1 DEF SeenNext
  <2> QED
    BY <1>1, <1>3, <2>2, JudgedAnswer
<1>4. CASE SeenNext /\ StreakAges(Watched)
  <2>1. pc' = pc /\ ~ aged[Watched] /\ aged'[Watched]
    BY <1>1, <1>4 DEF StreakAges, TypeOK
  <2>2. seen' = Append(seen, "aged")
    BY <1>4, <2>1 DEF SeenNext
  <2> QED
    BY <1>1, <1>4, <2>2, StreakGrowsOld
<1>5. CASE SeenNext /\ ~ Apply(Watched) /\ ~ StreakAges(Watched)
  <2>1. /\ consecutive'[Watched] = consecutive[Watched] /\ aged'[Watched] = aged[Watched]
        /\ Accepted(Watched)' => Accepted(Watched)
        /\ ~ (pc[Watched] = "apply" /\ pc'[Watched] # "apply")
    BY <1>1, <1>5, StreakUntouched
  <2>2. seen' = seen
    BY <1>5, <2>1 DEF SeenNext
  <2> QED
    BY <2>1, <2>2, QuietHistory
<1> QED
  BY <1>2, <1>3, <1>4, <1>5

(* A success is accepted only at the end of an unbroken streak that is     *)
(* long and old enough, for any ready condition and any thresholds         *)
(* (applyStabilityThreshold, stabilityProgress.reset).                     *)
THEOREM StreaksAreEarned == SeenSpec => []StreakEarned
<1>1. SeenInit => IInv /\ HistoryInv
  <2> SUFFICES ASSUME SeenInit PROVE IInv /\ HistoryInv
    OBVIOUS
  <2>1. IInv
    BY InitIInv, RunnerAssumption DEF SeenInit
  <2>2. Watched \in Conds /\ seen = <<>> /\ seen \in Seq(Answers) /\ Len(seen) = 0
    BY WatchedAssumption DEF WatchedAssumption, Ready, SeenInit
  <2>3. consecutive[Watched] = 0 /\ aged[Watched] = FALSE /\ ~ Accepted(Watched)
    BY <2>2 DEF SeenInit, Init, Accepted
  <2>4. Since(1) = {} /\ \A i \in 1..Len(seen) : FALSE
    BY <2>2 DEF Since
  <2>5. StreakFrom(1)
    BY <2>2, <2>3, <2>4, FS_EmptySet DEF StreakFrom
  <2> QED
    BY <2>1, <2>2, <2>3, <2>5 DEF HistoryInv
<1>2. IInv /\ HistoryInv /\ [SeenNext]_<<vars, seen>> => IInv' /\ HistoryInv'
  <2>1. [SeenNext]_<<vars, seen>> => [Next]_vars
    BY DEF SeenNext, vars
  <2>2. IInv /\ [Next]_vars => IInv'
    BY ResultStep, LockStep, BlameStep, ExitStep, CountStep, TypeStep, RunnerAssumption DEF IInv
  <2> QED
    BY <2>1, <2>2, HistoryStep, RunnerAssumption, WatchedAssumption
<1>3. HistoryInv => StreakEarned
  <2> SUFFICES ASSUME HistoryInv, rec[Watched].satisfied PROVE StreakEarned
    BY DEF StreakEarned
  <2>1. PICK k \in 1..(Len(seen) + 1) : StreakFrom(k)
    BY DEF HistoryInv
  <2>2. /\ consecutive[Watched] >= RequiredSuccesses /\ RequiredSuccesses \in Nat \ {0}
        /\ HasStableFor => aged[Watched]
    BY RunnerAssumption DEF HistoryInv, Accepted, RunnerAssumption
  <2>3. k \in 1..Len(seen) /\ seen[k] = "satisfied"
    BY <2>1, <2>2 DEF StreakFrom
  <2>4. Cardinality({i \in k..Len(seen) : seen[i] = "satisfied"}) >= RequiredSuccesses
    BY <2>1, <2>2 DEF StreakFrom, Since
  <2>5. /\ \A i \in k..Len(seen) : seen[i] \in {"satisfied", "aged"}
        /\ HasStableFor => \E i \in k..Len(seen) : seen[i] = "aged"
    BY <2>1, <2>2 DEF StreakFrom
  <2> QED
    BY <2>3, <2>4, <2>5 DEF StreakEarned
<1> QED
  BY <1>1, <1>2, <1>3, PTL DEF SeenSpec
=============================================================================

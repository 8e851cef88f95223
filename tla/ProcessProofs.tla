---------------------------- MODULE ProcessProofs ----------------------------
(***************************************************************************)
(* What the exit status and the event stream of a waitfor process say, for *)
(* any conditions, at any moment of a signal or of a broken pipe.          *)
(***************************************************************************)
EXTENDS Process, TLAPS

(* Nothing is written and nothing returned before these statements.        *)
Silent == {"notify", "ignore", "context", "dispatch", "help", "explain", "doctor", "start"}

(* Who carries out which statement, and from when a broken pipe is only an *)
(* error.                                                                  *)
StageInv ==
  /\ pc \notin {"notify", "ignore", "gone"} => shielded
  /\ pc \in Silent => log = <<>>
  /\ pc \in {"help", "explain", "doctor"} => command.kind = pc
  /\ pc \in {"start", "running", "report"} => command.kind = "run"
  /\ pc \in Silent \cup {"running", "report"} => code = 99
  /\ (faults = {}) = (diagnosis # "fail")
  /\ pc = "raise" => sigCh # <<>>

(* A run has an outcome once it returned, and a cause for it.              *)
RunInv ==
  /\ outcome # "none" => command.kind = "run" /\ pc \in {"report", "returned", "raise", "gone"}
  /\ pc = "report" => outcome # "none"
  /\ outcome = "timeout" => runErr = "deadline"
  /\ outcome = "cancelled" => runErr = "cancelled"
  /\ (ctxSignal \/ ctxDone \/ runErr = "cancelled") => sent # {}

(* The code is explained as soon as Execute returned it.                   *)
CodeInv ==
  /\ pc \in {"returned", "raise"} => code # 99 /\ Explained(code)
  /\ ExitTruth

(* What the stream of a run says as long as it goes on, and then.          *)
Begun == log # <<>> => log[1] = "start"
OutcomeLast == \A i \in DOMAIN log : log[i] = "outcome" => i = Len(log) /\ i > 1
Told == Wrote("start") /\ Wrote("outcome")

StreamInv ==
  (command.kind = "run" /\ command.format = "ndjson") =>
    /\ Begun /\ OutcomeLast
    /\ pc \in {"running", "report"} => ~ Wrote("outcome") /\ (log = <<>> => pipe = "broken")
    /\ (pc \in {"returned", "raise"} /\ code \in {0, 1}) => Told
    /\ exit \in {ByCode(0), ByCode(1)} => Told

IInv == TypeOK /\ StageInv /\ RunInv /\ CodeInv /\ StreamInv

-----------------------------------------------------------------------------
(* Ways to end.                                                            *)

LEMMA Endings ==
  /\ Running.how = "running"
  /\ \A n : ByCode(n).how = "code" /\ ByCode(n).value = n /\ ByCode(n) # Running
  /\ \A s : BySignal(s).how = "signal" /\ BySignal(s).value = s /\ BySignal(s) # Running
  BY DEF Running, ByCode, BySignal

LEMMA SignalIsNoCode == \A s, n : BySignal(s) # ByCode(n)
  BY DEF ByCode, BySignal

LEMMA CommandKinds ==
  ASSUME NEW c \in Commands
  PROVE  /\ c.kind \in {"run", "explain", "doctor", "help", "misasked", "refused"}
         /\ c.format \in {"text", "json", "ndjson"}
         /\ c.kind \notin {"run", "explain"} => c.format # "ndjson"
  BY DEF Commands

LEMMA FirstChecks ==
  ASSUME NEW extra \in BackendChecks
  PROVE  BaseChecks \o extra \in Seq(Checks)
<1>1. BaseChecks \in Seq(Checks)
  BY DEF BaseChecks, Checks
<1>2. <<>> \in Seq(Checks) /\ \A c \in Checks : <<c>> \in Seq(Checks)
  OBVIOUS
<1>3. extra \in Seq(Checks)
  BY <1>2 DEF BackendChecks, Checks
<1> QED
  BY <1>1, <1>3

LEMMA FindingsAre == \A c : Findings(c) \subseteq {"ok", "warn", "fail"}
  BY DEF Findings

LEMMA ExitCodes ==
  ASSUME NEW s \in {"satisfied", "fatal", "timeout", "cancelled"}
  PROVE  /\ ExitCodeForStatus(s) \in {0, 1, 3, 130}
         /\ ExitCodeForStatus(s) = 0 <=> s = "satisfied"
         /\ ExitCodeForStatus(s) = 1 <=> s = "timeout"
         /\ ExitCodeForStatus(s) = 3 <=> s = "fatal"
         /\ ExitCodeForStatus(s) = 130 <=> s = "cancelled"
  BY DEF ExitCodeForStatus

LEMMA DispatchEffect ==
  ASSUME Dispatch, command \in Commands
  PROVE  /\ pc = "dispatch" /\ UNCHANGED <<command, log, pipe, shielded, exit>>
         /\ UNCHANGED <<sent, ctxSignal, ctxDone, runErr, outcome>>
         /\ UNCHANGED <<diagnosis, faults>>
         /\ \/ command.kind = "run" /\ pc' = "start" /\ code' = code
            \/ /\ command.kind \in {"explain", "doctor", "help"} /\ pc' = command.kind
               /\ code' = code
            \/ command.kind = "refused" /\ pc' = "returned" /\ code' = 2
            \/ command.kind = "misasked" /\ pc' = "returned" /\ code' = 3
  BY CommandKinds DEF Dispatch, FirstStep, outVars, sigVars, kernelVars, chanVars, runVars

LEMMA RunCheckEffect ==
  ASSUME RunCheck, diagnosis \in {"ok", "warn", "fail"}, (faults = {}) = (diagnosis # "fail")
  PROVE  /\ diagnosis' \in {"ok", "warn", "fail"}
         /\ (faults' = {}) = (diagnosis' # "fail")
<1>1. PICK status \in {"ok", "warn", "fail"} :
        /\ diagnosis' = CombineDoctorStatus(diagnosis, Head(todo) \in required, status)
        /\ faults' = faults \cup
                        (IF Head(todo) \in required /\ status # "ok" THEN {Head(todo)} ELSE {})
  BY FindingsAre DEF RunCheck
<1>2. diagnosis' = "fail" <=>
        (diagnosis = "fail" \/ (Head(todo) \in required /\ status # "ok"))
  BY <1>1 DEF CombineDoctorStatus
<1>3. faults' = {} <=> (faults = {} /\ ~ (Head(todo) \in required /\ status # "ok"))
  BY <1>1
<1>4. diagnosis' \in {"ok", "warn", "fail"}
  BY <1>1 DEF CombineDoctorStatus
<1> QED
  BY <1>2, <1>3, <1>4

(* Since a broken pipe is ignored, writing goes on with the next statement.*)
LEMMA WriteEffect ==
  ASSUME NEW e, NEW next, NEW good, NEW bad, Write(e, next, good, bad), shielded,
         pipe \in {"ok", "broken"}
  PROVE  /\ pc' = next /\ exit' = exit /\ pipe' = pipe
         /\ \/ pipe = "ok" /\ log' = Append(log, e) /\ code' = good
            \/ pipe = "broken" /\ log' = log /\ code' = bad
  BY DEF Write

LEMMA DoctorReportEffect ==
  ASSUME WriteDoctorReport, StageInv, pipe \in {"ok", "broken"}
  PROVE  /\ pc = "doctor" /\ pc' = "returned" /\ exit' = exit /\ pipe' = pipe
         /\ UNCHANGED <<command, shielded, diagnosis, faults>>
         /\ UNCHANGED <<sent, ctxSignal, ctxDone, runErr, outcome>>
         /\ \/ /\ pipe = "ok" /\ (diagnosis = "fail" => code' = 3) /\ (diagnosis # "fail" => code' = 0)
               /\ faults # {} => log' = Append(log, "fault")
               /\ faults = {} => log' = Append(log, "healthy")
            \/ /\ pipe = "broken" /\ log' = log /\ code' \in {0, 3}
               /\ (command.format = "json" \/ diagnosis = "fail") => code' = 3
<1>0. shielded
  BY DEF WriteDoctorReport, StageInv
<1>1. Write(IF faults # {} THEN "fault" ELSE "healthy", "returned",
            IF diagnosis = "fail" THEN 3 ELSE 0,
            IF command.format = "json" \/ diagnosis = "fail" THEN 3 ELSE 0)
  BY DEF WriteDoctorReport
<1>2. /\ pc' = "returned" /\ exit' = exit /\ pipe' = pipe
      /\ \/ /\ pipe = "ok" /\ log' = Append(log, IF faults # {} THEN "fault" ELSE "healthy")
            /\ code' = IF diagnosis = "fail" THEN 3 ELSE 0
         \/ /\ pipe = "broken" /\ log' = log
            /\ code' = IF command.format = "json" \/ diagnosis = "fail" THEN 3 ELSE 0
  BY <1>0, <1>1 DEF Write
<1>3. /\ pc = "doctor" /\ UNCHANGED <<command, shielded, diagnosis, faults>>
      /\ UNCHANGED <<sent, ctxSignal, ctxDone, runErr, outcome>>
  BY DEF WriteDoctorReport, sigVars, kernelVars, chanVars, doctorVars, runVars
<1> QED
  BY <1>2, <1>3

-----------------------------------------------------------------------------
(* Types                                                                   *)

LEMMA InitIInv == Init => IInv
<1> SUFFICES ASSUME Init PROVE IInv
  OBVIOUS
<1>1. TypeOK
  BY Endings DEF Init, TypeOK, Statements, R!ContractInit, R!ContractTypeOK
<1>2. StageInv /\ RunInv
  BY DEF Init, StageInv, RunInv, Silent, R!ContractInit
<1>3. CodeInv /\ StreamInv
  BY Endings DEF Init, CodeInv, StreamInv, ExitTruth, Begun, OutcomeLast
<1> QED
  BY <1>1, <1>2, <1>3 DEF IInv

Codes == {0, 1, 2, 3, 130, 99}

LEMMA WriteTypes ==
  ASSUME pipe \in {"ok", "broken"}, log \in Seq(Events), (exit = Running) = (pc # "gone"),
         pc # "gone", shielded, NEW e \in Events, NEW next \in Statements \ {"gone"},
         NEW good \in Codes, NEW bad \in Codes, Write(e, next, good, bad)
  PROVE  /\ pc' \in Statements /\ log' \in Seq(Events) /\ pipe' \in {"ok", "broken"}
         /\ code' \in Codes /\ (exit' = Running) = (pc' # "gone")
<1>1. exit = Running
  OBVIOUS
<1>2. /\ pc' = next /\ exit' = exit /\ pipe' = pipe
      /\ \/ log' = Append(log, e) /\ code' = good
         \/ log' = log /\ code' = bad
  BY <1>1, WriteEffect
<1> QED
  BY <1>1, <1>2

LEMMA TypeStep ==
  ASSUME IInv, [Next]_vars
  PROVE  TypeOK'
<1>1. TypeOK /\ StageInv /\ RunInv
  BY DEF IInv
<1> USE DEF outVars, sigVars, kernelVars, chanVars, doctorVars, endVars, runVars
<1> USE DEF R!ContractTypeOK, Statements
<1>2. ASSUME Notify PROVE TypeOK'
  BY <1>1, <1>2 DEF TypeOK, Notify
<1>3. ASSUME IgnoreBrokenPipe PROVE TypeOK'
  BY <1>1, <1>3 DEF TypeOK, IgnoreBrokenPipe
<1>4. ASSUME NotifyContext PROVE TypeOK'
  BY <1>1, <1>4 DEF TypeOK, NotifyContext
<1>5. ASSUME NEW s \in Signals, Send(s) PROVE TypeOK'
  BY <1>1, <1>5, Endings DEF TypeOK, Send, Gone
<1>6. ASSUME NEW s \in Signals, TakeSignal(s) PROVE TypeOK'
  <2>1. s \in sent /\ handing' = {s} \X handlers
    BY <1>1, <1>6 DEF TypeOK, TakeSignal
  <2>2. handing' \subseteq sent \X {"main", "ctx"}
    BY <1>1, <2>1 DEF TypeOK
  <2> QED
    BY <1>1, <1>6, <2>2 DEF TypeOK, TakeSignal
<1>7. ASSUME NEW s \in Signals, NEW r \in {"main", "ctx"}, HandOver(s, r) PROVE TypeOK'
  BY <1>1, <1>7 DEF TypeOK, HandOver
<1>8. ASSUME CancelContext PROVE TypeOK'
  BY <1>1, <1>8 DEF TypeOK, CancelContext
<1>9. ASSUME BreakPipe PROVE TypeOK'
  BY <1>1, <1>9 DEF TypeOK, BreakPipe
<1>10. ASSUME Dispatch PROVE TypeOK'
  <2>1. pc # "gone" /\ pc' \in Statements /\ pc' # "gone" /\ code' \in Codes /\ exit' = exit
    BY <1>1, <1>10, CommandKinds DEF TypeOK, Dispatch, FirstStep, Codes
  <2>2. todo' \in Seq(Checks)
    BY <1>1, <1>10, FirstChecks DEF TypeOK, Dispatch
  <2> QED
    BY <1>1, <1>10, <2>1, <2>2 DEF TypeOK, Dispatch, Codes
<1>11. ASSUME Help PROVE TypeOK'
  <2>1. pc # "gone" /\ shielded /\ code = 99
    BY <1>1, <1>11 DEF Help, StageInv, Silent
  <2>2. Write("help", "returned", 0,
              0)
    BY <1>11 DEF Help
  <2>3. "help" \in Events /\ code \in Codes
    BY <2>1 DEF Events, Codes
  <2>4. pc' \in Statements /\ log' \in Seq(Events) /\ pipe' \in {"ok", "broken"} /\ code' \in Codes
        /\ (exit' = Running) = (pc' # "gone")
    BY <1>1, <2>1, <2>2, <2>3, WriteTypes DEF Codes, TypeOK
  <2> QED
    BY <1>1, <1>11, <2>4 DEF TypeOK, Help, Codes
<1>12. ASSUME WriteExplain PROVE TypeOK'
  <2>1. pc # "gone" /\ shielded /\ code = 99
    BY <1>1, <1>12 DEF WriteExplain, StageInv, Silent
  <2>2. Write("plan", "returned", 0,
              IF command.format = "ndjson" THEN 3 ELSE 0)
    BY <1>12 DEF WriteExplain
  <2>3. "plan" \in Events /\ code \in Codes
    BY <2>1 DEF Events, Codes
  <2>4. pc' \in Statements /\ log' \in Seq(Events) /\ pipe' \in {"ok", "broken"} /\ code' \in Codes
        /\ (exit' = Running) = (pc' # "gone")
    BY <1>1, <2>1, <2>2, <2>3, WriteTypes DEF Codes, TypeOK
  <2> QED
    BY <1>1, <1>12, <2>4 DEF TypeOK, WriteExplain, Codes
<1>13. ASSUME RunCheck PROVE TypeOK'
  BY <1>1, <1>13, RunCheckEffect DEF TypeOK, StageInv, RunCheck
<1>14. ASSUME WriteDoctorReport PROVE TypeOK'
  <2>1. pc # "gone" /\ shielded /\ code = 99
    BY <1>1, <1>14 DEF WriteDoctorReport, StageInv, Silent
  <2>2. Write(IF faults # {} THEN "fault" ELSE "healthy", "returned", IF diagnosis = "fail" THEN 3 ELSE 0,
              IF command.format = "json" \/ diagnosis = "fail" THEN 3 ELSE 0)
    BY <1>14 DEF WriteDoctorReport
  <2>3. /\ (IF faults # {} THEN "fault" ELSE "healthy") \in Events
        /\ (IF diagnosis = "fail" THEN 3 ELSE 0) \in Codes
        /\ (IF command.format = "json" \/ diagnosis = "fail" THEN 3 ELSE 0) \in Codes
    BY DEF Events, Codes
  <2>4. pc' \in Statements /\ log' \in Seq(Events) /\ pipe' \in {"ok", "broken"} /\ code' \in Codes
        /\ (exit' = Running) = (pc' # "gone")
    BY <1>1, <2>1, <2>2, <2>3, WriteTypes DEF TypeOK
  <2> QED
    BY <1>1, <1>14, <2>4 DEF TypeOK, WriteDoctorReport, Codes
<1>15. ASSUME Start PROVE TypeOK'
  <2>1. pc # "gone" /\ shielded /\ code = 99
    BY <1>1, <1>15 DEF Start, StageInv, Silent
  <2>2. \/ Write("start", "running", code, code)
        \/ pc' = "running" /\ UNCHANGED <<outVars, code, exit>>
    BY <1>15 DEF Start
  <2>3. "start" \in Events /\ code \in Codes
    BY <2>1 DEF Events, Codes
  <2>4. pc' \in Statements /\ log' \in Seq(Events) /\ pipe' \in {"ok", "broken"} /\ code' \in Codes
        /\ (exit' = Running) = (pc' # "gone")
    BY <1>1, <2>1, <2>2, <2>3, WriteTypes DEF Codes, TypeOK
  <2> QED
    BY <1>1, <1>15, <2>4 DEF TypeOK, Start, Codes
<1>16. ASSUME DeadlineFires PROVE TypeOK'
  BY <1>1, <1>16 DEF TypeOK, DeadlineFires
<1>17. ASSUME NEW c \in Conds \ Guards, Announce(c) PROVE TypeOK'
  <2>1. pc # "gone" /\ shielded /\ code = 99
    BY <1>1, <1>17 DEF Announce, StageInv, Silent
  <2>2. \/ Write("attempt", "running", code, code)
        \/ pc' = "running" /\ UNCHANGED <<outVars, code, exit>>
    BY <1>17 DEF Announce
  <2>3. "attempt" \in Events /\ code \in Codes
    BY <2>1 DEF Events, Codes
  <2>4. pc' \in Statements /\ log' \in Seq(Events) /\ pipe' \in {"ok", "broken"} /\ code' \in Codes
        /\ (exit' = Running) = (pc' # "gone")
    BY <1>1, <2>1, <2>2, <2>3, WriteTypes DEF Codes, TypeOK
  <2> QED
    BY <1>1, <1>17, <2>4 DEF TypeOK, Announce, Codes, R!Satisfy, R!ReadyConds
<1>18. ASSUME CompleteRun PROVE TypeOK'
  BY <1>1, <1>18 DEF TypeOK, CompleteRun, R!Complete
<1>19. ASSUME NEW c \in Conds, FailRun(c) PROVE TypeOK'
  BY <1>1, <1>19 DEF TypeOK, FailRun, R!Fail
<1>20. ASSUME RunReturns PROVE TypeOK'
  BY <1>1, <1>20 DEF TypeOK, RunReturns, R!ReturnVerdict, R!GiveUp
<1>21. ASSUME Report PROVE TypeOK'
  <2>1. pc # "gone" /\ shielded /\ code = 99
    BY <1>1, <1>21 DEF Report, StageInv, Silent
  <2>2. Write("outcome", "returned", ExitCodeForStatus(outcome),
              IF command.format = "text" THEN ExitCodeForStatus(outcome) ELSE 3)
    BY <1>21 DEF Report
  <2>3. /\ ExitCodeForStatus(outcome) \in Codes /\ "outcome" \in Events
        /\ (IF command.format = "text" THEN ExitCodeForStatus(outcome) ELSE 3) \in Codes
    <3>1. outcome \in {"satisfied", "fatal", "timeout", "cancelled"}
      BY <1>1, <1>21 DEF RunInv, TypeOK, Report
    <3> QED
      BY <3>1, ExitCodes DEF Codes, Events
  <2>4. pc' \in Statements /\ log' \in Seq(Events) /\ pipe' \in {"ok", "broken"} /\ code' \in Codes
        /\ (exit' = Running) = (pc' # "gone")
    BY <1>1, <2>1, <2>2, <2>3, WriteTypes DEF TypeOK
  <2> QED
    BY <1>1, <1>21, <2>4 DEF TypeOK, Report, Codes
<1>22. ASSUME SelectExit PROVE TypeOK'
  BY <1>1, <1>22, Endings DEF TypeOK, SelectExit, Gone
<1>23. ASSUME ExitAfterSignal PROVE TypeOK'
  BY <1>1, <1>23, Endings DEF TypeOK, ExitAfterSignal, Gone
<1>24. ASSUME UNCHANGED vars PROVE TypeOK'
  BY <1>1, <1>24 DEF TypeOK, vars
<1> QED
  BY <1>2, <1>3, <1>4, <1>5, <1>6, <1>7, <1>8, <1>9, <1>10, <1>11, <1>12, <1>13, <1>14,
     <1>15, <1>16, <1>17, <1>18, <1>19, <1>20, <1>21, <1>22, <1>23, <1>24
     DEF Next, Main, Signalling, Terminated

-----------------------------------------------------------------------------
(* Statements and the causes of a run's end                                *)

LEMMA StageStep ==
  ASSUME IInv, [Next]_vars
  PROVE  StageInv'
<1>1. TypeOK /\ StageInv /\ RunInv
  BY DEF IInv
<1> USE DEF outVars, sigVars, kernelVars, chanVars, doctorVars, endVars, runVars
<1> USE DEF StageInv, Silent
<1>2. Notify \/ IgnoreBrokenPipe \/ NotifyContext => StageInv'
  BY <1>1 DEF Notify, IgnoreBrokenPipe, NotifyContext
<1>3. ASSUME NEW s \in Signals, Send(s) \/ TakeSignal(s) PROVE StageInv'
  BY <1>1, <1>3 DEF Send, TakeSignal, Gone
<1>4. ASSUME NEW s \in Signals, NEW r \in {"main", "ctx"}, HandOver(s, r) PROVE StageInv'
  BY <1>1, <1>4 DEF HandOver
<1>5. CancelContext \/ BreakPipe \/ DeadlineFires \/ UNCHANGED vars => StageInv'
  BY <1>1 DEF CancelContext, BreakPipe, DeadlineFires, vars
<1>6. Dispatch => StageInv'
  BY <1>1, DispatchEffect DEF TypeOK
<1>7. Help \/ WriteExplain \/ WriteDoctorReport \/ Report => StageInv'
  <2>1. Help => StageInv'
    BY <1>1, WriteEffect DEF TypeOK, Help
  <2>2. WriteExplain => StageInv'
    BY <1>1, WriteEffect DEF TypeOK, WriteExplain
  <2>3. WriteDoctorReport => StageInv'
    BY <1>1, DoctorReportEffect DEF TypeOK
  <2>4. Report => StageInv'
    BY <1>1, WriteEffect DEF TypeOK, Report
  <2> QED
    BY <2>1, <2>2, <2>3, <2>4
<1>8. Start => StageInv'
  BY <1>1, WriteEffect DEF TypeOK, Start
<1>9. ASSUME NEW c \in Conds \ Guards, Announce(c) PROVE StageInv'
  BY <1>1, <1>9, WriteEffect DEF TypeOK, Announce
<1>10. RunCheck => StageInv'
  BY <1>1, RunCheckEffect DEF TypeOK, RunCheck
<1>11. CompleteRun \/ RunReturns => StageInv'
  BY <1>1 DEF CompleteRun, RunReturns
<1>12. ASSUME NEW c \in Conds, FailRun(c) PROVE StageInv'
  BY <1>1, <1>12 DEF FailRun
<1>13. SelectExit \/ ExitAfterSignal => StageInv'
  BY <1>1 DEF SelectExit, ExitAfterSignal, Gone
<1> QED
  BY <1>2, <1>3, <1>4, <1>5, <1>6, <1>7, <1>8, <1>9, <1>10, <1>11, <1>12, <1>13
     DEF Next, Main, Signalling, Terminated

LEMMA RunStep ==
  ASSUME IInv, [Next]_vars
  PROVE  RunInv'
<1>1. TypeOK /\ StageInv /\ RunInv
  BY DEF IInv
<1> USE DEF outVars, sigVars, kernelVars, chanVars, doctorVars, endVars, runVars
<1> USE DEF RunInv
<1>2. Notify \/ IgnoreBrokenPipe \/ NotifyContext => RunInv'
  BY <1>1 DEF Notify, IgnoreBrokenPipe, NotifyContext
<1>3. ASSUME NEW s \in Signals, Send(s) \/ TakeSignal(s) PROVE RunInv'
  BY <1>1, <1>3 DEF Send, TakeSignal, Gone
<1>4. ASSUME NEW s \in Signals, NEW r \in {"main", "ctx"}, HandOver(s, r) PROVE RunInv'
  BY <1>1, <1>4 DEF HandOver, TypeOK
<1>5. CancelContext \/ BreakPipe \/ DeadlineFires \/ UNCHANGED vars => RunInv'
  BY <1>1 DEF CancelContext, BreakPipe, DeadlineFires, vars
<1>6. Dispatch => RunInv'
  BY <1>1, DispatchEffect DEF TypeOK, StageInv
<1>7. Help \/ WriteExplain \/ WriteDoctorReport \/ Report => RunInv'
  <2>1. Help => RunInv'
    BY <1>1, WriteEffect DEF TypeOK, StageInv, Help
  <2>2. WriteExplain => RunInv'
    BY <1>1, WriteEffect DEF TypeOK, StageInv, WriteExplain
  <2>3. WriteDoctorReport => RunInv'
    BY <1>1, DoctorReportEffect DEF TypeOK, StageInv
  <2>4. Report => RunInv'
    BY <1>1, WriteEffect DEF TypeOK, StageInv, Report
  <2> QED
    BY <2>1, <2>2, <2>3, <2>4
<1>8. Start => RunInv'
  BY <1>1, WriteEffect DEF TypeOK, StageInv, Start
<1>9. ASSUME NEW c \in Conds \ Guards, Announce(c) PROVE RunInv'
  BY <1>1, <1>9, WriteEffect DEF TypeOK, StageInv, Announce, R!Satisfy
<1>10. RunCheck => RunInv'
  BY <1>1 DEF RunCheck
<1>11. CompleteRun \/ RunReturns => RunInv'
  BY <1>1 DEF TypeOK, StageInv, CompleteRun, RunReturns, R!Complete, R!ReturnVerdict, R!GiveUp,
              R!ContractTypeOK
<1>12. ASSUME NEW c \in Conds, FailRun(c) PROVE RunInv'
  BY <1>1, <1>12 DEF FailRun, R!Fail
<1>13. SelectExit \/ ExitAfterSignal => RunInv'
  BY <1>1 DEF SelectExit, ExitAfterSignal, Gone
<1> QED
  BY <1>2, <1>3, <1>4, <1>5, <1>6, <1>7, <1>8, <1>9, <1>10, <1>11, <1>12, <1>13
     DEF Next, Main, Signalling, Terminated

-----------------------------------------------------------------------------
(* The code and what was written                                           *)

LEMMA WroteMore ==
  ASSUME NEW e, log \in Seq(Events), log' = Append(log, e)
  PROVE  \A x : Wrote(x)' <=> (Wrote(x) \/ x = e)
<1>1. /\ Len(log') = Len(log) + 1 /\ log'[Len(log) + 1] = e /\ Len(log) \in Nat
      /\ \A i \in 1..Len(log) : log'[i] = log[i]
      /\ DOMAIN log = 1..Len(log) /\ DOMAIN log' = 1..(Len(log) + 1)
  OBVIOUS
<1>2. ASSUME NEW x PROVE Wrote(x)' <=> (Wrote(x) \/ x = e)
  BY <1>1 DEF Wrote
<1> QED
  BY <1>2

LEMMA WroteSame ==
  ASSUME log' = log
  PROVE  \A x : Wrote(x)' <=> Wrote(x)
  BY DEF Wrote

LEMMA WroteNothing ==
  ASSUME log = <<>>
  PROVE  \A x : ~ Wrote(x)
  BY DEF Wrote

(* Signals are not unsent and pipes not mended.                            *)
Later ==
  /\ UNCHANGED <<command, log, outcome, runErr>>
  /\ sent \subseteq sent' /\ (pipe = "broken" => pipe' = "broken")

LEMMA ExplainedStays ==
  ASSUME Later, code' = code, Explained(code)
  PROVE  Explained(code)'
  BY WroteSame DEF Later, Explained

LEMMA NotGone ==
  ASSUME exit' = Running
  PROVE  ExitTruth'
  BY Endings DEF ExitTruth

(* What Execute returns has its cause.                                     *)
LEMMA DispatchExplained ==
  ASSUME IInv, Dispatch
  PROVE  CodeInv'
<1>1. exit' = Running
  BY DispatchEffect DEF IInv, TypeOK
<1>2. ASSUME pc' = "returned" PROVE code' # 99 /\ Explained(code)'
  <2>1. /\ pc = "dispatch" /\ log = <<>> /\ log' = <<>> /\ command' = command
        /\ \/ command.kind = "refused" /\ code' = 2
           \/ command.kind = "misasked" /\ code' = 3
    BY <1>2, DispatchEffect DEF IInv, TypeOK, StageInv, Silent
  <2> QED
    BY <2>1 DEF Explained
<1>3. pc' # "raise"
  BY DispatchEffect DEF IInv, TypeOK
<1> QED
  BY <1>1, <1>2, <1>3, NotGone DEF CodeInv

LEMMA HelpExplained ==
  ASSUME IInv, Help
  PROVE  CodeInv'
<1>1. /\ exit' = Running /\ pc' = "returned" /\ code' = 0 /\ command'.kind = "help"
  BY WriteEffect DEF IInv, TypeOK, StageInv, Help
<1>2. Explained(code)'
  BY <1>1 DEF Explained
<1> QED
  BY <1>1, <1>2, NotGone DEF CodeInv

LEMMA ExplainExplained ==
  ASSUME IInv, WriteExplain
  PROVE  CodeInv'
<1>1. /\ exit' = Running /\ pc' = "returned" /\ command' = command /\ command.kind = "explain"
      /\ pipe' = pipe /\ log \in Seq(Events)
      /\ \/ log' = Append(log, "plan") /\ code' = 0
         \/ pipe = "broken" /\ command.format = "ndjson" /\ code' = 3
         \/ pipe = "broken" /\ command.format # "ndjson" /\ code' = 0
  BY WriteEffect DEF IInv, TypeOK, StageInv, WriteExplain
<1>2. Explained(code)'
  BY <1>1, WroteMore DEF Explained
<1> QED
  BY <1>1, <1>2, NotGone DEF CodeInv

LEMMA DoctorExplained ==
  ASSUME IInv, WriteDoctorReport
  PROVE  CodeInv'
<1>1. pipe \in {"ok", "broken"} /\ StageInv /\ log \in Seq(Events) /\ (exit = Running) = (pc # "gone")
  BY DEF IInv, TypeOK
<1>2. /\ exit' = Running /\ pc' = "returned" /\ command' = command /\ command.kind = "doctor"
      /\ pipe' = pipe /\ log = <<>> /\ code' \in {0, 3}
  BY <1>1, DoctorReportEffect DEF StageInv, Silent
<1>3. \/ diagnosis = "fail" /\ code' = 3 /\ log' = Append(log, "fault")
      \/ diagnosis # "fail" /\ code' = 0 /\ log' = Append(log, "healthy")
      \/ pipe = "broken" /\ log' = log /\ (code' = 0 => command.format # "json")
  BY <1>1, DoctorReportEffect DEF StageInv
<1>4. \A x : ~ Wrote(x)
  BY <1>2, WroteNothing
<1>5. Explained(code)'
  <2>1. CASE diagnosis = "fail" /\ code' = 3 /\ log' = Append(log, "fault")
    BY <1>1, <1>2, <2>1, WroteMore DEF Explained
  <2>2. CASE diagnosis # "fail" /\ code' = 0 /\ log' = Append(log, "healthy")
    BY <1>1, <1>2, <1>4, <2>2, WroteMore DEF Explained
  <2>3. CASE pipe = "broken" /\ log' = log /\ (code' = 0 => command.format # "json")
    BY <1>1, <1>2, <1>4, <2>3, WroteSame DEF Explained
  <2> QED
    BY <1>3, <2>1, <2>2, <2>3
<1> QED
  BY <1>2, <1>5, NotGone DEF CodeInv

LEMMA ReportExplained ==
  ASSUME IInv, Report
  PROVE  CodeInv'
<1>1. /\ outcome \in {"satisfied", "fatal", "timeout", "cancelled"} /\ command.kind = "run"
      /\ outcome = "timeout" => runErr = "deadline"
      /\ outcome = "cancelled" => sent # {}
      /\ shielded /\ pipe \in {"ok", "broken"} /\ log \in Seq(Events)
  BY DEF IInv, TypeOK, StageInv, RunInv, Report, R!ContractTypeOK
<1>2. /\ UNCHANGED <<command, outcome, runErr, sent, pipe>> /\ exit' = Running /\ pc' = "returned"
      /\ \/ log' = Append(log, "outcome") /\ code' = ExitCodeForStatus(outcome)
         \/ /\ pipe = "broken" /\ command.format = "text"
            /\ code' = ExitCodeForStatus(outcome)
         \/ pipe = "broken" /\ code' = 3
  BY <1>1, WriteEffect DEF IInv, TypeOK, Report, sigVars, kernelVars, runVars
<1>3. Explained(code)' /\ code' # 99
  BY <1>1, <1>2, ExitCodes, WroteMore DEF Explained
<1> QED
  BY <1>2, <1>3, NotGone DEF CodeInv

(* main exits with the code, or by a signal that it has received.          *)
LEMMA SelectExitTrue ==
  ASSUME IInv, SelectExit
  PROVE  CodeInv'
<1>1. /\ code \in {0, 1, 2, 3, 130} /\ Explained(code) /\ pc = "returned" /\ exit = Running
      /\ Later /\ code' = code
      /\ \/ pc' = "raise" /\ exit' = exit
         \/ pc' = "gone" /\ exit' = ByCode(code)
  BY DEF IInv, TypeOK, CodeInv, SelectExit, Gone, Later, sigVars, kernelVars, outVars, runVars
<1>2. Explained(code)'
  BY <1>1, ExplainedStays
<1>3. CASE pc' = "raise" /\ exit' = exit
  BY <1>1, <1>2, <1>3, NotGone DEF CodeInv
<1>4. CASE pc' = "gone" /\ exit' = ByCode(code)
  <2>1. exit'.how = "code" /\ exit'.value = code'
    BY <1>1, <1>4, Endings
  <2>2. ExitTruth'
    BY <1>1, <1>2, <2>1 DEF ExitTruth, Explained
  <2> QED
    BY <1>4, <2>2 DEF CodeInv
<1> QED
  BY <1>1, <1>3, <1>4

LEMMA ExitAfterSignalTrue ==
  ASSUME IInv, ExitAfterSignal
  PROVE  CodeInv'
<1>1. PICK s \in sent : sigCh = <<s>>
  BY DEF IInv, TypeOK, StageInv, ExitAfterSignal
<1>2. /\ Head(sigCh) = s /\ s \in {"INT", "TERM"} /\ sent' = sent /\ pc' = "gone"
      /\ \/ exit' = BySignal(s)
         \/ exit' = ByCode(IF s = "TERM" THEN 143 ELSE 130)
  BY <1>1 DEF IInv, TypeOK, Signals, ExitAfterSignal, Gone, sigVars, kernelVars
<1>3. \/ exit'.how = "signal" /\ exit'.value = s
      \/ exit'.how = "code" /\ exit'.value = 143 /\ s = "TERM"
      \/ exit'.how = "code" /\ exit'.value = 130 /\ s = "INT"
  BY <1>2, Endings
<1>4. ExitTruth'
  BY <1>1, <1>2, <1>3 DEF ExitTruth, Explained
<1> QED
  BY <1>2, <1>4 DEF CodeInv

LEMMA CodeStep ==
  ASSUME IInv, [Next]_vars
  PROVE  CodeInv'
<1>1. TypeOK /\ StageInv /\ CodeInv
  BY DEF IInv
<1> USE DEF outVars, sigVars, kernelVars, chanVars, doctorVars, endVars, runVars
(* Steps around those of main.                                             *)
<1>2. ASSUME Later, UNCHANGED <<pc, code, exit>> PROVE CodeInv'
  <2>1. Explained(code) => Explained(code)'
    BY <1>2, ExplainedStays
  <2>2. ExitTruth'
    BY <1>1, <1>2, WroteSame DEF CodeInv, ExitTruth, Explained, Later
  <2> QED
    BY <1>1, <1>2, <2>1, <2>2 DEF CodeInv
<1>3. CASE Notify \/ IgnoreBrokenPipe \/ NotifyContext
  BY <1>1, <1>3, NotGone DEF TypeOK, CodeInv, Notify, IgnoreBrokenPipe, NotifyContext
<1>4. ASSUME NEW s \in Signals, Send(s) PROVE CodeInv'
  <2>1. CASE handlers = {}
    <3>1. exit' = BySignal(s) /\ pc' = "gone" /\ s \in sent'
      BY <1>4, <2>1 DEF Send, Gone
    <3> QED
      BY <3>1, Endings DEF CodeInv, ExitTruth
  <2>2. CASE handlers # {}
    <3>1. Later /\ UNCHANGED <<pc, code, exit>>
      BY <1>4, <2>2 DEF Send, Later
    <3> QED
      BY <3>1, <1>2
  <2> QED
    BY <2>1, <2>2
<1>5. ASSUME NEW s \in Signals, TakeSignal(s) PROVE CodeInv'
  BY <1>2, <1>5 DEF TakeSignal, Later
<1>6. ASSUME NEW s \in Signals, NEW r \in {"main", "ctx"}, HandOver(s, r) PROVE CodeInv'
  BY <1>2, <1>6 DEF HandOver, Later
<1>7. CASE BreakPipe \/ UNCHANGED vars
  BY <1>2, <1>7 DEF BreakPipe, Later, vars
<1>8. CASE CancelContext
  <2>1. CASE pc = "running"
    BY <1>1, <1>8, <2>1, NotGone DEF CancelContext, TypeOK, CodeInv
  <2>2. CASE pc # "running"
    BY <1>2, <1>8, <2>2 DEF CancelContext, Later
  <2> QED
    BY <2>1, <2>2
(* Steps of a run that goes on, and of doctor.                             *)
<1>9. CASE RunCheck \/ CompleteRun \/ DeadlineFires \/ RunReturns
  BY <1>1, <1>9, NotGone DEF TypeOK, CodeInv, RunCheck, CompleteRun, DeadlineFires, RunReturns
<1>10. CASE Start
  BY <1>1, <1>10, NotGone, WriteEffect DEF TypeOK, StageInv, CodeInv, Start
<1>11. ASSUME NEW c \in Conds \ Guards, Announce(c) PROVE CodeInv'
  BY <1>1, <1>11, NotGone, WriteEffect DEF TypeOK, StageInv, CodeInv, Announce
<1>12. ASSUME NEW c \in Conds, FailRun(c) PROVE CodeInv'
  BY <1>1, <1>12, NotGone DEF TypeOK, CodeInv, FailRun
<1> QED
  BY <1>3, <1>4, <1>5, <1>6, <1>7, <1>8, <1>9, <1>10, <1>11, <1>12, DispatchExplained,
     HelpExplained, ExplainExplained, DoctorExplained, ReportExplained, SelectExitTrue,
     ExitAfterSignalTrue DEF Next, Main, Signalling, Terminated

-----------------------------------------------------------------------------
(* The event stream                                                        *)

LEMMA StreamAppend ==
  ASSUME NEW e \in Events, log \in Seq(Events), log' = Append(log, e), Begun,
         log = <<>> => e = "start", ~ Wrote("outcome")
  PROVE  Begun' /\ OutcomeLast' /\ log' # <<>> /\ (e # "outcome" => ~ Wrote("outcome")')
<1>1. /\ Len(log') = Len(log) + 1 /\ log'[Len(log) + 1] = e /\ Len(log) \in Nat
      /\ \A i \in 1..Len(log) : log'[i] = log[i]
      /\ DOMAIN log = 1..Len(log) /\ DOMAIN log' = 1..(Len(log) + 1)
      /\ (log = <<>>) = (Len(log) = 0) /\ log' # <<>>
  OBVIOUS
<1>2. Begun'
  BY <1>1 DEF Begun
<1>3. \A i \in 1..Len(log) : log'[i] # "outcome"
  BY <1>1 DEF Wrote
<1>4. OutcomeLast'
  BY <1>1, <1>3 DEF OutcomeLast
<1>5. e # "outcome" => ~ Wrote("outcome")'
  BY WroteMore DEF Wrote
<1> QED
  BY <1>1, <1>2, <1>4, <1>5

LEMMA StreamSame ==
  ASSUME log' = log
  PROVE  /\ (Begun => Begun') /\ (OutcomeLast => OutcomeLast') /\ (Told => Told')
         /\ (~ Wrote("outcome") => ~ Wrote("outcome")')
  BY DEF Begun, OutcomeLast, Told, Wrote

(* Steps that write nothing and leave Execute where it is.                 *)
LEMMA StreamQuiet ==
  ASSUME StreamInv, UNCHANGED <<command, log, exit>>, pipe = "broken" => pipe' = "broken",
         UNCHANGED <<pc, code>> \/ pc' \notin {"running", "report", "returned", "raise"}
  PROVE  StreamInv'
<1>1. /\ (Begun => Begun') /\ (OutcomeLast => OutcomeLast') /\ (Told => Told')
      /\ (~ Wrote("outcome") => ~ Wrote("outcome")')
  BY StreamSame
<1> QED
  BY <1>1 DEF StreamInv

(* Commands other than a run have no event stream.                         *)
LEMMA NoStream ==
  ASSUME command.kind # "run", command' = command
  PROVE  StreamInv'
  BY DEF StreamInv

(* The start event is the first, and attempts follow it.                   *)
LEMMA StreamGoesOn ==
  ASSUME IInv, NEW e \in {"start", "attempt"}, Write(e, "running", code, code), command' = command,
         pc = "running" \/ (pc = "start" /\ e = "start")
  PROVE  StreamInv'
<1>1. /\ shielded /\ pipe \in {"ok", "broken"} /\ log \in Seq(Events) /\ exit = Running
      /\ code = 99 /\ (pc = "start" => log = <<>>) /\ e \in Events
  BY DEF IInv, TypeOK, StageInv, Silent, Events
<1>2. /\ pc' = "running" /\ exit' = exit /\ pipe' = pipe /\ code' = code
      /\ \/ pipe = "ok" /\ log' = Append(log, e)
         \/ pipe = "broken" /\ log' = log
  BY <1>1, WriteEffect
<1>3. SUFFICES ASSUME command.kind = "run", command.format = "ndjson"
               PROVE  /\ Begun' /\ OutcomeLast' /\ ~ Wrote("outcome")'
                      /\ log' = <<>> => pipe' = "broken"
  BY <1>1, <1>2, Endings DEF StreamInv
<1>4. /\ Begun /\ OutcomeLast /\ ~ Wrote("outcome")
      /\ pipe = "ok" => (log = <<>> => e = "start")
  <2>1. CASE pc = "start"
    BY <1>1, <2>1, WroteNothing DEF Begun, OutcomeLast
  <2>2. CASE pc = "running"
    BY <1>1, <1>3, <2>2 DEF IInv, StreamInv
  <2> QED
    BY <2>1, <2>2
<1>5. CASE pipe = "ok" /\ log' = Append(log, e)
  BY <1>1, <1>2, <1>4, <1>5, StreamAppend
<1>6. CASE pipe = "broken" /\ log' = log
  BY <1>2, <1>4, <1>6, StreamSame
<1> QED
  BY <1>2, <1>5, <1>6

(* The outcome is the last event, and a status without it is not returned. *)
LEMMA StreamEnds ==
  ASSUME IInv, Report
  PROVE  StreamInv'
<1>1. /\ shielded /\ pipe \in {"ok", "broken"} /\ log \in Seq(Events) /\ exit = Running
      /\ "outcome" \in Events /\ pc = "report" /\ command' = command
  BY DEF IInv, TypeOK, StageInv, Events, Report
<1>2. /\ pc' = "returned" /\ exit' = exit /\ pipe' = pipe
      /\ \/ pipe = "ok" /\ log' = Append(log, "outcome")
         \/ /\ pipe = "broken" /\ log' = log
            /\ (command.format # "text" => code' = 3)
  BY <1>1, WriteEffect DEF Report
<1>3. SUFFICES ASSUME command.kind = "run", command.format = "ndjson"
               PROVE  /\ Begun' /\ OutcomeLast'
                      /\ code' \in {0, 1} => Told'
  BY <1>1, <1>2, Endings DEF StreamInv
<1>4. Begun /\ OutcomeLast /\ ~ Wrote("outcome") /\ (log = <<>> => pipe = "broken")
  BY <1>1, <1>3 DEF IInv, StreamInv
<1>5. CASE pipe = "ok" /\ log' = Append(log, "outcome")
  <2>1. Wrote("start")
    BY <1>1, <1>4, <1>5 DEF Begun, Wrote
  <2>2. Told'
    BY <1>1, <1>5, <2>1, WroteMore DEF Told
  <2> QED
    BY <1>1, <1>4, <1>5, <2>2, StreamAppend
<1>6. CASE pipe = "broken" /\ log' = log /\ code' = 3
  BY <1>4, <1>6, StreamSame
<1> QED
  BY <1>2, <1>3, <1>5, <1>6

LEMMA StreamStep ==
  ASSUME IInv, [Next]_vars
  PROVE  StreamInv'
<1>1. TypeOK /\ StageInv /\ CodeInv /\ StreamInv
  BY DEF IInv
<1> USE DEF outVars, sigVars, kernelVars, chanVars, doctorVars, endVars, runVars
<1>2. CASE Notify \/ IgnoreBrokenPipe \/ NotifyContext
  BY <1>1, <1>2, StreamQuiet DEF Notify, IgnoreBrokenPipe, NotifyContext
<1>3. ASSUME NEW s \in Signals, Send(s) PROVE StreamInv'
  <2>1. CASE handlers = {}
    <3>1. /\ exit' = BySignal(s) /\ pc' = "gone" /\ UNCHANGED <<command, log>>
      BY <1>3, <2>1 DEF Send, Gone
    <3> QED
      BY <1>1, <3>1, SignalIsNoCode, StreamSame DEF StreamInv
  <2>2. CASE handlers # {}
    BY <1>1, <1>3, <2>2, StreamQuiet DEF Send
  <2> QED
    BY <2>1, <2>2
<1>4. ASSUME NEW s \in Signals, TakeSignal(s) PROVE StreamInv'
  BY <1>1, <1>4, StreamQuiet DEF TakeSignal
<1>5. ASSUME NEW s \in Signals, NEW r \in {"main", "ctx"}, HandOver(s, r) PROVE StreamInv'
  BY <1>1, <1>5, StreamQuiet DEF HandOver
<1>6. CASE BreakPipe \/ CancelContext \/ DeadlineFires \/ UNCHANGED vars
  BY <1>1, <1>6, StreamQuiet DEF BreakPipe, CancelContext, DeadlineFires, vars
<1>7. CASE Dispatch
  <2>1. CASE command.kind = "run"
    BY <1>1, <1>7, <2>1, DispatchEffect, StreamQuiet DEF TypeOK
  <2>2. CASE command.kind # "run"
    BY <1>1, <1>7, <2>2, DispatchEffect, NoStream DEF TypeOK
  <2> QED
    BY <2>1, <2>2
<1>8. CASE Help \/ WriteExplain \/ RunCheck \/ WriteDoctorReport
  <2>1. command.kind # "run" /\ command' = command
    BY <1>1, <1>8 DEF StageInv, Help, WriteExplain, RunCheck, WriteDoctorReport
  <2> QED
    BY <2>1, NoStream
<1>9. CASE Start
  <2>1. CASE command.format = "json"
    BY <1>9, <2>1 DEF Start, StreamInv
  <2>2. CASE command.format # "json"
    BY <1>9, <2>2, StreamGoesOn DEF Start
  <2> QED
    BY <2>1, <2>2
<1>10. ASSUME NEW c \in Conds \ Guards, Announce(c) PROVE StreamInv'
  <2>1. CASE command.format = "json"
    BY <1>10, <2>1 DEF Announce, StreamInv
  <2>2. CASE command.format # "json"
    BY <1>10, <2>2, StreamGoesOn DEF Announce
  <2> QED
    BY <2>1, <2>2
<1>11. CASE CompleteRun
  BY <1>1, <1>11, StreamQuiet DEF CompleteRun
<1>12. ASSUME NEW c \in Conds, FailRun(c) PROVE StreamInv'
  BY <1>1, <1>12, StreamQuiet DEF FailRun
<1>13. CASE RunReturns
  BY <1>1, <1>13, StreamSame DEF RunReturns, StreamInv
<1>14. CASE SelectExit
  <2>1. /\ pc = "returned" /\ exit = Running /\ UNCHANGED <<command, log, pipe, code>>
        /\ \/ pc' = "raise" /\ exit' = exit
           \/ pc' = "gone" /\ exit' = ByCode(code)
    BY <1>1, <1>14 DEF SelectExit, Gone, TypeOK
  <2>2. exit' \in {ByCode(0), ByCode(1)} => code \in {0, 1}
    BY <2>1, Endings
  <2> QED
    BY <1>1, <2>1, <2>2, StreamSame DEF StreamInv
<1>15. CASE ExitAfterSignal
  <2>1. /\ UNCHANGED <<command, log>> /\ pc' = "gone"
        /\ \/ \E s : exit' = BySignal(s)
           \/ exit' = ByCode(143) \/ exit' = ByCode(130)
    BY <1>15 DEF ExitAfterSignal, Gone
  <2>2. exit' \notin {ByCode(0), ByCode(1)}
    BY <2>1, Endings, SignalIsNoCode
  <2> QED
    BY <1>1, <2>1, <2>2, StreamSame DEF StreamInv
<1> QED
  BY <1>2, <1>3, <1>4, <1>5, <1>6, <1>7, <1>8, <1>9, <1>10, <1>11, <1>12, <1>13, <1>14,
     <1>15, StreamEnds DEF Next, Main, Signalling, Terminated

-----------------------------------------------------------------------------
(* All that the proofs below rest on is invariant.                         *)
THEOREM Invariance == Spec => []IInv
<1>1. IInv /\ [Next]_vars => IInv'
  BY TypeStep, StageStep, RunStep, CodeStep, StreamStep DEF IInv
<1> QED
  BY <1>1, InitIInv, PTL DEF Spec

(* Values stay in their types: the channel of main holds at most one       *)
(* signal that was sent, and the process has ended exactly when main has.  *)
THEOREM TypeCorrect == Spec => []TypeOK
<1>1. IInv => TypeOK
  BY DEF IInv
<1> QED
  BY <1>1, Invariance, PTL

(* The exit status tells the truth about what main did, at any moment of a *)
(* signal, a deadline or a broken pipe, for any conditions (main.go:24,    *)
(* exitCodeForStatus).                                                     *)
THEOREM ExitsAreTrue == Spec => []ExitTruth
<1>1. IInv => ExitTruth
  BY DEF IInv, CodeInv
<1> QED
  BY <1>1, Invariance, PTL

(* The event stream is the beginning of a start event, attempts and one    *)
(* outcome, and whole when the exit code is the run's (output.go:91).      *)
THEOREM StreamsArePrefixes == Spec => []StreamIsPrefix
<1>1. IInv => StreamIsPrefix
  BY DEF IInv, StreamInv, StreamIsPrefix, Begun, OutcomeLast, Told
<1> QED
  BY <1>1, Invariance, PTL

(* What the process makes of a run is a behaviour of its contract: each    *)
(* step is one of WaitContract's or leaves the run alone.                  *)
THEOREM RunsKeepTheContract == Spec => R!ContractInit /\ [][R!ContractNext]_runVars
<1>1. [Next]_vars => [R!ContractNext]_runVars
  <2> SUFFICES ASSUME [Next]_vars PROVE R!ContractNext \/ UNCHANGED runVars
    OBVIOUS
  <2>1. ASSUME NEW c \in Conds \ Guards, Announce(c) PROVE R!ContractNext
    BY <2>1 DEF Announce, R!ContractNext, R!ReadyConds
  <2>2. ASSUME NEW c \in Conds, FailRun(c) PROVE R!ContractNext
    BY <2>2 DEF FailRun, R!ContractNext
  <2>3. CompleteRun \/ RunReturns => R!ContractNext
    BY DEF CompleteRun, RunReturns, R!ContractNext
  <2>4. Notify \/ IgnoreBrokenPipe \/ NotifyContext \/ Dispatch \/ Help => UNCHANGED runVars
    BY DEF Notify, IgnoreBrokenPipe, NotifyContext, Dispatch, Help, runVars
  <2>5. WriteExplain \/ RunCheck \/ WriteDoctorReport \/ Start \/ Report => UNCHANGED runVars
    BY DEF WriteExplain, RunCheck, WriteDoctorReport, Start, Report, runVars
  <2>6. SelectExit \/ ExitAfterSignal \/ CancelContext \/ DeadlineFires \/ BreakPipe
          => UNCHANGED runVars
    BY DEF SelectExit, ExitAfterSignal, CancelContext, DeadlineFires, BreakPipe, runVars
  <2>7. ASSUME NEW s \in Signals, Send(s) \/ TakeSignal(s) PROVE UNCHANGED runVars
    BY <2>7 DEF Send, TakeSignal, runVars
  <2>8. ASSUME NEW s \in Signals, NEW r \in {"main", "ctx"}, HandOver(s, r)
        PROVE UNCHANGED runVars
    BY <2>8 DEF HandOver, runVars
  <2>9. UNCHANGED vars => UNCHANGED runVars
    BY DEF vars, runVars
  <2> QED
    BY <2>1, <2>2, <2>3, <2>4, <2>5, <2>6, <2>7, <2>8, <2>9
       DEF Next, Main, Signalling, Terminated
<1>2. Init => R!ContractInit
  BY DEF Init
<1> QED
  BY <1>1, <1>2, PTL DEF Spec
=============================================================================

------------------------------- MODULE Process -------------------------------
(***************************************************************************)
(* One waitfor process, from main's first statement to its exit: the two   *)
(* receivers of a termination signal, the command that Execute carries     *)
(* out, what is written, and the exit status. A run is the contract that   *)
(* Runner.tla implements (WaitContract), under the context that the first  *)
(* signal cancels.                                                         *)
(***************************************************************************)
EXTENDS Naturals, Sequences

CONSTANTS
  Conds,      (* the conditions of a run                                    *)
  Guards,     (* those that only stop it                                    *)
  Mode        (* "all" or "any"                                             *)

Signals == {"INT", "TERM"}
Commands ==
  [kind : {"run", "explain"}, format : {"text", "json", "ndjson"}]
    \cup [kind : {"doctor"}, format : {"text", "json"}]
    \cup [kind : {"help", "misasked", "refused"}, format : {"text"}]

VARIABLES
  command,    (* what the arguments ask for                                 *)
  pc,         (* the statement main, or Execute under it, is about to run   *)
  handlers,   (* registered receivers: main's channel, the context's        *)
  pending,    (* signals the kernel has queued for the process              *)
  handing,    (* <<signal, receiver>> pairs os/signal is delivering         *)
  sigCh,      (* main's channel, of capacity one                            *)
  ctxSignal,  (* the context's channel holds a signal                       *)
  ctxDone,    (* the context is cancelled                                   *)
  runErr,     (* the run's own context: "none", "deadline" or "cancelled"   *)
  pipe,       (* the reader of the command's output: "ok" or "broken"       *)
  shielded,   (* SIGPIPE is ignored                                         *)
  log,        (* what has been written                                      *)
  todo, required,  (* doctor: the checks to come, and those that must be ok *)
  diagnosis,  (* doctor: the status so far                                  *)
  faults,     (* history: the required checks that were not ok              *)
  code,       (* what Execute returned, 99 before it does                   *)
  exit,       (* how the process ended                                      *)
  sent,       (* history: the signals sent so far                           *)
  satisfied, failed, verdict, outcome    (* of the run: see WaitContract    *)

runVars == <<satisfied, failed, verdict, outcome>>
kernelVars == <<pending, handing, sent>>
chanVars == <<sigCh, ctxSignal, ctxDone>>
sigVars == <<handlers, kernelVars, chanVars>>
outVars == <<pipe, log>>
doctorVars == <<todo, required, diagnosis, faults>>
endVars == <<code, exit>>
vars == <<command, pc, sigVars, runErr, outVars, shielded, doctorVars, endVars,
          runVars>>

R == INSTANCE WaitContract

Running == [how |-> "running", value |-> 0]
ByCode(n) == [how |-> "code", value |-> n]
BySignal(s) == [how |-> "signal", value |-> s]

Init ==
  /\ command \in Commands
  /\ pc = "notify"
  /\ handlers = {} /\ pending = {} /\ handing = {} /\ sent = {}
  /\ sigCh = <<>> /\ ctxSignal = FALSE /\ ctxDone = FALSE
  /\ runErr = "none"
  /\ pipe = "ok" /\ shielded = FALSE /\ log = <<>>
  /\ todo = <<>> /\ required = {} /\ diagnosis = "ok" /\ faults = {}
  /\ code = 99
  /\ exit = Running
  /\ R!ContractInit

(***************************************************************************)
(* main, up to Execute                                                     *)
(***************************************************************************)
Notify ==
  /\ pc = "notify"
  /\ handlers' = handlers \cup {"main"}
  /\ pc' = "ignore"
  /\ UNCHANGED <<command, kernelVars, chanVars, runErr, outVars, shielded,
                 doctorVars, endVars, runVars>>

IgnoreBrokenPipe ==
  /\ pc = "ignore"
  /\ shielded' = TRUE
  /\ pc' = "context"
  /\ UNCHANGED <<command, sigVars, runErr, outVars, doctorVars, endVars,
                 runVars>>

NotifyContext ==
  /\ pc = "context"
  /\ handlers' = handlers \cup {"ctx"}
  /\ pc' = "dispatch"
  /\ UNCHANGED <<command, kernelVars, chanVars, runErr, outVars, shielded,
                 doctorVars, endVars, runVars>>

(***************************************************************************)
(* Signals: the kernel, os/signal's goroutine, the context's goroutine     *)
(***************************************************************************)
Gone(how) == pc' = "gone" /\ exit' = how

(* A signal without a receiver has its default action. *)
Send(s) ==
  /\ pc # "gone" /\ s \notin sent
  /\ sent' = sent \cup {s}
  /\ IF handlers = {}
     THEN Gone(BySignal(s)) /\ UNCHANGED pending
     ELSE pending' = pending \cup {s} /\ UNCHANGED <<pc, exit>>
  /\ UNCHANGED <<command, handlers, handing, chanVars, runErr, outVars, shielded,
                 doctorVars, code, runVars>>

TakeSignal(s) ==
  /\ pc # "gone" /\ handing = {} /\ s \in pending
  /\ pending' = pending \ {s}
  /\ handing' = {s} \X handlers
  /\ UNCHANGED <<command, pc, handlers, sent, chanVars, runErr, outVars, shielded,
                 doctorVars, endVars, runVars>>

(* The receivers are served in no particular order, and never waited for:  *)
(* a full channel loses the signal.                                        *)
HandOver(s, r) ==
  /\ pc # "gone" /\ <<s, r>> \in handing
  /\ handing' = handing \ {<<s, r>>}
  /\ IF r = "main"
     THEN sigCh' = (IF sigCh = <<>> THEN <<s>> ELSE sigCh) /\ UNCHANGED ctxSignal
     ELSE ctxSignal' = TRUE /\ UNCHANGED sigCh
  /\ UNCHANGED <<command, pc, handlers, pending, sent, ctxDone, runErr, outVars,
                 shielded, <<doctorVars, endVars, runVars>> >>

(* Fault: the run's context is not derived from the one of main. *)
CancelContextDetached ==
  /\ pc # "gone" /\ ctxSignal /\ ~ ctxDone
  /\ ctxDone' = TRUE
  /\ UNCHANGED <<command, pc, handlers, kernelVars, sigCh, ctxSignal, runErr,
                 outVars, shielded, <<doctorVars, endVars, runVars>> >>

(* The run's context is derived from this one, and keeps its first error.  *)
CancelContext ==
  /\ pc # "gone" /\ ctxSignal /\ ~ ctxDone
  /\ ctxDone' = TRUE
  /\ runErr' = IF pc = "running" /\ runErr = "none" THEN "cancelled" ELSE runErr
  /\ UNCHANGED <<command, pc, handlers, kernelVars, sigCh, ctxSignal, outVars,
                 shielded, <<doctorVars, endVars, runVars>> >>

(***************************************************************************)
(* Output: a broken pipe is an error to a writer, or ends the process.     *)
(***************************************************************************)
BreakPipe ==
  /\ pc # "gone" /\ pipe = "ok"
  /\ pipe' = "broken"
  /\ UNCHANGED <<command, pc, sigVars, runErr, shielded, log, doctorVars,
                 endVars, runVars>>

(* What is written, then where to go on and with which code, or the end.   *)
Write(e, next, good, bad) ==
  /\ log' = IF pipe = "ok" THEN Append(log, e) ELSE log
  /\ IF pipe = "ok" \/ shielded
     THEN /\ pc' = next
          /\ code' = IF pipe = "ok" THEN good ELSE bad
          /\ UNCHANGED exit
     ELSE Gone(BySignal("PIPE")) /\ UNCHANGED code
  /\ UNCHANGED pipe

(***************************************************************************)
(* Execute: dispatch on the first argument                                 *)
(***************************************************************************)
BaseChecks == <<"temp", "shell", "docker", "k8s", "dns-wire">>
BackendChecks == {<<>>, <<"backend:docker">>, <<"backend:systemd">>}

FirstStep(c) ==
  IF c.kind = "run" THEN "start"
  ELSE IF c.kind \in {"explain", "doctor", "help"} THEN c.kind
  ELSE "returned"

(* What a parser refuses is invalid, but for help and completion. Options  *)
(* of doctor name the checks.                                              *)
Dispatch ==
  /\ pc = "dispatch"
  /\ pc' = FirstStep(command)
  /\ code' = IF command.kind = "refused" THEN 2
             ELSE IF command.kind = "misasked" THEN 3
             ELSE code
  /\ IF command.kind = "doctor"
     THEN \E extra \in BackendChecks, asked \in SUBSET {"shell", "docker"} :
            todo' = BaseChecks \o extra /\ required' = asked \cup {"temp"}
     ELSE UNCHANGED <<todo, required>>
  /\ UNCHANGED <<command, sigVars, runErr, outVars, shielded, diagnosis, faults,
                 exit, runVars>>

(* Help and completion ignore what becomes of their output. *)
Help ==
  /\ pc = "help"
  /\ Write("help", "returned", 0, 0)
  /\ UNCHANGED <<command, sigVars, runErr, shielded, doctorVars, runVars>>

(* The plan: text ignores a failed write, ndjson reports it, and json      *)
(* prints an error beside the code of success.                             *)
WriteExplain ==
  /\ pc = "explain"
  /\ Write("plan", "returned", 0, IF command.format = "ndjson" THEN 3 ELSE 0)
  /\ UNCHANGED <<command, sigVars, runErr, shielded, doctorVars, runVars>>

(***************************************************************************)
(* Doctor: independent checks, folded into one status                      *)
(***************************************************************************)
(* What each check can say. One that runs a command says "warn" once the   *)
(* context is cancelled.                                                   *)
Findings(c) ==
  IF c = "temp" THEN {"ok", "fail"}
  ELSE IF c = "dns-wire" THEN {"ok"}
  ELSE IF c \in {"docker", "k8s", "backend:docker"} /\ ctxDone THEN {"warn"}
  ELSE {"ok", "warn"}

CombineDoctorStatus(current, isRequired, status) ==
  IF isRequired /\ status # "ok" THEN "fail"
  ELSE IF current = "ok" /\ status # "ok" THEN "warn"
  ELSE current

(* One check after the other; each looks at the context anew.              *)
RunCheck ==
  /\ pc = "doctor" /\ todo # <<>>
  /\ LET c == Head(todo) IN
     \E status \in Findings(c) :
       /\ diagnosis' = CombineDoctorStatus(diagnosis, c \in required, status)
       /\ faults' = faults \cup (IF c \in required /\ status # "ok" THEN {c} ELSE {})
  /\ todo' = Tail(todo)
  /\ UNCHANGED <<command, pc, sigVars, runErr, outVars, shielded, required,
                 endVars, runVars>>

(* Text ignores a failed write, json reports it.                           *)
WriteDoctorReport ==
  /\ pc = "doctor" /\ todo = <<>>
  /\ Write(IF faults # {} THEN "fault" ELSE "healthy", "returned",
           IF diagnosis = "fail" THEN 3 ELSE 0,
           IF command.format = "json" \/ diagnosis = "fail" THEN 3 ELSE 0)
  /\ UNCHANGED <<command, sigVars, runErr, shielded, doctorVars, runVars>>

(***************************************************************************)
(* A run                                                                   *)
(***************************************************************************)
(* Fault: the start event is for readers of text only. *)
StartTextOnly ==
  /\ pc = "start"
  /\ IF command.format # "text"
     THEN pc' = "running" /\ UNCHANGED <<outVars, code, exit>>
     ELSE Write("start", "running", code, code)
  /\ runErr' = IF ctxDone THEN "cancelled" ELSE "none"
  /\ UNCHANGED <<command, sigVars, shielded, doctorVars, runVars>>

Start ==
  /\ pc = "start"
  /\ IF command.format = "json"
     THEN pc' = "running" /\ UNCHANGED <<outVars, code, exit>>
     ELSE Write("start", "running", code, code)
  /\ runErr' = IF ctxDone THEN "cancelled" ELSE "none"
  /\ UNCHANGED <<command, sigVars, shielded, doctorVars, runVars>>

DeadlineFires ==
  /\ pc = "running" /\ runErr = "none"
  /\ runErr' = "deadline"
  /\ UNCHANGED <<command, pc, sigVars, outVars, shielded, doctorVars, endVars,
                 runVars>>

(* A satisfied condition is announced as it is recorded. *)
Announce(c) ==
  /\ pc = "running"
  /\ R!Satisfy(c)
  /\ IF command.format = "json"
     THEN UNCHANGED <<pc, outVars, code, exit>>
     ELSE Write("attempt", "running", code, code)
  /\ UNCHANGED <<command, sigVars, runErr, shielded, doctorVars>>

CompleteRun ==
  /\ pc = "running"
  /\ R!Complete
  /\ UNCHANGED <<command, pc, sigVars, runErr, outVars, shielded, doctorVars,
                 code, exit>>

FailRun(c) ==
  /\ pc = "running"
  /\ R!Fail(c)
  /\ UNCHANGED <<command, pc, sigVars, runErr, outVars, shielded, doctorVars,
                 code, exit>>

(* Run returns when its context is done: the verdict cancels it too.       *)
RunReturns ==
  /\ pc = "running"
  /\ IF verdict # "none"
     THEN R!ReturnVerdict
     ELSE /\ runErr # "none"
          /\ R!GiveUp
          /\ outcome' = IF runErr = "deadline" THEN "timeout" ELSE "cancelled"
  /\ pc' = "report"
  /\ UNCHANGED <<command, sigVars, runErr, outVars, shielded, doctorVars,
                 endVars>>

ExitCodeForStatus(s) ==
  IF s = "satisfied" THEN 0 ELSE IF s = "fatal" THEN 3
  ELSE IF s = "cancelled" THEN 130 ELSE 1

(* Fault: the report is attempted, and the status decides. *)
ReportIgnoresError ==
  /\ pc = "report"
  /\ Write("outcome", "returned", ExitCodeForStatus(outcome),
           ExitCodeForStatus(outcome))
  /\ UNCHANGED <<command, sigVars, runErr, shielded, doctorVars, runVars>>

Report ==
  /\ pc = "report"
  /\ Write("outcome", "returned", ExitCodeForStatus(outcome),
           IF command.format = "text" THEN ExitCodeForStatus(outcome) ELSE 3)
  /\ UNCHANGED <<command, sigVars, runErr, shielded, doctorVars, runVars>>

(***************************************************************************)
(* main, after Execute                                                     *)
(***************************************************************************)
SelectExit ==
  /\ pc = "returned"
  /\ IF sigCh # <<>> THEN pc' = "raise" /\ UNCHANGED exit
     ELSE Gone(ByCode(code))
  /\ UNCHANGED <<command, sigVars, runErr, outVars, shielded, doctorVars, code,
                 runVars>>

(* The signal is reset and sent again; it may land before os.Exit or not.  *)
ExitAfterSignal ==
  /\ pc = "raise"
  /\ LET s == Head(sigCh) IN
     \E how \in {BySignal(s), ByCode(IF s = "TERM" THEN 143 ELSE 130)} : Gone(how)
  /\ UNCHANGED <<command, sigVars, runErr, outVars, shielded, doctorVars, code,
                 runVars>>

Terminated == pc = "gone" /\ UNCHANGED vars

Main ==
  \/ Notify \/ IgnoreBrokenPipe \/ NotifyContext \/ Dispatch \/ Help
  \/ WriteExplain \/ RunCheck \/ WriteDoctorReport \/ Start \/ CompleteRun \/ RunReturns
  \/ Report \/ SelectExit \/ ExitAfterSignal

Signalling ==
  \/ \E s \in Signals : TakeSignal(s)
  \/ \E s \in Signals, r \in {"main", "ctx"} : HandOver(s, r)
  \/ CancelContext

Next ==
  \/ Main \/ Signalling \/ DeadlineFires \/ BreakPipe \/ Terminated
  \/ \E s \in Signals : Send(s)
  \/ \E c \in Conds : FailRun(c)
  \/ \E c \in Conds \ Guards : Announce(c)

(* The scheduler runs main, os/signal and the context's goroutine; a run   *)
(* that is complete or done returns (ContractFairness, implemented by      *)
(* Runner). Nothing is owed by the deadline or by a condition: without a   *)
(* signal a run may go on for ever.                                        *)
Spec == Init /\ [][Next]_vars /\ WF_vars(Main) /\ WF_vars(Signalling)

Events == {"start", "attempt", "outcome", "plan", "help", "fault", "healthy"}
Checks ==
  {"temp", "shell", "docker", "k8s", "dns-wire", "backend:docker", "backend:systemd"}
Statements ==
  {"notify", "ignore", "context", "dispatch", "help", "explain", "doctor", "start",
   "running", "report", "returned", "raise", "gone"}

TypeOK ==
  /\ command \in Commands /\ pc \in Statements
  /\ handlers \subseteq {"main", "ctx"}
  /\ pending \subseteq sent /\ sent \subseteq Signals
  /\ handing \subseteq sent \X {"main", "ctx"}
  /\ sigCh \in {<<>>} \cup {<<s>> : s \in sent}
  /\ runErr \in {"none", "deadline", "cancelled"}
  /\ pipe \in {"ok", "broken"} /\ log \in Seq(Events)
  /\ todo \in Seq(Checks) /\ diagnosis \in {"ok", "warn", "fail"}
  /\ code \in {0, 1, 2, 3, 130, 99}
  /\ (exit = Running) = (pc # "gone")
  /\ R!ContractTypeOK

Wrote(e) == \E i \in DOMAIN log : log[i] = e

(* What must have happened for the process to exit with code n (the codes  *)
(* of README.md:349).                                                      *)
Explained(n) ==
  /\ n = 0 =>
       /\ command.kind = "run" =>
            outcome = "satisfied" /\ (command.format # "text" => Wrote("outcome"))
       /\ command.kind = "doctor" =>
            ~ Wrote("fault") /\ (command.format = "json" => Wrote("healthy"))
       /\ (command.kind = "explain" /\ command.format = "ndjson") => Wrote("plan")
       /\ command.kind \notin {"misasked", "refused"}
  /\ n = 1 => outcome = "timeout" /\ runErr = "deadline"
  /\ n = 2 => command.kind = "refused" /\ log = <<>>
  /\ n = 3 =>
       \/ outcome = "fatal"
       \/ command.kind = "misasked"
       \/ (command.kind = "doctor" /\ Wrote("fault"))
       \/ pipe = "broken"
  /\ n = 130 =>
       \/ "INT" \in sent
       \/ (outcome = "cancelled" /\ sent # {})
  /\ n = 143 => "TERM" \in sent

(* The exit status tells the truth about what main did: nobody reads       *)
(* success where the run was not satisfied or its machine-readable report  *)
(* was lost, and each failure code has its cause. A signal kills the       *)
(* process only if it was sent: never SIGPIPE.                             *)
ExitTruth ==
  /\ exit.how = "signal" => exit.value \in sent
  /\ exit.how = "code" => exit.value \in {0, 1, 2, 3, 130, 143} /\ Explained(exit.value)

(* What a reader of the event stream sees is the beginning of a start      *)
(* event, attempts and one outcome, whenever the pipe breaks, and a run    *)
(* that exits with its status has written it all (Printer, OnAttempt).     *)
StreamIsPrefix ==
  command.kind = "run" /\ command.format = "ndjson" =>
    /\ log # <<>> => log[1] = "start"
    /\ \A i \in DOMAIN log : log[i] = "outcome" => i = Len(log) /\ i > 1
    /\ exit \in {ByCode(0), ByCode(1)} => Wrote("start") /\ Wrote("outcome")

(* A signal that finds the context's receiver registered ends the process, *)
(* even if no check ever answers and the deadline never comes              *)
(* (signal.NotifyContext, main.go:21).                                     *)
SignalEnds ==
  ("ctx" \in handlers /\ pending # {}) ~> pc = "gone"

(* A run that was cancelled by SIGTERM alone ends by SIGTERM or with code  *)
(* 143 (docs/SPEC.md:578). Violated: main can reach its select between the *)
(* two deliveries of the signal.                                           *)
TermExits143 ==
  pc = "gone" /\ outcome = "cancelled" /\ sent = {"TERM"} =>
    exit \in {BySignal("TERM"), ByCode(143)} \/ pipe = "broken"
=============================================================================

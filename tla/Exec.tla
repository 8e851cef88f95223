--------------------------------- MODULE Exec ---------------------------------
(***************************************************************************)
(* One run of a command by a check: exec runs the command of the user in a *)
(* process group of its own, the tool backends (docker, systemctl, ...)    *)
(* run theirs in the group of waitfor. The command may leave a descendant  *)
(* that holds the two output pipes. Two goroutines copy the pipes into     *)
(* buffers, a third waits for the end of the context and kills; Wait reaps *)
(* the command, hears from the third and then waits for both copies to     *)
(* reach the end of file (os/exec, no WaitDelay).                          *)
(* The buffers are of a type that limits what is written to it. But it     *)
(* embeds a bytes.Buffer, and io.Copy fills that one by its ReadFrom: what *)
(* the command prints is kept whole, and only the output of both streams   *)
(* together, which is written, is cut at the limit.                        *)
(***************************************************************************)
EXTENDS Integers, Sequences, SequencesExt

CONSTANTS Limit,       \* bytes kept of both streams together
          MaxWritten,  \* bound: bytes written to a stream
          PipeSize,    \* bytes a pipe holds
          Chunks,      \* what is written at once; "m" is the byte looked for
          ExitCodes,   \* of the command; 0 is expected
          Wants        \* what the output must hold: "nothing", "contains", "json"

Bytes == {"x", "m"}

ASSUME ExecAssumption ==
  /\ Limit \in Nat \ {0} /\ MaxWritten \in Nat /\ PipeSize \in Nat \ {0}
  /\ Chunks \subseteq Seq(Bytes) /\ \A chunk \in Chunks : Len(chunk) \in 1..PipeSize
  /\ Wants \subseteq {"nothing", "contains", "json"}
  /\ 0 \in ExitCodes /\ ExitCodes \subseteq Nat

Streams == {"stdout", "stderr"}

VARIABLES
  caller,   \* "exec" or "tool"
  want,
  ctx,      \* "live" or "done"
  leader,   \* the command: "none", "running", "zombie", "reaped"
  code,     \* its exit code once it is a zombie; -1: killed
  child,    \* "none", "in group", "own group", "gone"
  written,  \* history: all that was written to each stream
  pipe,     \* what is in each pipe
  buffer,   \* what has been copied of each stream
  watch,    \* the goroutine that waits for the context
  run,      \* how far Run is: "idle", "started", "reaped", "awaiting", "returned"
  runErr,   \* "nil", "exit", "ctx", "not started"
  result

processes == <<leader, code, child>>
output == <<written, pipe, buffer>>
call == <<caller, want>>
vars == <<call, ctx, processes, output, watch, run, runErr, result>>

-----------------------------------------------------------------------------
(* The limited buffer: it accepts every write and keeps what fits.         *)

Empty == [data |-> <<>>, truncated |-> FALSE]

Kept(s) == SubSeq(s, 1, IF Len(s) > Limit THEN Limit ELSE Len(s))

(* Fault: a write that begins within the limit is kept as a whole. *)
WriteOver(b, p) ==
  IF Len(b.data) >= Limit THEN [b EXCEPT !.truncated = TRUE] ELSE [b EXCEPT !.data = @ \o p]

(* A write to a full buffer marks it, even one of nothing.                 *)
WriteLimited(b, p) ==
  [data |-> Kept(b.data \o p),
   truncated |-> b.truncated \/ Len(b.data) >= Limit \/ Len(b.data \o p) > Limit]

(* Both streams in one limited buffer, stdout first.                       *)
CombinedExecOutput == WriteLimited(WriteLimited(Empty, buffer["stdout"]), buffer["stderr"])

(* A substring is looked for in what is kept of both, a document is read   *)
(* from the whole of stdout.                                               *)
CheckExecOutput ==
  \/ want = "nothing"
  \/ want = "contains" /\ Contains(CombinedExecOutput.data, "m")
  \/ want = "json" /\ Contains(buffer["stdout"], "m")

(* The context counts only when the run has failed.                        *)
(* Fault: an exit code is taken for success. *)
ClassifyRunErrorLax(err) ==
  IF err \in {"nil", "exit"} THEN "ran" ELSE IF ctx = "done" THEN "unsatisfied" ELSE "fatal"

ClassifyRunError(err) ==
  IF err = "nil" THEN "ran"
  ELSE IF ctx = "done" THEN "unsatisfied"
  ELSE IF err = "exit" THEN "exited" ELSE "fatal"

(* The answer of exec, where exit code 0 is expected; a tool's output goes *)
(* to its backend (CommandBackends).                                       *)
Check(err) ==
  LET end == ClassifyRunError(err)
  IN IF caller = "tool" THEN IF err = "nil" THEN "output" ELSE "error"
     ELSE IF end = "ran" THEN IF CheckExecOutput THEN "satisfied" ELSE "unsatisfied"
     ELSE IF end = "exited" THEN "unsatisfied" ELSE end

-----------------------------------------------------------------------------

Init ==
  /\ caller \in {"exec", "tool"} /\ want \in Wants
  /\ ctx = "live" /\ leader = "none" /\ code = 0 /\ child = "none"
  /\ written = [s \in Streams |-> <<>>] /\ pipe = [s \in Streams |-> <<>>]
  /\ buffer = [s \in Streams |-> <<>>]
  /\ watch = "none" /\ run = "idle" /\ runErr = "nil" /\ result = "none"

Return(err) == run' = "returned" /\ runErr' = err /\ result' = Check(err)

Start ==
  /\ run = "idle"
  /\ \/ /\ ctx = "done" /\ Return("ctx")
        /\ UNCHANGED <<leader, watch>>
     \/ /\ ctx = "live" /\ Return("not started")
        /\ UNCHANGED <<leader, watch>>
     \/ /\ ctx = "live"
        /\ leader' = "running" /\ watch' = "watching" /\ run' = "started"
        /\ UNCHANGED <<runErr, result>>
  /\ UNCHANGED <<call, ctx, code, child, output>>

(* The attempt or the whole wait times out, or a signal ends it.           *)
Expire ==
  /\ ctx = "live" /\ ctx' = "done"
  /\ UNCHANGED <<call, processes, output, watch, run, runErr, result>>

(***************************************************************************)
(* What the command and its descendant do                                  *)
(***************************************************************************)
Alive == child \in {"in group", "own group"}

Fork ==
  /\ leader = "running" /\ child = "none"
  /\ child' \in {"in group", "own group"}
  /\ UNCHANGED <<call, ctx, leader, code, output, watch, run, runErr, result>>

(* A writer waits while the pipe is full.                                  *)
Emit(s, chunk) ==
  /\ leader = "running" \/ Alive
  /\ Len(pipe[s]) + Len(chunk) <= PipeSize
  /\ Len(written[s]) + Len(chunk) <= MaxWritten
  /\ pipe' = [pipe EXCEPT ![s] = @ \o chunk]
  /\ written' = [written EXCEPT ![s] = @ \o chunk]
  /\ UNCHANGED <<call, ctx, processes, buffer, watch, run, runErr, result>>

Exit ==
  /\ \/ leader = "running" /\ leader' = "zombie" /\ code' \in ExitCodes /\ UNCHANGED child
     \/ Alive /\ child' = "gone" /\ UNCHANGED <<leader, code>>
  /\ UNCHANGED <<call, ctx, output, watch, run, runErr, result>>

(***************************************************************************)
(* What waitfor does                                                       *)
(***************************************************************************)
(* ReadFrom takes what it finds in the pipe, without a limit.              *)
Copy(s) ==
  /\ pipe[s] # <<>>
  /\ buffer' = [buffer EXCEPT ![s] = @ \o pipe[s]]
  /\ pipe' = [pipe EXCEPT ![s] = <<>>]
  /\ UNCHANGED <<call, ctx, processes, written, watch, run, runErr, result>>

(* Whom Cancel kills: the group of the command, or the command alone.      *)
(* Fault: the command alone, always. *)
KilledAlone == IF leader = "reaped" THEN {} ELSE {"leader"}

Killed ==
  (IF leader = "reaped" THEN {} ELSE {"leader"})
  \cup (IF caller = "exec" /\ child = "in group" THEN {"child"} ELSE {})

(* The context ends while the goroutine still watches; if nobody was left  *)
(* to kill, the end of the context is not reported.                        *)
Cancel ==
  /\ watch = "watching" /\ ctx = "done"
  /\ watch' = IF Killed = {} THEN "process done" ELSE "interrupted"
  /\ IF "leader" \in Killed /\ leader = "running" THEN leader' = "zombie" /\ code' = -1
                                                  ELSE UNCHANGED <<leader, code>>
  /\ child' = IF "child" \in Killed THEN "gone" ELSE child
  /\ UNCHANGED <<call, ctx, output, run, runErr, result>>

Reap ==
  /\ run = "started" /\ leader = "zombie"
  /\ leader' = "reaped" /\ run' = "reaped"
  /\ runErr' = IF code = 0 THEN "nil" ELSE "exit"
  /\ UNCHANGED <<call, ctx, code, child, output, watch, result>>

(* Wait hears from the watching goroutine, which from then on is over.     *)
TakeWatch ==
  /\ run = "reaped" /\ run' = "awaiting"
  /\ runErr' = IF runErr = "nil" /\ watch = "interrupted" THEN "ctx" ELSE runErr
  /\ watch' = IF watch = "watching" THEN "over" ELSE watch
  /\ UNCHANGED <<call, ctx, processes, output, result>>

(* Both copies reach the end of file when nobody holds the pipes any more. *)
AwaitCopies ==
  /\ run = "awaiting"
  /\ ~ Alive /\ \A s \in Streams : pipe[s] = <<>>
  /\ Return(runErr)
  /\ UNCHANGED <<call, ctx, processes, output, watch>>

Next ==
  \/ Start \/ Expire
  \/ Fork
  \/ \E s \in Streams, chunk \in Chunks : Emit(s, chunk)
  \/ Exit
  \/ \E s \in Streams : Copy(s)
  \/ Cancel \/ Reap \/ TakeWatch \/ AwaitCopies

(* Goroutines run and the system reports what happened; the command and    *)
(* its descendant need not do anything, nor need the context end.          *)
Fairness ==
  /\ WF_vars(Start) /\ WF_vars(Cancel) /\ WF_vars(Reap) /\ WF_vars(TakeWatch)
  /\ WF_vars(AwaitCopies) /\ \A s \in Streams : WF_vars(Copy(s))

Spec == Init /\ [][Next]_vars /\ Fairness

-----------------------------------------------------------------------------
(***************************************************************************)
(* Properties                                                              *)
(***************************************************************************)

(* No pipe holds more than its size.                                      *)
OutputOK ==
  /\ written \in [Streams -> Seq(Bytes)] /\ pipe \in [Streams -> Seq(Bytes)]
  /\ buffer \in [Streams -> Seq(Bytes)]
  /\ \A s \in Streams : Len(pipe[s]) <= PipeSize

(* A result is there when Run has returned, which the command is not then. *)
TypeOK ==
  /\ caller \in {"exec", "tool"} /\ want \in Wants /\ ctx \in {"live", "done"}
  /\ leader \in {"none", "running", "zombie", "reaped"}
  /\ code \in ExitCodes \cup {-1}
  /\ child \in {"none", "in group", "own group", "gone"}
  /\ OutputOK
  /\ watch \in {"none", "watching", "interrupted", "process done", "over"}
  /\ run \in {"idle", "started", "reaped", "awaiting", "returned"}
  /\ runErr \in {"nil", "exit", "ctx", "not started"}
  /\ run = "returned" <=> result # "none"
  /\ run \in {"reaped", "awaiting"} => leader = "reaped"

All == written["stdout"] \o written["stderr"]

(* What was asked for is in the output as far as it counts: a substring    *)
(* within the first Limit bytes of both streams, a document anywhere in    *)
(* stdout.                                                                 *)
Sought ==
  \/ want = "nothing"
  \/ want = "contains" /\ \E i \in 1..Len(All) : i <= Limit /\ All[i] = "m"
  \/ want = "json" /\ Contains(written["stdout"], "m")

(* A check is satisfied only by a command that exited as expected, with    *)
(* what was asked for in what it wrote, as far as that counts; and a run   *)
(* that was started ends in a fatal result never.                          *)
SatisfiedIsReal ==
  /\ result = "satisfied" => caller = "exec" /\ leader = "reaped" /\ code = 0 /\ Sought
  /\ result = "fatal" => leader = "none"

(* Nothing that was written is lost, whoever wrote it, in what portions    *)
(* and when: both streams are there in full when the check looks at them,  *)
(* of the two together the beginning is kept, and the answer says when it  *)
(* is cut (also when stdout just fills the limit). And a command that did  *)
(* what was asked for, in a context that did not end, satisfies.           *)
NothingLost ==
  run = "returned" /\ leader = "reaped" =>
    /\ \A s \in Streams : buffer[s] = written[s]
    /\ CombinedExecOutput.data = SubSeq(All, 1, IF Len(All) > Limit THEN Limit ELSE Len(All))
    /\ CombinedExecOutput.truncated <=> Len(All) > Limit \/ Len(written["stdout"]) >= Limit
    /\ (ctx = "live" /\ code = 0 /\ caller = "exec" /\ Sought) => result = "satisfied"

(* docs/SPEC.md:342 says that --max-output-bytes caps what is captured of  *)
(* the command. It does not: a stream is captured whatever its length.     *)
CaptureCapped == \A s \in Streams : Len(buffer[s]) <= Limit

(* Once the context of an exec has been answered with a kill, the check    *)
(* returns, unless a descendant left the group: none that stayed in it can *)
(* hold the pipes any longer.                                              *)
KillReturns ==
  caller = "exec" /\ watch = "interrupted" /\ child # "own group" ~> run = "returned"

(* SPEC.md:468 says that a check returns promptly when its context is      *)
(* cancelled, SPEC.md:339 that the cancellation reaches the descendants in *)
(* the group of the command. It reaches none once the command has ended by *)
(* itself: a descendant in the background then holds the check for good.   *)
PromptReturn ==
  caller = "exec" /\ ctx = "done" ~> run = "returned" \/ child = "own group"
=============================================================================

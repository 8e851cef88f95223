----------------------------- MODULE ExecProofs -----------------------------
(***************************************************************************)
(* What the answer of a check says of the command, for all limits, pipes,  *)
(* portions and exit codes.                                                *)
(***************************************************************************)
EXTENDS Exec, SequenceTheorems, TLAPS

Bound(n) == IF n > Limit THEN Limit ELSE n

-----------------------------------------------------------------------------
(* The limited buffer.                                                     *)

LEMMA LimitIsNat == Limit \in Nat \ {0}
  BY ExecAssumption

(* The first bytes are kept.                                               *)
LEMMA KeptIsPrefix ==
  ASSUME NEW s \in Seq(Bytes)
  PROVE  /\ Kept(s) \in Seq(Bytes)
         /\ Len(Kept(s)) = Bound(Len(s))
         /\ \A i \in 1..Bound(Len(s)) : Kept(s)[i] = s[i]
<1>1. Len(s) \in Nat /\ Bound(Len(s)) \in 0..Len(s)
  BY LimitIsNat DEF Bound
<1>2. \A i \in 1..Bound(Len(s)) : s[i] \in Bytes
  BY <1>1, ElementOfSeq
<1>3. Kept(s) = SubSeq(s, 1, Bound(Len(s)))
  BY DEF Kept, Bound
<1> HIDE DEF Bound
<1> QED
  BY <1>1, <1>2, <1>3, SubSeqProperties

(* And nothing else is.                                                    *)
LEMMA KeptIsUnique ==
  ASSUME NEW s \in Seq(Bytes), NEW t \in Seq(Bytes), Len(t) = Bound(Len(s)),
         \A i \in 1..Len(t) : t[i] = s[i]
  PROVE  t = Kept(s)
<1>1. Kept(s) \in Seq(Bytes) /\ Len(t) = Len(Kept(s)) /\ \A i \in 1..Len(t) : t[i] = Kept(s)[i]
  BY KeptIsPrefix
<1> QED
  BY <1>1, SeqEqual

(* A buffer has room, or is full.                                          *)
LEMMA KeptTwice ==
  ASSUME NEW s \in Seq(Bytes)
  PROVE  Kept(Kept(s)) = Kept(s)
<1>1. /\ Kept(s) \in Seq(Bytes) /\ Len(Kept(s)) = Bound(Len(s)) /\ Len(s) \in Nat
  BY KeptIsPrefix
<1>2. Len(Kept(s)) = Bound(Len(Kept(s)))
  BY <1>1, LimitIsNat DEF Bound
<1> QED
  BY <1>1, <1>2, KeptIsUnique

(* It does not matter whether what came first was cut already.             *)
LEMMA KeptLeft ==
  ASSUME NEW s \in Seq(Bytes), NEW p \in Seq(Bytes)
  PROVE  Kept(Kept(s) \o p) = Kept(s \o p)
<1> DEFINE t == Kept(Kept(s) \o p)
<1>1. /\ Kept(s) \in Seq(Bytes) /\ Len(Kept(s)) = Bound(Len(s)) /\ Len(s) \in Nat /\ Len(p) \in Nat
      /\ \A i \in 1..Bound(Len(s)) : Kept(s)[i] = s[i]
  BY KeptIsPrefix
<1>2. /\ s \o p \in Seq(Bytes) /\ Len(s \o p) = Len(s) + Len(p)
      /\ \A i \in 1..Len(s) + Len(p) : (s \o p)[i] = IF i <= Len(s) THEN s[i] ELSE p[i - Len(s)]
  BY ConcatProperties
<1>3. /\ Kept(s) \o p \in Seq(Bytes) /\ Len(Kept(s) \o p) = Bound(Len(s)) + Len(p)
      /\ \A i \in 1..Bound(Len(s)) + Len(p) :
           (Kept(s) \o p)[i] = IF i <= Bound(Len(s)) THEN Kept(s)[i] ELSE p[i - Bound(Len(s))]
  BY <1>1, ConcatProperties
<1>4. t \in Seq(Bytes) /\ Len(t) = Bound(Bound(Len(s)) + Len(p))
  BY <1>3, KeptIsPrefix
<1>5. Len(t) = Bound(Len(s \o p))
  BY <1>1, <1>2, <1>4, LimitIsNat DEF Bound
<1>6. ASSUME NEW i \in 1..Len(t)  PROVE t[i] = (s \o p)[i]
  <2>1. t[i] = (Kept(s) \o p)[i]
    BY <1>3, <1>4, KeptIsPrefix
  <2>2. i \in 1..Bound(Len(s)) + Len(p) /\ i \in 1..Len(s) + Len(p)
        /\ (i <= Bound(Len(s)) <=> i <= Len(s)) /\ (i > Len(s) => Bound(Len(s)) = Len(s))
    BY <1>1, <1>4, LimitIsNat DEF Bound
  <2>3. CASE i <= Len(s)
    BY <1>1, <1>2, <1>3, <2>1, <2>2, <2>3
  <2>4. CASE ~ (i <= Len(s))
    BY <1>1, <1>2, <1>3, <2>1, <2>2, <2>4
  <2> QED
    BY <2>3, <2>4
<1> QED
  BY <1>2, <1>4, <1>5, <1>6, KeptIsUnique

LEMMA Lengths ==
  ASSUME NEW s \in Seq(Bytes), NEW p \in Seq(Bytes)
  PROVE  /\ Len(s) \in Nat /\ Len(p) \in Nat
         /\ s \o p \in Seq(Bytes) /\ Len(s \o p) = Len(s) + Len(p)
  BY ConcatProperties

LEMMA Associative ==
  ASSUME NEW s \in Seq(Bytes), NEW p \in Seq(Bytes), NEW q \in Seq(Bytes)
  PROVE  (s \o p) \o q = s \o (p \o q)
  BY ConcatAssociative

(* When the two streams make more than fits, or the first just fits.       *)
LEMMA StreamsMark ==
  ASSUME NEW s \in Seq(Bytes), NEW p \in Seq(Bytes)
  PROVE  \/ Len(s) > Limit \/ Len(Kept(s)) >= Limit \/ Len(Kept(s) \o p) > Limit
         <=> Len(s \o p) > Limit \/ Len(s) >= Limit
<1>1. Kept(s) \in Seq(Bytes) /\ Len(Kept(s)) = Bound(Len(s))
  BY KeptIsPrefix
<1>2. Len(Kept(s) \o p) = Bound(Len(s)) + Len(p)
  BY <1>1, Lengths
<1>3. Len(s \o p) = Len(s) + Len(p) /\ Len(s) \in Nat /\ Len(p) \in Nat
  BY Lengths
<1>4. ASSUME NEW a \in Nat, NEW b \in Nat
      PROVE  a > Limit \/ Bound(a) >= Limit \/ Bound(a) + b > Limit
             <=> a + b > Limit \/ a >= Limit
  BY LimitIsNat DEF Bound
<1>5. \/ Len(s) > Limit \/ Bound(Len(s)) >= Limit \/ Bound(Len(s)) + Len(p) > Limit
      <=> Len(s) + Len(p) > Limit \/ Len(s) >= Limit
  BY <1>3, <1>4
<1> QED
  BY <1>1, <1>2, <1>3, <1>5

LEMMA WriteEffect ==
  ASSUME NEW b, NEW p
  PROVE  /\ WriteLimited(b, p).data = Kept(b.data \o p)
         /\ WriteLimited(b, p).truncated <=>
              b.truncated \/ Len(b.data) >= Limit \/ Len(b.data \o p) > Limit
  BY Zenon DEF WriteLimited

(* A byte is kept when it is among the first.                              *)
LEMMA KeptContains ==
  ASSUME NEW s \in Seq(Bytes)
  PROVE  Contains(Kept(s), "m") <=> \E i \in 1..Len(s) : i <= Limit /\ s[i] = "m"
<1>1. /\ Len(s) \in Nat /\ Len(Kept(s)) = Bound(Len(s))
      /\ \A i \in 1..Bound(Len(s)) : Kept(s)[i] = s[i]
  BY KeptIsPrefix
<1>2. \A i \in Int : i \in 1..Bound(Len(s)) <=> i \in 1..Len(s) /\ i <= Limit
  BY <1>1, LimitIsNat DEF Bound
<1>3. Contains(Kept(s), "m") <=> \E i \in 1..Bound(Len(s)) : Kept(s)[i] = "m"
  BY <1>1 DEF Contains
<1> QED
  BY <1>1, <1>2, <1>3

(* Both streams together.                                                  *)
LEMMA CombinedEffect ==
  ASSUME NEW ro \in Seq(Bytes), NEW re \in Seq(Bytes),
         buffer["stdout"] = ro, buffer["stderr"] = re
  PROVE  /\ CombinedExecOutput.data = Kept(ro \o re)
         /\ CombinedExecOutput.truncated <=> Len(ro \o re) > Limit \/ Len(ro) >= Limit
<1> DEFINE first == WriteLimited(Empty, ro)
           both == WriteLimited(first, re)
<1>1. CombinedExecOutput = both
  BY Zenon DEF CombinedExecOutput
<1>2. /\ Kept(ro) \in Seq(Bytes) /\ Len(ro) \in Nat
  BY KeptIsPrefix
<1>3. Empty.data = <<>> /\ ~ Empty.truncated /\ Len(<<>>) = 0 /\ <<>> \o ro = ro
  BY ConcatEmptySeq, EmptySeq DEF Empty
<1>4. first.data = Kept(ro)
  BY <1>3, WriteEffect
<1>5. first.truncated <=> Len(ro) > Limit
  <2>1. first.truncated <=> Empty.truncated \/ 0 >= Limit \/ Len(ro) > Limit
    BY <1>3, WriteEffect, Zenon
  <2>2. ~ (0 >= Limit)
    BY LimitIsNat
  <2> QED
    BY <1>3, <2>1, <2>2, Zenon
<1> HIDE DEF first
<1>6. both.data = Kept(Kept(ro) \o re)
  BY <1>4, WriteEffect
<1>7. both.truncated <=> Len(ro) > Limit \/ Len(Kept(ro)) >= Limit \/ Len(Kept(ro) \o re) > Limit
  BY <1>4, <1>5, WriteEffect, Zenon
<1> HIDE DEF both
<1>8. both.data = Kept(ro \o re)
  BY <1>6, KeptLeft
<1>9. both.truncated <=> Len(ro \o re) > Limit \/ Len(ro) >= Limit
  BY <1>7, StreamsMark
<1> QED
  BY <1>1, <1>8, <1>9

-----------------------------------------------------------------------------
(* The invariant.                                                          *)

(* A stream is what has been copied, and what is still in the pipe.        *)
StreamInv == \A s \in Streams : written[s] = buffer[s] \o pipe[s]

(* What Run knows of the command, by how far it is.                        *)
RunInv ==
  /\ run = "idle" => leader = "none" /\ runErr = "nil" /\ watch = "none"
  /\ run = "started" => leader \in {"running", "zombie"} /\ runErr = "nil"
  /\ run \in {"reaped", "awaiting"} => leader = "reaped" /\ runErr # "not started"
  /\ run = "returned" => leader \in {"none", "reaped"}
  /\ leader = "none" => child = "none" /\ \A s \in Streams : pipe[s] = <<>>
  /\ leader = "reaped" => (runErr = "nil" => code = 0) /\ (runErr = "exit" => code # 0)
  /\ runErr = "exit" => leader = "reaped"
  /\ runErr = "ctx" \/ watch = "interrupted" => ctx = "done"

Finished == run = "returned" /\ leader = "reaped"

(* What a check has answered, and why.                                     *)
ResultInv ==
  /\ result = "fatal" => leader = "none"
  /\ result = "satisfied" => caller = "exec" /\ Finished /\ runErr = "nil" /\ CheckExecOutput
  /\ Finished =>
       /\ ~ Alive /\ \A s \in Streams : pipe[s] = <<>>
       /\ runErr # "not started"
       /\ (runErr = "nil" /\ caller = "exec" /\ CheckExecOutput) => result = "satisfied"

IInv == TypeOK /\ StreamInv /\ RunInv /\ ResultInv

-----------------------------------------------------------------------------
LEMMA InitIInv == Init => IInv
<1> SUFFICES ASSUME Init PROVE IInv
  OBVIOUS
<1>1. <<>> \in Seq(Bytes) /\ Len(<<>>) = 0 /\ <<>> \o <<>> = <<>>
  BY EmptySeq, ConcatEmptySeq
<1>2. TypeOK
  BY <1>1, ExecAssumption DEF Init, TypeOK, OutputOK, Streams
<1>3. StreamInv
  BY <1>1 DEF Init, StreamInv
<1>4. RunInv /\ ResultInv
  BY DEF Init, RunInv, ResultInv, Finished
<1> QED
  BY <1>2, <1>3, <1>4 DEF IInv

(* The streams, while nothing is written or copied.                        *)
LEMMA StreamsStay ==
  ASSUME OutputOK, StreamInv, UNCHANGED output
  PROVE  StreamInv' /\ OutputOK'
  BY DEF StreamInv, OutputOK, output

(* The rest, while only output moves or nothing happens.                   *)
LEMMA RunStays ==
  ASSUME TypeOK, OutputOK', UNCHANGED <<caller, want, leader, code, child>>,
         ctx' \in {"live", "done"},
         UNCHANGED <<watch, run, runErr, result>>
  PROVE  TypeOK'
<1>1. /\ (caller \in {"exec", "tool"} /\ want \in Wants /\ ctx \in {"live", "done"})'
      /\ (leader \in {"none", "running", "zombie", "reaped"} /\ code \in ExitCodes \cup {-1})'
  BY DEF TypeOK
<1>2. /\ (child \in {"none", "in group", "own group", "gone"})'
      /\ (watch \in {"none", "watching", "interrupted", "process done", "over"})'
      /\ (runErr \in {"nil", "exit", "ctx", "not started"})'
  BY DEF TypeOK
<1>3. /\ (run \in {"idle", "started", "reaped", "awaiting", "returned"})'
      /\ (run = "returned" <=> result # "none")'
      /\ (run \in {"reaped", "awaiting"} => leader = "reaped")'
  BY DEF TypeOK
<1> QED
  BY <1>1, <1>2, <1>3 DEF TypeOK

LEMMA OutputStays ==
  ASSUME UNCHANGED <<want, buffer>>
  PROVE  CheckExecOutput' = CheckExecOutput
  BY DEF CheckExecOutput, CombinedExecOutput

(* More is written: what has been copied stays what it is.                    *)
LEMMA EmitStream ==
  ASSUME TypeOK, StreamInv, NEW s \in Streams, NEW chunk \in Chunks, Emit(s, chunk)
  PROVE  StreamInv' /\ written' \in [Streams -> Seq(Bytes)] /\ pipe' \in [Streams -> Seq(Bytes)]
<1>1. /\ chunk \in Seq(Bytes) /\ written \in [Streams -> Seq(Bytes)] /\ pipe \in [Streams -> Seq(Bytes)]
      /\ written' = [written EXCEPT ![s] = written[s] \o chunk]
      /\ pipe' = [pipe EXCEPT ![s] = pipe[s] \o chunk]
      /\ buffer' = buffer
  BY ExecAssumption DEF TypeOK, OutputOK, Emit
<1>2. pipe[s] \in Seq(Bytes) /\ written[s] \o chunk \in Seq(Bytes) /\ pipe[s] \o chunk \in Seq(Bytes)
  BY <1>1, ConcatProperties
<1>3. ASSUME NEW t \in Streams PROVE written'[t] = buffer'[t] \o pipe'[t]
  <2>1. written[t] = buffer[t] \o pipe[t] /\ buffer[s] \in Seq(Bytes)
    BY DEF StreamInv, TypeOK, OutputOK
  <2>2. CASE t = s
    <3>1. (buffer[s] \o pipe[s]) \o chunk = buffer[s] \o (pipe[s] \o chunk)
      BY <1>1, <1>2, <2>1, Associative
    <3> QED
      BY <1>1, <2>1, <2>2, <3>1
  <2>3. CASE t # s
    BY <1>1, <2>1, <2>3
  <2> QED
    BY <2>2, <2>3
<1> QED
  BY <1>1, <1>2, <1>3 DEF StreamInv

(* A pipe is emptied: all that it held is in the buffer.                   *)
LEMMA CopyStream ==
  ASSUME TypeOK, StreamInv, NEW s \in Streams, Copy(s)
  PROVE  StreamInv' /\ OutputOK'
<1>1. /\ written' = written /\ pipe' = [pipe EXCEPT ![s] = <<>>]
      /\ buffer' = [buffer EXCEPT ![s] = buffer[s] \o pipe[s]]
  BY DEF Copy
<1>2. /\ written \in [Streams -> Seq(Bytes)] /\ pipe \in [Streams -> Seq(Bytes)]
      /\ buffer \in [Streams -> Seq(Bytes)] /\ \A t \in Streams : Len(pipe[t]) <= PipeSize
  BY DEF TypeOK, OutputOK
<1>3. <<>> \in Seq(Bytes) /\ Len(<<>>) = 0 /\ PipeSize \in Nat
  BY EmptySeq, ExecAssumption
<1>4. /\ buffer[s] \o pipe[s] \in Seq(Bytes)
      /\ (buffer[s] \o pipe[s]) \o <<>> = buffer[s] \o pipe[s]
  BY <1>2, Lengths, ConcatEmptySeq
<1>5. OutputOK'
  BY <1>1, <1>2, <1>3, <1>4 DEF OutputOK
<1>6. ASSUME NEW t \in Streams PROVE written'[t] = buffer'[t] \o pipe'[t]
  <2>1. written[t] = buffer[t] \o pipe[t]
    BY DEF StreamInv
  <2>2. CASE t = s
    BY <1>1, <1>2, <1>4, <2>1, <2>2
  <2>3. CASE t # s
    BY <1>1, <1>2, <2>1, <2>3
  <2> QED
    BY <2>2, <2>3
<1> QED
  BY <1>5, <1>6 DEF StreamInv

-----------------------------------------------------------------------------
(* What Run answers.                                                       *)
LEMMA Answer ==
  ASSUME NEW err, err \in {"nil", "exit", "ctx", "not started"}, caller \in {"exec", "tool"}
  PROVE  /\ Check(err) # "none"
         /\ Check(err) = "satisfied" <=> caller = "exec" /\ err = "nil" /\ CheckExecOutput
         /\ Check(err) = "fatal" => err \in {"ctx", "not started"} /\ ctx # "done"
<1>1. CASE caller = "tool"
  BY <1>1 DEF Check
<1>2. CASE caller = "exec"
  <2>1. CASE err = "nil"
    <3>1. ClassifyRunError(err) = "ran"
      BY <2>1 DEF ClassifyRunError
    <3>2. Check(err) = IF CheckExecOutput THEN "satisfied" ELSE "unsatisfied"
      BY <1>2, <3>1 DEF Check
    <3> QED
      BY <1>2, <2>1, <3>2
  <2>2. CASE err # "nil"
    <3>1. ClassifyRunError(err) \in {"unsatisfied", "exited", "fatal"}
      BY <2>2 DEF ClassifyRunError
    <3>2. ClassifyRunError(err) = "fatal" => err # "exit" /\ ctx # "done"
      BY <2>2 DEF ClassifyRunError
    <3>3. Check(err) \in {"unsatisfied", "fatal"}
      BY <1>2, <3>1 DEF Check
    <3>4. Check(err) = "fatal" => ClassifyRunError(err) = "fatal"
      BY <1>2, <3>1 DEF Check
    <3> QED
      BY <2>2, <3>2, <3>3, <3>4
  <2> QED
    BY <2>1, <2>2
<1> QED
  BY <1>1, <1>2

(* The steps that leave Run where it is, before it has returned.           *)
LEMMA StillRunning ==
  ASSUME TypeOK, ResultInv, run # "returned", run' # "returned", result' = result
  PROVE  ResultInv'
  BY DEF TypeOK, ResultInv, Finished

LEMMA StartIInv == ASSUME IInv, Start PROVE IInv'
<1>1. StreamInv' /\ OutputOK'
  BY StreamsStay DEF IInv, TypeOK, Start
<1>2. TypeOK'
  BY <1>1, Answer DEF IInv, TypeOK, Start, Return, call, output
<1>3. RunInv'
  BY DEF IInv, TypeOK, RunInv, Start, Return, call, output
<1>4. ResultInv'
  BY Answer DEF IInv, TypeOK, RunInv, ResultInv, Finished, Start, Return, call, output
<1> QED
  BY <1>1, <1>2, <1>3, <1>4 DEF IInv

LEMMA ExpireIInv == ASSUME IInv, Expire PROVE IInv'
<1>1. StreamInv' /\ OutputOK'
  BY StreamsStay DEF IInv, TypeOK, Expire
<1>2. TypeOK' /\ RunInv'
  <2>1. TypeOK'
    <3>1. /\ UNCHANGED <<caller, want, leader, code, child>> /\ ctx' = "done"
          /\ UNCHANGED <<watch, run, runErr, result>>
      BY DEF Expire, call, processes
    <3> QED
      BY <1>1, <3>1, RunStays DEF IInv
  <2>2. RunInv'
    BY DEF IInv, RunInv, Expire, output, processes
  <2> QED
    BY <2>1, <2>2
<1>3. CheckExecOutput' = CheckExecOutput
  BY OutputStays DEF Expire, call, output
<1>4. ResultInv'
  BY <1>3 DEF IInv, ResultInv, Finished, Alive, Expire, call, output, processes
<1> QED
  BY <1>1, <1>2, <1>4 DEF IInv

LEMMA ForkIInv == ASSUME IInv, Fork PROVE IInv'
<1>1. StreamInv' /\ OutputOK'
  BY StreamsStay DEF IInv, TypeOK, Fork
<1>2. TypeOK' /\ RunInv'
  BY <1>1 DEF IInv, TypeOK, RunInv, Fork, call, output
<1>3. ResultInv'
  BY StillRunning DEF IInv, RunInv, Fork
<1> QED
  BY <1>1, <1>2, <1>3 DEF IInv

(* Nobody is left to write once Run has returned.                          *)
LEMMA EmitIInv ==
  ASSUME IInv, NEW s \in Streams, NEW chunk \in Chunks, Emit(s, chunk)
  PROVE  IInv'
<1>1. StreamInv' /\ written' \in [Streams -> Seq(Bytes)] /\ pipe' \in [Streams -> Seq(Bytes)]
  BY EmitStream DEF IInv
<1>2. ASSUME NEW t \in Streams PROVE Len(pipe'[t]) <= PipeSize
  <2>1. /\ chunk \in Seq(Bytes) /\ pipe \in [Streams -> Seq(Bytes)]
        /\ pipe' = [pipe EXCEPT ![s] = pipe[s] \o chunk]
        /\ Len(pipe[s]) + Len(chunk) <= PipeSize /\ Len(pipe[t]) <= PipeSize
    BY ExecAssumption DEF IInv, TypeOK, OutputOK, Emit
  <2>2. pipe[s] \in Seq(Bytes)
    BY <2>1
  <2>3. Len(pipe[s] \o chunk) = Len(pipe[s]) + Len(chunk)
    BY <2>1, <2>2, Lengths
  <2> QED
    BY <2>1, <2>3
<1>3. TypeOK'
  <2>1. /\ UNCHANGED <<caller, want, leader, code, child>> /\ ctx' \in {"live", "done"}
        /\ UNCHANGED <<buffer, watch, run, runErr, result>>
    BY DEF IInv, TypeOK, Emit, call, processes
  <2>2. OutputOK'
    BY <1>1, <1>2, <2>1 DEF IInv, TypeOK, OutputOK
  <2> QED
    BY <2>1, <2>2, RunStays DEF IInv
<1>4. RunInv'
  <2>1. leader # "none" \/ child # "none"
    BY DEF Emit, Alive
  <2>2. UNCHANGED <<leader, code, child, ctx, watch, run, runErr>>
    BY DEF Emit, processes
  <2> QED
    BY <2>1, <2>2 DEF IInv, RunInv
<1>5. run # "returned"
  BY DEF IInv, RunInv, ResultInv, Finished, Emit, Alive
<1>6. ResultInv'
  BY <1>5, StillRunning DEF IInv, Emit
<1> QED
  BY <1>1, <1>3, <1>4, <1>6 DEF IInv

LEMMA ExitIInv == ASSUME IInv, Exit PROVE IInv'
<1>1. StreamInv' /\ OutputOK'
  BY StreamsStay DEF IInv, TypeOK, Exit
<1>2. TypeOK' /\ RunInv'
  BY <1>1 DEF IInv, TypeOK, RunInv, Exit, Alive, call, output
<1>3. run # "returned"
  BY DEF IInv, RunInv, ResultInv, Finished, Exit, Alive
<1>4. ResultInv'
  BY <1>3, StillRunning DEF IInv, Exit
<1> QED
  BY <1>1, <1>2, <1>4 DEF IInv

(* Nothing can be in a pipe before the command runs or after Run returned. *)
LEMMA CopyIInv == ASSUME IInv, NEW s \in Streams, Copy(s) PROVE IInv'
<1>1. StreamInv' /\ OutputOK'
  BY CopyStream DEF IInv
<1>2. TypeOK'
  <2>1. /\ UNCHANGED <<caller, want, leader, code, child>> /\ ctx' \in {"live", "done"}
        /\ UNCHANGED <<watch, run, runErr, result>>
    BY DEF IInv, TypeOK, Copy, call, processes
  <2> QED
    BY <1>1, <2>1, RunStays DEF IInv
<1>3. RunInv'
  BY DEF IInv, RunInv, Copy, call, processes
<1>4. run # "returned"
  BY DEF IInv, RunInv, ResultInv, Finished, Copy
<1>5. ResultInv'
  BY <1>4, StillRunning DEF IInv, Copy
<1> QED
  BY <1>1, <1>2, <1>3, <1>5 DEF IInv

LEMMA CancelIInv == ASSUME IInv, Cancel PROVE IInv'
<1>1. StreamInv' /\ OutputOK'
  BY StreamsStay DEF IInv, TypeOK, Cancel
<1>2. TypeOK' /\ RunInv'
  BY <1>1 DEF IInv, TypeOK, RunInv, Cancel, Killed, call, output
<1>3. ResultInv'
  <2>1. CASE run = "returned"
    <3>1. CheckExecOutput' = CheckExecOutput
      BY OutputStays DEF Cancel, call, output
    <3>2. UNCHANGED <<leader, code, child>>
      BY <2>1 DEF IInv, RunInv, ResultInv, Finished, Alive, Cancel, Killed
    <3>3. UNCHANGED <<run, runErr, result, caller, pipe>>
      BY DEF Cancel, call, output
    <3> QED
      BY <3>1, <3>2, <3>3 DEF IInv, ResultInv, Finished, Alive
  <2>2. CASE run # "returned"
    BY <2>2, StillRunning DEF IInv, Cancel
  <2> QED
    BY <2>1, <2>2
<1> QED
  BY <1>1, <1>2, <1>3 DEF IInv

LEMMA ReapIInv == ASSUME IInv, Reap PROVE IInv'
<1>1. StreamInv' /\ OutputOK'
  BY StreamsStay DEF IInv, TypeOK, Reap
<1>2. TypeOK' /\ RunInv'
  BY <1>1 DEF IInv, TypeOK, RunInv, Reap, call, output
<1>3. ResultInv'
  BY StillRunning DEF IInv, Reap
<1> QED
  BY <1>1, <1>2, <1>3 DEF IInv

LEMMA TakeWatchIInv == ASSUME IInv, TakeWatch PROVE IInv'
<1>1. StreamInv' /\ OutputOK'
  BY StreamsStay DEF IInv, TypeOK, TakeWatch
<1>2. TypeOK' /\ RunInv'
  BY <1>1 DEF IInv, TypeOK, RunInv, TakeWatch, call, output, processes
<1>3. ResultInv'
  BY StillRunning DEF IInv, TakeWatch
<1> QED
  BY <1>1, <1>2, <1>3 DEF IInv

(* Run returns: the copies are complete, and this is the answer.           *)
LEMMA AwaitCopiesIInv == ASSUME IInv, AwaitCopies PROVE IInv'
<1>1. StreamInv' /\ OutputOK'
  BY StreamsStay DEF IInv, TypeOK, AwaitCopies
<1>2. TypeOK'
  BY <1>1, Answer DEF IInv, TypeOK, AwaitCopies, Return, call, output, processes
<1>3. RunInv'
  BY DEF IInv, RunInv, AwaitCopies, Return, call, output, processes
<1>4. CheckExecOutput' = CheckExecOutput
  BY OutputStays DEF AwaitCopies, call, output
<1>5. /\ result' = Check(runErr) /\ runErr' = runErr /\ run' = "returned"
      /\ runErr \in {"nil", "exit", "ctx"} /\ (runErr = "ctx" => ctx = "done")
      /\ leader' = "reaped" /\ caller' = caller /\ caller \in {"exec", "tool"}
  BY DEF IInv, TypeOK, RunInv, AwaitCopies, Return, call, processes
<1>6. /\ result' # "fatal"
      /\ result' = "satisfied" <=> caller = "exec" /\ runErr = "nil" /\ CheckExecOutput
  BY <1>5, Answer
<1>7. ~ Alive' /\ \A s \in Streams : pipe'[s] = <<>>
  BY DEF AwaitCopies, Alive, processes, output
<1>8. ResultInv'
  BY <1>4, <1>5, <1>6, <1>7 DEF ResultInv, Finished
<1> QED
  BY <1>1, <1>2, <1>3, <1>8 DEF IInv

LEMMA NextIInv == IInv /\ [Next]_vars => IInv'
<1> SUFFICES ASSUME IInv, [Next]_vars PROVE IInv'
  OBVIOUS
<1>1. CASE UNCHANGED vars
  <2>1. StreamInv' /\ OutputOK'
    BY <1>1, StreamsStay DEF IInv, TypeOK, vars
  <2>2. TypeOK' /\ RunInv'
    <3> USE <1>1 DEF vars, call, processes, output
    <3>1. TypeOK'
      BY <2>1, RunStays DEF IInv, TypeOK
    <3>2. RunInv'
      BY DEF IInv, RunInv
    <3> QED
      BY <3>1, <3>2
  <2>3. CheckExecOutput' = CheckExecOutput
    BY <1>1, OutputStays DEF vars, call, output
  <2>4. ResultInv'
    BY <1>1, <2>3 DEF IInv, ResultInv, Finished, Alive, vars, call, processes, output
  <2> QED
    BY <2>1, <2>2, <2>4 DEF IInv
<1> QED
  BY <1>1, StartIInv, ExpireIInv, ForkIInv, EmitIInv, ExitIInv, CopyIInv, CancelIInv, ReapIInv,
     TakeWatchIInv, AwaitCopiesIInv DEF Next

-----------------------------------------------------------------------------
THEOREM Invariance == Spec => []IInv
  BY InitIInv, NextIInv, PTL DEF Spec

THEOREM TypeCorrect == Spec => []TypeOK
<1>1. IInv => TypeOK
  BY DEF IInv
<1> QED
  BY <1>1, Invariance, PTL

(* When Run has returned all that was written has been copied.             *)
LEMMA AllCopied ==
  ASSUME IInv, Finished
  PROVE  \A s \in Streams : written[s] \in Seq(Bytes) /\ buffer[s] = written[s]
<1> SUFFICES ASSUME NEW s \in Streams
             PROVE  written[s] \in Seq(Bytes) /\ buffer[s] = written[s]
  OBVIOUS
<1>1. written[s] \in Seq(Bytes) /\ buffer[s] \in Seq(Bytes) /\ pipe[s] = <<>>
  BY DEF IInv, TypeOK, OutputOK, ResultInv
<1>2. written[s] = buffer[s] \o pipe[s]
  BY DEF IInv, StreamInv
<1> QED
  BY <1>1, <1>2, ConcatEmptySeq

(* What the check looks at is what counts of what was written.             *)
LEMMA CombinedOutput ==
  ASSUME IInv, Finished
  PROVE  /\ CombinedExecOutput.data = Kept(All)
         /\ CombinedExecOutput.truncated <=> Len(All) > Limit \/ Len(written["stdout"]) >= Limit
         /\ CheckExecOutput <=> Sought
<1>1. /\ written["stdout"] \in Seq(Bytes) /\ buffer["stdout"] = written["stdout"]
      /\ written["stderr"] \in Seq(Bytes) /\ buffer["stderr"] = written["stderr"]
  BY AllCopied DEF Streams
<1>2. /\ All \in Seq(Bytes) /\ CombinedExecOutput.data = Kept(All)
      /\ CombinedExecOutput.truncated <=> Len(All) > Limit \/ Len(written["stdout"]) >= Limit
  BY <1>1, CombinedEffect, Lengths DEF All
<1>3. Contains(CombinedExecOutput.data, "m") <=> \E i \in 1..Len(All) : i <= Limit /\ All[i] = "m"
  BY <1>2, KeptContains
<1> QED
  BY <1>1, <1>2, <1>3, Zenon DEF CheckExecOutput, Sought

(* A satisfied check found what it looked for in what was written.         *)
THEOREM SatisfiedAreReal == Spec => []SatisfiedIsReal
<1>1. ASSUME IInv PROVE SatisfiedIsReal
  <2>1. ASSUME result = "satisfied"
        PROVE  caller = "exec" /\ leader = "reaped" /\ code = 0 /\ Sought
    <3>1. Finished /\ code = 0 /\ leader = "reaped" /\ caller = "exec" /\ CheckExecOutput
      BY <1>1, <2>1 DEF IInv, RunInv, ResultInv, Finished
    <3> QED
      BY <1>1, <3>1, CombinedOutput
  <2> QED
    BY <1>1, <2>1 DEF IInv, ResultInv, SatisfiedIsReal
<1> QED
  BY <1>1, Invariance, PTL

(* Nothing of the output is lost, whatever the portions and the order in   *)
(* which they were copied, and what is there decides.                      *)
THEOREM NothingIsLost == Spec => []NothingLost
<1>1. ASSUME IInv PROVE NothingLost
  <2> SUFFICES ASSUME run = "returned", leader = "reaped"
               PROVE  /\ \A s \in Streams : buffer[s] = written[s]
                      /\ CombinedExecOutput.data = Kept(All)
                      /\ CombinedExecOutput.truncated <=>
                           Len(All) > Limit \/ Len(written["stdout"]) >= Limit
                      /\ (ctx = "live" /\ code = 0 /\ caller = "exec" /\ Sought) =>
                            result = "satisfied"
    BY Zenon DEF NothingLost, Kept
  <2>1. Finished
    BY DEF Finished
  <2>2. ASSUME ctx = "live", code = 0, caller = "exec", Sought
        PROVE  result = "satisfied"
    <3>1. runErr = "nil"
      BY <1>1, <2>1, <2>2 DEF IInv, TypeOK, RunInv, ResultInv
    <3> QED
      BY <1>1, <2>1, <2>2, <3>1, CombinedOutput DEF IInv, ResultInv
  <2> QED
    BY <1>1, <2>1, <2>2, AllCopied, CombinedOutput
<1> QED
  BY <1>1, Invariance, PTL
=============================================================================

------------------------------ MODULE WebSocket ------------------------------
(***************************************************************************)
(* One check of the websocket backend against a server that speaks when it *)
(* likes: dial and handshake, then a text is sent, a ping is sent and its  *)
(* pong awaited, and a close frame or a text message is read. Deadlines of *)
(* the connection end a phase, a goroutine closes the connection when the  *)
(* context of the attempt ends.                                            *)
(***************************************************************************)
EXTENDS Integers, Sequences, SequencesExt

CONSTANTS Configs,      \* conditions: [ping, close, want, accepts, read]
          Frames,       \* what the server may send
          MaxMessage,   \* bytes of the longest frame and the longest message
          MaxFrames,    \* bound: frames sent by the server
          MaxUnread,    \* bound: frames that have arrived and are not read
          Timeout, ReadTimeout,
          LongestAttempt

NoClose == -1

(* What a substring or a pattern can tell apart: the empty message, one    *)
(* with the marker in it and any other. A substring accepts the marked     *)
(* ones, .* accepts all and ^$ the empty one.                              *)
Kinds == {"empty", "marked", "plain"}

ASSUME WebSocketAssumption ==
  /\ Timeout \in Nat \ {0} /\ ReadTimeout \in Nat \ {0} /\ MaxFrames \in Nat
  /\ LongestAttempt = 3 * Timeout + 2 * ReadTimeout
  /\ MaxMessage \in Nat /\ MaxMessage > 127
  /\ \A c \in Configs : c.close \in Nat \cup {NoClose} /\ c.accepts \subseteq Kinds
  /\ \A f \in Frames :
       /\ f.op \in {"text", "cont", "binary", "close", "ping", "pong", "bad"}
       /\ f.size \in Nat /\ f.marked \in BOOLEAN

VARIABLES
  conf,
  phase,     \* "dial", "handshake", "send", "pong", "close", "text", "returned"
  now, deadline,
  ctx,       \* "live" or "done"
  conn,      \* "none", "open", "closed" (here) or "ended" (by the server)
  said,      \* history: the frames of the server
  lengths,   \* history: with each frame, the bytes of the message up to it
  taken,     \* how many of them have been read
  message,   \* the fragments read so far
  result     \* "none", "satisfied", "mismatch", or which error it was

talk == <<said, lengths>>
vars == <<conf, phase, now, deadline, ctx, conn, talk, taken, message, result>>

Errors == {"connect", "frame", "close code", "broken", "deadline"}

-----------------------------------------------------------------------------
(* The wire. A length of 126 and more takes 16 bits, after a first byte    *)
(* that says so; 127 there says that 64 bits follow.                       *)

(* What is read of a length: itself, or an error. A 16-bit length of 127   *)
(* is taken for the mark of a 64-bit one, and the text after it for those. *)
ReadLength(size) == IF size = 127 THEN "error" ELSE "ok"

ValidFrame(f) ==
  /\ f.op # "bad"
  /\ f.op \in {"close", "ping", "pong"} => f.fin /\ f.size <= 125
  /\ ReadLength(f.size) = "ok" /\ f.size <= MaxMessage

NoMessage == [begun |-> FALSE, marked |-> FALSE, size |-> 0]

(* The message with one more frame of text.                                *)
Extended(m, f) == [begun |-> TRUE, marked |-> m.marked \/ f.marked, size |-> m.size + f.size]

Kind(marked, size) == IF size = 0 THEN "empty" ELSE IF marked THEN "marked" ELSE "plain"

(* What matchers there are accept the message.                             *)
Accepted(m) == ~ conf.want \/ Kind(m.marked, m.size) \in conf.accepts

FrameAt(n) == said[n]

-----------------------------------------------------------------------------

Init ==
  /\ conf \in Configs
  /\ phase = "dial" /\ now = 0 /\ deadline = Timeout
  /\ ctx = "live" /\ conn = "none"
  /\ said = <<>> /\ lengths = <<>> /\ taken = 0 /\ message = NoMessage
  /\ result = "none"

(* The check is over: the connection is closed and its watcher stopped.    *)
Return(r) == phase' = "returned" /\ result' = r /\ conn' = "closed"

(* A read timeout starts again with each phase that reads.                 *)
(* Fault: without one the attempt's starts again. *)
SetReadDeadlineAlways == deadline' = now + (IF conf.read THEN ReadTimeout ELSE Timeout)

SetReadDeadline == deadline' = IF conf.read THEN now + ReadTimeout ELSE deadline

(* After the pong, a close frame is awaited rather than a message, and     *)
(* with neither expected the check is satisfied.                           *)
ReadRest ==
  \/ /\ conf.close # NoClose
     /\ phase' = "close" /\ SetReadDeadline /\ UNCHANGED <<result, conn>>
  \/ /\ conf.close = NoClose /\ conf.want
     /\ phase' = "text" /\ SetReadDeadline /\ UNCHANGED <<result, conn>>
  \/ /\ conf.close = NoClose /\ ~ conf.want
     /\ Return("satisfied") /\ UNCHANGED deadline

(***************************************************************************)
(* Connecting                                                              *)
(***************************************************************************)
Dial ==
  /\ phase = "dial"
  /\ \/ ctx = "live" /\ phase' = "handshake" /\ conn' = "open" /\ UNCHANGED result
     \/ Return("connect")
  /\ deadline' = now + Timeout
  /\ UNCHANGED <<conf, now, ctx, talk, taken, message>>

(* The server switches protocols, or its answer is not one to a handshake. *)
Handshake ==
  /\ phase = "handshake"
  /\ \/ conn = "open" /\ phase' = "send" /\ deadline' = now + Timeout /\ UNCHANGED <<conn, result>>
     \/ Return("connect") /\ UNCHANGED deadline
  /\ UNCHANGED <<conf, now, ctx, talk, taken, message>>

(* The text is sent, then the ping.                                        *)
Send ==
  /\ phase = "send" /\ conn # "closed"
  /\ IF conf.ping THEN phase' = "pong" /\ SetReadDeadline /\ UNCHANGED <<conn, result>>
                  ELSE ReadRest
  /\ UNCHANGED <<conf, now, ctx, talk, taken, message>>

(***************************************************************************)
(* Reading                                                                 *)
(***************************************************************************)
Unread == taken < Len(said)

(* Whatever is not a pong is passed over, a close frame is an error.       *)
(* Fault: whatever is not a close frame is taken for the pong. *)
ReadPongLax(f) ==
  /\ \/ ValidFrame(f) /\ f.op # "close" /\ ReadRest
     \/ (~ ValidFrame(f) \/ f.op = "close") /\ Return("frame") /\ UNCHANGED deadline
  /\ UNCHANGED message

ReadPong(f) ==
  /\ \/ ValidFrame(f) /\ f.op = "pong" /\ ReadRest
     \/ ValidFrame(f) /\ f.op \notin {"pong", "close"} /\ UNCHANGED <<phase, conn, result, deadline>>
     \/ (~ ValidFrame(f) \/ f.op = "close") /\ Return("frame") /\ UNCHANGED deadline
  /\ UNCHANGED message

(* The close code must be the expected one, and a substring or a pattern   *)
(* is then looked for in the empty message.                                *)
ReadClose(f) ==
  /\ \/ ~ ValidFrame(f) /\ Return("frame")
     \/ ValidFrame(f) /\ f.op # "close" /\ UNCHANGED <<phase, conn, result>>
     \/ /\ ValidFrame(f) /\ f.op = "close"
        /\ Return(IF f.code # conf.close THEN "close code"
                  ELSE IF Accepted(NoMessage) THEN "satisfied" ELSE "mismatch")
  /\ UNCHANGED <<deadline, message>>

(* A frame between the fragments of a message may be a ping or a pong; the *)
(* first message that is complete decides.                                 *)
(* Fault: a ping between two fragments does not fit. *)
FitsMessageStrict(f) ==
  \/ f.op \in {"text", "ping", "pong"} /\ ~ message.begun
  \/ f.op = "cont" /\ message.begun

FitsMessage(f) ==
  \/ f.op \in {"ping", "pong"}
  \/ f.op = "text" /\ ~ message.begun
  \/ f.op = "cont" /\ message.begun

(* A message that grows too long is given up at once.                      *)
TooLong(f) == f.op = "cont" /\ message.size + f.size > MaxMessage

(* A ping is answered, which fails on a connection that was closed and may *)
(* fail on one that the server has ended.                                  *)
Answered == conn \in {"open", "ended"} /\ UNCHANGED <<phase, conn, result>>
NotAnswered == conn \in {"closed", "ended"} /\ Return("broken")

ReadText(f) ==
  /\ \/ /\ ~ (ValidFrame(f) /\ FitsMessage(f)) \/ TooLong(f)
        /\ Return("frame") /\ UNCHANGED message
     \/ /\ ValidFrame(f) /\ FitsMessage(f) /\ f.op = "pong"
        /\ UNCHANGED <<phase, conn, result, message>>
     \/ /\ ValidFrame(f) /\ FitsMessage(f) /\ f.op = "ping"
        /\ (Answered \/ NotAnswered) /\ UNCHANGED message
     \/ /\ ValidFrame(f) /\ FitsMessage(f) /\ f.op \in {"text", "cont"} /\ ~ TooLong(f)
        /\ message' = Extended(message, f)
        /\ \/ ~ f.fin /\ UNCHANGED <<phase, conn, result>>
           \/ f.fin /\ Return(IF Accepted(message') THEN "satisfied" ELSE "mismatch")
  /\ UNCHANGED deadline

(* A frame that has arrived may be read from the buffer also after the     *)
(* connection was closed.                                                  *)
ReadFrame ==
  /\ Unread /\ taken' = taken + 1
  /\ LET f == FrameAt(taken + 1) IN
     \/ phase = "pong" /\ ReadPong(f)
     \/ phase = "close" /\ ReadClose(f)
     \/ phase = "text" /\ ReadText(f)
  /\ UNCHANGED <<conf, now, ctx, talk>>

(* Reading or writing fails on a connection that is closed, or has ended   *)
(* with nothing left to read.                                              *)
Broken ==
  /\ phase \in {"handshake", "send", "pong", "close", "text"}
  /\ conn = "closed" \/ (conn = "ended" /\ ~ Unread)
  /\ Return("broken")
  /\ UNCHANGED <<conf, now, deadline, ctx, talk, taken, message>>

DeadlinePasses ==
  /\ phase # "returned" /\ now = deadline
  /\ Return("deadline")
  /\ UNCHANGED <<conf, now, deadline, ctx, talk, taken, message>>

(***************************************************************************)
(* The context, the server and the time                                    *)
(***************************************************************************)
Cancelled ==
  /\ ctx = "live" /\ ctx' = "done"
  /\ UNCHANGED <<conf, phase, now, deadline, conn, talk, taken, message, result>>

(* Fault: the goroutine watches only until the handshake is done. *)
CloseOnContextDoneEarly ==
  /\ ctx = "done" /\ phase = "handshake" /\ conn \in {"open", "ended"}
  /\ conn' = "closed"
  /\ UNCHANGED <<conf, phase, now, deadline, ctx, talk, taken, message, result>>

(* Two goroutines, one after the other, cover handshake and messages.      *)
CloseOnContextDone ==
  /\ ctx = "done" /\ conn \in {"open", "ended"}
  /\ conn' = "closed"
  /\ UNCHANGED <<conf, phase, now, deadline, ctx, talk, taken, message, result>>

ServerSends(f) ==
  /\ phase \in {"send", "pong", "close", "text"} /\ conn = "open"
  /\ Len(said) < MaxFrames /\ Len(said) - taken < MaxUnread
  /\ said' = Append(said, f)
  /\ LET before == IF lengths = <<>> THEN 0 ELSE lengths[Len(lengths)]
     IN lengths' = Append(lengths, IF f.op = "text" THEN f.size
                                   ELSE IF f.op = "cont" THEN before + f.size ELSE before)
  /\ UNCHANGED <<conf, phase, now, deadline, ctx, conn, taken, message, result>>

ServerEnds ==
  /\ conn = "open" /\ conn' = "ended"
  /\ UNCHANGED <<conf, phase, now, deadline, ctx, talk, taken, message, result>>

(* Deadlines are kept: time does not pass beyond the current one.          *)
Tick ==
  /\ phase # "returned" /\ now < deadline /\ now' = now + 1
  /\ UNCHANGED <<conf, phase, deadline, ctx, conn, talk, taken, message, result>>

Next ==
  \/ Dial \/ Handshake \/ Send
  \/ ReadFrame
  \/ Broken \/ DeadlinePasses
  \/ Cancelled \/ CloseOnContextDone
  \/ \E f \in Frames : ServerSends(f)
  \/ ServerEnds
  \/ Tick

(* Goroutines run and a failed read reports it; neither the server nor the *)
(* clock is relied on.                                                     *)
Fairness == WF_vars(Dial) /\ WF_vars(Broken) /\ WF_vars(CloseOnContextDone)

Spec == Init /\ [][Next]_vars /\ Fairness

-----------------------------------------------------------------------------
(***************************************************************************)
(* Properties                                                              *)
(***************************************************************************)

(* A result exists when the check has returned, and then the connection is *)
(* closed; fragments are kept only while a text is read.                   *)
TypeOK ==
  /\ conf \in Configs /\ ctx \in {"live", "done"}
  /\ phase \in {"dial", "handshake", "send", "pong", "close", "text", "returned"}
  /\ conn \in {"none", "open", "closed", "ended"}
  /\ result \in {"none", "satisfied", "mismatch"} \cup Errors
  /\ (result # "none") = (phase = "returned")
  /\ phase = "returned" => conn = "closed"
  /\ taken \in 0..Len(said) /\ Len(said) <= MaxFrames
  /\ message.begun => phase \in {"text", "returned"}
  /\ deadline >= now

Received == SubSeq(said, 1, taken)

Data(f) == f.op \in {"text", "cont"}

(* Frames i to j of a conversation are one text message, with other frames *)
(* at most in between.                                                     *)
IsMessage(frames, i, j) ==
  /\ i <= j /\ frames[i].op = "text" /\ frames[j].fin /\ Data(frames[j])
  /\ i < j => ~ frames[i].fin /\ frames[j].op = "cont"
  /\ \A k \in (i + 1)..(j - 1) : Data(frames[k]) => frames[k].op = "cont" /\ ~ frames[k].fin

(* What frames i to j say together.                                        *)
KindOf(frames, i, j) ==
  Kind(\E k \in i..j : Data(frames[k]) /\ frames[k].marked,
       IF \A k \in i..j : Data(frames[k]) => frames[k].size = 0 THEN 0 ELSE 1)

(* A satisfied check has received all that it was to wait for: the pong,   *)
(* the close frame with its code (and the matchers, if any, accept the     *)
(* empty message), or else one whole message that the matchers accept.     *)
SatisfiedIsEarned ==
  result = "satisfied" =>
    /\ conf.ping => \E k \in 1..taken : said[k].op = "pong"
    /\ conf.close # NoClose =>
         /\ said[taken].op = "close" /\ said[taken].code = conf.close
         /\ conf.want => "empty" \in conf.accepts
    /\ (conf.want /\ conf.close = NoClose) =>
         \E i \in 1..taken :
           IsMessage(Received, i, taken) /\ KindOf(Received, i, taken) \in conf.accepts

(* Before frame k a message has begun and is not complete.                 *)
IsOpen(frames, k) ==
  \E i \in 1..(k - 1) :
    frames[i].op = "text" /\ \A m \in i..(k - 1) : Data(frames[m]) => ~ frames[m].fin

(* Text messages one after another, whole or in fragments, with pings and  *)
(* pongs, which are whole and short, anywhere.                             *)
WellBehaved(frames) ==
  \A k \in 1..Len(frames) :
    \/ frames[k].op \in {"ping", "pong"} /\ frames[k].fin /\ frames[k].size <= 125
    \/ frames[k].op = IF IsOpen(frames, k) THEN "cont" ELSE "text"

ReadsText == ~ conf.ping /\ conf.close = NoClose /\ conf.want

(* Of a well-behaved server the first message decides, whatever surrounds  *)
(* its fragments and however many there are; while a pong or a close frame *)
(* is awaited messages are passed over. Exceptions: a frame of 127 bytes,  *)
(* and a message of more than 16 MiB.                                      *)
FirstMessageDecides ==
  (/\ ReadsText /\ WellBehaved(Received)
   /\ \A k \in 1..taken : said[k].size # 127 /\ lengths[k] <= MaxMessage) =>
    /\ result # "frame"
    /\ result = "mismatch" =>
         \A i \in 1..taken :
           IsMessage(Received, i, taken) => KindOf(Received, i, taken) \notin conf.accepts

(* The same without the exception of 127 bytes: --contains wants the       *)
(* "required text message substring" (cli.go:1939) and no more than that.  *)
AnyLengthWillDo ==
  (ReadsText /\ WellBehaved(Received) /\ \A k \in 1..taken : lengths[k] <= MaxMessage) =>
    result # "frame"

(* --timeout bounds the dial, the handshake and what follows each by       *)
(* itself, and --read-timeout starts again for the pong and the rest: an   *)
(* attempt lasts up to three of the one and two of the other, no longer.   *)
EndsInTime ==
  /\ now <= LongestAttempt
  /\ phase \in {"dial", "handshake", "send"} => now <= 3 * Timeout
  /\ (phase # "returned" /\ ~ conf.read) => now <= 3 * Timeout

(* A check whose context has ended returns, without the help of the server *)
(* and before any deadline: a blocked read is broken up.                   *)
CancelReturns == ctx = "done" ~> phase = "returned"
=============================================================================

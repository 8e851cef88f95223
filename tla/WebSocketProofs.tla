--------------------------- MODULE WebSocketProofs ---------------------------
(***************************************************************************)
(* How long an attempt of the websocket backend can last, and what it has  *)
(* seen when it is satisfied, for all timeouts, conditions and servers.    *)
(***************************************************************************)
EXTENDS WebSocket, TLAPS

Values ==
  /\ now \in Nat /\ deadline \in Nat
  /\ said \in Seq(Frames) /\ taken \in Nat
  /\ lengths \in Seq(Nat) /\ Len(lengths) = Len(said)

(* The deadline of each phase, counted from the start of the attempt.      *)
DeadlineInv ==
  /\ phase = "dial" => deadline <= Timeout
  /\ phase = "handshake" => deadline <= 2 * Timeout
  /\ phase = "send" => deadline <= 3 * Timeout
  /\ phase = "pong" => deadline <= 3 * Timeout + ReadTimeout
  /\ phase \in {"close", "text"} => deadline <= LongestAttempt
  /\ (phase \in {"pong", "close", "text"} /\ ~ conf.read) => deadline <= 3 * Timeout
  /\ now <= LongestAttempt

(* A phase is entered only when the condition asks for it, and not before  *)
(* the pong.                                                               *)
PhaseInv ==
  /\ phase = "pong" => conf.ping
  /\ phase = "close" => conf.close # NoClose
  /\ phase = "text" => conf.close = NoClose /\ conf.want
  /\ (phase \in {"close", "text"} /\ conf.ping) => \E k \in 1..taken : said[k].op = "pong"

(* The bytes of a message up to a frame are those before it and its own.   *)
LengthInv ==
  \A k \in 1..Len(said) :
    /\ said[k].op = "text" => lengths[k] = said[k].size
    /\ said[k].op = "cont" => lengths[k] = (IF k = 1 THEN 0 ELSE lengths[k - 1]) + said[k].size
    /\ ~ Data(said[k]) => lengths[k] = IF k = 1 THEN 0 ELSE lengths[k - 1]

(* The fragments that have been read since frame i, the first of them.     *)
Fragments(i) ==
  /\ said[i].op = "text" /\ ~ said[i].fin
  /\ \A k \in (i + 1)..taken : Data(said[k]) => said[k].op = "cont" /\ ~ said[k].fin
  /\ message.marked <=> \E k \in i..taken : Data(said[k]) /\ said[k].marked
  /\ message.size = 0 <=> \A k \in i..taken : Data(said[k]) => said[k].size = 0
  /\ message.size = lengths[taken]

MessageInv ==
  /\ message.size \in Nat /\ message.marked \in BOOLEAN
  /\ message.begun => \E i \in 1..taken : Fragments(i)
  /\ ~ message.begun => ~ message.marked /\ message.size = 0

(* What holds of the conversation; and, with the clock, of the check.      *)
TalkInv ==
  /\ TypeOK /\ Values /\ LengthInv /\ PhaseInv /\ SatisfiedIsEarned
  /\ phase = "text" => MessageInv
  /\ phase \in {"dial", "handshake", "send", "pong", "close"} => message = NoMessage

IInv == TalkInv /\ DeadlineInv

-----------------------------------------------------------------------------
(* Extending a message begins it, and marks it only for a mark.            *)
LEMMA ExtendedMessage ==
  ASSUME NEW m, NEW f
  PROVE  /\ Extended(m, f).begun /\ (Extended(m, f).marked <=> m.marked \/ f.marked)
         /\ Extended(m, f).size = m.size + f.size
  BY Zenon DEF Extended

LEMMA NothingRead ==
  /\ ~ NoMessage.begun /\ ~ NoMessage.marked /\ NoMessage.marked \in BOOLEAN /\ NoMessage.size = 0
  BY DEF NoMessage

(* Nothing was asked, or what was asked for accepts the empty message.     *)
LEMMA EmptyAccepted == Accepted(NoMessage) <=> ~ conf.want \/ "empty" \in conf.accepts
<1>1. Kind(NoMessage.marked, NoMessage.size) = "empty"
  BY NothingRead DEF Kind
<1> QED
  BY <1>1 DEF Accepted

(* A kind depends on the mark and on whether there is anything.            *)
LEMMA SameKind ==
  ASSUME NEW a, NEW b, NEW m, NEW n, a <=> b, m = 0 <=> n = 0
  PROVE  Kind(a, m) = Kind(b, n)
  BY DEF Kind

LEMMA FramesAreFrames ==
  ASSUME Values
  PROVE  \A k \in 1..Len(said) : said[k].size \in Nat /\ said[k].marked \in BOOLEAN
<1> SUFFICES ASSUME NEW k \in 1..Len(said)
             PROVE  said[k].size \in Nat /\ said[k].marked \in BOOLEAN
  OBVIOUS
<1>1. said[k] \in Frames
  BY DEF Values
<1> QED
  BY <1>1, WebSocketAssumption

LEMMA InitIInv == Init => IInv
<1> SUFFICES ASSUME Init PROVE IInv
  OBVIOUS
<1>1. TypeOK /\ Values
  BY WebSocketAssumption, NothingRead DEF Init, TypeOK, Values, Errors
<1>2. DeadlineInv
  BY WebSocketAssumption DEF Init, DeadlineInv
<1>3. PhaseInv /\ SatisfiedIsEarned /\ LengthInv
  BY DEF Init, PhaseInv, SatisfiedIsEarned, LengthInv
<1>4. message = NoMessage /\ phase = "dial"
  BY DEF Init
<1> QED
  BY <1>1, <1>2, <1>3, <1>4, NothingRead DEF IInv, TalkInv

-----------------------------------------------------------------------------
(* What the steps of a check do to phase, deadline and result.             *)

LEMMA ReturnEffect ==
  ASSUME NEW r, Return(r)
  PROVE  phase' = "returned" /\ result' = r /\ conn' = "closed"
  BY DEF Return

LEMMA ReadRestEffect ==
  ASSUME ReadRest
  PROVE  \/ /\ phase' = "close" /\ conf.close # NoClose
            /\ SetReadDeadline /\ result' = result /\ conn' = conn
         \/ /\ phase' = "text" /\ conf.close = NoClose /\ conf.want
            /\ SetReadDeadline /\ result' = result /\ conn' = conn
         \/ /\ phase' = "returned" /\ conf.close = NoClose /\ ~ conf.want
            /\ result' = "satisfied" /\ conn' = "closed" /\ deadline' = deadline
  BY DEF ReadRest, Return

LEMMA ReadPongEffect ==
  ASSUME NEW f, ReadPong(f)
  PROVE  /\ message' = message
         /\ \/ /\ phase' = "returned" /\ result' = "frame" /\ conn' = "closed"
               /\ deadline' = deadline
            \/ f.op = "pong" /\ ReadRest
            \/ UNCHANGED <<phase, conn, result, deadline>>
  BY DEF ReadPong, Return

LEMMA ReadCloseEffect ==
  ASSUME NEW f, ReadClose(f)
  PROVE  /\ deadline' = deadline /\ message' = message
         /\ \/ /\ phase' = "returned" /\ conn' = "closed"
               /\ \/ result' \in {"frame", "close code", "mismatch"}
                  \/ /\ result' = "satisfied" /\ (conf.want => "empty" \in conf.accepts)
                     /\ f.op = "close" /\ f.code = conf.close
            \/ UNCHANGED <<phase, conn, result>>
  BY EmptyAccepted DEF ReadClose, Return

LEMMA ReadTextEffect ==
  ASSUME NEW f, ReadText(f)
  PROVE  /\ deadline' = deadline
         /\ \/ /\ phase' = "returned" /\ result' = "frame" /\ conn' = "closed"
               /\ message' = message
               /\ ~ (ValidFrame(f) /\ FitsMessage(f)) \/ TooLong(f)
            \/ /\ phase' = "returned" /\ result' = "broken" /\ conn' = "closed"
               /\ message' = message
            \/ /\ phase' = "returned" /\ conn' = "closed" /\ f.fin
               /\ FitsMessage(f) /\ f.op \in {"text", "cont"}
               /\ message' = Extended(message, f)
               /\ \/ result' = "mismatch" /\ ~ Accepted(message')
                  \/ result' = "satisfied" /\ Accepted(message')
            \/ /\ UNCHANGED <<phase, conn, result>> /\ ~ f.fin
               /\ FitsMessage(f) /\ f.op \in {"text", "cont"}
               /\ message' = Extended(message, f)
            \/ /\ UNCHANGED <<phase, conn, result, message>>
               /\ f.op \notin {"text", "cont"}
<1>1. CASE (~ (ValidFrame(f) /\ FitsMessage(f)) \/ TooLong(f)) /\ Return("frame") /\ message' = message
  BY <1>1 DEF ReadText, Return
<1>2. CASE f.op = "pong" /\ UNCHANGED <<phase, conn, result, message>>
  BY <1>2 DEF ReadText
<1>3. CASE f.op = "ping" /\ (Answered \/ NotAnswered) /\ message' = message
  BY <1>3 DEF ReadText, Answered, NotAnswered, Return
<1>4. CASE /\ FitsMessage(f) /\ f.op \in {"text", "cont"} /\ message' = Extended(message, f)
           /\ \/ ~ f.fin /\ UNCHANGED <<phase, conn, result>>
              \/ f.fin /\ Return(IF Accepted(message') THEN "satisfied" ELSE "mismatch")
  <2>1. CASE ~ f.fin /\ UNCHANGED <<phase, conn, result>>
    BY <1>4, <2>1 DEF ReadText
  <2>2. CASE f.fin /\ Return(IF Accepted(message') THEN "satisfied" ELSE "mismatch")
    <3>1. /\ phase' = "returned" /\ conn' = "closed"
          /\ result' = IF Accepted(message') THEN "satisfied" ELSE "mismatch"
      BY <2>2, Zenon DEF Return
    <3>2. deadline' = deadline
      BY DEF ReadText
    <3> QED
      BY <1>4, <2>2, <3>1, <3>2
  <2> QED
    BY <1>4, <2>1, <2>2
<1> QED
  BY <1>1, <1>2, <1>3, <1>4, Zenon DEF ReadText

(* A step either leaves the conversation alone, hears more of the server,  *)
(* or reads one frame.                                                     *)
LEMMA ReadFrameEffect ==
  ASSUME ReadFrame, Values
  PROVE  /\ taken' = taken + 1 /\ taken' <= Len(said) /\ UNCHANGED <<said, lengths>>
         /\ conf' = conf /\ now' = now /\ ctx' = ctx
         /\ \/ phase = "pong" /\ ReadPong(said[taken + 1])
            \/ phase = "close" /\ ReadClose(said[taken + 1])
            \/ phase = "text" /\ ReadText(said[taken + 1])
  BY DEF ReadFrame, Unread, FrameAt, Values, talk

-----------------------------------------------------------------------------
(* The clock.                                                              *)

LEMMA DeadlineMoved ==
  ASSUME SetReadDeadline
  PROVE  (conf.read => deadline' = now + ReadTimeout) /\ (~ conf.read => deadline' = deadline)
  BY DEF SetReadDeadline

LEMMA StepInTime ==
  ASSUME IInv, [Next]_vars
  PROVE  DeadlineInv' /\ now' \in Nat /\ deadline' \in Nat /\ now' <= deadline'
<1>1. /\ now \in Nat /\ deadline \in Nat /\ now <= deadline /\ DeadlineInv
      /\ phase \in {"dial", "handshake", "send", "pong", "close", "text", "returned"}
  BY DEF IInv, TalkInv, Values, TypeOK
<1>2. /\ Timeout \in Nat /\ ReadTimeout \in Nat
      /\ LongestAttempt = 3 * Timeout + 2 * ReadTimeout
  BY WebSocketAssumption
<1>3. CASE Dial
  BY <1>1, <1>2, <1>3, SMT DEF Dial, Return, DeadlineInv
<1>4. CASE Handshake
  BY <1>1, <1>2, <1>4, SMT DEF Handshake, Return, DeadlineInv
<1>5. CASE /\ UNCHANGED <<conf, now>> /\ phase \in {"send", "pong"}
           /\ phase' \in {"pong", "close", "text"} /\ (phase = "pong" => phase' # "pong")
           /\ SetReadDeadline
  BY <1>1, <1>2, <1>5, DeadlineMoved, SMT DEF DeadlineInv
<1>6. CASE /\ UNCHANGED <<conf, now, deadline>>
           /\ phase' \in {phase, "returned"}
  BY <1>1, <1>2, <1>6, SMT DEF DeadlineInv
<1>7. ASSUME ReadRest, phase \in {"send", "pong"}, UNCHANGED <<conf, now>>
      PROVE  DeadlineInv' /\ now' \in Nat /\ deadline' \in Nat /\ now' <= deadline'
  BY <1>5, <1>6, <1>7, ReadRestEffect
<1>8. CASE Send
  <2>1. CASE conf.ping
    BY <1>5, <1>8, <2>1 DEF Send
  <2>2. CASE ~ conf.ping
    BY <1>7, <1>8, <2>2 DEF Send
  <2> QED
    BY <2>1, <2>2
<1>9. CASE ReadFrame
  <2>1. Values /\ UNCHANGED <<conf, now>>
    BY <1>9 DEF IInv, TalkInv, ReadFrame
  <2>2. CASE phase = "pong" /\ ReadPong(said[taken + 1])
    BY <1>6, <1>7, <2>1, <2>2, ReadPongEffect
  <2>3. CASE phase = "close" /\ ReadClose(said[taken + 1])
    BY <1>6, <2>1, <2>3, ReadCloseEffect
  <2>4. CASE phase = "text" /\ ReadText(said[taken + 1])
    BY <1>6, <2>1, <2>4, ReadTextEffect
  <2> QED
    BY <1>9, <2>1, <2>2, <2>3, <2>4, ReadFrameEffect
<1>10. CASE Broken \/ DeadlinePasses
  BY <1>6, <1>10 DEF Broken, DeadlinePasses, Return
<1>11. CASE Cancelled \/ CloseOnContextDone \/ ServerEnds
  BY <1>6, <1>11 DEF Cancelled, CloseOnContextDone, ServerEnds
<1>12. CASE \E f \in Frames : ServerSends(f)
  BY <1>6, <1>12 DEF ServerSends
<1>13. CASE Tick
  BY <1>1, <1>2, <1>13, SMT DEF Tick, DeadlineInv
<1>14. CASE UNCHANGED vars
  BY <1>6, <1>14 DEF vars
<1> QED
  BY <1>3, <1>4, <1>8, <1>9, <1>10, <1>11, <1>12, <1>13, <1>14 DEF Next
-----------------------------------------------------------------------------
(* The conversation.                                                       *)

(* Nothing that was received is lost when the server says more.            *)
LEMMA MoreSaid ==
  ASSUME Values, LengthInv, NEW f \in Frames, ServerSends(f), taken <= Len(said)
  PROVE  /\ said' \in Seq(Frames) /\ Len(said') = Len(said) + 1
         /\ \A k \in 1..taken : said'[k] = said[k] /\ lengths'[k] = lengths[k]
         /\ lengths' \in Seq(Nat) /\ Len(lengths') = Len(said')
         /\ LengthInv'
<1> DEFINE before == IF lengths = <<>> THEN 0 ELSE lengths[Len(lengths)]
           now2 == IF f.op = "text" THEN f.size ELSE IF f.op = "cont" THEN before + f.size ELSE before
<1>1. /\ said' = Append(said, f) /\ lengths' = Append(lengths, now2)
      /\ said \in Seq(Frames) /\ lengths \in Seq(Nat) /\ Len(lengths) = Len(said)
      /\ taken \in Nat /\ Len(said) \in Nat /\ f.size \in Nat
  BY WebSocketAssumption DEF ServerSends, Values
<1>2. before \in Nat /\ before = IF Len(said) = 0 THEN 0 ELSE lengths[Len(said)]
  BY <1>1
<1>3. now2 \in Nat
  BY <1>1, <1>2
<1>4. /\ said' \in Seq(Frames) /\ Len(said') = Len(said) + 1 /\ said'[Len(said) + 1] = f
      /\ \A k \in 1..Len(said) : said'[k] = said[k]
  BY <1>1
<1> HIDE DEF before
<1>5. /\ lengths' \in Seq(Nat) /\ Len(lengths') = Len(said) + 1 /\ lengths'[Len(said) + 1] = now2
      /\ \A k \in 1..Len(said) : lengths'[k] = lengths[k]
  <2> HIDE DEF now2
  <2> QED
    BY <1>1, <1>3
<1>6. ASSUME NEW k \in 1..Len(said')
      PROVE  /\ said'[k].op = "text" => lengths'[k] = said'[k].size
             /\ said'[k].op = "cont" =>
                  lengths'[k] = (IF k = 1 THEN 0 ELSE lengths'[k - 1]) + said'[k].size
             /\ ~ Data(said'[k]) => lengths'[k] = IF k = 1 THEN 0 ELSE lengths'[k - 1]
  <2>1. CASE k \in 1..Len(said)
    <3>1. k # 1 => k - 1 \in 1..Len(said)
      BY <1>1, <2>1
    <3>2. said'[k] = said[k] /\ lengths'[k] = lengths[k] /\ (k # 1 => lengths'[k - 1] = lengths[k - 1])
      BY <1>4, <1>5, <2>1, <3>1
    <3> QED
      BY <2>1, <3>2 DEF LengthInv
  <2>2. CASE k = Len(said) + 1
    <3>1. before = IF k = 1 THEN 0 ELSE lengths'[k - 1]
      <4>1. k # 1 => k - 1 \in 1..Len(said) /\ k - 1 = Len(said)
        BY <1>1, <2>2
      <4>2. k = 1 <=> Len(said) = 0
        BY <1>1, <2>2
      <4> QED
        BY <1>2, <1>5, <4>1, <4>2
    <3>2. said'[k] = f /\ lengths'[k] = now2
      BY <1>4, <1>5, <2>2
    <3> HIDE DEF Data
    <3> QED
      BY <3>1, <3>2 DEF Data
  <2> QED
    BY <1>1, <1>4, <2>1, <2>2
<1>7. LengthInv'
  BY <1>6 DEF LengthInv, Data
<1> QED
  BY <1>1, <1>4, <1>5, <1>7

(* A state in which only the connection, the context or the clock moved.   *)
LEMMA QuietStep ==
  ASSUME TalkInv, UNCHANGED <<conf, phase, said, lengths, taken, message, result>>,
         now' \in Nat, deadline' \in Nat, now' <= deadline',
         ctx' \in {"live", "done"}, conn' \in {"none", "open", "closed", "ended"},
         phase = "returned" => conn' = "closed"
  PROVE  TalkInv'
<1> USE DEF TalkInv
<1>1. TypeOK' /\ Values'
  BY DEF TypeOK, Values
<1>2. PhaseInv' /\ SatisfiedIsEarned' /\ LengthInv'
  BY DEF PhaseInv, SatisfiedIsEarned, Received, LengthInv
<1>3. phase' = "text" => MessageInv'
  BY DEF MessageInv, Fragments
<1> QED
  BY <1>1, <1>2, <1>3

(* A check that gives up has nothing left to prove.                        *)
LEMMA GiveUpStep ==
  ASSUME TalkInv, UNCHANGED <<conf, said, lengths, ctx, now>>, NEW r \in Errors \cup {"mismatch"}, Return(r),
         now' \in Nat, deadline' \in Nat, now' <= deadline', taken' \in taken..Len(said)
  PROVE  TalkInv'
<1>1. phase' = "returned" /\ result' = r /\ conn' = "closed" /\ r \notin {"none", "satisfied"}
  BY DEF Return, Errors
<1>2. TypeOK'
  BY <1>1 DEF TalkInv, TypeOK, Values
<1>3. Values'
  BY DEF TalkInv, TypeOK, Values
<1>4. PhaseInv' /\ SatisfiedIsEarned' /\ LengthInv'
  BY <1>1 DEF TalkInv, PhaseInv, SatisfiedIsEarned, LengthInv
<1> QED
  BY <1>1, <1>2, <1>3, <1>4 DEF TalkInv

(* The next phase is one that the condition asks for.                      *)
LEMMA RestStep ==
  ASSUME TalkInv, UNCHANGED <<conf, said, lengths, ctx, now, message>>, ReadRest,
         phase \in {"send", "pong"}, taken' \in taken..Len(said),
         now' \in Nat, deadline' \in Nat, now' <= deadline',
         conf.ping => \E k \in 1..taken' : said[k].op = "pong"
  PROVE  TalkInv'
<1>1. \/ phase' = "close" /\ conf.close # NoClose /\ result' = "none" /\ conn' = conn
      \/ phase' = "text" /\ conf.close = NoClose /\ conf.want /\ result' = "none" /\ conn' = conn
      \/ /\ phase' = "returned" /\ conf.close = NoClose /\ ~ conf.want
         /\ result' = "satisfied" /\ conn' = "closed"
  BY ReadRestEffect DEF TalkInv, TypeOK
<1>2. message' = NoMessage /\ ~ message'.begun /\ ~ message'.marked
  BY NothingRead DEF TalkInv
<1>3. TypeOK'
  BY <1>1, <1>2 DEF TalkInv, TypeOK, Values
<1>4. Values'
  BY DEF TalkInv, TypeOK, Values
<1>5. PhaseInv' /\ SatisfiedIsEarned' /\ LengthInv'
  BY <1>1 DEF TalkInv, PhaseInv, SatisfiedIsEarned, LengthInv
<1>6. MessageInv'
  BY <1>2, NothingRead DEF MessageInv
<1> QED
  BY <1>1, <1>2, <1>3, <1>4, <1>5, <1>6 DEF TalkInv

(* Reading goes on, for a pong or a close frame.                           *)
LEMMA PassOverStep ==
  ASSUME TalkInv, UNCHANGED <<conf, phase, said, lengths, ctx, conn, now, deadline, message, result>>,
         phase \in {"pong", "close"}, taken' \in taken..Len(said)
  PROVE  TalkInv'
<1>1. TypeOK' /\ Values'
  BY DEF TalkInv, TypeOK, Values
<1>2. PhaseInv' /\ SatisfiedIsEarned' /\ LengthInv'
  BY DEF TalkInv, TypeOK, Values, PhaseInv, SatisfiedIsEarned, LengthInv
<1> QED
  BY <1>1, <1>2 DEF TalkInv

(* One more frame of the message: the fragments from the first of them on. *)
LEMMA FragmentRead ==
  ASSUME TalkInv, phase = "text", NEW f, f = said[taken + 1], taken + 1 <= Len(said),
         FitsMessage(f), f.op \in {"text", "cont"}
  PROVE  \E i \in 1..(taken + 1) :
           /\ said[i].op = "text"
           /\ i < taken + 1 => ~ said[i].fin /\ f.op = "cont"
           /\ \A k \in (i + 1)..taken : Data(said[k]) => said[k].op = "cont" /\ ~ said[k].fin
           /\ (message.marked \/ f.marked) <=> \E k \in i..(taken + 1) : Data(said[k]) /\ said[k].marked
           /\ message.size + f.size = 0 <=> \A k \in i..(taken + 1) : Data(said[k]) => said[k].size = 0
           /\ message.size + f.size = lengths[taken + 1]
<1>1. /\ taken \in Nat /\ MessageInv /\ taken + 1 \in 1..Len(said)
      /\ message.size \in Nat /\ f.size \in Nat /\ LengthInv
  BY FramesAreFrames DEF TalkInv, Values, MessageInv
<1>2. Data(f)
  BY DEF Data
<1>3. CASE f.op = "text"
  <2>1. ~ message.begun /\ ~ message.marked /\ message.size = 0
    BY <1>1, <1>3 DEF FitsMessage, MessageInv
  <2>2. taken + 1 \in 1..(taken + 1) /\ \A k \in (taken + 1)..(taken + 1) : said[k] = f
    BY <1>1
  <2>3. taken + 1 \in (taken + 1)..(taken + 1)
    BY <1>1
  <2>4. f.marked <=> \E k \in (taken + 1)..(taken + 1) : Data(said[k]) /\ said[k].marked
    BY <1>2, <2>2, <2>3
  <2>5. f.size = 0 <=> \A k \in (taken + 1)..(taken + 1) : Data(said[k]) => said[k].size = 0
    BY <1>2, <2>2, <2>3
  <2>6. \A k \in (taken + 1 + 1)..taken : FALSE
    BY <1>1
  <2>7. ~ (taken + 1 < taken + 1)
    BY <1>1
  <2>8. message.size + f.size = f.size /\ lengths[taken + 1] = f.size
    BY <1>1, <1>3, <2>1 DEF LengthInv
  <2>9. (message.marked \/ f.marked) <=> f.marked
    BY <2>1
  <2> QED
    BY <1>3, <2>2, <2>4, <2>5, <2>6, <2>7, <2>8, <2>9
<1>4. CASE f.op = "cont"
  <2>1. message.begun
    BY <1>4 DEF FitsMessage
  <2>2. PICK i \in 1..taken : Fragments(i)
    BY <1>1, <2>1 DEF MessageInv
  <2>3. i \in 1..(taken + 1) /\ taken + 1 # 1
        /\ \A k : k \in i..(taken + 1) <=> k \in i..taken \/ k = taken + 1
    BY <1>1
  <2>4. (\E k \in i..(taken + 1) : Data(said[k]) /\ said[k].marked)
        <=> (\E k \in i..taken : Data(said[k]) /\ said[k].marked) \/ f.marked
    BY <1>2, <2>3
  <2>5. (\A k \in i..(taken + 1) : Data(said[k]) => said[k].size = 0)
        <=> (\A k \in i..taken : Data(said[k]) => said[k].size = 0) /\ f.size = 0
    BY <1>2, <2>3
  <2>6. message.marked <=> \E k \in i..taken : Data(said[k]) /\ said[k].marked
    BY <2>2 DEF Fragments
  <2>7. message.size = 0 <=> \A k \in i..taken : Data(said[k]) => said[k].size = 0
    BY <2>2 DEF Fragments
  <2>8. message.size + f.size = 0 <=> message.size = 0 /\ f.size = 0
    BY <1>1
  <2>9. message.size + f.size = lengths[taken + 1]
    <3>1. lengths[taken + 1] = lengths[taken + 1 - 1] + f.size
      BY <1>1, <1>4, <2>3 DEF LengthInv
    <3>2. taken + 1 - 1 = taken /\ message.size = lengths[taken]
      BY <1>1, <2>2 DEF Fragments
    <3> QED
      BY <3>1, <3>2
  <2>10. /\ said[i].op = "text" /\ ~ said[i].fin
         /\ \A k \in (i + 1)..taken : Data(said[k]) => said[k].op = "cont" /\ ~ said[k].fin
    BY <2>2 DEF Fragments
  <2>11. (message.marked \/ f.marked) <=> \E k \in i..(taken + 1) : Data(said[k]) /\ said[k].marked
    BY <2>4, <2>6
  <2>12. message.size + f.size = 0 <=> \A k \in i..(taken + 1) : Data(said[k]) => said[k].size = 0
    BY <2>5, <2>7, <2>8
  <2> QED
    BY <1>4, <2>3, <2>9, <2>10, <2>11, <2>12
<1> QED
  BY <1>3, <1>4

(* The last frame of a message: the message is what its frames say.        *)
LEMMA MessageRead ==
  ASSUME TalkInv, phase = "text", NEW f, f = said[taken + 1], taken + 1 <= Len(said),
         FitsMessage(f), f.op \in {"text", "cont"}, f.fin
  PROVE  \E i \in 1..(taken + 1) :
           /\ IsMessage(said, i, taken + 1)
           /\ KindOf(said, i, taken + 1) =
                Kind(Extended(message, f).marked, Extended(message, f).size)
<1>1. PICK i \in 1..(taken + 1) :
        /\ said[i].op = "text"
        /\ i < taken + 1 => ~ said[i].fin /\ f.op = "cont"
        /\ \A k \in (i + 1)..taken : Data(said[k]) => said[k].op = "cont" /\ ~ said[k].fin
        /\ (message.marked \/ f.marked) <=> \E k \in i..(taken + 1) : Data(said[k]) /\ said[k].marked
        /\ message.size + f.size = 0 <=> \A k \in i..(taken + 1) : Data(said[k]) => said[k].size = 0
        /\ message.size + f.size = lengths[taken + 1]
  BY FragmentRead
<1>2. taken \in Nat
  BY DEF TalkInv, Values
<1>3. IsMessage(said, i, taken + 1)
  <2>1. i <= taken + 1 /\ (i + 1)..((taken + 1) - 1) = (i + 1)..taken
    BY <1>2
  <2>2. \A k \in (i + 1)..((taken + 1) - 1) :
          Data(said[k]) => said[k].op = "cont" /\ ~ said[k].fin
    BY <1>1, <2>1, Zenon
  <2>3. said[i].op = "text" /\ said[taken + 1].fin /\ Data(said[taken + 1])
    BY <1>1 DEF Data
  <2>4. i < taken + 1 => ~ said[i].fin /\ said[taken + 1].op = "cont"
    BY <1>1
  <2> QED
    BY <2>1, <2>2, <2>3, <2>4, Zenon DEF IsMessage
<1> DEFINE marked == \E k \in i..(taken + 1) : Data(said[k]) /\ said[k].marked
           empty == \A k \in i..(taken + 1) : Data(said[k]) => said[k].size = 0
<1>4. KindOf(said, i, taken + 1) = Kind(marked, IF empty THEN 0 ELSE 1)
  BY Zenon DEF KindOf
<1>5. (marked <=> Extended(message, f).marked) /\ (empty <=> Extended(message, f).size = 0)
  BY <1>1, ExtendedMessage
<1>6. (IF empty THEN 0 ELSE 1) = 0 <=> empty
  <2> HIDE DEF empty
  <2> QED
    OBVIOUS
<1> HIDE DEF marked, empty
<1>7. KindOf(said, i, taken + 1) = Kind(Extended(message, f).marked, Extended(message, f).size)
  BY <1>4, <1>5, <1>6, SameKind
<1> QED
  BY <1>3, <1>7

(* The end and the beginning of a message depend on its frames only.       *)
LEMMA SameMessage ==
  ASSUME NEW s, NEW t, NEW n \in Nat, \A k \in 1..n : s[k] = t[k], NEW i \in 1..n
  PROVE  /\ IsMessage(s, i, n) <=> IsMessage(t, i, n)
         /\ KindOf(s, i, n) = KindOf(t, i, n)
<1>1. /\ s[i] = t[i] /\ s[n] = t[n]
      /\ \A k \in (i + 1)..(n - 1) : s[k] = t[k]
      /\ \A k \in i..n : s[k] = t[k]
  OBVIOUS
<1>2. IsMessage(s, i, n) <=> IsMessage(t, i, n)
  BY <1>1 DEF IsMessage, Data
<1>3. (\E k \in i..n : Data(s[k]) /\ s[k].marked) <=> (\E k \in i..n : Data(t[k]) /\ t[k].marked)
  BY <1>1 DEF Data
<1>4. (\A k \in i..n : Data(s[k]) => s[k].size = 0) <=> (\A k \in i..n : Data(t[k]) => t[k].size = 0)
  BY <1>1 DEF Data
<1>5. KindOf(s, i, n) = KindOf(t, i, n)
  BY <1>3, <1>4, SameKind DEF KindOf
<1> QED
  BY <1>2, <1>5

LEMMA ReadTextStep ==
  ASSUME TalkInv, UNCHANGED <<conf, said, lengths, ctx, now, deadline>>, phase = "text",
         taken' = taken + 1, taken + 1 <= Len(said), ReadText(said[taken + 1])
  PROVE  TalkInv'
<1> DEFINE f == said[taken + 1]
<1>1. /\ taken \in Nat /\ taken' \in Nat /\ taken' \in taken..Len(said)
      /\ now \in Nat /\ deadline \in Nat /\ now <= deadline /\ Values
      /\ said \in Seq(Frames) /\ conf.close = NoClose /\ conf.want
      /\ taken + 1 \in 1..Len(said)
  BY DEF TalkInv, TypeOK, Values, PhaseInv
<1>2. conf.ping => \E k \in 1..taken' : said[k].op = "pong"
  BY <1>1 DEF TalkInv, PhaseInv
<1>3. LengthInv'
  BY DEF TalkInv, LengthInv
<1>4. CASE \E r \in {"frame", "mismatch", "broken"} : Return(r)
  BY <1>1, <1>4, GiveUpStep DEF Errors
<1>5. CASE /\ FitsMessage(f) /\ f.op \in {"text", "cont"} /\ ~ f.fin
           /\ message' = Extended(message, f) /\ UNCHANGED <<phase, conn, result>>
  <2>1. /\ message'.begun /\ (message'.marked <=> message.marked \/ f.marked)
        /\ message'.size = message.size + f.size
    BY <1>5, ExtendedMessage
  <2>2. MessageInv'
    <3>1. PICK i \in 1..(taken + 1) :
            /\ said[i].op = "text"
            /\ i < taken + 1 => ~ said[i].fin /\ f.op = "cont"
            /\ \A k \in (i + 1)..taken : Data(said[k]) => said[k].op = "cont" /\ ~ said[k].fin
            /\ (message.marked \/ f.marked) <=> \E k \in i..(taken + 1) : Data(said[k]) /\ said[k].marked
            /\ message.size + f.size = 0 <=> \A k \in i..(taken + 1) : Data(said[k]) => said[k].size = 0
            /\ message.size + f.size = lengths[taken + 1]
      BY <1>5, FragmentRead
    <3>2. ~ said[i].fin
      BY <1>1, <1>5, <3>1
    <3>3. \A k \in (i + 1)..(taken + 1) : Data(said[k]) => said[k].op = "cont" /\ ~ said[k].fin
      <4> TAKE k \in (i + 1)..(taken + 1)
      <4>1. CASE k = taken + 1
        BY <1>1, <1>5, <3>1, <4>1
      <4>2. CASE k # taken + 1
        <5>1. k \in (i + 1)..taken
          BY <1>1, <4>2
        <5> QED
          BY <3>1, <5>1
      <4> QED
        BY <4>1, <4>2
    <3>4. message'.marked <=> \E k \in i..taken' : Data(said'[k]) /\ said'[k].marked
      BY <2>1, <3>1
    <3>5. message'.size = 0 <=> \A k \in i..taken' : Data(said'[k]) => said'[k].size = 0
      BY <2>1, <3>1
    <3>6. message'.size = lengths'[taken']
      BY <2>1, <3>1
    <3>7. Fragments(i)'
      BY <3>1, <3>2, <3>3, <3>4, <3>5, <3>6 DEF Fragments, Data
    <3>8. message'.size \in Nat /\ message'.marked \in BOOLEAN
      <4>1. /\ message.size \in Nat /\ message.marked \in BOOLEAN
            /\ f.size \in Nat /\ f.marked \in BOOLEAN
        BY <1>1, FramesAreFrames DEF TalkInv, MessageInv
      <4> HIDE DEF f
      <4>2. message'.marked = (message.marked \/ f.marked)
        BY <1>5, Zenon DEF Extended
      <4> QED
        BY <2>1, <4>1, <4>2
    <3> QED
      BY <2>1, <3>7, <3>8 DEF MessageInv
  <2>3. TypeOK' /\ Values'
    BY <1>1, <1>5 DEF TalkInv, TypeOK, Values
  <2>4. PhaseInv' /\ SatisfiedIsEarned'
    BY <1>1, <1>2, <1>5 DEF TalkInv, TypeOK, PhaseInv, SatisfiedIsEarned
  <2> QED
    BY <1>3, <1>5, <2>2, <2>3, <2>4 DEF TalkInv
<1>6. CASE /\ f.op \notin {"text", "cont"} /\ UNCHANGED <<phase, conn, result, message>>
  <2>1. MessageInv'
    <3>1. CASE message.begun
      <4>1. PICK i \in 1..taken : Fragments(i)
        BY <3>1 DEF TalkInv, MessageInv
      <4>2. /\ \A k \in (i + 1)..taken' : k \in (i + 1)..taken \/ ~ Data(said[k])
            /\ \A k \in i..taken' : k \in i..taken \/ ~ Data(said[k])
            /\ i..taken \subseteq i..taken' /\ i \in 1..taken'
        BY <1>1, <1>6 DEF Data
      <4>3. lengths'[taken'] = lengths[taken]
        <5>1. ~ Data(f) /\ taken + 1 # 1 /\ taken + 1 - 1 = taken
          BY <1>1, <1>6 DEF Data
        <5>2. lengths[taken + 1] = lengths[taken + 1 - 1]
          BY <1>1, <5>1 DEF TalkInv, LengthInv
        <5> QED
          BY <5>1, <5>2
      <4>4. message'.marked <=> \E k \in i..taken' : Data(said'[k]) /\ said'[k].marked
        BY <1>6, <4>1, <4>2 DEF Fragments
      <4>5. message'.size = 0 <=> \A k \in i..taken' : Data(said'[k]) => said'[k].size = 0
        BY <1>6, <4>1, <4>2 DEF Fragments
      <4>6. \A k \in (i + 1)..taken' : Data(said'[k]) => said'[k].op = "cont" /\ ~ said'[k].fin
        BY <4>1, <4>2 DEF Fragments
      <4>7. message'.size = lengths'[taken'] /\ said'[i].op = "text" /\ ~ said'[i].fin
        BY <1>6, <4>1, <4>3 DEF Fragments
      <4>8. Fragments(i)' /\ i \in 1..taken'
        BY <4>2, <4>4, <4>5, <4>6, <4>7 DEF Fragments, Data
      <4> QED
        BY <1>6, <3>1, <4>8 DEF TalkInv, MessageInv
    <3>2. CASE ~ message.begun
      BY <1>6, <3>2 DEF TalkInv, MessageInv
    <3> QED
      BY <3>1, <3>2
  <2>2. TypeOK' /\ Values'
    BY <1>1, <1>6 DEF TalkInv, TypeOK, Values
  <2>3. PhaseInv' /\ SatisfiedIsEarned'
    BY <1>1, <1>2, <1>6 DEF TalkInv, TypeOK, PhaseInv, SatisfiedIsEarned
  <2> QED
    BY <1>3, <1>6, <2>1, <2>2, <2>3 DEF TalkInv
<1>7. CASE /\ FitsMessage(f) /\ f.op \in {"text", "cont"} /\ f.fin
           /\ message' = Extended(message, f) /\ Accepted(message')
           /\ phase' = "returned" /\ result' = "satisfied" /\ conn' = "closed"
  <2>1. Kind(message'.marked, message'.size) \in conf.accepts
    BY <1>1, <1>7 DEF Accepted
  <2>2. PICK i \in 1..(taken + 1) :
          /\ IsMessage(said, i, taken + 1)
          /\ KindOf(said, i, taken + 1) =
               Kind(Extended(message, f).marked, Extended(message, f).size)
    BY <1>7, MessageRead
  <2>3. \A k \in 1..taken' : Received'[k] = said[k]
    BY <1>1 DEF Received
  <2>4. IsMessage(Received', i, taken') /\ KindOf(Received', i, taken') \in conf.accepts
    <3>1. taken' \in Nat /\ taken' = taken + 1 /\ i \in 1..taken'
      BY <1>1, <2>2 DEF TalkInv, Values
    <3>2. /\ IsMessage(Received', i, taken') <=> IsMessage(said, i, taken')
          /\ KindOf(Received', i, taken') = KindOf(said, i, taken')
      BY <2>3, <3>1, SameMessage
    <3>3. conf' = conf /\ KindOf(said, i, taken') = Kind(message'.marked, message'.size)
      BY <1>1, <1>7, <2>2, <3>1
    <3> QED
      BY <2>1, <2>2, <3>1, <3>2, <3>3
  <2>5. SatisfiedIsEarned'
    BY <1>1, <1>2, <2>4 DEF SatisfiedIsEarned
  <2>6. TypeOK' /\ Values' /\ PhaseInv'
    BY <1>1, <1>7 DEF TalkInv, TypeOK, Values, PhaseInv
  <2> QED
    BY <1>3, <1>7, <2>5, <2>6 DEF TalkInv
<1>8. CASE phase' = "returned" /\ conn' = "closed" /\ result' \in {"frame", "mismatch", "broken"}
  BY <1>4, <1>8 DEF Return
<1> QED
  BY <1>5, <1>6, <1>7, <1>8, ReadTextEffect

LEMMA ReadFrameStep ==
  ASSUME IInv, ReadFrame, now' \in Nat, deadline' \in Nat, now' <= deadline'
  PROVE  TalkInv'
<1> DEFINE f == said[taken + 1]
<1>1. /\ TalkInv /\ Values
      /\ UNCHANGED <<conf, said, lengths, ctx, now>> /\ taken' = taken + 1 /\ taken + 1 <= Len(said)
      /\ taken' \in taken..Len(said)
  BY ReadFrameEffect DEF IInv, TalkInv, Values
<1>2. ASSUME NEW r \in Errors \cup {"mismatch"}, phase' = "returned", result' = r, conn' = "closed"
      PROVE  TalkInv'
  BY <1>1, <1>2, GiveUpStep DEF Return
<1>3. CASE phase = "pong" /\ ReadPong(f)
  <2>1. CASE phase' = "returned" /\ result' = "frame" /\ conn' = "closed"
    BY <1>2, <2>1 DEF Errors
  <2>2. CASE f.op = "pong" /\ ReadRest /\ message' = message
    <3>1. \E k \in 1..taken' : said[k].op = "pong"
      BY <1>1, <2>2 DEF Values
    <3> QED
      BY <1>1, <1>3, <2>2, <3>1, RestStep
  <2>3. CASE UNCHANGED <<phase, conn, result, deadline, message>>
    BY <1>1, <1>3, <2>3, PassOverStep
  <2> QED
    BY <1>3, <2>1, <2>2, <2>3, ReadPongEffect
<1>4. CASE phase = "close" /\ ReadClose(f)
  <2>1. CASE phase' = "returned" /\ conn' = "closed" /\ result' \in {"frame", "close code", "mismatch"}
    BY <1>2, <2>1 DEF Errors
  <2>2. CASE /\ phase' = "returned" /\ conn' = "closed" /\ result' = "satisfied"
             /\ (conf.want => "empty" \in conf.accepts) /\ f.op = "close" /\ f.code = conf.close
    <3>1. SatisfiedIsEarned' /\ LengthInv'
      BY <1>1, <1>4, <2>2 DEF TalkInv, PhaseInv, Values, SatisfiedIsEarned, LengthInv
    <3>2. TypeOK' /\ Values' /\ PhaseInv'
      BY <1>1, <1>4, <2>2, ReadCloseEffect DEF TalkInv, TypeOK, Values, PhaseInv
    <3> QED
      BY <2>2, <3>1, <3>2 DEF TalkInv
  <2>3. CASE UNCHANGED <<phase, conn, result, deadline, message>>
    BY <1>1, <1>4, <2>3, PassOverStep
  <2> QED
    BY <1>4, <2>1, <2>2, <2>3, ReadCloseEffect
<1>5. CASE phase = "text" /\ ReadText(f)
  BY <1>1, <1>5, ReadTextEffect, ReadTextStep
<1> QED
  BY <1>1, <1>3, <1>4, <1>5, ReadFrameEffect

LEMMA StepTalk ==
  ASSUME IInv, [Next]_vars, now' \in Nat, deadline' \in Nat, now' <= deadline'
  PROVE  TalkInv'
<1>1. TalkInv /\ taken \in taken..Len(said)
  BY DEF IInv, TalkInv, TypeOK, Values
<1>2. ASSUME NEW r \in Errors, Return(r), UNCHANGED <<conf, now, ctx, said, lengths, taken>>
      PROVE  TalkInv'
  BY <1>1, <1>2, GiveUpStep
<1>3. ASSUME UNCHANGED <<conf, ctx, said, lengths, taken, message, result>>, result = "none",
             phase \in {"dial", "handshake", "send"}, phase' \in {"handshake", "send", "pong"},
             phase' = "pong" => conf.ping, conn' \in {"none", "open", "closed", "ended"}
      PROVE  TalkInv'
  <2>1. TypeOK'
    BY <1>1, <1>3, NothingRead DEF TalkInv, TypeOK
  <2>2. Values' /\ PhaseInv' /\ SatisfiedIsEarned' /\ LengthInv'
    BY <1>1, <1>3 DEF TalkInv, Values, PhaseInv, SatisfiedIsEarned, LengthInv
  <2> QED
    BY <1>1, <1>3, <2>1, <2>2 DEF TalkInv
<1>4. /\ phase # "returned" => result = "none"
      /\ ctx \in {"live", "done"} /\ conn \in {"none", "open", "closed", "ended"}
      /\ phase = "returned" => conn = "closed"
  BY <1>1 DEF TalkInv, TypeOK
<1>5. CASE Dial
  BY <1>2, <1>3, <1>4, <1>5 DEF Dial, Errors, talk
<1>6. CASE Handshake
  BY <1>2, <1>3, <1>4, <1>6 DEF Handshake, Errors, talk
<1>7. CASE Send
  <2>1. CASE conf.ping
    BY <1>3, <1>4, <1>7, <2>1 DEF Send, talk
  <2>2. CASE ~ conf.ping
    BY <1>1, <1>7, <2>2, RestStep DEF Send, talk
  <2> QED
    BY <2>1, <2>2
<1>8. CASE ReadFrame
  BY <1>8, ReadFrameStep
<1>9. CASE Broken \/ DeadlinePasses
  BY <1>2, <1>9 DEF Broken, DeadlinePasses, Errors, talk
<1>10. CASE Cancelled \/ CloseOnContextDone \/ ServerEnds \/ Tick \/ UNCHANGED vars
  <2>1. UNCHANGED <<conf, phase, said, lengths, taken, message, result>>
    BY <1>10 DEF Cancelled, CloseOnContextDone, ServerEnds, Tick, vars, talk
  <2>2. /\ ctx' \in {"live", "done"} /\ conn' \in {"none", "open", "closed", "ended"}
        /\ phase = "returned" => conn' = "closed"
    BY <1>4, <1>10 DEF Cancelled, CloseOnContextDone, ServerEnds, Tick, vars
  <2> QED
    BY <1>1, <2>1, <2>2, QuietStep
<1>11. ASSUME NEW f \in Frames, ServerSends(f)
       PROVE  TalkInv'
  <2>1. /\ UNCHANGED <<conf, phase, now, deadline, ctx, conn, taken, message, result>>
        /\ phase \in {"send", "pong", "close", "text"} /\ Len(said) < MaxFrames
        /\ said' = Append(said, f)
    BY <1>11 DEF ServerSends
  <2>2. /\ said' \in Seq(Frames) /\ Len(said') = Len(said) + 1 /\ taken <= Len(said)
        /\ \A k \in 1..taken : said'[k] = said[k] /\ lengths'[k] = lengths[k]
        /\ lengths' \in Seq(Nat) /\ Len(lengths') = Len(said') /\ LengthInv'
    BY <1>1, <1>11, MoreSaid DEF TalkInv, TypeOK, Values
  <2>3. taken \in Nat /\ Len(said) \in Nat /\ MaxFrames \in Nat
    BY <1>1, WebSocketAssumption DEF TalkInv, Values
  <2>4. TypeOK'
    BY <1>1, <2>1, <2>2, <2>3 DEF TalkInv, TypeOK
  <2>5. Values' /\ PhaseInv' /\ SatisfiedIsEarned'
    BY <1>1, <1>4, <2>1, <2>2 DEF TalkInv, Values, PhaseInv, SatisfiedIsEarned
  <2>6. ASSUME phase = "text" PROVE MessageInv'
    <3>1. CASE message.begun
      <4>1. PICK i \in 1..taken : Fragments(i)
        BY <1>1, <2>6, <3>1 DEF TalkInv, MessageInv
      <4>2. said'[i] = said[i] /\ \A k \in i..taken : said'[k] = said[k]
        BY <2>2, <4>1
      <4>3. /\ message.marked <=> \E k \in i..taken : Data(said'[k]) /\ said'[k].marked
            /\ message.size = 0 <=> \A k \in i..taken : Data(said'[k]) => said'[k].size = 0
            /\ message.size = lengths'[taken]
        <5>1. lengths'[taken] = lengths[taken]
          BY <2>2, <2>3
        <5> QED
          BY <4>1, <4>2, <5>1, Zenon DEF Fragments, Data
      <4>4. \A k \in (i + 1)..taken : Data(said'[k]) => said'[k].op = "cont" /\ ~ said'[k].fin
        <5>1. (i + 1)..taken \subseteq i..taken
          BY <2>3
        <5> QED
          BY <4>1, <4>2, <5>1, Zenon DEF Fragments
      <4>5. Fragments(i)'
        BY <2>1, <4>1, <4>2, <4>3, <4>4 DEF Fragments, Data
      <4> QED
        BY <1>1, <2>1, <2>6, <3>1, <4>5 DEF TalkInv, MessageInv
    <3>2. CASE ~ message.begun
      BY <1>1, <2>1, <2>6, <3>2 DEF TalkInv, MessageInv
    <3> QED
      BY <3>1, <3>2
  <2> QED
    BY <1>1, <2>1, <2>2, <2>4, <2>5, <2>6 DEF TalkInv
<1> QED
  BY <1>5, <1>6, <1>7, <1>8, <1>9, <1>10, <1>11 DEF Next

-----------------------------------------------------------------------------
LEMMA StepIInv == IInv /\ [Next]_vars => IInv'
  BY StepInTime, StepTalk DEF IInv

-----------------------------------------------------------------------------
(* The first message.                                                      *)

(* A well-behaved server, as far as it has been listened to.               *)
Orderly ==
  \A k \in 1..taken :
    /\ said[k].size # 127 /\ lengths[k] <= MaxMessage
    /\ \/ said[k].op \in {"ping", "pong"} /\ said[k].fin /\ said[k].size <= 125
       \/ said[k].op = IF IsOpen(said, k) THEN "cont" ELSE "text"

(* The message that has been read is not one that was asked for.           *)
Declined ==
  \A i \in 1..taken : IsMessage(said, i, taken) => KindOf(said, i, taken) \notin conf.accepts

(* When only a text is read, nothing of it is passed over: a message that  *)
(* has not begun has not begun in what was received either.                *)
DecisionInv ==
  ReadsText =>
    /\ phase \in {"dial", "handshake", "send"} => taken = 0
    /\ phase = "text" /\ ~ message.begun => \A k \in 1..taken : ~ Data(said[k])
    /\ result = "mismatch" => Declined
    /\ result = "frame" => ~ Orderly

(* Only one message ends with a frame.                                     *)
LEMMA OneMessage ==
  ASSUME NEW s, NEW n \in Nat, NEW i \in 1..n, NEW j \in 1..n, IsMessage(s, i, n), IsMessage(s, j, n)
  PROVE  i = j
<1>1. ASSUME NEW a \in 1..n, NEW b \in 1..n, IsMessage(s, a, n), IsMessage(s, b, n), a < b
      PROVE  FALSE
  <2>1. Data(s[b]) /\ s[b].op # "cont"
    BY <1>1 DEF IsMessage, Data
  <2>2. b = n \/ b \in (a + 1)..(n - 1)
    BY <1>1
  <2> QED
    BY <1>1, <2>1, <2>2 DEF IsMessage
<1>2. i < j \/ j < i \/ i = j
  OBVIOUS
<1> QED
  BY <1>1, <1>2

LEMMA SameOpen ==
  ASSUME NEW s, NEW t, NEW n \in Nat, \A k \in 1..n : s[k] = t[k], NEW k \in 1..(n + 1)
  PROVE  IsOpen(s, k) <=> IsOpen(t, k)
<1>1. \A i \in 1..(k - 1) : s[i] = t[i] /\ \A m \in i..(k - 1) : s[m] = t[m]
  OBVIOUS
<1> QED
  BY <1>1 DEF IsOpen

LEMMA WellBehavedIsOrderly ==
  ASSUME taken \in 0..Len(said), said \in Seq(Frames), WellBehaved(Received),
         \A k \in 1..taken : said[k].size # 127 /\ lengths[k] <= MaxMessage
  PROVE  Orderly
<1>1. /\ taken \in Nat /\ Len(Received) = taken
      /\ \A k \in 1..taken : Received[k] = said[k]
  BY DEF Received
<1>2. \A k \in 1..taken : IsOpen(Received, k) <=> IsOpen(said, k)
  <2> SUFFICES ASSUME NEW k \in 1..taken PROVE IsOpen(Received, k) <=> IsOpen(said, k)
    OBVIOUS
  <2>1. k \in 1..(taken + 1)
    BY <1>1
  <2> HIDE DEF Received
  <2> QED
    BY <1>1, <2>1, SameOpen
<1> QED
  BY <1>1, <1>2 DEF WellBehaved, Orderly

(* What has been read stays as it was.                                     *)
LEMMA DecisionStays ==
  ASSUME DecisionInv, UNCHANGED <<conf, taken, message>>, taken \in Nat,
         \A k \in 1..taken : said'[k] = said[k] /\ lengths'[k] = lengths[k],
         phase' \in {phase, "returned"},
         result' = result \/ result' \notin {"mismatch", "frame"}
  PROVE  DecisionInv'
<1>1. \A k \in 1..taken : IsOpen(said', k) <=> IsOpen(said, k)
  BY SameOpen
<1>2. Orderly' => Orderly
  BY <1>1 DEF Orderly
<1>3. Declined => Declined'
  BY SameMessage DEF Declined
<1>4. (\A k \in 1..taken : ~ Data(said[k])) => (\A k \in 1..taken' : ~ Data(said'[k]))
  BY DEF Data
<1>5. ReadsText' <=> ReadsText
  BY DEF ReadsText
<1> QED
  BY <1>2, <1>3, <1>4, <1>5 DEF DecisionInv

(* Before a frame is read, a message is open exactly when it has begun.    *)
LEMMA OpenIsBegun ==
  ASSUME TalkInv, DecisionInv, ReadsText, phase = "text"
  PROVE  IsOpen(said, taken + 1) <=> message.begun
<1>1. taken \in Nat /\ MessageInv
  BY DEF TalkInv, Values
<1>2. ASSUME message.begun PROVE IsOpen(said, taken + 1)
  <2>1. PICK i \in 1..taken : Fragments(i)
    BY <1>1, <1>2 DEF MessageInv
  <2>2. \A m \in i..taken : Data(said[m]) => ~ said[m].fin
    BY <1>1, <2>1 DEF Fragments
  <2> QED
    BY <1>1, <2>1, <2>2 DEF Fragments, IsOpen
<1>3. ASSUME ~ message.begun PROVE ~ IsOpen(said, taken + 1)
  BY <1>1, <1>3 DEF DecisionInv, IsOpen, Data
<1> QED
  BY <1>2, <1>3

(* A frame that fits and is not too long is no error.                      *)
LEMMA OrderlyFits ==
  ASSUME TalkInv, DecisionInv, ReadsText, phase = "text", NEW f, f = said[taken + 1],
         taken + 1 <= Len(said), f.size # 127, lengths[taken + 1] <= MaxMessage,
         \/ f.op \in {"ping", "pong"} /\ f.fin /\ f.size <= 125
         \/ f.op = IF IsOpen(said, taken + 1) THEN "cont" ELSE "text"
  PROVE  ValidFrame(f) /\ FitsMessage(f) /\ ~ TooLong(f)
<1>1. /\ taken \in Nat /\ taken + 1 \in 1..Len(said) /\ f.size \in Nat /\ LengthInv /\ MessageInv
      /\ lengths \in Seq(Nat) /\ Len(lengths) = Len(said) /\ MaxMessage \in Nat /\ MaxMessage > 127
  BY FramesAreFrames, WebSocketAssumption DEF TalkInv, Values
<1>2. CASE f.op \in {"ping", "pong"} /\ f.fin /\ f.size <= 125
  <2>1. ReadLength(f.size) = "ok" /\ f.size <= MaxMessage
    BY <1>1 , <1>2 DEF ReadLength
  <2> QED
    BY <1>2, <2>1 DEF ValidFrame, FitsMessage, TooLong
<1>3. CASE f.op = IF IsOpen(said, taken + 1) THEN "cont" ELSE "text"
  <2>1. (f.op = "cont" /\ message.begun) \/ (f.op = "text" /\ ~ message.begun)
    BY <1>3, OpenIsBegun
  <2>2. FitsMessage(f) /\ f.op \in {"text", "cont"}
    BY <2>1 DEF FitsMessage
  <2>3. message.size + f.size <= MaxMessage
    <3>1. message.size + f.size = lengths[taken + 1]
      BY <2>2, FragmentRead
    <3> QED
      BY <3>1
  <2>4. f.size <= MaxMessage /\ ~ (message.size + f.size > MaxMessage)
    <3>1. message.size \in Nat
      BY <1>1 DEF MessageInv
    <3> QED
      BY <1>1, <2>3, <3>1
  <2>5. ReadLength(f.size) = "ok"
    BY DEF ReadLength
  <2> QED
    BY <2>2, <2>4, <2>5 DEF ValidFrame, TooLong
<1> QED
  BY <1>2, <1>3

LEMMA ReadTextDecides ==
  ASSUME TalkInv, DecisionInv, ReadsText, phase = "text", UNCHANGED <<conf, said, lengths>>,
         taken' = taken + 1, taken + 1 <= Len(said), ReadText(said[taken + 1])
  PROVE  DecisionInv'
<1> DEFINE f == said[taken + 1]
<1>1. taken \in Nat /\ taken' \in Nat /\ (ReadsText' <=> ReadsText) /\ result = "none"
  BY DEF TalkInv, TypeOK, Values, ReadsText
<1>2. CASE /\ ~ (ValidFrame(f) /\ FitsMessage(f)) \/ TooLong(f)
           /\ phase' = "returned" /\ result' = "frame"
  <2>1. SUFFICES ASSUME Orderly' PROVE FALSE
    BY <1>1, <1>2 DEF DecisionInv
  <2>2. /\ f.size # 127 /\ lengths[taken + 1] <= MaxMessage
        /\ \/ f.op \in {"ping", "pong"} /\ f.fin /\ f.size <= 125
           \/ f.op = IF IsOpen(said, taken + 1) THEN "cont" ELSE "text"
    BY <1>1, <2>1 DEF Orderly
  <2> QED
    BY <1>2, <2>2, OrderlyFits
<1>3. CASE f.op \notin {"text", "cont"} /\ UNCHANGED <<phase, result, message>>
  <2>1. \A k \in 1..taken' : k \in 1..taken \/ ~ Data(said[k])
    BY <1>1, <1>3 DEF Data
  <2>2. (\A k \in 1..taken : ~ Data(said[k])) => (\A k \in 1..taken' : ~ Data(said'[k]))
    BY <2>1 DEF Data
  <2> QED
    BY <1>1, <1>3, <2>2 DEF DecisionInv
<1>4. CASE phase' = "returned" /\ result' \in {"broken", "satisfied"}
  BY <1>1, <1>4 DEF DecisionInv
<1>5. CASE message' = Extended(message, f) /\ UNCHANGED <<phase, result>>
  <2>1. message'.begun
    BY <1>5, ExtendedMessage
  <2> QED
    BY <1>1, <1>5, <2>1 DEF DecisionInv
<1>6. CASE /\ FitsMessage(f) /\ f.op \in {"text", "cont"} /\ f.fin
           /\ message' = Extended(message, f) /\ ~ Accepted(message')
           /\ phase' = "returned" /\ result' = "mismatch"
  <2>1. Kind(message'.marked, message'.size) \notin conf.accepts
    BY <1>6 DEF Accepted
  <2>2. PICK i \in 1..(taken + 1) :
          /\ IsMessage(said, i, taken + 1)
          /\ KindOf(said, i, taken + 1) =
               Kind(Extended(message, f).marked, Extended(message, f).size)
    BY <1>6, MessageRead
  <2>3. ASSUME NEW j \in 1..(taken + 1), IsMessage(said, j, taken + 1)
        PROVE  KindOf(said, j, taken + 1) \notin conf.accepts
    <3>1. i = j
      BY <1>1, <2>2, <2>3, OneMessage
    <3> QED
      BY <1>6, <2>1, <2>2, <3>1
  <2>4. Declined'
    BY <2>3 DEF Declined
  <2> QED
    BY <1>1, <1>6, <2>4 DEF DecisionInv
<1> QED
  BY <1>2, <1>3, <1>4, <1>5, <1>6, ReadTextEffect

LEMMA StepDecides ==
  ASSUME IInv, DecisionInv, [Next]_vars
  PROVE  DecisionInv'
<1>1. TalkInv /\ PhaseInv /\ Values /\ taken \in Nat /\ conf' = conf
  BY DEF IInv, TalkInv, Values, Next, vars, Dial, Handshake, Send, ReadFrame, Broken,
         DeadlinePasses, Cancelled, CloseOnContextDone, ServerSends, ServerEnds, Tick
<1>2. ReadsText' <=> ReadsText
  BY <1>1 DEF ReadsText
<1>3. SUFFICES ASSUME ReadsText PROVE DecisionInv'
  BY <1>2 DEF DecisionInv
<1>4. ~ conf.ping /\ conf.close = NoClose /\ conf.want /\ phase \notin {"pong", "close"}
  BY <1>1, <1>3 DEF ReadsText, PhaseInv
<1>5. CASE Dial \/ Handshake
  BY <1>1, <1>5, <1>2 DEF Dial, Handshake, Return, DecisionInv, TalkInv, TypeOK, talk
<1>6. CASE Send
  <2>1. ReadRest /\ UNCHANGED <<taken, said, message>> /\ phase = "send"
    BY <1>4, <1>6 DEF Send, talk
  <2>2. phase' = "text" /\ result' = result
    BY <1>4, <2>1, ReadRestEffect
  <2>3. taken = 0 /\ result = "none"
    BY <1>1, <1>3, <2>1 DEF DecisionInv, TalkInv, TypeOK
  <2> QED
    BY <2>1, <2>2, <2>3 DEF DecisionInv
<1>7. CASE ReadFrame
  BY <1>1, <1>3, <1>4, <1>7, ReadFrameEffect, ReadTextDecides
<1>8. CASE Broken \/ DeadlinePasses
  <2>1. /\ UNCHANGED <<conf, taken, message, said, lengths>>
        /\ phase' = "returned" /\ result' \in {"broken", "deadline"}
    BY <1>8 DEF Broken, DeadlinePasses, Return, talk
  <2> QED
    BY <1>1, <2>1, DecisionStays
<1>9. CASE Cancelled \/ CloseOnContextDone \/ ServerEnds \/ Tick \/ UNCHANGED vars
  <2>1. UNCHANGED <<conf, phase, taken, message, said, lengths, result>>
    BY <1>9 DEF Cancelled, CloseOnContextDone, ServerEnds, Tick, vars, talk
  <2> QED
    BY <1>1, <2>1, DecisionStays
<1>10. ASSUME NEW f \in Frames, ServerSends(f)
       PROVE  DecisionInv'
  <2>1. UNCHANGED <<conf, phase, taken, message, result>>
    BY <1>10 DEF ServerSends
  <2>2. \A k \in 1..taken : said'[k] = said[k] /\ lengths'[k] = lengths[k]
    BY <1>1, <1>10, MoreSaid DEF TalkInv, TypeOK
  <2> QED
    BY <1>1, <2>1, <2>2, DecisionStays
<1> QED
  BY <1>5, <1>6, <1>7, <1>8, <1>9, <1>10 DEF Next

LEMMA DecidesEnough ==
  ASSUME IInv, DecisionInv
  PROVE  FirstMessageDecides
<1> SUFFICES ASSUME ReadsText, WellBehaved(Received),
                    \A k \in 1..taken : said[k].size # 127 /\ lengths[k] <= MaxMessage
             PROVE  /\ result # "frame"
                    /\ result = "mismatch" =>
                         \A i \in 1..taken : IsMessage(Received, i, taken)
                                             => KindOf(Received, i, taken) \notin conf.accepts
  BY Zenon DEF FirstMessageDecides
<1>1. taken \in 0..Len(said) /\ said \in Seq(Frames) /\ taken \in Nat
  BY DEF IInv, TalkInv, TypeOK, Values
<1>2. result # "frame"
  BY <1>1, WellBehavedIsOrderly DEF DecisionInv
<1>3. \A k \in 1..taken : Received[k] = said[k]
  BY <1>1 DEF Received
<1>4. ASSUME result = "mismatch", NEW i \in 1..taken, IsMessage(Received, i, taken)
      PROVE  KindOf(Received, i, taken) \notin conf.accepts
  <2>1. Declined
    BY <1>4 DEF DecisionInv
  <2>2. IsMessage(said, i, taken) /\ KindOf(Received, i, taken) = KindOf(said, i, taken)
    BY <1>1, <1>3, <1>4, SameMessage
  <2> QED
    BY <2>1, <2>2 DEF Declined
<1> QED
  BY <1>2, <1>4

(* What the phases of a check rely on, for any server.                     *)
THEOREM Invariance == Spec => []IInv
  BY InitIInv, StepIInv, PTL DEF Spec

(* Types hold: a check that has returned has one result and has closed its *)
(* connection, and no deadline is overrun (WebSocketCondition.Check).      *)
THEOREM TypeCorrect == Spec => []TypeOK
<1>1. IInv => TypeOK
  BY DEF IInv, TalkInv
<1> QED
  BY <1>1, Invariance, PTL

(* A server that speaks in whole messages is judged by its first one:      *)
(* neither the pings around its fragments nor their number make it an      *)
(* error, and no marked message is found wanting (readWebSocketMessage).   *)
THEOREM FirstMessagesDecide == Spec => []FirstMessageDecides
<1>1. Init => DecisionInv
  BY NothingRead DEF Init, DecisionInv
<1>2. IInv /\ DecisionInv /\ [Next]_vars => DecisionInv'
  BY StepDecides
<1>3. IInv /\ DecisionInv => FirstMessageDecides
  BY DecidesEnough
<1> QED
  BY <1>1, <1>2, <1>3, Invariance, PTL DEF Spec

(* Whatever the server sends, a satisfied check has received what it was   *)
(* to wait for (websocketRoundTrip).                                       *)
THEOREM SatisfiedChecksEarned == Spec => []SatisfiedIsEarned
<1>1. IInv => SatisfiedIsEarned
  BY DEF IInv, TalkInv
<1> QED
  BY <1>1, Invariance, PTL

(* Deadlines that start again add up to a bound (setWebSocketReadDeadline, *)
(* websocketAttemptTimeout).                                               *)
THEOREM AttemptsEndInTime == Spec => []EndsInTime
<1>1. IInv => EndsInTime
  <2> SUFFICES ASSUME IInv PROVE EndsInTime
    OBVIOUS
  <2>1. /\ now \in Nat /\ deadline \in Nat /\ now <= deadline /\ DeadlineInv
        /\ phase \in {"dial", "handshake", "send", "pong", "close", "text", "returned"}
    BY DEF IInv, TalkInv, TypeOK, Values
  <2>2. Timeout \in Nat /\ ReadTimeout \in Nat
    BY WebSocketAssumption
  <2> QED
    BY <2>1, <2>2, SMT DEF DeadlineInv, EndsInTime
<1> QED
  BY <1>1, Invariance, PTL
=============================================================================

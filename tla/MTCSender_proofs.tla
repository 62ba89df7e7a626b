-------------------------- MODULE MTCSender_proofs --------------------------
(***************************************************************************)
(* Proofs of the safety properties of MTCSender for every length of a      *)
(* second, every set of frame rates and gaps and every size of the pool.   *)
(***************************************************************************)
EXTENDS MTCSender, TLAPS

(***************************************************************************)
(* Stamps.                                                                 *)
(***************************************************************************)
LEMMA StampOfTime ==
  ASSUME NEW t \in Nat
  PROVE  /\ Stamp(t) \in StampType
         /\ Stamp(t).tv_nsec < NSEC
         /\ Time(Stamp(t)) = t
<1>1. NSEC \in Nat /\ NSEC > 0
  BY SenderAssumption
<1>2. t \div NSEC \in Nat /\ t % NSEC \in 0 .. NSEC - 1
  BY <1>1
<1>3. (t \div NSEC) * NSEC + (t % NSEC) = t
  BY <1>1
<1> QED
  BY <1>1, <1>2, <1>3 DEF Stamp, StampType, Time

LEMMA TimeNat ==
  ASSUME NEW s \in StampType
  PROVE  Time(s) \in Nat
  BY SenderAssumption DEF StampType, Time

(* Carrying keeps the stamp in its type and loses no time.                 *)
LEMMA AdvanceTime ==
  ASSUME NEW s \in StampType, NEW step \in 0 .. NSEC
  PROVE  /\ Advance(s, step) \in StampType
         /\ Time(Advance(s, step)) = Time(s) + step
<1>1. NSEC \in Nat /\ NSEC > 0
  BY SenderAssumption
<1>2. s.tv_sec \in Nat /\ s.tv_nsec \in 0 .. NSEC
  BY DEF StampType
<1>3. CASE s.tv_nsec + step > NSEC
  <2>1. Advance(s, step)
          = [tv_sec |-> s.tv_sec + 1, tv_nsec |-> s.tv_nsec + step - NSEC]
    BY <1>3 DEF Advance
  <2>2. (s.tv_sec + 1) * NSEC + (s.tv_nsec + step - NSEC)
          = s.tv_sec * NSEC + s.tv_nsec + step
    BY <1>1, <1>2
  <2> QED
    BY <1>1, <1>2, <1>3, <2>1, <2>2 DEF StampType, Time
<1>4. CASE ~(s.tv_nsec + step > NSEC)
  <2>1. Advance(s, step) = [s EXCEPT !.tv_nsec = s.tv_nsec + step]
    BY <1>4 DEF Advance
  <2> QED
    BY <1>1, <1>2, <1>4, <2>1 DEF StampType, Time
<1> QED
  BY <1>3, <1>4

(* The order of stamps is the order of times, but for the two ways of      *)
(* writing a whole second.                                                 *)
LEMMA BeforeTime ==
  ASSUME NEW s \in StampType, NEW t \in StampType, t.tv_nsec < NSEC
  PROVE  /\ Before(s, t) => Time(s) <= Time(t)
         /\ Time(s) < Time(t) => Before(s, t)
<1>1. NSEC \in Nat /\ NSEC > 0
  BY SenderAssumption
<1>2. /\ s.tv_sec \in Nat /\ s.tv_nsec \in 0 .. NSEC
      /\ t.tv_sec \in Nat /\ t.tv_nsec \in 0 .. NSEC
  BY DEF StampType
<1>3. ASSUME NEW a \in Nat, NEW b \in Nat, NEW x \in 0 .. NSEC,
             NEW y \in 0 .. NSEC, a < b
      PROVE  a * NSEC + x <= b * NSEC + y
  BY <1>1, <1>3
<1>4. CASE s.tv_sec < t.tv_sec
  BY <1>2, <1>3, <1>4 DEF Before, Time
<1>5. CASE s.tv_sec = t.tv_sec
  BY <1>1, <1>2, <1>5 DEF Before, Time
<1>6. CASE t.tv_sec < s.tv_sec
  BY <1>1, <1>2, <1>3, <1>6 DEF Before, Time
<1> QED
  BY <1>2, <1>4, <1>5, <1>6

LEMMA QuarterFrameRange ==
  ASSUME NEW rate \in FrameRates
  PROVE  QuarterFrame(rate) \in 0 .. NSEC
<1>1. NSEC \in Nat /\ rate \in Nat /\ rate > 0
  BY SenderAssumption
<1> DEFINE length == NSEC \div rate
<1>2. length \in Nat /\ length <= NSEC
  BY <1>1
<1> HIDE DEF length
<1>3. length \div 4 \in 0 .. length
  BY <1>2
<1> QED
  BY <1>1, <1>2, <1>3 DEF QuarterFrame, length

(***************************************************************************)
(* The steps of the sender, with those that leave output_smpte in one.     *)
(***************************************************************************)
LeaveLoop ==
  /\ pc = "send"
  /\ Leave
  /\ \/ qf = 8 /\ broken' = broken
     \/ broken' = broken \union {block}

LEMMA NextSteps ==
  ASSUME [Next]_vars
  PROVE  \/ \E gap \in Gaps, rate \in FrameRates : StartBlock(last_when + gap, rate)
         \/ \E gap \in Gaps : SkipBlock(last_when + gap)
         \/ WriteQuarterFrame
         \/ LeaveLoop
         \/ DrainMessage
         \/ Deliver
         \/ UNCHANGED vars
  BY DEF Next, SendMtc, SendLoop, WriteFails, Drained, DrainFails, Return,
         LeaveLoop

LEMMA WhenNat ==
  ASSUME TypeOK, NEW gap \in Gaps
  PROVE  last_when + gap \in Nat /\ gap > 0
  BY SenderAssumption DEF TypeOK

(* The fields of the sender and the stamps of all messages stay within     *)
(* their types, at most NSEC nanoseconds.                                  *)
THEOREM TypeCorrect == Spec => []TypeOK
<1>1. Init => TypeOK
  <2> SUFFICES ASSUME Init PROVE TypeOK
    OBVIOUS
  <2>1. Stamp(0) \in StampType
    BY StampOfTime
  <2>2. << >> \in Seq(Messages)
    OBVIOUS
  <2> QED
    BY <2>1, <2>2, SenderAssumption DEF Init, TypeOK
<1>2. TypeOK /\ [Next]_vars => TypeOK'
  <2> SUFFICES ASSUME TypeOK, [Next]_vars PROVE TypeOK'
    OBVIOUS
  <2>1. ASSUME NEW gap \in Gaps, NEW rate \in FrameRates,
               StartBlock(last_when + gap, rate)
        PROVE  TypeOK'
    <3>1. Stamp(last_when + gap) \in StampType /\ last_when + gap \in Nat
      BY WhenNat, StampOfTime
    <3> QED
      BY <2>1, <3>1, QuarterFrameRange DEF TypeOK, StartBlock, alsaVars
  <2>2. ASSUME NEW gap \in Gaps, SkipBlock(last_when + gap) PROVE TypeOK'
    <3>1. Stamp(last_when + gap) \in StampType /\ last_when + gap \in Nat
      BY WhenNat, StampOfTime
    <3> QED
      BY <2>2, <3>1 DEF TypeOK, SkipBlock, RememberLast, alsaVars
  <2>3. CASE WriteQuarterFrame
    <3>1. stamp' \in StampType
      BY <2>3, AdvanceTime DEF TypeOK, WriteQuarterFrame
    <3>2. block_end' \in Nat
      BY <2>3, <3>1, TimeNat DEF WriteQuarterFrame
    <3>3. [at |-> stamp, block |-> block, piece |-> qf] \in Messages
      BY <2>3 DEF TypeOK, WriteQuarterFrame, Messages
    <3>4. output_buffer' \in Seq(Messages)
      BY <2>3, <3>3 DEF TypeOK, WriteQuarterFrame
    <3> QED
      BY <2>3, <3>1, <3>2, <3>4 DEF TypeOK, WriteQuarterFrame
  <2>4. CASE LeaveLoop
    <3>1. broken' \subseteq Nat
      BY <2>4 DEF TypeOK, LeaveLoop
    <3> QED
      BY <2>4, <3>1 DEF TypeOK, LeaveLoop, Leave, alsaVars
  <2>5. CASE DrainMessage
    <3>1. Head(output_buffer) \in Messages /\ Tail(output_buffer) \in Seq(Messages)
      BY <2>5 DEF TypeOK, DrainMessage
    <3> QED
      BY <2>5, <3>1 DEF TypeOK, DrainMessage, senderVars, historyVars
  <2>6. CASE Deliver
    <3>1. PICK m \in pool :
            /\ pool' = pool \ {m}
            /\ now' = IF now < Time(m.at) THEN Time(m.at) ELSE now
            /\ heard' = [block |-> m.block, piece |-> m.piece]
            /\ UNCHANGED <<senderVars, output_buffer, last_when, block,
                           block_end, skipped, broken>>
      BY <2>6 DEF Deliver
    <3>2. m.at \in StampType /\ m.block \in Nat /\ m.piece \in 0 .. 7
      BY DEF TypeOK, Messages
    <3>3. now' \in Nat
      BY <3>1, <3>2, TimeNat DEF TypeOK
    <3> QED
      BY <3>1, <3>2, <3>3 DEF TypeOK, senderVars
  <2>7. CASE UNCHANGED vars
    BY <2>7 DEF vars, senderVars, alsaVars, historyVars, TypeOK
  <2> QED
    BY <2>1, <2>2, <2>3, <2>4, <2>5, <2>6, <2>7, NextSteps
<1> QED
  BY <1>1, <1>2, PTL DEF Spec

(***************************************************************************)
(* The spacing of quarter frames.                                          *)
(***************************************************************************)
LEMMA SpacingStep == TypeOK /\ EvenlySpaced /\ [Next]_vars => EvenlySpaced'
<1> SUFFICES ASSUME TypeOK, EvenlySpaced, [Next]_vars PROVE EvenlySpaced'
  OBVIOUS
<1>1. ASSUME NEW gap \in Gaps, NEW rate \in FrameRates,
             StartBlock(last_when + gap, rate)
      PROVE  EvenlySpaced'
  <2>1. Time(Stamp(last_when + gap)) = last_when + gap /\ last_when + gap \in Nat
    BY WhenNat, StampOfTime
  <2>2. /\ stamp' = Stamp(last_when + gap) /\ last_when' = last_when + gap
        /\ qf' = 0 /\ time_step' = QuarterFrame(rate)
    BY <1>1 DEF StartBlock
  <2> QED
    BY <2>1, <2>2, QuarterFrameRange DEF EvenlySpaced, Time
<1>2. ASSUME NEW gap \in Gaps, SkipBlock(last_when + gap) PROVE EvenlySpaced'
  BY <1>2 DEF EvenlySpaced, SkipBlock
<1>3. CASE WriteQuarterFrame
  <2>1. /\ stamp' = Advance(stamp, time_step) /\ qf' = qf + 1
        /\ pc = "send" /\ UNCHANGED <<last_when, time_step>>
    BY <1>3 DEF WriteQuarterFrame
  <2>2. Time(stamp)' = Time(stamp) + time_step
    BY <2>1, AdvanceTime DEF TypeOK, Time
  <2>3. qf \in Int /\ time_step \in Int /\ last_when \in Int
    BY SenderAssumption DEF TypeOK
  <2>4. Time(stamp) = last_when + qf * time_step
    BY <2>1 DEF EvenlySpaced
  <2>5. (qf + 1) * time_step = qf * time_step + time_step
    BY <2>3
  <2> QED
    BY <2>1, <2>2, <2>3, <2>4, <2>5 DEF EvenlySpaced
<1>4. CASE LeaveLoop
  BY <1>4 DEF EvenlySpaced, LeaveLoop, Leave
<1>5. CASE DrainMessage
  BY <1>5 DEF EvenlySpaced, DrainMessage, senderVars, historyVars, Time
<1>6. CASE Deliver
  BY <1>6 DEF EvenlySpaced, Deliver, senderVars, Time
<1>7. CASE UNCHANGED vars
  BY <1>7 DEF vars, senderVars, historyVars, EvenlySpaced, Time
<1> QED
  BY <1>1, <1>2, <1>3, <1>4, <1>5, <1>6, <1>7, NextSteps

(* Quarter frame qf of a timecode is due qf steps after its stamp, however *)
(* the seconds carry.                                                      *)
THEOREM QuarterFramesEvenlySpaced == Spec => []EvenlySpaced
<1>1. Init => EvenlySpaced
  BY DEF Init, EvenlySpaced
<1> QED
  BY <1>1, SpacingStep, TypeCorrect, PTL DEF Spec

(***************************************************************************)
(* Skipping.  A skipped timecode leaves its own stamp behind, and the next *)
(* one is later.                                                           *)
(***************************************************************************)
SkipInv ==
  \/ skipped = 0
  \/ skipped = 1 /\ pc = "idle" /\ Time(last_timestamp) = last_when

LEMMA SkipStep == TypeOK /\ SkipInv /\ [Next]_vars => SkipInv'
<1> SUFFICES ASSUME TypeOK, SkipInv, [Next]_vars PROVE SkipInv'
  OBVIOUS
<1>1. ASSUME NEW gap \in Gaps, NEW rate \in FrameRates,
             StartBlock(last_when + gap, rate)
      PROVE  SkipInv'
  BY <1>1 DEF SkipInv, StartBlock
<1>2. ASSUME NEW gap \in Gaps, SkipBlock(last_when + gap) PROVE SkipInv'
  <2> DEFINE s == Stamp(last_when + gap)
  <2>1. /\ s \in StampType /\ s.tv_nsec < NSEC /\ Time(s) = last_when + gap
        /\ gap \in Nat /\ gap > 0
    BY WhenNat, StampOfTime, SenderAssumption
  <2>2. /\ ~Before(last_timestamp, s) /\ last_timestamp' = s /\ pc = "idle"
        /\ pc' = pc /\ last_when' = last_when + gap /\ skipped' = skipped + 1
    BY <1>2 DEF SkipBlock, Due, RememberLast
  <2>3. Time(last_timestamp)' = last_when'
    BY <2>1, <2>2 DEF Time
  <2> HIDE DEF s
  <2>4. ~(Time(last_timestamp) < Time(s))
    BY <2>1, <2>2, BeforeTime DEF TypeOK
  <2>5. skipped = 0
    BY <2>1, <2>4 DEF SkipInv, TypeOK
  <2> QED
    BY <2>2, <2>3, <2>5 DEF SkipInv
<1>3. CASE WriteQuarterFrame
  BY <1>3 DEF SkipInv, WriteQuarterFrame
<1>4. CASE LeaveLoop
  BY <1>4 DEF SkipInv, LeaveLoop, Leave
<1>5. CASE DrainMessage
  BY <1>5 DEF SkipInv, DrainMessage, senderVars, historyVars
<1>6. CASE Deliver
  BY <1>6 DEF SkipInv, Deliver, senderVars, Time
<1>7. CASE UNCHANGED vars
  BY <1>7 DEF vars, senderVars, historyVars, SkipInv, Time
<1> QED
  BY <1>1, <1>2, <1>3, <1>4, <1>5, <1>6, <1>7, NextSteps

(* Of two successive timecodes at most one is skipped.                     *)
THEOREM AtMostOneSkipped == Spec => []NeverSkipsTwo
<1>1. Init => SkipInv
  BY DEF Init, SkipInv
<1>2. SkipInv => NeverSkipsTwo
  BY DEF SkipInv, NeverSkipsTwo
<1> QED
  BY <1>1, <1>2, SkipStep, TypeCorrect, PTL DEF Spec

(***************************************************************************)
(* Overlap.  After a timecode was sent, last_timestamp is the end of its   *)
(* quarter frames; after one was skipped, the block in progress ends       *)
(* before the next one, because a block is no longer than two gaps.        *)
(***************************************************************************)
SendInv ==
  /\ block_end <= Time(stamp)
  /\ \A g \in Gaps : 4 * time_step <= g

IdleInv ==
  \/ /\ block_end <= Time(last_timestamp)
     /\ \A g, h \in Gaps : block_end <= last_when + g + h
  \/ /\ Time(last_timestamp) = last_when
     /\ \A g \in Gaps : block_end <= last_when + g

BlockInv ==
  /\ pc = "send" => SendInv
  /\ pc = "idle" => IdleInv

(* What starts a block comes after the end of the one before it.           *)
LEMMA StartAfterEnd ==
  ASSUME TypeOK, BlockInv, NEW gap \in Gaps, NEW rate \in FrameRates,
         StartBlock(last_when + gap, rate)
  PROVE  block_end <= last_when + gap
<1> DEFINE s == Stamp(last_when + gap)
<1>1. /\ s \in StampType /\ s.tv_nsec < NSEC /\ Time(s) = last_when + gap
      /\ last_when + gap \in Nat
  BY WhenNat, StampOfTime
<1>2. Before(last_timestamp, s) /\ IdleInv
  BY DEF StartBlock, Due, BlockInv
<1> HIDE DEF s
<1>3. Time(last_timestamp) <= Time(s) /\ Time(last_timestamp) \in Nat
  BY <1>1, <1>2, BeforeTime, TimeNat DEF TypeOK
<1> QED
  BY <1>1, <1>2, <1>3 DEF IdleInv, TypeOK

LEMMA BlockStep ==
  ASSUME WideGaps
  PROVE  TypeOK /\ EvenlySpaced /\ BlockInv /\ [Next]_vars => BlockInv'
<1> SUFFICES ASSUME TypeOK, EvenlySpaced, BlockInv, [Next]_vars PROVE BlockInv'
  OBVIOUS
<1>1. ASSUME NEW gap \in Gaps, NEW rate \in FrameRates,
             StartBlock(last_when + gap, rate)
      PROVE  BlockInv'
  <2>1. /\ stamp' = Stamp(last_when + gap) /\ time_step' = QuarterFrame(rate)
        /\ pc' = "send" /\ block_end' = block_end
    BY <1>1 DEF StartBlock
  <2>2. Time(stamp)' = last_when + gap
    BY <2>1, WhenNat, StampOfTime DEF Time
  <2>3. \A g \in Gaps : 4 * time_step' <= g
    BY <2>1 DEF WideGaps
  <2> QED
    BY <1>1, <2>1, <2>2, <2>3, StartAfterEnd DEF BlockInv, SendInv
<1>2. ASSUME NEW gap \in Gaps, SkipBlock(last_when + gap) PROVE BlockInv'
  <2>1. /\ pc' = "idle" /\ last_timestamp' = Stamp(last_when + gap)
        /\ last_when' = last_when + gap /\ block_end' = block_end /\ IdleInv
    BY <1>2 DEF SkipBlock, RememberLast, BlockInv
  <2>2. Time(last_timestamp)' = last_when'
    BY <2>1, WhenNat, StampOfTime DEF Time
  <2>3. ASSUME NEW g \in Gaps PROVE block_end' <= last_when' + g
    <3>1. g \in Nat /\ gap \in Nat
      BY SenderAssumption
    <3> QED
      BY <2>1, <3>1 DEF IdleInv, TypeOK
  <2> QED
    BY <2>1, <2>2, <2>3 DEF BlockInv, IdleInv
<1>3. CASE WriteQuarterFrame
  <2>1. pc' = "send" /\ block_end' = Time(stamp)' /\ time_step' = time_step /\ SendInv
    BY <1>3 DEF WriteQuarterFrame, BlockInv, Time
  <2>2. block_end' \in Nat
    <3>1. stamp' \in StampType
      BY <1>3, AdvanceTime DEF WriteQuarterFrame, TypeOK
    <3> QED
      BY <1>3, <3>1, TimeNat DEF WriteQuarterFrame
  <2> QED
    BY <2>1, <2>2 DEF BlockInv, SendInv
<1>4. CASE LeaveLoop
  <2>1. /\ pc' = "idle" /\ last_timestamp' = stamp
        /\ UNCHANGED <<block_end, last_when>> /\ SendInv
    BY <1>4 DEF LeaveLoop, Leave, BlockInv
  <2>2. Time(last_timestamp)' = Time(stamp)
    BY <2>1 DEF Time
  <2>3. Time(stamp) <= last_when + 8 * time_step
    <3>1. qf \in 0 .. 8 /\ time_step \in Nat /\ last_when \in Nat
      BY SenderAssumption DEF TypeOK
    <3>2. qf * time_step <= 8 * time_step
      BY <3>1
    <3> QED
      BY <1>4, <3>1, <3>2 DEF EvenlySpaced, LeaveLoop
  <2>4. ASSUME NEW g \in Gaps, NEW h \in Gaps
        PROVE  block_end <= last_when + g + h
    <3>1. /\ g \in Nat /\ h \in Nat /\ time_step \in Nat /\ last_when \in Nat
          /\ block_end \in Nat /\ Time(stamp) \in Nat
      BY SenderAssumption, TimeNat DEF TypeOK
    <3>2. 4 * time_step <= g /\ 4 * time_step <= h /\ block_end <= Time(stamp)
      BY <2>1 DEF SendInv
    <3> QED
      BY <2>3, <3>1, <3>2
  <2> QED
    BY <2>1, <2>2, <2>4 DEF BlockInv, IdleInv, SendInv
<1>5. CASE DrainMessage
  BY <1>5 DEF BlockInv, SendInv, IdleInv, DrainMessage, senderVars, historyVars,
              Time
<1>6. CASE Deliver
  BY <1>6 DEF BlockInv, SendInv, IdleInv, Deliver, senderVars, Time
<1>7. CASE UNCHANGED vars
  BY <1>7 DEF vars, senderVars, historyVars, BlockInv, SendInv, IdleInv, Time
<1> QED
  BY <1>1, <1>2, <1>3, <1>4, <1>5, <1>6, <1>7, NextSteps

LEMMA BlockInit == Init => BlockInv
<1> SUFFICES ASSUME Init PROVE BlockInv
  OBVIOUS
<1>1. Time(last_timestamp) = 0
  BY StampOfTime DEF Init
<1>2. \A g \in Gaps : g \in Nat
  BY SenderAssumption
<1> QED
  BY <1>1, <1>2 DEF Init, BlockInv, IdleInv

(* A timecode is sent only when the quarter frames of the one before it    *)
(* are over, if timecodes are announced at least half a block apart.       *)
THEOREM BlocksDoNotOverlap ==
  ASSUME WideGaps
  PROVE  Spec => NoOverlap
<1>1. TypeOK /\ BlockInv /\ [Next]_vars
        => [block' # block => block_end <= last_when']_vars
  <2> SUFFICES ASSUME TypeOK, BlockInv, [Next]_vars, block' # block
               PROVE  block_end <= last_when'
    OBVIOUS
  <2>1. PICK gap \in Gaps, rate \in FrameRates : StartBlock(last_when + gap, rate)
    BY NextSteps
       DEF SkipBlock, WriteQuarterFrame, LeaveLoop, Leave, DrainMessage,
           Deliver, vars, historyVars
  <2> QED
    BY <2>1, StartAfterEnd DEF StartBlock
<1> QED
  BY <1>1, BlockInit, BlockStep, SpacingStep, QuarterFramesEvenlySpaced,
     TypeCorrect, PTL
     DEF Spec, NoOverlap

(***************************************************************************)
(* What the listener hears.  A message in flight is in the output buffer   *)
(* or in the pool, and x precedes m if it is the quarter frame before m in *)
(* the same timecode.  Messages in flight are due in the order in which    *)
(* they were written, and of a timecode in flight no quarter frame is      *)
(* missing behind the one heard last, unless it is broken.                 *)
(***************************************************************************)
Queued == {output_buffer[i] : i \in 1 .. Len(output_buffer)}
InFlight == pool \union Queued

Key(m) == 8 * m.block + m.piece
NextKey == 8 * block + (IF pc = "send" THEN qf ELSE 8)

Earlier(m, n) == Key(m) < Key(n) /\ ~Before(n.at, m.at)
Precedes(x, m) == x.block = m.block /\ x.piece + 1 = m.piece

InOrder ==
  /\ \A m, n \in pool : m = n \/ Earlier(m, n) \/ Earlier(n, m)
  /\ \A m \in pool, n \in Queued : Earlier(m, n)
  /\ \A i, j \in 1 .. Len(output_buffer) :
       i < j => Earlier(output_buffer[i], output_buffer[j])

Unheard ==
  /\ Key(heard) < NextKey
  /\ \A m \in InFlight :
       /\ Key(heard) < Key(m) /\ Key(m) < NextKey
       /\ Time(m.at) <= block_end
       /\ pc = "send" => ~Before(stamp, m.at)

NoneMissingBefore ==
  /\ \A m \in InFlight :
       m.piece > 0 => \E x \in InFlight \union {heard} : Precedes(x, m)
  /\ pc = "send" /\ qf > 0
       => \E x \in InFlight \union {heard} : x.block = block /\ x.piece + 1 = qf

NoneMissingAfter ==
  \A x \in InFlight \union {heard} :
    x.piece < 7 /\ x.block \notin broken
      => \/ \E m \in InFlight : Precedes(x, m)
         \/ pc = "send" /\ x.block = block /\ x.piece + 1 = qf

ListenerInv == InOrder /\ Unheard /\ NoneMissingBefore /\ NoneMissingAfter

(* Stamps are ordered.                                                     *)
LEMMA StampOrder ==
  ASSUME NEW s \in StampType, NEW t \in StampType, NEW u \in StampType
  PROVE  /\ ~Before(s, s)
         /\ ~Before(t, s) /\ ~Before(u, t) => ~Before(u, s)
         /\ t.tv_nsec < NSEC /\ Time(s) <= Time(t) => ~Before(t, s)
<1>1. /\ NSEC \in Nat /\ NSEC > 0
      /\ s.tv_sec \in Nat /\ s.tv_nsec \in 0 .. NSEC
      /\ t.tv_sec \in Nat /\ t.tv_nsec \in 0 .. NSEC
      /\ u.tv_sec \in Nat /\ u.tv_nsec \in 0 .. NSEC
  BY SenderAssumption DEF StampType
<1>2. ~Before(s, s) /\ (~Before(t, s) /\ ~Before(u, t) => ~Before(u, s))
  BY <1>1 DEF Before
<1>3. ASSUME t.tv_nsec < NSEC, Time(s) <= Time(t), Before(t, s) PROVE FALSE
  <2>1. CASE t.tv_sec < s.tv_sec
    <3>1. (t.tv_sec + 1) * NSEC <= s.tv_sec * NSEC
      BY <1>1, <2>1
    <3>2. (t.tv_sec + 1) * NSEC = t.tv_sec * NSEC + NSEC
      BY <1>1
    <3> QED
      BY <1>1, <1>3, <3>1, <3>2 DEF Time
  <2>2. CASE t.tv_sec = s.tv_sec /\ t.tv_nsec < s.tv_nsec
    BY <1>1, <1>3, <2>2 DEF Time
  <2> QED
    BY <1>3, <2>1, <2>2 DEF Before
<1> QED
  BY <1>2, <1>3

LEMMA AdvanceLater ==
  ASSUME NEW s \in StampType, NEW step \in 0 .. NSEC
  PROVE  ~Before(Advance(s, step), s)
<1>1. /\ NSEC \in Nat /\ s.tv_sec \in Nat /\ s.tv_nsec \in 0 .. NSEC
      /\ step \in Nat
  BY SenderAssumption DEF StampType
<1>2. CASE s.tv_nsec + step > NSEC
  BY <1>1, <1>2 DEF Advance, Before
<1>3. CASE ~(s.tv_nsec + step > NSEC)
  <2>1. Advance(s, step) = [s EXCEPT !.tv_nsec = s.tv_nsec + step]
    BY <1>3 DEF Advance
  <2>2. /\ Advance(s, step).tv_sec = s.tv_sec
        /\ Advance(s, step).tv_nsec = s.tv_nsec + step
    BY <2>1 DEF StampType
  <2> QED
    BY <1>1, <2>2 DEF Before
<1> QED
  BY <1>2, <1>3

(* Messages in flight and their keys.                                      *)
LEMMA MessageTypes ==
  ASSUME TypeOK
  PROVE  /\ \A m \in InFlight :
              m.at \in StampType /\ m.block \in Nat /\ m.piece \in 0 .. 7
         /\ heard.block \in Nat /\ heard.piece \in 0 .. 7
         /\ \A m \in InFlight \union {heard} :
              m.block \in Nat /\ m.piece \in 0 .. 7 /\ Key(m) \in Nat
         /\ NextKey \in Nat
         /\ \A i \in 1 .. Len(output_buffer) : output_buffer[i] \in Queued
<1>1. \A m \in InFlight : m \in Messages
  BY DEF TypeOK, InFlight, Queued
<1>2. \A m \in InFlight :
        m.at \in StampType /\ m.block \in Nat /\ m.piece \in 0 .. 7
  BY <1>1 DEF Messages
<1>3. heard.block \in Nat /\ heard.piece \in 0 .. 7
  BY DEF TypeOK
<1>4. NextKey \in Nat
  BY DEF TypeOK, NextKey
<1>5. \A m \in InFlight \union {heard} :
        m.block \in Nat /\ m.piece \in 0 .. 7 /\ Key(m) \in Nat
  <2> TAKE m \in InFlight \union {heard}
  <2>1. m.block \in Nat /\ m.piece \in 0 .. 7
    BY <1>2, <1>3
  <2> QED
    BY <2>1 DEF Key
<1> QED
  BY <1>2, <1>3, <1>4, <1>5 DEF Queued

LEMMA DrainQueue ==
  ASSUME TypeOK, DrainMessage
  PROVE  /\ Head(output_buffer) = output_buffer[1]
         /\ 1 \in 1 .. Len(output_buffer)
         /\ \A i \in 1 .. Len(output_buffer') :
              /\ i + 1 \in 1 .. Len(output_buffer)
              /\ output_buffer'[i] = output_buffer[i + 1]
         /\ InFlight' = InFlight
<1>1. output_buffer \in Seq(Messages) /\ output_buffer # << >>
  BY DEF TypeOK, DrainMessage
<1>2. output_buffer' = Tail(output_buffer) /\ pool' = pool \union {Head(output_buffer)}
  BY DEF DrainMessage
<1>3. Len(output_buffer) \in Nat /\ Len(output_buffer) > 0
  BY <1>1
<1>4. Head(output_buffer) = output_buffer[1]
  BY <1>1
<1>5. /\ Len(output_buffer') = Len(output_buffer) - 1
      /\ \A i \in 1 .. Len(output_buffer') : output_buffer'[i] = output_buffer[i + 1]
  BY <1>1, <1>2
<1>6. Queued = {output_buffer[1]} \union Queued'
  <2>1. ASSUME NEW i \in 1 .. Len(output_buffer), i # 1
        PROVE  output_buffer[i] \in Queued'
    <3>1. i - 1 \in 1 .. Len(output_buffer') /\ (i - 1) + 1 = i
      BY <1>3, <1>5, <2>1
    <3>2. output_buffer'[i - 1] = output_buffer[i]
      BY <1>5, <3>1
    <3> QED
      BY <3>1, <3>2 DEF Queued
  <2>2. ASSUME NEW i \in 1 .. Len(output_buffer')
        PROVE  output_buffer'[i] \in Queued
    <3>1. i + 1 \in 1 .. Len(output_buffer)
      BY <1>3, <1>5
    <3> QED
      BY <1>5, <3>1 DEF Queued
  <2>3. output_buffer[1] \in Queued
    BY <1>3 DEF Queued
  <2> QED
    BY <2>1, <2>2, <2>3 DEF Queued
<1> QED
  BY <1>2, <1>3, <1>4, <1>5, <1>6 DEF InFlight

Written == [at |-> stamp, block |-> block, piece |-> qf]

LEMMA WriteQueue ==
  ASSUME TypeOK, WriteQuarterFrame
  PROVE  /\ Len(output_buffer') = Len(output_buffer) + 1
         /\ Len(output_buffer) \in Nat
         /\ \A i \in 1 .. Len(output_buffer) : output_buffer'[i] = output_buffer[i]
         /\ output_buffer'[Len(output_buffer) + 1] = Written
         /\ Queued' = Queued \union {Written}
         /\ InFlight' = InFlight \union {Written}
<1>1. output_buffer \in Seq(Messages) /\ output_buffer' = Append(output_buffer, Written)
  BY DEF TypeOK, WriteQuarterFrame, Written
<1>2. /\ Len(output_buffer') = Len(output_buffer) + 1
      /\ Len(output_buffer) \in Nat
      /\ \A i \in 1 .. Len(output_buffer) : output_buffer'[i] = output_buffer[i]
      /\ output_buffer'[Len(output_buffer) + 1] = Written
  BY <1>1
<1>3. Queued' = Queued \union {Written}
  BY <1>2 DEF Queued
<1>4. pool' = pool
  BY DEF WriteQuarterFrame
<1> QED
  BY <1>2, <1>3, <1>4 DEF InFlight

(* The message due first is the next one a listener needs.                 *)
LEMMA DueFirstIsNext ==
  ASSUME TypeOK, ListenerInv, NEW m \in pool, DueFirst(m)
  PROVE  /\ \A n \in InFlight : n = m \/ Earlier(m, n)
         /\ \/ Precedes(heard, m)
            \/ /\ m.piece = 0 /\ heard.block < m.block
               /\ heard.piece = 7 \/ heard.block \in broken
<1>1. /\ m \in InFlight /\ m.block \in Nat /\ m.piece \in 0 .. 7
      /\ heard.block \in Nat /\ heard.piece \in 0 .. 7
  BY MessageTypes DEF InFlight
<1>2. ASSUME NEW n \in pool, n # m PROVE Earlier(m, n)
  <2>1. n.block \in Nat /\ n.piece \in 0 .. 7
    BY MessageTypes DEF InFlight
  <2>2. Earlier(m, n) \/ Earlier(n, m)
    BY <1>2 DEF ListenerInv, InOrder
  <2>3. ASSUME Earlier(n, m) PROVE FALSE
    <3>1. ~Before(m.at, n.at) /\ Key(n) < Key(m)
      BY <2>3 DEF Earlier
    <3>2. m.block < n.block \/ (m.block = n.block /\ m.piece < n.piece)
      BY <1>2, <3>1 DEF DueFirst
    <3> QED
      BY <1>1, <2>1, <3>1, <3>2 DEF Key
  <2> QED
    BY <2>2, <2>3
<1>3. \A n \in InFlight : n = m \/ Earlier(m, n)
  BY <1>2 DEF InFlight, ListenerInv, InOrder
<1>4. Key(heard) < Key(m) /\ Key(m) < NextKey
  BY <1>1 DEF ListenerInv, Unheard
<1>5. CASE m.piece > 0
  <2>1. PICK x \in InFlight \union {heard} : Precedes(x, m)
    BY <1>1, <1>5 DEF ListenerInv, NoneMissingBefore
  <2>2. x.block \in Nat /\ x.piece \in 0 .. 7
    BY MessageTypes
  <2>3. Key(x) < Key(m) /\ x # m
    BY <1>1, <2>1, <2>2 DEF Precedes, Key
  <2>4. x \notin InFlight
    <3> SUFFICES ASSUME x \in InFlight PROVE FALSE
      OBVIOUS
    <3>1. Key(m) < Key(x)
      BY <1>3, <2>3 DEF Earlier
    <3> QED
      BY <1>1, <2>2, <2>3, <3>1 DEF Key
  <2> QED
    BY <1>3, <2>1, <2>4
<1>6. CASE m.piece = 0
  <2>1. heard.block < m.block
    BY <1>1, <1>4, <1>6 DEF Key
  <2>2. ASSUME heard.piece < 7, heard.block \notin broken PROVE FALSE
    <3>1. \/ \E n \in InFlight : Precedes(heard, n)
          \/ pc = "send" /\ heard.block = block /\ heard.piece + 1 = qf
      BY <2>2 DEF ListenerInv, NoneMissingAfter
    <3>2. ASSUME NEW n \in InFlight, Precedes(heard, n) PROVE FALSE
      <4>1. n.block \in Nat /\ n.piece \in 0 .. 7
        BY MessageTypes
      <4>2. n = m \/ Key(m) < Key(n)
        BY <1>3 DEF Earlier
      <4> QED
        BY <1>1, <1>6, <2>1, <3>2, <4>1, <4>2 DEF Precedes, Key
    <3>3. ASSUME pc = "send", heard.block = block, heard.piece + 1 = qf PROVE FALSE
      BY <1>1, <1>4, <2>1, <2>2, <3>3 DEF NextKey, Key
    <3> QED
      BY <3>1, <3>2, <3>3
  <2> QED
    BY <1>1, <1>3, <1>6, <2>1, <2>2
<1> QED
  BY <1>1, <1>5, <1>6

(* The steps that change no message in flight and nothing a listener heard.*)
LEMMA KeepInFlight ==
  ASSUME ListenerInv, UNCHANGED <<pool, output_buffer, heard>>
  PROVE  InFlight' = InFlight /\ InOrder'
  BY DEF InFlight, Queued, InOrder, Earlier, Key, ListenerInv

LEMMA StartListener ==
  ASSUME TypeOK, BlockInv, ListenerInv, NEW gap \in Gaps, NEW rate \in FrameRates,
         StartBlock(last_when + gap, rate)
  PROVE  ListenerInv'
<1>1. /\ pc = "idle" /\ pc' = "send" /\ stamp' = Stamp(last_when + gap)
      /\ qf' = 0 /\ block' = block + 1
      /\ UNCHANGED <<pool, output_buffer, block_end, broken, heard>>
  BY DEF StartBlock, alsaVars
<1>2. InFlight' = InFlight /\ InOrder'
  BY <1>1, KeepInFlight
<1>3. NextKey' = NextKey
  BY <1>1 DEF NextKey, TypeOK
<1>4. Unheard'
  <2>1. ASSUME NEW m \in InFlight PROVE ~Before(stamp', m.at)
    <3>1. /\ Stamp(last_when + gap) \in StampType
          /\ Stamp(last_when + gap).tv_nsec < NSEC
          /\ Time(Stamp(last_when + gap)) = last_when + gap
          /\ last_when + gap \in Nat
      BY WhenNat, StampOfTime
    <3>2. m.at \in StampType /\ Time(m.at) \in Nat
      BY MessageTypes, TimeNat
    <3>3. Time(m.at) <= block_end /\ block_end <= last_when + gap
      BY StartAfterEnd DEF ListenerInv, Unheard
    <3>4. block_end \in Nat
      BY DEF TypeOK
    <3>5. Time(m.at) <= Time(Stamp(last_when + gap))
      BY <3>1, <3>2, <3>3, <3>4
    <3> QED
      BY <1>1, <3>1, <3>2, <3>5, StampOrder
  <2> QED
    BY <1>1, <1>2, <1>3, <2>1 DEF ListenerInv, Unheard, Key, Time
<1>5. NoneMissingBefore'
  BY <1>1, <1>2 DEF ListenerInv, NoneMissingBefore, Precedes
<1>6. NoneMissingAfter'
  BY <1>1, <1>2 DEF ListenerInv, NoneMissingAfter, Precedes
<1> QED
  BY <1>2, <1>4, <1>5, <1>6 DEF ListenerInv

LEMMA LeaveListener ==
  ASSUME TypeOK, ListenerInv, LeaveLoop
  PROVE  ListenerInv'
<1>1. /\ pc = "send" /\ pc' = "idle" /\ broken \subseteq broken'
      /\ block \in broken' \/ qf = 8
      /\ UNCHANGED <<pool, output_buffer, block_end, block, heard>>
  BY DEF LeaveLoop, Leave, alsaVars
<1>2. InFlight' = InFlight /\ InOrder'
  BY <1>1, KeepInFlight
<1>3. NextKey <= NextKey' /\ NextKey \in Nat /\ NextKey' \in Nat
  BY <1>1 DEF NextKey, TypeOK
<1>4. Unheard'
  <2>1. ASSUME NEW m \in InFlight \union {heard}, Key(m) < NextKey
        PROVE  Key(m) < NextKey'
    BY <1>3, <2>1, MessageTypes
  <2>2. \A m \in InFlight \union {heard} : Key(m) < NextKey'
    BY <2>1 DEF ListenerInv, Unheard
  <2> QED
    BY <1>1, <1>2, <2>2 DEF ListenerInv, Unheard, Key, Time
<1>5. NoneMissingBefore'
  BY <1>1, <1>2 DEF ListenerInv, NoneMissingBefore, Precedes
<1>6. NoneMissingAfter'
  <2> SUFFICES ASSUME NEW x \in InFlight \union {heard},
                      x.piece < 7, x.block \notin broken'
               PROVE  \E m \in InFlight : Precedes(x, m)
    BY <1>1, <1>2 DEF NoneMissingAfter, Precedes
  <2>1. \/ \E m \in InFlight : Precedes(x, m)
        \/ x.block = block /\ x.piece + 1 = qf
    BY <1>1 DEF ListenerInv, NoneMissingAfter
  <2>2. ~(x.block = block /\ x.piece + 1 = qf)
    BY <1>1, MessageTypes
  <2> QED
    BY <2>1, <2>2
<1> QED
  BY <1>2, <1>4, <1>5, <1>6 DEF ListenerInv

LEMMA DrainListener ==
  ASSUME TypeOK, ListenerInv, DrainMessage
  PROVE  ListenerInv'
<1> DEFINE head == Head(output_buffer)
<1>1. /\ pool' = pool \union {head} /\ head = output_buffer[1]
      /\ 1 \in 1 .. Len(output_buffer) /\ InFlight' = InFlight
      /\ UNCHANGED <<pc, stamp, qf, block, block_end, broken, heard>>
  BY DrainQueue DEF DrainMessage, senderVars, historyVars
<1>2. \A i \in 1 .. Len(output_buffer') :
        i + 1 \in 1 .. Len(output_buffer) /\ output_buffer'[i] = output_buffer[i + 1]
  BY DrainQueue
<1> HIDE DEF head
<1>3. head \in Queued
  BY <1>1 DEF Queued
<1>4. InOrder'
  <2>1. ASSUME NEW m \in pool', NEW n \in pool'
        PROVE  m = n \/ Earlier(m, n) \/ Earlier(n, m)
    BY <1>1, <1>3, <2>1 DEF ListenerInv, InOrder
  <2>2. ASSUME NEW m \in pool', NEW i \in 1 .. Len(output_buffer')
        PROVE  Earlier(m, output_buffer'[i])
    <3>1. /\ i + 1 \in 1 .. Len(output_buffer) /\ 1 < i + 1
          /\ output_buffer'[i] = output_buffer[i + 1]
      BY <1>2
    <3>2. output_buffer[i + 1] \in Queued
      BY <3>1 DEF Queued
    <3>3. Earlier(head, output_buffer[i + 1])
      BY <1>1, <3>1 DEF ListenerInv, InOrder
    <3> QED
      BY <1>1, <3>1, <3>2, <3>3 DEF ListenerInv, InOrder
  <2>3. ASSUME NEW i \in 1 .. Len(output_buffer'), NEW j \in 1 .. Len(output_buffer'),
               i < j
        PROVE  Earlier(output_buffer'[i], output_buffer'[j])
    BY <1>2, <2>3 DEF ListenerInv, InOrder
  <2> QED
    BY <2>1, <2>2, <2>3 DEF InOrder, Queued, Earlier, Key
<1>5. Unheard' /\ NoneMissingBefore' /\ NoneMissingAfter'
  BY <1>1 DEF ListenerInv, Unheard, NextKey, Key, Time, NoneMissingBefore,
              NoneMissingAfter, Precedes
<1> QED
  BY <1>4, <1>5 DEF ListenerInv

LEMMA WriteListener ==
  ASSUME TypeOK, BlockInv, ListenerInv, WriteQuarterFrame
  PROVE  ListenerInv'
<1>1. /\ pc = "send" /\ pc' = "send" /\ qf \in 0 .. 7 /\ qf' = qf + 1
      /\ stamp' = Advance(stamp, time_step) /\ block_end' = Time(stamp')
      /\ UNCHANGED <<pool, block, broken, heard>>
  BY DEF WriteQuarterFrame, TypeOK
<1>2. /\ Written.at = stamp /\ Written.block = block /\ Written.piece = qf
      /\ block \in Nat /\ qf \in Nat /\ stamp \in StampType
      /\ time_step \in 0 .. NSEC
  BY <1>1 DEF Written, TypeOK
<1>3. Key(Written) = NextKey /\ NextKey' = NextKey + 1 /\ NextKey \in Nat
  BY <1>1, <1>2 DEF Key, NextKey
<1>4. Queued' = Queued \union {Written} /\ InFlight' = InFlight \union {Written}
  BY WriteQueue
<1> HIDE DEF Written
<1>5. \A m \in InFlight : Earlier(m, Written)
  BY <1>1, <1>2, <1>3 DEF Earlier, ListenerInv, Unheard
<1>6. InOrder'
  <2>1. \A m, n \in pool' : m = n \/ Earlier(m, n) \/ Earlier(n, m)
    BY <1>1 DEF ListenerInv, InOrder
  <2>2. \A m \in pool', n \in Queued' : Earlier(m, n)
    BY <1>1, <1>4, <1>5 DEF ListenerInv, InOrder, InFlight
  <2>3. ASSUME NEW i \in 1 .. Len(output_buffer'), NEW j \in 1 .. Len(output_buffer'),
               i < j
        PROVE  Earlier(output_buffer'[i], output_buffer'[j])
    <3>1. /\ Len(output_buffer') = Len(output_buffer) + 1
          /\ Len(output_buffer) \in Nat
          /\ \A k \in 1 .. Len(output_buffer) : output_buffer'[k] = output_buffer[k]
          /\ output_buffer'[Len(output_buffer) + 1] = Written
      BY WriteQueue
    <3>2. i \in 1 .. Len(output_buffer) /\ output_buffer[i] \in InFlight
      BY <2>3, <3>1, MessageTypes DEF InFlight
    <3>3. CASE j = Len(output_buffer) + 1
      BY <1>5, <3>1, <3>2, <3>3
    <3>4. CASE j \in 1 .. Len(output_buffer)
      BY <2>3, <3>1, <3>2, <3>4 DEF ListenerInv, InOrder
    <3> QED
      BY <3>1, <3>3, <3>4
  <2> QED
    BY <2>1, <2>2, <2>3 DEF InOrder, Earlier, Key
<1>7. Unheard'
  <2>1. /\ stamp' \in StampType /\ Time(stamp') = Time(stamp) + time_step
        /\ ~Before(stamp', stamp)
    BY <1>1, <1>2, AdvanceTime, AdvanceLater
  <2>2. Time(stamp) \in Nat /\ block_end <= Time(stamp) /\ block_end \in Nat
    BY <1>1, <1>2, TimeNat DEF BlockInv, SendInv, TypeOK
  <2>3. /\ block_end <= block_end' /\ Time(stamp) <= block_end'
        /\ block_end' \in Nat
    BY <1>1, <1>2, <2>1, <2>2, TimeNat
  <2>4. ASSUME NEW m \in InFlight
        PROVE  /\ Key(heard) < Key(m) /\ Key(m) < NextKey'
               /\ Time(m.at) <= block_end' /\ ~Before(stamp', m.at)
    <3>1. m.at \in StampType /\ Key(m) \in Nat /\ Time(m.at) \in Nat
      BY MessageTypes, TimeNat
    <3>2. /\ Key(heard) < Key(m) /\ Key(m) < NextKey
          /\ Time(m.at) <= block_end /\ ~Before(stamp, m.at)
      BY <1>1 DEF ListenerInv, Unheard
    <3>3. ~Before(stamp', m.at)
      BY <1>2, <2>1, <3>1, <3>2, StampOrder
    <3>4. Time(m.at) <= block_end'
      BY <2>2, <2>3, <3>1, <3>2
    <3>5. Key(m) < NextKey'
      BY <1>3, <3>1, <3>2
    <3> QED
      BY <3>2, <3>3, <3>4, <3>5
  <2>5. Key(heard) < NextKey /\ Key(heard) \in Nat
    BY MessageTypes DEF ListenerInv, Unheard
  <2>6. /\ Key(heard) < Key(Written) /\ Key(Written) < NextKey'
        /\ Time(Written.at) <= block_end' /\ ~Before(stamp', Written.at)
    BY <1>2, <1>3, <2>1, <2>3, <2>5
  <2>7. Key(heard) < NextKey'
    BY <1>3, <2>5
  <2> QED
    BY <1>1, <1>4, <2>4, <2>6, <2>7 DEF Unheard, Key, Time
<1>8. NoneMissingBefore'
  <2>1. \A m \in InFlight \union {Written} :
          m.piece > 0 => \E x \in InFlight \union {heard} : Precedes(x, m)
    BY <1>1, <1>2 DEF ListenerInv, NoneMissingBefore, Precedes
  <2> QED
    BY <1>1, <1>2, <1>4, <2>1 DEF NoneMissingBefore, Precedes
<1>9. NoneMissingAfter'
  <2> SUFFICES ASSUME NEW x \in InFlight \union {heard, Written},
                      x.piece < 7, x.block \notin broken
               PROVE  \/ \E m \in InFlight \union {Written} : Precedes(x, m)
                      \/ x.block = block /\ x.piece + 1 = qf + 1
    BY <1>1, <1>4 DEF NoneMissingAfter, Precedes
  <2>1. CASE x = Written
    BY <1>2, <2>1
  <2>2. CASE x \in InFlight \union {heard}
    <3>1. \/ \E m \in InFlight : Precedes(x, m)
          \/ x.block = block /\ x.piece + 1 = qf
      BY <2>2 DEF ListenerInv, NoneMissingAfter
    <3> QED
      BY <1>2, <3>1 DEF Precedes
  <2> QED
    BY <2>1, <2>2
<1> QED
  BY <1>6, <1>7, <1>8, <1>9 DEF ListenerInv

LEMMA DeliverListener ==
  ASSUME TypeOK, ListenerInv, NEW m \in pool, DueFirst(m),
         pool' = pool \ {m}, heard' = [block |-> m.block, piece |-> m.piece],
         UNCHANGED <<pc, stamp, qf, output_buffer, block, block_end, broken>>
  PROVE  ListenerInv'
<1>1. /\ \A n \in InFlight : n = m \/ Earlier(m, n)
      /\ m \in InFlight
  BY DueFirstIsNext DEF InFlight
<1>2. /\ heard'.block = m.block /\ heard'.piece = m.piece
      /\ Key(heard)' = Key(m) /\ Key(heard) < Key(m) /\ Key(m) < NextKey
      /\ NextKey' = NextKey
  BY <1>1 DEF Key, NextKey, ListenerInv, Unheard
<1>3. m \notin Queued
  <2> SUFFICES ASSUME m \in Queued PROVE FALSE
    OBVIOUS
  <2>1. Key(m) < Key(m) /\ Key(m) \in Nat
    BY <1>1, MessageTypes DEF ListenerInv, InOrder, Earlier
  <2> QED
    BY <2>1
<1>4. InFlight' = InFlight \ {m} /\ Queued' = Queued
  BY <1>3 DEF InFlight, Queued
<1>5. InOrder'
  BY <1>4 DEF ListenerInv, InOrder, Earlier, Key
<1>6. Unheard'
  <2>1. \A n \in InFlight' : Key(m) < Key(n)
    BY <1>1, <1>4 DEF Earlier
  <2> QED
    BY <1>2, <1>4, <2>1 DEF ListenerInv, Unheard, Key, Time
(* What precedes a message in flight is not behind the one heard now.      *)
<1>7. NoneMissingBefore'
  <2>1. ASSUME NEW x \in InFlight \union {heard}, Key(m) <= Key(x)
        PROVE  x \in InFlight
    <3>1. x # heard
      <4> SUFFICES ASSUME x = heard PROVE FALSE
        OBVIOUS
      <4>1. Key(heard) \in Nat /\ Key(m) \in Nat /\ Key(m) <= Key(heard)
        BY <1>1, <2>1, MessageTypes
      <4> QED
        BY <1>2, <4>1
    <3> QED
      BY <3>1
  <2>2. ASSUME NEW n \in InFlight', n.piece > 0
        PROVE  \E x \in InFlight : Precedes(x, n)
    <3>1. PICK x \in InFlight \union {heard} : Precedes(x, n)
      BY <1>4, <2>2 DEF ListenerInv, NoneMissingBefore
    <3>2. Key(m) < Key(n)
      BY <1>1, <1>4 DEF Earlier
    <3>3. /\ x.block \in Nat /\ x.piece \in 0 .. 7
          /\ m.block \in Nat /\ m.piece \in 0 .. 7
          /\ n.block \in Nat /\ n.piece \in 0 .. 7
      BY <1>1, <1>4, MessageTypes
    <3>4. Key(m) <= Key(x)
      BY <3>1, <3>2, <3>3 DEF Precedes, Key
    <3> QED
      BY <2>1, <3>1, <3>4
  <2>3. ASSUME pc = "send", qf > 0
        PROVE  \E x \in InFlight : x.block = block /\ x.piece + 1 = qf
    <3>1. PICK x \in InFlight \union {heard} : x.block = block /\ x.piece + 1 = qf
      BY <2>3 DEF ListenerInv, NoneMissingBefore
    <3>2. /\ x.block \in Nat /\ x.piece \in 0 .. 7
          /\ m.block \in Nat /\ m.piece \in 0 .. 7
      BY <1>1, MessageTypes
    <3>3. Key(m) <= Key(x)
      BY <1>2, <2>3, <3>1, <3>2 DEF Key, NextKey
    <3> QED
      BY <2>1, <3>1, <3>3
  <2>4. ASSUME NEW x \in InFlight
        PROVE  \E y \in InFlight' \union {heard'} : x.block = y.block /\ x.piece = y.piece
    BY <1>2, <1>4
  <2>5. \A n \in InFlight' :
          n.piece > 0 => \E y \in InFlight' \union {heard'} : Precedes(y, n)
    BY <2>2, <2>4 DEF Precedes
  <2>6. pc' = "send" /\ qf' > 0
          => \E y \in InFlight' \union {heard'} : y.block = block' /\ y.piece + 1 = qf'
    BY <2>3, <2>4
  <2> QED
    BY <2>5, <2>6 DEF NoneMissingBefore, Precedes
(* What follows a message in flight, or the one heard now, is in flight.   *)
<1>8. NoneMissingAfter'
  <2>1. ASSUME NEW x \in InFlight, x.piece < 7, x.block \notin broken
        PROVE  \/ \E n \in InFlight' : Precedes(x, n)
               \/ pc = "send" /\ x.block = block /\ x.piece + 1 = qf
    <3>1. ASSUME NEW n \in InFlight, Precedes(x, n) PROVE n \in InFlight'
      <4>1. /\ x.block \in Nat /\ x.piece \in 0 .. 7
            /\ n.block \in Nat /\ n.piece \in 0 .. 7
        BY MessageTypes
      <4>2. Key(x) < Key(n)
        BY <3>1, <4>1 DEF Precedes, Key
      <4>3. n # m
        <5> SUFFICES ASSUME n = m PROVE FALSE
          OBVIOUS
        <5>1. x = m \/ Key(m) < Key(x)
          BY <1>1 DEF Earlier
        <5> QED
          BY <4>1, <4>2, <5>1 DEF Key
      <4> QED
        BY <1>4, <4>3
    <3> QED
      BY <2>1, <3>1 DEF ListenerInv, NoneMissingAfter
  <2>2. ASSUME NEW y \in InFlight' \union {heard'}
        PROVE  \E x \in InFlight : x.block = y.block /\ x.piece = y.piece
    BY <1>1, <1>2, <1>4
  <2>3. ASSUME NEW y \in InFlight' \union {heard'}, y.piece < 7, y.block \notin broken
        PROVE  \/ \E n \in InFlight' : Precedes(y, n)
               \/ pc = "send" /\ y.block = block /\ y.piece + 1 = qf
    <3>1. PICK x \in InFlight : x.block = y.block /\ x.piece = y.piece
      BY <2>2
    <3> QED
      BY <2>1, <2>3, <3>1 DEF Precedes
  <2> QED
    BY <2>3 DEF NoneMissingAfter, Precedes
<1> QED
  BY <1>5, <1>6, <1>7, <1>8 DEF ListenerInv

LEMMA ListenerStep ==
  TypeOK /\ BlockInv /\ ListenerInv /\ [Next]_vars => ListenerInv'
<1> SUFFICES ASSUME TypeOK, BlockInv, ListenerInv, [Next]_vars PROVE ListenerInv'
  OBVIOUS
<1>1. ASSUME NEW gap \in Gaps, SkipBlock(last_when + gap) PROVE ListenerInv'
  <2>1. UNCHANGED <<pc, stamp, qf, pool, output_buffer, block, block_end,
                     broken, heard>>
    BY <1>1 DEF SkipBlock, alsaVars
  <2>2. InFlight' = InFlight /\ InOrder'
    BY <2>1, KeepInFlight
  <2> QED
    BY <2>1, <2>2 DEF ListenerInv, Unheard, NextKey, Key, Time, NoneMissingBefore,
                      NoneMissingAfter, Precedes
<1>2. CASE Deliver
  <2>1. PICK m \in pool :
          /\ DueFirst(m) /\ pool' = pool \ {m}
          /\ heard' = [block |-> m.block, piece |-> m.piece]
          /\ UNCHANGED <<pc, stamp, qf, output_buffer, block, block_end, broken>>
    BY <1>2 DEF Deliver, senderVars
  <2> QED
    BY <2>1, DeliverListener
<1>3. CASE UNCHANGED vars
  <2>1. UNCHANGED <<pc, stamp, qf, pool, output_buffer, block, block_end, broken,
                    heard>>
    BY <1>3 DEF vars, senderVars, alsaVars, historyVars
  <2>2. InFlight' = InFlight /\ InOrder'
    BY <2>1, KeepInFlight
  <2> QED
    BY <2>1, <2>2 DEF ListenerInv, Unheard, NextKey, Key, Time, NoneMissingBefore,
                      NoneMissingAfter, Precedes
<1> QED
  BY <1>1, <1>2, <1>3, StartListener, WriteListener, LeaveListener, DrainListener,
     NextSteps

(* Every step is one of the listener's, or one it does not notice: what is *)
(* delivered is the next quarter frame, and a timecode breaks alone.       *)
LEMMA ListenerRefines ==
  ASSUME TypeOK, ListenerInv, [Next]_vars
  PROVE  [Listener!Next]_<<heard.block, heard.piece, broken>>
<1>1. CASE Deliver
  <2>1. PICK m \in pool :
          /\ DueFirst(m)
          /\ heard' = [block |-> m.block, piece |-> m.piece]
          /\ broken' = broken
    BY <1>1 DEF Deliver
  <2>2. heard'.block = m.block /\ heard'.piece = m.piece
    BY <2>1
  <2>3. /\ heard.piece \in 0 .. 7
        /\ m.block \in Nat /\ m.piece \in 0 .. 7
    BY MessageTypes DEF InFlight
  <2>4. \/ Precedes(heard, m)
        \/ /\ m.piece = 0 /\ heard.block < m.block
           /\ heard.piece = 7 \/ heard.block \in broken
    BY <2>1, DueFirstIsNext
  <2>5. CASE Precedes(heard, m)
    <3>1. Listener!NextPiece
      BY <2>1, <2>2, <2>3, <2>5 DEF Precedes, Listener!NextPiece
    <3> QED
      BY <3>1 DEF Listener!Next
  <2>6. CASE /\ m.piece = 0 /\ heard.block < m.block
             /\ heard.piece = 7 \/ heard.block \in broken
    <3>1. Listener!NextBlock
      BY <2>1, <2>2, <2>6 DEF Listener!NextBlock
    <3> QED
      BY <3>1 DEF Listener!Next
  <2> QED
    BY <2>4, <2>5, <2>6
<1>2. CASE LeaveLoop
  <2>1. Listener!Break
    BY <1>2 DEF LeaveLoop, Leave, Listener!Break
  <2> QED
    BY <2>1 DEF Listener!Next
<1>3. ASSUME UNCHANGED <<heard, broken>>
      PROVE  [Listener!Next]_<<heard.block, heard.piece, broken>>
  BY <1>3
<1> QED
  BY <1>1, <1>2, <1>3, NextSteps
     DEF StartBlock, SkipBlock, WriteQuarterFrame, DrainMessage, vars, historyVars

(* A listener receives whole timecodes in order, whatever fails: the       *)
(* sender implements QuarterFrames, if timecodes are announced at least    *)
(* half a block apart.                                                     *)
THEOREM ListenerHearsWholeTimecodes ==
  ASSUME WideGaps
  PROVE  Spec => WholeTimecodes
<1>1. Init => BlockInv /\ ListenerInv /\ Listener!Init
  <2> SUFFICES ASSUME Init PROVE BlockInv /\ ListenerInv /\ Listener!Init
    OBVIOUS
  <2>1. InFlight = {} /\ Len(output_buffer) = 0
    BY DEF Init, InFlight, Queued
  <2>2. ListenerInv
    BY <2>1 DEF Init, ListenerInv, InOrder, InFlight, Unheard, NextKey, Key,
                NoneMissingBefore, NoneMissingAfter
  <2> QED
    BY <2>2, BlockInit DEF Init, Listener!Init
<1>2. TypeOK /\ ListenerInv /\ [Next]_vars
        => [Listener!Next]_<<heard.block, heard.piece, broken>>
  BY ListenerRefines
<1> QED
  BY <1>1, <1>2, BlockStep, SpacingStep, ListenerStep, QuarterFramesEvenlySpaced,
     TypeCorrect, PTL
     DEF Spec, WholeTimecodes, Listener!Spec

=============================================================================

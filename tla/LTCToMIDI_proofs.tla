-------------------------- MODULE LTCToMIDI_proofs --------------------------
(***************************************************************************)
(* Proofs about the whole bridge, for every frame rate of the tape, every  *)
(* resolution of the clock, size of the pool and delay of reading.  What a *)
(* theorem needs beyond that is named in its statement.                    *)
(***************************************************************************)
EXTENDS LTCToMIDI, FiniteSetTheorems, TLAPS

QUARTER == FRAME \div 4

LEMMA Units ==
  /\ SECOND \in Nat /\ SECOND >= FRAME
  /\ FRAME = 80 /\ QUARTER = 20 /\ STOP = 80 /\ PART = 50
  BY BridgeAssumption DEF SECOND, FRAME, QUARTER, STOP, PART

(***************************************************************************)
(* Stamps, with seconds of SECOND units.                                   *)
(***************************************************************************)
LEMMA QuarterOfFrame == Sender!QuarterFrame(RATE) = QUARTER
<1>1. RATE \in Nat \ {0}
  BY BridgeAssumption
<1>2. (RATE * 80) \div RATE = 80
  BY <1>1
<1>3. SECOND \div RATE = 80
  BY <1>2 DEF SECOND, FRAME
<1> QED
  BY <1>3 DEF Sender!QuarterFrame, QUARTER, FRAME

LEMMA QuarterFrameRange ==
  ASSUME NEW rate \in 1 .. 46
  PROVE  Sender!QuarterFrame(rate) \in 0 .. SECOND
<1> DEFINE length == SECOND \div rate
<1>1. length \in Nat /\ length <= SECOND
  BY Units
<1> HIDE DEF length
<1>2. length \div 4 \in 0 .. length
  BY <1>1
<1> QED
  BY <1>1, <1>2, Units DEF Sender!QuarterFrame, length

LEMMA StampOfTime ==
  ASSUME NEW t \in Nat
  PROVE  /\ Sender!Stamp(t) \in Sender!StampType
         /\ Sender!Stamp(t).tv_nsec < SECOND
         /\ Sender!Time(Sender!Stamp(t)) = t
<1>1. SECOND \in Nat /\ SECOND > 0
  BY Units
<1>2. t \div SECOND \in Nat /\ t % SECOND \in 0 .. SECOND - 1
  BY <1>1
<1>3. (t \div SECOND) * SECOND + (t % SECOND) = t
  BY <1>1
<1> QED
  BY <1>1, <1>2, <1>3 DEF Sender!Stamp, Sender!StampType, Sender!Time

LEMMA TimeNat ==
  ASSUME NEW s \in Sender!StampType
  PROVE  Sender!Time(s) \in Nat
  BY Units DEF Sender!StampType, Sender!Time

(* Carrying keeps the stamp in its type and loses no time.                 *)
LEMMA AdvanceTime ==
  ASSUME NEW s \in Sender!StampType, NEW step \in 0 .. SECOND
  PROVE  /\ Sender!Advance(s, step) \in Sender!StampType
         /\ Sender!Time(Sender!Advance(s, step)) = Sender!Time(s) + step
<1>1. SECOND \in Nat /\ SECOND > 0
  BY Units
<1>2. s.tv_sec \in Nat /\ s.tv_nsec \in 0 .. SECOND
  BY DEF Sender!StampType
<1>3. CASE s.tv_nsec + step > SECOND
  <2>1. Sender!Advance(s, step)
          = [tv_sec |-> s.tv_sec + 1, tv_nsec |-> s.tv_nsec + step - SECOND]
    BY <1>3 DEF Sender!Advance
  <2>2. (s.tv_sec + 1) * SECOND + (s.tv_nsec + step - SECOND)
          = s.tv_sec * SECOND + s.tv_nsec + step
    BY <1>1, <1>2
  <2> QED
    BY <1>1, <1>2, <1>3, <2>1, <2>2 DEF Sender!StampType, Sender!Time
<1>4. CASE ~(s.tv_nsec + step > SECOND)
  <2>1. Sender!Advance(s, step) = [s EXCEPT !.tv_nsec = s.tv_nsec + step]
    BY <1>4 DEF Sender!Advance
  <2> QED
    BY <1>1, <1>2, <1>4, <2>1 DEF Sender!StampType, Sender!Time
<1> QED
  BY <1>3, <1>4

(* What comes before another stamp is not later.                           *)
LEMMA BeforeTime ==
  ASSUME NEW s \in Sender!StampType, NEW t \in Sender!StampType,
         Sender!Before(s, t)
  PROVE  Sender!Time(s) <= Sender!Time(t)
<1>1. /\ SECOND \in Nat
      /\ s.tv_sec \in Nat /\ s.tv_nsec \in 0 .. SECOND
      /\ t.tv_sec \in Nat /\ t.tv_nsec \in 0 .. SECOND
  BY Units DEF Sender!StampType
<1>2. ASSUME NEW a \in Nat, NEW b \in Nat, NEW x \in 0 .. SECOND,
             NEW y \in 0 .. SECOND, a < b
      PROVE  a * SECOND + x <= b * SECOND + y
  BY <1>1, <1>2
<1>3. CASE s.tv_sec < t.tv_sec
  BY <1>1, <1>2, <1>3 DEF Sender!Time
<1>4. CASE s.tv_sec = t.tv_sec
  BY <1>1, <1>4 DEF Sender!Before, Sender!Time
<1> QED
  BY <1>1, <1>3, <1>4 DEF Sender!Before

(* ... and a time that is later than a stamp is after it.                  *)
LEMMA LaterIsAfter ==
  ASSUME NEW s \in Sender!StampType, NEW t \in Nat, Sender!Time(s) < t
  PROVE  Sender!Before(s, Sender!Stamp(t))
<1> DEFINE r == Sender!Stamp(t)
<1>1. r \in Sender!StampType /\ r.tv_nsec < SECOND /\ Sender!Time(r) = t
  BY StampOfTime
<1> HIDE DEF r
<1>2. /\ SECOND \in Nat
      /\ s.tv_sec \in Nat /\ s.tv_nsec \in 0 .. SECOND
      /\ r.tv_sec \in Nat /\ r.tv_nsec \in 0 .. SECOND
  BY <1>1, Units DEF Sender!StampType
<1>3. ~(r.tv_sec < s.tv_sec)
  <2>1. ASSUME NEW a \in Nat, NEW b \in Nat, NEW x \in 0 .. SECOND - 1,
               NEW y \in 0 .. SECOND, a < b
        PROVE  a * SECOND + x < b * SECOND + y
    BY <1>2, <2>1
  <2>2. r.tv_nsec \in 0 .. SECOND - 1
    BY <1>1, <1>2
  <2>3. ~(r.tv_sec * SECOND + r.tv_nsec < s.tv_sec * SECOND + s.tv_nsec)
    BY <1>1, <1>2 DEF Sender!Time
  <2> QED
    BY <1>2, <2>1, <2>2, <2>3
<1>4. CASE r.tv_sec = s.tv_sec
  BY <1>1, <1>2, <1>4 DEF Sender!Before, Sender!Time, r
<1>5. CASE s.tv_sec < r.tv_sec
  BY <1>5 DEF Sender!Before, r
<1> QED
  BY <1>2, <1>3, <1>4, <1>5

(***************************************************************************)
(* The steps of the bridge.                                                *)
(***************************************************************************)

(* Frames of the tape the reader has passed since the tape showed 0.       *)
Number == (pos - origin) \div FRAME

(* The reader reads frames of 80 bits or discards what it has.             *)
ReaderTypes ==
  /\ bit_count = 0
  /\ prev_frame \in 0 .. 45 /\ frame_rate \in 1 .. 46
  /\ pending_frame_rate \in 0 .. 46 /\ frame_wrap \in 0 .. 255
  /\ pos \in Nat /\ frame_start \in Nat /\ last_tc \in Int
  /\ frame_pos \in Nat /\ sync_pos \in Nat
  /\ tc_is_valid \in BOOLEAN
  /\ clock \in Nat /\ steady \in Nat /\ disturbances \in Nat

(* Frames begin at whole numbers of frames from the origin.                *)
Aligned == origin \in Int /\ Number \in Nat /\ pos - origin = FRAME * Number

BlockType ==
  [tc : Int, rate : 1 .. 46, origin : Int, ideal : Nat, fresh : BOOLEAN]

BlockTypes == blocks \in Seq(BlockType) /\ Len(blocks) = block

BridgeTypes == ReaderTypes /\ Aligned /\ Sender!TypeOK /\ BlockTypes

LEMMA NumberRange ==
  ASSUME Aligned
  PROVE  /\ Number \div RATE \in Nat
         /\ Number % RATE \in 0 .. RATE - 1
         /\ Number % RATE \in 0 .. 45
         /\ Number = RATE * (Number \div RATE) + (Number % RATE)
<1>1. RATE \in 1 .. 46 /\ Number \in Nat
  BY BridgeAssumption DEF Aligned
<1> HIDE DEF Number
<1> QED
  BY <1>1

(* The number of a place that is aligned.                                  *)
LEMMA NumberOf ==
  ASSUME NEW p \in Int, NEW o \in Int, NEW n \in Nat, p - o = FRAME * n
  PROVE  (p - o) \div FRAME = n
  BY Units

(* A frame: nothing comes of it, or it is skipped, or it is sent.          *)
NoBlock == UNCHANGED <<senderVars, blocks>>

Skipped == Sender!SkipBlock(frame_start + SECOND) /\ UNCHANGED blocks

NewBlock ==
  [tc |-> last_tc' + FRACTIONS, rate |-> frame_rate', origin |-> origin,
   ideal |-> frame_pos + SECOND, fresh |-> tc_is_valid /\ steady <= sync_pos]

Started ==
  /\ Sender!StartBlock(frame_start + SECOND, frame_rate')
  /\ blocks' = Append(blocks, NewBlock)
  /\ last_tc' = Reader!TimePositionOf(Number \div RATE, Number % RATE, frame_rate')

LEMMA Announced ==
  ASSUME Frame
  PROVE  IF emitted' THEN Skipped \/ Started ELSE NoBlock
<1>1. CASE ~emitted'
  BY <1>1 DEF Frame, NoBlock
<1>2. CASE emitted'
  <2>1. /\ last_start' = frame_start
        /\ last_tc' = Reader!TimePositionOf(Number \div RATE, Number % RATE,
                                            frame_rate')
    BY <1>2 DEF Frame, Reader!AcceptCodeword, Reader!TrackTimecode,
                Reader!Withhold, Number
  <2>2. timecode_changed(last_tc', frame_rate', last_start')
    BY <1>2 DEF Frame
  <2> QED
    BY <1>2, <2>1, <2>2 DEF timecode_changed, MoveAhead, MoveTimecode, Skipped,
                            Started, NewBlock
<1> QED
  BY <1>1, <1>2

LEMMA FrameStep ==
  ASSUME BridgeTypes, Frame
  PROVE  /\ pc = "idle" /\ pos + FRAME <= clock
         /\ pos' = pos + FRAME /\ sync_pos' = pos + FRAME
         /\ frame_pos' = pos + FRAME
         /\ frame_start' \in pos + FRAME .. pos + FRAME + MaxLate
         /\ bit_count' = 0 /\ tc_is_valid' = TRUE
         /\ prev_frame' = Number % RATE
         /\ UNCHANGED <<clock, origin, disturbances, steady>>
         /\ NoBlock \/ Skipped \/ Started
<1>1. /\ pc = "idle" /\ pos + FRAME <= clock
      /\ pos' = pos + FRAME /\ sync_pos' = pos + FRAME
      /\ frame_pos' = pos + FRAME
      /\ frame_start' \in pos + FRAME .. pos + FRAME + MaxLate
      /\ bit_count' = 0 /\ tc_is_valid' = TRUE
      /\ prev_frame' = Number % RATE
      /\ UNCHANGED <<clock, origin, disturbances, steady>>
  BY DEF Frame, Captured, Reader!AcceptCodeword, Reader!SyncWord,
         Reader!StartNextFrame, Reader!StartOf, Reader!DetectFrameRate,
         tapeVars, Number
<1> QED
  BY <1>1, Announced

LEMMA CutStep ==
  ASSUME NEW number \in Cuts, Cut(number)
  PROVE  /\ pc = "idle" /\ pos + PART <= clock
         /\ pos' = pos + PART /\ bit_count' = 0 /\ tc_is_valid' = FALSE
         /\ sync_pos' = pos + PART
         /\ origin' = pos + PART - number * FRAME
         /\ disturbances < MaxDisturbances /\ disturbances' = disturbances + 1
         /\ steady' = pos + PART
         /\ UNCHANGED <<prev_frame, frame_rate, pending_frame_rate, frame_wrap,
                        frame_start, frame_pos, last_tc, local_tc,
                        out_of_sync_count, senderVars, clock, blocks>>
  BY DEF Cut, Captured, Reader!DiscardCodeword, Reader!SyncWord,
         Reader!TcInvalid

LEMMA StopStep ==
  ASSUME ReaderTypes, Stop
  PROVE  /\ pc = "idle" /\ pos + STOP <= clock
         /\ pos' = pos + STOP /\ bit_count' = 0
         /\ tc_is_valid' \in {FALSE, tc_is_valid}
         /\ origin' = origin + STOP
         /\ disturbances < MaxDisturbances /\ disturbances' = disturbances + 1
         /\ steady' = pos + STOP
         /\ UNCHANGED <<prev_frame, frame_rate, pending_frame_rate, frame_wrap,
                        frame_start, frame_pos, last_tc, local_tc,
                        out_of_sync_count, sync_pos, senderVars, clock, blocks>>
<1> USE DEF Stop, Captured, Reader!BufferEnd
<1>1. tc_is_valid' \in {FALSE, tc_is_valid}
  BY DEF Reader!TcInvalid
<1>2. bit_count' = 0
  BY DEF Reader!Word16, ReaderTypes
<1>3. pos' = pos + STOP /\ pos + STOP <= clock /\ steady' = pos + STOP
  BY Units DEF ReaderTypes
<1> QED
  BY <1>1, <1>2, <1>3

(* The reader and the tape stand still.                                    *)
Away == UNCHANGED <<readerVars, tapeVars, blocks>>

Write == Sender!WriteQuarterFrame /\ Away /\ UNCHANGED clock
Drain == Sender!DrainMessage /\ Away /\ UNCHANGED clock
Leave == Sender!Drained /\ Away /\ UNCHANGED clock

LEMMA NextSteps ==
  ASSUME [Next]_vars
  PROVE  \/ Frame \/ (\E number \in Cuts : Cut(number)) \/ Stop
         \/ Write \/ Drain \/ Leave
         \/ Deliver \/ Tick
         \/ UNCHANGED vars
  BY DEF Next, Read, Send, Sender!SendLoop, Sender!WriteFails,
         Sender!DrainFails, Write, Drain, Leave, Away, Done

(***************************************************************************)
(* Types.                                                                  *)
(***************************************************************************)
LEMMA StartTypes ==
  ASSUME Sender!TypeOK, NEW when \in Nat, NEW rate \in 1 .. 46,
         Sender!StartBlock(when, rate)
  PROVE  Sender!TypeOK'
<1>1. Sender!Stamp(when) \in Sender!StampType
  BY StampOfTime
<1>2. Sender!QuarterFrame(rate) \in 0 .. SECOND
  BY QuarterFrameRange
<1> QED
  BY <1>1, <1>2 DEF Sender!TypeOK, Sender!StartBlock, Sender!alsaVars

LEMMA SkipTypes ==
  ASSUME Sender!TypeOK, NEW when \in Nat, Sender!SkipBlock(when)
  PROVE  Sender!TypeOK'
<1>1. Sender!Stamp(when) \in Sender!StampType
  BY StampOfTime
<1> QED
  BY <1>1 DEF Sender!TypeOK, Sender!SkipBlock, Sender!RememberLast,
              Sender!alsaVars

LEMMA WriteTypes == Sender!TypeOK /\ Write => Sender!TypeOK'
<1> SUFFICES ASSUME Sender!TypeOK, Write PROVE Sender!TypeOK'
  OBVIOUS
<1>1. stamp' \in Sender!StampType
  BY AdvanceTime DEF Write, Sender!TypeOK, Sender!WriteQuarterFrame
<1>2. block_end' \in Nat
  BY <1>1, TimeNat DEF Write, Sender!WriteQuarterFrame
<1>3. [at |-> stamp, block |-> block, piece |-> qf] \in Sender!Messages
  BY DEF Write, Sender!TypeOK, Sender!WriteQuarterFrame, Sender!Messages
<1>4. output_buffer' \in Seq(Sender!Messages)
  BY <1>3 DEF Write, Sender!TypeOK, Sender!WriteQuarterFrame
<1> QED
  BY <1>1, <1>2, <1>4 DEF Write, Sender!TypeOK, Sender!WriteQuarterFrame

LEMMA DrainTypes == Sender!TypeOK /\ Drain => Sender!TypeOK'
<1> SUFFICES ASSUME Sender!TypeOK, Drain PROVE Sender!TypeOK'
  OBVIOUS
<1>1. /\ Head(output_buffer) \in Sender!Messages
      /\ Tail(output_buffer) \in Seq(Sender!Messages)
  BY DEF Drain, Sender!TypeOK, Sender!DrainMessage
<1> QED
  BY <1>1 DEF Drain, Sender!TypeOK, Sender!DrainMessage, Sender!senderVars,
              Sender!historyVars

LEMMA LeaveTypes == Sender!TypeOK /\ Leave => Sender!TypeOK'
  BY DEF Leave, Sender!TypeOK, Sender!Drained, Sender!Return, Sender!Leave,
         Sender!alsaVars

LEMMA DeliverTypes == Sender!TypeOK /\ Deliver => Sender!TypeOK'
<1> SUFFICES ASSUME Sender!TypeOK, Deliver PROVE Sender!TypeOK'
  OBVIOUS
<1>1. PICK m \in pool :
        /\ pool' = pool \ {m}
        /\ now' = IF now < Sender!Time(m.at) THEN Sender!Time(m.at) ELSE now
        /\ heard' = [block |-> m.block, piece |-> m.piece]
        /\ UNCHANGED <<Sender!senderVars, output_buffer, last_when, block,
                       block_end, skipped, broken>>
  BY DEF Deliver, Sender!Deliver
<1>2. m.at \in Sender!StampType /\ m.block \in Nat /\ m.piece \in 0 .. 7
  BY DEF Sender!TypeOK, Sender!Messages
<1>3. now' \in Nat
  BY <1>1, <1>2, TimeNat DEF Sender!TypeOK
<1> QED
  BY <1>1, <1>2, <1>3 DEF Sender!TypeOK, Sender!senderVars

(* The other steps do not change the sender.                               *)
LEMMA SenderStays ==
  ASSUME Sender!TypeOK, UNCHANGED senderVars
  PROVE  Sender!TypeOK'
  BY DEF Sender!TypeOK, senderVars

LEMMA TimePositionType ==
  ASSUME NEW second \in Nat, NEW frame \in Nat, NEW rate \in 1 .. 46
  PROVE  Reader!TimePositionOf(second, frame, rate) \in Int
<1> DEFINE n == (second * rate + frame) * FRACTIONS
<1>1. n \in Int
  BY DEF FRACTIONS
<1> HIDE DEF n
<1>2. n \div rate \in Int
  BY <1>1
<1> QED
  BY <1>2 DEF Reader!TimePositionOf, n

LEMMA FrameTypes ==
  ASSUME BridgeTypes, Frame
  PROVE  ReaderTypes' /\ Aligned'
<1>1. /\ pos' = pos + FRAME /\ sync_pos' = pos + FRAME
      /\ frame_pos' = pos + FRAME
      /\ frame_start' \in pos + FRAME .. pos + FRAME + MaxLate
      /\ bit_count' = 0 /\ tc_is_valid' = TRUE
      /\ prev_frame' = Number % RATE
      /\ UNCHANGED <<clock, origin, disturbances, steady>>
  BY FrameStep
<1>2. /\ Number \div RATE \in Nat /\ Number % RATE \in Nat
      /\ Number % RATE \in 0 .. 45
  BY NumberRange DEF BridgeTypes
<1>3. Reader!DetectFrameRate(Number % RATE)
  BY DEF Frame, Reader!AcceptCodeword, Number
<1>4. /\ frame_rate' \in 1 .. 46 /\ pending_frame_rate' \in 0 .. 46
      /\ frame_wrap' \in 0 .. 255
  BY <1>3, BridgeAssumption
  DEF Reader!DetectFrameRate, Reader!CountDown, Reader!Word8,
      Reader!RestartCountdown, BridgeTypes, ReaderTypes
<1>5. last_tc' \in Int
  <2>1. \/ last_tc' = last_tc
        \/ last_tc' = Reader!TimePositionOf(Number \div RATE, Number % RATE,
                                            frame_rate')
    BY DEF Frame, Reader!AcceptCodeword, Reader!TrackTimecode,
           Reader!Withhold, Number
  <2> QED
    BY <1>2, <1>4, <2>1, TimePositionType DEF BridgeTypes, ReaderTypes
<1>6. ReaderTypes'
  <2>1. pos' \in Nat /\ sync_pos' \in Nat /\ frame_pos' \in Nat /\ frame_start' \in Nat
    BY <1>1, Units, BridgeAssumption DEF BridgeTypes, ReaderTypes
  <2> QED
    BY <1>1, <1>2, <1>4, <1>5, <2>1 DEF BridgeTypes, ReaderTypes
<1>7. /\ pos' - origin' = FRAME * (Number + 1) /\ Number + 1 \in Nat
      /\ pos' \in Int /\ origin' \in Int
  <2>1. pos \in Nat /\ origin \in Int /\ Number \in Nat
        /\ pos - origin = FRAME * Number
    BY DEF BridgeTypes, Aligned, ReaderTypes
  <2> HIDE DEF Number
  <2> QED
    BY <1>1, <2>1, Units
<1>8. Number' = Number + 1
  BY <1>7, NumberOf DEF Number
<1> QED
  BY <1>6, <1>7, <1>8 DEF Aligned

LEMMA DisturbanceTypes ==
  ASSUME BridgeTypes, Stop \/ \E number \in Cuts : Cut(number)
  PROVE  BridgeTypes'
<1>1. CASE Stop
  <2>1. /\ pos' = pos + STOP /\ origin' = origin + STOP
        /\ UNCHANGED senderVars /\ UNCHANGED blocks /\ block' = block
    BY <1>1, StopStep DEF BridgeTypes, senderVars
  <2>2. /\ pos' - origin' = FRAME * Number /\ Number \in Nat
        /\ pos' \in Int /\ origin' \in Int
    BY <2>1, Units DEF BridgeTypes, Aligned, ReaderTypes
  <2>3. Aligned'
    BY <2>2, NumberOf DEF Number, Aligned
  <2>4. ReaderTypes'
    <3>1. tc_is_valid' \in BOOLEAN
      <4>1. tc_is_valid \in BOOLEAN /\ tc_is_valid' \in {FALSE, tc_is_valid}
        BY <1>1, StopStep DEF BridgeTypes, ReaderTypes
      <4> QED
        BY <4>1, Zenon
    <3>2. /\ pos' = pos + STOP /\ bit_count' = 0
          /\ disturbances' = disturbances + 1 /\ steady' = pos + STOP
          /\ UNCHANGED <<prev_frame, frame_rate, pending_frame_rate, frame_wrap,
                         frame_start, frame_pos, sync_pos, last_tc, clock>>
      BY <1>1, StopStep DEF BridgeTypes
    <3> QED
      BY <3>1, <3>2, Units DEF BridgeTypes, ReaderTypes
  <2> QED
    BY <2>1, <2>3, <2>4, SenderStays DEF BridgeTypes, BlockTypes
<1>2. ASSUME NEW number \in Cuts, Cut(number) PROVE BridgeTypes'
  <2>1. /\ pos' = pos + PART /\ origin' = pos + PART - number * FRAME
        /\ UNCHANGED senderVars /\ UNCHANGED blocks /\ block' = block
    BY <1>2, CutStep DEF senderVars
  <2>2. /\ pos' - origin' = FRAME * number /\ number \in Nat
        /\ pos' \in Int /\ origin' \in Int
    BY <2>1, Units, BridgeAssumption DEF BridgeTypes, ReaderTypes
  <2>3. Aligned'
    BY <2>2, NumberOf DEF Number, Aligned
  <2>4. ReaderTypes'
    <3>1. tc_is_valid' \in BOOLEAN
      BY <1>2, CutStep DEF BridgeTypes
    <3>2. /\ pos' = pos + PART /\ bit_count' = 0 /\ sync_pos' = pos + PART
          /\ disturbances' = disturbances + 1 /\ steady' = pos + PART
          /\ UNCHANGED <<prev_frame, frame_rate, pending_frame_rate, frame_wrap,
                         frame_start, frame_pos, last_tc, clock>>
      BY <1>2, CutStep DEF BridgeTypes
    <3> QED
      BY <3>1, <3>2, Units DEF BridgeTypes, ReaderTypes
  <2> QED
    BY <2>1, <2>3, <2>4, SenderStays DEF BridgeTypes, BlockTypes
<1> QED
  BY <1>1, <1>2

LEMMA TypesStep == BridgeTypes /\ [Next]_vars => BridgeTypes'
<1> SUFFICES ASSUME BridgeTypes, [Next]_vars PROVE BridgeTypes'
  OBVIOUS
<1> USE DEF BridgeTypes
<1>1. CASE Frame
  <2>1. ReaderTypes' /\ Aligned'
    BY <1>1, FrameTypes
  <2>2. frame_start + SECOND \in Nat
    BY Units DEF ReaderTypes
  <2>3. CASE NoBlock
    <3>1. UNCHANGED senderVars /\ UNCHANGED blocks /\ block' = block
      BY <2>3 DEF NoBlock, senderVars
    <3> QED
      BY <2>1, <3>1, SenderStays DEF BlockTypes
  <2>4. CASE Skipped
    <3>1. UNCHANGED blocks /\ block' = block
      BY <2>4 DEF Skipped, Sender!SkipBlock
    <3> QED
      BY <2>1, <2>2, <2>4, <3>1, SkipTypes DEF BlockTypes, Skipped
  <2>5. CASE Started
    <3>1. frame_rate' \in 1 .. 46
      BY <2>1 DEF ReaderTypes
    <3>2. NewBlock \in BlockType
      <4>1. frame_pos + SECOND \in Nat
        BY Units DEF ReaderTypes
      <4>2. (tc_is_valid /\ steady <= sync_pos) \in BOOLEAN
        BY DEF ReaderTypes
      <4>3. last_tc' + FRACTIONS \in Int /\ origin \in Int
        BY <2>1 DEF ReaderTypes, Aligned, FRACTIONS
      <4> QED
        BY <3>1, <4>1, <4>2, <4>3 DEF NewBlock, BlockType
    <3>3. block' = block + 1 /\ blocks' = Append(blocks, NewBlock)
      BY <2>5 DEF Started, Sender!StartBlock
    <3>4. BlockTypes'
      BY <3>2, <3>3 DEF BlockTypes
    <3> QED
      BY <2>1, <2>2, <2>5, <3>1, <3>4, StartTypes DEF Started
  <2> QED
    BY <1>1, <2>3, <2>4, <2>5, FrameStep
<1>2. CASE Stop \/ \E number \in Cuts : Cut(number)
  BY <1>2, DisturbanceTypes
<1>3. ASSUME Away, UNCHANGED clock, block' = block, Sender!TypeOK'
      PROVE  BridgeTypes'
  BY <1>3 DEF Away, readerVars, tapeVars, ReaderTypes, Aligned, Number,
              BlockTypes
<1>4. CASE Write
  BY <1>3, <1>4, WriteTypes DEF Write, Sender!WriteQuarterFrame
<1>5. CASE Drain
  BY <1>3, <1>5, DrainTypes DEF Drain, Sender!DrainMessage, Sender!historyVars
<1>6. CASE Leave
  BY <1>3, <1>6, LeaveTypes DEF Leave, Sender!Drained, Sender!Return,
                                Sender!Leave
<1>7. CASE Deliver
  <2>1. Away /\ UNCHANGED clock /\ block' = block
    BY <1>7 DEF Deliver, Sender!Deliver, Away
  <2> QED
    BY <1>3, <1>7, <2>1, DeliverTypes
<1>8. CASE Tick
  <2>1. /\ clock' = clock + TICK
        /\ UNCHANGED readerVars /\ UNCHANGED senderVars
        /\ UNCHANGED tapeVars /\ UNCHANGED blocks /\ block' = block
    BY <1>8 DEF Tick, senderVars
  <2>2. ReaderTypes'
    BY <2>1, BridgeAssumption DEF ReaderTypes, readerVars, tapeVars
  <2>3. Aligned' /\ BlockTypes'
    BY <2>1 DEF Aligned, Number, BlockTypes, readerVars, tapeVars
  <2> QED
    BY <2>1, <2>2, <2>3, SenderStays
<1>9. CASE UNCHANGED vars
  <2>1. Away /\ UNCHANGED clock /\ block' = block /\ UNCHANGED senderVars
    BY <1>9 DEF vars, senderVars, Away
  <2> QED
    BY <1>3, <2>1, SenderStays
<1> QED
  BY <1>1, <1>2, <1>4, <1>5, <1>6, <1>7, <1>8, <1>9, NextSteps

LEMMA InitTypes == Init => BridgeTypes
<1> SUFFICES ASSUME Init PROVE BridgeTypes
  OBVIOUS
<1>1. ReaderTypes
  <2>1. tc_is_valid \in BOOLEAN
    BY DEF Init, Reader!Init
  <2> QED
    BY <2>1, BridgeAssumption DEF Init, Reader!Init, ReaderTypes
<1>2. Aligned
  <2>1. pos - origin = FRAME * 0 /\ pos \in Int /\ origin \in Int
    BY Units DEF Init, Reader!Init
  <2>2. Number = 0
    BY <2>1, NumberOf DEF Number
  <2> QED
    BY <2>1, <2>2 DEF Aligned
<1>3. Sender!TypeOK
  <2>1. Sender!Stamp(0) \in Sender!StampType
    BY StampOfTime
  <2>2. << >> \in Seq(Sender!Messages)
    OBVIOUS
  <2> QED
    BY <2>1, <2>2, Units DEF Init, Sender!Init, Sender!TypeOK
<1>4. BlockTypes
  BY DEF Init, Sender!Init, BlockTypes
<1> QED
  BY <1>1, <1>2, <1>3, <1>4 DEF BridgeTypes

(* All fields of the reader and of the sender keep their types, and the    *)
(* reader gets frames that begin at whole numbers of frames.               *)
THEOREM TypeCorrect == Spec => []BridgeTypes
  BY InitTypes, TypesStep, PTL DEF Spec

(***************************************************************************)
(* Blocks at the frame rate of the tape overlap by the error of a start.   *)
(***************************************************************************)

(* The next stamp is at least a frame after the latest, but for its error. *)
StampInv ==
  /\ frame_pos <= pos
  /\ frame_start \in frame_pos .. frame_pos + MaxLate
  /\ last_when + FRAME <= frame_pos + SECOND + MaxLate

RateOf(n) == blocks[n].rate

(* Quarter frames of a block at the rate of the tape are QUARTER apart.    *)
SendInv ==
  pc = "send" =>
    /\ block > 0
    /\ RateOf(block) = RATE =>
         /\ time_step = QUARTER
         /\ Sender!Time(stamp) = last_when + qf * QUARTER
         /\ qf > 0 => block_end = Sender!Time(stamp)

(* Between two blocks either last_timestamp is the end of the one before,  *)
(* or a timecode was skipped in the middle of it and the frame of the next *)
(* begins after it, but for the error of a start.                          *)
IdleInv ==
  pc = "idle" /\ block > 0 /\ RateOf(block) = RATE =>
    \/ /\ block_end <= Sender!Time(last_timestamp)
       /\ block_end <= last_when + 2 * FRAME
    \/ block_end <= frame_pos + SECOND + MaxLate

PaceInv == StampInv /\ SendInv /\ IdleInv

(* What starts a block comes after the end of the one before it, but for   *)
(* the error.                                                              *)
LEMMA StartAfterEnd ==
  ASSUME BridgeTypes, PaceInv, Started, block > 0, RateOf(block) = RATE
  PROVE  block_end <= frame_start + SECOND + MaxLate
<1> DEFINE when == frame_start + SECOND
           s == Sender!Stamp(when)
<1>1. when \in Nat /\ MaxLate \in Nat
  BY Units, BridgeAssumption DEF BridgeTypes, ReaderTypes
<1>2. s \in Sender!StampType /\ Sender!Time(s) = when
  BY <1>1, StampOfTime
<1>3. Sender!Before(last_timestamp, s) /\ pc = "idle"
  BY DEF Started, Sender!StartBlock, Sender!Due
<1> HIDE DEF s
<1>4. /\ last_timestamp \in Sender!StampType
      /\ block_end \in Nat /\ last_when \in Nat
  BY DEF BridgeTypes, Sender!TypeOK
<1>5. /\ Sender!Time(last_timestamp) <= when
      /\ Sender!Time(last_timestamp) \in Nat
  BY <1>2, <1>3, <1>4, BeforeTime, TimeNat
<1>6. frame_pos + SECOND + MaxLate <= when + MaxLate
      /\ frame_pos + SECOND + MaxLate \in Nat
  BY <1>1, Units DEF PaceInv, StampInv, BridgeTypes, ReaderTypes
<1> HIDE DEF when
<1>7. block_end <= when + MaxLate
  BY <1>1, <1>3, <1>4, <1>5, <1>6, Units DEF PaceInv, IdleInv
<1> QED
  BY <1>7 DEF when

LEMMA LaterPlace ==
  ASSUME NEW p \in Nat, NEW q \in Nat, p <= q
  PROVE  /\ p + SECOND + MaxLate \in Nat /\ q + SECOND + MaxLate \in Nat
         /\ p + SECOND + MaxLate <= q + SECOND + MaxLate
  BY Units, BridgeAssumption

LEMMA PaceStays ==
  ASSUME BridgeTypes, PaceInv, UNCHANGED senderVars, UNCHANGED blocks,
         frame_pos' \in Nat, frame_pos <= frame_pos', frame_pos' <= pos',
         frame_start' \in frame_pos' .. frame_pos' + MaxLate
  PROVE  PaceInv'
<1> DEFINE a == frame_pos + SECOND + MaxLate
           b == frame_pos' + SECOND + MaxLate
<1>1. UNCHANGED <<pc, stamp, time_step, qf, last_when, block, block_end,
                  last_timestamp>>
  BY DEF senderVars
<1>2. last_when \in Nat /\ block_end \in Nat /\ last_when + FRAME <= a
  BY DEF BridgeTypes, ReaderTypes, Sender!TypeOK, PaceInv, StampInv
<1>3. a \in Nat /\ b \in Nat /\ a <= b
  BY LaterPlace DEF BridgeTypes, ReaderTypes
<1> HIDE DEF a, b
<1>4. ASSUME NEW n \in Nat, n <= a PROVE n <= b
  BY <1>3, <1>4
<1>5. StampInv'
  <2>1. last_when + FRAME <= b
    BY <1>2, <1>4, Units
  <2> QED
    BY <1>1, <2>1 DEF StampInv, b
<1>6. SendInv'
  BY <1>1 DEF PaceInv, SendInv, Sender!Time, RateOf
<1>7. IdleInv'
  <2>1. block_end <= frame_pos + SECOND + MaxLate =>
          block_end <= frame_pos' + SECOND + MaxLate
    BY <1>2, <1>4 DEF a, b
  <2> QED
    BY <1>1, <2>1 DEF PaceInv, IdleInv, Sender!Time, RateOf
<1> QED
  BY <1>5, <1>6, <1>7 DEF PaceInv

LEMMA PaceFrame == BridgeTypes /\ PaceInv /\ Frame => PaceInv'
<1> SUFFICES ASSUME BridgeTypes, PaceInv, Frame PROVE PaceInv'
  OBVIOUS
<1> DEFINE when == frame_start + SECOND
<1>1. /\ pos \in Nat /\ frame_start \in Nat /\ last_when \in Nat
      /\ frame_pos \in Nat /\ frame_pos <= pos /\ MaxLate \in Nat
      /\ frame_start <= frame_pos + MaxLate
      /\ last_when + FRAME <= frame_pos + SECOND + MaxLate /\ when \in Nat
  BY Units, BridgeAssumption
  DEF BridgeTypes, ReaderTypes, PaceInv, StampInv, Sender!TypeOK
<1>2. /\ pos' = pos + FRAME /\ frame_pos' = pos + FRAME
      /\ frame_start' \in frame_pos' .. frame_pos' + MaxLate
      /\ frame_pos + FRAME <= frame_pos'
  BY <1>1, FrameStep, Units
<1>3. CASE NoBlock
  <2>1. UNCHANGED senderVars /\ UNCHANGED blocks
    BY <1>3 DEF NoBlock
  <2>2. frame_pos' \in Nat /\ frame_pos <= frame_pos' /\ frame_pos' <= pos'
    BY <1>1, <1>2, Units
  <2> QED
    BY <1>2, <2>1, <2>2, PaceStays
<1>4. ASSUME last_when' = when PROVE StampInv'
  BY <1>1, <1>2, <1>4, Units DEF StampInv
<1>5. CASE Skipped
  <2>1. /\ last_when' = when /\ pc = "idle" /\ pc' = "idle"
        /\ UNCHANGED <<block, block_end>> /\ UNCHANGED blocks
    BY <1>5 DEF Skipped, Sender!SkipBlock
  <2>2. block_end \in Nat
    BY DEF BridgeTypes, Sender!TypeOK
  <2>3. block > 0 /\ RateOf(block) = RATE =>
          block_end <= frame_pos' + SECOND + MaxLate
    BY <1>1, <1>2, <2>1, <2>2, Units DEF PaceInv, IdleInv
  <2> HIDE DEF when
  <2>4. IdleInv' /\ SendInv'
    BY <2>1, <2>3 DEF IdleInv, SendInv, RateOf
  <2> QED
    BY <1>4, <2>1, <2>4 DEF PaceInv
<1>6. CASE Started
  <2>1. /\ last_when' = when /\ pc' = "send" /\ qf' = 0 /\ block' = block + 1
        /\ stamp' = Sender!Stamp(when)
        /\ time_step' = Sender!QuarterFrame(frame_rate')
        /\ blocks' = Append(blocks, NewBlock)
    BY <1>6 DEF Started, Sender!StartBlock
  <2>2. block \in Nat /\ Len(blocks) = block /\ blocks \in Seq(BlockType)
    BY DEF BridgeTypes, BlockTypes, Sender!TypeOK
  <2>3. blocks'[block'] = NewBlock
    BY <2>1, <2>2
  <2>4. RateOf(block)' = frame_rate'
    BY <2>3 DEF RateOf, NewBlock
  <2>5. Sender!Time(stamp)' = when
    BY <1>1, <2>1, StampOfTime DEF Sender!Time
  <2> HIDE DEF when
  <2>6. SendInv'
    BY <1>1, <2>1, <2>2, <2>4, <2>5, QuarterOfFrame, Units DEF SendInv
  <2>7. IdleInv'
    BY <2>1 DEF IdleInv
  <2> QED
    BY <1>4, <2>1, <2>6, <2>7 DEF PaceInv
<1> QED
  BY <1>3, <1>5, <1>6, FrameStep

LEMMA PaceWrite == BridgeTypes /\ PaceInv /\ Write => PaceInv'
<1> SUFFICES ASSUME BridgeTypes, PaceInv, Write PROVE PaceInv'
  OBVIOUS
<1>1. /\ pc = "send" /\ pc' = "send" /\ qf' = qf + 1
      /\ stamp' = Sender!Advance(stamp, time_step)
      /\ block_end' = Sender!Time(stamp')
      /\ UNCHANGED <<time_step, last_when, block, frame_start, frame_pos, pos>>
      /\ UNCHANGED blocks
  BY DEF Write, Sender!WriteQuarterFrame, Away, readerVars
<1>2. /\ stamp \in Sender!StampType /\ time_step \in 0 .. SECOND
      /\ qf \in Nat /\ last_when \in Nat
  BY DEF BridgeTypes, Sender!TypeOK
<1>3. /\ Sender!Time(stamp)' = Sender!Time(stamp) + time_step
      /\ block_end' = Sender!Time(stamp)'
  BY <1>1, <1>2, AdvanceTime DEF Sender!Time
<1>4. SendInv'
  BY <1>1, <1>2, <1>3, Units DEF PaceInv, SendInv, RateOf
<1>5. StampInv' /\ IdleInv'
  BY <1>1 DEF PaceInv, StampInv, IdleInv
<1> QED
  BY <1>4, <1>5 DEF PaceInv

LEMMA PaceLeave == BridgeTypes /\ PaceInv /\ Leave => PaceInv'
<1> SUFFICES ASSUME BridgeTypes, PaceInv, Leave PROVE PaceInv'
  OBVIOUS
<1>1. /\ pc = "send" /\ pc' = "idle" /\ qf = 8 /\ last_timestamp' = stamp
      /\ UNCHANGED <<last_when, block, block_end, frame_start, frame_pos, pos>>
      /\ UNCHANGED blocks
  BY DEF Leave, Sender!Drained, Sender!Return, Sender!Leave, Away, readerVars
<1>2. last_when \in Nat
  BY DEF BridgeTypes, Sender!TypeOK
<1>3. Sender!Time(last_timestamp)' = Sender!Time(stamp)
  BY <1>1 DEF Sender!Time
<1>4. IdleInv'
  BY <1>1, <1>2, <1>3, Units DEF PaceInv, SendInv, IdleInv, RateOf
<1>5. StampInv' /\ SendInv'
  BY <1>1 DEF PaceInv, StampInv, SendInv
<1> QED
  BY <1>4, <1>5 DEF PaceInv

LEMMA PaceStep == BridgeTypes /\ PaceInv /\ [Next]_vars => PaceInv'
<1> SUFFICES ASSUME BridgeTypes, PaceInv, [Next]_vars PROVE PaceInv'
  OBVIOUS
<1>1. /\ pos \in Nat /\ frame_pos \in Nat /\ frame_pos <= pos
      /\ frame_start \in frame_pos .. frame_pos + MaxLate
  BY DEF BridgeTypes, ReaderTypes, PaceInv, StampInv
<1>2. ASSUME NEW number \in Cuts, Cut(number) PROVE PaceInv'
  <2>1. /\ UNCHANGED senderVars /\ UNCHANGED blocks
        /\ frame_start' = frame_start /\ frame_pos' = frame_pos /\ pos' = pos + PART
    BY <1>2, CutStep
  <2> QED
    BY <1>1, <2>1, PaceStays, Units
<1>3. CASE Stop
  <2>1. /\ UNCHANGED senderVars /\ UNCHANGED blocks
        /\ frame_start' = frame_start /\ frame_pos' = frame_pos /\ pos' = pos + STOP
    BY <1>3, StopStep DEF BridgeTypes
  <2> QED
    BY <1>1, <2>1, PaceStays, Units
<1>4. CASE Drain \/ Deliver
  <2>1. UNCHANGED <<pc, stamp, time_step, qf, last_when, block, block_end,
                    last_timestamp, frame_start, frame_pos, pos, blocks>>
    BY <1>4 DEF Drain, Sender!DrainMessage, Sender!senderVars,
                Sender!historyVars, Deliver, Sender!Deliver, Away, readerVars
  <2> QED
    BY <2>1 DEF PaceInv, StampInv, SendInv, IdleInv, RateOf, Sender!Time
<1>5. CASE Tick \/ UNCHANGED vars
  <2>1. UNCHANGED senderVars /\ UNCHANGED blocks /\ UNCHANGED <<frame_start, frame_pos, pos>>
    BY <1>5 DEF Tick, vars, readerVars
  <2> QED
    BY <1>1, <2>1, PaceStays
<1> QED
  BY <1>2, <1>3, <1>4, <1>5, PaceFrame, PaceWrite, PaceLeave, NextSteps

LEMMA InitPace == Init => PaceInv
  BY Units, BridgeAssumption
  DEF Init, Reader!Init, Sender!Init, PaceInv, StampInv, SendInv, IdleInv

LEMMA PaceInvariant == Spec => [](BridgeTypes /\ PaceInv)
  BY InitTypes, InitPace, TypesStep, PaceStep, PTL DEF Spec

(* The number of the block changes where one is started.                   *)
LEMMA OnlyStarts ==
  ASSUME BridgeTypes, [Next]_vars, block' # block
  PROVE  Frame /\ Started
<1>1. CASE Frame
  <2>1. ~NoBlock /\ ~Skipped
    BY DEF NoBlock, Skipped, Sender!SkipBlock, senderVars
  <2> QED
    BY <1>1, <2>1, FrameStep
<1>2. ~(\E number \in Cuts : Cut(number)) /\ ~Stop
  BY DEF Cut, Stop, senderVars
<1>3. ~Write /\ ~Drain /\ ~Leave
  BY DEF Write, Drain, Leave, Sender!WriteQuarterFrame, Sender!DrainMessage,
         Sender!historyVars, Sender!Drained, Sender!Return, Sender!Leave
<1>4. ~Deliver /\ ~Tick /\ ~UNCHANGED vars
  BY DEF Deliver, Sender!Deliver, Tick, vars, senderVars
<1> QED
  BY <1>1, <1>2, <1>3, <1>4, NextSteps

(* The reader's stamps are far enough apart for blocks at the frame rate   *)
(* of the tape to overlap by no more than the error of a start, wherever   *)
(* the tape is cut and stops, whatever rate the reader starts with, however *)
(* small the pool is and however large the error.                          *)
THEOREM OverlapIsBounded == Spec => OverlapWithinError
<1>1. BridgeTypes /\ PaceInv /\ [Next]_vars =>
        [block' # block /\ block > 0 /\ blocks[block].rate = RATE =>
           block_end <= last_when' + MaxLate]_vars
  <2> SUFFICES ASSUME BridgeTypes, PaceInv, [Next]_vars, block' # block,
                      block > 0, blocks[block].rate = RATE
               PROVE  block_end <= last_when' + MaxLate
    OBVIOUS
  <2>1. Started
    BY OnlyStarts
  <2>2. block_end <= frame_start + SECOND + MaxLate
    BY <2>1, StartAfterEnd DEF RateOf
  <2> QED
    BY <2>1, <2>2 DEF Started, Sender!StartBlock
<1> QED
  BY <1>1, PaceInvariant, PTL DEF Spec, OverlapWithinError

(***************************************************************************)
(* Messages on the way, in the output buffer or in the pool.               *)
(***************************************************************************)
OnTheWay ==
  pool \union {output_buffer[j] : j \in 1 .. Len(output_buffer)}

NewMessage == [at |-> stamp, block |-> block, piece |-> qf]

TimeOf(m) == Sender!Time(m.at)

LEMMA MessageTypes ==
  ASSUME BridgeTypes, NEW m \in OnTheWay
  PROVE  /\ m.at \in Sender!StampType /\ m.block \in Nat /\ m.piece \in 0 .. 7
         /\ TimeOf(m) \in Nat
<1>1. m \in Sender!Messages
  BY DEF BridgeTypes, Sender!TypeOK, OnTheWay
<1> QED
  BY <1>1, TimeNat DEF Sender!Messages, TimeOf

LEMMA WriteMessage ==
  ASSUME BridgeTypes, Write
  PROVE  /\ pool' = pool
         /\ output_buffer' = Append(output_buffer, NewMessage)
         /\ Len(output_buffer') = Len(output_buffer) + 1
         /\ \A j \in 1 .. Len(output_buffer) : output_buffer'[j] = output_buffer[j]
         /\ output_buffer'[Len(output_buffer) + 1] = NewMessage
         /\ OnTheWay' \subseteq OnTheWay \union {NewMessage}
<1>1. /\ pool' = pool /\ output_buffer' = Append(output_buffer, NewMessage)
      /\ output_buffer \in Seq(Sender!Messages)
  BY DEF Write, Sender!WriteQuarterFrame, NewMessage, BridgeTypes, Sender!TypeOK
<1>2. /\ Len(output_buffer') = Len(output_buffer) + 1
      /\ \A j \in 1 .. Len(output_buffer) : output_buffer'[j] = output_buffer[j]
      /\ output_buffer'[Len(output_buffer) + 1] = NewMessage
  BY <1>1
<1>3. ASSUME NEW j \in 1 .. Len(output_buffer')
      PROVE  \/ j \in 1 .. Len(output_buffer)
             \/ output_buffer'[j] = NewMessage
  BY <1>1, <1>2
<1> QED
  BY <1>1, <1>2, <1>3 DEF OnTheWay

LEMMA DrainedMessage ==
  ASSUME BridgeTypes, Drain
  PROVE  /\ output_buffer # << >> /\ Len(output_buffer) >= 1
         /\ Head(output_buffer) = output_buffer[1]
         /\ pool' = pool \union {output_buffer[1]}
         /\ Len(output_buffer') = Len(output_buffer) - 1
         /\ \A j \in 1 .. Len(output_buffer) - 1 :
              output_buffer'[j] = output_buffer[j + 1]
         /\ OnTheWay' \subseteq OnTheWay
<1>1. /\ pool' = pool \union {Head(output_buffer)}
      /\ output_buffer' = Tail(output_buffer)
      /\ output_buffer \in Seq(Sender!Messages) /\ output_buffer # << >>
  BY DEF Drain, Sender!DrainMessage, BridgeTypes, Sender!TypeOK
<1>2. /\ Len(output_buffer) \in Nat /\ Len(output_buffer) >= 1
      /\ Head(output_buffer) = output_buffer[1]
      /\ Len(output_buffer') = Len(output_buffer) - 1
      /\ \A j \in 1 .. Len(output_buffer) - 1 :
           output_buffer'[j] = output_buffer[j + 1]
  BY <1>1
<1>3. output_buffer[1] \in OnTheWay
  BY <1>2 DEF OnTheWay
<1>4. ASSUME NEW j \in 1 .. Len(output_buffer')
      PROVE  output_buffer'[j] \in OnTheWay
  <2>1. j \in 1 .. Len(output_buffer) - 1 /\ j + 1 \in 1 .. Len(output_buffer)
    BY <1>2
  <2> QED
    BY <1>2, <2>1 DEF OnTheWay
<1>5. OnTheWay' \subseteq OnTheWay
  BY <1>1, <1>2, <1>3, <1>4 DEF OnTheWay
<1> QED
  BY <1>1, <1>2, <1>5

LEMMA DeliveredMessage ==
  ASSUME BridgeTypes, Deliver
  PROVE  \E m \in pool :
           /\ pool' = pool \ {m} /\ output_buffer' = output_buffer
           /\ OnTheWay' \subseteq OnTheWay
           /\ heard' = [block |-> m.block, piece |-> m.piece]
           /\ now' = IF now < TimeOf(m) THEN TimeOf(m) ELSE now
           /\ TimeOf(m) <= clock
           /\ \A other \in pool : TimeOf(m) <= TimeOf(other)
<1>1. PICK m \in pool :
        /\ Sender!DueFirst(m)
        /\ pool' = pool \ {m} /\ output_buffer' = output_buffer
        /\ heard' = [block |-> m.block, piece |-> m.piece]
        /\ now' = IF now < Sender!Time(m.at) THEN Sender!Time(m.at) ELSE now
  BY DEF Deliver, Sender!Deliver
<1>2. PICK due \in pool : TimeOf(due) <= clock
  BY DEF Deliver, MessageDue, TimeOf
<1>3. ASSUME NEW other \in pool PROVE TimeOf(m) <= TimeOf(other)
  <2>1. /\ m.at \in Sender!StampType /\ other.at \in Sender!StampType
        /\ TimeOf(m) \in Nat
    BY MessageTypes DEF OnTheWay
  <2>2. m = other \/ Sender!Before(m.at, other.at) \/ m.at = other.at
    BY <1>1 DEF Sender!DueFirst
  <2> QED
    BY <2>1, <2>2, BeforeTime DEF TimeOf
<1>4. TimeOf(m) <= clock
  <2>1. TimeOf(m) \in Nat /\ TimeOf(due) \in Nat /\ clock \in Nat
    BY MessageTypes DEF OnTheWay, BridgeTypes, ReaderTypes
  <2> QED
    BY <1>2, <1>3, <2>1
<1>5. OnTheWay' \subseteq OnTheWay
  BY <1>1 DEF OnTheWay
<1> QED
  BY <1>1, <1>3, <1>4, <1>5 DEF TimeOf

(* All other steps leave the messages where they are.                      *)
LEMMA MessagesStay ==
  ASSUME BridgeTypes, [Next]_vars, ~Write, ~Drain, ~Deliver
  PROVE  /\ pool' = pool /\ output_buffer' = output_buffer /\ OnTheWay' = OnTheWay
         /\ heard' = heard /\ now' = now
<1> SUFFICES /\ pool' = pool /\ output_buffer' = output_buffer
             /\ heard' = heard /\ now' = now
  BY DEF OnTheWay
<1>1. CASE Frame
  BY <1>1, FrameStep DEF NoBlock, Skipped, Started, senderVars,
       Sender!SkipBlock, Sender!StartBlock, Sender!alsaVars
<1>2. CASE UNCHANGED senderVars
  BY <1>2 DEF senderVars
<1>3. CASE Leave
  BY <1>3 DEF Leave, Sender!Drained, Sender!Return, Sender!Leave,
              Sender!alsaVars
<1>4. CASE Stop \/ \E number \in Cuts : Cut(number)
  BY <1>2, <1>4 DEF Stop, Cut
<1> QED
  BY <1>1, <1>2, <1>3, <1>4, NextSteps DEF Tick, vars

(* What is known of a block that was sent stays.                           *)
LEMMA BlocksStay ==
  ASSUME BridgeTypes, [Next]_vars
  PROVE  /\ block <= block'
         /\ \A n \in 1 .. block : blocks'[n] = blocks[n]
         /\ ~(Frame /\ Started) => block' = block /\ blocks' = blocks
<1>1. block \in Nat /\ blocks \in Seq(BlockType) /\ Len(blocks) = block
  BY DEF BridgeTypes, BlockTypes, Sender!TypeOK
<1>2. CASE Frame /\ Started
  <2>1. block' = block + 1 /\ blocks' = Append(blocks, NewBlock)
    BY <1>2 DEF Started, Sender!StartBlock
  <2> QED
    BY <1>1, <1>2, <2>1
<1>3. CASE ~(Frame /\ Started)
  <2>1. block' = block
    BY <1>3, OnlyStarts
  <2>2. blocks' = blocks
    <3>1. CASE Frame
      BY <1>3, <3>1, FrameStep DEF NoBlock, Skipped
    <3>2. CASE ~Frame
      BY <3>2, NextSteps DEF Cut, Stop, Write, Drain, Leave, Away, Deliver,
           Tick, vars
    <3> QED
      BY <3>1, <3>2
  <2> QED
    BY <1>1, <2>1, <2>2
<1> QED
  BY <1>2, <1>3

(* The clock stands still while others act, and the reader does not go     *)
(* back.                                                                   *)
LEMMA ClockStays ==
  ASSUME BridgeTypes, [Next]_vars, ~Tick
  PROVE  clock' = clock
  BY NextSteps, FrameStep, CutStep, StopStep
  DEF Write, Drain, Leave, Deliver, vars, BridgeTypes

LEMMA PlaceGrows ==
  ASSUME BridgeTypes, [Next]_vars
  PROVE  pos' \in Nat /\ pos <= pos'
<1>1. pos \in Nat
  BY DEF BridgeTypes, ReaderTypes
<1>2. CASE Frame
  BY <1>1, <1>2, FrameStep, Units
<1>3. CASE Stop \/ \E number \in Cuts : Cut(number)
  <2>1. pos' = pos + STOP \/ pos' = pos + PART
    BY <1>3, CutStep, StopStep DEF BridgeTypes
  <2> QED
    BY <1>1, <2>1, Units
<1>4. CASE Write \/ Drain \/ Leave \/ Deliver \/ Tick \/ UNCHANGED vars
  BY <1>1, <1>4 DEF Write, Drain, Leave, Away, Deliver, Tick, vars, readerVars
<1> QED
  BY <1>2, <1>3, <1>4, NextSteps

(***************************************************************************)
(* What is heard is where the tape is.                                     *)
(***************************************************************************)

(* A frame rate at which a frame is a whole number of fractions, like all  *)
(* that are in use (24, 25 and 30): the others are rounded at line 364.    *)
WholeFractions == FRACTIONS % RATE = 0

Sound(n) == blocks[n].fresh /\ blocks[n].rate = RATE

(* At time t the tape began the frame that block n names, a second ahead.  *)
Tells(n, t) == blocks[n].tc * SECOND = FRACTIONS * (t - blocks[n].origin)

TellInv == \A n \in 1 .. block : Sound(n) => Tells(n, blocks[n].ideal)

(* The reader's positions are multiples of 10.                             *)
Ten(t) == t % 10 = 0

PositionTens ==
  /\ Ten(pos) /\ Ten(frame_pos)
  /\ \A n \in 1 .. block : Ten(blocks[n].ideal)

(* Nothing of the tape lies between the start of the frame and the reader, *)
(* when the codeword before was accepted and the tape has not stopped.     *)
FreshStart ==
  /\ sync_pos <= pos
  /\ tc_is_valid => frame_pos = sync_pos
  /\ steady <= sync_pos => pos = sync_pos

(* The time of a quarter frame, but for the error of the start.            *)
Ideal(m) == blocks[m.block].ideal + QUARTER * m.piece

StampWhen ==
  pc = "send" =>
    last_when \in blocks[block].ideal .. blocks[block].ideal + MaxLate

MessageTells(m) ==
  /\ m.block \in 1 .. block
  /\ RateOf(m.block) = RATE => TimeOf(m) \in Ideal(m) .. Ideal(m) + MaxLate

PlaceInv ==
  /\ PositionTens /\ FreshStart /\ StampWhen
  /\ \A m \in OnTheWay : MessageTells(m)

(* A fresh message is in the pool before it is due, and the clock goes on  *)
(* past it by less than its resolution.                                    *)
OnTimeInv ==
  \A m \in pool : blocks[m.block].fresh => clock < TimeOf(m) + TICK

LEMMA BlockFields ==
  ASSUME BridgeTypes, NEW n \in 1 .. block
  PROVE  /\ blocks[n].tc \in Int /\ blocks[n].rate \in 1 .. 46
         /\ blocks[n].origin \in Int /\ blocks[n].ideal \in Nat
         /\ blocks[n].fresh \in BOOLEAN
<1>1. block \in Nat /\ Len(blocks) = block /\ blocks \in Seq(BlockType)
  BY DEF BridgeTypes, BlockTypes, Sender!TypeOK
<1>2. blocks[n] \in BlockType
  BY <1>1
<1> QED
  BY <1>2 DEF BlockType

LEMMA Tens ==
  /\ \A s, t \in Int : Ten(s) /\ Ten(t) => Ten(s + t)
  /\ Ten(FRAME) /\ Ten(STOP) /\ Ten(PART) /\ Ten(SECOND)
<1>1. \A s, t \in Int : Ten(s) /\ Ten(t) => Ten(s + t)
  BY DEF Ten
<1>2. Ten(FRAME) /\ Ten(STOP) /\ Ten(PART)
  BY Units DEF Ten
<1>3. Ten(SECOND)
  <2>1. RATE \in Nat
    BY BridgeAssumption
  <2> QED
    BY <2>1 DEF Ten, SECOND, FRAME
<1> QED
  BY <1>1, <1>2, <1>3

(* Of a whole number of fractions to a frame none is lost at line 364.     *)
LEMMA PositionExact ==
  ASSUME WholeFractions, NEW s \in Nat, NEW f \in Nat
  PROVE  Reader!TimePositionOf(s, f, RATE) * RATE = FRACTIONS * (RATE * s + f)
<1> DEFINE n == RATE * s + f
           k == FRACTIONS \div RATE
<1>1. RATE \in Nat /\ RATE > 0 /\ FRACTIONS \in Nat
  BY BridgeAssumption DEF FRACTIONS
<1>2. k \in Nat /\ FRACTIONS = RATE * k
  BY <1>1 DEF WholeFractions
<1>3. n \in Nat /\ s * RATE + f = n
  BY <1>1
<1> HIDE DEF n, k
<1>4. n * FRACTIONS = RATE * (n * k) /\ n * k \in Nat
  BY <1>1, <1>2, <1>3
<1>5. \A x \in Nat : (RATE * x) \div RATE = x
  BY <1>1
<1>6. (n * FRACTIONS) \div RATE = n * k
  BY <1>4, <1>5
<1>7. Reader!TimePositionOf(s, f, RATE) = n * k
  BY <1>3, <1>6 DEF Reader!TimePositionOf
<1>8. (n * k) * RATE = FRACTIONS * n
  BY <1>1, <1>2, <1>3
<1> QED
  BY <1>7, <1>8 DEF n

(* A block that starts.                                                    *)
LEMMA StartedBlock ==
  ASSUME BridgeTypes, Started
  PROVE  /\ pc = "idle" /\ pc' = "send" /\ qf' = 0
         /\ block \in Nat /\ block' = block + 1 /\ blocks'[block'] = NewBlock
         /\ last_when' = frame_start + SECOND
         /\ stamp' = Sender!Stamp(frame_start + SECOND)
<1>1. block \in Nat /\ Len(blocks) = block /\ blocks \in Seq(BlockType)
  BY DEF BridgeTypes, BlockTypes, Sender!TypeOK
<1>2. /\ pc = "idle" /\ pc' = "send" /\ qf' = 0
      /\ last_when' = frame_start + SECOND
      /\ stamp' = Sender!Stamp(frame_start + SECOND)
      /\ block' = block + 1 /\ blocks' = Append(blocks, NewBlock)
  BY DEF Started, Sender!StartBlock
<1> QED
  BY <1>1, <1>2

LEMMA StartTells ==
  ASSUME WholeFractions, BridgeTypes, PlaceInv, Frame, Started, Sound(block)'
  PROVE  Tells(block, blocks[block].ideal)'
<1>1. /\ blocks'[block'] = NewBlock
      /\ last_tc' = Reader!TimePositionOf(Number \div RATE, Number % RATE,
                                          frame_rate')
  BY StartedBlock DEF Started
<1>2. frame_rate' = RATE /\ tc_is_valid /\ steady <= sync_pos
  <2>1. NewBlock.fresh /\ NewBlock.rate = RATE
    BY <1>1, Zenon DEF Sound
  <2>2. NewBlock.fresh = (tc_is_valid /\ steady <= sync_pos)
    BY DEF NewBlock
  <2>3. NewBlock.rate = frame_rate'
    BY DEF NewBlock
  <2> QED
    BY <2>1, <2>2, <2>3, Zenon
<1>3. frame_pos = pos /\ pos \in Nat /\ origin \in Int
      /\ pos - origin = FRAME * Number /\ Number \in Nat
  BY <1>2 DEF PlaceInv, FreshStart, BridgeTypes, ReaderTypes, Aligned
<1> DEFINE x == last_tc'
           F == FRACTIONS
<1>4. x * RATE = F * Number /\ x \in Int
  <2>1. /\ Number \div RATE \in Nat /\ Number % RATE \in Nat
        /\ Number = RATE * (Number \div RATE) + (Number % RATE)
    BY NumberRange DEF BridgeTypes
  <2>2. x * RATE = F * (RATE * (Number \div RATE) + (Number % RATE))
    BY <1>1, <1>2, <2>1, PositionExact
  <2>3. x \in Int
    BY <1>1, <1>2, <2>1, TimePositionType, BridgeAssumption
  <2> QED
    BY <2>1, <2>2, <2>3
<1>5. (x + F) * SECOND = F * ((frame_pos + SECOND) - origin)
  <2>1. F \in Nat /\ RATE \in Nat /\ SECOND = RATE * 80 /\ SECOND \in Nat
    BY BridgeAssumption DEF FRACTIONS, SECOND, FRAME
  <2> HIDE DEF x, F, Number
  <2>2. (frame_pos + SECOND) - origin = 80 * Number + RATE * 80
    BY <1>3, <2>1, Units
  <2>3. (x + F) * (RATE * 80) = (x * RATE) * 80 + (F * RATE) * 80
    BY <1>4, <2>1
  <2>4. F * (80 * Number + RATE * 80) = (F * Number) * 80 + (F * RATE) * 80
    BY <1>3, <2>1
  <2> QED
    BY <1>4, <2>1, <2>2, <2>3, <2>4
<1>6. /\ blocks'[block'].tc = x + F /\ blocks'[block'].origin = origin
      /\ blocks'[block'].ideal = frame_pos + SECOND
  BY <1>1 DEF NewBlock
<1> HIDE DEF x, F
<1>7. blocks'[block'].tc * SECOND
        = F * (blocks'[block'].ideal - blocks'[block'].origin)
  <2>1. blocks'[block'].tc * SECOND = (x + F) * SECOND
    BY <1>6, Zenon
  <2>2. F * (blocks'[block'].ideal - blocks'[block'].origin)
          = F * ((frame_pos + SECOND) - origin)
    BY <1>6, Zenon
  <2> QED
    BY <1>5, <2>1, <2>2, Zenon
<1> QED
  BY <1>7 DEF Tells, F

LEMMA TellStep ==
  WholeFractions /\ BridgeTypes /\ PlaceInv /\ TellInv /\ [Next]_vars => TellInv'
<1> SUFFICES ASSUME WholeFractions, BridgeTypes, PlaceInv, TellInv, [Next]_vars,
                    NEW n \in 1 .. block', Sound(n)'
             PROVE  Tells(n, blocks[n].ideal)'
  BY DEF TellInv
<1>1. block \in Nat
  BY DEF BridgeTypes, Sender!TypeOK
<1>2. CASE n \in 1 .. block
  <2>1. blocks'[n] = blocks[n]
    BY <1>2, BlocksStay
  <2>2. Sound(n) /\ Tells(n, blocks[n].ideal)
    BY <1>2, <2>1 DEF TellInv, Sound
  <2> QED
    BY <2>1, <2>2, Zenon DEF Tells
<1>3. CASE n \notin 1 .. block
  <2>1. Frame /\ Started
    BY <1>3, BlocksStay, Zenon
  <2>2. n = block'
    BY <1>1, <1>3, <2>1, StartedBlock
  <2>3. Sound(block)'
    BY <2>2 DEF Sound
  <2>4. Tells(block, blocks[block].ideal)'
    BY <2>1, <2>3, StartTells
  <2> QED
    BY <2>2, <2>4, Zenon DEF Tells
<1> QED
  BY <1>2, <1>3

(* A quarter frame has the time that is its place in the block.            *)
LEMMA WriteTells ==
  ASSUME BridgeTypes, PaceInv, PlaceInv, Write
  PROVE  MessageTells(NewMessage)
<1>1. block \in Nat /\ block > 0 /\ pc = "send" /\ qf \in Nat /\ last_when \in Nat
  BY DEF Write, Sender!WriteQuarterFrame, PaceInv, SendInv, BridgeTypes,
         Sender!TypeOK
<1>2. /\ NewMessage.block = block /\ NewMessage.piece = qf
      /\ TimeOf(NewMessage) = Sender!Time(stamp)
  BY DEF NewMessage, TimeOf
<1>3. blocks[block].ideal \in Nat /\ MaxLate \in Nat
  BY <1>1, BlockFields, BridgeAssumption
<1>4. last_when \in blocks[block].ideal .. blocks[block].ideal + MaxLate
  BY <1>1 DEF PlaceInv, StampWhen
<1>5. ASSUME RateOf(block) = RATE
      PROVE  TimeOf(NewMessage) \in Ideal(NewMessage) .. Ideal(NewMessage) + MaxLate
  <2>1. TimeOf(NewMessage) = last_when + qf * QUARTER
    BY <1>1, <1>2, <1>5 DEF PaceInv, SendInv
  <2>2. Ideal(NewMessage) = blocks[block].ideal + QUARTER * qf
    BY <1>2 DEF Ideal
  <2>3. QUARTER * qf = qf * QUARTER /\ qf * QUARTER \in Nat
    BY <1>1, Units
  <2> QED
    BY <1>1, <1>3, <1>4, <2>1, <2>2, <2>3
<1> QED
  BY <1>1, <1>2, <1>5 DEF MessageTells

(* A message keeps what it tells.                                          *)
LEMMA KeepsTelling ==
  ASSUME BridgeTypes, [Next]_vars, NEW m, MessageTells(m)
  PROVE  /\ MessageTells(m)' /\ blocks'[m.block] = blocks[m.block]
         /\ Ideal(m)' = Ideal(m) /\ TimeOf(m)' = TimeOf(m)
<1>1. /\ block \in Nat /\ block' \in Nat /\ block <= block'
      /\ m.block \in 1 .. block /\ blocks'[m.block] = blocks[m.block]
  BY BlocksStay, TypesStep DEF MessageTells, BridgeTypes, Sender!TypeOK
<1>2. m.block \in 1 .. block'
  BY <1>1
<1>3. TimeOf(m)' = TimeOf(m)
  BY DEF TimeOf, Sender!Time
<1>4. Ideal(m)' = Ideal(m) /\ RateOf(m.block)' = RateOf(m.block)
  BY <1>1 DEF Ideal, RateOf
<1> QED
  BY <1>1, <1>2, <1>3, <1>4 DEF MessageTells

LEMMA OnTheWayTells ==
  ASSUME BridgeTypes, PaceInv, PlaceInv, [Next]_vars, NEW m \in OnTheWay'
  PROVE  /\ m \in OnTheWay \/ (Write /\ m = NewMessage)
         /\ MessageTells(m) /\ MessageTells(m)'
         /\ TimeOf(m)' = TimeOf(m)
         /\ Ideal(m)' = Ideal(m) /\ Ideal(m) \in Nat
<1>1. m \in OnTheWay \/ (Write /\ m = NewMessage)
  <2>1. CASE Write
    BY <2>1, WriteMessage
  <2>2. CASE Drain
    BY <2>2, DrainedMessage
  <2>3. CASE Deliver
    BY <2>3, DeliveredMessage
  <2>4. CASE ~Write /\ ~Drain /\ ~Deliver
    BY <2>4, MessagesStay
  <2> QED
    BY <2>1, <2>2, <2>3, <2>4
<1>2. MessageTells(m) /\ m.piece \in Nat
  <2>1. CASE m \in OnTheWay
    BY <2>1, MessageTypes DEF PlaceInv
  <2>2. CASE Write /\ m = NewMessage
    BY <2>2, WriteTells DEF NewMessage, BridgeTypes, Sender!TypeOK
  <2> QED
    BY <1>1, <2>1, <2>2
<1>3. Ideal(m) \in Nat
  <2>1. blocks[m.block].ideal \in Nat
    BY <1>2, BlockFields DEF MessageTells
  <2> QED
    BY <1>2, <2>1, Units DEF Ideal
<1> QED
  BY <1>1, <1>2, <1>3, KeepsTelling

LEMMA TensStep ==
  ASSUME BridgeTypes, PositionTens, [Next]_vars
  PROVE  PositionTens'
<1>1. /\ pos \in Int /\ frame_pos \in Int /\ Ten(pos) /\ Ten(frame_pos)
  BY DEF BridgeTypes, ReaderTypes, PositionTens
<1>2. /\ Ten(pos + FRAME) /\ Ten(pos + STOP) /\ Ten(pos + PART)
      /\ Ten(frame_pos + SECOND)
  <2>1. FRAME \in Int /\ STOP \in Int /\ PART \in Int /\ SECOND \in Int
    BY Units
  <2> QED
    BY <1>1, <2>1, Tens
<1>3. Ten(pos)' /\ Ten(frame_pos)'
  <2>1. CASE Frame
    BY <1>2, <2>1, FrameStep DEF Ten
  <2>2. ASSUME NEW number \in Cuts, Cut(number) PROVE Ten(pos)' /\ Ten(frame_pos)'
    BY <1>1, <1>2, <2>2, CutStep DEF Ten
  <2>3. CASE Stop
    BY <1>1, <1>2, <2>3, StopStep DEF Ten, BridgeTypes
  <2>4. CASE Write \/ Drain \/ Leave \/ Deliver \/ Tick \/ UNCHANGED vars
    BY <1>1, <2>4 DEF Write, Drain, Leave, Deliver, Tick, vars, Away, readerVars,
       Ten
  <2> QED
    BY <2>1, <2>2, <2>3, <2>4, NextSteps
<1>4. ASSUME NEW n \in 1 .. block' PROVE Ten(blocks'[n].ideal)
  <2>1. CASE n \in 1 .. block
    BY <2>1, BlocksStay DEF PositionTens
  <2>2. CASE n \notin 1 .. block
    <3>1. Frame /\ Started
      BY <2>2, BlocksStay, Zenon
    <3>2. blocks'[n] = NewBlock
      BY <2>2, <3>1, StartedBlock
    <3> QED
      BY <1>2, <3>2 DEF NewBlock
  <2> QED
    BY <2>1, <2>2
<1> QED
  BY <1>3, <1>4 DEF PositionTens, Ten

LEMMA FreshStep ==
  ASSUME BridgeTypes, FreshStart, [Next]_vars
  PROVE  FreshStart'
<1>1. pos \in Nat /\ sync_pos \in Nat /\ frame_pos \in Nat
  BY DEF BridgeTypes, ReaderTypes
<1>2. CASE Frame
  BY <1>1, <1>2, FrameStep, Units DEF FreshStart
<1>3. ASSUME NEW number \in Cuts, Cut(number) PROVE FreshStart'
  <2>1. pos' = pos + PART /\ sync_pos' = pos + PART /\ ~tc_is_valid'
    BY <1>3, CutStep
  <2> QED
    BY <1>1, <2>1, Units DEF FreshStart
<1>4. CASE Stop
  <2>1. /\ pos' = pos + STOP /\ steady' = pos + STOP
        /\ sync_pos' = sync_pos /\ frame_pos' = frame_pos
    BY <1>4, StopStep DEF BridgeTypes
  <2>2. tc_is_valid' => tc_is_valid
    <3>1. tc_is_valid' \in {FALSE, tc_is_valid}
      BY <1>4, StopStep DEF BridgeTypes
    <3> QED
      BY <3>1, Zenon
  <2> QED
    BY <1>1, <2>1, <2>2, Units DEF FreshStart
<1>5. CASE Write \/ Drain \/ Leave \/ Deliver \/ Tick \/ UNCHANGED vars
  BY <1>5 DEF Write, Drain, Leave, Deliver, Tick, vars, Away, readerVars,
     tapeVars, FreshStart
<1> QED
  BY <1>2, <1>3, <1>4, <1>5, NextSteps

LEMMA StampWhenStep ==
  ASSUME BridgeTypes, PaceInv, PlaceInv, [Next]_vars
  PROVE  StampWhen'
<1>1. CASE Frame /\ Started
  <2>1. /\ last_when' = frame_start + SECOND
        /\ blocks'[block'].ideal = frame_pos + SECOND
    BY <1>1, StartedBlock DEF NewBlock
  <2>2. frame_start \in frame_pos .. frame_pos + MaxLate
        /\ frame_pos \in Nat /\ MaxLate \in Nat
    BY BridgeAssumption DEF PaceInv, StampInv, BridgeTypes, ReaderTypes
  <2>3. frame_start + SECOND \in frame_pos + SECOND .. frame_pos + SECOND + MaxLate
    BY <2>2, Units
  <2> QED
    BY <2>1, <2>3 DEF StampWhen
<1>2. CASE ~(Frame /\ Started)
  <2>1. block' = block /\ blocks' = blocks
    BY <1>2, BlocksStay
  <2>2. pc' = "send" => pc = "send" /\ last_when' = last_when
    <3>1. CASE Frame
      BY <1>2, <3>1, FrameStep DEF NoBlock, Skipped, senderVars,
         Sender!SkipBlock
    <3>2. CASE ~Frame
      BY <3>2, NextSteps DEF Cut, Stop, Write, Drain, Leave, Deliver, Tick,
         vars, senderVars, Sender!WriteQuarterFrame, Sender!DrainMessage,
         Sender!senderVars, Sender!historyVars, Sender!Drained,
         Sender!Return, Sender!Leave, Sender!Deliver
    <3> QED
      BY <3>1, <3>2
  <2> QED
    BY <2>1, <2>2 DEF PlaceInv, StampWhen
<1> QED
  BY <1>1, <1>2

LEMMA PlaceStep ==
  BridgeTypes /\ PaceInv /\ PlaceInv /\ [Next]_vars => PlaceInv'
<1> SUFFICES ASSUME BridgeTypes, PaceInv, PlaceInv, [Next]_vars
             PROVE  PlaceInv'
  OBVIOUS
<1>1. \A m \in OnTheWay' : MessageTells(m)'
  BY OnTheWayTells
<1>2. PositionTens' /\ FreshStart' /\ StampWhen'
  BY TensStep, FreshStep, StampWhenStep DEF PlaceInv
<1> QED
  BY <1>1, <1>2 DEF PlaceInv

LEMMA InitPlace == Init => PlaceInv /\ TellInv
<1> SUFFICES ASSUME Init PROVE PlaceInv /\ TellInv
  OBVIOUS
<1>1. block = 0 /\ OnTheWay = {}
  BY DEF Init, Sender!Init, OnTheWay
<1>2. PositionTens /\ FreshStart /\ StampWhen
  BY <1>1 DEF Init, Reader!Init, Sender!Init, PositionTens, FreshStart, StampWhen,
     Ten
<1> QED
  BY <1>1, <1>2 DEF PlaceInv, TellInv

(***************************************************************************)
(* The clock reaches the time of a message.                                *)
(***************************************************************************)

(* FreshInFuture of one step.                                              *)
InFuture ==
  \A m \in pool' \ pool : blocks[m.block].fresh => clock < TimeOf(m)

LEMMA OnTimeStep ==
  BridgeTypes /\ PlaceInv /\ OnTimeInv /\ [Next]_vars /\ (vars' = vars \/ InFuture)
    => OnTimeInv'
<1> SUFFICES ASSUME BridgeTypes, PlaceInv, OnTimeInv, [Next]_vars,
                    vars' = vars \/ InFuture,
                    NEW m \in pool', blocks'[m.block].fresh
             PROVE  clock' < TimeOf(m)' + TICK
  BY DEF OnTimeInv
<1>1. m \in OnTheWay
  <2>1. pool' \subseteq pool \/ Drain
    BY DeliveredMessage, MessagesStay, WriteMessage
  <2>2. Drain => pool' \subseteq OnTheWay
    BY DrainedMessage DEF OnTheWay
  <2> QED
    BY <2>1, <2>2 DEF OnTheWay
<1>2. /\ TimeOf(m)' = TimeOf(m) /\ TimeOf(m) \in Nat
      /\ blocks'[m.block] = blocks[m.block]
      /\ clock \in Nat /\ TICK \in Nat /\ TICK > 0
  BY <1>1, KeepsTelling, MessageTypes, BridgeAssumption
  DEF PlaceInv, BridgeTypes, ReaderTypes
<1>3. CASE Tick
  <2>1. clock' = clock + TICK /\ pool' = pool /\ ~MessageDue
    BY <1>3 DEF Tick, senderVars
  <2>2. clock < TimeOf(m)
    BY <1>2, <2>1 DEF MessageDue, TimeOf
  <2> QED
    BY <1>2, <2>1, <2>2
<1>4. CASE ~Tick
  <2>1. clock' = clock
    BY <1>4, ClockStays
  <2>2. CASE m \in pool
    BY <1>2, <2>1, <2>2 DEF OnTimeInv
  <2>3. CASE m \notin pool
    <3>1. InFuture
      BY <2>3 DEF vars, senderVars
    <3>2. clock < TimeOf(m)
      BY <1>2, <2>3, <3>1 DEF InFuture
    <3> QED
      BY <1>2, <2>1, <3>2
  <2> QED
    BY <2>2, <2>3
<1> QED
  BY <1>3, <1>4

LEMMA InitOnTime == Init => OnTimeInv
  BY DEF Init, Sender!Init, OnTimeInv

(* How late a quarter frame is, at d after its time.                       *)
LEMMA LateBy ==
  ASSUME NEW d \in Nat, d < MaxLate + TICK
  PROVE  0 <= FRACTIONS * d /\ FRACTIONS * d < FRACTIONS * (MaxLate + TICK)
<1>1. MaxLate + TICK \in Nat
  BY BridgeAssumption
<1> QED
  BY <1>1 DEF FRACTIONS

(* InSync of one step.                                                     *)
SyncStep ==
  heard' # heard /\ Good(blocks[heard'.block]) =>
    LET late == Late(heard'.piece, blocks[heard'.block].tc)
    IN  0 <= late /\ late < FRACTIONS * (MaxLate + TICK)

LEMMA HeardInSync ==
  ASSUME BridgeTypes, PlaceInv, TellInv, OnTimeInv, [Next]_vars
  PROVE  SyncStep
<1> SUFFICES ASSUME heard' # heard, Good(blocks[heard'.block])
             PROVE  LET late == Late(heard'.piece, blocks[heard'.block].tc)
                    IN  0 <= late /\ late < FRACTIONS * (MaxLate + TICK)
  BY DEF SyncStep
<1>1. Deliver
  BY MessagesStay DEF Write, Drain, Sender!WriteQuarterFrame,
     Sender!DrainMessage, Sender!historyVars
<1>2. PICK m \in pool :
        /\ heard' = [block |-> m.block, piece |-> m.piece]
        /\ TimeOf(m) <= clock
  BY <1>1, DeliveredMessage
<1>3. m \in OnTheWay /\ MessageTells(m)
  BY DEF OnTheWay, PlaceInv
<1>4. /\ Sound(m.block) /\ blocks[m.block].origin = origin
      /\ heard'.block = m.block /\ heard'.piece = m.piece
      /\ m.block \in 1 .. block
  BY <1>2, <1>3 DEF Good, Sound, MessageTells
<1> DEFINE i == blocks[m.block].ideal
           t == TimeOf(m)
           n == m.piece
           d == clock - n * QUARTER - i
<1>5. /\ clock \in Nat /\ t \in Nat /\ n \in Nat /\ origin \in Int
      /\ i \in Nat /\ MaxLate \in Nat /\ TICK \in Nat
  BY <1>3, <1>4, MessageTypes, BlockFields, BridgeAssumption
  DEF BridgeTypes, ReaderTypes, Aligned
<1>6. t <= clock /\ clock < t + TICK
  BY <1>2, <1>4 DEF OnTimeInv, Sound
<1>7. t \in i + QUARTER * n .. i + QUARTER * n + MaxLate
  BY <1>3, <1>4 DEF MessageTells, Ideal, RateOf, Sound
<1>8. blocks[m.block].tc * SECOND = FRACTIONS * (i - origin)
  BY <1>4, Zenon DEF TellInv, Tells
<1> HIDE DEF i, t, n
<1>9. d \in Nat /\ d < MaxLate + TICK
  BY <1>5, <1>6, <1>7, Units
<1>10. Late(n, blocks[m.block].tc) = FRACTIONS * d
  <2>1. Late(n, blocks[m.block].tc)
          = FRACTIONS * (clock - n * QUARTER - origin) - FRACTIONS * (i - origin)
    BY <1>8 DEF Late, QUARTER
  <2>2. ASSUME NEW a \in Int, NEW b \in Int
        PROVE  FRACTIONS * (a - origin) - FRACTIONS * (b - origin)
                 = FRACTIONS * (a - b)
    BY <1>5 DEF FRACTIONS
  <2>3. clock - n * QUARTER \in Int
    BY <1>5, Units
  <2> QED
    BY <1>5, <2>1, <2>2, <2>3
<1>11. 0 <= FRACTIONS * d /\ FRACTIONS * d < FRACTIONS * (MaxLate + TICK)
  BY <1>9, LateBy
<1> QED
  BY <1>4, <1>10, <1>11 DEF n

(* When messages reach the kernel before they are due, what is heard is    *)
(* where the tape is, but for the error of a start and the resolution of   *)
(* the clock: reading late, waiting for the pool, skipping frames, cuts    *)
(* and stops have no part in it.                                           *)
THEOREM InSyncWhenInFuture ==
  ASSUME WholeFractions
  PROVE  Spec /\ FreshInFuture => InSync
<1>1. Spec /\ FreshInFuture => [](BridgeTypes /\ PlaceInv /\ TellInv /\ OnTimeInv)
  <2>1. BridgeTypes /\ PaceInv /\ PlaceInv /\ TellInv /\ OnTimeInv /\ [Next]_vars
        /\ [\A m \in pool' \ pool :
              blocks[m.block].fresh => clock < Sender!Time(m.at)]_vars
        => (BridgeTypes /\ PaceInv /\ PlaceInv /\ TellInv /\ OnTimeInv)'
    BY TypesStep, PaceStep, PlaceStep, TellStep, OnTimeStep DEF InFuture, TimeOf
  <2> QED
    BY <2>1, InitTypes, InitPace, InitPlace, InitOnTime, PTL
    DEF Spec, FreshInFuture
<1>2. BridgeTypes /\ PlaceInv /\ TellInv /\ OnTimeInv /\ [Next]_vars =>
        [heard' # heard /\ Good(blocks[heard'.block]) =>
           LET late == Late(heard'.piece, blocks[heard'.block].tc)
           IN  0 <= late /\ late < FRACTIONS * (MaxLate + TICK)]_vars
  BY HeardInSync DEF SyncStep
<1> QED
  BY <1>1, <1>2, PTL DEF Spec, InSync

(***************************************************************************)
(* The order of messages.                                                  *)
(***************************************************************************)

(* Every block so far was sent at the frame rate of the tape: the reader   *)
(* knows it, and has not been misled.                                      *)
AtRate == \A n \in 1 .. Len(blocks) : blocks[n].rate = RATE

(* A start is in error by less than an eighth of a frame.                  *)
SmallLate == MaxLate < 10

(* The end of what has been written of the latest block, but for the error *)
(* of its start.                                                           *)
EndOf == IF block = 0 THEN 0 ELSE blocks[block].ideal + QUARTER * qf

(* Between two blocks either last_timestamp is the end of the one before,  *)
(* or the reader has come to the end of it.                                *)
EndInv ==
  /\ block > 0 => blocks[block].ideal + FRAME <= frame_pos + SECOND
  /\ pc = "idle" /\ block > 0 =>
       /\ qf = 8
       /\ EndOf <= Sender!Time(last_timestamp) \/ EndOf <= frame_pos + SECOND
  /\ \A m \in OnTheWay : Ideal(m) + QUARTER <= EndOf

(* ... what is in the output buffer follows what is in the pool, ...       *)
BufferInv ==
  /\ pc = "idle" => output_buffer = << >>
  /\ \A i, j \in 1 .. Len(output_buffer) :
       i < j => Ideal(output_buffer[i]) + QUARTER <= Ideal(output_buffer[j])
  /\ \A m \in pool, j \in 1 .. Len(output_buffer) :
       Ideal(m) + QUARTER <= Ideal(output_buffer[j])

(* ... and no two messages in the pool are closer than a quarter frame.    *)
PoolInv ==
  /\ IsFiniteSet(pool) /\ Cardinality(pool) <= PoolSize
  /\ \A m, n \in pool :
       \/ m = n
       \/ Ideal(m) + QUARTER <= Ideal(n)
       \/ Ideal(n) + QUARTER <= Ideal(m)

OrderInv == EndInv /\ BufferInv /\ PoolInv

LEMMA BlockAtRate ==
  ASSUME BridgeTypes, AtRate
  PROVE  block > 0 => RateOf(block) = RATE
<1>1. block \in Nat /\ Len(blocks) = block
  BY DEF BridgeTypes, BlockTypes, Sender!TypeOK
<1> QED
  BY <1>1 DEF AtRate, RateOf

LEMMA EndOfType ==
  ASSUME BridgeTypes
  PROVE  EndOf \in Nat
<1>1. block \in Nat /\ qf \in Nat
  BY DEF BridgeTypes, Sender!TypeOK
<1>2. block > 0 => blocks[block].ideal \in Nat
  BY <1>1, BlockFields
<1> QED
  BY <1>1, <1>2, Units DEF EndOf

(* The next quarter frame comes after all others.                          *)
LEMMA WriteAtEnd ==
  ASSUME BridgeTypes, PaceInv, Write
  PROVE  /\ Ideal(NewMessage) = EndOf /\ EndOf' = EndOf + QUARTER
         /\ pc = "send" /\ pc' = "send" /\ block' = block /\ blocks' = blocks
         /\ block > 0 /\ frame_pos' = frame_pos
<1>1. /\ pc = "send" /\ pc' = "send" /\ block' = block /\ blocks' = blocks
      /\ qf' = qf + 1 /\ frame_pos' = frame_pos
  BY DEF Write, Sender!WriteQuarterFrame, Away, readerVars
<1>2. block > 0 /\ block \in Nat /\ qf \in Nat
  BY <1>1 DEF PaceInv, SendInv, BridgeTypes, Sender!TypeOK
<1>3. blocks[block].ideal \in Nat
  BY <1>2, BlockFields
<1>4. Ideal(NewMessage) = EndOf
  BY <1>2 DEF Ideal, NewMessage, EndOf
<1>5. EndOf' = EndOf + QUARTER
  BY <1>1, <1>2, <1>3, Units DEF EndOf, QUARTER
<1> QED
  BY <1>1, <1>2, <1>4, <1>5

(* A block starts where the one before it ended, or later.                 *)
LEMMA StartAtEnd ==
  ASSUME SmallLate, BridgeTypes, PaceInv, PlaceInv, EndInv, Frame, Started
  PROVE  /\ EndOf <= frame_pos + SECOND /\ EndOf' = frame_pos + SECOND
         /\ blocks'[block'].ideal = frame_pos + SECOND /\ pc' = "send"
<1>1. /\ pc = "idle" /\ pc' = "send" /\ qf' = 0 /\ block \in Nat
      /\ block' = block + 1 /\ blocks'[block'].ideal = frame_pos + SECOND
      /\ frame_pos + SECOND \in Nat
  BY StartedBlock, Units DEF NewBlock, BridgeTypes, ReaderTypes
<1>2. EndOf' = frame_pos + SECOND
  BY <1>1, Units DEF EndOf
<1>3. EndOf <= frame_pos + SECOND
  <2>1. CASE block = 0
    BY <1>1, <2>1 DEF EndOf
  <2>2. CASE block > 0 /\ EndOf <= Sender!Time(last_timestamp)
    <3> DEFINE when == frame_start + SECOND
               s == Sender!Stamp(when)
    <3>1. when \in Nat /\ last_timestamp \in Sender!StampType
      BY Units DEF BridgeTypes, ReaderTypes, Sender!TypeOK
    <3>2. /\ s \in Sender!StampType /\ Sender!Time(s) = when
          /\ Sender!Before(last_timestamp, s)
      BY <3>1, StampOfTime DEF Started, Sender!StartBlock, Sender!Due
    <3> HIDE DEF s
    <3>3. Sender!Time(last_timestamp) <= when /\ Sender!Time(last_timestamp) \in Nat
      BY <3>1, <3>2, BeforeTime, TimeNat
    <3>4. when <= frame_pos + SECOND + MaxLate /\ MaxLate \in 0 .. 9
      <4>1. frame_start \in frame_pos .. frame_pos + MaxLate
            /\ MaxLate \in Nat /\ frame_pos \in Nat /\ MaxLate < 10
        BY BridgeAssumption DEF PaceInv, StampInv, SmallLate, BridgeTypes,
           ReaderTypes
      <4> QED
        BY <4>1, Units
    <3>5. Ten(EndOf) /\ Ten(frame_pos + SECOND)
      <4>1. Ten(frame_pos) /\ frame_pos \in Nat /\ Ten(blocks[block].ideal)
            /\ blocks[block].ideal \in Nat /\ qf = 8
        BY <1>1, <2>2, BlockFields DEF PlaceInv, PositionTens, BridgeTypes,
           ReaderTypes, EndInv
      <4>2. Ten(frame_pos + SECOND)
        BY <4>1, Tens, Units
      <4>3. EndOf = blocks[block].ideal + 160
        BY <2>2, <4>1, Units DEF EndOf
      <4> QED
        BY <4>1, <4>2, <4>3 DEF Ten
    <3> HIDE DEF when
    <3>6. EndOf \in Nat /\ EndOf <= frame_pos + SECOND + MaxLate
      BY <1>1, <2>2, <3>1, <3>3, <3>4, EndOfType
    <3>7. ASSUME NEW a \in Nat, NEW b \in Nat, Ten(a), Ten(b), a <= b + MaxLate
          PROVE  a <= b
      BY <3>4, <3>7 DEF Ten
    <3> QED
      BY <1>1, <3>5, <3>6, <3>7
  <2>3. CASE block > 0 /\ EndOf <= frame_pos + SECOND
    BY <2>3
  <2> QED
    BY <1>1, <2>1, <2>2, <2>3 DEF EndInv
<1> QED
  BY <1>1, <1>2, <1>3

(* No other step moves it.                                                 *)
LEMMA EndStays ==
  ASSUME BridgeTypes, PaceInv, [Next]_vars, ~Write, ~(Frame /\ Started)
  PROVE  /\ EndOf' = EndOf /\ block' = block /\ blocks' = blocks /\ qf' = qf
         /\ OnTheWay' \subseteq OnTheWay
         /\ frame_pos' \in Nat /\ frame_pos <= frame_pos'
         /\ ~Leave => pc' = pc
         /\ ~Leave /\ ~Frame => last_timestamp' = last_timestamp
<1>1. block' = block /\ blocks' = blocks
  BY BlocksStay
<1>2. OnTheWay' \subseteq OnTheWay
  BY DrainedMessage, DeliveredMessage, MessagesStay
<1>3. frame_pos \in Nat /\ pos \in Nat /\ frame_pos <= pos
  BY DEF BridgeTypes, ReaderTypes, PaceInv, StampInv
<1>4. CASE Frame
  <2>1. qf' = qf /\ pc' = pc /\ frame_pos' = pos + FRAME
    BY <1>4, FrameStep DEF NoBlock, Skipped, senderVars, Sender!SkipBlock
  <2> QED
    BY <1>1, <1>2, <1>3, <1>4, <2>1, Units DEF EndOf
<1>5. ASSUME UNCHANGED <<frame_pos, pc, qf, last_timestamp>>
      PROVE  /\ EndOf' = EndOf /\ qf' = qf
             /\ frame_pos' \in Nat /\ frame_pos <= frame_pos'
             /\ pc' = pc /\ last_timestamp' = last_timestamp
  BY <1>1, <1>3, <1>5 DEF EndOf
<1>6. ASSUME NEW number \in Cuts, Cut(number)
      PROVE  UNCHANGED <<frame_pos, pc, qf, last_timestamp>>
  BY <1>6, CutStep DEF senderVars
<1>7. CASE Stop
  <2>1. UNCHANGED <<frame_pos, pc, qf, last_timestamp>>
    BY <1>7, StopStep DEF senderVars, BridgeTypes
  <2> QED
    BY <1>1, <1>2, <1>5, <2>1
<1>8. CASE Drain \/ Deliver \/ Tick \/ UNCHANGED vars
  <2>1. UNCHANGED <<frame_pos, pc, qf, last_timestamp>>
    BY <1>8 DEF Drain, Deliver, Tick, vars, Away, readerVars, senderVars,
       Sender!DrainMessage, Sender!senderVars, Sender!Deliver
  <2> QED
    BY <1>1, <1>2, <1>5, <2>1
<1>9. CASE Leave
  <2>1. qf' = qf /\ frame_pos' = frame_pos
    BY <1>9 DEF Leave, Away, readerVars, Sender!Drained, Sender!Return,
       Sender!Leave
  <2> QED
    BY <1>1, <1>2, <1>3, <1>9, <2>1 DEF EndOf
<1> QED
  BY <1>1, <1>2, <1>4, <1>5, <1>6, <1>7, <1>8, <1>9, NextSteps

LEMMA EndStep ==
  ASSUME SmallLate, BridgeTypes, PaceInv, PlaceInv, EndInv, AtRate, [Next]_vars
  PROVE  EndInv'
<1>1. /\ EndOf \in Nat /\ frame_pos \in Nat /\ pos \in Nat /\ frame_pos <= pos
      /\ block \in Nat /\ qf \in Nat
  BY EndOfType DEF BridgeTypes, ReaderTypes, PaceInv, StampInv, Sender!TypeOK
<1>2. \A m \in OnTheWay : Ideal(m) + QUARTER <= EndOf
  BY DEF EndInv
<1>3. CASE Write
  <2>1. /\ Ideal(NewMessage) = EndOf /\ EndOf' = EndOf + QUARTER
        /\ pc' = "send" /\ block' = block /\ blocks' = blocks
        /\ frame_pos' = frame_pos
    BY <1>3, WriteAtEnd
  <2>2. ASSUME NEW m \in OnTheWay' PROVE Ideal(m)' + QUARTER <= EndOf'
    <3>1. /\ m \in OnTheWay \/ m = NewMessage
          /\ Ideal(m)' = Ideal(m) /\ Ideal(m) \in Nat
      BY OnTheWayTells
    <3>2. Ideal(m) <= EndOf
      BY <1>1, <1>2, <2>1, <3>1, Units
    <3> QED
      BY <1>1, <2>1, <3>1, <3>2, Units
  <2> QED
    BY <2>1, <2>2 DEF EndInv
<1>4. CASE Frame /\ Started
  <2>1. /\ EndOf <= frame_pos + SECOND /\ EndOf' = frame_pos + SECOND
        /\ blocks'[block'].ideal = frame_pos + SECOND /\ pc' = "send"
        /\ frame_pos' = pos + FRAME
    BY <1>4, StartAtEnd, FrameStep
  <2>2. ASSUME NEW m \in OnTheWay' PROVE Ideal(m)' + QUARTER <= EndOf'
    <3>1. m \in OnTheWay /\ Ideal(m)' = Ideal(m) /\ Ideal(m) \in Nat
      BY <1>4, OnTheWayTells DEF Write, Sender!WriteQuarterFrame, Started,
         Sender!StartBlock
    <3> QED
      BY <1>1, <1>2, <2>1, <3>1, Units
  <2>3. blocks'[block'].ideal + FRAME <= frame_pos' + SECOND
    BY <1>1, <2>1, Units
  <2> QED
    BY <2>1, <2>2, <2>3 DEF EndInv
<1>5. CASE ~Write /\ ~(Frame /\ Started)
  <2>1. /\ EndOf' = EndOf /\ block' = block /\ blocks' = blocks /\ qf' = qf
        /\ OnTheWay' \subseteq OnTheWay
        /\ frame_pos' \in Nat /\ frame_pos <= frame_pos'
        /\ ~Leave => pc' = pc
        /\ ~Leave /\ ~Frame => last_timestamp' = last_timestamp
    BY <1>5, EndStays
  <2>2. \A m \in OnTheWay' : Ideal(m)' + QUARTER <= EndOf'
    BY <1>2, <2>1, OnTheWayTells
  <2>3. block > 0 =>
          /\ blocks[block].ideal \in Nat
          /\ blocks[block].ideal + FRAME <= frame_pos + SECOND
          /\ EndOf = blocks[block].ideal + QUARTER * qf
    BY <1>1, BlockFields DEF EndInv, EndOf
  <2>4. block > 0 => blocks[block].ideal + FRAME <= frame_pos' + SECOND
    BY <1>1, <2>1, <2>3, Units
  <2>5. ASSUME pc' = "idle", block > 0
        PROVE  /\ qf = 8
               /\ EndOf <= Sender!Time(last_timestamp)' \/ EndOf <= frame_pos' + SECOND
    <3>1. CASE Leave
      <4>1. /\ pc = "send" /\ qf = 8 /\ last_timestamp' = stamp
        BY <3>1 DEF Leave, Sender!Drained, Sender!Return, Sender!Leave
      <4>2. Sender!Time(last_timestamp)' = last_when + 8 * QUARTER
        <5>1. RateOf(block) = RATE
          BY <2>5, BlockAtRate
        <5> QED
          BY <4>1, <5>1 DEF PaceInv, SendInv, Sender!Time
      <4>3. last_when \in blocks[block].ideal .. blocks[block].ideal + MaxLate
        BY <4>1 DEF PlaceInv, StampWhen
      <4>4. MaxLate \in Nat
        BY BridgeAssumption
      <4>5. EndOf <= last_when + 8 * QUARTER
        BY <2>3, <2>5, <4>1, <4>3, <4>4, Units
      <4> QED
        BY <4>1, <4>2, <4>5
    <3>2. CASE Frame
      <4>1. pc = "idle" /\ frame_pos' = pos + FRAME
        BY <3>2, FrameStep
      <4>2. qf = 8
        BY <2>5, <4>1 DEF EndInv
      <4> QED
        BY <1>1, <2>3, <2>5, <4>1, <4>2, Units
    <3>3. CASE ~Leave /\ ~Frame
      <4>1. pc = "idle" /\ Sender!Time(last_timestamp)' = Sender!Time(last_timestamp)
        BY <2>1, <2>5, <3>3 DEF Sender!Time
      <4>2. /\ qf = 8
            /\ EndOf <= Sender!Time(last_timestamp) \/ EndOf <= frame_pos + SECOND
        BY <2>5, <4>1 DEF EndInv
      <4>3. EndOf <= frame_pos + SECOND => EndOf <= frame_pos' + SECOND
        <5>1. frame_pos' \in Nat /\ frame_pos <= frame_pos'
          BY <2>1
        <5>2. ASSUME NEW p \in Nat, frame_pos <= p, EndOf <= frame_pos + SECOND
              PROVE  EndOf <= p + SECOND
          BY <1>1, <5>2, Units
        <5> QED
          BY <5>1, <5>2
      <4> QED
        BY <4>1, <4>2, <4>3
    <3> QED
      BY <3>1, <3>2, <3>3
  <2> QED
    BY <2>1, <2>2, <2>4, <2>5 DEF EndInv
<1> QED
  BY <1>3, <1>4, <1>5

(* Messages keep their order where they are.                               *)
LEMMA BufferWrite ==
  ASSUME BridgeTypes, PaceInv, EndInv, BufferInv, Write
  PROVE  /\ \A i, j \in 1 .. Len(output_buffer') :
              i < j => Ideal(output_buffer'[i]) + QUARTER <= Ideal(output_buffer'[j])
         /\ \A m \in pool', j \in 1 .. Len(output_buffer') :
              Ideal(m) + QUARTER <= Ideal(output_buffer'[j])
<1> DEFINE len == Len(output_buffer)
<1>1. ASSUME NEW m \in OnTheWay
      PROVE  Ideal(m) + QUARTER <= Ideal(NewMessage)
  BY WriteAtEnd DEF EndInv
<1>2. len \in Nat /\ \A j \in 1 .. len : output_buffer[j] \in OnTheWay
  BY DEF OnTheWay, BridgeTypes, Sender!TypeOK
<1>3. /\ pool' = pool /\ Len(output_buffer') = len + 1
      /\ \A j \in 1 .. len : output_buffer'[j] = output_buffer[j]
      /\ output_buffer'[len + 1] = NewMessage
  BY WriteMessage
<1> HIDE DEF len
<1>4. ASSUME NEW i \in 1 .. len + 1, NEW j \in 1 .. len + 1, i < j
      PROVE  Ideal(output_buffer'[i]) + QUARTER <= Ideal(output_buffer'[j])
  <2>1. i \in 1 .. len
    BY <1>2, <1>4
  <2>2. CASE j \in 1 .. len
    BY <1>3, <1>4, <2>1, <2>2 DEF BufferInv, len
  <2>3. CASE j = len + 1
    BY <1>1, <1>2, <1>3, <2>1, <2>3
  <2> QED
    BY <1>2, <2>2, <2>3
<1>5. ASSUME NEW m \in pool, NEW j \in 1 .. len + 1
      PROVE  Ideal(m) + QUARTER <= Ideal(output_buffer'[j])
  <2>1. CASE j \in 1 .. len
    BY <1>3, <2>1 DEF BufferInv, len
  <2>2. CASE j = len + 1
    BY <1>1, <1>3, <2>2 DEF OnTheWay
  <2> QED
    BY <1>2, <2>1, <2>2
<1> QED
  BY <1>3, <1>4, <1>5

LEMMA BufferDrain ==
  ASSUME BridgeTypes, BufferInv, Drain
  PROVE  /\ \A i, j \in 1 .. Len(output_buffer') :
              i < j => Ideal(output_buffer'[i]) + QUARTER <= Ideal(output_buffer'[j])
         /\ \A m \in pool', j \in 1 .. Len(output_buffer') :
              Ideal(m) + QUARTER <= Ideal(output_buffer'[j])
<1> DEFINE len == Len(output_buffer)
<1>1. /\ len \in Nat /\ len >= 1 /\ Len(output_buffer') = len - 1
      /\ pool' = pool \union {output_buffer[1]}
      /\ \A j \in 1 .. len - 1 : output_buffer'[j] = output_buffer[j + 1]
  BY DrainedMessage DEF BridgeTypes, Sender!TypeOK
<1>2. \A i, j \in 1 .. len :
        i < j => Ideal(output_buffer[i]) + QUARTER <= Ideal(output_buffer[j])
  BY DEF BufferInv
<1>3. \A m \in pool, j \in 1 .. len :
        Ideal(m) + QUARTER <= Ideal(output_buffer[j])
  BY DEF BufferInv
<1> HIDE DEF len
<1>4. ASSUME NEW j \in 1 .. len - 1
      PROVE  /\ j + 1 \in 1 .. len /\ 1 \in 1 .. len /\ 1 < j + 1
             /\ output_buffer'[j] = output_buffer[j + 1]
  BY <1>1
<1>5. ASSUME NEW i \in 1 .. len - 1, NEW j \in 1 .. len - 1, i < j
      PROVE  Ideal(output_buffer'[i]) + QUARTER <= Ideal(output_buffer'[j])
  <2>1. i + 1 < j + 1
    BY <1>5
  <2> QED
    BY <1>2, <1>4, <2>1
<1>6. ASSUME NEW m \in pool', NEW j \in 1 .. len - 1
      PROVE  Ideal(m) + QUARTER <= Ideal(output_buffer'[j])
  BY <1>1, <1>2, <1>3, <1>4
<1> QED
  BY <1>1, <1>5, <1>6

LEMMA BufferStep ==
  ASSUME BridgeTypes, PaceInv, PlaceInv, EndInv, BufferInv, [Next]_vars
  PROVE  BufferInv'
<1>1. /\ \A i, j \in 1 .. Len(output_buffer') :
            i < j => Ideal(output_buffer'[i]) + QUARTER <= Ideal(output_buffer'[j])
      /\ \A m \in pool', j \in 1 .. Len(output_buffer') :
            Ideal(m) + QUARTER <= Ideal(output_buffer'[j])
  <2>1. CASE Write
    BY <2>1, BufferWrite
  <2>2. CASE Drain
    BY <2>2, BufferDrain
  <2>3. CASE ~Write /\ ~Drain
    <3>1. pool' \subseteq pool /\ output_buffer' = output_buffer
      BY <2>3, DeliveredMessage, MessagesStay
    <3> QED
      BY <3>1 DEF BufferInv
  <2> QED
    BY <2>1, <2>2, <2>3
<1>2. pc' = "idle" => output_buffer' = << >>
  <2>1. CASE Write
    BY <2>1 DEF Write, Sender!WriteQuarterFrame
  <2>2. CASE Drain
    BY <2>2 DEF Drain, Sender!DrainMessage, Sender!senderVars
  <2>3. CASE ~Write /\ ~Drain
    <3>1. output_buffer' = output_buffer
      BY <2>3, DeliveredMessage, MessagesStay
    <3>2. pc' = "idle" => pc = "idle" \/ output_buffer = << >>
      <4>1. CASE Frame
        BY <4>1, FrameStep
      <4>2. CASE ~Frame
        BY <2>3, <4>2, NextSteps DEF Cut, Stop, Leave, Sender!Drained, Deliver,
           Sender!Deliver, Sender!senderVars, Tick, vars, senderVars
      <4> QED
        BY <4>1, <4>2
    <3> QED
      BY <3>1, <3>2 DEF BufferInv
  <2> QED
    BY <2>1, <2>2, <2>3
<1>3. /\ \A j \in 1 .. Len(output_buffer') :
            Ideal(output_buffer[j])' = Ideal(output_buffer'[j])
      /\ \A m \in pool' : Ideal(m)' = Ideal(m)
  <2>1. /\ \A j \in 1 .. Len(output_buffer') : output_buffer'[j] \in OnTheWay'
        /\ \A m \in pool' : m \in OnTheWay'
    BY DEF OnTheWay
  <2>2. \A m \in OnTheWay' :
          blocks'[m.block].ideal = blocks[m.block].ideal
    BY OnTheWayTells, KeepsTelling
  <2> QED
    BY <2>1, <2>2 DEF Ideal
<1> QED
  BY <1>1, <1>2, <1>3 DEF BufferInv

(* The sender, an instance, counts as this module does.                    *)
LEMMA SameCardinality == \A S : Sender!Cardinality(S) = Cardinality(S)
  BY Zenon DEF Sender!Cardinality, Cardinality

LEMMA PoolStep ==
  ASSUME BridgeTypes, PaceInv, PlaceInv, BufferInv, PoolInv, [Next]_vars
  PROVE  PoolInv'
<1>1. \A m \in pool' : Ideal(m)' = Ideal(m)
  BY OnTheWayTells DEF OnTheWay
<1>2. CASE Drain
  <2> DEFINE first == output_buffer[1]
  <2>1. /\ pool' = pool \union {first} /\ Len(output_buffer) \in Nat
        /\ 1 \in 1 .. Len(output_buffer)
    BY <1>2, DrainedMessage DEF BridgeTypes, Sender!TypeOK
  <2>2. Cardinality(pool) < PoolSize
    BY <1>2, SameCardinality DEF Drain, Sender!DrainMessage, Sender!Room
  <2>3. \A m \in pool : Ideal(m) + QUARTER <= Ideal(first)
    BY <2>1 DEF BufferInv
  <2> HIDE DEF first
  <2>4. IsFiniteSet(pool') /\ Cardinality(pool') <= PoolSize
    <3>1. /\ IsFiniteSet(pool \union {first})
          /\ \/ Cardinality(pool \union {first}) = Cardinality(pool)
             \/ Cardinality(pool \union {first}) = Cardinality(pool) + 1
      BY FS_AddElement DEF PoolInv
    <3>2. Cardinality(pool) \in Nat /\ PoolSize \in Nat
      BY FS_CardinalityType, BridgeAssumption DEF PoolInv
    <3> QED
      BY <2>1, <2>2, <3>1, <3>2
  <2>5. ASSUME NEW m \in pool', NEW n \in pool'
        PROVE  \/ m = n
               \/ Ideal(m) + QUARTER <= Ideal(n)
               \/ Ideal(n) + QUARTER <= Ideal(m)
    BY <2>1, <2>3 DEF PoolInv
  <2> QED
    BY <1>1, <2>4, <2>5 DEF PoolInv
<1>3. CASE ~Drain
  <2>1. pool' \subseteq pool
    BY <1>3, WriteMessage, DeliveredMessage, MessagesStay
  <2>2. IsFiniteSet(pool') /\ Cardinality(pool') <= Cardinality(pool)
    BY <2>1, FS_Subset DEF PoolInv
  <2>3. Cardinality(pool') \in Nat /\ Cardinality(pool) \in Nat /\ PoolSize \in Nat
    BY <2>2, FS_CardinalityType, BridgeAssumption DEF PoolInv
  <2>4. Cardinality(pool') <= PoolSize
    BY <2>2, <2>3 DEF PoolInv
  <2> QED
    BY <1>1, <2>1, <2>2, <2>4 DEF PoolInv
<1> QED
  BY <1>2, <1>3

LEMMA OrderStep ==
  SmallLate /\ BridgeTypes /\ PaceInv /\ PlaceInv /\ OrderInv /\ AtRate
    /\ [Next]_vars => OrderInv'
  BY EndStep, BufferStep, PoolStep DEF OrderInv

LEMMA InitOrder == Init => OrderInv
<1> SUFFICES ASSUME Init PROVE OrderInv
  OBVIOUS
<1>1. /\ pc = "idle" /\ pool = {} /\ output_buffer = << >> /\ block = 0
      /\ block_end = 0 /\ last_when = 0
  BY DEF Init, Sender!Init
<1>2. OnTheWay = {}
  BY <1>1 DEF OnTheWay
<1>3. IsFiniteSet({}) /\ Cardinality({}) = 0
  BY FS_EmptySet
<1> QED
  BY <1>1, <1>2, <1>3, Units, BridgeAssumption
  DEF OrderInv, EndInv, BufferInv, PoolInv

(***************************************************************************)
(* How late the reader may be.                                             *)
(***************************************************************************)

(* Reading late, or waiting for the pool while a block is written: the     *)
(* first message that does not fit is at most 140 after its stamp, which   *)
(* is a second after the start of a frame the reader has passed, and a     *)
(* full pool begins at least PoolSize quarter frames before it, but for    *)
(* the error of a start.                                                   *)
ReadLag == FRAME + MaxDelay + TICK
PoolLag == (SECOND + 3 * QUARTER + MaxLate + TICK) - QUARTER * PoolSize

LagInv == clock < pos + ReadLag \/ clock < pos + PoolLag

(* A fresh block is written before it is due.                              *)
InTimeInv ==
  pc = "send" =>
    /\ \A j \in 1 .. Len(output_buffer) : output_buffer[j].block = block
    /\ blocks[block].fresh =>
         /\ qf < 8 => clock < Sender!Time(stamp)
         /\ \A j \in 1 .. Len(output_buffer) : clock < TimeOf(output_buffer[j])

(* Messages a quarter frame apart reach far ahead when there are many.     *)
LEMMA EarliestOfMany ==
  ASSUME NEW size \in Nat \ {0}, NEW x \in Int, IsFiniteSet(pool),
         Cardinality(pool) >= size,
         \A m \in pool : Ideal(m) \in Int /\ Ideal(m) + 20 <= x,
         \A m, n \in pool : \/ m = n
                            \/ Ideal(m) + 20 <= Ideal(n)
                            \/ Ideal(n) + 20 <= Ideal(m)
  PROVE  \E m \in pool : Ideal(m) + 20 * size <= x
<1> SUFFICES ASSUME \A m \in pool : ~(Ideal(m) + 20 * size <= x)
             PROVE  FALSE
  OBVIOUS
<1> DEFINE places == 0 .. size - 2
           place(t) == (t - (x - 20 * size) - 1) \div 20
           f == [m \in pool |-> place(Ideal(m))]
<1>1. ASSUME NEW t \in Int, t + 20 <= x, ~(t + 20 * size <= x)
      PROVE  place(t) \in places
  BY <1>1
<1>2. f \in [pool -> places]
  BY <1>1
<1>3. IsFiniteSet(places) /\ Cardinality(places) < Cardinality(pool)
  <2>1. /\ IsFiniteSet(places)
        /\ Cardinality(places) = IF 0 > size - 2 THEN 0 ELSE size - 2 - 0 + 1
    BY FS_Interval
  <2>2. Cardinality(pool) \in Nat
    BY FS_CardinalityType
  <2> QED
    BY <2>1, <2>2
<1>4. PICK m, n \in pool : m # n /\ f[m] = f[n]
  <2> HIDE DEF f, places
  <2> QED
    BY <1>2, <1>3, FS_PigeonHole
<1>5. ASSUME NEW s \in Int, NEW t \in Int, place(s) = place(t)
      PROVE  ~(s + 20 <= t) /\ ~(t + 20 <= s)
  BY <1>5
<1>6. place(Ideal(m)) = place(Ideal(n))
  BY <1>4
<1> HIDE DEF place
<1> QED
  BY <1>4, <1>5, <1>6

(* While the sender waits for the pool the clock is not far ahead.         *)
LEMMA WaitingLag ==
  ASSUME SmallLate, BridgeTypes, PaceInv, PlaceInv, OrderInv, AtRate, Tick,
         pc = "send"
  PROVE  /\ clock + TICK < pos + PoolLag
         /\ \A j \in 1 .. Len(output_buffer) :
              clock + TICK < TimeOf(output_buffer[j])
<1>1. /\ qf \in 0 .. 8 /\ output_buffer \in Seq(Sender!Messages)
      /\ clock \in Nat /\ block \in Nat /\ block > 0
      /\ pos \in Nat /\ frame_pos \in Nat /\ frame_pos <= pos
      /\ PoolSize \in Nat \ {0} /\ TICK \in 1 .. 10 /\ MaxLate \in 0 .. 9
  BY BridgeAssumption DEF BridgeTypes, Sender!TypeOK, ReaderTypes, PaceInv,
     StampInv, SendInv, SmallLate
<1>2. /\ IsFiniteSet(pool) /\ Cardinality(pool) \in Nat
      /\ Cardinality(pool) >= PoolSize
      /\ output_buffer # << >> /\ qf = 8
  <2>1. IsFiniteSet(pool) /\ Cardinality(pool) \in Nat
    BY FS_CardinalityType DEF OrderInv, PoolInv
  <2>2. ~(qf < 8) /\ output_buffer # << >> /\ ~(Cardinality(pool) < PoolSize)
    BY <1>1, SameCardinality DEF Tick, SenderReady, Sender!Room
  <2> QED
    BY <1>1, <2>1, <2>2
<1>3. ASSUME NEW m \in OnTheWay
      PROVE  /\ Ideal(m) \in Nat /\ TimeOf(m) \in Nat
             /\ Ideal(m) <= TimeOf(m) /\ TimeOf(m) <= Ideal(m) + MaxLate
             /\ Ideal(m) + 20 <= EndOf
  <2>1. MessageTells(m) /\ m.piece \in Nat /\ TimeOf(m) \in Nat
    BY MessageTypes DEF PlaceInv
  <2>2. m.block \in 1 .. block /\ blocks[m.block].ideal \in Nat
    BY <2>1, BlockFields DEF MessageTells
  <2>3. RateOf(m.block) = RATE
    BY <2>2 DEF AtRate, RateOf, BridgeTypes, BlockTypes
  <2>4. Ideal(m) \in Nat
    BY <2>1, <2>2, Units DEF Ideal
  <2>5. TimeOf(m) \in Ideal(m) .. Ideal(m) + MaxLate
    BY <2>1, <2>3 DEF MessageTells
  <2>6. Ideal(m) + 20 <= EndOf
    BY Units DEF OrderInv, EndInv
  <2> QED
    BY <1>1, <2>1, <2>4, <2>5, <2>6
<1>4. \A m \in pool : clock < Ideal(m) + MaxLate /\ Ideal(m) \in Nat
  <2>1. \A m \in pool : ~(TimeOf(m) <= clock)
    BY DEF Tick, MessageDue, TimeOf
  <2>2. \A m \in pool : m \in OnTheWay
    BY DEF OnTheWay
  <2>3. ASSUME NEW m \in pool PROVE clock < Ideal(m) + MaxLate /\ Ideal(m) \in Nat
    <3>1. ~(TimeOf(m) <= clock) /\ TimeOf(m) \in Nat /\ Ideal(m) \in Nat
          /\ TimeOf(m) <= Ideal(m) + MaxLate
      BY <1>3, <2>1, <2>2
    <3> QED
      BY <1>1, <3>1
  <2> QED
    BY <2>3
<1>5. \A m \in pool, j \in 1 .. Len(output_buffer) :
        Ideal(m) + 20 <= Ideal(output_buffer[j])
  BY Units DEF OrderInv, BufferInv
<1>6. 1 \in 1 .. Len(output_buffer)
  BY <1>1, <1>2
<1> DEFINE x == Ideal(output_buffer[1])
<1>7. x \in Nat /\ x + 20 <= EndOf
  BY <1>3, <1>6 DEF OnTheWay
<1>8. PICK m \in pool : Ideal(m) + 20 * PoolSize <= x
  <2>1. \A m \in pool : Ideal(m) \in Int /\ Ideal(m) + 20 <= x
    BY <1>4, <1>5, <1>6
  <2>2. \A m, n \in pool : \/ m = n
                           \/ Ideal(m) + 20 <= Ideal(n)
                           \/ Ideal(n) + 20 <= Ideal(m)
    BY Units DEF OrderInv, PoolInv
  <2>3. /\ x \in Int /\ PoolSize \in Nat \ {0}
        /\ IsFiniteSet(pool) /\ Cardinality(pool) >= PoolSize
    BY <1>1, <1>2, <1>7
  <2> HIDE DEF x
  <2> QED
    BY <2>1, <2>2, <2>3, EarliestOfMany, Zenon
<1>9. clock < Ideal(m) + MaxLate /\ Ideal(m) \in Nat
  BY <1>4
<1>10. clock + TICK < pos + PoolLag
  <2>1. /\ blocks[block].ideal + 80 <= frame_pos + SECOND
        /\ EndOf = blocks[block].ideal + 160 /\ blocks[block].ideal \in Nat
    BY <1>1, <1>2, BlockFields, Units DEF OrderInv, EndInv, EndOf
  <2>2. SECOND \in Nat
    BY Units
  <2>3. PoolLag = (SECOND + 60 + MaxLate + TICK) - 20 * PoolSize
    BY <1>1, <2>2, Units DEF PoolLag
  <2> DEFINE i == Ideal(m)
             e == EndOf
             b == blocks[block].ideal
  <2>4. /\ clock < i + MaxLate /\ i + 20 * PoolSize <= x /\ x + 20 <= e
        /\ e = b + 160 /\ b + 80 <= frame_pos + SECOND /\ frame_pos <= pos
        /\ i \in Nat /\ x \in Nat /\ b \in Nat
    BY <1>1, <1>7, <1>8, <1>9, <2>1
  <2> HIDE DEF x, i, e, b
  <2>5. clock + TICK < pos + ((SECOND + 60 + MaxLate + TICK) - 20 * PoolSize)
    BY <1>1, <2>2, <2>4
  <2> QED
    BY <2>3, <2>5
<1>11. ASSUME NEW j \in 1 .. Len(output_buffer)
       PROVE  clock + TICK < TimeOf(output_buffer[j])
  <2>1. /\ Ideal(output_buffer[j]) \in Nat /\ TimeOf(output_buffer[j]) \in Nat
        /\ Ideal(output_buffer[j]) <= TimeOf(output_buffer[j])
    BY <1>3 DEF OnTheWay
  <2>2. Ideal(m) + 20 <= Ideal(output_buffer[j])
    BY <1>5
  <2> QED
    BY <1>1, <1>9, <2>1, <2>2
<1> QED
  BY <1>10, <1>11

LEMMA LagStep ==
  ASSUME SmallLate, BridgeTypes, PaceInv, PlaceInv, OrderInv, AtRate, LagInv,
         [Next]_vars
  PROVE  LagInv'
<1>1. /\ clock \in Nat /\ pos \in Nat /\ ReadLag \in Int /\ PoolLag \in Int
      /\ TICK \in 1 .. 10 /\ MaxDelay \in Nat
  BY Units, BridgeAssumption DEF BridgeTypes, ReaderTypes, ReadLag, PoolLag
<1>2. CASE Tick
  <2>1. clock' = clock + TICK /\ pos' = pos
    BY <1>2 DEF Tick, readerVars
  <2>2. CASE pc = "idle"
    <3>1. ~(pos + FRAME + MaxDelay <= clock)
      BY <1>2, <2>2 DEF Tick, ReaderLate
    <3>2. clock + TICK < pos + ReadLag
      BY <1>1, <3>1, Units DEF ReadLag
    <3> QED
      BY <2>1, <3>2 DEF LagInv, ReadLag
  <2>3. CASE pc = "send"
    <3>1. clock + TICK < pos + PoolLag
      BY <1>2, <2>3, WaitingLag
    <3> QED
      BY <2>1, <3>1 DEF LagInv, PoolLag, SECOND
  <2> QED
    BY <2>2, <2>3 DEF BridgeTypes, Sender!TypeOK
<1>3. CASE ~Tick
  <2>1. clock' = clock /\ pos' \in Nat /\ pos <= pos'
    BY <1>3, ClockStays, PlaceGrows
  <2>2. ASSUME NEW place \in Nat, pos <= place
        PROVE  clock < place + ReadLag \/ clock < place + PoolLag
    BY <1>1, <2>2 DEF LagInv
  <2>3. clock < pos' + ReadLag \/ clock < pos' + PoolLag
    BY <2>1, <2>2
  <2> QED
    BY <2>1, <2>3 DEF LagInv, ReadLag, PoolLag, SECOND
<1> QED
  BY <1>2, <1>3

LEMMA InitLag == Init => LagInv
<1> SUFFICES ASSUME Init PROVE LagInv
  OBVIOUS
<1>1. clock = 0 /\ pos = 0
  BY DEF Init, Reader!Init
<1>2. ReadLag \in Nat /\ ReadLag > 0
  BY BridgeAssumption, Units DEF ReadLag
<1> QED
  BY <1>1, <1>2 DEF LagInv

(* NoOverrun, where the device holds what is captured in the meantime.     *)
SmallLag == ReadLag <= BufferTime + 1 /\ PoolLag <= BufferTime + 1

(* The stamps of the application are ahead of the clock in any case.       *)
LagBelowSecond == ReadLag <= SECOND /\ PoolLag <= SECOND

(* Codewords are read, and the pool drained, in less than a second, ...    *)
LEMMA StartInTime ==
  ASSUME BridgeTypes, PaceInv, FreshStart, LagInv, LagBelowSecond, tc_is_valid,
         steady <= sync_pos
  PROVE  clock < frame_start + SECOND
<1>1. /\ clock \in Nat /\ pos \in Nat /\ SECOND \in Nat /\ frame_start \in Nat
      /\ ReadLag \in Int /\ PoolLag \in Int
  BY Units, BridgeAssumption DEF BridgeTypes, ReaderTypes, ReadLag, PoolLag
<1>2. pos <= frame_start
  <2>1. frame_pos = pos /\ frame_start \in frame_pos .. frame_pos + MaxLate
    BY DEF FreshStart, PaceInv, StampInv
  <2> QED
    BY <1>1, <2>1, BridgeAssumption
<1> QED
  BY <1>1, <1>2 DEF LagInv, LagBelowSecond

(* Quarter frames of a block at the rate of the tape.                      *)
LEMMA WriteTime ==
  ASSUME BridgeTypes, PaceInv, AtRate, Write
  PROVE  /\ TimeOf(NewMessage) = Sender!Time(stamp)
         /\ TimeOf(NewMessage) \in Nat
         /\ Sender!Time(stamp') = TimeOf(NewMessage) + QUARTER
<1>1. /\ stamp \in Sender!StampType /\ time_step \in 0 .. SECOND
      /\ stamp' = Sender!Advance(stamp, time_step) /\ pc = "send"
  BY DEF Write, Sender!WriteQuarterFrame, BridgeTypes, Sender!TypeOK
<1>2. time_step = QUARTER
  BY <1>1, BlockAtRate DEF PaceInv, SendInv
<1>3. TimeOf(NewMessage) = Sender!Time(stamp) /\ Sender!Time(stamp) \in Nat
  BY <1>1, TimeNat DEF TimeOf, NewMessage
<1> QED
  BY <1>1, <1>2, <1>3, AdvanceTime

(* ... and a block that is written in time is drained in time.             *)
LEMMA InTimeStep ==
  ASSUME SmallLate, BridgeTypes, PaceInv, PlaceInv, OrderInv, LagInv, InTimeInv,
         AtRate, LagBelowSecond, [Next]_vars
  PROVE  InTimeInv'
<1> DEFINE len == Len(output_buffer)
<1>1. /\ clock \in Nat /\ len \in Nat /\ block \in Nat /\ Len(blocks) = block
      /\ blocks \in Seq(BlockType)
  BY DEF BridgeTypes, ReaderTypes, BlockTypes, Sender!TypeOK
<1>2. CASE Frame /\ Started
  <2>1. /\ pc = "idle" /\ clock' = clock
        /\ output_buffer' = output_buffer
        /\ stamp' = Sender!Stamp(frame_start + SECOND)
        /\ blocks'[block'] = NewBlock
    BY <1>2, FrameStep, StartedBlock DEF Started, Sender!StartBlock,
       Sender!alsaVars
  <2>2. output_buffer' = << >>
    BY <2>1 DEF OrderInv, BufferInv
  <2>3. Sender!Time(stamp)' = frame_start + SECOND
    <3>1. frame_start + SECOND \in Nat
      BY Units DEF BridgeTypes, ReaderTypes
    <3>2. Sender!Time(Sender!Stamp(frame_start + SECOND)) = frame_start + SECOND
      BY <3>1, StampOfTime
    <3> QED
      BY <2>1, <3>2 DEF Sender!Time
  <2>4. blocks'[block'].fresh => clock' < Sender!Time(stamp)'
    <3>1. tc_is_valid /\ steady <= sync_pos => clock < frame_start + SECOND
      BY StartInTime DEF PlaceInv
    <3>2. NewBlock.fresh = (tc_is_valid /\ steady <= sync_pos)
      BY DEF NewBlock
    <3> QED
      BY <2>1, <2>3, <3>1, <3>2, Zenon
  <2> QED
    BY <2>2, <2>4 DEF InTimeInv, Sender!Time, TimeOf
<1>3. CASE ~(Frame /\ Started)
  <2>1. block' = block /\ blocks' = blocks
    BY <1>3, BlocksStay
  <2>2. CASE Write
    <3>1. /\ pc = "send" /\ qf < 8 /\ clock' = clock
          /\ Len(output_buffer') = len + 1
          /\ \A j \in 1 .. len : output_buffer'[j] = output_buffer[j]
          /\ output_buffer'[len + 1] = NewMessage
      BY <2>2, WriteMessage DEF Write, Sender!WriteQuarterFrame
    <3>2. TimeOf(NewMessage) = Sender!Time(stamp) /\ NewMessage.block = block
      BY DEF TimeOf, NewMessage
    <3>3. Sender!Time(stamp') = TimeOf(NewMessage) + QUARTER
      BY <2>2, WriteTime
    <3>4. TimeOf(NewMessage) \in Nat
      BY <2>2, WriteTime
    <3>5. \A j \in 1 .. len + 1 :
            \/ j \in 1 .. len
            \/ output_buffer'[j] = NewMessage
      BY <1>1, <3>1
    <3> HIDE DEF len
    <3>6. ASSUME NEW j \in 1 .. len + 1
          PROVE  /\ output_buffer'[j].block = block
                 /\ blocks[block].fresh => clock < TimeOf(output_buffer'[j])
      BY <3>1, <3>2, <3>5 DEF InTimeInv, len
    <3>7. blocks[block].fresh => clock < Sender!Time(stamp')
      <4>1. blocks[block].fresh => clock < TimeOf(NewMessage)
        BY <3>1, <3>2 DEF InTimeInv
      <4> QED
        BY <1>1, <3>3, <3>4, <4>1, Units
    <3> QED
      BY <2>1, <3>1, <3>6, <3>7 DEF InTimeInv, TimeOf, Sender!Time
  <2>3. CASE Drain
    <3>1. /\ pc = "send" /\ qf = 8 /\ qf' = 8 /\ clock' = clock
          /\ Len(output_buffer') = len - 1
          /\ \A j \in 1 .. len - 1 : output_buffer'[j] = output_buffer[j + 1]
      BY <2>3, DrainedMessage DEF Drain, Sender!DrainMessage, Sender!senderVars
    <3>2. \A j \in 1 .. len - 1 : j + 1 \in 1 .. len
      BY <1>1
    <3> HIDE DEF len
    <3>3. ASSUME NEW j \in 1 .. len - 1
          PROVE  /\ output_buffer'[j].block = block
                 /\ blocks[block].fresh => clock < TimeOf(output_buffer'[j])
      BY <3>1, <3>2 DEF InTimeInv, len
    <3>4. ~(qf' < 8)
      BY <3>1
    <3> QED
      BY <2>1, <3>1, <3>3, <3>4 DEF InTimeInv, TimeOf, Sender!Time
  <2>4. CASE Tick
    <3>1. /\ clock' = clock + TICK
          /\ UNCHANGED <<pc, qf, stamp, output_buffer>>
      BY <2>4 DEF Tick, senderVars
    <3>2. CASE pc = "send"
      <4>1. qf = 8
        BY <2>4, <3>2 DEF Tick, SenderReady, BridgeTypes, Sender!TypeOK
      <4>2. \A j \in 1 .. len : clock' < TimeOf(output_buffer[j])
        BY <2>4, <3>1, <3>2, WaitingLag
      <4> QED
        BY <2>1, <3>1, <4>1, <4>2 DEF InTimeInv, TimeOf, Sender!Time
    <3>3. CASE pc # "send"
      BY <3>1, <3>3 DEF InTimeInv
    <3> QED
      BY <3>2, <3>3
  <2>5. CASE ~Write /\ ~Drain /\ ~Tick
    <3>1. output_buffer' = output_buffer
      BY <2>5, DeliveredMessage, MessagesStay
    <3>2. /\ clock' = clock
          /\ pc' = "send" => pc = "send" /\ UNCHANGED <<qf, stamp>>
      <4>1. CASE Frame
        BY <1>3, <4>1, FrameStep DEF NoBlock, Skipped, Sender!SkipBlock,
           senderVars
      <4>2. CASE ~Frame
        BY <2>5, <4>2, NextSteps DEF Cut, Stop, Leave, Sender!Drained,
           Sender!Return, Sender!Leave, Deliver, Sender!Deliver,
           Sender!senderVars, vars, senderVars
      <4> QED
        BY <4>1, <4>2
    <3> QED
      BY <2>1, <3>1, <3>2 DEF InTimeInv, TimeOf, Sender!Time
  <2> QED
    BY <2>2, <2>3, <2>4, <2>5
<1> QED
  BY <1>2, <1>3

LEMMA InitInTime == Init => InTimeInv
  BY DEF Init, Sender!Init, InTimeInv

(* All of it is kept by a step, at the frame rate of the tape.             *)
TimeInv ==
  /\ BridgeTypes /\ PaceInv /\ PlaceInv
  /\ OrderInv /\ LagInv

LEMMA TimeStep == SmallLate /\ TimeInv /\ AtRate /\ [Next]_vars => TimeInv'
  BY TypesStep, PaceStep, PlaceStep, OrderStep, LagStep DEF TimeInv

LEMMA InitTime == Init => TimeInv
  BY InitTypes, InitPace, InitPlace, InitOrder, InitLag DEF TimeInv

(* What is new in the pool was first in the output buffer.                 *)
LEMMA InTimeInFuture ==
  ASSUME BridgeTypes, InTimeInv, [Next]_vars
  PROVE  InFuture
<1>1. CASE Drain
  <2>1. /\ pool' = pool \union {output_buffer[1]} /\ pc = "send"
        /\ 1 \in 1 .. Len(output_buffer)
    BY <1>1, DrainedMessage
    DEF Drain, Sender!DrainMessage, BridgeTypes, Sender!TypeOK
  <2>2. /\ output_buffer[1].block = block
        /\ blocks[block].fresh => clock < TimeOf(output_buffer[1])
    BY <2>1 DEF InTimeInv
  <2> QED
    BY <2>1, <2>2 DEF InFuture
<1>2. CASE ~Drain
  <2>1. pool' \subseteq pool
    BY <1>2, WriteMessage, DeliveredMessage, MessagesStay
  <2> QED
    BY <2>1 DEF InFuture
<1> QED
  BY <1>1, <1>2

(* While every block is sent at the frame rate of the tape, quarter frames *)
(* of fresh codewords reach the kernel before they are due, line 75: the   *)
(* second of line 76 covers what the reader is late by, its own delay or   *)
(* the wait for the pool.                                                  *)
THEOREM FreshInFutureAtRate ==
  ASSUME SmallLate, LagBelowSecond
  PROVE  Spec /\ []AtRate => FreshInFuture
<1>1. TimeInv /\ InTimeInv /\ AtRate /\ [Next]_vars => (TimeInv /\ InTimeInv)'
  BY TimeStep, InTimeStep DEF TimeInv
<1>2. TimeInv /\ InTimeInv /\ [Next]_vars =>
        [\A m \in pool' \ pool :
           blocks[m.block].fresh => clock < Sender!Time(m.at)]_vars
  BY InTimeInFuture DEF TimeInv, InFuture, TimeOf
<1> QED
  BY <1>1, <1>2, InitTime, InitInTime, PTL DEF Spec, FreshInFuture

(* ... and the device does not overrun.                                    *)
THEOREM NoOverrunAtRate ==
  ASSUME SmallLate, SmallLag
  PROVE  Spec /\ []AtRate => []NoOverrun
<1>1. TimeInv => NoOverrun
  <2> SUFFICES ASSUME TimeInv PROVE NoOverrun
    OBVIOUS
  <2>1. /\ clock \in Nat /\ pos \in Nat /\ BufferTime \in Nat
        /\ ReadLag \in Int /\ PoolLag \in Int
    BY Units, BridgeAssumption
    DEF TimeInv, BridgeTypes, ReaderTypes, ReadLag, PoolLag
  <2>2. clock < pos + ReadLag \/ clock < pos + PoolLag
    BY DEF TimeInv, LagInv
  <2>3. ReadLag <= BufferTime + 1 /\ PoolLag <= BufferTime + 1
    BY DEF SmallLag
  <2> QED
    BY <2>1, <2>2, <2>3 DEF NoOverrun
<1> QED
  BY <1>1, TimeStep, InitTime, PTL DEF Spec

(* What is heard is where the tape is.                                     *)
THEOREM InSyncAtRate ==
  ASSUME SmallLate, WholeFractions, LagBelowSecond
  PROVE  Spec /\ []AtRate => InSync
  BY FreshInFutureAtRate, InSyncWhenInFuture, PTL

(***************************************************************************)
(* When the reader knows the frame rate, few cuts do not mislead it.       *)
(***************************************************************************)
KnownRate == InitialFrameRate = RATE /\ MaxDisturbances <= MIN_FRAME_WRAPS

(* Wraps counted against the frame rate, lines 351-361.                    *)
Misread ==
  IF pending_frame_rate = 0 THEN 0 ELSE MIN_FRAME_WRAPS + 1 - frame_wrap

(* The next frame will be counted against it.                              *)
Jump == Reader!UnexpectedWrap(Number % RATE)

(* Every wrap at a wrong place is the doing of a cut.                      *)
RateInv ==
  /\ frame_rate = RATE
  /\ frame_wrap \in 1 .. MIN_FRAME_WRAPS
  /\ disturbances <= MaxDisturbances
  /\ Misread <= disturbances
  /\ Jump => Misread + 1 <= disturbances

LEMMA NextNumber ==
  ASSUME NEW n \in Nat, (n + 1) % RATE = 0
  PROVE  (n % RATE) + 1 = RATE
<1>1. RATE \in 1 .. 46
  BY BridgeAssumption
<1>2. /\ n % RATE \in 0 .. RATE - 1
      /\ n = RATE * (n \div RATE) + (n % RATE)
      /\ n \div RATE \in Int
  BY <1>1
<1> DEFINE q == n \div RATE
           r == n % RATE
           p == (n + 1) \div RATE
<1>3. n + 1 = RATE * p /\ p \in Int
  BY <1>1
<1>4. q \in Int /\ r \in 0 .. RATE - 1 /\ n = RATE * q + r
  BY <1>2
<1> HIDE DEF q, r, p
<1>5. RATE * (p - q) = r + 1
  BY <1>1, <1>3, <1>4
<1>6. p - q >= 1
  BY <1>1, <1>3, <1>4, <1>5
<1>7. p - q <= 1
  BY <1>1, <1>3, <1>4, <1>5
<1>8. p - q = 1
  BY <1>3, <1>4, <1>6, <1>7
<1> QED
  BY <1>1, <1>5, <1>8 DEF r

LEMMA NextFrame ==
  ASSUME BridgeTypes, Frame
  PROVE  Number \in Nat /\ Number' = Number + 1
<1> DEFINE next == Number + 1
<1>1. /\ pos \in Nat /\ origin \in Int /\ Number \in Nat
      /\ pos - origin = FRAME * Number
      /\ pos' = pos + FRAME /\ origin' = origin
  BY FrameStep DEF BridgeTypes, ReaderTypes, Aligned
<1>2. next \in Nat /\ pos' \in Int /\ pos' - origin' = FRAME * next
  <2> HIDE DEF Number
  <2> QED
    BY <1>1, Units
<1> HIDE DEF next
<1>3. (pos' - origin') \div FRAME = next
  BY <1>1, <1>2, NumberOf
<1> QED
  BY <1>1, <1>3 DEF Number, FRAME, next

LEMMA FrameRates ==
  ASSUME KnownRate, BridgeTypes, RateInv, Frame
  PROVE  RateInv'
<1> DEFINE n == Number % RATE
<1>1. /\ MIN_FRAME_WRAPS \in 1 .. 255 /\ RATE \in 1 .. 46
      /\ MaxDisturbances \in Nat /\ MaxDisturbances <= MIN_FRAME_WRAPS
      /\ frame_rate = RATE /\ frame_wrap \in 1 .. MIN_FRAME_WRAPS
      /\ disturbances \in Nat /\ disturbances <= MaxDisturbances
      /\ prev_frame \in 0 .. 45 /\ pending_frame_rate \in 0 .. 46
  BY BridgeAssumption DEF KnownRate, RateInv, BridgeTypes, ReaderTypes
<1>2. /\ Reader!DetectFrameRate(n) /\ prev_frame' = n
      /\ disturbances' = disturbances
      /\ pos' = pos + FRAME /\ origin' = origin
  BY FrameStep DEF Frame, Reader!AcceptCodeword, Number
<1>3. Number' = Number + 1
  BY NextFrame
<1>4. /\ frame_rate' = RATE /\ frame_wrap' \in 1 .. MIN_FRAME_WRAPS
      /\ Misread' <= disturbances
  <2> HIDE DEF n
  <2>1. CASE ~Reader!UnexpectedWrap(n)
    <3>1. UNCHANGED <<frame_rate, pending_frame_rate, frame_wrap>>
      BY <1>2, <2>1 DEF Reader!DetectFrameRate
    <3> QED
      BY <1>1, <3>1 DEF RateInv, Misread
  <2>2. CASE Reader!UnexpectedWrap(n)
    <3>1. Misread + 1 <= disturbances
      BY <2>2 DEF RateInv, Jump, n
    <3>2. CASE prev_frame + 1 = pending_frame_rate
      <4>1. /\ frame_wrap' = Reader!CountDown
            /\ frame_rate' = IF frame_wrap' = 0 THEN pending_frame_rate
                                                ELSE frame_rate
            /\ pending_frame_rate' = pending_frame_rate
        BY <1>2, <2>2, <3>2 DEF Reader!DetectFrameRate
      <4>2. pending_frame_rate # 0
        BY <1>1, <3>2
      <4>3. frame_wrap >= 2
        BY <1>1, <3>1, <4>2 DEF Misread
      <4>4. Reader!CountDown = frame_wrap - 1
        BY <1>1, <4>3 DEF Reader!CountDown, Reader!Word8
      <4> QED
        BY <1>1, <3>1, <4>1, <4>2, <4>3, <4>4 DEF Misread
    <3>3. CASE prev_frame + 1 # pending_frame_rate
      <4>1. /\ pending_frame_rate' = prev_frame + 1
            /\ frame_wrap' = MIN_FRAME_WRAPS /\ frame_rate' = frame_rate
        BY <1>2, <2>2, <3>3 DEF Reader!DetectFrameRate, Reader!RestartCountdown
      <4>2. Misread' = 1
        BY <1>1, <4>1 DEF Misread
      <4>3. Misread \in Nat
        BY <1>1 DEF Misread
      <4> QED
        BY <1>1, <3>1, <4>1, <4>2, <4>3
    <3> QED
      BY <3>2, <3>3
  <2> QED
    BY <2>1, <2>2
<1>5. ~Jump'
  <2>1. Number \in Nat
    BY DEF BridgeTypes, Aligned
  <2>2. CASE (Number + 1) % RATE = 0
    <3>1. n + 1 = RATE
      BY <2>1, <2>2, NextNumber
    <3>2. prev_frame' + 1 = frame_rate'
      BY <1>2, <1>4, <3>1
    <3> QED
      BY <3>2 DEF Jump, Reader!UnexpectedWrap
  <2>3. CASE (Number + 1) % RATE # 0
    BY <1>3, <2>3 DEF Jump, Reader!UnexpectedWrap, Reader!Wrap
  <2> QED
    BY <2>2, <2>3
<1> HIDE DEF n
<1> QED
  BY <1>1, <1>2, <1>4, <1>5 DEF RateInv

LEMMA RateStep == KnownRate /\ BridgeTypes /\ RateInv /\ [Next]_vars => RateInv'
<1> SUFFICES ASSUME KnownRate, BridgeTypes, RateInv, [Next]_vars PROVE RateInv'
  OBVIOUS
<1>1. CASE Frame
  BY <1>1, FrameRates
<1>2. CASE Stop \/ \E number \in Cuts : Cut(number)
  <2>1. /\ UNCHANGED <<frame_rate, pending_frame_rate, frame_wrap>>
        /\ disturbances < MaxDisturbances /\ disturbances' = disturbances + 1
    BY <1>2, CutStep, StopStep DEF BridgeTypes
  <2>2. disturbances \in Nat /\ MaxDisturbances \in Nat
    BY BridgeAssumption DEF BridgeTypes, ReaderTypes
  <2>3. Misread' = Misread /\ Misread \in Int
    BY <2>1, BridgeAssumption DEF Misread, RateInv
  <2> QED
    BY <2>1, <2>2, <2>3 DEF RateInv
<1>3. CASE Write \/ Drain \/ Leave \/ Deliver \/ Tick \/ UNCHANGED vars
  <2>1. UNCHANGED <<frame_rate, pending_frame_rate, frame_wrap, disturbances,
                    prev_frame, pos, origin>>
    BY <1>3 DEF Write, Drain, Leave, Away, Deliver, Tick, vars, readerVars,
       tapeVars
  <2> QED
    BY <2>1 DEF RateInv, Misread, Jump, Number, Reader!UnexpectedWrap, Reader!Wrap
<1> QED
  BY <1>1, <1>2, <1>3, NextSteps

LEMMA InitRate == KnownRate /\ Init => RateInv
<1> SUFFICES ASSUME KnownRate, Init PROVE RateInv
  OBVIOUS
<1>1. /\ frame_rate = RATE /\ pending_frame_rate = 0 /\ prev_frame = 0
      /\ frame_wrap = MIN_FRAME_WRAPS /\ disturbances = 0
  BY DEF Init, Reader!Init, KnownRate
<1>2. MIN_FRAME_WRAPS \in 1 .. 255 /\ MaxDisturbances \in Nat
  BY BridgeAssumption
<1> QED
  BY <1>1, <1>2 DEF RateInv, Misread, Jump, Reader!UnexpectedWrap, Reader!Wrap

LEMMA AtRateStep ==
  BridgeTypes /\ RateInv' /\ AtRate /\ [Next]_vars => AtRate'
<1> SUFFICES ASSUME BridgeTypes, RateInv', AtRate, [Next]_vars PROVE AtRate'
  OBVIOUS
<1>1. blocks \in Seq(BlockType)
  BY DEF BridgeTypes, BlockTypes
<1>2. CASE Frame /\ Started
  <2>1. blocks' = Append(blocks, NewBlock) /\ NewBlock.rate = RATE
    BY <1>2 DEF Started, NewBlock, RateInv
  <2>2. ASSUME NEW n \in 1 .. Len(blocks')
        PROVE  n \in 1 .. Len(blocks) \/ blocks'[n] = NewBlock
    BY <1>1, <2>1
  <2>3. \A n \in 1 .. Len(blocks) : blocks'[n] = blocks[n]
    BY <1>1, <2>1
  <2> QED
    BY <2>1, <2>2, <2>3 DEF AtRate
<1>3. CASE ~(Frame /\ Started)
  BY <1>3, BlocksStay DEF AtRate
<1> QED
  BY <1>2, <1>3

(* A reader that knows the frame rate of the tape keeps it when the tape   *)
(* is cut no more often than it takes to mislead it.                       *)
THEOREM KeepsKnownRate ==
  ASSUME KnownRate
  PROVE  Spec => []AtRate
<1>1. Init => AtRate
  BY DEF Init, AtRate
<1>2. BridgeTypes /\ RateInv /\ AtRate /\ [Next]_vars
      => (BridgeTypes /\ RateInv /\ AtRate)'
  BY TypesStep, RateStep, AtRateStep
<1> QED
  BY <1>1, <1>2, InitTypes, InitRate, PTL DEF Spec

(***************************************************************************)
(* KeepsComing.  Once the reader is in step with a steady tape, block      *)
(* follows block.                                                          *)
(***************************************************************************)

(* Frames the reader has passed since the latest disturbance, and how many *)
(* of them it may withhold.                                                *)
Run == (pos - steady) \div FRAME
Withheld == MAX_UNSYNCED + 2

(* The timecode of a frame of the tape, and a reader that will announce    *)
(* the next one.                                                           *)
TimecodeOf(n) == (n * FRACTIONS) \div RATE

InStep == out_of_sync_count = 0 /\ local_tc = TimecodeOf(Number - 1)

(* Before the first timecode is announced, every codeword withheld counts, *)
(* until the reader gives in; after it every codeword is announced, the    *)
(* first perhaps with the start of a frame before the disturbance.         *)
NoneSince == last_when + FRAME <= steady + SECOND + MaxLate
Counting == Run <= out_of_sync_count /\ NoneSince
GivenIn == Run \in 1 .. Withheld /\ InStep /\ NoneSince
Announcing ==
  /\ Run >= 1 /\ InStep
  /\ Run = 1 => last_when <= steady + SECOND + MaxLate
  /\ Run > 1 => /\ pos + SECOND <= last_when + FRAME
                /\ last_when + FRAME <= pos + SECOND + MaxLate

RunInv ==
  /\ local_tc \in Int /\ out_of_sync_count \in 0 .. MAX_UNSYNCED + 1
  /\ Run \in Nat /\ pos - steady = FRAME * Run
  /\ Run >= 1 => frame_pos = pos
  /\ Counting \/ GivenIn \/ Announcing

(* The timecode of line 364 at the frame rate of the tape.                 *)
LEMMA TapeTimecode ==
  ASSUME BridgeTypes
  PROVE  /\ Reader!TimePositionOf(Number \div RATE, Number % RATE, RATE)
              = TimecodeOf(Number)
         /\ TimecodeOf(Number) \in Int
<1>1. /\ Number \in Nat /\ RATE \in 1 .. 46
      /\ Number = RATE * (Number \div RATE) + (Number % RATE)
      /\ Number \div RATE \in Nat /\ Number % RATE \in Nat
  BY NumberRange, BridgeAssumption DEF BridgeTypes, Aligned
<1> DEFINE n == Number
           q == n \div RATE
           r == n % RATE
<1>2. n \in Nat /\ q \in Nat /\ r \in Nat /\ n = RATE * q + r
  BY <1>1
<1>3. Reader!TimePositionOf(q, r, RATE) = ((q * RATE + r) * FRACTIONS) \div RATE
  BY DEF Reader!TimePositionOf
<1> HIDE DEF n, q, r
<1>4. q * RATE + r = n
  BY <1>1, <1>2
<1>5. (n * FRACTIONS) \div RATE \in Int
  BY <1>1, <1>2 DEF FRACTIONS
<1> QED
  BY <1>3, <1>4, <1>5, Zenon DEF TimecodeOf, n, q, r

(* Successive timecodes are at most a second apart.                        *)
LEMMA SmoothTimecodes ==
  ASSUME NEW n \in Nat
  PROVE  /\ TimecodeOf(n - 1) \in Int /\ TimecodeOf(n) \in Int
         /\ TimecodeOf(n) - TimecodeOf(n - 1) <= FRACTIONS
         /\ TimecodeOf(n - 1) - TimecodeOf(n) <= FRACTIONS
<1>1. RATE \in 1 .. 46
  BY BridgeAssumption
<1>2. ASSUME NEW x \in Int
      PROVE  /\ x \div RATE \in Int /\ (x + 600) \div RATE \in Int
             /\ (x + 600) \div RATE - (x \div RATE) <= 600
             /\ (x \div RATE) - ((x + 600) \div RATE) <= 600
  <2> DEFINE a == x \div RATE
             b == (x + 600) \div RATE
  <2>1. /\ a \in Int /\ RATE * a <= x /\ x < RATE * a + RATE
        /\ b \in Int /\ RATE * b <= x + 600 /\ x + 600 < RATE * b + RATE
    BY <1>1
  <2> HIDE DEF a, b
  <2>2. RATE * (b - a) < 600 + RATE /\ RATE * (a - b) < RATE
    BY <1>1, <2>1
  <2>3. b - a <= 600 /\ a - b <= 600
    <3>1. ASSUME NEW d \in Int, d > 600 PROVE RATE * d >= 600 + RATE
      <4>1. RATE * (d - 1) >= RATE * 600
        BY <1>1, <3>1
      <4> QED
        BY <1>1, <4>1
    <3>2. ASSUME NEW d \in Int, d > 600 PROVE RATE * d >= RATE
      BY <1>1, <3>2
    <3> QED
      BY <1>1, <2>1, <2>2, <3>1, <3>2
  <2> QED
    BY <2>1, <2>3 DEF a, b
<1>3. n * FRACTIONS = (n - 1) * FRACTIONS + 600 /\ (n - 1) * FRACTIONS \in Int
  BY DEF FRACTIONS
<1> DEFINE x == (n - 1) * FRACTIONS
<1>4. /\ x \div RATE \in Int /\ (x + 600) \div RATE \in Int
      /\ (x + 600) \div RATE - (x \div RATE) <= 600
      /\ (x \div RATE) - ((x + 600) \div RATE) <= 600
  BY <1>2, <1>3
<1>5. TimecodeOf(n) = (x + 600) \div RATE /\ TimecodeOf(n - 1) = x \div RATE
  BY <1>3, Zenon DEF TimecodeOf
<1>6. FRACTIONS = 600
  BY DEF FRACTIONS
<1> HIDE DEF x
<1> QED
  BY <1>4, <1>5, <1>6

(* A codeword is announced, or given in to, or counted.                    *)
LEMMA FrameTracks ==
  ASSUME BridgeTypes, RateInv', RunInv, Frame
  PROVE  /\ local_tc' \in Int /\ out_of_sync_count' \in 0 .. MAX_UNSYNCED + 1
         /\ InStep => emitted'
         /\ \/ emitted' /\ InStep'
            \/ ~emitted' /\ InStep' /\ out_of_sync_count > MAX_UNSYNCED
            \/ ~emitted' /\ out_of_sync_count' = out_of_sync_count + 1
<1> DEFINE tc == TimecodeOf(Number)
<1>1. /\ local_tc \in Int /\ out_of_sync_count \in 0 .. MAX_UNSYNCED + 1
      /\ MAX_UNSYNCED \in Nat /\ tc \in Int /\ Number \in Nat
  BY TapeTimecode, NextFrame, BridgeAssumption DEF RunInv
<1>2. \E ub : Reader!TrackTimecode(tc, ub)
  <2>1. frame_rate' = RATE
    BY DEF RateInv
  <2>2. Reader!TrackTimecode(
          Reader!TimePositionOf(Number \div RATE, Number % RATE, frame_rate'), 0)
    BY DEF Frame, Reader!AcceptCodeword, Number
  <2> QED
    BY <2>1, <2>2, TapeTimecode, Zenon
<1>3. TimecodeOf(Number' - 1) = tc
  <2>1. Number' - 1 = Number
    BY NextFrame
  <2> QED
    BY <2>1
<1>4. InStep' <=> out_of_sync_count' = 0 /\ local_tc' = tc
  BY <1>3 DEF InStep, TimecodeOf
<1>5. InStep => /\ out_of_sync_count = 0
                /\ tc - local_tc <= FRACTIONS /\ local_tc - tc <= FRACTIONS
  BY <1>1, SmoothTimecodes DEF InStep
<1> HIDE DEF tc
<1>6. InStep => ~Reader!GiveIn /\ ~Reader!Ahead(tc) /\ ~Reader!Behind(tc)
  BY <1>1, <1>5 DEF Reader!GiveIn, Reader!Ahead, Reader!Behind, FRACTIONS
<1>7. \/ /\ out_of_sync_count > MAX_UNSYNCED /\ local_tc' = tc
         /\ out_of_sync_count' = 0 /\ emitted' = FALSE
      \/ /\ ~(out_of_sync_count > MAX_UNSYNCED) /\ emitted' = FALSE
         /\ local_tc' = local_tc + FRACTIONS \/ local_tc' = -FRACTIONS
         /\ out_of_sync_count' = out_of_sync_count + 1
      \/ local_tc' = tc /\ out_of_sync_count' = 0 /\ emitted' = TRUE
  BY <1>2 DEF Reader!TrackTimecode, Reader!Withhold, Reader!GiveIn
<1>8. InStep => emitted'
  BY <1>2, <1>6 DEF Reader!TrackTimecode
<1> QED
  BY <1>1, <1>4, <1>7, <1>8 DEF FRACTIONS

LEMMA NewRun ==
  ASSUME NEW p \in Int, NEW s \in Int, NEW n \in Nat, p - s = FRAME * n
  PROVE  (p - s) \div FRAME = n
  BY NumberOf

LEMMA RunFrame ==
  ASSUME BridgeTypes, PaceInv, RateInv', RunInv, Frame
  PROVE  RunInv'
<1>1. /\ pos \in Nat /\ steady \in Nat /\ frame_start \in Nat
      /\ frame_pos \in Nat /\ frame_pos <= pos /\ last_when \in Nat
      /\ frame_pos <= frame_start /\ frame_start <= frame_pos + MaxLate
      /\ Run \in Nat /\ pos - steady = FRAME * Run
      /\ Run >= 1 => frame_pos = pos
      /\ out_of_sync_count \in 0 .. MAX_UNSYNCED + 1 /\ MAX_UNSYNCED \in Nat
      /\ FRAME = 80 /\ SECOND \in Nat /\ MaxLate \in Nat
  BY Units, BridgeAssumption
  DEF BridgeTypes, ReaderTypes, PaceInv, StampInv, RunInv, Sender!TypeOK
<1>2. /\ pos' = pos + FRAME /\ frame_pos' = pos + FRAME /\ steady' = steady
  BY FrameStep
<1> DEFINE run == Run + 1
<1>3. run \in Nat /\ pos' - steady' = FRAME * run
  <2> HIDE DEF Run
  <2> QED
    BY <1>1, <1>2
<1>4. Run' = run
  <2> HIDE DEF run
  <2>1. (pos' - steady') \div FRAME = run
    BY <1>1, <1>2, <1>3, NewRun
  <2> QED
    BY <2>1 DEF Run, FRAME
<1> HIDE DEF Run
<1>5. IF emitted' THEN last_when' = frame_start + SECOND
                  ELSE last_when' = last_when
  BY Announced DEF Skipped, Started, NoBlock, senderVars, Sender!SkipBlock,
     Sender!StartBlock
<1>6. /\ local_tc' \in Int /\ out_of_sync_count' \in 0 .. MAX_UNSYNCED + 1
      /\ InStep => emitted'
      /\ \/ emitted' /\ InStep'
         \/ ~emitted' /\ InStep' /\ out_of_sync_count > MAX_UNSYNCED
         \/ ~emitted' /\ out_of_sync_count' = out_of_sync_count + 1
  BY FrameTracks
<1>7. ASSUME emitted', InStep' PROVE Announcing'
  <2>1. last_when' = frame_start + SECOND
    BY <1>5, <1>7
  <2>2. Run' = 1 => last_when' <= steady' + SECOND + MaxLate
    <3>1. ASSUME Run = 0 PROVE pos = steady
      BY <1>1, <3>1
    <3> QED
      BY <1>1, <1>2, <1>4, <2>1, <3>1
  <2>3. Run' > 1 => /\ pos' + SECOND <= last_when' + FRAME
                    /\ last_when' + FRAME <= pos' + SECOND + MaxLate
    BY <1>1, <1>2, <1>4, <2>1
  <2>4. Run' >= 1
    BY <1>1, <1>4
  <2> QED
    BY <1>7, <2>2, <2>3, <2>4 DEF Announcing, SECOND, FRAME
<1>8. ASSUME ~emitted' PROVE Counting' \/ GivenIn'
  <2>1. last_when' = last_when /\ ~InStep
    BY <1>5, <1>6, <1>8
  <2>2. Run <= out_of_sync_count /\ NoneSince
    BY <2>1 DEF RunInv, Counting, GivenIn, Announcing
  <2>3. NoneSince'
    BY <1>2, <2>1, <2>2 DEF NoneSince, SECOND, FRAME
  <2>4. CASE InStep' /\ out_of_sync_count > MAX_UNSYNCED
    <3>1. Run' \in 1 .. Withheld
      BY <1>1, <1>4, <2>2 DEF Withheld
    <3> QED
      BY <2>3, <2>4, <3>1 DEF GivenIn, Withheld
  <2>5. CASE out_of_sync_count' = out_of_sync_count + 1
    <3>1. Run' <= out_of_sync_count'
      BY <1>1, <1>4, <2>2, <2>5
    <3> QED
      BY <2>3, <3>1 DEF Counting
  <2> QED
    BY <1>6, <1>8, <2>4, <2>5
<1>9. Counting' \/ GivenIn' \/ Announcing'
  BY <1>6, <1>7, <1>8
<1>10. Run' \in Nat /\ pos' - steady' = FRAME * Run' /\ frame_pos' = pos'
  BY <1>2, <1>3, <1>4
<1> QED
  BY <1>6, <1>9, <1>10 DEF RunInv, FRAME

LEMMA RunStep ==
  ASSUME BridgeTypes, PaceInv, RateInv', RunInv, [Next]_vars
  PROVE  RunInv'
<1>1. CASE Frame
  BY <1>1, RunFrame
<1>2. CASE Stop \/ \E number \in Cuts : Cut(number)
  <2>1. /\ steady' = pos' /\ (pos' = pos + STOP \/ pos' = pos + PART)
        /\ UNCHANGED <<local_tc, out_of_sync_count, last_when>>
    BY <1>2, CutStep, StopStep DEF BridgeTypes, senderVars
  <2>2. /\ pos \in Nat /\ frame_pos \in Nat /\ frame_pos <= pos
        /\ last_when \in Nat /\ last_when + FRAME <= frame_pos + SECOND + MaxLate
        /\ local_tc \in Int /\ out_of_sync_count \in 0 .. MAX_UNSYNCED + 1
        /\ MAX_UNSYNCED \in Nat
    BY BridgeAssumption DEF BridgeTypes, ReaderTypes, Sender!TypeOK, PaceInv,
       StampInv, RunInv
  <2>3. pos' \in Nat /\ frame_pos <= pos'
    BY <2>1, <2>2, Units
  <2>4. Run' = 0 /\ pos' - steady' = FRAME * 0
    <3>1. pos' - steady' = FRAME * 0
      <4>1. pos' - steady' = 0
        <5>1. \A p \in Nat : p - p = 0
          OBVIOUS
        <5>2. steady' = pos'
          BY <2>1
        <5> QED
          BY <2>3, <5>1, <5>2
      <4> QED
        BY <4>1, Units
    <3>2. (pos' - steady') \div FRAME = 0
      BY <2>1, <2>3, <3>1, NewRun
    <3> QED
      BY <3>1, <3>2 DEF Run, FRAME
  <2>5. Counting'
    <3>1. last_when + FRAME <= pos' + SECOND + MaxLate
      <4> DEFINE a == frame_pos + SECOND + MaxLate
                 b == pos' + SECOND + MaxLate
      <4>1. a \in Nat /\ b \in Nat /\ a <= b
        BY <2>2, <2>3, LaterPlace
      <4>2. last_when + FRAME \in Nat /\ last_when + FRAME <= a
        BY <2>2, Units
      <4> HIDE DEF a, b
      <4>3. last_when + FRAME <= b
        BY <4>1, <4>2
      <4> QED
        BY <4>3 DEF b
    <3>2. Run' <= out_of_sync_count'
      BY <2>1, <2>2, <2>4
    <3> QED
      BY <2>1, <3>1, <3>2 DEF Counting, NoneSince, SECOND, FRAME
  <2> QED
    BY <2>1, <2>2, <2>4, <2>5 DEF RunInv, FRAME
<1>3. CASE Write \/ Drain \/ Leave \/ Deliver \/ Tick \/ UNCHANGED vars
  <2>1. UNCHANGED <<local_tc, out_of_sync_count, pos, steady, origin,
                    frame_pos, last_when>>
    BY <1>3 DEF Write, Drain, Leave, Away, Deliver, Tick, vars, readerVars,
       tapeVars, senderVars, Sender!WriteQuarterFrame, Sender!DrainMessage,
       Sender!Drained, Sender!Return, Sender!Leave, Sender!Deliver,
       Sender!historyVars
  <2> QED
    BY <2>1 DEF RunInv, Counting, GivenIn, Announcing, NoneSince, InStep,
       TimecodeOf, Run, Number, FRAME, SECOND, Withheld
<1> QED
  BY <1>1, <1>2, <1>3, NextSteps

LEMMA InitRun == Init => RunInv
<1> SUFFICES ASSUME Init PROVE RunInv
  OBVIOUS
<1>1. /\ pos = 0 /\ steady = 0 /\ frame_pos = 0 /\ last_when = 0
      /\ local_tc = 0 /\ out_of_sync_count = 0
  BY DEF Init, Reader!Init, Sender!Init
<1>2. pos - steady = FRAME * 0 /\ Run = 0
  BY <1>1, Units DEF Run
<1>3. NoneSince
  <2>1. RATE \in 1 .. 46 /\ SECOND = RATE * 80 /\ FRAME = 80 /\ MaxLate \in Nat
    BY BridgeAssumption DEF SECOND, FRAME
  <2>2. 80 <= SECOND
    BY <2>1
  <2> QED
    BY <1>1, <2>1, <2>2 DEF NoneSince
<1> QED
  BY <1>1, <1>2, <1>3, BridgeAssumption DEF RunInv, Counting

(* What the reader may take to be in step.                                 *)
Covered == steady + SECOND + Withheld * FRAME

OnGrid(t) == (t - Covered) % 20 = 0

(* The place of the latest block, when there is one.                       *)
Place == blocks[block].ideal

(* The stamp that is remembered is that of a timecode that was skipped, or *)
(* the end of the latest block.                                            *)
LastInv ==
  pc = "idle" =>
    \/ Sender!Time(last_timestamp) = last_when
    \/ /\ Sender!Time(last_timestamp) = last_when + 2 * FRAME
       /\ block > 0 /\ Place <= last_when /\ last_when <= Place + MaxLate

(* The latest block lasts to where the next one may begin, ...             *)
CoverInv == Run > Withheld /\ pc = "idle" => pos + SECOND <= EndOf

(* ... its quarter frames are where they are expected, ...                 *)
GapInv == pc = "send" => Place + 2 * FRAME <= Covered \/ OnGrid(Place)

(* ... and no quarter frame that is written is lost.                       *)
CompleteInv ==
  \A t \in Nat : Covered <= t /\ now < t /\ t < EndOf /\ OnGrid(t) =>
    \E m \in OnTheWay : Ideal(m) = t

KeepInv ==
  Covered + MaxLate + TICK <= clock => clock - now < QUARTER + MaxLate + TICK

BlockInv == LastInv /\ CoverInv /\ GapInv /\ CompleteInv /\ KeepInv

(* While a block is sent, and at its end.                                  *)
LEMMA Sending ==
  ASSUME BridgeTypes, PaceInv, PlaceInv, AtRate, pc = "send"
  PROVE  /\ Sender!Time(stamp) = last_when + qf * QUARTER
         /\ block > 0 /\ block \in Nat /\ Place \in Nat /\ Ten(Place)
         /\ EndOf = Place + QUARTER * qf
         /\ Place <= last_when /\ last_when <= Place + MaxLate
         /\ qf \in 0 .. 8 /\ last_when \in Nat
<1>1. block > 0 /\ RateOf(block) = RATE /\ block \in Nat
  BY BlockAtRate DEF PaceInv, SendInv, BridgeTypes, Sender!TypeOK
<1>2. Place \in Nat /\ Ten(Place)
  BY <1>1, BlockFields DEF Place, PlaceInv, PositionTens
<1>3. last_when \in Place .. Place + MaxLate
  BY DEF PlaceInv, StampWhen, Place
<1>4. Place <= last_when /\ last_when <= Place + MaxLate
  BY <1>2, <1>3, BridgeAssumption
<1>5. EndOf = Place + QUARTER * qf
  BY <1>1 DEF EndOf, Place
<1>6. Sender!Time(stamp) = last_when + qf * QUARTER
  BY <1>1 DEF PaceInv, SendInv
<1>7. qf \in 0 .. 8 /\ last_when \in Nat
  BY DEF BridgeTypes, Sender!TypeOK
<1> QED
  BY <1>1, <1>2, <1>4, <1>5, <1>6, <1>7

LEMMA Leaving ==
  ASSUME BridgeTypes, PaceInv, PlaceInv, AtRate, pc = "send", qf = 8
  PROVE  /\ EndOf = Place + 2 * FRAME
         /\ Sender!Time(stamp) = last_when + 2 * FRAME
<1>1. QUARTER = 20 /\ FRAME = 80
  BY Units
<1> QED
  BY <1>1, Sending

(* A place is known from a stamp.                                          *)
LEMMA SamePlace ==
  ASSUME SmallLate, NEW a \in Nat, NEW b \in Nat, Ten(a), Ten(b),
         NEW w \in Nat, a <= w, w <= a + MaxLate, b <= w, w <= b + MaxLate
  PROVE  a = b
  BY BridgeAssumption DEF SmallLate, Ten

(* A timecode is skipped when its stamp is not after the one remembered.   *)
LEMMA NotDue ==
  ASSUME BridgeTypes, Skipped
  PROVE  frame_start + SECOND <= Sender!Time(last_timestamp)
<1> DEFINE when == frame_start + SECOND
<1>1. when \in Nat /\ last_timestamp \in Sender!StampType
  BY Units DEF BridgeTypes, ReaderTypes, Sender!TypeOK
<1>2. Sender!Time(last_timestamp) \in Nat
  BY <1>1, TimeNat
<1>3. ~Sender!Before(last_timestamp, Sender!Stamp(when))
  BY DEF Skipped, Sender!SkipBlock, Sender!Due
<1> HIDE DEF when
<1>4. ~(Sender!Time(last_timestamp) < when)
  BY <1>1, <1>3, LaterIsAfter
<1>5. when <= Sender!Time(last_timestamp)
  BY <1>1, <1>2, <1>4
<1> QED
  BY <1>5 DEF when

(* The step that leaves the sender is Leave.                               *)
LEMMA ToIdle ==
  ASSUME BridgeTypes, PaceInv, [Next]_vars, pc' = "idle"
  PROVE  \/ Frame /\ pc = "idle" /\ (NoBlock \/ Skipped)
         \/ Leave /\ pc = "send" /\ qf = 8 /\ last_timestamp' = stamp
            /\ UNCHANGED <<last_when, block, blocks, EndOf, pos, steady>>
         \/ /\ ~Frame
            /\ UNCHANGED <<pc, last_timestamp, last_when, block, blocks, EndOf>>
            /\ UNCHANGED <<pos, steady>> \/ steady' = pos'
<1>1. CASE Frame
  <2>1. pc = "idle" /\ (NoBlock \/ Skipped \/ Started)
    BY <1>1, FrameStep
  <2>2. ~Started
    BY DEF Started, Sender!StartBlock
  <2> QED
    BY <1>1, <2>1, <2>2
<1>2. ASSUME ~Frame, ~Write PROVE UNCHANGED <<block, blocks, EndOf>>
  BY <1>2, EndStays
<1>3. CASE Leave
  <2>1. /\ pc = "send" /\ qf = 8 /\ last_timestamp' = stamp
        /\ UNCHANGED <<last_when, pos, steady>>
    BY <1>3 DEF Leave, Sender!Drained, Sender!Return, Sender!Leave, Away,
       readerVars, tapeVars
  <2>2. ~Frame /\ ~Write
    BY <1>3 DEF Frame, Captured, Write, Leave, Sender!Drained,
       Sender!WriteQuarterFrame
  <2> QED
    BY <1>2, <1>3, <2>1, <2>2
<1>4. CASE ~Frame /\ ~Leave
  <2>1. ~Write
    BY DEF Write, Sender!WriteQuarterFrame
  <2>2. /\ UNCHANGED <<pc, last_timestamp, last_when>>
        /\ UNCHANGED <<pos, steady>> \/ steady' = pos'
    <3>1. CASE Stop \/ \E number \in Cuts : Cut(number)
      BY <3>1, CutStep, StopStep DEF BridgeTypes, senderVars
    <3>2. CASE Drain
      BY <3>2 DEF Drain, Sender!DrainMessage, Sender!senderVars, Away,
         readerVars, tapeVars, Sender!historyVars
    <3>3. CASE Deliver \/ Tick \/ UNCHANGED vars
      BY <1>4, <3>3 DEF Deliver, Tick, vars, readerVars, tapeVars, senderVars,
         Sender!Deliver, Sender!senderVars
    <3> QED
      BY <1>4, <2>1, <3>1, <3>2, <3>3, NextSteps
  <2> QED
    BY <1>2, <1>4, <2>1, <2>2
<1> QED
  BY <1>1, <1>3, <1>4

LEMMA LastStep ==
  ASSUME BridgeTypes, PaceInv, PlaceInv, AtRate, LastInv, [Next]_vars
  PROVE  LastInv'
<1> SUFFICES ASSUME pc' = "idle"
             PROVE  \/ Sender!Time(last_timestamp)' = last_when'
                    \/ /\ Sender!Time(last_timestamp)' = last_when' + 2 * FRAME
                       /\ block' > 0 /\ Place' <= last_when'
                       /\ last_when' <= Place' + MaxLate
  BY Units DEF LastInv, FRAME
<1>1. CASE Frame /\ pc = "idle" /\ (NoBlock \/ Skipped)
  <2>1. CASE NoBlock
    BY <1>1, <2>1 DEF NoBlock, senderVars, LastInv, Sender!Time, Place
  <2>2. CASE Skipped
    <3>1. /\ last_timestamp' = Sender!Stamp(frame_start + SECOND)
          /\ last_when' = frame_start + SECOND
      BY <2>2 DEF Skipped, Sender!SkipBlock, Sender!RememberLast
    <3>2. frame_start + SECOND \in Nat
      BY Units DEF BridgeTypes, ReaderTypes
    <3>3. Sender!Time(Sender!Stamp(frame_start + SECOND)) = frame_start + SECOND
      BY <3>2, StampOfTime
    <3> QED
      BY <3>1, <3>3 DEF Sender!Time
  <2> QED
    BY <1>1, <2>1, <2>2
<1>2. CASE Leave /\ pc = "send" /\ qf = 8 /\ last_timestamp' = stamp
           /\ UNCHANGED <<last_when, block, blocks, EndOf, pos, steady>>
  <2>1. /\ Sender!Time(stamp) = last_when + 2 * FRAME /\ block > 0
        /\ Place <= last_when /\ last_when <= Place + MaxLate
    BY <1>2, Leaving, Sending
  <2> QED
    BY <1>2, <2>1 DEF Sender!Time, Place
<1>3. CASE UNCHANGED <<pc, last_timestamp, last_when, block, blocks, EndOf>>
  BY <1>3 DEF LastInv, Sender!Time, Place
<1> QED
  BY <1>1, <1>2, <1>3, ToIdle

(* Frames that are passed.                                                 *)
LEMMA FrameRun ==
  ASSUME BridgeTypes, RunInv, Frame
  PROVE  Run' = Run + 1
<1> DEFINE run == Run + 1
<1>1. /\ pos \in Nat /\ steady \in Nat /\ Run \in Nat
      /\ pos - steady = FRAME * Run /\ pos' = pos + FRAME /\ steady' = steady
  BY FrameStep DEF BridgeTypes, ReaderTypes, RunInv
<1>2. run \in Nat /\ pos' \in Nat /\ steady' \in Nat /\ pos' - steady' = FRAME * run
  <2> HIDE DEF Run
  <2> QED
    BY <1>1, Units
<1> HIDE DEF run
<1>3. (pos' - steady') \div FRAME = run
  BY <1>2, NewRun
<1> QED
  BY <1>3 DEF Run, FRAME, run

(* After Withheld codewords the reader is in step.                         *)
LEMMA InStepByThen ==
  ASSUME RunInv, Run >= Withheld
  PROVE  /\ Run >= 2 /\ InStep
         /\ Announcing \/ (Run = Withheld /\ NoneSince)
<1>1. /\ Run \in Nat /\ out_of_sync_count \in 0 .. MAX_UNSYNCED + 1
      /\ MAX_UNSYNCED \in Nat /\ Withheld = MAX_UNSYNCED + 2
  BY BridgeAssumption DEF RunInv, Withheld
<1>2. Run >= 2 /\ ~(Run <= out_of_sync_count)
  BY <1>1
<1>3. GivenIn \/ Announcing
  BY <1>2 DEF RunInv, Counting
<1>4. GivenIn => Run = Withheld /\ NoneSince
  BY <1>1 DEF GivenIn
<1> QED
  BY <1>2, <1>3, <1>4 DEF GivenIn, Announcing

(* What is known of a frame the reader passes when it is in step: the      *)
(* timecode is announced with the place of the frame.                      *)
LEMMA FrameInStep ==
  ASSUME SmallLate, BridgeTypes, PaceInv, RateInv', RunInv, Frame,
         Run >= Withheld
  PROVE  /\ frame_pos = pos
         /\ Skipped \/ Started
         /\ \/ /\ pos + SECOND <= last_when + FRAME
               /\ last_when + FRAME <= pos + SECOND + MaxLate
            \/ last_when + 2 * FRAME < pos + SECOND
<1>1. /\ pos \in Nat /\ steady \in Nat /\ Run \in Nat /\ last_when \in Nat
      /\ pos - steady = 80 * Run
      /\ Run >= 1 => frame_pos = pos
      /\ FRAME = 80 /\ SECOND \in Nat /\ MaxLate \in 0 .. 9
  BY Units, BridgeAssumption
  DEF BridgeTypes, ReaderTypes, RunInv, Sender!TypeOK, SmallLate
<1>2. /\ Run >= 2 /\ InStep
      /\ Announcing \/ (Run = Withheld /\ NoneSince)
  BY InStepByThen
<1>3. frame_pos = pos
  BY <1>1, <1>2
<1>4. Skipped \/ Started
  BY <1>2, FrameTracks, Announced
<1>5. CASE Announcing
  BY <1>1, <1>2, <1>3, <1>4, <1>5 DEF Announcing
<1>6. CASE NoneSince
  <2> HIDE DEF Run
  <2>1. pos >= steady + 160
    BY <1>1, <1>2
  <2> QED
    BY <1>1, <1>3, <1>4, <1>6, <2>1 DEF NoneSince
<1> QED
  BY <1>2, <1>5, <1>6

(* The latest block, when its frame is the one before the reader.          *)
LEMMA LatestPlace ==
  ASSUME SmallLate, BridgeTypes, PlaceInv,
         block > 0, Place <= last_when, last_when <= Place + MaxLate,
         pos + SECOND <= last_when + FRAME,
         last_when + FRAME <= pos + SECOND + MaxLate
  PROVE  Place + FRAME = pos + SECOND
<1>1. /\ block \in Nat /\ pos \in Nat /\ last_when \in Nat /\ SECOND \in Nat
      /\ FRAME = 80 /\ MaxLate \in Nat
  BY Units, BridgeAssumption DEF BridgeTypes, ReaderTypes, Sender!TypeOK
<1>2. Place \in Nat /\ Ten(Place) /\ Ten(pos)
  BY <1>1, BlockFields DEF Place, PlaceInv, PositionTens
<1>3. Ten(pos + SECOND)
  BY <1>1, <1>2, Tens
<1> DEFINE a == Place + 80
           b == pos + SECOND
           w == last_when + 80
<1>4. /\ a \in Nat /\ Ten(a) /\ b \in Nat /\ Ten(b) /\ w \in Nat
      /\ a <= w /\ w <= a + MaxLate /\ b <= w /\ w <= b + MaxLate
  BY <1>1, <1>2, <1>3 DEF Ten
<1> HIDE DEF a, b, w
<1>5. a = b
  BY <1>4, SamePlace
<1> QED
  BY <1>1, <1>5 DEF a, b

LEMMA CoverStep ==
  ASSUME SmallLate, BridgeTypes, PaceInv, PlaceInv, AtRate, RateInv', RunInv,
         EndInv, LastInv, CoverInv, [Next]_vars
  PROVE  CoverInv'
<1> SUFFICES ASSUME pc' = "idle", Run' > Withheld
             PROVE  pos' + SECOND <= EndOf'
  BY Units DEF CoverInv, SECOND, FRAME, Withheld
<1>1. /\ pos \in Nat /\ steady \in Nat /\ Run \in Nat
      /\ last_when \in Nat /\ EndOf \in Nat /\ FRAME = 80 /\ SECOND \in Nat
      /\ Withheld \in Nat /\ Withheld >= 2 /\ MaxLate \in 0 .. 9
      /\ block \in Nat /\ QUARTER = 20
  BY Units, BridgeAssumption, EndOfType
  DEF BridgeTypes, ReaderTypes, RunInv, Sender!TypeOK, Withheld, SmallLate
<1>2. CASE Frame /\ pc = "idle" /\ (NoBlock \/ Skipped)
  <2>1. Run >= Withheld
    BY <1>1, <1>2, FrameRun
  <2>2. /\ frame_pos = pos /\ Skipped
        /\ \/ /\ pos + SECOND <= last_when + FRAME
              /\ last_when + FRAME <= pos + SECOND + MaxLate
           \/ last_when + 2 * FRAME < pos + SECOND
    <3>1. Skipped \/ Started
      BY <1>2, <2>1, FrameInStep
    <3>2. ~Started
      BY DEF Started, Sender!StartBlock
    <3> QED
      BY <1>2, <2>1, <3>1, <3>2, FrameInStep
  <2>3. pos + SECOND <= Sender!Time(last_timestamp)
    <3>1. frame_start + SECOND <= Sender!Time(last_timestamp)
      BY <2>2, NotDue
    <3>2. /\ frame_start \in Nat /\ pos <= frame_start
          /\ Sender!Time(last_timestamp) \in Nat
      BY <1>1, <2>2, TimeNat
      DEF PaceInv, StampInv, BridgeTypes, ReaderTypes, Sender!TypeOK
    <3> QED
      BY <1>1, <3>1, <3>2
  <2>4. /\ block > 0 /\ Place <= last_when /\ last_when <= Place + MaxLate
        /\ pos + SECOND <= last_when + FRAME
        /\ last_when + FRAME <= pos + SECOND + MaxLate
    BY <1>1, <1>2, <2>2, <2>3 DEF LastInv
  <2>5. Place + FRAME = pos + SECOND
    BY <2>4, LatestPlace
  <2>6. Place \in Nat
    BY <1>1, <2>4, BlockFields DEF Place
  <2>7. EndOf = Place + 160
    BY <1>1, <1>2, <2>4, <2>6 DEF EndOf, Place, EndInv
  <2>8. pos' = pos + FRAME
    BY <1>2, FrameStep
  <2>9. EndOf' = EndOf
    BY <2>2 DEF EndOf, Skipped, Sender!SkipBlock, Sender!RememberLast, QUARTER,
       FRAME
  <2> QED
    BY <1>1, <2>5, <2>6, <2>7, <2>8, <2>9
<1>3. CASE Leave /\ pc = "send" /\ qf = 8 /\ last_timestamp' = stamp
           /\ UNCHANGED <<last_when, block, blocks, EndOf, pos, steady>>
  <2>1. Run' = Run
    BY <1>3 DEF Run, FRAME
  <2>2. Run >= 2 /\ Announcing
    BY <1>1, <2>1, InStepByThen
  <2>3. /\ pos + SECOND <= last_when + FRAME
        /\ last_when + FRAME <= pos + SECOND + MaxLate
    BY <1>1, <2>2 DEF Announcing
  <2>4. /\ EndOf = Place + 2 * FRAME /\ block > 0 /\ Place \in Nat
        /\ Place <= last_when /\ last_when <= Place + MaxLate
    BY <1>3, Leaving, Sending
  <2>5. Place + FRAME = pos + SECOND
    BY <2>3, <2>4, LatestPlace
  <2>6. pos + SECOND <= EndOf
    BY <1>1, <2>4, <2>5
  <2> QED
    BY <1>3, <2>6
<1>4. CASE UNCHANGED <<pc, last_timestamp, last_when, block, blocks, EndOf>>
           /\ UNCHANGED <<pos, steady>>
  <2>1. Run' = Run
    BY <1>4 DEF Run, FRAME
  <2> QED
    BY <1>4, <2>1 DEF CoverInv
<1>5. CASE ~Frame /\ steady' = pos'
  <2>1. pos' \in Nat
    BY TypesStep DEF BridgeTypes, ReaderTypes
  <2>2. pos' - steady' = FRAME * 0
    <3>1. \A p \in Nat : p - p = FRAME * 0
      BY Units
    <3> QED
      BY <1>5, <2>1, <3>1
  <2>3. Run' = 0
    <3>1. (pos' - steady') \div FRAME = 0
      BY <1>5, <2>1, <2>2, NewRun
    <3> QED
      BY <3>1 DEF Run, FRAME
  <2> QED
    BY <1>1, <2>3
<1> QED
  BY <1>2, <1>3, <1>4, <1>5, ToIdle

(* A block begins on the grid, or ends before what is covered, and leaves  *)
(* no gap to the block before it.                                          *)
LEMMA GapStart ==
  ASSUME SmallLate, BridgeTypes, PaceInv, PlaceInv, EndInv, RunInv, CoverInv,
         Frame, Started
  PROVE  /\ GapInv' /\ Covered' = Covered
         /\ EndOf' <= EndOf \/ EndOf' <= Covered
<1>1. /\ pos \in Nat /\ steady \in Nat /\ Run \in Nat
      /\ frame_pos \in Nat /\ frame_pos <= pos
      /\ pos - steady = 80 * Run
      /\ Run >= 1 => frame_pos = pos
      /\ SECOND \in Nat /\ Withheld \in Nat /\ Withheld >= 2 /\ FRAME = 80
      /\ EndOf \in Nat
  BY Units, BridgeAssumption, EndOfType
  DEF BridgeTypes, ReaderTypes, RunInv, Withheld, PaceInv, StampInv,
      Sender!TypeOK
<1>2. /\ pc = "idle" /\ steady' = steady /\ Place' = frame_pos + SECOND
      /\ EndOf' = frame_pos + SECOND
  BY FrameStep, StartAtEnd DEF Place
<1>3. Covered = steady + SECOND + 80 * Withheld /\ Covered \in Nat
  BY <1>1 DEF Covered
<1>4. Covered' = Covered
  BY <1>2 DEF Covered, SECOND, FRAME, Withheld
<1> HIDE DEF Run
<1>5. CASE Run = 0
  <2>1. frame_pos + SECOND + 160 <= Covered
    BY <1>1, <1>3, <1>5
  <2>2. Place' + 160 <= Covered' /\ EndOf' <= Covered
    BY <1>1, <1>2, <1>3, <1>4, <2>1
  <2>3. GapInv'
    BY <1>1, <2>2 DEF GapInv, FRAME
  <2> QED
    BY <1>4, <2>2, <2>3
<1>6. CASE Run >= 1
  <2>1. Place' = pos + SECOND /\ EndOf' = pos + SECOND
    BY <1>1, <1>2, <1>6
  <2>2. OnGrid(pos + SECOND)
    <3>1. (pos + SECOND) - Covered = 20 * (4 * (Run - Withheld))
      BY <1>1, <1>3
    <3>2. \A n \in Int : (20 * n) % 20 = 0
      OBVIOUS
    <3>3. 4 * (Run - Withheld) \in Int
      BY <1>1
    <3>4. ((pos + SECOND) - Covered) % 20 = 0
      BY <3>1, <3>2, <3>3
    <3> QED
      BY <3>4 DEF OnGrid
  <2>3. pos + SECOND <= EndOf \/ pos + SECOND <= Covered
    <3>1. CASE Run > Withheld
      BY <1>2, <3>1 DEF CoverInv
    <3>2. CASE Run <= Withheld
      BY <1>1, <1>3, <3>2
    <3> QED
      BY <1>1, <3>1, <3>2
  <2>4. OnGrid(Place)'
    BY <1>4, <2>1, <2>2 DEF OnGrid
  <2> QED
    BY <1>4, <2>1, <2>3, <2>4 DEF GapInv
<1> QED
  BY <1>1, <1>5, <1>6

LEMMA GapStep ==
  ASSUME SmallLate, BridgeTypes, PaceInv, PlaceInv, EndInv, RunInv, CoverInv,
         GapInv, [Next]_vars
  PROVE  GapInv'
<1>1. CASE Frame /\ Started
  BY <1>1, GapStart
<1>2. CASE Frame /\ ~Started
  <2>1. pc' # "send"
    BY <1>2, FrameStep DEF NoBlock, Skipped, Sender!SkipBlock, senderVars
  <2> QED
    BY <2>1 DEF GapInv
<1>3. CASE ~Frame
  <2>1. pc' = "send" => pc = "send" /\ UNCHANGED steady
    <3>1. CASE Write \/ Drain
      BY <3>1 DEF Write, Drain, Away, tapeVars, Sender!WriteQuarterFrame,
         Sender!DrainMessage, Sender!senderVars
    <3>2. CASE Stop \/ \E number \in Cuts : Cut(number)
      BY <3>2, CutStep, StopStep DEF BridgeTypes, senderVars
    <3>3. CASE Leave \/ Deliver \/ Tick \/ UNCHANGED vars
      BY <3>3 DEF Leave, Deliver, Tick, vars, Away, tapeVars, senderVars,
         Sender!senderVars, Sender!Drained, Sender!Return, Sender!Leave,
         Sender!Deliver
    <3> QED
      BY <1>3, <3>1, <3>2, <3>3, NextSteps
  <2>2. block' = block /\ blocks' = blocks
    BY <1>3, BlocksStay
  <2> QED
    BY <2>1, <2>2 DEF GapInv, OnGrid, Covered, Place, FRAME, SECOND, Withheld
<1> QED
  BY <1>1, <1>2, <1>3

(***************************************************************************)
(* Every quarter frame that is due is on the way.                          *)
(***************************************************************************)

(* A message keeps its place.                                              *)
LEMMA PlaceStays ==
  ASSUME BridgeTypes, PlaceInv, [Next]_vars, NEW m \in OnTheWay
  PROVE  Ideal(m)' = Ideal(m)
<1>1. m.block \in 1 .. block
  BY DEF PlaceInv, MessageTells
<1>2. blocks'[m.block] = blocks[m.block]
  BY <1>1, BlocksStay
<1> QED
  BY <1>2 DEF Ideal, QUARTER, FRAME

(* A quarter frame that is written follows those before it.                *)
LEMMA CompleteWrite ==
  ASSUME BridgeTypes, PaceInv, PlaceInv, AtRate, GapInv, CompleteInv,
         [Next]_vars, Write
  PROVE  CompleteInv'
<1>1. /\ Ideal(NewMessage) = EndOf /\ EndOf' = EndOf + 20 /\ pc = "send"
      /\ block' = block /\ blocks' = blocks /\ EndOf \in Nat
  BY WriteAtEnd, EndOfType, Units
<1>2. /\ EndOf = Place + 20 * qf /\ Place \in Nat /\ qf \in 0 .. 7
  BY <1>1, Sending, Units
  DEF Write, Sender!WriteQuarterFrame
<1>3. /\ now' = now /\ steady' = steady
      /\ OnTheWay \subseteq OnTheWay' /\ NewMessage \in OnTheWay'
  <2>1. /\ pool' = pool /\ Len(output_buffer') = Len(output_buffer) + 1
        /\ \A j \in 1 .. Len(output_buffer) : output_buffer'[j] = output_buffer[j]
        /\ output_buffer'[Len(output_buffer) + 1] = NewMessage
    BY WriteMessage
  <2>2. Len(output_buffer) \in Nat
    BY DEF BridgeTypes, Sender!TypeOK
  <2>3. /\ Len(output_buffer) + 1 \in 1 .. Len(output_buffer')
        /\ \A j \in 1 .. Len(output_buffer) : j \in 1 .. Len(output_buffer')
    BY <2>1, <2>2
  <2>4. NewMessage \in OnTheWay'
    BY <2>1, <2>3 DEF OnTheWay
  <2>5. OnTheWay \subseteq OnTheWay'
    BY <2>1, <2>3 DEF OnTheWay
  <2> QED
    BY <2>4, <2>5 DEF Write, Sender!WriteQuarterFrame, Away, tapeVars
<1>4. Covered' = Covered /\ Covered \in Nat
  BY <1>3, Units, BridgeAssumption
  DEF Covered, SECOND, FRAME, Withheld, BridgeTypes, ReaderTypes
<1>5. \A m : Ideal(m)' = blocks[m.block].ideal + QUARTER * m.piece
  BY <1>1 DEF Ideal, QUARTER, FRAME
<1>6. ASSUME NEW t \in Nat, Covered <= t, now < t, t < EndOf', OnGrid(t)
      PROVE  \E m \in OnTheWay' : Ideal(m)' = t
  <2>1. CASE t < EndOf
    <3>1. PICK m \in OnTheWay : Ideal(m) = t
      BY <1>6, <2>1 DEF CompleteInv
    <3> QED
      BY <1>3, <3>1, PlaceStays
  <2>2. CASE EndOf <= t
    <3>1. ~(Place + 2 * FRAME <= Covered)
      BY <1>1, <1>2, <1>4, <1>6, Units
    <3>2. OnGrid(Place)
      BY <1>1, <3>1 DEF GapInv
    <3>3. (t - Covered) % 20 = 0 /\ (Place - Covered) % 20 = 0
      BY <1>6, <3>2 DEF OnGrid
    <3>4. t = EndOf
      BY <1>1, <1>2, <1>4, <1>6, <2>2, <3>3
    <3>5. PICK m \in OnTheWay' : m = NewMessage
      BY <1>3
    <3>6. Ideal(m) = t
      BY <1>1, <3>4, <3>5
    <3>7. Ideal(m)' = t
      BY <1>5, <3>6 DEF Ideal
    <3> QED
      BY <3>5, <3>7
  <2> QED
    BY <1>1, <1>6, <2>1, <2>2
<1> QED
  BY <1>3, <1>4, <1>6 DEF CompleteInv, OnGrid

LEMMA CompleteDrain ==
  ASSUME BridgeTypes, Drain
  PROVE  OnTheWay \subseteq OnTheWay'
<1> DEFINE len == Len(output_buffer)
<1>1. /\ len \in Nat /\ len >= 1 /\ Len(output_buffer') = len - 1
      /\ pool' = pool \union {output_buffer[1]}
      /\ \A j \in 1 .. len - 1 : output_buffer'[j] = output_buffer[j + 1]
  BY DrainedMessage DEF BridgeTypes, Sender!TypeOK
<1>2. ASSUME NEW j \in 1 .. len PROVE output_buffer[j] \in OnTheWay'
  <2>1. CASE j = 1
    BY <1>1, <2>1 DEF OnTheWay
  <2>2. CASE j # 1
    <3> HIDE DEF len
    <3>1. j - 1 \in 1 .. len - 1 /\ (j - 1) + 1 = j
      BY <1>1, <2>2
    <3>2. output_buffer'[j - 1] = output_buffer[j]
      BY <1>1, <3>1
    <3> QED
      BY <1>1, <3>1, <3>2 DEF OnTheWay
  <2> QED
    BY <2>1, <2>2
<1>3. pool \subseteq OnTheWay'
  BY <1>1 DEF OnTheWay
<1> QED
  BY <1>2, <1>3 DEF OnTheWay

LEMMA CompleteStep ==
  ASSUME SmallLate, BridgeTypes, PaceInv, PlaceInv, EndInv, AtRate, RunInv,
         CoverInv, GapInv, CompleteInv, [Next]_vars
  PROVE  CompleteInv'
<1>1. CASE Write
  BY <1>1, CompleteWrite
<1>2. CASE Frame /\ Started
  <2>1. /\ Covered' = Covered
        /\ EndOf' <= EndOf \/ EndOf' <= Covered
    BY <1>2, GapStart
  <2>2. now' = now /\ OnTheWay' = OnTheWay
    <3>1. ~Write /\ ~Drain /\ ~Deliver
      BY <1>2 DEF Started, Sender!StartBlock, Write, Drain, Deliver,
         Sender!WriteQuarterFrame, Sender!DrainMessage, Sender!Deliver,
         Sender!alsaVars, Sender!senderVars
    <3> QED
      BY <3>1, MessagesStay
  <2>3. EndOf \in Nat /\ EndOf' \in Nat /\ Covered \in Nat
    <3>1. EndOf' = frame_pos + SECOND
      BY <1>2, StartAtEnd
    <3> QED
      BY <3>1, EndOfType, Units, BridgeAssumption
      DEF Covered, Withheld, BridgeTypes, ReaderTypes
  <2>4. ASSUME NEW t \in Nat, Covered <= t, now < t, t < EndOf', OnGrid(t)
        PROVE  \E m \in OnTheWay' : Ideal(m)' = t
    <3>1. t < EndOf
      BY <2>1, <2>3, <2>4
    <3>2. PICK m \in OnTheWay : Ideal(m) = t
      BY <2>4, <3>1 DEF CompleteInv
    <3> QED
      BY <2>2, <3>2, PlaceStays
  <2> QED
    BY <2>1, <2>2, <2>4 DEF CompleteInv, OnGrid
<1>3. CASE Stop \/ \E number \in Cuts : Cut(number)
  <2>1. /\ steady' = pos' /\ (pos' = pos + STOP \/ pos' = pos + PART)
        /\ pc = "idle"
    BY <1>3, CutStep, StopStep DEF BridgeTypes
  <2>2. EndOf' = EndOf /\ EndOf \in Nat
    <3>1. ~Write /\ ~(Frame /\ Started)
      BY <2>1, <1>3, CutStep, StopStep
      DEF Write, Sender!WriteQuarterFrame, Started, Sender!StartBlock,
          BridgeTypes, senderVars
    <3> QED
      BY <3>1, EndStays, EndOfType
  <2>3. /\ pos \in Nat /\ frame_pos \in Nat /\ frame_pos <= pos
        /\ EndOf <= frame_pos + SECOND + 80
        /\ Withheld \in Nat /\ Withheld >= 2
    <3>1. /\ pos \in Nat /\ frame_pos \in Nat /\ frame_pos <= pos
          /\ Withheld \in Nat /\ Withheld >= 2 /\ block \in Nat
      BY BridgeAssumption DEF BridgeTypes, ReaderTypes, Sender!TypeOK, PaceInv,
         StampInv, Withheld
    <3>2. CASE block = 0
      BY <3>1, <3>2, Units DEF EndOf
    <3>3. CASE block > 0
      <4>1. qf = 8 /\ blocks[block].ideal + FRAME <= frame_pos + SECOND
        BY <2>1, <3>3 DEF EndInv
      <4>2. blocks[block].ideal \in Nat
        BY <3>1, <3>3, BlockFields
      <4> QED
        BY <3>1, <3>3, <4>1, <4>2, Units DEF EndOf
    <3> QED
      BY <3>1, <3>2, <3>3
  <2>4. pos' \in Nat /\ pos <= pos'
    BY <2>1, <2>3, Units
  <2>5. ASSUME NEW p \in Nat, pos <= p
        PROVE  /\ p + SECOND + Withheld * FRAME \in Nat
               /\ EndOf <= p + SECOND + Withheld * FRAME
    BY <2>2, <2>3, <2>5, Units
  <2>6. Covered' = pos' + SECOND + Withheld * FRAME
    BY <2>1 DEF Covered, SECOND, FRAME, Withheld
  <2>7. Covered' \in Nat /\ EndOf' \in Nat /\ EndOf' <= Covered'
    BY <2>2, <2>4, <2>5, <2>6
  <2>8. ASSUME NEW t \in Nat, Covered' <= t, t < EndOf' PROVE FALSE
    BY <2>7, <2>8
  <2> QED
    BY <2>8 DEF CompleteInv
<1>4. CASE Deliver
  <2>1. PICK m \in pool :
          /\ pool' = pool \ {m} /\ output_buffer' = output_buffer
          /\ now' = IF now < TimeOf(m) THEN TimeOf(m) ELSE now
    BY <1>4, DeliveredMessage
  <2>2. /\ steady' = steady /\ EndOf' = EndOf
        /\ now \in Nat /\ TimeOf(m) \in Nat
    BY <1>4, MessageTypes DEF Deliver, tapeVars, Sender!Deliver, OnTheWay,
       BridgeTypes, Sender!TypeOK, Sender!senderVars, EndOf, QUARTER, FRAME
  <2>3. Ideal(m) <= TimeOf(m) /\ Ideal(m) \in Nat
    <3>1. /\ m.block \in 1 .. block /\ block \in Nat
          /\ RateOf(m.block) = RATE => TimeOf(m) \in Ideal(m) .. Ideal(m) + MaxLate
      BY DEF PlaceInv, MessageTells, OnTheWay, BridgeTypes, Sender!TypeOK
    <3>2. RateOf(m.block) = RATE
      BY <3>1 DEF AtRate, RateOf, BridgeTypes, BlockTypes
    <3>3. Ideal(m) \in Nat
      <4>1. m.piece \in 0 .. 7 /\ blocks[m.block].ideal \in Nat
        BY <3>1, BlockFields, MessageTypes DEF OnTheWay
      <4> QED
        BY <4>1, Units DEF Ideal
    <3> QED
      BY <2>2, <3>1, <3>2, <3>3, BridgeAssumption
  <2>4. ASSUME NEW t \in Nat, Covered <= t, now' < t, t < EndOf, OnGrid(t)
        PROVE  \E other \in OnTheWay' : Ideal(other)' = t
    <3>1. now < t /\ Ideal(m) # t
      BY <2>1, <2>2, <2>3, <2>4
    <3>2. PICK other \in OnTheWay : Ideal(other) = t
      BY <2>4, <3>1 DEF CompleteInv
    <3>3. other # m
      BY <3>1, <3>2
    <3>4. other \in OnTheWay'
      BY <2>1, <3>3 DEF OnTheWay
    <3> QED
      BY <3>2, <3>4, PlaceStays
  <2>5. Covered' = Covered
    BY <2>2 DEF Covered, SECOND, FRAME, Withheld
  <2> QED
    BY <2>2, <2>4, <2>5 DEF CompleteInv, OnGrid
<1>5. CASE ~Write /\ ~Deliver /\ ~(Frame /\ Started)
           /\ ~Stop /\ ~\E number \in Cuts : Cut(number)
  <2>1. EndOf' = EndOf
    BY <1>5, EndStays
  <2>2. steady' = steady
    BY <1>5, FrameStep, NextSteps DEF Drain, Leave, Away, tapeVars, Tick, vars
  <2>3. now' = now /\ OnTheWay \subseteq OnTheWay'
    <3>1. CASE Drain
      BY <3>1, CompleteDrain DEF Drain, Sender!DrainMessage, Sender!historyVars
    <3>2. CASE ~Drain
      BY <1>5, <3>2, MessagesStay
    <3> QED
      BY <3>1, <3>2
  <2>4. Covered' = Covered
    BY <2>2 DEF Covered, SECOND, FRAME, Withheld
  <2>5. ASSUME NEW t \in Nat, Covered <= t, now < t, t < EndOf, OnGrid(t)
        PROVE  \E m \in OnTheWay' : Ideal(m)' = t
    <3>1. PICK m \in OnTheWay : Ideal(m) = t
      BY <2>5 DEF CompleteInv
    <3> QED
      BY <2>3, <3>1, PlaceStays
  <2> QED
    BY <2>1, <2>3, <2>4, <2>5 DEF CompleteInv, OnGrid
<1> QED
  BY <1>1, <1>2, <1>3, <1>4, <1>5

(* What must have been heard by a time, but for the error of its start.    *)
LEMMA NextOnGrid ==
  ASSUME BridgeTypes, Covered + MaxLate <= clock, now + 20 + MaxLate <= clock
  PROVE  \E t \in Nat : /\ Covered <= t /\ now < t /\ t + MaxLate <= clock
                        /\ OnGrid(t)
<1>1. /\ Covered \in Nat /\ now \in Nat /\ clock \in Nat /\ MaxLate \in Nat
  BY Units, BridgeAssumption
  DEF Covered, Withheld, BridgeTypes, ReaderTypes, Sender!TypeOK
<1> DEFINE t == IF now < Covered THEN Covered
                ELSE Covered + 20 * ((now - Covered) \div 20 + 1)
<1>2. /\ t \in Nat /\ Covered <= t /\ now < t /\ t + MaxLate <= clock
      /\ (t - Covered) % 20 = 0
  <2>1. CASE now < Covered
    BY <1>1, <2>1
  <2>2. CASE ~(now < Covered)
    <3> DEFINE k == (now - Covered) \div 20
    <3>1. k \in Nat /\ 20 * k <= now - Covered /\ now - Covered < 20 * k + 20
      BY <1>1, <2>2
    <3>2. t = Covered + 20 * (k + 1)
      BY <2>2
    <3> HIDE DEF k, t
    <3> QED
      BY <1>1, <3>1, <3>2
  <2> QED
    BY <2>1, <2>2
<1> HIDE DEF t
<1> QED
  BY <1>2 DEF OnGrid

(* The clock goes on, and nothing is missing.                              *)
LEMMA KeepTick ==
  ASSUME SmallLate, BridgeTypes, PaceInv, PlaceInv, OrderInv, LagInv,
         LagBelowSecond, AtRate, RunInv, CoverInv, CompleteInv, Tick,
         Covered + MaxLate <= clock
  PROVE  clock - now < QUARTER + MaxLate
<1>1. /\ clock \in Nat /\ TICK \in Nat /\ pos \in Nat /\ steady \in Nat
      /\ EndOf \in Nat /\ last_when \in Nat /\ now \in Nat
      /\ Run \in Nat /\ pos - steady = 80 * Run
      /\ FRAME = 80 /\ SECOND \in Nat /\ Withheld \in Nat
      /\ MaxLate \in 0 .. 9 /\ QUARTER = 20
  BY Units, BridgeAssumption, EndOfType
  DEF BridgeTypes, ReaderTypes, Sender!TypeOK, RunInv, Withheld, SmallLate
<1> SUFFICES ASSUME now + 20 + MaxLate <= clock PROVE FALSE
  BY <1>1
<1>2. PICK t \in Nat :
        Covered <= t /\ now < t /\ t + MaxLate <= clock /\ OnGrid(t)
  BY NextOnGrid
<1>3. clock < pos + SECOND
  <2>1. ReadLag \in Int /\ PoolLag \in Int
    BY Units, BridgeAssumption DEF ReadLag, PoolLag
  <2> QED
    BY <1>1, <2>1 DEF LagInv, LagBelowSecond
<1>4. CASE t < EndOf
  <2>1. PICK m \in OnTheWay : Ideal(m) = t
    BY <1>2, <1>4 DEF CompleteInv
  <2>2. TimeOf(m) <= clock /\ TimeOf(m) \in Nat
    <3>1. /\ m.block \in 1 .. block /\ block \in Nat
          /\ RateOf(m.block) = RATE => TimeOf(m) \in Ideal(m) .. Ideal(m) + MaxLate
      BY DEF PlaceInv, MessageTells, BridgeTypes, Sender!TypeOK
    <3>2. RateOf(m.block) = RATE
      BY <3>1 DEF AtRate, RateOf, BridgeTypes, BlockTypes
    <3>3. TimeOf(m) \in t .. t + MaxLate
      BY <2>1, <3>1, <3>2
    <3> QED
      BY <1>1, <1>2, <3>3, MessageTypes
  <2>3. m \notin pool
    BY <2>2 DEF Tick, MessageDue, TimeOf
  <2>4. PICK j \in 1 .. Len(output_buffer) : m = output_buffer[j]
    BY <2>3 DEF OnTheWay
  <2>5. pc = "send"
    BY <2>4 DEF OrderInv, BufferInv, BridgeTypes, Sender!TypeOK
  <2>6. clock + TICK < TimeOf(m)
    BY <2>4, <2>5, WaitingLag
  <2> QED
    BY <1>1, <2>2, <2>6
<1>5. CASE ~(t < EndOf)
  <2>1. EndOf < pos + SECOND
    BY <1>1, <1>2, <1>3, <1>5
  <2>2. Run > Withheld
    <3> HIDE DEF Run
    <3>1. Covered < pos + SECOND
      BY <1>1, <1>2, <1>3 DEF Covered
    <3>2. steady + Withheld * 80 < pos
      BY <1>1, <3>1 DEF Covered
    <3> QED
      BY <1>1, <3>2
  <2>3. CASE pc = "idle"
    <3>1. pos + SECOND <= EndOf
      BY <2>2, <2>3 DEF CoverInv
    <3> QED
      BY <1>1, <2>1, <3>1
  <2>4. CASE pc = "send"
    <3>1. qf = 8
      BY <2>4 DEF Tick, SenderReady, BridgeTypes, Sender!TypeOK
    <3>2. /\ EndOf = Place + 2 * FRAME /\ Place \in Nat
          /\ last_when <= Place + MaxLate
      BY <2>4, <3>1, Leaving, Sending
    <3>3. Announcing /\ Run >= 2
      BY <1>1, <2>2, InStepByThen
    <3>4. pos + SECOND <= last_when + FRAME
      BY <1>1, <3>3 DEF Announcing
    <3> QED
      BY <1>1, <2>1, <3>2, <3>4
  <2> QED
    BY <2>3, <2>4 DEF BridgeTypes, Sender!TypeOK
<1> QED
  BY <1>4, <1>5

LEMMA KeepStep ==
  ASSUME SmallLate, BridgeTypes, PaceInv, PlaceInv, OrderInv, LagInv,
         LagBelowSecond, AtRate, RunInv, CoverInv, CompleteInv, KeepInv,
         [Next]_vars
  PROVE  KeepInv'
<1>1. CASE Tick
  <2>1. clock' = clock + TICK /\ now' = now /\ steady' = steady
    BY <1>1 DEF Tick, senderVars, tapeVars
  <2>2. Covered' = Covered
    BY <2>1 DEF Covered, SECOND, FRAME, Withheld
  <2>3. /\ clock \in Nat /\ TICK \in Nat /\ MaxLate \in Nat /\ now \in Nat
        /\ Covered \in Nat
    BY Units, BridgeAssumption
    DEF Covered, Withheld, BridgeTypes, ReaderTypes, Sender!TypeOK
  <2>4. ASSUME Covered + MaxLate + TICK <= clock + TICK
        PROVE  (clock + TICK) - now < 20 + MaxLate + TICK
    <3>1. Covered + MaxLate <= clock
      BY <2>3, <2>4
    <3>2. clock - now < 20 + MaxLate
      BY <1>1, <3>1, KeepTick, Units
    <3> QED
      BY <2>3, <3>2
  <2> QED
    BY <2>1, <2>2, <2>4, Units DEF KeepInv, QUARTER, FRAME
<1>2. CASE ~Tick
  <2>1. /\ now \in Nat /\ clock \in Nat /\ steady \in Nat /\ pos \in Nat
        /\ steady <= pos
    <3>1. Run \in Nat /\ pos - steady = 80 * Run
      BY Units DEF RunInv
    <3> HIDE DEF Run
    <3> QED
      BY <3>1 DEF BridgeTypes, ReaderTypes, Sender!TypeOK
  <2>2. clock' = clock
    BY <1>2, ClockStays
  <2>3. now' \in Nat /\ now <= now'
    <3>1. CASE Deliver
      BY <2>1, <3>1, DeliveredMessage, MessageTypes DEF OnTheWay
    <3>2. CASE Write \/ Drain
      BY <2>1, <3>2 DEF Write, Drain, Sender!WriteQuarterFrame,
         Sender!DrainMessage, Sender!historyVars
    <3>3. CASE ~Deliver /\ ~Write /\ ~Drain
      BY <2>1, <3>3, MessagesStay
    <3> QED
      BY <3>1, <3>2, <3>3
  <2>4. steady' \in Nat /\ steady <= steady'
    <3>1. CASE Stop \/ \E number \in Cuts : Cut(number)
      <4>1. steady' = pos + STOP \/ steady' = pos + PART
        BY <3>1, CutStep, StopStep DEF BridgeTypes
      <4> QED
        BY <2>1, <4>1, Units
    <3>2. CASE Frame
      BY <2>1, <3>2, FrameStep
    <3>3. CASE Write \/ Drain \/ Leave \/ Deliver \/ UNCHANGED vars
      BY <2>1, <3>3 DEF Write, Drain, Leave, Away, Deliver, vars, tapeVars
    <3> QED
      BY <1>2, <3>1, <3>2, <3>3, NextSteps
  <2>5. Covered' = steady' + SECOND + Withheld * FRAME
    BY DEF Covered, SECOND, FRAME, Withheld
  <2>6. /\ Withheld * FRAME \in Nat /\ SECOND \in Nat /\ QUARTER = 20
        /\ MaxLate \in Nat /\ TICK \in Nat
    BY Units, BridgeAssumption DEF Withheld
  <2> DEFINE rest == SECOND + Withheld * FRAME + MaxLate + TICK
  <2>7. rest \in Nat /\ Covered + MaxLate + TICK = steady + rest
    BY <2>1, <2>6 DEF Covered
  <2>8. Covered' + MaxLate + TICK = steady' + rest
    BY <2>4, <2>5, <2>6
  <2> HIDE DEF rest
  <2>9. ASSUME NEW s \in Nat, steady <= s, NEW n \in Nat, now <= n,
               s + rest <= clock
        PROVE  clock - n < 20 + MaxLate + TICK
    <3>1. clock - now < 20 + MaxLate + TICK
      BY <2>1, <2>6, <2>7, <2>9 DEF KeepInv
    <3> QED
      BY <2>1, <2>6, <2>9, <3>1
  <2> QED
    BY <2>2, <2>3, <2>4, <2>6, <2>8, <2>9 DEF KeepInv, QUARTER, FRAME
<1> QED
  BY <1>1, <1>2

LEMMA BlockStep ==
  KnownRate /\ SmallLate /\ LagBelowSecond /\ TimeInv /\ AtRate /\ RateInv
  /\ RunInv /\ BlockInv /\ [Next]_vars
  => BlockInv'
<1> SUFFICES ASSUME KnownRate, SmallLate, LagBelowSecond, TimeInv, AtRate,
                    RateInv, RunInv, BlockInv, [Next]_vars
             PROVE  BlockInv'
  OBVIOUS
<1>1. RateInv'
  BY RateStep DEF TimeInv
<1>2. LastInv'
  BY LastStep DEF TimeInv, BlockInv
<1>3. CoverInv'
  BY <1>1, CoverStep DEF TimeInv, OrderInv, BlockInv
<1>4. GapInv'
  BY GapStep DEF TimeInv, OrderInv, BlockInv
<1>5. CompleteInv'
  BY CompleteStep DEF TimeInv, OrderInv, BlockInv
<1>6. KeepInv'
  BY KeepStep DEF TimeInv, BlockInv
<1> QED
  BY <1>2, <1>3, <1>4, <1>5, <1>6 DEF BlockInv

LEMMA InitBlock == Init => BlockInv
<1> SUFFICES ASSUME Init PROVE BlockInv
  OBVIOUS
<1>1. /\ pc = "idle" /\ last_timestamp = Sender!Stamp(0) /\ last_when = 0
      /\ block = 0 /\ now = 0 /\ clock = 0 /\ pos = 0 /\ steady = 0
  BY DEF Init, Reader!Init, Sender!Init
<1>2. /\ SECOND \in Nat /\ Withheld \in Nat /\ FRAME = 80 /\ TICK \in 1 .. 10
      /\ MaxLate \in Nat
  BY Units, BridgeAssumption DEF Withheld
<1>3. LastInv
  BY <1>1, StampOfTime DEF LastInv
<1>4. ~(Run > Withheld)
  <2>1. Run = 0
    BY <1>1, Units DEF Run
  <2> QED
    BY <1>2, <2>1
<1>5. CoverInv /\ GapInv
  BY <1>1, <1>4 DEF CoverInv, GapInv
<1>6. Covered \in Nat /\ EndOf = 0
  BY <1>1, <1>2 DEF Covered, EndOf
<1>7. CompleteInv /\ KeepInv
  BY <1>1, <1>2, <1>6 DEF CompleteInv, KeepInv
<1> QED
  BY <1>3, <1>5, <1>7 DEF BlockInv

(* At a frame rate the reader knows, quarter frames keep coming: when the  *)
(* tape has run for the codewords the reader may withhold and the second   *)
(* of line 76, the time is never more than a quarter frame after the last  *)
(* of them, but for the error of a start and the resolution of the clock,  *)
(* however late codewords are read and however often the sender waits for  *)
(* the pool.                                                               *)
THEOREM QuarterFramesKeepComing ==
  ASSUME KnownRate, SmallLate, LagBelowSecond
  PROVE  Spec => []KeepsComing
<1>1. BlockInv => KeepsComing
  <2>1. SECOND \div (4 * InitialFrameRate) = 20 /\ QUARTER = 20
    <3>1. RATE \in 1 .. 46 /\ InitialFrameRate = RATE
      BY BridgeAssumption DEF KnownRate
    <3>2. (RATE * 80) \div (4 * RATE) = 20
      <4>1. /\ 4 * RATE \in Nat /\ 4 * RATE > 0
            /\ RATE * 80 = (4 * RATE) * 20
        BY <3>1
      <4>2. \A d \in Nat : d > 0 => (d * 20) \div d = 20
        OBVIOUS
      <4> QED
        BY <4>1, <4>2
    <3> QED
      BY <3>1, <3>2, Units DEF SECOND, FRAME
  <2> QED
    BY <2>1 DEF BlockInv, KeepInv, KeepsComing, Settled, Covered, Withheld
<1>2. TimeInv /\ AtRate /\ RateInv /\ RunInv /\ BlockInv /\ [Next]_vars
      => (TimeInv /\ AtRate /\ RateInv /\ RunInv /\ BlockInv)'
  <2> SUFFICES ASSUME TimeInv, AtRate, RateInv, RunInv, BlockInv, [Next]_vars
               PROVE  (TimeInv /\ AtRate /\ RateInv /\ RunInv /\ BlockInv)'
    OBVIOUS
  <2>1. TimeInv' /\ RateInv'
    BY TimeStep, RateStep DEF TimeInv
  <2>2. AtRate'
    BY <2>1, AtRateStep DEF TimeInv
  <2>3. RunInv'
    BY <2>1, RunStep DEF TimeInv
  <2>4. BlockInv'
    BY BlockStep DEF TimeInv
  <2> QED
    BY <2>1, <2>2, <2>3, <2>4
<1>3. Init => TimeInv /\ AtRate /\ RateInv /\ RunInv /\ BlockInv
  BY InitTime, InitRate, InitRun, InitBlock DEF Init, AtRate
<1> QED
  BY <1>1, <1>2, <1>3, PTL DEF Spec

(* The bridge as a whole, on a tape with the frame rate the reader takes   *)
(* it for: quarter frames reach the kernel in time, the device does not    *)
(* overrun, what is heard is where the tape is, and it keeps coming.       *)
THEOREM BridgeInTime ==
  ASSUME KnownRate, SmallLate, LagBelowSecond, SmallLag, WholeFractions
  PROVE  Spec => FreshInFuture /\ []NoOverrun /\ InSync /\ []KeepsComing
  BY KeepsKnownRate, FreshInFutureAtRate, NoOverrunAtRate, InSyncAtRate,
     QuarterFramesKeepComing, PTL

=============================================================================

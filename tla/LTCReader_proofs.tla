-------------------------- MODULE LTCReader_proofs --------------------------
(***************************************************************************)
(* Proofs of the properties of LTCReader for every value of its constants, *)
(* every stream and every sequence of writes to "frame-rate".              *)
(***************************************************************************)
EXTENDS LTCReader, TLAPS

(* The TimePosition of a codeword is an integer.                           *)
LEMMA TimePositionInt ==
  ASSUME NEW second \in Nat, NEW frame \in Nat, NEW rate \in 1 .. 46
  PROVE  TimePositionOf(second, frame, rate) \in Int
<1>1. /\ TIME_POSITION_FRACTIONS \in Int
      /\ rate \in Int /\ rate > 0
  BY ReaderAssumption
<1>2. (second * rate + frame) * TIME_POSITION_FRACTIONS \in Int
  BY <1>1
<1> DEFINE a == (second * rate + frame) * TIME_POSITION_FRACTIONS
<1>3. a \in Int
  BY <1>2
<1> HIDE DEF a
<1>4. a \div rate \in Int
  BY <1>1, <1>3
<1> QED
  BY <1>4 DEF TimePositionOf, a

(* A guint16 counter after any number of increments.                       *)
LEMMA WordSize == Word16 \in Nat /\ Word16 > 0 /\ FrameBits \in 0 .. Word16 - 1
  BY DEF Word16, FrameBits

LEMMA WordRange ==
  ASSUME NEW i \in Nat, NEW n \in Nat
  PROVE  /\ (i + n) % Word16 \in 0 .. Word16 - 1
         /\ (i + n) % Word16 <= i + n
<1> DEFINE a == i + n
<1>1. a \in Nat
  OBVIOUS
<1> HIDE DEF a
<1>2. a % Word16 \in 0 .. Word16 - 1 /\ a % Word16 <= a
  BY <1>1, WordSize
<1> QED
  BY <1>2 DEF a

(***************************************************************************)
(* Types.  One lemma per group of fields.                                  *)
(***************************************************************************)

(* What DetectFrameRate keeps of the types.                                *)
LEMMA DetectType ==
  ASSUME RateTypes, NEW frame \in Frames, DetectFrameRate(frame)
  PROVE  RateTypes'
<1>1. frame \in 0 .. 45 /\ MIN_FRAME_WRAPS \in 1 .. 255
  BY ReaderAssumption
<1>2. prev_frame' \in 0 .. 45
  BY <1>1 DEF DetectFrameRate
<1>3. wrap_rate' \in 0 .. 46 /\ wrap_run' \in Nat
  BY DEF DetectFrameRate, ObserveWrap, RateTypes
<1>4. CASE ~UnexpectedWrap(frame)
  BY <1>2, <1>3, <1>4 DEF DetectFrameRate, RateTypes
<1>5. CASE prev_frame + 1 = pending_frame_rate /\ UnexpectedWrap(frame)
  BY <1>2, <1>3, <1>5 DEF DetectFrameRate, CountDown, Word8, RateTypes
<1>6. CASE prev_frame + 1 # pending_frame_rate /\ UnexpectedWrap(frame)
  BY <1>1, <1>2, <1>3, <1>6 DEF DetectFrameRate, RestartCountdown, Word8, RateTypes
<1> QED
  BY <1>4, <1>5, <1>6

LEMMA RateStep == RateTypes /\ [Next]_vars => RateTypes'
<1> SUFFICES ASSUME RateTypes, [Next]_vars PROVE RateTypes'
  OBVIOUS
<1>1. ASSUME NEW n \in BitGaps, DiscardCodeword(n) PROVE RateTypes'
  BY <1>1 DEF RateTypes, DiscardCodeword, wrapHistory
<1>2. ASSUME NEW n \in BitGaps, NEW second \in Seconds, NEW frame \in Frames,
             NEW ub \in UserBits, AcceptCodeword(n, second, frame, ub)
      PROVE  RateTypes'
  BY <1>2, DetectType DEF AcceptCodeword
<1>3. ASSUME NEW n \in BitGaps \union {0}, NEW d \in Silences \union {0},
             BufferEnd(n, d)
      PROVE  RateTypes'
  BY <1>3 DEF RateTypes, BufferEnd, wrapHistory
<1>4. ASSUME NEW rate \in FrameRateSettings, SetFrameRate(rate) PROVE RateTypes'
  BY <1>4, ReaderAssumption DEF RateTypes, SetFrameRate, wrapHistory
<1>5. CASE UNCHANGED vars
  BY <1>5 DEF vars, readerVars, historyVars, wrapHistory, RateTypes
<1> QED
  BY <1>1, <1>2, <1>3, <1>4, <1>5 DEF Next

(* The codeword of an accepting step gives an integer.                     *)
LEMMA AcceptedInt ==
  ASSUME RateTypes, NEW n \in BitGaps, NEW second \in Seconds,
         NEW frame \in Frames, NEW ub \in UserBits,
         AcceptCodeword(n, second, frame, ub)
  PROVE  TimePositionOf(second, frame, frame_rate') \in Int
<1>1. frame_rate' \in 1 .. 46
  BY DetectType DEF AcceptCodeword, RateTypes
<1>2. second \in Nat /\ frame \in Nat
  BY ReaderAssumption
<1> QED
  BY <1>1, <1>2, TimePositionInt

LEMMA TrackType ==
  ASSUME TimecodeTypes, NEW tc \in Int, NEW ub \in UserBits,
         TrackTimecode(tc, ub)
  PROVE  /\ local_tc' \in Int /\ last_tc' \in Int
         /\ out_of_sync_count' \in 0 .. MAX_UNSYNCED + 1
<1>1. MAX_UNSYNCED \in Nat /\ TIME_POSITION_FRACTIONS \in Int
  BY ReaderAssumption
<1> QED
  BY <1>1 DEF TimecodeTypes, TrackTimecode, GiveIn, Withhold

LEMMA TimecodeStep == RateTypes /\ TimecodeTypes /\ [Next]_vars => TimecodeTypes'
<1> SUFFICES ASSUME RateTypes, TimecodeTypes, [Next]_vars PROVE TimecodeTypes'
  OBVIOUS
<1>1. ASSUME NEW n \in BitGaps, DiscardCodeword(n) PROVE TimecodeTypes'
  BY <1>1 DEF TimecodeTypes, DiscardCodeword
<1>2. ASSUME NEW n \in BitGaps, NEW second \in Seconds, NEW frame \in Frames,
             NEW ub \in UserBits, AcceptCodeword(n, second, frame, ub)
      PROVE  TimecodeTypes'
  <2> DEFINE tc == TimePositionOf(second, frame, frame_rate')
  <2>1. tc \in Int
    BY <1>2, AcceptedInt
  <2>2. TrackTimecode(tc, ub) /\ decoded_tc' = tc /\ quiet' \in {0, 1, quiet + 1}
    BY <1>2 DEF AcceptCodeword
  <2> HIDE DEF tc
  <2> QED
    BY <2>1, <2>2, TrackType DEF TimecodeTypes
<1>3. ASSUME NEW n \in BitGaps \union {0}, NEW d \in Silences \union {0},
             BufferEnd(n, d)
      PROVE  TimecodeTypes'
  BY <1>3 DEF TimecodeTypes, BufferEnd
<1>4. ASSUME NEW rate \in FrameRateSettings, SetFrameRate(rate)
      PROVE  TimecodeTypes'
  BY <1>4 DEF TimecodeTypes, SetFrameRate
<1>5. CASE UNCHANGED vars
  BY <1>5 DEF vars, readerVars, historyVars, TimecodeTypes
<1> QED
  BY <1>1, <1>2, <1>3, <1>4, <1>5 DEF Next

(* The start that is computed for a position.                              *)
LEMMA StartRange ==
  ASSUME NEW p \in Nat, NEW start \in StartOf(p)
  PROVE  start \in Nat /\ p <= start /\ start <= p + MaxLate
  BY ReaderAssumption DEF StartOf

LEMMA PositionStep == PositionTypes /\ [Next]_vars => PositionTypes'
<1> SUFFICES ASSUME PositionTypes, [Next]_vars PROVE PositionTypes'
  OBVIOUS
<1>1. ASSUME NEW n \in BitGaps, DiscardCodeword(n) PROVE PositionTypes'
  <2>1. n \in Nat
    BY ReaderAssumption
  <2> QED
    BY <1>1, <2>1, WordSize DEF PositionTypes, DiscardCodeword, SyncWord
<1>2. ASSUME NEW n \in BitGaps, NEW second \in Seconds, NEW frame \in Frames,
             NEW ub \in UserBits, AcceptCodeword(n, second, frame, ub)
      PROVE  PositionTypes'
  <2>1. n \in Nat
    BY ReaderAssumption
  <2>2. last_start' \in {last_start, frame_start}
    BY <1>2 DEF AcceptCodeword, TrackTimecode, Withhold
  <2>3. SyncWord(n) /\ StartNextFrame(n)
    BY <1>2 DEF AcceptCodeword
  <2> QED
    BY <2>1, <2>2, <2>3, WordSize, StartRange
    DEF PositionTypes, SyncWord, StartNextFrame
<1>3. ASSUME NEW n \in BitGaps \union {0}, NEW d \in Silences \union {0},
             BufferEnd(n, d)
      PROVE  PositionTypes'
  <2>1. n \in Nat /\ d \in Nat
    BY ReaderAssumption
  <2> QED
    <3>1. /\ bit_count' = (bit_count + n) % Word16
          /\ pos' = pos + n + d /\ run_bits' = run_bits + n
          /\ UNCHANGED <<frame_start, last_start, frame_pos, sync_pos,
                         gap_bits>>
      BY <1>3 DEF BufferEnd
    <3>2. bit_count' \in 0 .. Word16 - 1
      BY <2>1, <3>1, WordRange DEF PositionTypes
    <3>3. pos' \in Nat /\ run_bits' \in Nat
      BY <2>1, <3>1 DEF PositionTypes
    <3> QED
      BY <3>1, <3>2, <3>3 DEF PositionTypes
<1>4. ASSUME NEW rate \in FrameRateSettings, SetFrameRate(rate)
      PROVE  PositionTypes'
  BY <1>4 DEF PositionTypes, SetFrameRate
<1>5. CASE UNCHANGED vars
  BY <1>5 DEF vars, readerVars, historyVars, PositionTypes
<1> QED
  BY <1>1, <1>2, <1>3, <1>4, <1>5 DEF Next

LEMMA FlagStep == FlagTypes /\ [Next]_vars => FlagTypes'
<1> SUFFICES ASSUME FlagTypes, [Next]_vars PROVE FlagTypes'
  OBVIOUS
<1>1. ASSUME NEW n \in BitGaps, DiscardCodeword(n) PROVE FlagTypes'
  BY <1>1, Zenon DEF FlagTypes, DiscardCodeword, TcInvalid, wrapHistory
<1>2. ASSUME NEW n \in BitGaps, NEW second \in Seconds, NEW frame \in Frames,
             NEW ub \in UserBits, AcceptCodeword(n, second, frame, ub)
      PROVE  FlagTypes'
  BY <1>2, Zenon DEF FlagTypes, AcceptCodeword, TrackTimecode, Withhold,
                   DetectFrameRate
<1>3. ASSUME NEW n \in BitGaps \union {0}, NEW d \in Silences \union {0},
             BufferEnd(n, d)
      PROVE  FlagTypes'
  BY <1>3, Zenon DEF FlagTypes, BufferEnd, TcInvalid, wrapHistory
<1>4. ASSUME NEW rate \in FrameRateSettings, SetFrameRate(rate) PROVE FlagTypes'
  BY <1>4, Zenon DEF FlagTypes, SetFrameRate
<1>5. CASE UNCHANGED vars
  BY <1>5, Zenon DEF vars, readerVars, historyVars, wrapHistory, FlagTypes
<1> QED
  BY <1>1, <1>2, <1>3, <1>4, <1>5 DEF Next

(* The fields of the reader stay within their types.  In particular the    *)
(* frame rate is never 0, by which line 365 divides, as long as no client  *)
(* writes 0.                                                               *)
THEOREM TypeCorrect == Spec => []TypeOK
<1>1. Init => TypeOK
  <2>1. Init => RateTypes
    BY ReaderAssumption DEF Init, RateTypes, Word8
  <2>2. Init => TimecodeTypes
    BY ReaderAssumption DEF Init, TimecodeTypes
  <2>3. Init => PositionTypes
    BY DEF Init, PositionTypes, Word16
  <2>4. Init => FlagTypes
    BY Zenon DEF Init, FlagTypes
  <2> QED
    BY <2>1, <2>2, <2>3, <2>4 DEF TypeOK
<1>2. TypeOK /\ [Next]_vars => TypeOK'
  BY RateStep, TimecodeStep, PositionStep, FlagStep DEF TypeOK
<1> QED
  BY <1>1, <1>2, PTL DEF Spec

(***************************************************************************)
(* Getting back in step.  The codewords counted in quiet are also counted  *)
(* in out_of_sync_count, until the reader gives in; then local_tc is the   *)
(* timecode of the stream and the next codeword without a jump is          *)
(* announced.                                                              *)
(***************************************************************************)
QuietCounted ==
  \/ quiet <= out_of_sync_count
  \/ /\ quiet <= MAX_UNSYNCED + 2
     /\ out_of_sync_count = 0
     /\ local_tc = decoded_tc

LEMMA QuietTrack ==
  ASSUME TimecodeTypes, QuietCounted, NEW tc \in Int, NEW ub \in UserBits,
         TrackTimecode(tc, ub), decoded_tc' = tc,
         quiet' = IF emitted' THEN 0 ELSE IF Smooth(tc) THEN quiet + 1 ELSE 1
  PROVE  QuietCounted'
<1>1. MAX_UNSYNCED \in Nat /\ TIME_POSITION_FRACTIONS \in Nat
  BY ReaderAssumption
<1>2. CASE emitted'
  BY <1>1, <1>2, TrackType DEF QuietCounted
<1>3. CASE GiveIn /\ ~emitted'
  <2>1. local_tc' = tc /\ out_of_sync_count' = 0
    BY <1>3 DEF TrackTimecode
  <2>2. out_of_sync_count = MAX_UNSYNCED + 1
    BY <1>1, <1>3 DEF GiveIn, TimecodeTypes
  <2>3. quiet <= MAX_UNSYNCED + 1
    BY <1>1, <2>2 DEF QuietCounted
  <2>4. quiet' <= MAX_UNSYNCED + 2
    BY <1>1, <1>3, <2>3 DEF TimecodeTypes
  <2> QED
    BY <2>1, <2>4 DEF QuietCounted
<1>4. CASE ~GiveIn /\ ~emitted'
  <2>1. (Ahead(tc) \/ Behind(tc)) /\ out_of_sync_count' = out_of_sync_count + 1
    BY <1>4 DEF TrackTimecode
  <2>2. CASE quiet <= out_of_sync_count
    BY <1>1, <1>4, <2>1, <2>2 DEF QuietCounted, TimecodeTypes
  <2>3. CASE local_tc = decoded_tc
    <3>1. ~Smooth(tc)
      BY <1>1, <2>1, <2>3 DEF Smooth, Ahead, Behind, TimecodeTypes
    <3>2. quiet' = 1
      BY <1>4, <3>1
    <3> QED
      BY <2>1, <3>2 DEF QuietCounted, TimecodeTypes
  <2> QED
    BY <2>2, <2>3 DEF QuietCounted
<1> QED
  BY <1>2, <1>3, <1>4

(* A timecode that runs without jumps is announced again after at most     *)
(* MAX_UNSYNCED + 2 codewords, wherever local_tc was.                      *)
THEOREM ResyncIsBounded == Spec => []BoundedResync
<1>1. Init => QuietCounted
  BY DEF Init, QuietCounted
<1>2. TypeOK /\ QuietCounted /\ [Next]_vars => QuietCounted'
  <2> SUFFICES ASSUME TypeOK, QuietCounted, [Next]_vars PROVE QuietCounted'
    OBVIOUS
  <2>1. ASSUME NEW n \in BitGaps, DiscardCodeword(n) PROVE QuietCounted'
    BY <2>1 DEF QuietCounted, DiscardCodeword
  <2>2. ASSUME NEW n \in BitGaps, NEW second \in Seconds, NEW frame \in Frames,
               NEW ub \in UserBits, AcceptCodeword(n, second, frame, ub)
        PROVE  QuietCounted'
    <3> DEFINE tc == TimePositionOf(second, frame, frame_rate')
    <3>1. tc \in Int
      BY <2>2, AcceptedInt DEF TypeOK
    <3>2. /\ TrackTimecode(tc, ub) /\ decoded_tc' = tc
          /\ quiet' = IF emitted' THEN 0 ELSE IF Smooth(tc) THEN quiet + 1 ELSE 1
      BY <2>2 DEF AcceptCodeword
    <3> HIDE DEF tc
    <3> QED
      BY <3>1, <3>2, QuietTrack DEF TypeOK
  <2>3. ASSUME NEW n \in BitGaps \union {0}, NEW d \in Silences \union {0},
               BufferEnd(n, d)
        PROVE  QuietCounted'
    BY <2>3 DEF QuietCounted, BufferEnd
  <2>4. ASSUME NEW rate \in FrameRateSettings, SetFrameRate(rate)
        PROVE  QuietCounted'
    BY <2>4 DEF QuietCounted, SetFrameRate
  <2>5. CASE UNCHANGED vars
    BY <2>5 DEF vars, readerVars, historyVars, QuietCounted
  <2> QED
    BY <2>1, <2>2, <2>3, <2>4, <2>5 DEF Next
<1>3. TypeOK /\ QuietCounted => BoundedResync
  BY ReaderAssumption DEF TypeOK, TimecodeTypes, QuietCounted, BoundedResync
<1> QED
  BY <1>1, <1>2, <1>3, TypeCorrect, PTL DEF Spec

(***************************************************************************)
(* The start times that are announced, each at most MaxLate after the      *)
(* position it stands for.  bit_count is never more than the               *)
(* bits since the latest sync word, so the 80 bits line 331 asks for have  *)
(* been received since.                                                    *)
(***************************************************************************)
StampInv ==
  /\ tc_is_valid => frame_pos = sync_pos
  /\ frame_start \in StartOf(frame_pos)
  /\ last_start <= frame_pos + MaxLate
  /\ frame_pos <= sync_pos
  /\ sync_pos + bit_count <= pos

LEMMA StampInit == Init => StampInv
  BY ReaderAssumption DEF Init, StampInv, StartOf

(* The steps that take no codeword move the stream on and nothing else.    *)
LEMMA StampIdle ==
  ASSUME PositionTypes, StampInv, [Next]_vars,
         ~ \E n \in BitGaps, second \in Seconds, frame \in Frames,
             ub \in UserBits : AcceptCodeword(n, second, frame, ub)
  PROVE  StampInv' /\ (emitted' => UNCHANGED vars)
<1>1. ASSUME NEW n \in BitGaps, DiscardCodeword(n) PROVE StampInv' /\ ~emitted'
  <2>1. n \in Nat
    BY ReaderAssumption
  <2> QED
    BY <1>1, <2>1 DEF StampInv, PositionTypes, DiscardCodeword, SyncWord, TcInvalid
<1>2. ASSUME NEW n \in BitGaps \union {0}, NEW d \in Silences \union {0},
             BufferEnd(n, d)
      PROVE  StampInv' /\ ~emitted'
  <2>1. n \in Nat /\ d \in Nat
    BY ReaderAssumption
  <2>2. tc_is_valid' => tc_is_valid
    BY <1>2 DEF BufferEnd, TcInvalid
  <2>3. /\ pos' = pos + n + d /\ ~emitted'
        /\ UNCHANGED <<frame_start, last_start, frame_pos, sync_pos>>
    BY <1>2 DEF BufferEnd
  <2>4. bit_count' = (bit_count + n) % Word16
    BY <1>2 DEF BufferEnd
  <2>5. /\ pos \in Nat /\ bit_count \in Nat /\ sync_pos \in Nat
    BY DEF PositionTypes
  <2>6. (bit_count + n) % Word16 <= bit_count + n
    BY <2>1, <2>5, WordRange, Zenon
  <2>7. (bit_count + n) % Word16 \in Nat
    <3>1. (bit_count + n) % Word16 \in 0 .. Word16 - 1
      BY <2>1, <2>5, WordRange, Zenon
    <3> QED
      BY <3>1, WordSize
  <2>8. sync_pos + bit_count' <= pos'
    BY <2>1, <2>3, <2>4, <2>5, <2>6, <2>7 DEF StampInv
  <2> QED
    BY <2>2, <2>3, <2>8 DEF StampInv
<1>3. ASSUME NEW rate \in FrameRateSettings, SetFrameRate(rate)
      PROVE  StampInv' /\ ~emitted'
  BY <1>3 DEF StampInv, SetFrameRate
<1>4. CASE UNCHANGED vars
  BY <1>4 DEF vars, readerVars, historyVars, StampInv
<1> QED
  BY <1>1, <1>2, <1>3, <1>4 DEF Next

LEMMA StampAccept ==
  ASSUME PositionTypes, StampInv,
         NEW n \in BitGaps, NEW second \in Seconds, NEW frame \in Frames,
         NEW ub \in UserBits, AcceptCodeword(n, second, frame, ub)
  PROVE  /\ StampInv'
         /\ emitted' /\ tc_is_valid => last_start' \in StartOf(sync_pos)
         /\ emitted' => /\ last_start <= last_start' + MaxLate
                        /\ last_start' + FrameBits <= frame_start' + MaxLate
<1>1. n \in Nat /\ n > 0 /\ MaxLate \in Nat
  BY ReaderAssumption
<1>2. /\ frame_pos' = pos + n /\ sync_pos' = pos + n /\ pos' = pos + n
      /\ frame_start' \in StartOf(frame_pos')
      /\ last_start' \in {last_start, frame_start}
      /\ emitted' => last_start' = frame_start
  BY DEF AcceptCodeword, SyncWord, StartNextFrame, TrackTimecode, Withhold
<1>3. FrameBits <= bit_count + n /\ bit_count' = 0
  <2>1. (bit_count + n) % Word16 <= bit_count + n
    <3>1. bit_count \in Nat
      BY DEF PositionTypes
    <3> QED
      BY <1>1, <3>1, WordRange, Zenon
  <2>2. (bit_count + n) % Word16 = FrameBits /\ bit_count' = 0
    BY Zenon DEF AcceptCodeword, BackToBack, SyncWord
  <2> QED
    BY <2>1, <2>2
<1>4. /\ pos \in Nat /\ bit_count \in Nat /\ sync_pos \in Nat
      /\ frame_start \in Nat /\ last_start \in Nat /\ frame_pos \in Nat
      /\ frame_pos <= frame_start /\ frame_start <= frame_pos + MaxLate
      /\ last_start <= frame_pos + MaxLate
      /\ frame_pos <= sync_pos /\ sync_pos + bit_count <= pos
  BY StartRange DEF StampInv, PositionTypes
<1>5. frame_pos + FrameBits <= frame_pos' /\ frame_pos' <= frame_start'
  <2>1. frame_pos' \in Nat
    BY <1>1, <1>2, <1>4
  <2> QED
    BY <1>1, <1>2, <1>3, <1>4, <2>1, StartRange DEF FrameBits
<1>6. StampInv'
  <2>1. last_start' <= frame_pos' + MaxLate
    BY <1>1, <1>2, <1>4, <1>5 DEF FrameBits
  <2> QED
    BY <1>1, <1>2, <1>3, <1>4, <2>1 DEF StampInv
<1>7. emitted' /\ tc_is_valid => last_start' \in StartOf(sync_pos)
  BY <1>2 DEF StampInv
<1>8. ASSUME emitted'
      PROVE  /\ last_start <= last_start' + MaxLate
             /\ last_start' + FrameBits <= frame_start' + MaxLate
  <2>1. last_start' = frame_start /\ frame_start' \in Nat /\ FrameBits \in Nat
    BY <1>1, <1>2, <1>4, <1>8, StartRange DEF FrameBits
  <2>2. frame_pos' \in Nat
    BY <1>1, <1>2, <1>4
  <2>3. last_start <= frame_start + MaxLate
    BY <1>1, <1>4
  <2>4. frame_start + FrameBits <= frame_start' + MaxLate
    <3>1. frame_pos + FrameBits <= frame_start'
      BY <1>4, <1>5, <2>1, <2>2
    <3>2. ASSUME NEW a \in Nat, NEW p \in Nat, NEW b \in Nat, NEW l \in Nat,
                 NEW k \in Nat, a <= p + l, p + k <= b
          PROVE  a + k <= b + l
      BY <3>2
    <3> QED
      BY <1>1, <1>4, <2>1, <3>1, <3>2
  <2> QED
    BY <2>1, <2>3, <2>4
<1> QED
  BY <1>6, <1>7, <1>8

LEMMA StampStep ==
  TypeOK /\ StampInv /\ [Next]_vars => StampInv'
<1> SUFFICES ASSUME TypeOK, StampInv, [Next]_vars PROVE StampInv'
  OBVIOUS
<1> QED
  BY StampIdle, StampAccept DEF TypeOK

(* While codewords arrive back to back, an announced timecode carries the  *)
(* time at which the sync word before it ended, lines 402-413, and no      *)
(* older one.                                                              *)
THEOREM LockedStampIsRight == Spec => LockedStampRight
<1>1. TypeOK /\ StampInv /\ [Next]_vars
        => [emitted' /\ tc_is_valid => last_start' \in StartOf(sync_pos)]_vars
  BY StampIdle, StampAccept DEF TypeOK
<1> QED
  BY <1>1, StampInit, StampStep, TypeCorrect, PTL DEF Spec, LockedStampRight

(* The announced starts are a frame apart but for the error of the         *)
(* computed times, lines 402-413, whatever is discarded between them.      *)
THEOREM StampsDoIncrease == Spec => StampsIncrease
<1>1. TypeOK /\ StampInv /\ [Next]_vars
        => [emitted' => /\ last_start <= last_start' + MaxLate
                        /\ last_start' + FrameBits <= frame_start' + MaxLate]_vars
  BY StampIdle, StampAccept DEF TypeOK
<1> QED
  BY <1>1, StampInit, StampStep, TypeCorrect, PTL DEF Spec, StampsIncrease

(***************************************************************************)
(* Misread codewords.                                                      *)
(***************************************************************************)
InStep == quiet = 0 => local_tc = last_tc

WithinASecond ==
  emitted' /\ quiet = 0 => /\ last_tc' - last_tc <= TIME_POSITION_FRACTIONS
                           /\ last_tc - last_tc' <= TIME_POSITION_FRACTIONS

LEMMA OutlierStep ==
  TypeOK /\ InStep /\ [Next]_vars => InStep' /\ [WithinASecond]_vars
<1> SUFFICES ASSUME TypeOK, InStep, [Next]_vars
             PROVE  InStep' /\ [WithinASecond]_vars
  OBVIOUS
<1>1. ASSUME NEW n \in BitGaps, DiscardCodeword(n) PROVE InStep' /\ ~emitted'
  BY <1>1 DEF InStep, DiscardCodeword
<1>2. ASSUME NEW n \in BitGaps, NEW second \in Seconds, NEW frame \in Frames,
             NEW ub \in UserBits, AcceptCodeword(n, second, frame, ub)
      PROVE  InStep' /\ WithinASecond
  <2> DEFINE tc == TimePositionOf(second, frame, frame_rate')
  <2>1. tc \in Int
    BY <1>2, AcceptedInt DEF TypeOK
  <2>2. /\ TrackTimecode(tc, ub)
        /\ quiet' = IF emitted' THEN 0 ELSE IF Smooth(tc) THEN quiet + 1 ELSE 1
    BY <1>2 DEF AcceptCodeword
  <2> HIDE DEF tc
  <2>3. CASE ~emitted'
    BY <2>2, <2>3 DEF InStep, WithinASecond, TypeOK, TimecodeTypes
  <2>4. CASE emitted'
    <3>1. ~Ahead(tc) /\ ~Behind(tc) /\ local_tc' = tc /\ last_tc' = tc
      BY <2>2, <2>4 DEF TrackTimecode, Withhold
    <3> QED
      BY <2>1, <3>1, ReaderAssumption
         DEF InStep, WithinASecond, Ahead, Behind, TypeOK, TimecodeTypes
  <2> QED
    BY <2>3, <2>4
<1>3. ASSUME NEW n \in BitGaps \union {0}, NEW d \in Silences \union {0},
             BufferEnd(n, d)
      PROVE  InStep' /\ ~emitted'
  BY <1>3 DEF InStep, BufferEnd
<1>4. ASSUME NEW rate \in FrameRateSettings, SetFrameRate(rate)
      PROVE  InStep' /\ ~emitted'
  BY <1>4 DEF InStep, SetFrameRate
<1>5. CASE UNCHANGED vars
  BY <1>5 DEF vars, readerVars, historyVars, InStep
<1> QED
  BY <1>1, <1>2, <1>3, <1>4, <1>5 DEF Next, WithinASecond

(* While every codeword is announced, no announced timecode is more than a *)
(* second away from the one before it.                                     *)
THEOREM NoOutlierAnnounced == Spec => NoOutlier
<1>1. Init => InStep
  BY DEF Init, InStep
<1>2. TypeOK /\ InStep /\ [Next]_vars => InStep'
  BY OutlierStep
<1>3. TypeOK /\ InStep /\ [Next]_vars
        => [emitted' /\ quiet = 0 =>
              /\ last_tc' - last_tc <= TIME_POSITION_FRACTIONS
              /\ last_tc - last_tc' <= TIME_POSITION_FRACTIONS]_vars
  BY OutlierStep DEF WithinASecond
<1> QED
  BY <1>1, <1>2, <1>3, TypeCorrect, PTL DEF Spec, NoOutlier

(***************************************************************************)
(* The frame rate.                                                         *)
(***************************************************************************)

(* The countdown never runs ahead of the wraps seen, even when it passes   *)
(* zero and starts again from 255.                                         *)
Countdown == pending_frame_rate # 0 => evidence + frame_wrap > MIN_FRAME_WRAPS

RateEvidence ==
  \/ frame_rate' = frame_rate
  \/ evidence' > MIN_FRAME_WRAPS
  \/ \E rate \in FrameRateSettings : SetFrameRate(rate)

LEMMA CountdownDetect ==
  ASSUME RateTypes, Countdown, NEW frame \in Frames, DetectFrameRate(frame)
  PROVE  /\ Countdown'
         /\ frame_rate' # frame_rate => evidence' > MIN_FRAME_WRAPS
<1>1. MIN_FRAME_WRAPS \in 1 .. 255
  BY ReaderAssumption
<1>2. CASE ~UnexpectedWrap(frame)
  BY <1>2 DEF DetectFrameRate, Countdown
<1>3. CASE prev_frame + 1 = pending_frame_rate /\ UnexpectedWrap(frame)
  <2>1. /\ frame_wrap' = CountDown /\ evidence' = evidence + 1
        /\ frame_rate' = IF frame_wrap' = 0 THEN pending_frame_rate ELSE frame_rate
        /\ pending_frame_rate' = pending_frame_rate /\ pending_frame_rate # 0
    BY <1>3 DEF DetectFrameRate, RateTypes
  <2>2. CASE frame_wrap = 0
    <3>1. frame_wrap' = 255
      BY <2>1, <2>2 DEF CountDown, Word8
    <3> QED
      BY <1>1, <2>1, <2>2, <3>1 DEF Countdown, RateTypes
  <2>3. CASE frame_wrap # 0
    <3>1. frame_wrap' = frame_wrap - 1
      BY <2>1, <2>3 DEF CountDown, Word8, RateTypes
    <3> QED
      BY <1>1, <2>1, <3>1 DEF Countdown, RateTypes
  <2> QED
    BY <2>2, <2>3
<1>4. CASE prev_frame + 1 # pending_frame_rate /\ UnexpectedWrap(frame)
  BY <1>1, <1>4 DEF DetectFrameRate, RestartCountdown, Countdown
<1> QED
  BY <1>2, <1>3, <1>4

LEMMA CountdownStep ==
  TypeOK /\ Countdown /\ [Next]_vars => Countdown' /\ [RateEvidence]_vars
<1> SUFFICES ASSUME TypeOK, Countdown, [Next]_vars
             PROVE  Countdown' /\ [RateEvidence]_vars
  OBVIOUS
<1>1. ASSUME NEW n \in BitGaps, DiscardCodeword(n)
      PROVE  Countdown' /\ RateEvidence
  BY <1>1 DEF Countdown, RateEvidence, DiscardCodeword, wrapHistory
<1>2. ASSUME NEW n \in BitGaps, NEW second \in Seconds, NEW frame \in Frames,
             NEW ub \in UserBits, AcceptCodeword(n, second, frame, ub)
      PROVE  Countdown' /\ RateEvidence
  BY <1>2, CountdownDetect DEF TypeOK, RateEvidence, AcceptCodeword
<1>3. ASSUME NEW n \in BitGaps \union {0}, NEW d \in Silences \union {0},
             BufferEnd(n, d)
      PROVE  Countdown' /\ RateEvidence
  BY <1>3 DEF Countdown, RateEvidence, BufferEnd, wrapHistory
<1>4. ASSUME NEW rate \in FrameRateSettings, SetFrameRate(rate)
      PROVE  Countdown' /\ RateEvidence
  <2>1. RateEvidence
    BY <1>4, Zenon DEF RateEvidence
  <2>2. Countdown'
    BY <1>4 DEF Countdown, SetFrameRate, wrapHistory
  <2> QED
    BY <2>1, <2>2
<1>5. CASE UNCHANGED vars
  BY <1>5 DEF vars, readerVars, historyVars, wrapHistory, Countdown
<1> QED
  BY <1>1, <1>2, <1>3, <1>4, <1>5 DEF Next

(* The frame rate changes only when a client writes it or on more than     *)
(* MIN_FRAME_WRAPS wraps.                                                  *)
THEOREM RateChangeHasEvidence == Spec => RateChangeNeedsWraps
<1>1. Init => Countdown
  BY DEF Init, Countdown
<1>2. TypeOK /\ Countdown /\ [Next]_vars => Countdown'
  BY CountdownStep
<1>3. TypeOK /\ Countdown /\ [Next]_vars
        => [\/ frame_rate' = frame_rate
            \/ evidence' > MIN_FRAME_WRAPS
            \/ \E rate \in FrameRateSettings : SetFrameRate(rate)]_vars
  BY CountdownStep DEF RateEvidence
<1> QED
  BY <1>1, <1>2, <1>3, TypeCorrect, PTL DEF Spec, RateChangeNeedsWraps

(* As long as no client has written "frame-rate", a countdown that has     *)
(* reached zero is that of the current rate, and a countdown for the rate  *)
(* of the stream is never behind the wraps that showed it.                 *)
WrapsCounted ==
  /\ frame_wrap <= MIN_FRAME_WRAPS
  /\ frame_wrap = 0 => pending_frame_rate = frame_rate
  /\ wrap_run = 0 => wrap_rate = 0
  /\ wrap_run > 0 /\ wrap_rate # frame_rate =>
       /\ pending_frame_rate = wrap_rate
       /\ frame_wrap + wrap_run <= MIN_FRAME_WRAPS + 1

WrapInv == ~written => WrapsCounted

LEMMA WrapDetect ==
  ASSUME RateTypes, WrapsCounted, NEW frame \in Frames, DetectFrameRate(frame)
  PROVE  WrapsCounted'
<1>1. MIN_FRAME_WRAPS \in 1 .. 255
  BY ReaderAssumption
<1>2. CASE ~Wrap(frame)
  BY <1>2 DEF DetectFrameRate, ObserveWrap, UnexpectedWrap, WrapsCounted
<1>3. CASE Wrap(frame)
  <2>1. /\ wrap_rate' = prev_frame + 1 /\ wrap_rate' > 0
        /\ wrap_run' = IF wrap_rate' = wrap_rate THEN wrap_run + 1 ELSE 1
    BY <1>3 DEF DetectFrameRate, ObserveWrap, RateTypes
  <2>2. wrap_run' > 0
    BY <2>1 DEF RateTypes
  <2>3. CASE prev_frame + 1 = frame_rate
    <3>1. UNCHANGED <<frame_rate, pending_frame_rate, frame_wrap>>
      BY <2>3 DEF DetectFrameRate, UnexpectedWrap
    <3> QED
      BY <2>1, <2>2, <2>3, <3>1 DEF WrapsCounted
  <2>4. CASE prev_frame + 1 # frame_rate /\ prev_frame + 1 = pending_frame_rate
    <3>1. /\ frame_wrap' = CountDown
          /\ frame_rate' = IF frame_wrap' = 0 THEN pending_frame_rate ELSE frame_rate
          /\ pending_frame_rate' = pending_frame_rate
      BY <1>3, <2>4 DEF DetectFrameRate, UnexpectedWrap
    <3>2. frame_wrap # 0
      BY <2>4 DEF WrapsCounted
    <3>3. frame_wrap' = frame_wrap - 1
      BY <3>1, <3>2 DEF CountDown, Word8, RateTypes
    <3>4. wrap_run' > 0 /\ frame_wrap' + wrap_run' <= MIN_FRAME_WRAPS + 1
      BY <1>1, <2>1, <2>2, <2>4, <3>3 DEF WrapsCounted, RateTypes
    <3> QED
      BY <1>1, <2>1, <2>4, <3>1, <3>3, <3>4 DEF WrapsCounted, RateTypes
  <2>5. CASE prev_frame + 1 # frame_rate /\ prev_frame + 1 # pending_frame_rate
    <3>1. /\ frame_wrap' = MIN_FRAME_WRAPS
          /\ pending_frame_rate' = prev_frame + 1 /\ frame_rate' = frame_rate
      BY <1>3, <2>5 DEF DetectFrameRate, UnexpectedWrap, RestartCountdown
    <3>2. wrap_run' = 1
      BY <2>1, <2>5 DEF WrapsCounted, RateTypes
    <3> QED
      BY <1>1, <2>1, <3>1, <3>2 DEF WrapsCounted, RateTypes
  <2> QED
    BY <2>3, <2>4, <2>5
<1> QED
  BY <1>2, <1>3

(* More than MIN_FRAME_WRAPS successive wraps at one rate make it the rate *)
(* of the reader, unless a client has written "frame-rate".                *)
THEOREM RateDoesFollowStream == Spec => []RateFollowsStream
<1>1. Init => WrapInv
  BY ReaderAssumption DEF Init, WrapInv, WrapsCounted
<1>2. TypeOK /\ WrapInv /\ [Next]_vars => WrapInv'
  <2> SUFFICES ASSUME TypeOK, WrapInv, [Next]_vars PROVE WrapInv'
    OBVIOUS
  <2>1. ASSUME NEW n \in BitGaps, DiscardCodeword(n) PROVE WrapInv'
    BY <2>1 DEF WrapInv, WrapsCounted, DiscardCodeword, wrapHistory
  <2>2. ASSUME NEW n \in BitGaps, NEW second \in Seconds, NEW frame \in Frames,
               NEW ub \in UserBits, AcceptCodeword(n, second, frame, ub)
        PROVE  WrapInv'
    <3>1. DetectFrameRate(frame) /\ written' = written
      BY <2>2 DEF AcceptCodeword, DetectFrameRate
    <3> QED
      BY <3>1, WrapDetect DEF TypeOK, WrapInv
  <2>3. ASSUME NEW n \in BitGaps \union {0}, NEW d \in Silences \union {0},
               BufferEnd(n, d)
        PROVE  WrapInv'
    BY <2>3 DEF WrapInv, WrapsCounted, BufferEnd, wrapHistory
  <2>4. ASSUME NEW rate \in FrameRateSettings, SetFrameRate(rate) PROVE WrapInv'
    BY <2>4 DEF WrapInv, SetFrameRate
  <2>5. CASE UNCHANGED vars
    BY <2>5 DEF vars, readerVars, historyVars, wrapHistory, WrapInv, WrapsCounted
  <2> QED
    BY <2>1, <2>2, <2>3, <2>4, <2>5 DEF Next
<1>3. TypeOK /\ WrapInv => RateFollowsStream
  BY ReaderAssumption DEF TypeOK, RateTypes, WrapInv, WrapsCounted, RateFollowsStream
<1> QED
  BY <1>1, <1>2, <1>3, TypeCorrect, PTL DEF Spec

(***************************************************************************)
(* The length of frames.                                                   *)
(***************************************************************************)
BitsCounted ==
  /\ bit_count = run_bits % Word16
  /\ FrameLengthModWord16

(* The width of the counter does not show in a count modulo its size.      *)
LEMMA CountMod ==
  ASSUME NEW i \in Nat, NEW n \in Nat
  PROVE  ((i % Word16) + n) % Word16 = (i + n) % Word16
  BY DEF Word16

(* An announced codeword ends a frame of 80 bits modulo 2^16, whatever was *)
(* discarded before it and wherever the buffers ended.                     *)
THEOREM FrameLengthCounted == Spec => []FrameLengthModWord16
<1>1. Init => BitsCounted
  BY DEF Init, BitsCounted, FrameLengthModWord16, Word16
<1>2. TypeOK /\ BitsCounted /\ [Next]_vars => BitsCounted'
  <2> SUFFICES ASSUME TypeOK, BitsCounted, [Next]_vars PROVE BitsCounted'
    OBVIOUS
  <2>1. ASSUME bit_count' = 0, run_bits' = 0 PROVE bit_count' = run_bits' % Word16
    BY <2>1 DEF Word16
  <2>2. ASSUME NEW n \in BitGaps, DiscardCodeword(n) PROVE BitsCounted'
    BY <2>1, <2>2 DEF BitsCounted, FrameLengthModWord16, DiscardCodeword, SyncWord
  <2>3. ASSUME NEW n \in BitGaps, NEW second \in Seconds, NEW frame \in Frames,
               NEW ub \in UserBits, AcceptCodeword(n, second, frame, ub)
        PROVE  BitsCounted'
    <3>1. n \in Nat /\ run_bits \in Nat
      BY ReaderAssumption DEF TypeOK, PositionTypes
    <3>2. (bit_count + n) % Word16 = FrameBits /\ SyncWord(n)
      BY <2>3 DEF AcceptCodeword, BackToBack
    <3>3. (run_bits + n) % Word16 = FrameBits
      BY <3>1, <3>2, CountMod DEF BitsCounted
    <3> QED
      BY <2>1, <3>2, <3>3 DEF BitsCounted, FrameLengthModWord16, SyncWord
  <2>4. ASSUME NEW n \in BitGaps \union {0}, NEW d \in Silences \union {0},
               BufferEnd(n, d)
        PROVE  BitsCounted'
    <3>1. n \in Nat /\ run_bits \in Nat
      BY ReaderAssumption DEF TypeOK, PositionTypes
    <3>2. bit_count' = (bit_count + n) % Word16 /\ run_bits' = run_bits + n /\ ~emitted'
      BY <2>4 DEF BufferEnd
    <3>3. bit_count' = run_bits' % Word16
      BY <3>1, <3>2, CountMod DEF BitsCounted
    <3> QED
      BY <3>2, <3>3 DEF BitsCounted, FrameLengthModWord16
  <2>5. ASSUME NEW rate \in FrameRateSettings, SetFrameRate(rate)
        PROVE  BitsCounted'
    BY <2>5 DEF BitsCounted, FrameLengthModWord16, SetFrameRate
  <2>6. CASE UNCHANGED vars
    BY <2>6 DEF vars, readerVars, historyVars, BitsCounted, FrameLengthModWord16
  <2> QED
    BY <2>2, <2>3, <2>4, <2>5, <2>6 DEF Next
<1>3. BitsCounted => FrameLengthModWord16
  BY DEF BitsCounted
<1> QED
  BY <1>1, <1>2, <1>3, TypeCorrect, PTL DEF Spec

=============================================================================

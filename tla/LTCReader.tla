----------------------------- MODULE LTCReader -----------------------------
(***************************************************************************)
(* The frame stage of the LTC reader: decode_frames of LTC_reader.c with   *)
(* the helpers it calls.  The bit stage (tcdecode) hands it a codeword     *)
(* each time a sync word is found; decode_frames checks that the codewords *)
(* are back to back, follows the frame rate, decides whether the timecode  *)
(* is in step with the one it expects and, if so, emits                    *)
(* "timecode-changed" with the start time of the frame.                    *)
(*                                                                         *)
(* The audio stream is the environment.  Positions in it are counted in    *)
(* bit periods and stand for capture times.  The code computes the capture *)
(* time of the sample it has reached from the clock, the delay of the      *)
(* source and the place in the buffer (lines 402-413): a time that may be  *)
(* up to MaxLate after the position, and by more for one frame than for    *)
(* the next.                                                               *)
(*                                                                         *)
(* A codeword is abstracted to the values the code extracts from it: whole *)
(* seconds since midnight, the frame field and the user bits.              *)
(***************************************************************************)
EXTENDS Integers

CONSTANTS
  TIME_POSITION_FRACTIONS, \* units of TimePosition per second
  InitialFrameRate,        \* frame rate believed in at first, 25
  MAX_UNSYNCED,            \* codewords out of step before giving in
  MIN_FRAME_WRAPS,         \* wraps before a new frame rate is accepted
  Seconds,                 \* hour, minute and second fields, as seconds
  Frames,                  \* frame fields of codewords
  UserBits,                \* user bits of codewords
  BitGaps,                 \* numbers of bits tcdecode may consume in a call
  Silences,                \* lengths of long gaps without a transition
  FrameRateSettings,       \* values a client writes to "frame-rate"
  MaxLate,                 \* largest error of a computed start
  MaxPos                   \* bound: last position of the stream considered

(* What the proofs need of the constants.  Frame fields are what the masks *)
(* of line 340 let through.  Second fields are small enough for the        *)
(* unsigned product of line 364 to stay below 2^32.                        *)
ASSUME ReaderAssumption ==
  /\ TIME_POSITION_FRACTIONS \in Nat \ {0}
  /\ InitialFrameRate \in 1 .. 46
  /\ MAX_UNSYNCED \in Nat
  /\ MIN_FRAME_WRAPS \in 1 .. 255
  /\ Seconds \subseteq Nat
  /\ Frames \subseteq 0 .. 45
  /\ BitGaps \subseteq Nat \ {0}
  /\ Silences \subseteq Nat
  /\ FrameRateSettings \subseteq 1 .. 30
  /\ MaxLate \in Nat
  /\ MaxPos \in Nat

VARIABLES
  bit_count,          \* guint16: bits since the latest sync word
  prev_frame,         \* guint8: frame field of the previous codeword
  frame_rate,         \* guint16: frame rate believed in
  pending_frame_rate, \* guint8: new rate awaiting enough wraps
  frame_wrap,         \* guint8: wraps left before it is accepted
  local_tc,           \* the timecode the reader expects to be near
  last_tc,            \* latest timecode announced
  last_start,         \* and the start of its frame
  out_of_sync_count,  \* guint16: codewords out of step so far
  user_bits,          \* latest user bits
  frame_start,        \* start of the frame being decoded
  tc_is_valid,        \* are codewords arriving back to back?
  pos                 \* environment: stream position reached

readerVars == <<bit_count, prev_frame, frame_rate, pending_frame_rate,
                frame_wrap, local_tc, last_tc, last_start,
                out_of_sync_count, user_bits, frame_start, tc_is_valid, pos>>

(* History of the run, read by properties only.                            *)
VARIABLES
  emitted,    \* did the latest step emit "timecode-changed"?
  sync_pos,   \* position of the end of the latest sync word
  frame_pos,  \* position whose time frame_start is
  run_bits,   \* bits received since the latest sync word, never wrapping
  gap_bits,   \* bits between the two latest sync words
  decoded_tc, \* timecode of the latest back-to-back codeword
  quiet,      \* successive codewords without a jump and without a signal
  evidence,   \* wraps seen at the pending frame rate
  wrap_rate,  \* frame rate the latest wrap in the stream shows
  wrap_run,   \* successive wraps in the stream that showed it
  written     \* has a client written "frame-rate"?

wrapHistory == <<evidence, wrap_rate, wrap_run, written>>
historyVars == <<emitted, sync_pos, frame_pos, run_bits, gap_bits, decoded_tc, quiet,
                 wrapHistory>>

vars == <<readerVars, historyVars>>

-----------------------------------------------------------------------------

FrameBits == 80        \* bits of an LTC frame
Word16 == 65536        \* values of a guint16
Word8  == 256          \* values of a guint8

(* decode_frames, line 364: the TimePosition of a codeword.                *)
TimePositionOf(second, frame, rate) ==
  ((second * rate + frame) * TIME_POSITION_FRACTIONS) \div rate

(* LTC_reader_init *)
Init ==
  /\ bit_count = 0
  /\ prev_frame = 0
  /\ frame_rate = InitialFrameRate
  /\ pending_frame_rate = 0
  /\ frame_wrap = MIN_FRAME_WRAPS
  /\ local_tc = 0
  /\ last_tc = 0
  /\ out_of_sync_count = 0
  /\ user_bits = 0
  /\ pos = 0
  /\ frame_start = pos
  /\ last_start = pos
  /\ tc_is_valid = FALSE
  /\ emitted = FALSE
  /\ sync_pos = 0
  /\ frame_pos = 0
  /\ run_bits = 0
  /\ gap_bits = 0
  /\ decoded_tc = 0
  /\ quiet = 0
  /\ evidence = 0
  /\ wrap_rate = 0
  /\ wrap_run = 0
  /\ written = FALSE

-----------------------------------------------------------------------------
(* Frame rate detection, lines 349-363.                                    *)

Wrap(frame) == frame = 0 /\ prev_frame # 0

(* The frame number went back to zero from somewhere else than the last    *)
(* frame of a second at the current rate.  The mutant only sees rates      *)
(* above the current one.                                                  *)
FasterWrap(frame) == Wrap(frame) /\ prev_frame + 1 > frame_rate
UnexpectedWrap(frame) == Wrap(frame) /\ prev_frame + 1 # frame_rate

(* --reader->frame_wrap, and the mutant without the width of a guint8.     *)
WideCountDown == frame_wrap - 1
CountDown == (frame_wrap + Word8 - 1) % Word8

(* Line 360, and the mutant that forgets it.                               *)
KeepCountdown == UNCHANGED frame_wrap
RestartCountdown == frame_wrap' = MIN_FRAME_WRAPS

(* What the stream itself shows, for the properties.                       *)
ObserveWrap(frame) ==
  IF ~Wrap(frame) THEN UNCHANGED <<wrap_rate, wrap_run>>
  ELSE /\ wrap_rate' = prev_frame + 1
       /\ wrap_run' = IF wrap_rate' = wrap_rate THEN wrap_run + 1 ELSE 1

DetectFrameRate(frame) ==
  /\ prev_frame' = frame
  /\ ObserveWrap(frame)
  /\ UNCHANGED written
  /\ \/ /\ ~UnexpectedWrap(frame)
        /\ UNCHANGED <<frame_rate, pending_frame_rate, frame_wrap, evidence>>
     \/ /\ UnexpectedWrap(frame)
        /\ prev_frame + 1 = pending_frame_rate
        /\ frame_wrap' = CountDown
        /\ frame_rate' = IF frame_wrap' = 0 THEN pending_frame_rate
                                            ELSE frame_rate
        /\ evidence' = evidence + 1
        /\ UNCHANGED pending_frame_rate
     \/ /\ UnexpectedWrap(frame)
        /\ prev_frame + 1 # pending_frame_rate
        /\ pending_frame_rate' = prev_frame + 1
        /\ RestartCountdown
        /\ evidence' = 1
        /\ UNCHANGED frame_rate

-----------------------------------------------------------------------------
(* Keeping in step with the timecode, lines 368-401.                       *)

(* More than a second ahead, and the mutant that lets it pass.             *)
NeverAhead(tc) == FALSE
Ahead(tc)  == tc - local_tc > TIME_POSITION_FRACTIONS
Behind(tc) == local_tc - tc > TIME_POSITION_FRACTIONS

(* Enough codewords out of step, and the mutant that waits for one more.   *)
GiveInLate == out_of_sync_count > MAX_UNSYNCED + 1
GiveIn == out_of_sync_count > MAX_UNSYNCED

(* No "timecode-changed" from this codeword.                               *)
Withhold ==
  /\ emitted' = FALSE
  /\ UNCHANGED <<last_tc, last_start, user_bits>>

TrackTimecode(tc, ub) ==
  \/ /\ GiveIn
     /\ local_tc' = tc
     /\ out_of_sync_count' = 0
     /\ Withhold
  \/ /\ ~GiveIn /\ Ahead(tc)
     /\ local_tc' = local_tc + TIME_POSITION_FRACTIONS
     /\ out_of_sync_count' = out_of_sync_count + 1
     /\ Withhold
  \/ /\ ~GiveIn /\ Behind(tc)
     /\ local_tc' = -TIME_POSITION_FRACTIONS   \* line 375 has "=-"
     /\ out_of_sync_count' = out_of_sync_count + 1
     /\ Withhold
  \/ /\ ~GiveIn /\ ~Ahead(tc) /\ ~Behind(tc)
     /\ local_tc' = tc
     /\ last_tc' = tc
     /\ last_start' = frame_start
     /\ out_of_sync_count' = 0
     /\ user_bits' = ub
     /\ emitted' = TRUE

-----------------------------------------------------------------------------
(* One call of tcdecode and what decode_frames makes of it.                *)

(* tcdecode consumed n bits and the last of them completed a sync word.    *)
SyncWord(n) ==
  /\ pos + n <= MaxPos
  /\ pos' = pos + n
  /\ sync_pos' = pos + n
  /\ bit_count' = 0
  /\ run_bits' = 0
  /\ gap_bits' = run_bits + n

(* Line 331.                                                               *)
BackToBack(n) == (bit_count + n) % Word16 = FrameBits

(* tc_invalid, and the mutant that forgets it.                             *)
KeepValid == UNCHANGED tc_is_valid
TcInvalid == tc_is_valid' = FALSE

(* The times the code may compute for position p.  The delay is asked for  *)
(* before the clock is read (NeverEarly and LateByLag of SoundIOAlsa), the *)
(* place of the sync word is a whole sample, and the result whole          *)
(* microseconds; a position stands for the earliest of the results.        *)
StartOf(p) == p .. p + MaxLate

(* Lines 402-413, and the mutant that leaves the start as it was.          *)
KeepStart(n) == frame_pos' = pos + n /\ UNCHANGED frame_start
StartNextFrame(n) == frame_pos' = pos + n /\ frame_start' \in StartOf(frame_pos')

(* The timecodes of two successive codewords are within a second.          *)
Smooth(tc) ==
  /\ tc - decoded_tc <= TIME_POSITION_FRACTIONS
  /\ decoded_tc - tc <= TIME_POSITION_FRACTIONS

(* A sync word at the wrong distance from the previous one, lines 331-334. *)
DiscardCodeword(n) ==
  /\ ~BackToBack(n)
  /\ SyncWord(n)
  /\ TcInvalid
  /\ emitted' = FALSE
  /\ UNCHANGED <<prev_frame, frame_rate, pending_frame_rate, frame_wrap,
                 local_tc, last_tc, last_start, out_of_sync_count, user_bits,
                 frame_start, frame_pos, decoded_tc, quiet, wrapHistory>>

(* A codeword that follows the previous one directly, lines 335-413.  The  *)
(* handlers of "timecode-changed" run inside the step.                     *)
AcceptCodeword(n, second, frame, ub) ==
  /\ BackToBack(n)
  /\ SyncWord(n)
  /\ tc_is_valid' = TRUE
  /\ DetectFrameRate(frame)
  /\ LET tc == TimePositionOf(second, frame, frame_rate')
     IN  /\ TrackTimecode(tc, ub)
         /\ decoded_tc' = tc
         /\ quiet' = IF emitted' THEN 0 ELSE IF Smooth(tc) THEN quiet + 1 ELSE 1
  /\ StartNextFrame(n)

(* The stream gave n bits without a sync word and then d bit periods       *)
(* without a transition; d = 0 when the gap is short of TC_MAX_INTERVAL.   *)
(* Lines 589-594 and 415-418, which look at a gap only when a buffer ends  *)
(* in it: one that a transition ends before the buffer does is not         *)
(* noticed.                                                                *)
BufferEnd(n, d) ==
  /\ pos + n + d <= MaxPos
  /\ pos' = pos + n + d
  /\ bit_count' = (bit_count + n) % Word16
  /\ run_bits' = run_bits + n
  /\ (d > 0 /\ TcInvalid) \/ UNCHANGED tc_is_valid
  /\ emitted' = FALSE
  /\ UNCHANGED <<prev_frame, frame_rate, pending_frame_rate, frame_wrap,
                 local_tc, last_tc, last_start, out_of_sync_count, user_bits,
                 frame_start, frame_pos, sync_pos, gap_bits, decoded_tc, quiet,
                 wrapHistory>>

(* set_property with PROP_FRAME_RATE.                                      *)
SetFrameRate(rate) ==
  /\ frame_rate' = rate
  /\ written' = TRUE
  /\ emitted' = FALSE
  /\ UNCHANGED <<bit_count, prev_frame, pending_frame_rate, frame_wrap,
                 local_tc, last_tc, last_start, out_of_sync_count, user_bits,
                 frame_start, tc_is_valid, pos, sync_pos, frame_pos, run_bits,
                 gap_bits, decoded_tc, quiet, evidence, wrap_rate, wrap_run>>

Next ==
  \/ \E n \in BitGaps : DiscardCodeword(n)
  \/ \E n \in BitGaps, second \in Seconds, frame \in Frames, ub \in UserBits :
       AcceptCodeword(n, second, frame, ub)
  \/ \E n \in BitGaps \union {0}, d \in Silences \union {0} : BufferEnd(n, d)
  \/ \E rate \in FrameRateSettings : SetFrameRate(rate)

Spec == Init /\ [][Next]_vars

-----------------------------------------------------------------------------
(* Properties. *)

(* Types of the fields of struct _LTCReader: the guint8 countdown stays    *)
(* within eight bits and the frame fields within what line 340 lets        *)
(* through.                                                                *)
RateTypes ==
  /\ prev_frame \in 0 .. 45
  /\ frame_rate \in 1 .. 46
  /\ pending_frame_rate \in 0 .. 46
  /\ frame_wrap \in 0 .. Word8 - 1
  /\ evidence \in Nat /\ wrap_rate \in 0 .. 46 /\ wrap_run \in Nat

TimecodeTypes ==
  /\ local_tc \in Int /\ last_tc \in Int /\ decoded_tc \in Int
  /\ out_of_sync_count \in 0 .. MAX_UNSYNCED + 1
  /\ quiet \in Nat

PositionTypes ==
  /\ bit_count \in 0 .. Word16 - 1
  /\ frame_start \in Nat /\ last_start \in Nat /\ pos \in Nat
  /\ sync_pos \in Nat /\ frame_pos \in Nat
  /\ run_bits \in Nat /\ gap_bits \in Nat

FlagTypes ==
  /\ tc_is_valid \in BOOLEAN
  /\ emitted \in BOOLEAN /\ written \in BOOLEAN
  /\ user_bits \in UserBits \union {0}

TypeOK == RateTypes /\ TimecodeTypes /\ PositionTypes /\ FlagTypes

(* A timecode that runs without jumps is announced again after at most     *)
(* MAX_UNSYNCED + 2 codewords: the two ways of counting codewords out of   *)
(* step, the restart at lines 368-370 and the one at 371-376, which moves  *)
(* local_tc to a constant when the timecode is behind, cannot starve the   *)
(* signal.                                                                 *)
BoundedResync == quiet <= MAX_UNSYNCED + 2

(* While every codeword is announced, no announced timecode is more than a *)
(* second away from the one announced before it: a misread codeword does   *)
(* not reach the handlers (lines 371-376).                                 *)
NoOutlier ==
  [][emitted' /\ quiet = 0 =>
       /\ last_tc' - last_tc <= TIME_POSITION_FRACTIONS
       /\ last_tc - last_tc' <= TIME_POSITION_FRACTIONS]_vars

(* A timecode announced while codewords arrive back to back carries the    *)
(* time at which the sync word before it ended: frame_start (line 413) is  *)
(* stale in no such announcement, whatever was discarded or silent before. *)
LockedStampRight ==
  [][emitted' /\ tc_is_valid => last_start' \in StartOf(sync_pos)]_vars

(* Announced starts are a frame apart but for the error of the computed    *)
(* times, whatever is discarded in between: a start is replaced, lines     *)
(* 402-413, only after the 80 bits of line 331.  The sender builds on it:  *)
(* it holds a timecode back unless its stamp is later than the last, and   *)
(* blocks that are announced less than half a block apart overlap.         *)
StampsIncrease ==
  [][emitted' => /\ last_start <= last_start' + MaxLate
                 /\ last_start' + FrameBits <= frame_start' + MaxLate]_vars

(* The frame rate changes only when a client writes it or when more than   *)
(* MIN_FRAME_WRAPS wraps have shown the new one (lines 349-361).           *)
RateChangeNeedsWraps ==
  [][\/ frame_rate' = frame_rate
     \/ evidence' > MIN_FRAME_WRAPS
     \/ \E rate \in FrameRateSettings : SetFrameRate(rate)]_vars

(* Once more than MIN_FRAME_WRAPS successive wraps of the stream have      *)
(* shown one frame rate, it is the rate of the reader, unless a client has *)
(* written "frame-rate", after which the countdown may go from 0 to 255.   *)
RateFollowsStream ==
  ~written /\ wrap_run > MIN_FRAME_WRAPS => frame_rate = wrap_rate

(* An announced codeword ends a frame of 80 bits, as far as bit_count, a   *)
(* guint16, can tell: the count is restarted by every sync word, accepted  *)
(* or not (lines 333 and 339), and survives the end of a buffer.           *)
FrameLengthModWord16 == emitted => gap_bits % Word16 = FrameBits

-----------------------------------------------------------------------------
(* What a comment of the program says and the code does not do.            *)

(* LTC_reader.c:55, frame_start is the "Start of frame currentl being      *)
(* decoded."; it is what "timecode-changed" announces as when.             *)
StampIsFrameStart == [][emitted' => last_start' \in StartOf(sync_pos)]_vars

=============================================================================

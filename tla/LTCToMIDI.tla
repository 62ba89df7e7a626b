----------------------------- MODULE LTCToMIDI -----------------------------
(***************************************************************************)
(* The whole bridge: a tape, the capture device, the LTC reader, the       *)
(* callback timecode_changed of ltc_to_midi.c, the MTC sender and the      *)
(* queue of the sequencer, with one clock.                                 *)
(*                                                                         *)
(* One unit of time is a bit of the tape, 80 to a frame, and a second has  *)
(* RATE frames.  The reader's positions are times of capture, the sender's *)
(* stamps times of the clock, which the reader computes from the positions *)
(* with an error of up to MaxLate.  The tape shows at time t the timecode  *)
(* that began at origin and advances with t; it may be cut, or stop and go *)
(* on.                                                                     *)
(*                                                                         *)
(* The main thread is the reader's and the sender's: it reads a codeword   *)
(* at most MaxDelay after its last bit was captured, unless it waits for   *)
(* the pool inside snd_seq_drain_output, and meanwhile the device fills.   *)
(* Its own steps take no time; the queue delivers messages when due.       *)
(***************************************************************************)
EXTENDS Integers, Sequences

CONSTANTS
  RATE,              \* frames in a second of the tape
  InitialFrameRate,  \* what the reader takes it for at first
  MAX_UNSYNCED,
  MIN_FRAME_WRAPS,
  PoolSize,          \* messages the kernel accepts
  BufferTime,        \* time the device can capture without being read
  MaxDelay,          \* longest time from capture to reading
  TICK,              \* resolution of the clock
  MaxLate,           \* largest error of a start the reader computes
  Cuts,              \* frame numbers at which the tape goes on after a cut
  MaxDisturbances,   \* bound: number of cuts and stops
  MaxClock           \* bound: end of the run

(* A timecode has frame fields up to 45 (line 340 of LTC_reader.c).  Cuts   *)
(* are 50 bits and quarter frames 20 bits long, so that with TICK a        *)
(* divisor of 10 the clock shows the times at which the tape does          *)
(* something.                                                              *)
ASSUME BridgeAssumption ==
  /\ RATE \in 1 .. 46 /\ InitialFrameRate \in 1 .. 46
  /\ MAX_UNSYNCED \in Nat
  /\ MIN_FRAME_WRAPS \in 1 .. 255
  /\ PoolSize \in Nat \ {0}
  /\ BufferTime \in Nat /\ MaxDelay \in Nat
  /\ TICK \in 1 .. 10 /\ 10 % TICK = 0
  /\ MaxLate \in Nat
  /\ Cuts \subseteq Nat
  /\ MaxDisturbances \in Nat /\ MaxClock \in Nat

FRACTIONS == 600        \* TIME_POSITION_FRACTIONS
FRAME == 80             \* bits of a frame
SECOND == RATE * FRAME

(* A tape that stops does so for one frame; a cut one leaves part of a     *)
(* frame.                                                                  *)
STOP == FRAME
PART == 50

VARIABLES  \* of the reader, see LTCReader
  bit_count, prev_frame, frame_rate, pending_frame_rate, frame_wrap, local_tc,
  last_tc, last_start, out_of_sync_count, user_bits, frame_start, tc_is_valid,
  pos, emitted, sync_pos, frame_pos, run_bits, gap_bits, decoded_tc, quiet,
  evidence, wrap_rate, wrap_run, written

VARIABLES  \* of the sender and the sequencer, see MTCSender
  pc, last_timestamp, stamp, time_step, qf, output_buffer, pool, last_when,
  now, block, block_end, skipped, broken, heard

VARIABLES
  clock,         \* environment: the time
  origin,        \* environment: when the tape would have shown 0
  disturbances,  \* number of cuts and stops
  steady,        \* history: time of the latest of them
  blocks         \* history: what was sent, by number of the block

Reader == INSTANCE LTCReader
            WITH TIME_POSITION_FRACTIONS <- FRACTIONS, Seconds <- Nat,
                 Frames <- 0 .. RATE - 1, UserBits <- {0}, BitGaps <- {PART, FRAME},
                 Silences <- {STOP}, FrameRateSettings <- {}, MaxPos <- MaxClock

Sender == INSTANCE MTCSender
            WITH NSEC <- SECOND, FrameRates <- {InitialFrameRate, RATE},
                 Gaps <- {FRAME}, MayFail <- FALSE, MaxWhen <- MaxClock

readerVars ==
  <<bit_count, prev_frame, frame_rate, pending_frame_rate, frame_wrap, local_tc,
    last_tc, last_start, out_of_sync_count, user_bits, frame_start, tc_is_valid,
    pos, emitted, sync_pos, frame_pos, run_bits, gap_bits, decoded_tc, quiet,
    evidence, wrap_rate, wrap_run, written>>
senderVars ==
  <<pc, last_timestamp, stamp, time_step, qf, output_buffer, pool, last_when,
    now, block, block_end, skipped, broken, heard>>
tapeVars == <<origin, disturbances, steady>>

vars == <<readerVars, senderVars, clock, tapeVars, blocks>>

(* main, once everything is connected, and a tape that starts.             *)
Init ==
  /\ Reader!Init
  /\ Sender!Init
  /\ clock = 0
  /\ origin = 0
  /\ disturbances = 0
  /\ steady = 0
  /\ blocks = << >>

-----------------------------------------------------------------------------
(* timecode_changed, lines 67-80 of ltc_to_midi.c, inside the emission of  *)
(* the signal.  Line 76 moves the reader's own frame_start, which          *)
(* decode_frames then replaces (line 413).  A block is fresh when the      *)
(* codeword came back to back with the one before it and the tape did not  *)
(* stop between the two.                                                   *)

(* Lines 76 and 77, and the mutants that do not move the time, or the      *)
(* timecode, or move the time by two seconds.                              *)
SameTime(when) == when
TwoSecondsAhead(when) == when + 2 * SECOND
MoveAhead(when) == when + SECOND

SameTimecode(tc) == tc
MoveTimecode(tc) == tc + FRACTIONS

timecode_changed(tc, rate, when) ==
  \/ /\ Sender!StartBlock(MoveAhead(when), rate)
     /\ blocks' = Append(blocks,
                         [tc |-> MoveTimecode(tc), rate |-> rate,
                          origin |-> origin, ideal |-> MoveAhead(frame_pos),
                          fresh |-> tc_is_valid /\ steady <= sync_pos])
  \/ /\ Sender!SkipBlock(MoveAhead(when))
     /\ UNCHANGED blocks

-----------------------------------------------------------------------------
(* The main thread reads what was captured, if it is not in the sender.    *)

Captured(n) == pc = "idle" /\ pos + n <= clock

(* A frame of the tape.                                                    *)
Frame ==
  LET number == (pos - origin) \div FRAME
  IN  /\ Captured(FRAME)
      /\ Reader!AcceptCodeword(FRAME, number \div RATE, number % RATE, 0)
      /\ IF emitted' THEN timecode_changed(last_tc', frame_rate', last_start')
         ELSE UNCHANGED <<senderVars, blocks>>
      /\ UNCHANGED <<clock, tapeVars>>

(* The tape was cut: a sync word comes early, and the tape goes on at      *)
(* another place.                                                          *)
Cut(number) ==
  /\ Captured(PART)
  /\ disturbances < MaxDisturbances
  /\ disturbances' = disturbances + 1
  /\ Reader!DiscardCodeword(PART)
  /\ origin' = pos + PART - number * FRAME
  /\ steady' = pos + PART
  /\ UNCHANGED <<senderVars, clock, blocks>>

(* The tape stopped between two frames, in the end of a buffer or where    *)
(* the reader does not notice.                                             *)
Stop ==
  /\ Captured(STOP)
  /\ disturbances < MaxDisturbances
  /\ disturbances' = disturbances + 1
  /\ Reader!BufferEnd(0, STOP)
  /\ origin' = origin + STOP
  /\ steady' = pos + STOP
  /\ UNCHANGED <<senderVars, clock, blocks>>

Read == Frame \/ Stop \/ \E number \in Cuts : Cut(number)

Send ==
  /\ Sender!SendLoop
  /\ UNCHANGED <<readerVars, clock, tapeVars, blocks>>

-----------------------------------------------------------------------------
(* The queue of the kernel.                                                *)

MessageDue == \E m \in pool : Sender!Time(m.at) <= clock

Deliver ==
  /\ MessageDue
  /\ Sender!Deliver
  /\ UNCHANGED <<readerVars, clock, tapeVars, blocks>>

(* The clock goes on when all is done that must be done by now.            *)
SenderReady == pc = "send" /\ (qf < 8 \/ output_buffer = << >> \/ Sender!Room)
ReaderLate == pc = "idle" /\ pos + FRAME + MaxDelay <= clock

Tick ==
  /\ clock < MaxClock
  /\ ~MessageDue /\ ~SenderReady /\ ~ReaderLate
  /\ clock' = clock + TICK
  /\ UNCHANGED <<readerVars, senderVars, tapeVars, blocks>>

(* The end of the run.                                                     *)
Done == clock >= MaxClock /\ UNCHANGED vars

Next == Read \/ Send \/ Deliver \/ Tick \/ Done

Spec == Init /\ [][Next]_vars

-----------------------------------------------------------------------------
(* Properties. *)

(* Blocks of which everything was right when they were sent: codewords     *)
(* came back to back, at the frame rate the tape has, and the tape has     *)
(* been running since.                                                     *)
Good(b) == b.fresh /\ b.rate = RATE /\ b.origin = origin

(* What is heard is where the tape is: the first quarter frame is          *)
(* delivered at the moment at which the tape begins the frame it names,    *)
(* and each of the others a quarter of a frame later, up to the error of   *)
(* the start that the reader computes and the resolution of the clock.     *)
(* The second that line 76 adds to the stamp and line 77 to the timecode,  *)
(* the start that the reader reports and the distances of the sender       *)
(* cancel out, and reading late or waiting for the pool delays no message. *)
Late(piece, tc) ==
  FRACTIONS * (clock - piece * (FRAME \div 4) - origin) - tc * SECOND

InSync ==
  [][heard' # heard /\ Good(blocks[heard'.block]) =>
       LET late == Late(heard'.piece, blocks[heard'.block].tc)
       IN  0 <= late /\ late < FRACTIONS * (MaxLate + TICK)]_vars

(* While the sender waits for the pool, the device does not overrun.       *)
NoOverrun == clock - pos <= BufferTime

(* Line 75, "make sure the timestamp is in the future", holds for          *)
(* codewords that come back to back: a quarter frame reaches the kernel    *)
(* before it is due.  After a tape has stopped for most of a second the    *)
(* first codeword carries the start of a frame before the stop, and its    *)
(* quarter frames are late.                                                *)
FreshInFuture ==
  [][\A m \in pool' \ pool :
       blocks[m.block].fresh => clock < Sender!Time(m.at)]_vars

(* When the tape has run steadily for the codewords the reader may         *)
(* withhold (BoundedResync of LTCReader) and the second that is added,     *)
(* quarter frames keep coming without a gap, but for the error of a start  *)
(* and the resolution of the clock: skipping every second frame, waiting   *)
(* for the pool and reading late starve no listener.                       *)
Settled ==
  clock >= steady + SECOND + (MAX_UNSYNCED + 2) * FRAME + MaxLate + TICK
KeepsComing ==
  Settled => clock - now < SECOND \div (4 * InitialFrameRate) + MaxLate + TICK

(* At the frame rate of the tape a block begins before the end of the one  *)
(* before it by no more than the error of a computed start.  A timecode in *)
(* the middle of a block is skipped, and line 268 then compares the next   *)
(* one with it and not with the end of the block (line 278): two frames    *)
(* after the block began, but for the error, be the starts stale or not.   *)
OverlapWithinError ==
  [][block' # block /\ block > 0 /\ blocks[block].rate = RATE =>
       block_end <= last_when' + MaxLate]_vars

=============================================================================

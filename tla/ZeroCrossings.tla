--------------------------- MODULE ZeroCrossings ----------------------------
(***************************************************************************)
(* How the LTC reader finds transitions in samples: the first part of      *)
(* tcdecode in LTC_reader.c, which searches one channel of a buffer for    *)
(* changes of sign, with the loop of decode_frames around it.              *)
(*                                                                         *)
(* A signal comes in buffers that are cut anywhere, and tcdecode returns   *)
(* in the middle of a buffer whenever a transition completes a codeword.   *)
(* What is left of the signal between these is prev_sample and             *)
(* prev_transition, the time from the latest transition to the latest      *)
(* sample, and two pointers.                                               *)
(***************************************************************************)
EXTENDS Integers, Sequences, FiniteSetsExt

CONSTANTS
  Samples,
  Channels,         \* numbers of channels a source may have
  MaxLength,        \* frames in a buffer
  TC_SAMPLE_TIME,   \* units of time in a sample
  MAX_INTERVAL,     \* TC_MAX_INTERVAL
  UnsignedSize,     \* values of an unsigned int
  MaxSilence        \* bound: units without a transition

(* A buffer is far shorter than the time an unsigned int can count.        *)
ASSUME CrossingAssumption ==
  /\ Samples \subseteq Int
  /\ Channels \subseteq Nat \ {0}
  /\ MaxLength \in Nat \ {0} /\ TC_SAMPLE_TIME \in Nat \ {0}
  /\ MAX_INTERVAL \in Nat \ {0} /\ MAX_INTERVAL > TC_SAMPLE_TIME
  /\ UnsignedSize \in Nat
  /\ MAX_INTERVAL + MaxLength * TC_SAMPLE_TIME < UnsignedSize
  /\ MaxSilence \in Nat /\ MaxSilence >= UnsignedSize

VARIABLES
  channels, use_channel,  \* of the reader and its source
  prev_sample,            \* the latest sample
  prev_transition,        \* time from the latest transition
  tc_is_valid

VARIABLES
  buffer,         \* samples of the channel in use
  stage,          \* "idle", "call" of tcdecode, "search" in it
  pos, frames,    \* of decode_frames: where to go on, and frames left
  data, dataend   \* of tcdecode

VARIABLES
  before,    \* history: the sample that came before the buffer
  since,     \* history: its time from the transition before it
  found,     \* history: the sample at the latest transition found in the
             \* buffer, 0 if none was found yet
  interval   \* history: the latest interval found

readerVars == <<channels, use_channel, prev_sample, prev_transition>>

crossingVars ==
  <<readerVars, tc_is_valid, buffer, stage, pos, frames, data, dataend,
    before, since, found, interval>>

(* LTC_reader_init, and NewSource of AudioLink.                            *)
CrossingInit ==
  /\ channels \in Channels
  /\ use_channel \in 0 .. channels - 1
  /\ prev_sample = 0
  /\ prev_transition = UnsignedSize - 1
  /\ tc_is_valid = FALSE
  /\ buffer = <<>>
  /\ stage = "idle"
  /\ pos = 0 /\ frames = 0 /\ data = 0 /\ dataend = 0
  /\ before = 0
  /\ since = UnsignedSize - 1
  /\ found = 0
  /\ interval = 0

Positive(s) == s >= 0
Abs(n) == IF n < 0 THEN -n ELSE n

(* Line 599: the place of a transition after the first of two samples.     *)
Offset(a, b) == (TC_SAMPLE_TIME * Abs(a)) \div Abs(a - b)

-----------------------------------------------------------------------------
(* The transitions of the whole signal, by definition: where two samples   *)
(* that follow each other differ in sign, wherever buffers are cut.        *)

Sample(i) == IF i = 0 THEN before ELSE buffer[i]

Transitions ==
  {i \in 1 .. Len(buffer) : Positive(Sample(i - 1)) # Positive(Sample(i))}

(* Time of a transition, counted from the sample before the buffer, ...    *)
Place(i) == TC_SAMPLE_TIME * (i - 1) + Offset(Sample(i - 1), Sample(i))

(* ... and what has passed at time t since the latest one found.           *)
SinceFound(t) == t + (IF found = 0 THEN since ELSE -Place(found))

(* Time of sample k.                                                       *)
SampleTime(k) == TC_SAMPLE_TIME * k

-----------------------------------------------------------------------------
(* What is in memory: in the other channels the signal is turned around,   *)
(* and outside of the buffer there may be anything; here it is 0.          *)
Memory(i) ==
  LET s == buffer[(i \div channels) + 1]
  IN IF i \notin 0 .. Len(buffer) * channels - 1 THEN 0
     ELSE IF i % channels = use_channel THEN s ELSE -1 - s

(* Arithmetic of an unsigned int, and a mutant with a shorter one.         *)
Short(n) == n % (MAX_INTERVAL + TC_SAMPLE_TIME)
Unsigned(n) == n % UnsignedSize

(* sink_write and lines 314-321, with a buffer that is not empty.          *)
Write(samples) ==
  /\ stage = "idle"
  /\ stage' = "call"
  /\ buffer' = samples /\ pos' = 0 /\ frames' = Len(samples)
  /\ before' = Sample(Len(buffer))
  /\ since' = SinceFound(SampleTime(Len(buffer)))
  /\ found' = 0
  /\ Transitions' # {} \/ since' + SampleTime(Len(samples)) <= MaxSilence
  /\ UNCHANGED <<readerVars, tc_is_valid, data, dataend, interval>>

(* Lines 578-579.                                                          *)
Call ==
  /\ stage = "call"
  /\ frames > 0
  /\ stage' = "search"
  /\ data' = pos + use_channel
  /\ dataend' = pos + use_channel + frames * channels
  /\ pos' = data'
  /\ UNCHANGED <<readerVars, tc_is_valid, buffer, frames, before, since,
                 found, interval>>

(* Line 321: nothing is left.                                              *)
Return ==
  /\ stage = "call"
  /\ frames = 0
  /\ stage' = "idle"
  /\ UNCHANGED <<readerVars, tc_is_valid, buffer, pos, frames, data, dataend,
                 before, since, found, interval>>

(* Where the search of lines 581-588 ends: at the first sample that        *)
(* differs in sign from prev_sample, or at dataend.                        *)
Ends ==
  {d \in data .. dataend :
     /\ (d - data) % channels = 0
     /\ d = dataend \/ Positive(Memory(d)) # Positive(prev_sample)}

Found == Min(Ends)

Elapsed == (TC_SAMPLE_TIME * (Found - data)) \div channels

(* Lines 591 and 596, and the mutant without.                              *)
KeepSample == prev_sample
SampleBefore ==
  IF Found = data THEN prev_sample ELSE Memory(Found - channels)

(* Lines 589-594, and 415-418 of decode_frames.  In an empty rest line 591 *)
(* would take the sample before data, which is prev_sample as well.        *)
BufferEnd ==
  /\ stage = "search"
  /\ Found = dataend
  /\ stage' = "call"
  /\ prev_transition' = Unsigned(prev_transition + Elapsed)
  /\ prev_sample' = SampleBefore
  /\ pos' = dataend /\ data' = dataend /\ frames' = 0
  /\ tc_is_valid' = (tc_is_valid /\ prev_transition' < MAX_INTERVAL)
  /\ UNCHANGED <<channels, use_channel, buffer, dataend, before, since,
                 found, interval>>

(* Lines 589, 596-602 and 664.                                             *)
TransitionFound ==
  /\ stage = "search"
  /\ Found # dataend
  /\ LET offset == Offset(SampleBefore, Memory(Found))
     IN /\ interval' = Unsigned(prev_transition + Elapsed + offset)
        /\ prev_transition' = TC_SAMPLE_TIME - offset
  /\ prev_sample' = Memory(Found)
  /\ data' = Found + channels
  /\ found' = (Found \div channels) + 1
  /\ UNCHANGED <<channels, use_channel, buffer, dataend, before, since>>

NoCodeword ==
  /\ TransitionFound
  /\ UNCHANGED <<stage, pos, frames, tc_is_valid>>

(* Line 694, and the mutant that does not align the pointer.               *)
NotAligned == data'
Aligned == data' - use_channel

(* Lines 694-696; in decode_frames the codeword is accepted or not.        *)
CodewordFound ==
  /\ TransitionFound
  /\ stage' = "call"
  /\ pos' = Aligned
  /\ frames' = (dataend - data') \div channels
  /\ tc_is_valid' \in BOOLEAN

Buffers == UNION {[1 .. n -> Samples] : n \in 1 .. MaxLength}

tcdecode == Call \/ BufferEnd \/ NoCodeword \/ CodewordFound

CrossingNext == (\E samples \in Buffers : Write(samples)) \/ tcdecode \/ Return

CrossingSpec == CrossingInit /\ [][CrossingNext]_crossingVars

-----------------------------------------------------------------------------
(* Properties. *)

(* Types, and that the pointers stay in the frames of the buffer, so that  *)
(* no sample outside of it is read.                                        *)
PointersOK ==
  /\ channels \in Channels /\ use_channel \in 0 .. channels - 1
  /\ prev_sample \in Samples \union {0} /\ before \in Samples \union {0}
  /\ prev_transition \in 0 .. UnsignedSize - 1
  /\ tc_is_valid \in BOOLEAN
  /\ buffer \in Buffers \union {<<>>}
  /\ stage \in {"idle", "call", "search"}
  /\ frames \in 0 .. Len(buffer)
  /\ since \in 0 .. MaxSilence
  /\ found \in 0 .. Len(buffer) /\ interval \in 0 .. UnsignedSize - 1
  /\ stage = "search" =>
       /\ data % channels = use_channel
       /\ data <= dataend
       /\ dataend = Len(buffer) * channels + use_channel

(* Every transition that is found is the next one of the signal, and its   *)
(* interval the time between the two, as an unsigned int can hold it,      *)
(* whatever the number of channels and wherever buffers and codewords end. *)
IntervalsTrue ==
  [][TransitionFound =>
       /\ found' \in Transitions /\ found < found'
       /\ \A i \in Transitions : i < found' => i <= found
       /\ interval' = SinceFound(Place(found')) % UnsignedSize]_crossingVars

(* At the end of a buffer none was missed, and the time from the latest    *)
(* one is right, modulo the range of an unsigned int.                      *)
NoneMissed ==
  stage = "idle" =>
    /\ found \in Transitions \union {0} /\ \A i \in Transitions : i <= found
    /\ prev_transition = SinceFound(SampleTime(Len(buffer))) % UnsignedSize

(* The timecode is not called valid where a buffer ends in a long silence, *)
(* also when the silence is so long that prev_transition has wrapped to a  *)
(* small number.  Of a silence that a transition ends before the buffer    *)
(* does, line 589 learns nothing.                                          *)
SilenceInvalidates ==
  stage = "idle" /\ tc_is_valid
    => SinceFound(SampleTime(Len(buffer))) < MAX_INTERVAL

=============================================================================

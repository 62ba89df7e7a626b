# ltc_to_midi in TLA+

`ltc_to_midi` listens to linear timecode (LTC) on an ALSA capture device and
repeats it as MIDI timecode (MTC) on a port of the ALSA sequencer. This
directory holds TLA+ models of the parts that decide whether the MTC that comes
out is right, TLC configurations that check them on small instances, and proofs
for all values of the constants.

Paths are relative to the repository; `LTC_reader.c:331` is a line of
`src/LTC_reader.c`.

    tlc -config MCReaderSync.cfg MCLTCReader    # one run
    tlapm LTCReader_proofs.tla                  # one proof module

## 1. The system

One process, one thread: a GLib main loop. Everything below happens in callbacks
of that loop. What runs concurrently with it is the kernel: the PCM device, which
captures whether or not it is read, and the queue of the sequencer, which
delivers messages when they are due. A signal handler (SIGINT) interrupts the
thread anywhere.

    PCM device --> SoundIOAlsa --> LTCReader --> callback --> MTC sender --> sequencer queue
     (kernel)      poll, read,     bits, frames,  + 1 s       8 quarter      (kernel)
                   recover         timecode                   frames, drain

A period of frames makes the descriptors of the device readable. `input_io_handler`
asks the sink of the stream to read; the reader calls back `source_read` for its
whole buffer, asks `source_pipe_length` for the delay, reads the clock and
decodes. `tcdecode` turns samples into bits and returns at each sync word;
`decode_frames` checks the codeword, tracks frame rate and timecode and emits
`timecode-changed` with the time the frame started. The application adds a
second and calls `mtc_sender_send_mtc`, which writes eight quarter frames and
drains them to the kernel, blocking the loop while the kernel's pool is full.

### Components

| component | state | operations | correct when |
|---|---|---|---|
| Frame stage of the reader, `LTC_reader.c:312-433` | bits since the sync word, pending and accepted frame rate with a countdown, expected timecode, count of codewords out of step, start of the frame, last announced timecode | a codeword, the end of a buffer, a silence, writing `frame-rate` | the signal carries no misread timecode, comes back after a jump, carries the start of its frame; the frame rate follows the stream and nothing else |
| Bit stage of the reader, `LTC_reader.c:573-699` | latest sample and time since the latest transition, estimate of the length of a bit, half bit, two shift registers | a buffer of samples | the intervals are those of the signal wherever buffers are cut; 80 bits between sync words give the codeword, at every speed within limits |
| MTC sender, `mtc_sender.c` | stamp of the last timecode or end of its block, output buffer | create, send a timecode, destroy | whole timecodes in order, evenly spaced, no overlap; the main loop gets out |
| Links of sources and sinks, `audio_link.c`, `soundio_common.c`, `LTC_reader.c:146-310, 436-490` | two pointers per link, channels and buffer of each reader | connect, disconnect, finalize, change the buffer, read | the ends agree, none dangles, the buffer has the size the source fills |
| Capture stream, `soundio_alsa.c` | is the input polled, state of the device | create, poll, handle, recover, stop, finalize | every overrun is signalled, capture resumes, the time of capture is right |
| Application, `ltc_to_midi.c` | main loop, the objects | start, callback, SIGINT, clean-up | it stops when told and gives everything back; what is heard is where the tape is, in time and without gaps |
| Time positions, `timeposition.h` | none | codeword to TimePosition to MTC digits | the round trip keeps the timecode |
| Interfaces, type registration, build files | none | - | - |

### What is hard

- *Counters that interact.* The reader decides with five counters (bits, wraps,
  codewords out of step, expected timecode, previous frame) whether to announce a
  codeword; whether they can starve each other shows only over many codewords.
- *Stale values.* `frame_start` is written only for codewords that are accepted,
  the links are bare pointers, the buffer of a reader outlives changes of the
  channels.
- *A device that goes on.* Between `snd_pcm_avail_update`, `snd_pcm_readi`,
  `snd_pcm_delay` and the clock the device captures, overruns and is suspended.
- *Back-pressure.* The pool holds 100 messages; a second of MTC is 120, and the
  main loop waits.
- *A loop that corrects itself.* The estimate of the length of a bit is corrected
  by steps that grow; from it follows what is taken for half a bit.
- *Registers cut anywhere.* A sync word ends a word of the ring at any bit.
- *Narrow integers.* `bit_count` is a `guint16`, `frame_wrap` a `guint8`, and a
  carry of nanoseconds is one late.
- *A failure half way.* A quarter frame that cannot be written leaves those
  before it in the buffer; a device that was prepared may not start; a sender
  that cannot be made is taken apart by what its fields say.
- *A signal handler.* It interrupts the thread at any moment and calls a function
  that takes a lock.
- *Times that must cancel out.* The start of a frame is known a frame late, the
  callback adds a second to it and to the timecode, and the pool delays the
  reading of the next.

The full list, with lines and the properties that cover each, is under `hazards`
in `PROJECT.json`.

## 2. Modules

| module | what it is |
|---|---|
| `ZeroCrossings` | the bit stage: transitions in buffers of samples |
| `MCZeroCrossings` | its instance for TLC |
| `IntervalTracker` | the bit stage: what is half a bit and what a whole one |
| `MCTracker` | its instance for TLC |
| `LTCBits` | the bit stage: registers, sync words, reassembly of the codeword |
| `MCLTCBits` | its instance for TLC |
| `BitStage_proofs` | four theorems about `ZeroCrossings`, two about `IntervalTracker` and three about `LTCBits` |
| `LTCReader` | the frame stage, driven by an arbitrary stream |
| `MCLTCReader` | its instances for TLC |
| `LTCReader_proofs` | eight theorems about it |
| `TimecodeMath` | one timecode from codeword to MTC digits |
| `TimecodeMath_proofs` | four theorems about it |
| `QuarterFrames` | abstract: what a listener on the MIDI port is promised |
| `MTCSender` | the sender, with the output buffer, pool and queue of ALSA |
| `MTCSender_proofs` | five theorems about it, one that it implements `QuarterFrames` |
| `LTCToMIDI` | tape, device, reader, callback, sender and queue on one clock: instances of `LTCReader` and `MTCSender` |
| `LTCToMIDI_proofs` | nine theorems about it |
| `AudioLink` | links and the reader's buffer |
| `MCAudioLink` | its instance for TLC |
| `AudioLink_proofs` | four theorems about it |
| `SoundIOAlsa` | the capture stream with its device |
| `SoundIOAlsa_proofs` | four theorems about it |
| `AppLifecycle` | `main`, its signal handler and its clean-up, creation and destruction of the sender |
| `AppLifecycle_proofs` | four theorems about it |

In every module variables and operators have the names of the code where it has
some; variables called *history* are read by properties only and restrict no
step. Operators right above a definition that a comment calls *mutants* are
not used by the model: each is a plausible mistake in that definition, and
substituting it makes TLC refute the property it belongs to, which shows that
the property depends on the code. `PROJECT.json` lists the pairs under `mutants`.

### ZeroCrossings, IntervalTracker and LTCBits

`tcdecode` is three modules, which meet in the word *interval*: the time between
two transitions, half a bit or a whole one. `ZeroCrossings` finds intervals in
samples (lines 577-602), `IntervalTracker` decides which kind each is (lines
605-649, `Transition`), `LTCBits` goes on from there (lines 620-697). The values
of `half_bit` and `bit_interval` do not depend on each other, nor does either
change what is found in the samples. One module proves about all three, so that
their names are disjoint (`CrossingNext`, `Next` and `BitsNext`; `MAX_INTERVAL` is the
`TC_MAX_INTERVAL` of `ZeroCrossings`).

In `ZeroCrossings` a step is one round of the loop of `tcdecode`: it ends at a
transition (`NoCodeword`, or `CodewordFound`, which returns to `decode_frames`
with the rest of the buffer) or at the end of the buffer (`BufferEnd`). Whether
a transition completes a codeword is left to chance, so that `tcdecode` returns
at every one. `Call` and `CodewordFound` move the pointers as lines 578-579 and
694-695 do; `Memory` has the signal turned around in all channels but the one in
use, and something else outside of the buffer, so that a pointer that is not
aligned finds transitions that are not there. What the signal has is defined from
the samples alone: `Transitions` is where neighbours in the uncut signal differ in
sign, `Place` the time of each. Of earlier buffers only `before`, the last sample, and
`since`, the time from the last transition to it, are kept, and of this one
`found`, the transition found last. `prev_transition` is an unsigned int of
`UnsignedSize` values; `since` is a number.

In `LTCBits` a step is one interval. `HalfInterval` and `FullInterval` are the two
branches, `ReceiveBit` what both do with a bit: `ShiftIn` moves the registers, and
if the upper half of `sync_buffer` is then the sync word, `Codeword` collects the
words before it and the word is cleared. `decode_frames` is there with its test
and restart of `bit_count` only. A register is the function of its bits, the lowest at place
1, so that it has the width it has in the code and a shift of the code is one of
places (`Shifted`); a word has `WordBits` bits. The loops of lines 676-691 are
where each bit of the codeword comes from (`Marker`, `WordBefore`). A signal
sends bits (`Zero`, `BeginOne`, `EndOne`), and any interval may be something else
(`DisturbBits`). `sent` keeps the bits of the latest frame's length, with which an
accepted codeword is compared.

In `IntervalTracker` a step is one interval with its length, in units of 1/16 of a
sample (`TC_SAMPLE_TIME`). The signal has a speed, any bits with at most `MaxRun`
equal ones in a row, and an error of a unit; a `Disturb` is an interval of another kind,
after which the speed may be another. The unit is what the rounding of line 599 does to
a clean signal. On a noisy one, or where a wave is no straight line between two samples,
the interpolation errs by more, of which the properties of this module say nothing.

### LTCReader

A step is one call of `tcdecode` together with what `decode_frames` does about
its result. `DiscardCodeword` is the return at lines 331-334, `AcceptCodeword`
the rest of the loop (frame rate 349-363, timecode 364-401, start of the next
frame 402-413), `BufferEnd` a call that found no sync word, `SetFrameRate` the
`frame-rate` property. The code looks at a silence where a buffer ends (line 415): one that
lasts until then invalidates the timecode, one of the same length that ends before its buffer
does goes unnoticed. `BufferEnd` with a silence does either.
Handlers of `timecode-changed` run inside the step; `last_start` is what they
are told.

Samples are abstracted to `pos`, a position in the stream in bit periods, which
stands for the time of capture; a codeword to the fields the code extracts:
seconds since midnight, frame and user bits. The stream is arbitrary: after any
number of bits of `BitGaps`, any codeword. `bit_count` keeps its 16 bits,
`frame_wrap` its 8.

`frame_start` is a time the code computes: it asks for the delay of the source and
then for the clock, counts whole samples back and ends up with whole microseconds. What comes out
for position p is any of `StartOf(p)`, p to p + `MaxLate`, chosen anew for each frame, so that
starts of successive frames may be less than a frame apart. The history `frame_pos` is the
position itself.

### MTCSender and QuarterFrames

`StartBlock` and `SkipBlock` are the test of lines 268-270 with its outcomes.
`WriteQuarterFrame` is one round of the loop in `output_smpte`, which advances
the stamp with the code's carry; `DrainMessage`, `Drained` and `DrainFails` are
`snd_seq_drain_output`, one message at a time so that the kernel's `Deliver`
comes between. Stamps are pairs of seconds and nanoseconds with `NSEC`
nanoseconds to a second. While the sender is in its loop no timecode is
announced, as the loop is the main thread's. `QuarterFrames` is the promise
to a listener: pieces 0 to 7 of one timecode, then those of a later one. It is
refined through the message delivered last.

When a call fails (`WriteFails`, `DrainFails`) the loop is left and
`last_timestamp` remembers the stamp reached; what was written stays in the
output buffer, and the next timecode drains it. `broken` is the set of
timecodes of which something was never written; `QuarterFrames` lets these, and
only these, end early.

### LTCToMIDI

The bridge as a whole: `LTCReader` and `MTCSender` are instantiated with their own
variables, and `timecode_changed` (`ltc_to_midi.c:67-80`) joins them inside the
step that emits the signal: it is `StartBlock` or `SkipBlock` with the stamp and
the timecode a second later. `ideal` is the stamp without the error of the start. The unit of
time is a bit of the tape. `clock` is what `gettimeofday` and the queue count; `pos` is how much of the capture the
reader has consumed. The tape shows at time t the timecode t - `origin`; `Cut` and
`Stop` move `origin`, leave a broken frame or a silence, noticed or not, and are followed by
codewords that the reader discards, withholds or announces with a stale start,
by its own rules.

The main thread is in one place: `Captured` lets it read only when it is not in
the sender's loop. `Tick` advances the clock only when nothing is left that must
have happened by then: messages that are due are delivered, a sender with room in
the pool goes on, and a codeword is read at most `MaxDelay` after its last bit,
unless the thread waits for the pool. That a codeword lies that long in
the device stands for periods, scheduling and the length of the reader's buffer.

### TimecodeMath

One timecode goes through `Decode` (words of the codeword to a time position),
`timecode_changed` and `Send` (time position to the digits of eight messages). `Word`
puts units and tens where LTC has them and fills all other bits, user bits and
flags among them, with anything. `Shown` is what a listener makes of the
digits, and `SecondLater` a clock with carries and midnight, by definition. The
numbers of the day are far below 2^32 (`FitsUnsigned` in the proofs), so that they
need no width.

### AudioLink

Each action is a whole call by a client: `audio_link_connect` runs
`source_connect` and then `sink_connect`, each of which tells its previous
partner. A call that ends the program (`g_error`, a null source) sets `aborted`.
The state of a reader is the fields that depend on its source. One call that a
document allows ends the program: `audio_sink.h:52` says "Connect to NULL to
disconnect", and `sink_connect` of a SoundIO asks the null source for its channels
(`soundio_common.c:137`, `DisconnectSoundIOSink`).

### SoundIOAlsa

The handler is split at every call to ALSA: `Dispatch` (poll), `RequestRead`
and its failures (`snd_pcm_avail_update`), `Read` and `ReadFails`
(`snd_pcm_readi`), `AskDelay` (`snd_pcm_delay`), `Decode` (the clock). `Tick` and
`Suspend` are the device's and come between any two. A frame of the model is a
period of the device, identified by the time it was captured, so that the times
the reader computes can be compared with the truth. `G_LOG_LEVEL_ERROR` ends the
program.

### AppLifecycle

`pc` is the place of the main thread, and a step is a call that may fail or a
resource that is made or released. `app` and `io` are what the program knows: the
pointers of `struct _AppContext` that are set and the fields of `struct _MTCSender`
from which `mtc_sender_destroy` decides what to release. `held` is the truth: what
GLib and ALSA have given and not got back. The two differ while something is
being made, and properties relate them. `misused` collects what is released, or
used to release something else, without being held.

`Signal` may come between any two steps. Without a handler it kills the program;
`sig_handler` runs `g_main_loop_quit` on whatever `main_loop` points to. GLib's loop
is four places, `prepare`, `poll`, `check` and `dispatch`; it holds the lock of its
context in the first and the third, and a handler that interrupts it there waits
for the lock for ever (`hung`). On a loop that was unreferenced the call may do
anything; the model lets it return or crash.

## 3. Runs

A stream in the model ends at a bound (`MaxPos`, `MaxWhen`, `MaxTime`); the
bounds are the only limits on the length of a run, and each is named in the cfg.

| run | question | bounds, and why they suffice |
|---|---|---|
| `MCZeroCrossings` | Are the intervals those of the signal, wherever buffers and codewords end? | samples -2, 0 and 3, so that offsets round and 0 counts as positive; one and two channels, either in use; buffers of 1 to 3 frames in any sequence; an unsigned int of 32 values and silences up to 52, so that it wraps and goes on past `TC_MAX_INTERVAL` |
| `MCTracker` | Does the reader find the length of a bit, keep it, and then misread nothing? | half bits of 8, 12 and 40 units (at 30 frames per second and 48 kHz it is 160): half a bit of the slowest is longer than a bit of the others; jitter of 1; two disturbances, from glitch to pause; from the longest estimate, 7 to 37 times a bit; `MaxRun` 4 |
| `MCLTCBits` | Is an accepted codeword the frame that was sent, bit by bit, whatever came before? | frames of 3 words of 3 bits, so that the marker meets a sync word at every bit and the ring stands anywhere; the sync word 0, 1, 1, lowest bit first, begins with a 0 like 0xbffc; a count that wraps at 11, less than two frames, as a `guint16` wraps between frames of noise; no other bound: all states |
| `MCReaderRate` | Does the frame rate follow the stream, change only on evidence, and stay within its width? | frames 0, 23 and 24 wrap at 24 and at 25 frames in any order; a countdown from 2; 14 codewords, of which a change of rate takes six, so that there is room for one and for one back; a client that writes 24 or 25 at any moment |
| `MCReaderSync` | Does the signal come back after jumps and losses, without outliers or wrong stamps? | timecodes 0 to 7 s with steps below and above a second in both directions; frames cut into 30 and 50 bits, silences of 25, noticed or not; starts in error by up to 1; `MAX_UNSYNCED` 1, so that 400 positions hold a jump, the resync and a signal after it |
| `MCTimecode` | Do the digits show the timecode of a second later? | hours, minutes and seconds at every carry of digits and of the day; frames about tens and the ends of a second; five rates that occur (24, 25, 30 and two beside them, 23 and 29) and 1, 7 and 41 for rounding and for a wrong rate; other bits all 0 or all 1 |
| `MCSender` | Do whole timecodes come out, with a pool smaller than a block, when calls may fail? Does the main loop get out? | stamps 40, 41, 57 ns apart, at least half a block at both rates; a second of 40 ns, so that stamps carry within blocks; 3 messages in the pool; up to three blocks, of which any call may fail |
| `MCBridge` | Is what is heard where the tape is, in time, without gaps, and without overlaps but for the error of a start? | a tape of 3 frames a second, a reader that starts at 2 and must find it; two cuts or stops at any frame; 10 messages in the pool, where a second is 12, so that the main loop does wait; capture read up to 1.25 frames late; starts in error by up to 1; 15 frames, five seconds of the tape, in which the signal comes back after two disturbances |
| `MCAudioLink` | Do links and buffers stay consistent? | two SoundIOs, of one and two channels, and two readers: enough to take either end from a third party; no bound, all states |
| `MCCapture` | Are overruns signalled, is the time of capture right, does capture resume? | a device of 3 periods, a reader of 2 or 16384, or of 0, which stops the input; one suspension at any point; 6 ticks, room for an overrun, the recovery and frames after it |
| `MCApp` | Is everything given back once, do callbacks find their objects, does a signal stop the program? | all places of `main`, every call that may fail, two signals at any moment; no other bound |

One more run, `MCReaderStaleStart`, looks for something a comment states, and finds
what the code does instead: `frame_start` is the "Start of frame currentl being
decoded" (`LTC_reader.c:55`), but a discarded codeword leaves it, and the next one
is announced with the start of an older frame.

Other comments and assertions hold only under conditions, and the models say
which:

- "Number of wraps left before accepting" (`LTC_reader.c:47-48`): once a client has
  written `frame-rate`, a wrap may take `frame_wrap` from 0 to 255, and 256
  wraps are needed for the next rate (`SetFrameRate`, `CountDown`).
- "Only send a new timestamp until the previuos one has been sent"
  (`mtc_sender.c:267`): when timecodes come less than half a block apart, the one
  after a skipped timecode is sent inside the block of the one before. `NoOverlap`
  has `WideGaps` for it. At the rate of the tape the case occurs too. After a skipped timecode
  line 268 compares the next stamp with that of the skipped one, and the next is two frames
  after the block began, which is the length of the block; when its start was computed a
  little earlier, it is sent inside the block. `OverlapWithinError` says by how much:
  never by more than the error of a start, `MaxLate`.
- "make sure the timestamp is in the future" (`ltc_to_midi.c:75`): so it is for
  codewords that come back to back (`FreshInFuture`), but after the tape has
  stopped for nearly a second the first codeword has the start of the frame
  before the stop, and its quarter frames are late.
- `g_assert(alsa->parent_instance.sink != NULL)` (`soundio_alsa.c:435`): a
  disconnected stream is still polled, and its next frames end the program
  (`Dispatch`). The program never disconnects.

The type invariants of `IntervalTracker`, `MTCSender`, `AudioLink`, `SoundIOAlsa`,
`TimecodeMath` and `AppLifecycle`, and `FrameLengthModWord16` of `LTCReader` (at the
positions a run reaches, a `guint16` never wraps), are in no run: they are proved,
for all values of the constants. `TypeOK` is in a run where it says more than types: the
width of the countdown (`MCReaderRate`); so do
`PointersOK` of the pointers (`MCZeroCrossings`) and `RegistersOK` of the ring and the
marker (`MCLTCBits`).

The passing properties say what remains true. `LockedStampRight` is the stamp
while codewords arrive back to back: the start computed for this frame and no older one.
`StampsIncrease` is what holds even when they do not: announced starts are a frame
apart, but for their error. `NoOverlap` passes when stamps are half a block apart
(`WideGaps`), which the frames of a stream at constant speed are, and computed stamps but for
their error; `OverlapWithinError` is for these. `NeverSkipsTwo` needs no condition.
`SilenceInvalidates` is about silences in which a buffer ends, as line 415 is.
`NoOutlier` is about two successive announcements with no codeword withheld between them: after giving in
the reader announces whatever it has read.
`WholeTimecodes` has calls that fail: the timecode of which a quarter frame could
not be written breaks off, and no other does.
`InSync` is about blocks sent for codewords back to back at the frame rate of the
tape, until the next cut or stop, and up to the error of a start and a tick; `KeepsComing` waits for the codewords that
`BoundedResync` lets the reader withhold and the second that is added. `NoOverrun`
is where the pool meets the device: were the stamps two seconds ahead, the
sender would wait for the pool longer than the device can capture.
`StopsWhenTold` is for a signal that comes while the loop runs and its lock is
free. One that comes before is lost, as `g_main_loop_run` sets what the handler has
cleared; one that comes while the lock is held hangs the program; and a second one
may find the loop freed.
`SyncWhenSent` starts a word after a sync word: before that the zeros that clear
the sync word (line 693) count as bits, and 14 bits that end like 0xbffc are taken
for another one. `RateFollowsStream` is for a reader whose `frame-rate` no client writes;
`ltc_to_midi` does not write it.

### Fairness

- `IntervalTracker`: the signal goes on (`WF(Signal)`); disturbances may stop
  and need not happen. `EventuallyLocks` needs both kinds of bits: with nothing
  but 0s an estimate of twice a bit would stay, each 0 being half of it. LTC
  has both in every sync word, where the longest run is twelve.
- `MTCSender`: the main thread goes on with its loop, as it makes no other
  blocking call, and the kernel delivers what is due. A failing call is never
  required to happen, only allowed. `MainLoopRuns` follows whatever the size of
  the pool.
- `AppLifecycle`: the main thread goes on (`WF(Main)`), which needs callbacks that
  return (`MainLoopRuns`), and a poll that was woken ends (`WF(WakeUp)`). No event and
  no signal need ever come.
- `SoundIOAlsa`: the main loop goes on dispatching and handling (`WF(Handle)`);
  nothing else runs in the thread for ever. A device that is asked again and
  again to start, or to be prepared after a suspension, succeeds some time: the
  two SF conditions. Without them a broken device keeps capture from resuming,
  which no program can help.
- `CaptureResumes` also needs `PollsPrepared`. After a suspension
  `xrun_recovery` prepares the device and does not start it, although the
  comment at `soundio_alsa.c:306` speaks of starting; `input_io_handler` starts a
  prepared device (line 471), but only if polling it wakes the loop. With
  `PollsPrepared = FALSE` TLC shows capture standing still after a suspension.

The reader's properties are safety properties; `BoundedResync` bounds what would
otherwise be a liveness property by a number of codewords. So do those of
`LTCToMIDI`, in which time passes and `KeepsComing` says by when.

## 4. Proofs

Forty-seven theorems, for all values of the constants allowed by the assumption each
module names (`CrossingAssumption`, `BitsAssumption`, `TrackerAssumption`, `ReaderAssumption`, `SenderAssumption`,
`LinkAssumption`, `CaptureAssumption`, `LifeAssumption`, `MathAssumption`, `BridgeAssumption`): no bound of a
run is assumed. Some theorems about the bridge have hypotheses of their own, see there. TLC evaluates the assumptions on every run.

**`BitStage_proofs`, about `ZeroCrossings`.** All four properties follow from one invariant,
`CrossingInv`. In its part `Searched` the pointer `data` has reached the sample after some number k
of frames (`Reached`): `prev_sample` is then sample k, no transition lies between
`found` and k, and `prev_transition` is the time from the one to the other,
reduced as an unsigned int reduces it. The properties speak of the ends of
buffers and of steps; k makes them inductive. A round of the loop ends at the
least of the places where it may end (`SearchEnd`), which exists because < is
well-founded; at that place are a transition of the signal and none before it.
Reducing first and adding then is adding and then reducing (`ModAdd`). While the
timecode is valid the silence is counted in full: it was shorter than
`TC_MAX_INTERVAL` at the end of the last buffer, and one buffer more does not
make an unsigned int wrap.

**`BitStage_proofs`, about `LTCBits`.** `CodewordIsTheFrame`, `SyncFoundWhenSent` and
`RegistersCorrect` come from one invariant, `BitsInv`, which relates the registers to
the signal. The reader may be out of step: it has then paired the halves
of 1s wrongly, and takes the first half of a 1 for its end. `Heard` are the bits as
it must have them, those sent and in that case a 1 that is only half sent.
`HoldsHeard` says that the latest c bits heard are in the registers: from the top of
`sync_buffer` down to its marker, and from there through the words of the ring, each bit
at the place its age gives (`Age`), for every place of the marker and of the ring. Here c
counts bits since the sync word and never wraps; `bit_count` is c modulo
`CountSize`, so that a count of a frame means that at least a frame is held. A shift
keeps this whether or not the marker drops out (`ShiftHolds`), and clearing the
sync word restarts c at 0. `InStep` is why a half interval that is left over does no
harm: a 0 drops it, and a sync word has a 0. This is the assumption on
`SyncWord`, which 0xbffc meets; without one, a reader out of step would
find it half a bit early.

**`BitStage_proofs`, about `IntervalTracker`.** `TypeCorrect` for any signal, `ReaderStaysLocked` for
any bits at any speed within the limits and at least 7 units to half a bit, where a
sample is 16. `Locked` is inductive by itself because it bounds the correction
together with the distance: within 3 units of a bit the estimate can be
lengthened twice in a row, by 1 and 2, and shortened three times, by 1, 2 and 3,
before an interval of the signal no longer asks for it. The distance alone is
not inductive: a correction left over from far away would throw the estimate out.

**`LTCReader_proofs`.** `TypeCorrect` goes by group of fields: rate, timecode,
position, flags. On top of it each property has an invariant of its own.
- `ResyncIsBounded` by `QuietCounted`. `quiet` counts successive codewords
  without jump and signal; the program counts `out_of_sync_count`. Either `quiet`
  is at most that count, or the reader has just given in (the count is 0) and
  expects the timecode decoded last, so that the next codeword without a jump is
  announced. The bound alone is not inductive: it does not say which of the two.
- `NoOutlierAnnounced` by `InStep`: with `quiet = 0` the expected timecode is
  the announced one.
- `LockedStampIsRight`, `StampsDoIncrease` by `StampInv`: `frame_start` was computed for
  `frame_pos`, `tc_is_valid => frame_pos = sync_pos`, `frame_pos <= sync_pos` and
  `sync_pos + bit_count <= pos`. The last of these makes positions of stamps a frame apart:
  a codeword of 80 counted bits ends at least 80 positions after the sync word
  before it, also where the count has wrapped.
- `RateChangeHasEvidence` by `Countdown`: while a rate is pending, the wraps
  seen and the wraps left are together more than `MIN_FRAME_WRAPS`; also where the
  countdown passes 0, since it then only gets longer.
- `RateDoesFollowStream` by `WrapInv`: while no client has written the rate, a
  run of wraps at a rate other than the accepted one has that rate pending and
  a countdown shorter by its length, and a countdown at 0 means that the pending
  rate is the accepted one.
- `FrameLengthCounted` by `BitsCounted`: `bit_count` is `run_bits` modulo 2^16.

**`MTCSender_proofs`.** `TypeCorrect`, `QuarterFramesEvenlySpaced` (the carry
loses no time: `Time(Advance(s, step)) = Time(s) + step`), `AtMostOneSkipped`
(after a skip `last_timestamp` is the stamp skipped, before which no announced
stamp comes) and, under `WideGaps`, `BlocksDoNotOverlap`, from the evenly spaced
quarter frames. `ListenerHearsWholeTimecodes` is the refinement, also under `WideGaps`:
every `Deliver` is `Start` or `Continue` of `QuarterFrames` and every other step stutters.
For this the message that is due first must be the one that comes next, which is a
statement about all that is on the way, in the output buffer and in the pool
(`ListenerInv`): what was written earlier is due earlier (`InOrder`), none of it was
heard before (`Unheard`), and before and after each message its neighbours in the block
are there, were heard or are still to be written, unless the block is `broken`
(`NoneMissingBefore`, `NoneMissingAfter`). Without the last two an order alone would
let a quarter frame be missing.

**`AudioLink_proofs`.** One inductive invariant, `IInv`: the links in `Linked`
(types, ends agree, none dangles), buffers that fit, and linked readers with the
channels of their source. `ConnectLinks`, `SourceDisconnectLinks` and
`SinkDisconnectLinks` say what the calls do to the pair of ends; every action is
one of them. They hold for any number of objects.

**`SoundIOAlsa_proofs`.** `OverrunsAreSignalled` is inductive together with
`Settled`: a device that is not open has not overrun, nor has one for whose
resume the main thread waits. `CaptureTimesNeverEarly` needs `Aged`: frames
in the buffer and in the device, put one after the other, were each captured
at least as long ago as there are frames after them. `CaptureTimesLateByLag` needs
`Seamless`: a device that runs captures a frame each tick, so that in it "at
least" is "exactly" until it is suspended; and what was known when the delay was
asked for is kept until the clock is read.

**`AppLifecycle_proofs`.** All four properties follow from one invariant,
`Accounts`: a table that says for each place of `main` which fields are set and
which resources are held. It is what one has in mind when reading the clean-up code,
place by place; the properties alone are not inductive, as they say nothing of the
way to where they apply. A signal changes neither fields nor resources, so that
its place does not matter.

**`TimecodeMath_proofs`.** `WordOf4` and `WordOf8` give the digits back from a word
whatever its other bits are. `Decode` then leaves a position between a whole second
and the next one; the digits of seconds, minutes and hours depend only on that
second, and carries and midnight are cases. `ExactAtDivisors` and
`OneBehindAtOthers` come down to what two divisions that round down do to a
frame: nothing when the rate divides 600, at most one otherwise. The numbers are
proved for all of 24 hours and rates 1 to 46, of which the run tries some.

**`LTCToMIDI_proofs`.** The parts meet on one clock, and an action of the whole is one of
the reader, of the sender, or of both at once (`timecode_changed`).
- `OverlapIsBounded` has no hypothesis. `PaceInv`: the next frame is at least a frame after that of
  the latest stamp (`StampInv`); a block at the rate of the tape is two frames long, and either
  `last_timestamp` is its end, or the timecode between was skipped and the next frame begins after it
  (`SendInv`, `IdleInv`). Each of these is off by `MaxLate` at most, and the errors do not add up, as
  every start is computed from the clock and not from the one before.
- `InSyncWhenInFuture`: `TellInv` says of a block sent with a fresh start at the rate of the tape
  that it names the frame that began at its `ideal` stamp, which is the sum of the tape's position,
  the reader's start, and the second added to both (`StartTells`). A fresh start was computed for the position at
  which the reader is (`FreshStart`). Each message is due at the quarter frame it is the piece of,
  or up to `MaxLate` after it (`MessageTells`). `OnTimeInv`: it is in the pool before that, and the
  clock passes it by less than a `TICK`.
- `FreshInFutureAtRate` and `NoOverrunAtRate` bound how long the sender waits for the pool. A message that
  does not fit finds `PoolSize` messages in the pool. Ideal places of messages are a quarter of a
  frame apart (`OrderInv`): they are multiples of 10, so that an error below 10 (`SmallLate`)
  does not change in which order two are. By a pigeonhole argument
  (`EarliestOfMany`) the first of them is due `PoolSize` quarter frames before the one that
  waits (`WaitingLag`). The latter is due at most a second and three quarter frames after
  the position of the reader, and the error of its start. Therefore the clock is less than `PoolLag` ahead of the
  position, or, when the thread does not wait, less than `ReadLag` (`LagInv`). What is fresh starts
  at the position and is due a second after it (`InTimeInv`).
- `KeepsKnownRate`: `Misread` counts the wraps that speak for another rate. Each is the doing of a
  cut or stop (`RateInv`), so that `MIN_FRAME_WRAPS` of them are one too few for the countdown.
- `QuarterFramesKeepComing` joins two chains. `RunInv`: after a cut the reader counts codewords out of step,
  gives in, and then announces each (`BoundedResync` in time instead of codewords). `BlockInv`: the
  blocks announced then follow one another without a gap (`LastInv`, `CoverInv`): a timecode is skipped only
  where the block before still lasts when the next frame begins. Each quarter frame of the
  latest block is heard, on the way or still to be written (`GapInv`, `CompleteInv`), and the clock
  does not pass the next of them by more than its error (`KeepInv`).

The hypotheses, each of them named in the module:

| hypothesis | says | met by the program |
|---|---|---|
| `WholeFractions` | 600 fractions of a second are a whole number for a frame | at 24, 25 and 30 frames a second |
| `LagBelowSecond` | `ReadLag` and `PoolLag` are at most a second | the pool holds 100 messages (`mtc_sender.c:136`), so that `PoolLag` is 460 bits of 2400 at 30 frames, 60 of 2000 at 25, and the error of a start and a tick; a codeword is read within a second of its capture, less a frame and a tick: a period is a tenth of a second (`PERIOD_TIME`), and a full buffer of the reader, 16384 frames, a third at 48 kHz |
| `SmallLag` | they are at most what the device holds | it holds a second (`BUFFER_TIME`, `soundio_alsa.c:526`), so that this is the same |
| `SmallLate` | a start is computed with an error of less than 10 bits, an eighth of a frame | 4 ms at 30 frames, 5 at 25: when the device reports its delay to the sample, what is left is the time between `snd_pcm_delay` and reading the clock (`CaptureTimesLateByLag` of `SoundIOAlsa`), a sample and a microsecond; not when it reports whole periods, or another process runs in between for so long |
| `AtRate` | all blocks so far were sent at the rate of the tape | follows from the next |
| `KnownRate` | the reader starts at that rate, and there are at most `MIN_FRAME_WRAPS` cuts and stops | the reader starts at 25 (`LTC_reader.c:178`), and `MIN_FRAME_WRAPS` is 3 (line 16): a tape of 25 frames with at most three cuts and stops |

`MCBridge` meets all of them but `KnownRate`, as its reader has to find the rate.
`BridgeInTime` is the sum: on a tape of the rate the reader starts with, `FreshInFuture`, `NoOverrun`,
`InSync` and `KeepsComing` hold together.

Only model-checked:

- `EventuallyLocks`, `MainLoopRuns`, `CaptureResumes` and `StopsWhenTold`, which are liveness
  properties: fairness and ENABLED are out of reach of the prover.
- What the bridge does while the reader still takes a wrong frame rate: there `FreshInFuture`,
  `InSync`, `KeepsComing` and, with a buffer of one second, `NoOverrun` are checked in
  `MCBridge` only, which starts at a wrong rate. A theorem needs a bound for the
  blocks of a wrong rate, which overlap (a block at 2 frames a second is twice as long
  as one at 4, and stamps stay as close), so that neither the order of the pool nor the
  end of a block, on which the present proofs rest, is what they need.

## 5. Not modelled

- **The bits in `LTCReader`.** It takes from the bit stage the number of bits a call
  consumes and whether they end in a sync word, and lets both be anything. A
  codeword with any fields stands for a misread one.
- **Playback** (the output half of `soundio_alsa.c`): it mirrors capture and is
  never set up by the program; no source with a buffer exists in the repository.
- **Hardware and software parameters** of the device: a negotiation with ALSA
  without state of the program's own.
- **GObject**: dispatch through interfaces, registration, properties that only
  report a field. Signals that report a change of a field next to its
  assignment (`frame-rate-changed`, `userbits-changed`, `valid`).
- **`audio_buffer.h`** is implemented nowhere. Build files and options.
- **Drop frame.** The code ignores the flag on the tape and sends no drop frame
  rate; `TimecodeMath` has the flag among the other bits.
- A written `frame-rate` of 0, by which the next codeword divides.
- **Handlers that call back** into the reader from inside `timecode-changed`, or a
  second handler, which would see the time moved by the first: the program has
  one handler, which does neither.
- **The input side of the sender** (`io_check`, `io_dispatch`): the client is opened
  for output, and nothing it reads changes state.

## 6. Plan

Done, in the order of importance: the decision whether and when a timecode is
announced (`LTCReader`), what is sent for it (`MTCSender`, `QuarterFrames`), the
pointers all of it runs over (`AudioLink`), where the time comes from
(`SoundIOAlsa`), the bits (`LTCBits`, `IntervalTracker`, `ZeroCrossings`), the digits
(`TimecodeMath`), the program around it (`AppLifecycle`) and the whole of it on one
clock (`LTCToMIDI`).

The theorems state all safety properties of the parts, and of the whole those that hold while
the reader has the frame rate of the tape, from the first block or from where it
starts. What is left is the phase before: that blocks of a wrong rate, which overlap, are
neither late nor wait for the pool longer than the device holds, and that the phase ends
(`RateFollowsStream` for the reader on the clock of the bridge).

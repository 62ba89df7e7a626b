---------------------------- MODULE SoundIOAlsa ----------------------------
(***************************************************************************)
(* Capture with SoundIOAlsa: the input half of soundio_alsa.c, driven by a *)
(* reader as its sink (sink_request_read of LTC_reader.c).                 *)
(*                                                                         *)
(* The main loop polls the PCM device and dispatches input_io_handler,     *)
(* which makes several calls to ALSA one after the other.  The device runs *)
(* on its own between any two of them: it captures frames, overruns when   *)
(* nobody reads them, and is suspended with the machine.                   *)
(*                                                                         *)
(* A frame of the model is a period of the device, the least number of     *)
(* frames it reports (avail_min, line 668), and clock counts periods.  A   *)
(* message logged with G_LOG_LEVEL_ERROR ends the program.                 *)
(***************************************************************************)
EXTENDS Integers, Sequences

CONSTANTS
  BufferSize,     \* frames the device holds before it overruns
  Capacities,     \* values a client writes to "buffer-len"
  MayFail,        \* may calls to ALSA fail?
  PollsPrepared,  \* does a device that is prepared poll as readable?
  MaxSuspends,    \* bound: times the machine is suspended
  MaxTime         \* bound: latest time considered

ASSUME CaptureAssumption ==
  /\ BufferSize \in Nat \ {0}
  /\ Capacities \subseteq Nat
  /\ MayFail \in BOOLEAN
  /\ PollsPrepared \in BOOLEAN
  /\ MaxSuspends \in Nat
  /\ MaxTime \in Nat

VARIABLES
  pc,              \* where the main thread is
  input_running,   \* of SoundIOCommon: are the descriptors polled?
  sink,            \* is a reader connected?
  buffer_capacity, \* of the reader
  chunk,           \* frames of the buffer being decoded
  delay            \* what decode_frames is told of their age

ioVars == <<pc, input_running, sink, buffer_capacity, chunk, delay>>

VARIABLES
  pcm,             \* external: state of the PCM device
  device,          \* external: frames it holds, oldest first
  clock            \* external: time

deviceVars == <<pcm, device, clock>>

(* History of the run, read by properties only.  A frame is identified     *)
(* with the time of its capture.                                           *)
VARIABLES
  delay_time,  \* when the delay was asked for
  ran,         \* was the device running then?
  overruns,    \* overruns of the device
  signalled,   \* times "overrun" was emitted
  suspends     \* times the machine was suspended

historyVars == <<delay_time, ran, overruns, signalled, suspends>>

vars == <<ioVars, deviceVars, historyVars>>

-----------------------------------------------------------------------------
(* Before sound_io_alsa_new.                                               *)
Init ==
  /\ pc = "new"
  /\ input_running = FALSE
  /\ sink = FALSE
  /\ buffer_capacity = 16384
  /\ chunk = << >>
  /\ delay = 0
  /\ pcm = "closed"
  /\ device = << >>
  /\ clock = 0
  /\ delay_time = 0
  /\ ran = FALSE
  /\ overruns = 0
  /\ signalled = 0
  /\ suspends = 0

Abort ==
  /\ pc' = "aborted"
  /\ UNCHANGED <<input_running, sink, buffer_capacity, chunk, delay, deviceVars>>

(* snd_pcm_start, which the program does not insist on.                    *)
Start == pcm' = "RUNNING" \/ (MayFail /\ pcm' = "PREPARED")

(* sound_io_alsa_new for input only.                                       *)
New ==
  /\ pc = "new"
  /\ pc' = "created"
  /\ input_running' = TRUE
  /\ Start
  /\ UNCHANGED <<sink, buffer_capacity, chunk, delay, device, clock, historyVars>>

(* A call of alsa_setup, setup_hw_params or setup_sw_params fails, or the  *)
(* device has no such rate: each logs an error, which ends the program     *)
(* before the FALSE they return is looked at.                              *)
NewFails == MayFail /\ pc = "new" /\ Abort /\ UNCHANGED historyVars

(* The link to the reader; main makes it before it runs the loop.          *)
Connect ==
  /\ pc \in {"created", "loop"}
  /\ pc' = "loop"
  /\ sink' = TRUE
  /\ UNCHANGED <<input_running, buffer_capacity, chunk, delay, deviceVars,
                 historyVars>>

(* A client takes the reader away, or the reader is finalized.             *)
Disconnect ==
  /\ pc = "loop"
  /\ sink' = FALSE
  /\ UNCHANGED <<pc, input_running, buffer_capacity, chunk, delay, deviceVars,
                 historyVars>>

(* A client writes "buffer-len" of the reader.                             *)
SetBufferLen(length) ==
  /\ pc = "loop"
  /\ buffer_capacity' = length
  /\ UNCHANGED <<pc, input_running, sink, chunk, delay, deviceVars, historyVars>>

(* sound_io_alsa_finalize, outside of the handler.                         *)
Finalize ==
  /\ pc \in {"created", "loop"}
  /\ \/ /\ pc' = "gone"
        /\ sink' = FALSE
        /\ pcm' = "closed"
        /\ device' = << >>
        /\ UNCHANGED <<input_running, buffer_capacity, chunk, delay, clock>>
     \/ MayFail /\ Abort
  /\ UNCHANGED historyVars

-----------------------------------------------------------------------------
(* Recovery, xrun_recovery.                                                *)

(* The signal, and the mutant that source_read does not emit it.           *)
SignalInHandler == signalled' = IF pc = "handler" THEN signalled + 1 ELSE signalled
SignalOverrun == signalled' = signalled + 1

(* -EPIPE: the device is prepared and, as it captures, started.            *)
RecoverOverrun ==
  /\ pcm = "XRUN"
  /\ SignalOverrun
  /\ \/ /\ pc' = "loop"
        /\ Start
        /\ device' = << >>
        /\ UNCHANGED <<input_running, sink, buffer_capacity, chunk, delay, clock>>
     \/ MayFail /\ Abort
  /\ UNCHANGED <<delay_time, ran, overruns, suspends>>

(* -ESTRPIPE: the main thread waits until the machine is back.             *)
WaitForResume ==
  /\ pcm = "SUSPENDED"
  /\ pc' = "resume"
  /\ UNCHANGED <<input_running, sink, buffer_capacity, chunk, delay, deviceVars,
                 historyVars>>

(* Any other error is logged as one.                                       *)
OtherError == MayFail /\ Abort /\ UNCHANGED historyVars

(* The device goes on where it was, or has to be prepared; then nothing    *)
(* starts it.                                                              *)
Resume ==
  /\ pc = "resume"
  /\ pc' = "loop"
  /\ \/ pcm' = "RUNNING" /\ UNCHANGED device
     \/ pcm' = "PREPARED" /\ device' = << >>
     \/ MayFail /\ UNCHANGED <<pcm, device>>
  /\ UNCHANGED <<input_running, sink, buffer_capacity, chunk, delay, clock,
                 historyVars>>

-----------------------------------------------------------------------------
(* input_io_handler *)

(* input_io_check: the descriptors show POLLIN, or an error of the device. *)
Readable ==
  \/ pcm = "RUNNING" /\ device # << >>
  \/ pcm \in {"XRUN", "SUSPENDED"}
  \/ pcm = "PREPARED" /\ PollsPrepared

(* input_io_dispatch, up to line 448.                                      *)
Dispatch ==
  /\ pc = "loop" /\ input_running /\ Readable
  /\ \/ /\ sink
        /\ pc' = "handler"
        /\ UNCHANGED <<input_running, sink, buffer_capacity, chunk, delay,
                       deviceVars>>
     \/ ~sink /\ Abort
     \/ MayFail /\ Abort
  /\ UNCHANGED historyVars

(* snd_pcm_avail_update finds frames, lines 450-453.                       *)
RequestRead ==
  /\ pc = "handler"
  /\ pcm = "RUNNING" /\ device # << >>
  /\ pc' = "read"
  /\ UNCHANGED <<input_running, sink, buffer_capacity, chunk, delay, deviceVars,
                 historyVars>>

(* It finds none, lines 469-474, and the mutant that leaves the device.    *)
LeavePrepared ==
  /\ pc = "handler"
  /\ pcm = "PREPARED"
  /\ pc' = "loop"
  /\ UNCHANGED <<input_running, sink, buffer_capacity, chunk, delay, deviceVars,
                 historyVars>>
StartPrepared ==
  /\ pc = "handler"
  /\ pcm = "PREPARED"
  /\ pc' = "loop"
  /\ Start
  /\ UNCHANGED <<input_running, sink, buffer_capacity, chunk, delay, device,
                 clock, historyVars>>

(* It fails, lines 454-467.                                                *)
Recover == pc = "handler" /\ (RecoverOverrun \/ WaitForResume \/ OtherError)

(* source_read, called by the reader for the whole of its buffer.          *)
StopInput ==
  /\ pc = "read"
  /\ buffer_capacity = 0
  /\ input_running' = FALSE
  /\ pc' = "loop"
  /\ UNCHANGED <<sink, buffer_capacity, chunk, delay, deviceVars, historyVars>>

Least(m, n) == IF m < n THEN m ELSE n

Read ==
  /\ pc = "read"
  /\ buffer_capacity > 0
  /\ pcm = "RUNNING"
  /\ LET length == Least(buffer_capacity, Len(device))
     IN  /\ chunk' = SubSeq(device, 1, length)
         /\ device' = SubSeq(device, length + 1, Len(device))
  /\ pc' = "delay"
  /\ UNCHANGED <<input_running, sink, buffer_capacity, delay, pcm, clock,
                 historyVars>>

(* snd_pcm_readi fails, lines 499-513.                                     *)
ReadFails ==
  /\ pc = "read" /\ buffer_capacity > 0
  /\ RecoverOverrun \/ WaitForResume \/ OtherError

-----------------------------------------------------------------------------
(* source_pipe_length: 0 while the device does not run.                    *)
PipeLength == IF pcm = "RUNNING" THEN Len(device) ELSE 0

(* Line 447 of LTC_reader.c, and the mutants that forget the frames read,  *)
(* or ask for the pipe length before they are read.                        *)
ForgetRead(length) == length
AskBeforeRead(length) == length + 2 * Len(chunk)
DelayOf(length) == length + Len(chunk)

AskDelay ==
  /\ pc = "delay"
  /\ pc' = "decode"
  /\ \/ delay' = DelayOf(PipeLength)
     \/ MayFail /\ delay' = DelayOf(0)
  /\ delay_time' = clock
  /\ ran' = (pcm = "RUNNING" /\ delay' = DelayOf(PipeLength))
  /\ UNCHANGED <<input_running, sink, buffer_capacity, chunk, deviceVars,
                 overruns, signalled, suspends>>

(* decode_frames reads the clock (line 320) and decodes the frames.        *)
Decode ==
  /\ pc = "decode"
  /\ pc' = "loop"
  /\ chunk' = << >>
  /\ UNCHANGED <<input_running, sink, buffer_capacity, delay, deviceVars,
                 historyVars>>

(* The time of capture of the end of frame i, lines 402-413.               *)
WhenOf(i) == clock - (delay - i)

-----------------------------------------------------------------------------
(* The device and the machine.                                             *)
Tick ==
  /\ clock < MaxTime
  /\ clock' = clock + 1
  /\ \/ /\ pcm = "RUNNING" /\ Len(device) < BufferSize
        /\ device' = Append(device, clock')
        /\ UNCHANGED <<pcm, overruns>>
     \/ /\ pcm = "RUNNING" /\ Len(device) = BufferSize
        /\ pcm' = "XRUN"
        /\ overruns' = overruns + 1
        /\ UNCHANGED device
     \/ pcm # "RUNNING" /\ UNCHANGED <<pcm, device, overruns>>
  /\ UNCHANGED <<ioVars, delay_time, ran, signalled, suspends>>

Suspend ==
  /\ pcm = "RUNNING"
  /\ suspends < MaxSuspends
  /\ pcm' = "SUSPENDED"
  /\ suspends' = suspends + 1
  /\ UNCHANGED <<ioVars, device, clock, delay_time, ran, overruns, signalled>>

Handle ==
  \/ Dispatch \/ RequestRead \/ StartPrepared \/ Recover \/ Resume
  \/ StopInput \/ Read \/ ReadFails \/ AskDelay \/ Decode

Client ==
  \/ New \/ NewFails \/ Connect \/ Disconnect \/ Finalize
  \/ \E length \in Capacities : SetBufferLen(length)

Next == Client \/ Handle \/ Tick \/ Suspend

Spec == Init /\ [][Next]_vars

(* The main loop runs on, and ALSA does not fail for ever to start or to   *)
(* prepare the device.                                                     *)
FairSpec ==
  /\ Spec
  /\ WF_vars(Handle)
  /\ SF_vars(StartPrepared /\ pcm' = "RUNNING")
  /\ SF_vars(Resume /\ pcm' # "SUSPENDED")

-----------------------------------------------------------------------------
(* Properties. *)

TypeOK ==
  /\ pc \in {"new", "created", "loop", "handler", "read", "delay", "decode",
             "resume", "gone", "aborted"}
  /\ input_running \in BOOLEAN /\ sink \in BOOLEAN
  /\ buffer_capacity \in Nat
  /\ chunk \in Seq(Nat) /\ device \in Seq(Nat)
  /\ delay \in Nat /\ clock \in Nat /\ delay_time \in Nat
  /\ pcm \in {"closed", "PREPARED", "RUNNING", "XRUN", "SUSPENDED"}
  /\ ran \in BOOLEAN
  /\ overruns \in Nat /\ signalled \in Nat /\ suspends \in Nat

(* The reader never takes a frame for captured before it was, whatever     *)
(* happens to the device between the read, the question for its delay and  *)
(* the reading of the clock.                                               *)
NeverEarly == pc = "decode" => \A i \in 1 .. Len(chunk) : chunk[i] <= WhenOf(i)

(* A device that was running when it was asked for its delay, and was      *)
(* never suspended, has the time of capture of a frame off by the time     *)
(* from that question to the reading of the clock, and by no more, however *)
(* many frames came in meanwhile.                                          *)
LateByLag ==
  pc = "decode" /\ ran /\ suspends = 0 =>
    \A i \in 1 .. Len(chunk) : WhenOf(i) - chunk[i] = clock - delay_time

(* Every overrun is signalled once, whichever of snd_pcm_avail_update and  *)
(* snd_pcm_readi meets it.                                                 *)
OverrunsSignalled ==
  pc \notin {"gone", "aborted"} =>
    overruns = signalled + (IF pcm = "XRUN" THEN 1 ELSE 0)

(* Capture resumes after every overrun and every suspension, if a device   *)
(* that is prepared polls as readable (PollsPrepared), unless the program  *)
(* ends or the input was stopped.                                          *)
CaptureResumes ==
  (input_running /\ pcm # "RUNNING" /\ pc \notin {"new", "created"})
    ~> (pcm = "RUNNING" \/ ~input_running \/ pc \in {"gone", "aborted"})

=============================================================================

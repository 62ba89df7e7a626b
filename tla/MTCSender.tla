----------------------------- MODULE MTCSender -----------------------------
(***************************************************************************)
(* The MTC sender of mtc_sender.c: mtc_sender_send_mtc with output_smpte,  *)
(* and as much of the ALSA sequencer as the program sees of it.            *)
(*                                                                         *)
(* mtc_sender_send_mtc runs in the main loop.  It writes the eight quarter *)
(* frames of a timecode into the output buffer of the client, one by one,  *)
(* and drains the buffer into the pool of the kernel, whose queue delivers *)
(* each message when it is due.  The kernel runs on its own, between any   *)
(* two steps of the program.  Draining blocks while the pool is full, and  *)
(* with it the main loop: no timecode is handled in the meantime.          *)
(*                                                                         *)
(* The value of a timecode is abstracted to its number, block.  Times are  *)
(* seconds and nanoseconds, with NSEC nanoseconds to a second.             *)
(***************************************************************************)
EXTENDS Integers, Sequences, FiniteSets

CONSTANTS
  NSEC,        \* nanoseconds of a second
  FrameRates,  \* frame rates the reader may report
  Gaps,        \* time from one announced stamp to the next
  PoolSize,    \* messages the kernel accepts (line 136)
  MayFail,     \* may snd_seq_event_output and snd_seq_drain_output fail?
  MaxWhen      \* bound: latest stamp considered

(* tv_usec * 1000 is below 10^9; the reader reports no frame rate 0 unless *)
(* a client sets it; its stamps increase.                                  *)
ASSUME SenderAssumption ==
  /\ NSEC \in Nat \ {0}
  /\ FrameRates \subseteq Nat \ {0}
  /\ Gaps \subseteq Nat \ {0}
  /\ PoolSize \in Nat \ {0}
  /\ MayFail \in BOOLEAN
  /\ MaxWhen \in Nat

VARIABLES
  pc,              \* "idle", or "send" inside output_smpte
  last_timestamp,  \* of struct _MTCSender
  stamp,           \* due time of the next quarter frame
  time_step,       \* time between quarter frames
  qf,              \* quarter frames written so far
  output_buffer,   \* external: messages of the client not yet drained
  pool             \* external: messages the kernel holds

senderVars == <<pc, last_timestamp, stamp, time_step, qf>>
alsaVars == <<output_buffer, pool>>

VARIABLES
  last_when,  \* environment: the stamp announced last, in nanoseconds
  now,        \* due time of the message delivered last
  block,      \* number of the timecode being sent
  block_end,  \* end of the last quarter frame written
  skipped,    \* timecodes skipped since the last one sent
  broken,     \* timecodes of which a quarter frame could not be written
  heard       \* what a listener received last

historyVars == <<last_when, now, block, block_end, skipped, broken, heard>>

vars == <<senderVars, alsaVars, historyVars>>

-----------------------------------------------------------------------------
(* Stamps, struct snd_seq_real_time.                                       *)

Stamp(t) == [tv_sec |-> t \div NSEC, tv_nsec |-> t % NSEC]
Time(s) == s.tv_sec * NSEC + s.tv_nsec

(* Line 268, also the order of the queue of the kernel.                    *)
Before(s, t) ==
  \/ s.tv_sec < t.tv_sec
  \/ s.tv_sec = t.tv_sec /\ s.tv_nsec < t.tv_nsec

(* frame_length / 4 of line 204, with the frame length of line 272.        *)
QuarterFrame(rate) == (NSEC \div rate) \div 4

(* Lines 250-254, and the mutant that forgets to carry into the seconds.   *)
LoseSecond(s, step) == [s EXCEPT !.tv_nsec = (@ + step) % NSEC]
Advance(s, step) ==
  IF s.tv_nsec + step > NSEC
  THEN [tv_sec |-> s.tv_sec + 1, tv_nsec |-> s.tv_nsec + step - NSEC]
  ELSE [s EXCEPT !.tv_nsec = @ + step]

(* mtc_sender_new, on success: g_source_new clears the struct.             *)
Init ==
  /\ pc = "idle"
  /\ last_timestamp = Stamp(0)
  /\ stamp = Stamp(0)
  /\ time_step = 0
  /\ qf = 0
  /\ output_buffer = << >>
  /\ pool = {}
  /\ last_when = 0
  /\ now = 0
  /\ block = 0
  /\ block_end = 0
  /\ skipped = 0
  /\ broken = {}
  /\ heard = [block |-> 0, piece |-> 7]

-----------------------------------------------------------------------------
(* mtc_sender_send_mtc, called with stamp when in nanoseconds.             *)

(* The test of lines 268-270, and the mutant without it.                   *)
AlwaysDue(s) == TRUE
Due(s) == Before(last_timestamp, s)

(* Line 278, and the mutant that keeps the stamp of the last timecode sent *)
(* when one is skipped.                                                    *)
KeepLast(s) == UNCHANGED last_timestamp
RememberLast(s) == last_timestamp' = s

(* The timecode is sent, lines 271-272 up to the loop of output_smpte.     *)
StartBlock(when, rate) ==
  /\ pc = "idle"
  /\ Due(Stamp(when))
  /\ pc' = "send"
  /\ stamp' = Stamp(when)
  /\ time_step' = QuarterFrame(rate)
  /\ qf' = 0
  /\ last_when' = when
  /\ block' = block + 1
  /\ skipped' = 0
  /\ UNCHANGED <<last_timestamp, alsaVars, now, block_end, broken, heard>>

(* The timecode is skipped.                                                *)
SkipBlock(when) ==
  /\ pc = "idle"
  /\ ~Due(Stamp(when))
  /\ RememberLast(Stamp(when))
  /\ last_when' = when
  /\ skipped' = skipped + 1
  /\ UNCHANGED <<pc, stamp, time_step, qf, alsaVars, now, block, block_end,
                 broken, heard>>

(* The main thread leaves output_smpte, with or without an error.          *)
Leave ==
  /\ pc' = "idle"
  /\ last_timestamp' = stamp
  /\ UNCHANGED <<stamp, time_step, qf, alsaVars, last_when, now, block,
                 block_end, skipped, heard>>

Return == Leave /\ UNCHANGED broken

(* One round of the loop, lines 234-255.                                   *)
WriteQuarterFrame ==
  /\ pc = "send" /\ qf < 8
  /\ output_buffer' = Append(output_buffer,
                             [at |-> stamp, block |-> block, piece |-> qf])
  /\ stamp' = Advance(stamp, time_step)
  /\ qf' = qf + 1
  /\ block_end' = Time(stamp')
  /\ UNCHANGED <<pc, last_timestamp, time_step, pool, last_when, now, block,
                 skipped, broken, heard>>

(* snd_seq_event_output fails, line 249: the quarter frames written so far *)
(* stay in the output buffer.                                              *)
WriteFails ==
  /\ MayFail /\ pc = "send" /\ qf < 8
  /\ Leave
  /\ broken' = broken \union {block}

(* Room in the pool for one message, and the mutant that waits until all   *)
(* of the output buffer fits.                                              *)
RoomForAll == Cardinality(pool) + Len(output_buffer) <= PoolSize
Room == Cardinality(pool) < PoolSize

(* snd_seq_drain_output, line 257, moves one message as soon as there is   *)
(* room, ...                                                               *)
DrainMessage ==
  /\ pc = "send" /\ qf = 8
  /\ output_buffer # << >>
  /\ Room
  /\ pool' = pool \union {Head(output_buffer)}
  /\ output_buffer' = Tail(output_buffer)
  /\ UNCHANGED <<senderVars, historyVars>>

(* ... returns when all are moved ...                                      *)
Drained == pc = "send" /\ qf = 8 /\ output_buffer = << >> /\ Return

(* ... or fails and keeps the rest.                                        *)
DrainFails == MayFail /\ pc = "send" /\ qf = 8 /\ Return

-----------------------------------------------------------------------------
(* The kernel delivers the message that is due first; of several due at    *)
(* the same time the one it was given first.                               *)
DueFirst(m) ==
  \A other \in pool \ {m} :
    \/ Before(m.at, other.at)
    \/ /\ m.at = other.at
       /\ \/ m.block < other.block
          \/ m.block = other.block /\ m.piece < other.piece

Deliver ==
  \E m \in pool :
    /\ DueFirst(m)
    /\ pool' = pool \ {m}
    /\ now' = IF now < Time(m.at) THEN Time(m.at) ELSE now
    /\ heard' = [block |-> m.block, piece |-> m.piece]
    /\ UNCHANGED <<senderVars, output_buffer, last_when, block, block_end,
                   skipped, broken>>

-----------------------------------------------------------------------------
(* A timecode is announced, with a stamp that is not in the past: the      *)
(* application has moved it a second ahead.                                *)
SendMtc(when, rate) ==
  /\ when <= MaxWhen
  /\ now <= when
  /\ StartBlock(when, rate) \/ SkipBlock(when)

SendLoop ==
  \/ WriteQuarterFrame \/ WriteFails
  \/ DrainMessage \/ Drained \/ DrainFails

Next ==
  \/ \E gap \in Gaps, rate \in FrameRates : SendMtc(last_when + gap, rate)
  \/ SendLoop
  \/ Deliver

Spec == Init /\ [][Next]_vars

(* The main thread runs on, whether or not an ALSA call fails, and the     *)
(* kernel delivers what is due.                                            *)
FairSpec ==
  /\ Spec
  /\ WF_vars(WriteQuarterFrame \/ DrainMessage \/ Drained)
  /\ WF_vars(Deliver)

-----------------------------------------------------------------------------
(* Properties. *)

StampType == [tv_sec : Nat, tv_nsec : 0 .. NSEC]
Messages == [at : StampType, block : Nat, piece : 0 .. 7]

(* Types of the sender.  A stamp may name NSEC nanoseconds: line 251 asks  *)
(* for more before it carries.                                             *)
TypeOK ==
  /\ pc \in {"idle", "send"}
  /\ last_timestamp \in StampType
  /\ stamp \in StampType
  /\ time_step \in 0 .. NSEC
  /\ qf \in 0 .. 8
  /\ output_buffer \in Seq(Messages)
  /\ pool \subseteq Messages
  /\ last_when \in Nat /\ now \in Nat
  /\ block \in Nat /\ block_end \in Nat /\ skipped \in Nat
  /\ broken \subseteq Nat
  /\ heard \in [block : Nat, piece : 0 .. 7]

(* The quarter frames of a timecode are due at equal distances from its    *)
(* stamp: carrying at line 251, one nanosecond late, loses no time.        *)
EvenlySpaced == pc = "send" => Time(stamp) = last_when + qf * time_step

(* Of two successive timecodes at most one is skipped: line 278 remembers  *)
(* the stamp of a timecode it skips, so that the next one is later.        *)
NeverSkipsTwo == skipped <= 1

(* Every announced stamp is at least half a block after the one before it, *)
(* as frames at a constant speed are.  Their computed starts may miss it   *)
(* by their error: see OverlapWithinError of LTCToMIDI.                    *)
WideGaps == \A gap \in Gaps, rate \in FrameRates : 4 * QuarterFrame(rate) <= gap

(* A timecode is sent only when the quarter frames of the one before it    *)
(* are over.  The test of lines 268-270 ensures it as long as timecodes    *)
(* are announced half a block apart (WideGaps).  Line 267 says it without  *)
(* this condition: "Only send a new timestamp until the previuos one has   *)
(* been sent".                                                             *)
NoOverlap == [][block' # block => block_end <= last_when']_vars

(* A listener receives whole timecodes in order, under WideGaps, but for   *)
(* those of which a quarter frame could not be written (line 249): what    *)
(* fails in one timecode spoils no other, and a drain that fails (line     *)
(* 257) delays the rest of its timecode and loses none of it.              *)
Listener == INSTANCE QuarterFrames
              WITH block <- heard.block, piece <- heard.piece
WholeTimecodes == Listener!Spec

(* The main loop gets out of output_smpte, however small the pool is.      *)
MainLoopRuns == (pc = "send") ~> (pc = "idle")

=============================================================================

---------------------------- MODULE TimecodeMath ----------------------------
(***************************************************************************)
(* What becomes of one timecode on its way from the tape to a listener:    *)
(* decode_frames of LTC_reader.c takes it out of the words of a codeword   *)
(* as a time position, timecode_changed of ltc_to_midi.c moves it a second *)
(* ahead, and output_smpte of mtc_sender.c writes it as the digits of      *)
(* eight quarter frame messages.                                           *)
(***************************************************************************)
EXTENDS Integers

CONSTANTS
  Hours, Minutes, Seconds, Frames,  \* timecodes on the tape
  Rates,                            \* frame rates the reader has found
  OtherBits                         \* what the other bits of a word may be

(* A frame number is at most 45, three tens and fifteen, so that the rate  *)
(* found is at most 46.                                                    *)
ASSUME MathAssumption ==
  /\ Hours \subseteq 0 .. 23
  /\ Minutes \subseteq 0 .. 59
  /\ Seconds \subseteq 0 .. 59
  /\ Frames \subseteq 0 .. 39
  /\ Rates \subseteq 1 .. 46
  /\ OtherBits \subseteq 0 .. 15

VARIABLES
  tape,        \* external: the timecode on the tape
  other,       \* external: the user bits and flags in its words
  frame_rate,  \* of the reader
  stage,       \* how far the timecode has come
  tc,          \* time position
  digits       \* data of the quarter frame messages

vars == <<tape, other, frame_rate, stage, tc, digits>>

TIME_POSITION_FRACTIONS == 600
SECOND == TIME_POSITION_FRACTIONS
MINUTE == TIME_POSITION_FRACTIONS * 60
HOUR == TIME_POSITION_FRACTIONS * 3600

Timecodes ==
  [hour : Hours, min : Minutes, sec : Seconds, frame : Frames]

Init ==
  /\ tape \in Timecodes
  /\ other \in OtherBits
  /\ frame_rate \in Rates
  /\ stage = "tape"
  /\ tc = 0
  /\ digits = [i \in 0 .. 7 |-> 0]

-----------------------------------------------------------------------------
(* A word of the codeword: units in bits 0-3, tens from bit 8, and of a    *)
(* tens digit of `size' values the bits above it up to bit 11.             *)
Word(number, size) ==
  (number % 10) + 16 * other
    + 256 * ((number \div 10) + size * (other % (16 \div size))) + 4096 * other

Units(word) == word % 16

(* & 0x07 and & 0x03; a mutant takes the drop frame flag along.            *)
Tens(word) == (word \div 256) % 8
FrameTens(word) == (word \div 256) % 4
HourTens(word) == (word \div 256) % 4

(* Lines 364-365 of LTC_reader.c, and a mutant that divides first.         *)
PositionRounded(hour, min, sec, frame) ==
  ((hour * 60 + min) * 60 + sec) * TIME_POSITION_FRACTIONS
    + frame * (TIME_POSITION_FRACTIONS \div frame_rate)
Position(hour, min, sec, frame) ==
  ((((hour * 60 + min) * 60 + sec) * frame_rate + frame)
    * TIME_POSITION_FRACTIONS) \div frame_rate

Decode ==
  /\ stage = "tape"
  /\ stage' = "decoded"
  /\ LET frame == Word(tape.frame, 4)
         sec == Word(tape.sec, 8)
         min == Word(tape.min, 8)
         hour == Word(tape.hour, 4)
     IN tc' = Position(Units(hour) + HourTens(hour) * 10,
                       Units(min) + Tens(min) * 10,
                       Units(sec) + Tens(sec) * 10,
                       Units(frame) + FrameTens(frame) * 10)
  /\ UNCHANGED <<tape, other, frame_rate, digits>>

timecode_changed ==
  /\ stage = "decoded"
  /\ stage' = "ahead"
  /\ tc' = tc + 600
  /\ UNCHANGED <<tape, other, frame_rate, digits>>

-----------------------------------------------------------------------------
(* Lines 208-215 of mtc_sender.c: each field without the units of the next *)
(* larger one.  The mutant knows no end of the day.                        *)
FrameNumber == ((tc - (tc \div SECOND) * SECOND) * frame_rate) \div SECOND
SecondNumber == (tc \div SECOND) - (tc \div MINUTE) * 60
MinuteNumber == (tc \div MINUTE) - (tc \div HOUR) * 60
HourOfRun == tc \div HOUR
HourNumber == (tc \div HOUR) % 24

Type ==
  IF frame_rate = 24 THEN 0 ELSE IF frame_rate = 25 THEN 2 ELSE 6

(* Line 225 ors the type to the upper bit of an hour below 32.             *)
Send ==
  /\ stage = "ahead"
  /\ stage' = "sent"
  /\ digits' = [i \in 0 .. 7 |->
       CASE i = 0 -> FrameNumber % 16
         [] i = 1 -> FrameNumber \div 16
         [] i = 2 -> SecondNumber % 16
         [] i = 3 -> SecondNumber \div 16
         [] i = 4 -> MinuteNumber % 16
         [] i = 5 -> MinuteNumber \div 16
         [] i = 6 -> HourNumber % 16
         [] i = 7 -> (HourNumber \div 16) + Type]
  /\ UNCHANGED <<tape, other, frame_rate, tc>>

Next == Decode \/ timecode_changed \/ Send

Spec == Init /\ [][Next]_vars

-----------------------------------------------------------------------------
(* What a listener makes of the eight messages.                            *)
Shown ==
  [hour |-> digits[6] + 16 * (digits[7] % 2),
   min |-> digits[4] + 16 * digits[5],
   sec |-> digits[2] + 16 * digits[3],
   frame |-> digits[0] + 16 * digits[1]]

(* The timecode one second after the one on the tape, and n frames back.   *)
SecondLater(n) ==
  [hour |-> IF tape.sec # 59 \/ tape.min # 59 THEN tape.hour
            ELSE IF tape.hour = 23 THEN 0 ELSE tape.hour + 1,
   min |-> IF tape.sec # 59 THEN tape.min
           ELSE IF tape.min = 59 THEN 0 ELSE tape.min + 1,
   sec |-> IF tape.sec = 59 THEN 0 ELSE tape.sec + 1,
   frame |-> tape.frame - n]

FrameInSecond == tape.frame < frame_rate

-----------------------------------------------------------------------------
(* Properties. *)

TypeOK ==
  /\ tape \in Timecodes /\ other \in OtherBits /\ frame_rate \in Rates
  /\ stage \in {"tape", "decoded", "ahead", "sent"}
  /\ tc \in Nat
  /\ digits \in [0 .. 7 -> 0 .. 15]

(* The digits are always a time of day, also when the reader takes the     *)
(* rate of the tape to be less than it is.                                 *)
AlwaysATime ==
  stage = "sent" =>
    /\ Shown.hour \in 0 .. 23 /\ Shown.min \in 0 .. 59
    /\ Shown.sec \in 0 .. 59 /\ Shown.frame \in 0 .. frame_rate - 1

(* At the rates of SMPTE, and all others that divide 600, nothing is lost: *)
(* a listener is shown the timecode of one second after the tape's, past   *)
(* minutes, hours and midnight, and is told the rates that MTC has.        *)
ShownExactly ==
  stage = "sent" /\ FrameInSecond /\ 600 % frame_rate = 0 =>
    /\ Shown = SecondLater(0)
    /\ frame_rate = 24 => digits[7] \div 2 = 0
    /\ frame_rate = 25 => digits[7] \div 2 = 1
    /\ frame_rate = 30 => digits[7] \div 2 = 3

(* At other rates, to which noise may lead the reader, both divisions      *)
(* round down: the frame shown is at most one behind, and never in the     *)
(* second before.                                                          *)
OneFrameBehind ==
  stage = "sent" /\ FrameInSecond =>
    \E n \in {0, 1} : Shown = SecondLater(n)

=============================================================================

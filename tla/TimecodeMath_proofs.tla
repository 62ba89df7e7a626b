------------------------ MODULE TimecodeMath_proofs -------------------------
(***************************************************************************)
(* Proofs of the properties of TimecodeMath for every timecode of the day, *)
(* every frame rate from 1 to 46 and all other bits of the codeword.       *)
(***************************************************************************)
EXTENDS TimecodeMath, TLAPS

(***************************************************************************)
(* Digits in the words of a codeword.                                      *)
(***************************************************************************)
LEMMA WordOf4 ==
  ASSUME NEW n \in 0 .. 39, other \in 0 .. 15
  PROVE  /\ Units(Word(n, 4)) + FrameTens(Word(n, 4)) * 10 = n
         /\ Units(Word(n, 4)) + HourTens(Word(n, 4)) * 10 = n
<1> DEFINE u == n % 10
           t == n \div 10
           o == other % 4
<1>1. u \in 0 .. 9 /\ t \in 0 .. 3 /\ n = 10 * t + u
  OBVIOUS
<1>2. o \in 0 .. 3
  OBVIOUS
<1>3. Word(n, 4) = u + 16 * other + 256 * (t + 4 * o) + 4096 * other
  BY DEF Word
<1> HIDE DEF u, t, o
<1>4. Units(Word(n, 4)) = u
  BY <1>1, <1>2, <1>3 DEF Units
<1>5. Word(n, 4) \div 256 = t + 4 * o + 16 * other
  BY <1>1, <1>2, <1>3
<1>6. (Word(n, 4) \div 256) % 4 = t
  BY <1>1, <1>2, <1>5
<1> QED
  BY <1>1, <1>4, <1>6 DEF FrameTens, HourTens

LEMMA WordOf8 ==
  ASSUME NEW n \in 0 .. 59, other \in 0 .. 15
  PROVE  Units(Word(n, 8)) + Tens(Word(n, 8)) * 10 = n
<1> DEFINE u == n % 10
           t == n \div 10
           o == other % 2
<1>1. u \in 0 .. 9 /\ t \in 0 .. 5 /\ n = 10 * t + u
  OBVIOUS
<1>2. o \in 0 .. 1
  OBVIOUS
<1>3. Word(n, 8) = u + 16 * other + 256 * (t + 8 * o) + 4096 * other
  BY DEF Word
<1> HIDE DEF u, t, o
<1>4. Units(Word(n, 8)) = u
  BY <1>1, <1>2, <1>3 DEF Units
<1>5. Word(n, 8) \div 256 = t + 8 * o + 16 * other
  BY <1>1, <1>2, <1>3
<1>6. (Word(n, 8) \div 256) % 8 = t
  BY <1>1, <1>2, <1>5
<1> QED
  BY <1>1, <1>4, <1>6 DEF Tens

(***************************************************************************)
(* Division.                                                               *)
(***************************************************************************)
LEMMA DivUnique ==
  ASSUME NEW a \in Nat, NEW b \in Nat \ {0}, NEW q \in Nat,
         q * b <= a, a < (q + 1) * b
  PROVE  a \div b = q
<1> DEFINE r == a - q * b
<1>1. r \in 0 .. b - 1 /\ a = q * b + r
  OBVIOUS
<1>2. a \div b \in Nat /\ (a \div b) * b <= a /\ a < ((a \div b) + 1) * b
  OBVIOUS
<1> DEFINE d == a \div b
<1>3. d \in Nat /\ d * b <= a /\ a < (d + 1) * b
  BY <1>2
<1> HIDE DEF d
<1>4. ASSUME d < q PROVE FALSE
  <2>1. d + 1 <= q
    BY <1>3, <1>4
  <2>2. (d + 1) * b <= q * b
    BY <2>1, <1>3
  <2> QED
    BY <2>2, <1>3
<1>5. ASSUME q < d PROVE FALSE
  <2>1. q + 1 <= d
    BY <1>3, <1>5
  <2>2. (q + 1) * b <= d * b
    BY <2>1, <1>3
  <2> QED
    BY <2>2, <1>3
<1>6. d = q
  BY <1>3, <1>4, <1>5
<1> QED
  BY <1>6 DEF d

LEMMA DivBounds ==
  ASSUME NEW a \in Nat, NEW b \in Nat \ {0}
  PROVE  /\ a \div b \in Nat
         /\ (a \div b) * b <= a
         /\ a < (a \div b) * b + b
  OBVIOUS

PartOf(f, r) == (f * 600) \div r
PositionOf(n, f, r) == ((n * r + f) * 600) \div r

(* A position is the whole seconds and the part of a second that the frame *)
(* number stands for, rounded down.                                        *)
LEMMA PositionSplit ==
  ASSUME NEW n \in Nat, NEW f \in Nat, NEW r \in Nat \ {0}
  PROVE  PositionOf(n, f, r) = n * 600 + PartOf(f, r)
<1> DEFINE q == (f * 600) \div r
<1>1. q \in Nat /\ q * r <= f * 600 /\ f * 600 < q * r + r
  BY DivBounds
<1> HIDE DEF q
<1>2. (n * r + f) * 600 = (n * 600) * r + f * 600
  OBVIOUS
<1>3. (n * 600 + q) * r = (n * 600) * r + q * r
  BY <1>1
<1>4. (n * 600 + q + 1) * r = (n * 600) * r + q * r + r
  BY <1>1
<1>5. ((n * r + f) * 600) \div r = n * 600 + q
  BY <1>1, <1>2, <1>3, <1>4, DivUnique
<1> QED
  BY <1>5 DEF q, PositionOf, PartOf

(***************************************************************************)
(* The fields of a time position.                                          *)
(***************************************************************************)
LEMMA FieldsOfPosition ==
  ASSUME tc \in Nat, frame_rate \in 1 .. 46
  PROVE  /\ FrameNumber \in 0 .. frame_rate - 1
         /\ SecondNumber \in 0 .. 59
         /\ MinuteNumber \in 0 .. 59
         /\ HourNumber \in 0 .. 23
<1>1. /\ tc \div SECOND \in Nat
      /\ tc \div MINUTE = (tc \div SECOND) \div 60
      /\ tc \div HOUR = (tc \div MINUTE) \div 60
  BY DEF SECOND, MINUTE, HOUR, TIME_POSITION_FRACTIONS
<1> DEFINE s == tc \div SECOND
           m == tc \div MINUTE
           h == tc \div HOUR
           rest == tc - s * SECOND
<1>2. s \in Nat /\ m = s \div 60 /\ h = m \div 60
  BY <1>1
<1>3. rest \in 0 .. 599
  BY DEF SECOND, TIME_POSITION_FRACTIONS
<1>4. FrameNumber = (rest * frame_rate) \div 600
  BY DEF FrameNumber, SECOND, TIME_POSITION_FRACTIONS
<1>5. SecondNumber = s - m * 60 /\ MinuteNumber = m - h * 60
  BY DEF SecondNumber, MinuteNumber
<1>6. HourNumber = h % 24
  BY DEF HourNumber
<1> HIDE DEF s, m, h, rest
<1>7. rest * frame_rate \in Nat /\ rest * frame_rate <= 599 * frame_rate
  BY <1>3
<1>8. (rest * frame_rate) \div 600 \in 0 .. frame_rate - 1
  BY <1>7
<1>9. m \in Nat /\ h \in Nat
  BY <1>2
<1>10. s - m * 60 \in 0 .. 59
  BY <1>2
<1>11. m - h * 60 \in 0 .. 59
  BY <1>2, <1>9
<1>12. h % 24 \in 0 .. 23
  BY <1>9
<1> QED
  BY <1>4, <1>5, <1>6, <1>8, <1>10, <1>11, <1>12

(* What is written as two digits is read again.                            *)
LEMMA TwoDigits ==
  ASSUME NEW n \in 0 .. 59
  PROVE  /\ n % 16 \in 0 .. 15
         /\ n \div 16 \in 0 .. 15
         /\ (n % 16) + 16 * (n \div 16) = n
  OBVIOUS

(***************************************************************************)
(* The inductive invariant: what the time position is at each stage.       *)
(***************************************************************************)
Whole == (tape.hour * 60 + tape.min) * 60 + tape.sec
Part == PartOf(tape.frame, frame_rate)

Types ==
  /\ tape \in Timecodes /\ other \in OtherBits /\ frame_rate \in Rates
  /\ stage \in {"tape", "decoded", "ahead", "sent"}
  /\ tc \in Nat
  /\ digits \in [0 .. 7 -> 0 .. 15]

Positions ==
  /\ stage = "decoded" => tc = Whole * 600 + Part
  /\ stage \in {"ahead", "sent"} => tc = (Whole + 1) * 600 + Part

Sent ==
  stage = "sent" =>
    /\ Shown = [hour |-> HourNumber, min |-> MinuteNumber,
                sec |-> SecondNumber, frame |-> FrameNumber]
    /\ digits[7] \div 2 = Type \div 2

IInv == Types /\ Positions /\ Sent

IsSecond(n, h, m, s) == n = (h * 60 + m) * 60 + s

LEMMA SecondOfDay ==
  \A n, h, m, s :
    h \in 0 .. 23 /\ m \in 0 .. 59 /\ s \in 0 .. 59 /\ IsSecond(n, h, m, s)
      => n \in Nat /\ n <= 86399
  BY DEF IsSecond

LEMMA Ranges ==
  ASSUME Types
  PROVE  /\ tape = [hour |-> tape.hour, min |-> tape.min, sec |-> tape.sec,
                    frame |-> tape.frame]
         /\ tape.hour \in 0 .. 23 /\ tape.min \in 0 .. 59
         /\ tape.sec \in 0 .. 59 /\ tape.frame \in 0 .. 39
         /\ frame_rate \in 1 .. 46 /\ other \in 0 .. 15
         /\ Whole \in Nat /\ Whole <= 86399
         /\ Part \in Nat
<1>1. /\ tape = [hour |-> tape.hour, min |-> tape.min, sec |-> tape.sec,
                 frame |-> tape.frame]
      /\ tape.hour \in Hours /\ tape.min \in Minutes
      /\ tape.sec \in Seconds /\ tape.frame \in Frames
  BY DEF Types, Timecodes
<1>2. /\ tape.hour \in 0 .. 23 /\ tape.min \in 0 .. 59
      /\ tape.sec \in 0 .. 59 /\ tape.frame \in 0 .. 39
      /\ frame_rate \in 1 .. 46 /\ other \in 0 .. 15
  BY <1>1, MathAssumption DEF Types
<1>3. Whole \in Nat /\ Whole <= 86399
  <2>1. IsSecond(Whole, tape.hour, tape.min, tape.sec)
    BY DEF Whole, IsSecond
  <2>2. PICK h \in 0 .. 23, m \in 0 .. 59, s \in 0 .. 59 :
          h = tape.hour /\ m = tape.min /\ s = tape.sec
    BY <1>2
  <2> QED
    BY <1>2, <2>1, <2>2, SecondOfDay
<1>4. Part \in Nat
  BY <1>2, DivBounds DEF Part, PartOf
<1> QED
  BY <1>1, <1>2, <1>3, <1>4

(* The products of lines 364-365 and 212 of the two files are unsigned     *)
(* numbers of 32 bits, so that none wraps around.                          *)
LEMMA FitsUnsigned ==
  ASSUME Types
  PROVE  /\ (Whole * frame_rate + tape.frame) * 600 < 65536 * 65536
         /\ 599 * frame_rate < 65536 * 65536
<1>1. /\ Whole \in Nat /\ Whole <= 86399
      /\ frame_rate \in 1 .. 46 /\ tape.frame \in 0 .. 39
  BY Ranges
<1>2. Whole * frame_rate <= 86399 * 46
  <2>1. Whole * frame_rate <= 86399 * frame_rate
    BY <1>1
  <2> QED
    BY <1>1, <2>1
<1> QED
  BY <1>1, <1>2

LEMMA InitIInv == Init => IInv
<1> SUFFICES ASSUME Init PROVE IInv
  OBVIOUS
<1>1. Types
  BY DEF Init, Types
<1>2. Positions /\ Sent
  BY DEF Init, Positions, Sent
<1> QED
  BY <1>1, <1>2 DEF IInv

LEMMA DecodeIInv ==
  ASSUME IInv, Decode
  PROVE  IInv'
<1>1. Types /\ stage = "tape" /\ stage' = "decoded"
  BY DEF IInv, Decode
<1>2. UNCHANGED <<tape, other, frame_rate, digits>>
  BY DEF Decode
<1>3. tc' = Position(tape.hour, tape.min, tape.sec, tape.frame)
  <2>1. /\ Units(Word(tape.hour, 4)) + HourTens(Word(tape.hour, 4)) * 10 = tape.hour
        /\ Units(Word(tape.frame, 4)) + FrameTens(Word(tape.frame, 4)) * 10
             = tape.frame
    BY <1>1, Ranges, WordOf4
  <2>2. /\ Units(Word(tape.min, 8)) + Tens(Word(tape.min, 8)) * 10 = tape.min
        /\ Units(Word(tape.sec, 8)) + Tens(Word(tape.sec, 8)) * 10 = tape.sec
    BY <1>1, Ranges, WordOf8
  <2> QED
    BY <2>1, <2>2 DEF Decode
<1>4. tc' = Whole * 600 + Part
  <2>1. tc' = PositionOf(Whole, tape.frame, frame_rate)
    BY <1>3 DEF Position, Whole, TIME_POSITION_FRACTIONS, PositionOf
  <2>2. Whole \in Nat /\ tape.frame \in Nat /\ frame_rate \in Nat \ {0}
    BY <1>1, Ranges
  <2> QED
    BY <2>1, <2>2, PositionSplit DEF Part
<1>5. tc' \in Nat
  BY <1>1, <1>4, Ranges
<1>6. Types'
  BY <1>1, <1>2, <1>5 DEF Types
<1>7. Positions' /\ Sent'
  BY <1>1, <1>2, <1>4 DEF Positions, Sent, Whole, Part
<1> QED
  BY <1>6, <1>7 DEF IInv

LEMMA AheadIInv ==
  ASSUME IInv, timecode_changed
  PROVE  IInv'
<1>1. /\ Types /\ stage = "decoded" /\ stage' = "ahead"
      /\ tc = Whole * 600 + Part /\ tc' = tc + 600
  BY DEF IInv, Positions, timecode_changed
<1>2. UNCHANGED <<tape, other, frame_rate, digits>>
  BY DEF timecode_changed
<1>3. tc' = (Whole + 1) * 600 + Part /\ tc' \in Nat
  BY <1>1, Ranges
<1>4. Types'
  BY <1>1, <1>2, <1>3 DEF Types
<1>5. Positions' /\ Sent'
  BY <1>1, <1>2, <1>3 DEF Positions, Sent, Whole, Part
<1> QED
  BY <1>4, <1>5 DEF IInv

LEMMA SendIInv ==
  ASSUME IInv, Send
  PROVE  IInv'
<1>1. /\ Types /\ stage = "ahead" /\ stage' = "sent"
      /\ tc = (Whole + 1) * 600 + Part
  BY DEF IInv, Positions, Send
<1>2. UNCHANGED <<tape, other, frame_rate, tc>>
  BY DEF Send
<1>3. /\ FrameNumber \in 0 .. 59 /\ SecondNumber \in 0 .. 59
      /\ MinuteNumber \in 0 .. 59 /\ HourNumber \in 0 .. 23
  <2>1. tc \in Nat /\ frame_rate \in 1 .. 46
    BY <1>1, Ranges DEF Types
  <2> QED
    BY <2>1, FieldsOfPosition
<1>4. UNCHANGED <<FrameNumber, SecondNumber, MinuteNumber, HourNumber, Type>>
  BY <1>2
  DEF FrameNumber, SecondNumber, MinuteNumber, HourNumber, Type
<1>5. Type \in {0, 2, 6}
  BY DEF Type
<1>6. /\ digits' = [i \in 0 .. 7 |-> digits'[i]]
      /\ digits'[0] = FrameNumber % 16 /\ digits'[1] = FrameNumber \div 16
      /\ digits'[2] = SecondNumber % 16 /\ digits'[3] = SecondNumber \div 16
      /\ digits'[4] = MinuteNumber % 16 /\ digits'[5] = MinuteNumber \div 16
      /\ digits'[6] = HourNumber % 16
      /\ digits'[7] = (HourNumber \div 16) + Type
  BY DEF Send
<1>7. /\ digits'[0] \in 0 .. 15 /\ digits'[1] \in 0 .. 15
      /\ digits'[0] + 16 * digits'[1] = FrameNumber
  BY <1>3, <1>6, TwoDigits
<1>8. /\ digits'[2] \in 0 .. 15 /\ digits'[3] \in 0 .. 15
      /\ digits'[2] + 16 * digits'[3] = SecondNumber
  BY <1>3, <1>6, TwoDigits
<1>9. /\ digits'[4] \in 0 .. 15 /\ digits'[5] \in 0 .. 15
      /\ digits'[4] + 16 * digits'[5] = MinuteNumber
  BY <1>3, <1>6, TwoDigits
<1>10. /\ digits'[6] \in 0 .. 15 /\ digits'[7] \in 0 .. 15
       /\ digits'[6] + 16 * (digits'[7] % 2) = HourNumber
       /\ digits'[7] \div 2 = Type \div 2
  <2>1. HourNumber % 16 \in 0 .. 15 /\ HourNumber \div 16 \in {0, 1}
    BY <1>3
  <2>2. (HourNumber % 16) + 16 * (HourNumber \div 16) = HourNumber
    BY <1>3
  <2>3. /\ ((HourNumber \div 16) + Type) % 2 = HourNumber \div 16
        /\ ((HourNumber \div 16) + Type) \div 2 = Type \div 2
    BY <1>5, <2>1
  <2>4. (HourNumber \div 16) + Type \in 0 .. 15
    BY <1>5, <2>1
  <2> QED
    BY <1>6, <2>1, <2>2, <2>3, <2>4
<1>11. \A i \in 0 .. 7 : digits'[i] \in 0 .. 15
  BY <1>7, <1>8, <1>9, <1>10
<1>12. digits' \in [0 .. 7 -> 0 .. 15]
  BY <1>6, <1>11
<1>13. Types'
  BY <1>1, <1>2, <1>12 DEF Types
<1>14. Positions'
  BY <1>1, <1>2 DEF Positions, Whole, Part
<1>15. Sent'
  BY <1>4, <1>7, <1>8, <1>9, <1>10 DEF Sent, Shown
<1> QED
  BY <1>13, <1>14, <1>15 DEF IInv

LEMMA NextIInv == IInv /\ [Next]_vars => IInv'
<1> SUFFICES ASSUME IInv, [Next]_vars PROVE IInv'
  OBVIOUS
<1>1. CASE UNCHANGED vars
  BY <1>1
  DEF vars, IInv, Types, Positions, Sent, Shown, Whole, Part, FrameNumber,
      SecondNumber, MinuteNumber, HourNumber, Type
<1> QED
  BY <1>1, DecodeIInv, AheadIInv, SendIInv DEF Next

LEMMA Invariance == Spec => []IInv
  BY InitIInv, NextIInv, PTL DEF Spec

(* Types. *)
THEOREM TypeCorrect == Spec => []TypeOK
<1>1. IInv => TypeOK
  BY DEF IInv, Types, TypeOK
<1> QED
  BY <1>1, Invariance, PTL

(* The digits are a time of day, whatever the reader takes the rate for.   *)
THEOREM TimeOfDay == Spec => []AlwaysATime
<1>1. ASSUME IInv PROVE AlwaysATime
  <2> SUFFICES ASSUME stage = "sent" PROVE AlwaysATime
    BY DEF AlwaysATime
  <2>1. Types /\ tc \in Nat /\ frame_rate \in 1 .. 46
    BY <1>1, Ranges DEF IInv, Types
  <2>2. /\ FrameNumber \in 0 .. frame_rate - 1 /\ SecondNumber \in 0 .. 59
        /\ MinuteNumber \in 0 .. 59 /\ HourNumber \in 0 .. 23
    BY <2>1, FieldsOfPosition
  <2>3. /\ Shown.hour = HourNumber /\ Shown.min = MinuteNumber
        /\ Shown.sec = SecondNumber /\ Shown.frame = FrameNumber
    BY <1>1 DEF IInv, Sent
  <2> QED
    BY <2>2, <2>3 DEF AlwaysATime
<1> QED
  BY <1>1, Invariance, PTL

(***************************************************************************)
(* What is shown.                                                          *)
(***************************************************************************)

(* The fields of a position of whole seconds and a part of a second.       *)
LEMMA FieldsOfSum ==
  ASSUME Whole \in Nat, Part \in 0 .. 599, tc = (Whole + 1) * 600 + Part
  PROVE  /\ FrameNumber = (Part * frame_rate) \div 600
         /\ SecondNumber = (Whole + 1) - ((Whole + 1) \div 60) * 60
         /\ MinuteNumber
              = ((Whole + 1) \div 60) - ((Whole + 1) \div 3600) * 60
         /\ HourNumber = ((Whole + 1) \div 3600) % 24
<1>1. tc \div SECOND = Whole + 1
  BY DEF SECOND, TIME_POSITION_FRACTIONS
<1>2. tc \div MINUTE = (Whole + 1) \div 60
  BY DEF MINUTE, TIME_POSITION_FRACTIONS
<1>3. tc \div HOUR = (Whole + 1) \div 3600
  BY DEF HOUR, TIME_POSITION_FRACTIONS
<1>4. tc - (Whole + 1) * SECOND = Part /\ SECOND = 600
  BY DEF SECOND, TIME_POSITION_FRACTIONS
<1>5. FrameNumber = (Part * frame_rate) \div 600
  BY <1>1, <1>4 DEF FrameNumber
<1> QED
  BY <1>1, <1>2, <1>3, <1>5 DEF SecondNumber, MinuteNumber, HourNumber

(* The fields of the next second of a time of day.                         *)
LEMMA NextSecond ==
  ASSUME tape.hour \in 0 .. 23, tape.min \in 0 .. 59, tape.sec \in 0 .. 59
  PROVE  /\ (Whole + 1) - ((Whole + 1) \div 60) * 60 = SecondLater(0).sec
         /\ ((Whole + 1) \div 60) - ((Whole + 1) \div 3600) * 60
              = SecondLater(0).min
         /\ ((Whole + 1) \div 3600) % 24 = SecondLater(0).hour
<1> DEFINE h == tape.hour
           m == tape.min
           s == tape.sec
           n == Whole + 1
<1>1. h \in 0 .. 23 /\ m \in 0 .. 59 /\ s \in 0 .. 59
  OBVIOUS
<1>2. n = (h * 60 + m) * 60 + s + 1
  BY DEF Whole
<1>3. /\ SecondLater(0).sec = IF s = 59 THEN 0 ELSE s + 1
      /\ SecondLater(0).min
           = IF s # 59 THEN m ELSE IF m = 59 THEN 0 ELSE m + 1
      /\ SecondLater(0).hour
           = IF s # 59 \/ m # 59 THEN h ELSE IF h = 23 THEN 0 ELSE h + 1
  BY DEF SecondLater
<1> HIDE DEF h, m, s, n
<1> SUFFICES /\ n - (n \div 60) * 60 = SecondLater(0).sec
             /\ (n \div 60) - (n \div 3600) * 60 = SecondLater(0).min
             /\ (n \div 3600) % 24 = SecondLater(0).hour
  BY DEF n
<1>4. CASE s # 59
  <2>1. n \div 60 = h * 60 + m /\ n \div 3600 = h
    BY <1>1, <1>2, <1>4
  <2> QED
    BY <1>1, <1>2, <1>3, <1>4, <2>1
<1>5. CASE s = 59 /\ m # 59
  <2>1. n \div 60 = h * 60 + m + 1 /\ n \div 3600 = h
    BY <1>1, <1>2, <1>5
  <2> QED
    BY <1>1, <1>2, <1>3, <1>5, <2>1
<1>6. CASE s = 59 /\ m = 59
  <2>1. n \div 60 = (h + 1) * 60 /\ n \div 3600 = h + 1
    BY <1>1, <1>2, <1>6
  <2> QED
    BY <1>1, <1>2, <1>3, <1>6, <2>1
<1> QED
  BY <1>4, <1>5, <1>6

(* Rounded down twice, a frame number loses at most one, and nothing when  *)
(* the rate divides 600.                                                   *)
LEMMA FrameRounds ==
  ASSUME tape.frame \in Nat, frame_rate \in 1 .. 46, tape.frame < frame_rate
  PROVE  /\ Part \in 0 .. 599
         /\ (Part * frame_rate) \div 600
              \in {tape.frame, tape.frame - 1} \intersect Nat
         /\ 600 % frame_rate = 0 => (Part * frame_rate) \div 600 = tape.frame
<1> DEFINE p == Part
           f == tape.frame
           r == frame_rate
           t == p * r
<1>1. f \in Nat /\ r \in 1 .. 46 /\ f < r
  OBVIOUS
<1>2. p = (f * 600) \div r
  BY DEF Part, PartOf
<1>3. p \in Nat /\ p * r <= f * 600 /\ f * 600 < p * r + r
  <2>1. f * 600 \in Nat /\ r \in Nat \ {0}
    BY <1>1
  <2> HIDE DEF f, r, p
  <2> QED
    BY <1>2, <2>1, DivBounds
<1> HIDE DEF p, f, r
<1>4. ASSUME 600 % r = 0 PROVE p * r = f * 600
  <2> DEFINE k == 600 \div r
  <2>1. k \in Nat /\ k * r = 600
    BY <1>1, <1>4
  <2> HIDE DEF k
  <2>2. f * 600 = (f * k) * r
    BY <1>1, <2>1
  <2>3. f * k \in Nat /\ (f * k + 1) * r = (f * k) * r + r
    BY <1>1, <2>1
  <2>4. p = f * k
    BY <1>1, <1>2, <2>2, <2>3, DivUnique
  <2> QED
    BY <2>2, <2>4
<1>5. t \in Nat /\ t <= f * 600 /\ f * 600 < t + r
  BY <1>1, <1>3
<1>6. p <= 599
  <2>1. SUFFICES ASSUME p >= 600 PROVE FALSE
    BY <1>3
  <2>2. 600 * r <= p * r
    BY <1>1, <1>3, <2>1
  <2> QED
    BY <1>1, <1>3, <2>2
<1> HIDE DEF t
<1>7. t \div 600 \in {f, f - 1} /\ t \div 600 \in Nat
  BY <1>1, <1>5
<1>8. t = f * 600 => t \div 600 = f
  BY <1>1, <1>5
<1>9. p \in 0 .. 599
  BY <1>3, <1>6
<1>10. 600 % r = 0 => t \div 600 = f
  BY <1>4, <1>8 DEF t
<1> QED
  BY <1>7, <1>9, <1>10 DEF p, f, r, t

LEMMA ShownIs ==
  ASSUME IInv, stage = "sent", FrameInSecond
  PROVE  /\ Shown.hour = SecondLater(0).hour
         /\ Shown.min = SecondLater(0).min
         /\ Shown.sec = SecondLater(0).sec
         /\ Shown.frame \in {tape.frame, tape.frame - 1} \intersect Nat
         /\ 600 % frame_rate = 0 => Shown.frame = tape.frame
<1>1. /\ Types /\ tc = (Whole + 1) * 600 + Part
      /\ Shown = [hour |-> HourNumber, min |-> MinuteNumber,
                  sec |-> SecondNumber, frame |-> FrameNumber]
  BY DEF IInv, Positions, Sent
<1>2. /\ tape.hour \in 0 .. 23 /\ tape.min \in 0 .. 59
      /\ tape.sec \in 0 .. 59 /\ tape.frame \in Nat
      /\ frame_rate \in 1 .. 46 /\ tape.frame < frame_rate /\ Whole \in Nat
  BY <1>1, Ranges DEF FrameInSecond
<1>3. /\ Part \in 0 .. 599
      /\ (Part * frame_rate) \div 600
           \in {tape.frame, tape.frame - 1} \intersect Nat
      /\ 600 % frame_rate = 0 => (Part * frame_rate) \div 600 = tape.frame
  BY <1>2, FrameRounds
<1>4. /\ FrameNumber = (Part * frame_rate) \div 600
      /\ SecondNumber = (Whole + 1) - ((Whole + 1) \div 60) * 60
      /\ MinuteNumber = ((Whole + 1) \div 60) - ((Whole + 1) \div 3600) * 60
      /\ HourNumber = ((Whole + 1) \div 3600) % 24
  BY <1>1, <1>2, <1>3, FieldsOfSum
<1>5. /\ (Whole + 1) - ((Whole + 1) \div 60) * 60 = SecondLater(0).sec
      /\ ((Whole + 1) \div 60) - ((Whole + 1) \div 3600) * 60
           = SecondLater(0).min
      /\ ((Whole + 1) \div 3600) % 24 = SecondLater(0).hour
  BY <1>2, NextSecond
<1> QED
  BY <1>1, <1>3, <1>4, <1>5

LEMMA ShownRecord ==
  ASSUME NEW n, Shown.hour = SecondLater(0).hour,
         Shown.min = SecondLater(0).min, Shown.sec = SecondLater(0).sec,
         Shown.frame = tape.frame - n
  PROVE  Shown = SecondLater(n)
  BY DEF Shown, SecondLater

(* At a rate that divides 600 a listener is shown exactly the timecode of  *)
(* one second after the tape's, all day long.                              *)
THEOREM ExactAtDivisors == Spec => []ShownExactly
<1>1. ASSUME IInv PROVE ShownExactly
  <2> SUFFICES ASSUME stage = "sent", FrameInSecond, 600 % frame_rate = 0
               PROVE  /\ Shown = SecondLater(0)
                      /\ frame_rate = 24 => digits[7] \div 2 = 0
                      /\ frame_rate = 25 => digits[7] \div 2 = 1
                      /\ frame_rate = 30 => digits[7] \div 2 = 3
    BY DEF ShownExactly
  <2>1. Types /\ digits[7] \div 2 = Type \div 2
    BY <1>1 DEF IInv, Sent
  <2>2. /\ Shown.hour = SecondLater(0).hour /\ Shown.min = SecondLater(0).min
        /\ Shown.sec = SecondLater(0).sec /\ Shown.frame = tape.frame
    BY <1>1, ShownIs
  <2>3. Shown.frame = tape.frame - 0
    BY <1>1, <2>1, <2>2, Ranges
  <2>4. Shown = SecondLater(0)
    BY <2>2, <2>3, ShownRecord
  <2> QED
    BY <2>1, <2>4 DEF Type
<1> QED
  BY <1>1, Invariance, PTL

(* At any other rate it is shown that timecode or the frame before it.     *)
THEOREM OneBehindAtOthers == Spec => []OneFrameBehind
<1>1. ASSUME IInv PROVE OneFrameBehind
  <2> SUFFICES ASSUME stage = "sent", FrameInSecond
               PROVE  \E n \in {0, 1} :
                        Shown = SecondLater(n)
    BY DEF OneFrameBehind
  <2>1. Types /\ tape.frame \in Nat
    BY <1>1, Ranges DEF IInv
  <2>2. /\ Shown.hour = SecondLater(0).hour /\ Shown.min = SecondLater(0).min
        /\ Shown.sec = SecondLater(0).sec
        /\ Shown.frame \in {tape.frame, tape.frame - 1}
    BY <1>1, ShownIs
  <2>3. PICK n \in {0, 1} : Shown.frame = tape.frame - n
    BY <2>1, <2>2
  <2> QED
    BY <2>1, <2>2, <2>3, ShownRecord
<1> QED
  BY <1>1, Invariance, PTL

=============================================================================

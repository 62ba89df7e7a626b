------------------------------ MODULE LTCBits ------------------------------
(***************************************************************************)
(* The bit stage of the LTC reader: the part of tcdecode in LTC_reader.c   *)
(* that puts bits together from half and full intervals between            *)
(* transitions, finds sync words and takes out the codeword before them,   *)
(* with the count of bits that decode_frames restarts.                     *)
(*                                                                         *)
(* The upper half of sync_buffer is the latest bits, newest at the top.    *)
(* Its lower half takes what drops out of the upper one, down to a marker, *)
(* a 1 below the bits; when the marker drops out the lower half is full    *)
(* and goes to codeword_buffer, a ring of BUFFER_SIZE words.  A sync word  *)
(* is cleared from the upper half, the words before it are put together    *)
(* from the ring at whatever place the marker has reached.                 *)
(*                                                                         *)
(* A register is the function of its bits, the lowest one at 1, so that it *)
(* has the width it has in the code and a shift is one of places.          *)
(*                                                                         *)
(* The signal sends bits as intervals, a 0 as a full one and a 1 as two    *)
(* half ones, and may be disturbed: intervals get lost, divided or come    *)
(* from somewhere else.                                                    *)
(***************************************************************************)
EXTENDS Integers, Sequences

CONSTANTS
  WordBits,     \* bits of a word, 16
  BUFFER_SIZE,  \* words of a frame
  SyncWord,     \* the word that ends a frame
  CountSize     \* values of bit_count, a guint16

Bit == {0, 1}
Places == 1 .. WordBits
Word == [Places -> Bit]
FrameBits == BUFFER_SIZE * WordBits

(* With more values of bit_count than bits in a frame, and a 0 in the sync *)
(* word.                                                                   *)
ASSUME BitsAssumption ==
  /\ WordBits \in Nat \ {0}
  /\ BUFFER_SIZE \in Nat \ {0}
  /\ SyncWord \in Word /\ \E i \in Places : SyncWord[i] = 0
  /\ CountSize \in Nat /\ CountSize > FrameBits

VARIABLES
  half_bit,         \* has the first half of a 1 been received?
  sync_buffer,      \* the latest bits, two words
  codeword_buffer,  \* ring of words before them
  codeword_pos,     \* where the next word goes
  bit_count,        \* bits since the latest sync word
  codeword          \* the frame accepted by this step, or none

registerVars == <<half_bit, sync_buffer, codeword_buffer, codeword_pos,
                  bit_count, codeword>>

VARIABLES
  one_begun,  \* environment: has the first half of a 1 been sent?
  sent,       \* bits sent since the latest disturbance, at most a frame
  received,   \* bits received since the latest sync word, at most a word
  synced      \* was a sync word found by this step?

bitsVars == <<registerVars, one_begun, sent, received, synced>>

Ring == 0 .. BUFFER_SIZE - 1
LongPlaces == 1 .. 2 * WordBits
LongWord == [LongPlaces -> Bit]

(* LTC_reader_init; the ring is cleared with the object.                   *)
BitsInit ==
  /\ half_bit = FALSE
  /\ sync_buffer = [i \in LongPlaces |-> IF i = WordBits + 1 THEN 1 ELSE 0]
  /\ codeword_buffer = [i \in Ring |-> [b \in Places |-> 0]]
  /\ codeword_pos = 0
  /\ bit_count = 0
  /\ codeword = << >>
  /\ one_begun = FALSE
  /\ sent = << >>
  /\ received = 0
  /\ synced = FALSE

-----------------------------------------------------------------------------
(* The registers, as a record while a bit goes through them.               *)

Registers == [sync |-> sync_buffer, ring |-> codeword_buffer, at |-> codeword_pos]

Lower(long) == [i \in Places |-> long[i]]
Upper(long) == [i \in Places |-> long[WordBits + i]]

Shifted(long, bit) ==
  [i \in LongPlaces |-> IF i = 2 * WordBits THEN bit ELSE long[i + 1]]

(* The lower half empty, the marker at its top.                            *)
Marked(long) ==
  [i \in LongPlaces |->
     IF i < WordBits THEN 0 ELSE IF i = WordBits THEN 1 ELSE long[i]]

(* Lines 622-631 for a 1 and 652-660 for a 0, and the mutant that lets the *)
(* position run over the end of the ring.                                  *)
NextPastEnd(at) == at + 1
NextInRing(at) == (at + 1) % BUFFER_SIZE

ShiftIn(r, bit) ==
  LET shifted == Shifted(r.sync, bit)
  IN  IF r.sync[1] = 0
      THEN [sync |-> shifted, ring |-> r.ring, at |-> r.at]
      ELSE [sync |-> Marked(shifted),
            ring |-> [r.ring EXCEPT ![r.at] = Lower(shifted)],
            at   |-> NextInRing(r.at)]

(* Lines 666-692.  The marker is the lowest 1 of the lower half; the bits  *)
(* above it end the last word before the sync word, and each word of the   *)
(* ring gives the end of one and the beginning of the one after.           *)
Marker(long) ==
  CHOOSE p \in Places : long[p] = 1 /\ \A q \in 1 .. p - 1 : long[q] = 0

(* Words back from the position in the ring.                               *)
Back(r, n) == r.ring[(r.at + BUFFER_SIZE - n) % BUFFER_SIZE]

(* The shift counts the marker, and the mutant does not.                   *)
ShiftAboveOnly(long) == Marker(long) - 1
Shift(long) == Marker(long)

(* The word n before the sync word.                                        *)
WordBefore(r, n) ==
  LET shift == Shift(r.sync)
  IN  [b \in Places |->
         IF b <= shift THEN Back(r, n)[WordBits - shift + b]
         ELSE IF n = 1 THEN r.sync[b] ELSE Back(r, n - 1)[b - shift]]

Codeword(r) ==
  [i \in 1 .. BUFFER_SIZE |->
     IF i = BUFFER_SIZE THEN Upper(r.sync) ELSE WordBefore(r, BUFFER_SIZE - i)]

-----------------------------------------------------------------------------
(* One bit, lines 622-698, and lines 331-339 of decode_frames, which       *)
(* restarts the count whether or not it accepts the codeword.              *)

(* Line 693.                                                               *)
SyncCleared(long) ==
  [i \in LongPlaces |-> IF i <= WordBits THEN long[i] ELSE 0]

ReceiveBit(bit) ==
  LET r == ShiftIn(Registers, bit)
      count == (bit_count + 1) % CountSize
  IN  /\ synced' = (Upper(r.sync) = SyncWord)
      /\ codeword_buffer' = r.ring
      /\ \/ /\ synced'
            /\ codeword_pos' = (r.at + 1) % BUFFER_SIZE
            /\ sync_buffer' = SyncCleared(r.sync)
            /\ bit_count' = 0
            /\ codeword' = IF count = FrameBits THEN Codeword(r) ELSE << >>
            /\ received' = 0
         \/ /\ ~synced'
            /\ codeword_pos' = r.at
            /\ sync_buffer' = r.sync
            /\ bit_count' = count
            /\ codeword' = << >>
            /\ received' = IF received < WordBits THEN received + 1 ELSE received

NoBit ==
  /\ synced' = FALSE
  /\ codeword' = << >>
  /\ UNCHANGED <<sync_buffer, codeword_buffer, codeword_pos, bit_count, received>>

(* A half interval, lines 620-634.                                         *)
HalfInterval ==
  /\ half_bit' = ~half_bit
  /\ IF half_bit THEN ReceiveBit(1) ELSE NoBit

(* A full one, lines 651-661: the half of a 1 that came before it is       *)
(* dropped.  The mutant keeps it.                                          *)
KeepHalf == UNCHANGED half_bit
DropHalf == half_bit' = FALSE
FullInterval == DropHalf /\ ReceiveBit(0)

-----------------------------------------------------------------------------
(* The signal.                                                             *)

Latest(bits) ==
  IF Len(bits) > FrameBits THEN Tail(bits) ELSE bits

Zero ==
  /\ ~one_begun
  /\ FullInterval
  /\ sent' = Latest(Append(sent, 0))
  /\ UNCHANGED one_begun

BeginOne ==
  /\ ~one_begun
  /\ HalfInterval
  /\ one_begun' = TRUE
  /\ UNCHANGED sent

EndOne ==
  /\ one_begun
  /\ HalfInterval
  /\ one_begun' = FALSE
  /\ sent' = Latest(Append(sent, 1))

DisturbBits ==
  /\ HalfInterval \/ FullInterval
  /\ sent' = << >>
  /\ one_begun' = FALSE

BitsNext == Zero \/ BeginOne \/ EndOne \/ DisturbBits

BitsSpec == BitsInit /\ [][BitsNext]_bitsVars

-----------------------------------------------------------------------------
(* Properties. *)

(* Types.  The position stays in the ring, and there is a marker, so that  *)
(* the loop of lines 675-678 that looks for it ends: it is in the lower    *)
(* half once a bit has been received.                                      *)
RegistersOK ==
  /\ half_bit \in BOOLEAN
  /\ sync_buffer \in LongWord
  /\ \E p \in 1 .. WordBits + 1 : sync_buffer[p] = 1
  /\ codeword_buffer \in [Ring -> Word]
  /\ codeword_pos \in Ring
  /\ bit_count \in 0 .. CountSize - 1
  /\ codeword = << >> \/ codeword \in [1 .. BUFFER_SIZE -> Word]
  /\ one_begun \in BOOLEAN
  /\ sent \in Seq(Bit) /\ Len(sent) <= FrameBits
  /\ received \in 0 .. WordBits
  /\ synced \in BOOLEAN

(* An accepted codeword is the frame that was sent, word by word and bit   *)
(* by bit, when the frame was sent without a disturbance, whatever was     *)
(* received before it and wherever the marker and the ring stood.  In      *)
(* particular a half interval left over from before the frame does no      *)
(* harm.                                                                   *)
CodewordIsFrame ==
  codeword # << >> /\ Len(sent) = FrameBits =>
    \A i \in 1 .. BUFFER_SIZE, b \in Places :
      codeword[i][b] = sent[(i - 1) * WordBits + b]

EndsInSyncWord(bits) ==
  /\ Len(bits) >= WordBits
  /\ \A b \in Places : bits[Len(bits) - WordBits + b] = SyncWord[b]

(* A sync word is found when it was sent and at no other time, once a word *)
(* of bits was received after the sync word before it.  Earlier the 0s     *)
(* that line 693 leaves in its place count as bits: 14 bits that end like  *)
(* the sync word 0xbffc, which begins with two 0s, are taken for it.       *)
SyncWhenSent ==
  [][received >= WordBits - 1 /\ Len(sent') >= WordBits =>
       (synced' <=> ~one_begun' /\ EndsInSyncWord(sent'))]_bitsVars

=============================================================================

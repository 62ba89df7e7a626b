--------------------------- MODULE BitStage_proofs ---------------------------
(***************************************************************************)
(* Proofs about the bit stage of tcdecode.  First LTCBits, the registers   *)
(* that find sync words and codewords, for words of any width, frames of   *)
(* any length and every sync word with a 0; then IntervalTracker, the      *)
(* estimate that tells half intervals from full ones, for every speed of   *)
(* the signal within the limits, whatever bits are sent; and ZeroCrossings *)
(* for every set of samples, every number of channels, every length of the *)
(* buffers and every width of an unsigned int.                             *)
(***************************************************************************)
EXTENDS LTCBits, IntervalTracker, ZeroCrossings,
        SequenceTheorems, WellFoundedInduction, TLAPS

(***************************************************************************)
(* Arithmetic.                                                             *)
(***************************************************************************)
LEMMA SmallMultiple ==
  ASSUME NEW n \in Nat \ {0}, NEW m \in Int, -n < n * m, n * m < n
  PROVE  m = 0
<1>1. m >= 1 => n * m >= n
  OBVIOUS
<1>2. m <= -1 => n * m <= -n
  OBVIOUS
<1> QED
  BY <1>1, <1>2

(* Quotient and remainder are determined by their ranges.                  *)
LEMMA DivMod ==
  ASSUME NEW n \in Nat \ {0}, NEW x \in Int, NEW r \in 0 .. n - 1
  PROVE  (n * x + r) \div n = x /\ (n * x + r) % n = r
<1> DEFINE a == n * x + r
           q == a \div n
<1>1. a \in Int /\ q \in Int /\ (a % n) \in 0 .. n - 1
  OBVIOUS
<1>2. a = n * q + (a % n)
  BY <1>1
<1>3. n * (q - x) = n * q - n * x
  BY <1>1
<1> HIDE DEF q
<1>4. n * (q - x) = r - (a % n)
  BY <1>1, <1>2, <1>3
<1>5. q - x = 0
  BY <1>1, <1>4, SmallMultiple
<1> QED
  BY <1>1, <1>2, <1>5 DEF q

(* Reducing an addend first changes nothing.                               *)
LEMMA ModAdd ==
  ASSUME NEW n \in Nat \ {0}, NEW x \in Int, NEW y \in Int
  PROVE  ((x % n) + y) % n = (x + y) % n
<1> DEFINE q == x \div n
           s == (x % n) + y
           p == s \div n
           r == s % n
<1>1. q \in Int /\ (x % n) \in Int /\ x = n * q + (x % n)
  OBVIOUS
<1>2. s \in Int
  BY <1>1
<1> HIDE DEF s
<1>3. p \in Int /\ r \in 0 .. n - 1 /\ s = n * p + r
  BY <1>2
<1> HIDE DEF q, p, r
<1>4. x + y = n * q + s
  BY <1>1 DEF s
<1>5. n * (q + p) = n * q + n * p /\ n * q \in Int /\ n * p \in Int
  BY <1>1, <1>3
<1>6. x + y = n * (q + p) + r
  BY <1>2, <1>3, <1>4, <1>5
<1>7. (n * (q + p) + r) % n = r
  <2>1. q + p \in Int
    BY <1>1, <1>3
  <2> QED
    BY <1>3, <2>1, DivMod
<1> QED
  BY <1>6, <1>7 DEF r, s

LEMMA Sizes ==
  /\ WordBits \in Nat /\ WordBits > 0
  /\ BUFFER_SIZE \in Nat /\ BUFFER_SIZE > 0
  /\ CountSize \in Nat \ {0} /\ CountSize > FrameBits
  /\ FrameBits \in Nat /\ FrameBits >= WordBits
<1>1. FrameBits \in Nat /\ FrameBits >= WordBits
  BY BitsAssumption DEF FrameBits
<1> QED
  BY <1>1, BitsAssumption

(* Places in the ring go around once at most.                              *)
LEMMA AroundOnce ==
  ASSUME NEW x \in 0 .. 2 * BUFFER_SIZE - 1
  PROVE  x % BUFFER_SIZE = IF x < BUFFER_SIZE THEN x ELSE x - BUFFER_SIZE
<1>1. BUFFER_SIZE \in Nat \ {0}
  BY Sizes
<1>2. CASE x < BUFFER_SIZE
  <2>1. BUFFER_SIZE * 0 + x = x /\ x \in 0 .. BUFFER_SIZE - 1
    BY <1>1, <1>2
  <2>2. (BUFFER_SIZE * 0 + x) % BUFFER_SIZE = x
    BY <1>1, <2>1, DivMod
  <2> QED
    BY <1>2, <2>1, <2>2
<1>3. CASE x >= BUFFER_SIZE
  <2> DEFINE y == x - BUFFER_SIZE
  <2>1. BUFFER_SIZE * 1 + y = x /\ y \in 0 .. BUFFER_SIZE - 1
    BY <1>1, <1>3
  <2> HIDE DEF y
  <2>2. (BUFFER_SIZE * 1 + y) % BUFFER_SIZE = y
    BY <1>1, <2>1, DivMod
  <2>3. x % BUFFER_SIZE = y
    BY <2>1, <2>2
  <2> QED
    BY <1>1, <1>3, <2>3 DEF y
<1> QED
  BY <1>1, <1>2, <1>3

(***************************************************************************)
(* The registers.  What they hold of a sequence of bits: the newest at the *)
(* top of sync_buffer, older ones down to the marker, then the words of    *)
(* the ring, going back.                                                   *)
(***************************************************************************)
RegisterFile == [sync : LongWord, ring : [Ring -> Word], at : Ring]

(* The marker, which is above the lower half only before the first bit.    *)
MarkedAt(long, p) ==
  /\ p \in 1 .. WordBits + 1
  /\ long[p] = 1
  /\ \A q \in 1 .. p - 1 : long[q] = 0

(* Bit i of a sequence, counted back from the newest, which is bit 0.      *)
Recent(bits, i) == bits[Len(bits) - i]

(* What that is for place b of the word n back in the ring.                *)
Age(p, n, b) == 2 * WordBits - p + n * WordBits - b

(* The latest c bits in the registers are those of a sequence, as far as   *)
(* it goes.                                                                *)
Kept(bits, c) == {i \in Nat : i < c /\ i < Len(bits)}

SyncHolds(long, bits, c, p) ==
  \A j \in p + 1 .. 2 * WordBits :
    2 * WordBits - j \in Kept(bits, c) => long[j] = Recent(bits, 2 * WordBits - j)

RingHolds(r, bits, c, p) ==
  \A n \in 1 .. BUFFER_SIZE - 1, b \in Places :
    Age(p, n, b) \in Kept(bits, c) => Back(r, n)[b] = Recent(bits, Age(p, n, b))

Holds(r, bits, c, p) ==
  /\ MarkedAt(r.sync, p)
  /\ SyncHolds(r.sync, bits, c, p)
  /\ RingHolds(r, bits, c, p)

(* A sequence that continues another by a bit, and may have lost its       *)
(* oldest ones.                                                            *)
Follows(t, s, bit) ==
  \A i \in 0 .. Len(t) - 1 :
    \/ i = 0 /\ Recent(t, i) = bit
    \/ i > 0 /\ i - 1 < Len(s) /\ Recent(t, i) = Recent(s, i - 1)

LEMMA FollowsKept ==
  ASSUME NEW s \in Seq(Bit), NEW t \in Seq(Bit), NEW bit \in Bit,
         NEW c \in Nat, Follows(t, s, bit), NEW i \in Kept(t, c + 1)
  PROVE  \/ i = 0 /\ Recent(t, i) = bit
         \/ i > 0 /\ i - 1 \in Kept(s, c) /\ Recent(t, i) = Recent(s, i - 1)
<1>1. Len(t) \in Nat /\ Len(s) \in Nat
  OBVIOUS
<1>2. i \in 0 .. Len(t) - 1 /\ i < c + 1
  BY <1>1 DEF Kept
<1> QED
  BY <1>1, <1>2 DEF Follows, Kept

LEMMA ShiftedType ==
  ASSUME NEW long \in LongWord, NEW bit \in Bit
  PROVE  /\ Shifted(long, bit) \in LongWord
         /\ Shifted(long, bit)[2 * WordBits] = bit
         /\ \A i \in 1 .. 2 * WordBits - 1 : Shifted(long, bit)[i] = long[i + 1]
<1>1. 2 * WordBits \in LongPlaces
  BY Sizes DEF LongPlaces
<1>2. \A i \in 1 .. 2 * WordBits - 1 :
        i \in LongPlaces /\ i + 1 \in LongPlaces /\ i # 2 * WordBits
  BY Sizes DEF LongPlaces
<1>3. \A i \in LongPlaces : i = 2 * WordBits \/ i \in 1 .. 2 * WordBits - 1
  BY Sizes DEF LongPlaces
<1> QED
  BY <1>1, <1>2, <1>3 DEF Shifted, LongWord

LEMMA HalvesType ==
  ASSUME NEW long \in LongWord
  PROVE  /\ Lower(long) \in Word /\ Upper(long) \in Word
         /\ Marked(long) \in LongWord /\ SyncCleared(long) \in LongWord
<1>1. \A i \in Places : i \in LongPlaces /\ WordBits + i \in LongPlaces
  BY Sizes DEF Places, LongPlaces
<1>2. Lower(long) \in Word /\ Upper(long) \in Word
  BY <1>1 DEF Lower, Upper, Word, LongWord
<1>3. Marked(long) \in LongWord
  BY DEF Marked, LongWord, Bit
<1>4. SyncCleared(long) \in LongWord
  BY DEF SyncCleared, LongWord, Bit
<1> QED
  BY <1>2, <1>3, <1>4

LEMMA NextInRingType ==
  ASSUME NEW at \in Ring
  PROVE  /\ NextInRing(at) \in Ring
         /\ NextInRing(at) = IF at = BUFFER_SIZE - 1 THEN 0 ELSE at + 1
<1>1. at + 1 \in 0 .. 2 * BUFFER_SIZE - 1 /\ at \in 0 .. BUFFER_SIZE - 1
  BY Sizes DEF Ring
<1> DEFINE x == at + 1
<1>2. x % BUFFER_SIZE = IF x < BUFFER_SIZE THEN x ELSE x - BUFFER_SIZE
  BY <1>1, AroundOnce
<1>3. NextInRing(at) = x % BUFFER_SIZE
  BY DEF NextInRing
<1> QED
  BY <1>1, <1>2, <1>3, Sizes DEF Ring

LEMMA BackPlace ==
  ASSUME NEW at \in Ring, NEW n \in 1 .. BUFFER_SIZE
  PROVE  /\ (at + BUFFER_SIZE - n) % BUFFER_SIZE \in Ring
         /\ (at + BUFFER_SIZE - n) % BUFFER_SIZE
              = IF at < n THEN at + BUFFER_SIZE - n ELSE at - n
<1>1. at + BUFFER_SIZE - n \in 0 .. 2 * BUFFER_SIZE - 1 /\ at \in 0 .. BUFFER_SIZE - 1
  BY Sizes DEF Ring
<1> DEFINE x == at + BUFFER_SIZE - n
<1>2. x % BUFFER_SIZE = IF x < BUFFER_SIZE THEN x ELSE x - BUFFER_SIZE
  BY <1>1, AroundOnce
<1> QED
  BY <1>1, <1>2, Sizes DEF Ring

(* The word written last is the first one back, and the others are one     *)
(* further back than before.                                               *)
LEMMA BackAfter ==
  ASSUME NEW r \in RegisterFile, NEW bit \in Bit, r.sync[1] # 0,
         NEW n \in 1 .. BUFFER_SIZE - 1
  PROVE  Back(ShiftIn(r, bit), n)
           = IF n = 1 THEN Lower(Shifted(r.sync, bit)) ELSE Back(r, n - 1)
<1> DEFINE next == NextInRing(r.at)
           low == Lower(Shifted(r.sync, bit))
           after == (next + BUFFER_SIZE - n) % BUFFER_SIZE
<1>1. r.at \in Ring /\ r.ring \in [Ring -> Word] /\ n \in 1 .. BUFFER_SIZE
  BY Sizes DEF RegisterFile
<1>2. next \in Ring /\ next = IF r.at = BUFFER_SIZE - 1 THEN 0 ELSE r.at + 1
  BY <1>1, NextInRingType
<1>3. after \in Ring /\ after = IF next < n THEN next + BUFFER_SIZE - n ELSE next - n
  BY <1>1, <1>2, BackPlace
<1>4. Back(ShiftIn(r, bit), n) = [r.ring EXCEPT ![r.at] = low][after]
  BY DEF ShiftIn, Back
<1> HIDE DEF next, low, after
<1>5. CASE n = 1
  <2>1. after = r.at
    BY <1>1, <1>2, <1>3, <1>5, Sizes DEF Ring
  <2> QED
    BY <1>1, <1>4, <1>5, <2>1 DEF low
<1>6. CASE n # 1
  <2>1. n - 1 \in 1 .. BUFFER_SIZE
    BY <1>6, Sizes
  <2> DEFINE was == (r.at + BUFFER_SIZE - (n - 1)) % BUFFER_SIZE
  <2>2. was = IF r.at < n - 1 THEN r.at + BUFFER_SIZE - (n - 1) ELSE r.at - (n - 1)
    BY <1>1, <2>1, BackPlace
  <2> HIDE DEF was
  <2>3. after = was
    <3>1. /\ BUFFER_SIZE \in Nat /\ n \in 2 .. BUFFER_SIZE - 1
          /\ r.at \in 0 .. BUFFER_SIZE - 1
      BY <1>1, <1>6, Sizes DEF Ring
    <3>2. CASE r.at = BUFFER_SIZE - 1
      BY <1>2, <1>3, <2>2, <3>1, <3>2
    <3>3. CASE r.at # BUFFER_SIZE - 1
      BY <1>2, <1>3, <2>2, <3>1, <3>3
    <3> QED
      BY <3>2, <3>3
  <2>4. after # r.at
    BY <1>1, <1>2, <1>3, <1>6, Sizes DEF Ring
  <2> QED
    BY <1>1, <1>3, <1>4, <1>6, <2>3, <2>4 DEF Back, was
<1> QED
  BY <1>5, <1>6

LEMMA ShiftInType ==
  ASSUME NEW r \in RegisterFile, NEW bit \in Bit
  PROVE  ShiftIn(r, bit) \in RegisterFile
<1>1. r.sync \in LongWord /\ r.ring \in [Ring -> Word] /\ r.at \in Ring
  BY DEF RegisterFile
<1>2. Shifted(r.sync, bit) \in LongWord
  BY <1>1, ShiftedType
<1>3. /\ Marked(Shifted(r.sync, bit)) \in LongWord
      /\ Lower(Shifted(r.sync, bit)) \in Word
  BY <1>2, HalvesType
<1>4. NextInRing(r.at) \in Ring
  BY <1>1, NextInRingType
<1> QED
  BY <1>1, <1>2, <1>3, <1>4 DEF ShiftIn, RegisterFile

LEMMA AgeType ==
  ASSUME NEW p \in 1 .. WordBits + 1, NEW n \in Nat, NEW b \in Places
  PROVE  /\ Age(p, n, b) \in Int
         /\ p > 1 => Age(p - 1, n, b) = Age(p, n, b) + 1
         /\ n > 1 => Age(WordBits, n, b) = Age(1, n - 1, b) + 1
         /\ Age(WordBits, 1, b) = 2 * WordBits - b
<1>1. WordBits \in Nat /\ n * WordBits \in Int /\ b \in Int /\ p \in Int
  BY Sizes DEF Places
<1>2. (n - 1) * WordBits = n * WordBits - WordBits
  BY <1>1
<1> QED
  BY <1>1, <1>2 DEF Age

(* Above the marker a shift moves what the register holds by one place.    *)
LEMMA ShiftedHolds ==
  ASSUME NEW long \in LongWord, NEW bit \in Bit, NEW s \in Seq(Bit),
         NEW t \in Seq(Bit), NEW c \in Nat, NEW p \in 1 .. WordBits + 1,
         SyncHolds(long, s, c, p), Follows(t, s, bit),
         NEW j \in p .. 2 * WordBits, 2 * WordBits - j \in Kept(t, c + 1)
  PROVE  Shifted(long, bit)[j] = Recent(t, 2 * WordBits - j)
<1>1. WordBits \in Nat /\ WordBits > 0 /\ j \in Int /\ j > 0
  BY Sizes
<1> DEFINE i == 2 * WordBits - j
<1>2. \/ i = 0 /\ Recent(t, i) = bit
      \/ i > 0 /\ i - 1 \in Kept(s, c) /\ Recent(t, i) = Recent(s, i - 1)
  BY FollowsKept
<1>3. CASE i = 0
  <2>1. j = 2 * WordBits
    BY <1>1, <1>3
  <2>2. Shifted(long, bit)[2 * WordBits] = bit
    BY ShiftedType
  <2>3. Recent(t, i) = bit
    BY <1>2, <1>3
  <2> QED
    BY <2>1, <2>2, <2>3
<1>4. CASE i > 0
  <2>1. j \in 1 .. 2 * WordBits - 1 /\ j + 1 \in p + 1 .. 2 * WordBits
    BY <1>1, <1>4
  <2>2. 2 * WordBits - (j + 1) = i - 1
    BY <1>1
  <2>3. long[j + 1] = Recent(s, i - 1)
    BY <1>2, <1>4, <2>1, <2>2 DEF SyncHolds
  <2> QED
    BY <1>2, <1>4, <2>1, <2>3, ShiftedType
<1> QED
  BY <1>1, <1>2, <1>3, <1>4

(* A bit that is shifted in is the newest, and everything else is held one *)
(* place further back, wherever the marker is.                             *)
LEMMA ShiftHolds ==
  ASSUME NEW r \in RegisterFile, NEW bit \in Bit, NEW s \in Seq(Bit),
         NEW t \in Seq(Bit), NEW c \in Nat, NEW p, Holds(r, s, c, p),
         Follows(t, s, bit)
  PROVE  \E q \in Places : Holds(ShiftIn(r, bit), t, c + 1, q)
<1> DEFINE shifted == Shifted(r.sync, bit)
           after == ShiftIn(r, bit)
<1>1. r.sync \in LongWord /\ shifted \in LongWord
  BY ShiftedType DEF RegisterFile
<1>2. /\ p \in 1 .. WordBits + 1 /\ r.sync[p] = 1
      /\ \A q \in 1 .. p - 1 : r.sync[q] = 0
      /\ SyncHolds(r.sync, s, c, p) /\ RingHolds(r, s, c, p)
  BY DEF Holds, MarkedAt
<1>3. WordBits \in Nat /\ WordBits > 0
  BY Sizes
<1>4. \A i \in 1 .. 2 * WordBits - 1 : shifted[i] = r.sync[i + 1]
  BY <1>1, ShiftedType
<1>5. \A j \in p .. 2 * WordBits : 2 * WordBits - j \in Kept(t, c + 1)
        => shifted[j] = Recent(t, 2 * WordBits - j)
  BY <1>1, <1>2, ShiftedHolds
<1> HIDE DEF shifted
<1>6. CASE p # 1
  <2>1. r.sync[1] = 0
    BY <1>2, <1>3, <1>6
  <2>2. after.sync = shifted /\ after.ring = r.ring /\ after.at = r.at
    BY <2>1 DEF ShiftIn, shifted
  <2> DEFINE q == p - 1
  <2>3. q \in Places /\ q \in 1 .. WordBits + 1 /\ q \in 1 .. 2 * WordBits - 1
    BY <1>2, <1>3, <1>6 DEF Places
  <2>4. MarkedAt(shifted, q)
    <3>1. shifted[q] = 1
      BY <1>2, <1>4, <2>3
    <3>2. ASSUME NEW k \in 1 .. q - 1 PROVE shifted[k] = 0
      <4>1. k \in 1 .. 2 * WordBits - 1 /\ k + 1 \in 1 .. p - 1
        BY <1>2, <1>3
      <4> QED
        BY <1>2, <1>4, <4>1
    <3> QED
      BY <2>3, <3>1, <3>2 DEF MarkedAt
  <2>5. SyncHolds(shifted, t, c + 1, q)
    <3>1. q + 1 .. 2 * WordBits = p .. 2 * WordBits
      BY <1>2
    <3> QED
      BY <1>5, <3>1 DEF SyncHolds
  <2>6. RingHolds(after, t, c + 1, q)
    <3> SUFFICES ASSUME NEW n \in 1 .. BUFFER_SIZE - 1, NEW b \in Places,
                        Age(q, n, b) \in Kept(t, c + 1)
                 PROVE  Back(after, n)[b] = Recent(t, Age(q, n, b))
      BY DEF RingHolds
    <3>1. n \in Nat /\ Age(p, n, b) \in Int /\ Age(q, n, b) = Age(p, n, b) + 1
      BY <1>2, <1>6, AgeType
    <3>2. Age(p, n, b) >= 0
      <4>1. n * WordBits >= WordBits /\ n * WordBits \in Int
        BY <1>3
      <4> QED
        BY <1>2, <1>3, <4>1 DEF Age, Places
    <3>3. /\ Age(q, n, b) - 1 \in Kept(s, c)
          /\ Recent(t, Age(q, n, b)) = Recent(s, Age(q, n, b) - 1)
      BY <3>1, <3>2, FollowsKept
    <3>4. Back(after, n) = Back(r, n)
      BY <2>2 DEF Back
    <3>5. Age(q, n, b) - 1 = Age(p, n, b)
      BY <3>1
    <3> QED
      BY <1>2, <3>3, <3>4, <3>5 DEF RingHolds
  <2> QED
    BY <2>2, <2>3, <2>4, <2>5, <2>6 DEF Holds
<1>7. CASE p = 1
  <2>1. r.sync[1] # 0
    BY <1>2, <1>7
  <2>2. after.sync = Marked(shifted)
    BY <2>1 DEF ShiftIn, shifted
  <2>3. WordBits \in Places /\ WordBits \in 1 .. WordBits + 1
    BY <1>3 DEF Places
  <2>4. \A i \in LongPlaces :
          Marked(shifted)[i] = IF i < WordBits THEN 0
                               ELSE IF i = WordBits THEN 1 ELSE shifted[i]
    BY DEF Marked
  <2>5. MarkedAt(Marked(shifted), WordBits)
    <3>1. \A k \in 1 .. WordBits - 1 : k \in LongPlaces /\ k < WordBits
      BY <1>3 DEF LongPlaces
    <3>2. WordBits \in LongPlaces
      BY <1>3 DEF LongPlaces
    <3> QED
      BY <1>3, <2>3, <2>4, <3>1, <3>2 DEF MarkedAt
  <2>6. SyncHolds(Marked(shifted), t, c + 1, WordBits)
    <3>1. ASSUME NEW j \in WordBits + 1 .. 2 * WordBits,
                 2 * WordBits - j \in Kept(t, c + 1)
          PROVE  Marked(shifted)[j] = Recent(t, 2 * WordBits - j)
      <4>1. j \in LongPlaces /\ ~(j < WordBits) /\ j # WordBits /\ j \in p .. 2 * WordBits
        BY <1>3, <1>7 DEF LongPlaces
      <4> QED
        BY <1>5, <2>4, <3>1, <4>1
    <3> QED
      BY <3>1 DEF SyncHolds
  <2>7. RingHolds(after, t, c + 1, WordBits)
    <3> SUFFICES ASSUME NEW n \in 1 .. BUFFER_SIZE - 1, NEW b \in Places,
                        Age(WordBits, n, b) \in Kept(t, c + 1)
                 PROVE  Back(after, n)[b] = Recent(t, Age(WordBits, n, b))
      BY DEF RingHolds
    <3>1. Back(after, n) = IF n = 1 THEN Lower(shifted) ELSE Back(r, n - 1)
      BY <2>1, BackAfter DEF shifted
    <3>2. CASE n = 1
      <4>1. Age(WordBits, n, b) = 2 * WordBits - b
        BY <2>3, <3>2, AgeType
      <4>2. b \in p .. 2 * WordBits
        BY <1>3, <1>7 DEF Places
      <4>3. shifted[b] = Recent(t, 2 * WordBits - b)
        BY <1>5, <4>1, <4>2
      <4> QED
        BY <3>1, <3>2, <4>1, <4>3 DEF Lower
    <3>3. CASE n # 1
      <4>1. n - 1 \in 1 .. BUFFER_SIZE - 1 /\ n \in Nat /\ n - 1 \in Nat /\ n > 1
        BY <3>3, Sizes
      <4>2. Age(WordBits, n, b) = Age(1, n - 1, b) + 1 /\ Age(1, n - 1, b) \in Int
        BY <1>2, <1>7, <4>1, AgeType
      <4>3. Age(1, n - 1, b) >= 0
        <5>1. (n - 1) * WordBits >= 0 /\ (n - 1) * WordBits \in Int
          BY <1>3, <4>1
        <5> QED
          BY <1>3, <5>1 DEF Age, Places
      <4>4. /\ Age(WordBits, n, b) - 1 \in Kept(s, c)
            /\ Recent(t, Age(WordBits, n, b)) = Recent(s, Age(WordBits, n, b) - 1)
        BY <4>2, <4>3, FollowsKept
      <4>5. Age(WordBits, n, b) - 1 = Age(1, n - 1, b)
        BY <4>2
      <4> QED
        BY <1>2, <1>7, <3>1, <3>3, <4>1, <4>4, <4>5 DEF RingHolds
    <3> QED
      BY <3>2, <3>3
  <2> QED
    BY <2>2, <2>3, <2>5, <2>6, <2>7 DEF Holds
<1> QED
  BY <1>6, <1>7

(* A sequence that may only have lost its oldest bits.                     *)
EndOf(t, s) ==
  \A i \in 0 .. Len(t) - 1 : i < Len(s) /\ Recent(t, i) = Recent(s, i)

(* The bits as the reader must have them: while it is out of step with the *)
(* signal, it takes the first half of a 1 for the second one.              *)
Heard == IF one_begun /\ ~half_bit THEN Append(sent, 1) ELSE sent

(* A 0 brings the reader into step.                                        *)
InStep == (\E i \in 1 .. Len(sent) : sent[i] = 0) => half_bit = one_begun

LEMMA AppendFollows ==
  ASSUME NEW s \in Seq(Bit), NEW bit \in Bit
  PROVE  /\ Append(s, bit) \in Seq(Bit)
         /\ Len(Append(s, bit)) = Len(s) + 1
         /\ Follows(Append(s, bit), s, bit)
<1>1. Append(s, bit) \in Seq(Bit) /\ Len(Append(s, bit)) = Len(s) + 1 /\ Len(s) \in Nat
  OBVIOUS
<1>2. Append(s, bit)[Len(s) + 1] = bit
  OBVIOUS
<1>3. \A k \in 1 .. Len(s) : Append(s, bit)[k] = s[k]
  OBVIOUS
<1> DEFINE t == Append(s, bit)
<1> HIDE DEF t
<1>4. ASSUME NEW i \in 0 .. Len(t) - 1
      PROVE  \/ i = 0 /\ Recent(t, i) = bit
             \/ i > 0 /\ i - 1 < Len(s) /\ Recent(t, i) = Recent(s, i - 1)
  <2>1. Len(t) - i = IF i = 0 THEN Len(s) + 1 ELSE Len(s) - (i - 1)
    BY <1>1 DEF t
  <2>2. i # 0 => Len(s) - (i - 1) \in 1 .. Len(s) /\ i - 1 < Len(s) /\ i > 0
    BY <1>1 DEF t
  <2> QED
    BY <1>2, <1>3, <2>1, <2>2 DEF Recent, t
<1> QED
  BY <1>1, <1>4 DEF Follows, t

LEMMA LatestEnd ==
  ASSUME NEW s \in Seq(Bit), Len(s) <= FrameBits + 1
  PROVE  /\ Latest(s) \in Seq(Bit) /\ Len(Latest(s)) <= FrameBits
         /\ EndOf(Latest(s), s)
         /\ (\E i \in 1 .. Len(Latest(s)) : Latest(s)[i] = 0)
              => \E i \in 1 .. Len(s) : s[i] = 0
<1>1. FrameBits \in Nat /\ FrameBits > 0 /\ Len(s) \in Nat
  BY Sizes
<1>2. CASE Len(s) > FrameBits
  <2>1. Latest(s) = Tail(s) /\ s # << >>
    BY <1>1, <1>2 DEF Latest
  <2>2. /\ Tail(s) \in Seq(Bit) /\ Len(Tail(s)) = Len(s) - 1
        /\ \A k \in 1 .. Len(s) - 1 : Tail(s)[k] = s[k + 1]
    BY <2>1
  <2> DEFINE t == Tail(s)
  <2> HIDE DEF t
  <2>3. EndOf(t, s)
    <3>1. ASSUME NEW i \in 0 .. Len(t) - 1
          PROVE  i < Len(s) /\ Recent(t, i) = Recent(s, i)
      <4>1. Len(t) - i \in 1 .. Len(s) - 1 /\ Len(t) - i + 1 = Len(s) - i
        BY <1>1, <2>2 DEF t
      <4> QED
        BY <1>1, <2>2, <4>1 DEF Recent, t
    <3> QED
      BY <3>1 DEF EndOf
  <2>4. ASSUME NEW i \in 1 .. Len(t), t[i] = 0
        PROVE  \E k \in 1 .. Len(s) : s[k] = 0
    <3>1. i + 1 \in 1 .. Len(s) /\ s[i + 1] = t[i]
      BY <1>1, <2>2 DEF t
    <3> QED
      BY <2>4, <3>1
  <2> QED
    BY <1>1, <2>1, <2>2, <2>3, <2>4 DEF t
<1>3. CASE Len(s) <= FrameBits
  <2>1. Latest(s) = s
    BY <1>1, <1>3 DEF Latest
  <2>2. EndOf(s, s)
    BY <1>1 DEF EndOf
  <2> QED
    BY <1>3, <2>1, <2>2
<1> QED
  BY <1>1, <1>2, <1>3

LEMMA EndFollows ==
  ASSUME NEW s \in Seq(Bit), NEW t \in Seq(Bit), NEW u \in Seq(Bit), NEW bit \in Bit,
         Follows(t, s, bit), EndOf(u, t)
  PROVE  Follows(u, s, bit)
<1>1. Len(s) \in Nat /\ Len(t) \in Nat /\ Len(u) \in Nat
  OBVIOUS
<1>2. ASSUME NEW i \in 0 .. Len(u) - 1
      PROVE  \/ i = 0 /\ Recent(u, i) = bit
             \/ i > 0 /\ i - 1 < Len(s) /\ Recent(u, i) = Recent(s, i - 1)
  <2>1. i < Len(t) /\ Recent(u, i) = Recent(t, i)
    BY DEF EndOf
  <2>2. i \in 0 .. Len(t) - 1
    BY <1>1, <2>1
  <2> QED
    BY <2>1, <2>2 DEF Follows
<1> QED
  BY <1>2 DEF Follows

LEMMA EndHolds ==
  ASSUME NEW r, NEW s \in Seq(Bit), NEW t \in Seq(Bit), NEW c \in Nat, NEW p,
         EndOf(t, s), Holds(r, s, c, p)
  PROVE  Holds(r, t, c, p)
<1>1. ASSUME NEW i \in Kept(t, c)
      PROVE  i \in Kept(s, c) /\ Recent(t, i) = Recent(s, i)
  <2>1. Len(t) \in Nat /\ i \in 0 .. Len(t) - 1
    BY DEF Kept
  <2> QED
    BY <2>1 DEF EndOf, Kept
<1> QED
  BY <1>1 DEF Holds, SyncHolds, RingHolds

(***************************************************************************)
(* A step of the signal, as the reader meets it: no bit, or one that       *)
(* continues what was heard.                                               *)
(***************************************************************************)
SignalOK ==
  /\ half_bit \in BOOLEAN /\ one_begun \in BOOLEAN
  /\ sent \in Seq(Bit) /\ Len(sent) <= FrameBits

LEMMA HeardType ==
  ASSUME SignalOK
  PROVE  /\ Heard \in Seq(Bit) /\ Len(Heard) <= FrameBits + 1
         /\ Len(Heard) >= Len(sent)
<1>1. Append(sent, 1) \in Seq(Bit) /\ Len(Append(sent, 1)) = Len(sent) + 1
  BY AppendFollows DEF SignalOK, Bit
<1>2. Len(sent) \in Nat /\ FrameBits \in Nat
  BY Sizes DEF SignalOK
<1> QED
  BY <1>1, <1>2 DEF Heard, SignalOK

LEMMA HeardStep ==
  ASSUME SignalOK, InStep, BitsNext
  PROVE  /\ SignalOK' /\ InStep'
         /\ \/ NoBit /\ half_bit' /\ EndOf(Heard', Heard)
            \/ ~half_bit' /\ \E bit \in Bit :
                 ReceiveBit(bit) /\ Follows(Heard', Heard, bit)
<1> DEFINE zero == Append(sent, 0)
           one == Append(sent, 1)
<1>1. /\ FrameBits \in Nat /\ Len(sent) \in Nat /\ 0 \in Bit /\ 1 \in Bit
      /\ half_bit \in BOOLEAN /\ one_begun \in BOOLEAN
      /\ sent \in Seq(Bit) /\ Len(sent) <= FrameBits
  BY Sizes DEF SignalOK, Bit
<1>2. /\ zero \in Seq(Bit) /\ Len(zero) <= FrameBits + 1 /\ Follows(zero, sent, 0)
      /\ one \in Seq(Bit) /\ Len(one) <= FrameBits + 1 /\ Follows(one, sent, 1)
  BY <1>1, AppendFollows
<1>3. /\ Latest(zero) \in Seq(Bit) /\ Len(Latest(zero)) <= FrameBits
      /\ EndOf(Latest(zero), zero)
      /\ Latest(one) \in Seq(Bit) /\ Len(Latest(one)) <= FrameBits
      /\ EndOf(Latest(one), one)
  BY <1>2, LatestEnd
<1>4. Follows(Latest(zero), sent, 0) /\ Follows(Latest(one), sent, 1)
  BY <1>1, <1>2, <1>3, EndFollows
<1>5. (\E i \in 1 .. Len(Latest(one)) : Latest(one)[i] = 0)
        => \E i \in 1 .. Len(sent) : sent[i] = 0
  <2>1. (\E i \in 1 .. Len(Latest(one)) : Latest(one)[i] = 0)
          => \E i \in 1 .. Len(one) : one[i] = 0
    BY <1>2, LatestEnd
  <2>2. ASSUME NEW i \in 1 .. Len(one), one[i] = 0
        PROVE  \E k \in 1 .. Len(sent) : sent[k] = 0
    <3>1. one[Len(sent) + 1] = 1 /\ Len(one) = Len(sent) + 1
      BY <1>1
    <3>2. i \in 1 .. Len(sent) /\ one[i] = sent[i]
      BY <1>1, <2>2, <3>1
    <3> QED
      BY <2>2, <3>2
  <2> QED
    BY <2>1, <2>2
<1>6. << >> \in Seq(Bit) /\ Len(<< >>) = 0
  OBVIOUS
<1>7. \A u : EndOf(<< >>, u) /\ \A bit : Follows(<< >>, u, bit)
  <2>1. 0 .. Len(<< >>) - 1 = {}
    BY <1>6
  <2> QED
    BY <2>1 DEF EndOf, Follows
<1>8. EndOf(sent, sent)
  BY <1>1 DEF EndOf
<1> HIDE DEF zero, one
<1>9. CASE Zero
  <2>1. /\ ~one_begun /\ half_bit' = FALSE /\ one_begun' = FALSE
        /\ sent' = Latest(zero) /\ ReceiveBit(0)
    BY <1>1, <1>9 DEF Zero, FullInterval, DropHalf, zero
  <2>2. Heard = sent /\ Heard' = Latest(zero)
    BY <2>1 DEF Heard
  <2> QED
    BY <1>1, <1>3, <1>4, <2>1, <2>2 DEF SignalOK, InStep
<1>10. CASE BeginOne
  <2>1. /\ ~one_begun /\ half_bit' = ~half_bit /\ one_begun' = TRUE /\ sent' = sent
        /\ IF half_bit THEN ReceiveBit(1) ELSE NoBit
    BY <1>1, <1>10 DEF BeginOne, HalfInterval
  <2>2. SignalOK' /\ InStep'
    BY <1>1, <2>1 DEF SignalOK, InStep
  <2>3. Heard = sent /\ Heard' = IF half_bit THEN one ELSE sent
    BY <1>1, <2>1 DEF Heard, one
  <2> QED
    BY <1>1, <1>2, <1>8, <2>1, <2>2, <2>3
<1>11. CASE EndOne
  <2>1. /\ one_begun /\ half_bit' = ~half_bit /\ one_begun' = FALSE
        /\ sent' = Latest(one)
        /\ IF half_bit THEN ReceiveBit(1) ELSE NoBit
    BY <1>1, <1>11 DEF EndOne, HalfInterval, one
  <2>2. SignalOK'
    BY <1>1, <1>3, <2>1 DEF SignalOK
  <2>3. InStep'
    BY <1>1, <1>5, <2>1 DEF InStep
  <2>4. Heard' = Latest(one) /\ Heard = IF half_bit THEN sent ELSE one
    BY <1>1, <2>1 DEF Heard, one
  <2> QED
    BY <1>1, <1>3, <1>4, <2>1, <2>2, <2>3, <2>4
<1>12. CASE DisturbBits
  <2>1. sent' = << >> /\ one_begun' = FALSE /\ (HalfInterval \/ FullInterval)
    BY <1>12 DEF DisturbBits
  <2>2. Heard' = << >>
    BY <2>1 DEF Heard
  <2>3. \/ half_bit' /\ NoBit
        \/ ~half_bit' /\ \E bit \in Bit : ReceiveBit(bit)
    BY <1>1, <2>1 DEF HalfInterval, FullInterval, DropHalf
  <2>4. SignalOK'
    <3>1. half_bit' \in BOOLEAN
      BY <2>1 DEF HalfInterval, FullInterval, DropHalf
    <3>2. sent' \in Seq(Bit) /\ Len(sent') <= FrameBits
      BY <1>1, <1>6, <2>1
    <3>3. one_begun' \in BOOLEAN
      BY <2>1
    <3> QED
      BY <3>1, <3>2, <3>3 DEF SignalOK
  <2>5. InStep'
    BY <1>6, <2>1 DEF InStep
  <2> QED
    BY <1>7, <2>2, <2>3, <2>4, <2>5
<1> QED
  BY <1>9, <1>10, <1>11, <1>12 DEF BitsNext

(***************************************************************************)
(* The inductive invariant: the registers hold what was heard, as far back *)
(* as bits were received after the latest sync word.  The count of these   *)
(* is never reduced, as bit_count is.                                      *)
(***************************************************************************)
Counted(c) ==
  /\ bit_count = c % CountSize
  /\ received = IF c < WordBits THEN c ELSE WordBits

HoldsHeard == \E c, p \in Nat : Counted(c) /\ Holds(Registers, Heard, c, p)

CodewordType == codeword = << >> \/ codeword \in [1 .. BUFFER_SIZE -> Word]

BitsInv ==
  /\ SignalOK /\ InStep
  /\ Registers \in RegisterFile
  /\ CodewordType
  /\ synced \in BOOLEAN
  /\ HoldsHeard

LEMMA ModRange ==
  ASSUME NEW n \in Nat \ {0}, NEW x \in Nat
  PROVE  x % n \in 0 .. n - 1 /\ x % n <= x
<1> DEFINE q == x \div n
           m == x % n
<1>1. q \in Int /\ m \in 0 .. n - 1 /\ x = n * q + m
  OBVIOUS
<1> HIDE DEF q, m
<1>2. q <= -1 => n * q <= -n
  BY <1>1
<1>3. q >= 0 => n * q >= 0
  BY <1>1
<1>4. n * q \in Int
  BY <1>1
<1> QED
  BY <1>1, <1>2, <1>3, <1>4 DEF m

LEMMA RegisterFields ==
  ASSUME Registers \in RegisterFile
  PROVE  /\ sync_buffer \in LongWord /\ codeword_pos \in Ring
         /\ codeword_buffer \in [Ring -> Word]
         /\ Registers.sync = sync_buffer /\ Registers.ring = codeword_buffer
         /\ Registers.at = codeword_pos
BY DEF Registers, RegisterFile

LEMMA InvOK ==
  ASSUME BitsInv
  PROVE  RegistersOK
<1>1. PICK c, p \in Nat : Counted(c) /\ Holds(Registers, Heard, c, p)
  BY DEF BitsInv, HoldsHeard
<1>2. p \in 1 .. WordBits + 1 /\ sync_buffer[p] = 1
  BY <1>1, RegisterFields DEF BitsInv, Holds, MarkedAt
<1>3. bit_count \in 0 .. CountSize - 1
  BY <1>1, ModRange, Sizes DEF Counted
<1>4. received \in 0 .. WordBits
  BY <1>1, Sizes DEF Counted
<1> QED
  BY <1>2, <1>3, <1>4, RegisterFields DEF BitsInv, SignalOK, CodewordType, RegistersOK

LEMMA InitInv ==
  ASSUME BitsInit
  PROVE  BitsInv /\ CodewordIsFrame
<1>1. SignalOK /\ InStep
  <2>1. << >> \in Seq(Bit) /\ Len(<< >>) = 0 /\ 1 .. 0 = {} /\ FrameBits >= 0
    BY Sizes
  <2> QED
    BY <2>1 DEF BitsInit, SignalOK, InStep
<1>2. Registers \in RegisterFile
  <2>1. sync_buffer \in LongWord
    BY DEF BitsInit, LongWord, Bit
  <2>2. codeword_buffer \in [Ring -> Word] /\ codeword_pos \in Ring
    BY Sizes DEF BitsInit, Ring, Word, Bit
  <2> QED
    BY <2>1, <2>2 DEF Registers, RegisterFile
<1>3. HoldsHeard
  <2>1. Counted(0)
    <3>1. CountSize * 0 + 0 = 0 /\ 0 \in 0 .. CountSize - 1
      BY Sizes
    <3>2. (CountSize * 0 + 0) % CountSize = 0
      BY <3>1, DivMod, Sizes
    <3> QED
      BY <3>1, <3>2, Sizes DEF BitsInit, Counted
  <2>2. MarkedAt(Registers.sync, WordBits + 1)
    <3>1. Registers.sync
            = [i \in LongPlaces |-> IF i = WordBits + 1 THEN 1 ELSE 0]
      BY DEF BitsInit, Registers
    <3> DEFINE top == WordBits + 1
    <3>2. /\ top \in LongPlaces /\ top \in 1 .. WordBits + 1
          /\ \A q \in 1 .. top - 1 : q \in LongPlaces /\ q # top
      BY Sizes DEF LongPlaces
    <3>3. Registers.sync = [i \in LongPlaces |-> IF i = top THEN 1 ELSE 0]
      BY <3>1
    <3> HIDE DEF top
    <3>4. /\ Registers.sync[top] = 1
          /\ \A q \in 1 .. top - 1 : Registers.sync[q] = 0
      BY <3>2, <3>3
    <3>5. MarkedAt(Registers.sync, top)
      BY <3>2, <3>4 DEF MarkedAt
    <3> QED
      BY <3>5 DEF top
  <2>3. \A i : i \notin Kept(Heard, 0)
    BY DEF Kept
  <2>4. Holds(Registers, Heard, 0, WordBits + 1)
    BY <2>2, <2>3 DEF Holds, SyncHolds, RingHolds
  <2>5. 0 \in Nat /\ WordBits + 1 \in Nat
    BY Sizes
  <2> HIDE DEF Counted
  <2> QED
    BY <2>1, <2>4, <2>5, Zenon DEF HoldsHeard
<1> QED
  BY <1>1, <1>2, <1>3 DEF BitsInit, BitsInv, CodewordType, CodewordIsFrame

(***************************************************************************)
(* What is read out of the registers.                                      *)
(***************************************************************************)
LEMMA MarkerFound ==
  ASSUME NEW long \in LongWord, NEW p \in Places, MarkedAt(long, p)
  PROVE  Marker(long) = p
<1>1. /\ long[p] = 1
      /\ \A q \in 1 .. p - 1 : long[q] = 0
      /\ p \in Int /\ p >= 1
  BY Sizes DEF MarkedAt, Places
<1>2. ASSUME NEW k \in Places, long[k] = 1, \A q \in 1 .. k - 1 : long[q] = 0
      PROVE  k = p
  <2>1. k \in Int /\ k >= 1
    BY DEF Places
  <2>2. ~(k < p)
    <3>1. k < p => k \in 1 .. p - 1
      BY <1>1, <2>1
    <3> QED
      BY <1>1, <1>2, <3>1
  <2>3. ~(p < k)
    <3>1. p < k => p \in 1 .. k - 1
      BY <1>1, <2>1
    <3> QED
      BY <1>1, <1>2, <3>1
  <2> QED
    BY <1>1, <2>1, <2>2, <2>3
<1> QED
  BY <1>1, <1>2 DEF Marker

(* How far back place b of the word n before the sync word is.             *)
Depth(n, b) == n * WordBits + WordBits - b

LEMMA WordBeforeIs ==
  ASSUME NEW r \in RegisterFile, NEW p \in Places, MarkedAt(r.sync, p),
         NEW n \in 1 .. BUFFER_SIZE - 1
  PROVE  /\ WordBefore(r, n) \in Word
         /\ \A s, c : \A b \in Places :
              /\ Holds(r, s, c, p)
              /\ Depth(n, b) \in Kept(s, c)
              => WordBefore(r, n)[b] = Recent(s, Depth(n, b))
<1>1. /\ r.sync \in LongWord /\ r.ring \in [Ring -> Word] /\ r.at \in Ring
  BY DEF RegisterFile
<1>2. Shift(r.sync) = p
  BY <1>1, MarkerFound DEF Shift
<1>3. WordBits \in Nat /\ WordBits > 0 /\ p \in 1 .. WordBits
  BY Sizes DEF Places
<1>4. \A m \in 1 .. BUFFER_SIZE - 1 : Back(r, m) \in Word
  <2> TAKE m \in 1 .. BUFFER_SIZE - 1
  <2>1. m \in 1 .. BUFFER_SIZE
    BY Sizes
  <2> QED
    BY <1>1, <2>1, BackPlace DEF Back
<1>5. \A b \in Places :
        WordBefore(r, n)[b]
          = IF b <= p THEN Back(r, n)[WordBits - p + b]
            ELSE IF n = 1 THEN r.sync[b] ELSE Back(r, n - 1)[b - p]
  BY <1>2 DEF WordBefore
<1>6. WordBefore(r, n) \in Word
  <2>1. ASSUME NEW b \in Places
        PROVE  (IF b <= p THEN Back(r, n)[WordBits - p + b]
                ELSE IF n = 1 THEN r.sync[b] ELSE Back(r, n - 1)[b - p]) \in Bit
    <3>1. CASE b <= p
      <4>1. WordBits - p + b \in Places
        BY <1>3, <3>1 DEF Places
      <4> QED
        BY <1>4, <3>1, <4>1 DEF Word
    <3>2. CASE ~(b <= p) /\ n = 1
      <4>1. b \in LongPlaces
        BY <1>3 DEF Places, LongPlaces
      <4> QED
        BY <1>1, <3>2, <4>1 DEF LongWord
    <3>3. CASE ~(b <= p) /\ n # 1
      <4>1. b - p \in Places /\ n - 1 \in 1 .. BUFFER_SIZE - 1
        BY <1>3, <3>3, Sizes DEF Places
      <4> QED
        BY <1>4, <3>3, <4>1 DEF Word
    <3> QED
      BY <3>1, <3>2, <3>3
  <2> QED
    BY <1>2, <2>1 DEF WordBefore, Word
<1>7. ASSUME NEW s, NEW c, NEW b \in Places, Holds(r, s, c, p),
             Depth(n, b) \in Kept(s, c)
      PROVE  WordBefore(r, n)[b] = Recent(s, Depth(n, b))
  <2> DEFINE age == Depth(n, b)
  <2>1. n * WordBits \in Int /\ (n - 1) * WordBits = n * WordBits - WordBits
    BY <1>3
  <2>2. SyncHolds(r.sync, s, c, p) /\ RingHolds(r, s, c, p)
    BY <1>7 DEF Holds
  <2>3. CASE b <= p
    <3>1. WordBits - p + b \in Places
      BY <1>3, <2>3 DEF Places
    <3>2. Age(p, n, WordBits - p + b) = age
      BY <1>3, <2>1 DEF Age, Depth, Places
    <3>3. Back(r, n)[WordBits - p + b] = Recent(s, age)
      BY <1>7, <2>2, <3>1, <3>2 DEF RingHolds
    <3> QED
      BY <1>5, <2>3, <3>3
  <2>4. CASE ~(b <= p) /\ n = 1
    <3>1. b \in p + 1 .. 2 * WordBits /\ age = 2 * WordBits - b
      BY <1>3, <2>4 DEF Depth, Places
    <3>2. r.sync[b] = Recent(s, age)
      BY <1>7, <2>2, <3>1 DEF SyncHolds
    <3> QED
      BY <1>5, <2>4, <3>2
  <2>5. CASE ~(b <= p) /\ n # 1
    <3>1. b - p \in Places /\ n - 1 \in 1 .. BUFFER_SIZE - 1
      BY <1>3, <2>5, Sizes DEF Places
    <3>2. Age(p, n - 1, b - p) = age
      BY <1>3, <2>1 DEF Age, Depth, Places
    <3>3. Back(r, n - 1)[b - p] = Recent(s, age)
      BY <1>7, <2>2, <3>1, <3>2 DEF RingHolds
    <3> QED
      BY <1>5, <2>5, <3>3
  <2> QED
    BY <2>3, <2>4, <2>5
<1> QED
  BY <1>6, <1>7

LEMMA CodewordTyped ==
  ASSUME NEW r \in RegisterFile, NEW p \in Places, MarkedAt(r.sync, p)
  PROVE  Codeword(r) \in [1 .. BUFFER_SIZE -> Word]
<1>1. Upper(r.sync) \in Word
  BY HalvesType DEF RegisterFile
<1>2. ASSUME NEW i \in 1 .. BUFFER_SIZE, i # BUFFER_SIZE
      PROVE  WordBefore(r, BUFFER_SIZE - i) \in Word
  <2>1. BUFFER_SIZE - i \in 1 .. BUFFER_SIZE - 1
    BY <1>2, Sizes
  <2> QED
    BY <2>1, WordBeforeIs
<1> QED
  BY <1>1, <1>2 DEF Codeword

LEMMA UpperHolds ==
  ASSUME NEW r \in RegisterFile, NEW s \in Seq(Bit), NEW c \in Nat, NEW p \in Places,
         Holds(r, s, c, p), c >= WordBits, Len(s) >= WordBits, NEW b \in Places
  PROVE  Upper(r.sync)[b] = s[Len(s) - WordBits + b]
<1> DEFINE j == WordBits + b
<1>1. WordBits \in Nat /\ Len(s) \in Nat /\ b \in 1 .. WordBits /\ p \in 1 .. WordBits
  BY Sizes DEF Places
<1>2. j \in p + 1 .. 2 * WordBits /\ 2 * WordBits - j = WordBits - b
  BY <1>1
<1>3. WordBits - b \in Kept(s, c)
  BY <1>1 DEF Kept
<1>4. Upper(r.sync)[b] = r.sync[j]
  BY DEF Upper
<1> HIDE DEF j
<1>5. r.sync[j] = Recent(s, WordBits - b)
  BY <1>2, <1>3 DEF Holds, SyncHolds
<1>6. Len(s) - (WordBits - b) = Len(s) - WordBits + b
  BY <1>1
<1> QED
  BY <1>4, <1>5, <1>6 DEF Recent

(* With a frame of bits in the registers the codeword is these.            *)
LEMMA CodewordHolds ==
  ASSUME NEW r \in RegisterFile, NEW s \in Seq(Bit), NEW c \in Nat, NEW p \in Places,
         Holds(r, s, c, p), c >= FrameBits, Len(s) = FrameBits,
         NEW i \in 1 .. BUFFER_SIZE, NEW b \in Places
  PROVE  Codeword(r)[i][b] = s[(i - 1) * WordBits + b]
<1>1. /\ WordBits \in Nat /\ BUFFER_SIZE \in Nat /\ FrameBits \in Nat
      /\ FrameBits >= WordBits /\ b \in 1 .. WordBits
  BY Sizes DEF Places
<1>2. FrameBits = BUFFER_SIZE * WordBits
  BY DEF FrameBits
<1>3. CASE i = BUFFER_SIZE
  <2>1. Codeword(r)[i] = Upper(r.sync)
    BY <1>3 DEF Codeword
  <2>2. Upper(r.sync)[b] = s[Len(s) - WordBits + b]
    <3>1. c >= WordBits /\ Len(s) >= WordBits
      BY <1>1
    <3> QED
      BY <3>1, UpperHolds
  <2>3. (i - 1) * WordBits = FrameBits - WordBits
    BY <1>1, <1>2, <1>3
  <2> QED
    BY <2>1, <2>2, <2>3
<1>4. CASE i # BUFFER_SIZE
  <2> DEFINE n == BUFFER_SIZE - i
             past == (i - 1) * WordBits
             age == Depth(n, b)
  <2>1. n \in 1 .. BUFFER_SIZE - 1
    BY <1>1, <1>4
  <2>2. Codeword(r)[i] = WordBefore(r, n)
    BY <1>4 DEF Codeword
  <2>3. past = i * WordBits - WordBits /\ past \in Int /\ past >= 0
    BY <1>1
  <2>4. n * WordBits = BUFFER_SIZE * WordBits - i * WordBits /\ n * WordBits \in Int
        /\ n * WordBits >= 0
    BY <1>1, <2>1
  <2>5. age = FrameBits - past - b
    BY <1>1, <1>2, <2>3, <2>4 DEF Depth
  <2> HIDE DEF past, age
  <2>6. age \in Kept(s, c)
    <3>1. age \in Int /\ age < FrameBits
      BY <1>1, <2>3, <2>5
    <3>2. age >= 0
      BY <1>1, <2>1, <2>4 DEF age, Depth
    <3> QED
      BY <1>1, <3>1, <3>2 DEF Kept
  <2>7. WordBefore(r, n)[b] = Recent(s, age)
    <3>1. MarkedAt(r.sync, p)
      BY DEF Holds
    <3>2. Depth(n, b) \in Kept(s, c)
      BY <2>6 DEF age
    <3> HIDE DEF n
    <3>3. \A u, d : \A k \in Places :
            Holds(r, u, d, p) /\ Depth(n, k) \in Kept(u, d)
              => WordBefore(r, n)[k] = Recent(u, Depth(n, k))
      BY <2>1, <3>1, WordBeforeIs
    <3> QED
      BY <3>2, <3>3 DEF age
  <2>8. Recent(s, age) = s[past + b]
    <3>1. FrameBits - (FrameBits - past - b) = past + b
      BY <1>1, <2>3
    <3> QED
      BY <2>5, <3>1 DEF Recent
  <2> QED
    BY <2>2, <2>7, <2>8 DEF past
<1> QED
  BY <1>3, <1>4

(***************************************************************************)
(* A bit keeps the invariant.                                              *)
(***************************************************************************)
LEMMA SyncClearedHolds ==
  ASSUME NEW long \in LongWord, NEW p \in Places, MarkedAt(long, p)
  PROVE  MarkedAt(SyncCleared(long), p)
<1>1. WordBits \in Nat /\ p \in 1 .. WordBits /\ p \in 1 .. WordBits + 1
  BY Sizes DEF Places
<1>2. \A k \in 1 .. p : k \in LongPlaces /\ k <= WordBits
  BY <1>1 DEF LongPlaces
<1>3. \A k \in 1 .. p : SyncCleared(long)[k] = long[k]
  BY <1>2 DEF SyncCleared
<1>4. p \in 1 .. p /\ \A k \in 1 .. p - 1 : k \in 1 .. p
  BY <1>1
<1> QED
  BY <1>1, <1>3, <1>4 DEF MarkedAt

LEMMA ReceiveHolds ==
  ASSUME Registers \in RegisterFile, NEW bit \in Bit, NEW s \in Seq(Bit),
         NEW t \in Seq(Bit), NEW c \in Nat, NEW p, Counted(c),
         Holds(Registers, s, c, p), Follows(t, s, bit), ReceiveBit(bit)
  PROVE  /\ Registers' \in RegisterFile /\ synced' \in BOOLEAN /\ CodewordType'
         /\ \E d, q \in Nat : Counted(d)' /\ Holds(Registers', t, d, q)
<1> DEFINE r == ShiftIn(Registers, bit)
<1>1. r \in RegisterFile
  BY ShiftInType
<1>2. PICK q \in Places : Holds(r, t, c + 1, q)
  BY ShiftHolds
<1>3. /\ synced' = (Upper(r.sync) = SyncWord)
      /\ codeword_buffer' = r.ring
      /\ \/ /\ synced'
            /\ codeword_pos' = (r.at + 1) % BUFFER_SIZE
            /\ sync_buffer' = SyncCleared(r.sync)
            /\ bit_count' = 0
            /\ codeword' = Codeword(r) \/ codeword' = << >>
            /\ received' = 0
         \/ /\ ~synced'
            /\ codeword_pos' = r.at
            /\ sync_buffer' = r.sync
            /\ bit_count' = (bit_count + 1) % CountSize
            /\ codeword' = << >>
            /\ received' = IF received < WordBits THEN received + 1 ELSE received
  BY DEF ReceiveBit
<1>4. r.sync \in LongWord /\ r.ring \in [Ring -> Word] /\ r.at \in Ring
  BY <1>1 DEF RegisterFile
<1>5. MarkedAt(r.sync, q)
  BY <1>2 DEF Holds
<1> HIDE DEF r
<1>6. synced' \in BOOLEAN
  BY <1>3
<1>7. CodewordType'
  <2>1. Codeword(r) \in [1 .. BUFFER_SIZE -> Word]
    BY <1>1, <1>5, CodewordTyped
  <2> QED
    BY <1>3, <2>1 DEF CodewordType
<1>8. CASE synced'
  <2>1. /\ sync_buffer' = SyncCleared(r.sync) /\ codeword_buffer' = r.ring
        /\ codeword_pos' = NextInRing(r.at) /\ bit_count' = 0 /\ received' = 0
    BY <1>3, <1>8 DEF NextInRing
  <2>2. SyncCleared(r.sync) \in LongWord /\ NextInRing(r.at) \in Ring
    BY <1>4, HalvesType, NextInRingType
  <2>3. Registers' \in RegisterFile
    BY <1>4, <2>1, <2>2 DEF Registers, RegisterFile
  <2>4. Counted(0)'
    <3>1. 0 % CountSize = 0
      BY ModRange, Sizes
    <3> QED
      BY <2>1, <3>1, Sizes DEF Counted
  <2>5. MarkedAt(Registers'.sync, q)
    <3>1. Registers'.sync = SyncCleared(r.sync)
      BY <2>1 DEF Registers
    <3> QED
      BY <1>4, <1>5, <3>1, SyncClearedHolds
  <2>6. \A i : i \notin Kept(t, 0)
    BY DEF Kept
  <2>7. Holds(Registers', t, 0, q)
    BY <2>5, <2>6 DEF Holds, SyncHolds, RingHolds
  <2>8. 0 \in Nat /\ q \in Nat
    BY Sizes DEF Places
  <2> QED
    BY <1>6, <1>7, <2>3, <2>4, <2>7, <2>8, Zenon
<1>9. CASE ~synced'
  <2>1. /\ sync_buffer' = r.sync /\ codeword_buffer' = r.ring /\ codeword_pos' = r.at
        /\ bit_count' = (bit_count + 1) % CountSize
        /\ received' = IF received < WordBits THEN received + 1 ELSE received
    BY <1>3, <1>9
  <2>2. Registers' = r
    BY <1>1, <2>1 DEF Registers, RegisterFile
  <2>3. Counted(c + 1)'
    <3>1. bit_count = c % CountSize
          /\ received = IF c < WordBits THEN c ELSE WordBits
      BY DEF Counted
    <3>2. ((c % CountSize) + 1) % CountSize = (c + 1) % CountSize
      <4>1. CountSize \in Nat \ {0} /\ c \in Int /\ 1 \in Int
        BY Sizes
      <4> QED
        BY <4>1, ModAdd, Zenon
    <3>3. bit_count' = (c + 1) % CountSize
      BY <2>1, <3>1, <3>2
    <3>4. received' = IF c + 1 < WordBits THEN c + 1 ELSE WordBits
      BY <2>1, <3>1, Sizes
    <3> QED
      BY <3>3, <3>4 DEF Counted
  <2>4. c + 1 \in Nat /\ Holds(Registers', t, c + 1, q)
    BY <1>2, <2>2
  <2>5. q \in Nat
    BY Sizes DEF Places
  <2>6. Registers' \in RegisterFile
    BY <1>1, <2>2
  <2> QED
    BY <1>6, <1>7, <2>3, <2>4, <2>5, <2>6, Zenon
<1> QED
  BY <1>8, <1>9

LEMMA StepInv ==
  ASSUME BitsInv, BitsNext
  PROVE  BitsInv'
<1>1. /\ SignalOK' /\ InStep'
      /\ \/ NoBit /\ half_bit' /\ EndOf(Heard', Heard)
         \/ ~half_bit' /\ \E bit \in Bit :
              ReceiveBit(bit) /\ Follows(Heard', Heard, bit)
  BY HeardStep DEF BitsInv
<1>2. Heard \in Seq(Bit) /\ Heard' \in Seq(Bit)
  <2>1. SignalOK
    BY DEF BitsInv
  <2>2. Heard \in Seq(Bit)
    BY <2>1, HeardType
  <2>3. Heard' \in Seq(Bit)
    <3>1. /\ half_bit' \in BOOLEAN /\ one_begun' \in BOOLEAN /\ sent' \in Seq(Bit)
      BY <1>1 DEF SignalOK
    <3>2. Append(sent', 1) \in Seq(Bit)
      BY <3>1, AppendFollows DEF Bit
    <3> QED
      BY <3>1, <3>2 DEF Heard
  <2> QED
    BY <2>2, <2>3
<1>3. PICK c, p \in Nat : Counted(c) /\ Holds(Registers, Heard, c, p)
  BY DEF BitsInv, HoldsHeard
<1>4. CASE NoBit /\ EndOf(Heard', Heard)
  <2>1. /\ synced' = FALSE /\ codeword' = << >>
        /\ sync_buffer' = sync_buffer /\ codeword_buffer' = codeword_buffer
        /\ codeword_pos' = codeword_pos
        /\ bit_count' = bit_count /\ received' = received
    BY <1>4 DEF NoBit
  <2>2. Registers' = Registers
    BY <2>1 DEF Registers
  <2>3. Holds(Registers', Heard', c, p) /\ Counted(c)'
    <3>1. Holds(Registers, Heard', c, p)
      BY <1>2, <1>3, <1>4, EndHolds
    <3> QED
      BY <1>3, <2>1, <2>2, <3>1 DEF Counted
  <2> QED
    BY <1>1, <2>1, <2>2, <2>3 DEF BitsInv, CodewordType, HoldsHeard
<1>5. ASSUME NEW bit \in Bit, ReceiveBit(bit), Follows(Heard', Heard, bit)
      PROVE  BitsInv'
  <2>1. Registers \in RegisterFile
    BY DEF BitsInv
  <2>2. /\ Registers' \in RegisterFile /\ synced' \in BOOLEAN /\ CodewordType'
        /\ \E d, q \in Nat : Counted(d)' /\ Holds(Registers', Heard', d, q)
    BY <1>2, <1>3, <1>5, <2>1, ReceiveHolds
  <2> QED
    BY <1>1, <2>2 DEF BitsInv, HoldsHeard
<1> QED
  BY <1>1, <1>4, <1>5

(***************************************************************************)
(* What a bit finds: the upper half of the registers against the signal.   *)
(***************************************************************************)
LEMMA ReceiveFinds ==
  ASSUME BitsInv, SignalOK', InStep', ~half_bit', NEW bit \in Bit,
         ReceiveBit(bit), Follows(Heard', Heard, bit),
         NEW c \in Nat, c + 1 >= WordBits, Len(sent') >= WordBits,
         NEW q \in Places, Holds(ShiftIn(Registers, bit), Heard', c + 1, q)
  PROVE  /\ one_begun' => ~synced'
         /\ ~one_begun' => (synced' <=> EndsInSyncWord(sent')) /\ Heard' = sent'
<1> DEFINE r == ShiftIn(Registers, bit)
           one == Append(sent', 1)
<1>1. /\ half_bit' \in BOOLEAN /\ one_begun' \in BOOLEAN
      /\ sent' \in Seq(Bit)
  BY DEF SignalOK
<1>2. r \in RegisterFile /\ r.sync \in LongWord
  <2>1. Registers \in RegisterFile
    BY DEF BitsInv
  <2>2. r \in RegisterFile
    BY <2>1, ShiftInType
  <2> QED
    BY <2>2 DEF RegisterFile
<1>3. synced' = (Upper(r.sync) = SyncWord)
  BY DEF ReceiveBit
<1>4. one \in Seq(Bit) /\ Len(one) = Len(sent') + 1 /\ one[Len(sent') + 1] = 1
      /\ \A k \in 1 .. Len(sent') : one[k] = sent'[k]
  BY <1>1 DEF Bit
<1>5. Heard' = IF one_begun' THEN one ELSE sent'
  BY DEF Heard
<1>6. Heard' \in Seq(Bit) /\ Len(Heard') >= WordBits
  BY <1>1, <1>4, <1>5, Sizes
<1>7. Upper(r.sync) \in Word /\ SyncWord \in Word
  BY <1>2, HalvesType, BitsAssumption
<1> HIDE DEF r, one
<1>8. \A b \in Places : Upper(r.sync)[b] = Heard'[Len(Heard') - WordBits + b]
  BY <1>2, <1>6, UpperHolds DEF r
<1>9. CASE one_begun'
  <2>1. \A i \in 1 .. Len(sent') : sent'[i] # 0
    BY <1>1, <1>9 DEF InStep
  <2>2. \A i \in 1 .. Len(one) : one[i] # 0
    <3>1. \A i \in 1 .. Len(one) : i \in 1 .. Len(sent') \/ i = Len(sent') + 1
      BY <1>1, <1>4
    <3> QED
      BY <1>4, <2>1, <3>1
  <2>3. PICK b \in Places : SyncWord[b] = 0
    BY BitsAssumption
  <2>4. Len(Heard') - WordBits + b \in 1 .. Len(one)
    BY <1>4, <1>5, <1>6, <1>9, Sizes DEF Places
  <2>5. Upper(r.sync)[b] # 0
    BY <1>5, <1>8, <1>9, <2>2, <2>4
  <2>6. Upper(r.sync) # SyncWord
    BY <2>3, <2>5
  <2> QED
    BY <1>3, <1>9, <2>6
<1>10. CASE ~one_begun'
  <2>1. Heard' = sent'
    BY <1>5, <1>10
  <2>2. \A b \in Places : Upper(r.sync)[b] = sent'[Len(sent') - WordBits + b]
    BY <1>8, <2>1
  <2>3. EndsInSyncWord(sent') => Upper(r.sync) = SyncWord
    BY <1>7, <2>2 DEF EndsInSyncWord, Word
  <2>4. Upper(r.sync) = SyncWord => EndsInSyncWord(sent')
    BY <2>2 DEF EndsInSyncWord
  <2> QED
    BY <1>3, <1>10, <2>1, <2>3, <2>4
<1> QED
  BY <1>9, <1>10

(* The steps that receive a bit, with the registers after it.              *)
LEMMA ReceiveStep ==
  ASSUME BitsInv, NEW bit \in Bit, ReceiveBit(bit), Follows(Heard', Heard, bit),
         SignalOK'
  PROVE  \E c \in Nat, q \in Places :
           Counted(c) /\ Holds(ShiftIn(Registers, bit), Heard', c + 1, q)
<1>1. PICK c, p \in Nat : Counted(c) /\ Holds(Registers, Heard, c, p)
  BY DEF BitsInv, HoldsHeard
<1>2. Heard \in Seq(Bit)
  BY HeardType DEF BitsInv
<1>3. Heard' \in Seq(Bit)
  <2>1. /\ half_bit' \in BOOLEAN /\ one_begun' \in BOOLEAN /\ sent' \in Seq(Bit)
    BY DEF SignalOK
  <2>2. Append(sent', 1) \in Seq(Bit)
    BY <2>1, AppendFollows DEF Bit
  <2> QED
    BY <2>1, <2>2 DEF Heard
<1>4. Registers \in RegisterFile
  BY DEF BitsInv
<1>5. \E q \in Places : Holds(ShiftIn(Registers, bit), Heard', c + 1, q)
  BY <1>1, <1>2, <1>3, <1>4, ShiftHolds
<1> QED
  BY <1>1, <1>5

LEMMA SyncStep ==
  ASSUME BitsInv, BitsNext, received >= WordBits - 1, Len(sent') >= WordBits
  PROVE  synced' <=> ~one_begun' /\ EndsInSyncWord(sent')
<1>1. /\ SignalOK' /\ InStep'
      /\ \/ NoBit /\ half_bit' /\ EndOf(Heard', Heard)
         \/ ~half_bit' /\ \E bit \in Bit :
              ReceiveBit(bit) /\ Follows(Heard', Heard, bit)
  BY HeardStep DEF BitsInv
<1>2. CASE NoBit /\ half_bit'
  <2>1. ~synced'
    BY <1>2 DEF NoBit
  <2>2. ASSUME ~one_begun', EndsInSyncWord(sent')
        PROVE  FALSE
    <3>1. PICK b \in Places : SyncWord[b] = 0
      BY BitsAssumption
    <3>2. sent'[Len(sent') - WordBits + b] = 0
      BY <2>2, <3>1 DEF EndsInSyncWord
    <3>3. Len(sent') \in Nat
      BY <1>1 DEF SignalOK
    <3>4. Len(sent') - WordBits + b \in 1 .. Len(sent')
      BY <3>3, Sizes DEF Places
    <3>5. half_bit' = one_begun'
      BY <1>1, <3>2, <3>4 DEF InStep
    <3> QED
      BY <1>2, <2>2, <3>5
  <2> QED
    BY <2>1, <2>2
<1>3. ASSUME ~half_bit', NEW bit \in Bit, ReceiveBit(bit), Follows(Heard', Heard, bit)
      PROVE  synced' <=> ~one_begun' /\ EndsInSyncWord(sent')
  <2>1. PICK c \in Nat, q \in Places :
          Counted(c) /\ Holds(ShiftIn(Registers, bit), Heard', c + 1, q)
    BY <1>1, <1>3, ReceiveStep
  <2>2. c + 1 >= WordBits
    BY <2>1, Sizes DEF Counted
  <2>3. /\ one_begun' => ~synced'
        /\ ~one_begun' => (synced' <=> EndsInSyncWord(sent'))
    BY <1>1, <1>3, <2>1, <2>2, ReceiveFinds
  <2> QED
    BY <2>3
<1> QED
  BY <1>1, <1>2, <1>3

LEMMA FrameStep ==
  ASSUME BitsInv, BitsNext
  PROVE  CodewordIsFrame'
<1> SUFFICES ASSUME codeword' # << >>, Len(sent') = FrameBits,
                    NEW i \in 1 .. BUFFER_SIZE, NEW b \in Places
             PROVE  codeword'[i][b] = sent'[(i - 1) * WordBits + b]
  BY DEF CodewordIsFrame
<1>1. /\ SignalOK' /\ InStep'
      /\ \/ NoBit /\ half_bit' /\ EndOf(Heard', Heard)
         \/ ~half_bit' /\ \E bit \in Bit :
              ReceiveBit(bit) /\ Follows(Heard', Heard, bit)
  BY HeardStep DEF BitsInv
<1>2. ~NoBit
  BY DEF NoBit
<1>3. PICK bit \in Bit : ReceiveBit(bit) /\ Follows(Heard', Heard, bit)
  BY <1>1, <1>2
<1>4. PICK c \in Nat, q \in Places :
        Counted(c) /\ Holds(ShiftIn(Registers, bit), Heard', c + 1, q)
  BY <1>1, <1>3, ReceiveStep
<1> DEFINE r == ShiftIn(Registers, bit)
<1>5. /\ synced' /\ codeword' = Codeword(r)
      /\ (bit_count + 1) % CountSize = FrameBits
  BY <1>3 DEF ReceiveBit
<1>6. c + 1 >= FrameBits /\ c + 1 >= WordBits /\ Len(sent') >= WordBits
  <2>1. bit_count = c % CountSize
    BY <1>4 DEF Counted
  <2>2. bit_count \in Nat /\ bit_count <= c
    <3>1. CountSize \in Nat \ {0}
      BY Sizes
    <3>2. (c % CountSize) \in 0 .. CountSize - 1 /\ (c % CountSize) <= c
      BY <3>1, ModRange
    <3> QED
      BY <2>1, <3>1, <3>2
  <2>3. bit_count + 1 \in Nat
    BY <2>2
  <2>4. (bit_count + 1) % CountSize <= bit_count + 1
    BY <2>3, ModRange, Sizes
  <2>5. FrameBits <= bit_count + 1
    BY <1>5, <2>4
  <2> QED
    BY <2>2, <2>5, Sizes
<1>7. Heard' = sent'
  BY <1>1, <1>2, <1>3, <1>4, <1>5, <1>6, ReceiveFinds DEF SignalOK
<1>8. r \in RegisterFile
  <2>1. Registers \in RegisterFile
    BY DEF BitsInv
  <2> QED
    BY <2>1, ShiftInType
<1>9. sent' \in Seq(Bit)
  BY <1>1 DEF SignalOK
<1> HIDE DEF r
<1>10. Holds(r, sent', c + 1, q) /\ c + 1 \in Nat
  BY <1>4, <1>7 DEF r
<1>11. Codeword(r)[i][b] = sent'[(i - 1) * WordBits + b]
  BY <1>6, <1>8, <1>9, <1>10, CodewordHolds
<1> QED
  BY <1>5, <1>11

LEMMA InvAlways == BitsSpec => []BitsInv
<1>1. BitsInit => BitsInv
  BY InitInv
<1>2. BitsInv /\ [BitsNext]_bitsVars => BitsInv'
  <2>1. BitsInv /\ UNCHANGED bitsVars => BitsInv'
    <3> SUFFICES ASSUME BitsInv, UNCHANGED bitsVars PROVE BitsInv'
      OBVIOUS
    <3>1. /\ half_bit' = half_bit /\ sync_buffer' = sync_buffer
          /\ codeword_buffer' = codeword_buffer /\ codeword_pos' = codeword_pos
          /\ bit_count' = bit_count /\ codeword' = codeword
          /\ one_begun' = one_begun /\ sent' = sent /\ received' = received
          /\ synced' = synced
      BY DEF bitsVars, registerVars
    <3>2. Registers' = Registers /\ Heard' = Heard
      BY <3>1 DEF Registers, Heard
    <3> QED
      BY <3>1, <3>2 DEF BitsInv, SignalOK, InStep, CodewordType, HoldsHeard, Counted
  <2> QED
    BY <2>1, StepInv
<1> QED
  BY <1>1, <1>2, PTL DEF BitsSpec

-----------------------------------------------------------------------------
(* The position stays in the ring, the registers keep their widths, and    *)
(* there is always a marker for the loop that looks for it.                *)
THEOREM RegistersCorrect == BitsSpec => []RegistersOK
<1>1. BitsInv => RegistersOK
  BY InvOK
<1> QED
  BY <1>1, InvAlways, PTL

(* A codeword accepted after an undisturbed frame is that frame, bit by    *)
(* bit, wherever the marker and the ring stood.                            *)
THEOREM CodewordIsTheFrame == BitsSpec => []CodewordIsFrame
<1>1. BitsInit => CodewordIsFrame
  BY InitInv
<1>2. BitsInv /\ CodewordIsFrame /\ [BitsNext]_bitsVars => CodewordIsFrame'
  <2>1. CodewordIsFrame /\ UNCHANGED bitsVars => CodewordIsFrame'
    BY DEF CodewordIsFrame, bitsVars, registerVars
  <2> QED
    BY <2>1, FrameStep
<1> QED
  BY <1>1, <1>2, InvAlways, PTL DEF BitsSpec

(* A sync word is found when it was sent and at no other time, once a word *)
(* of bits was received after the one before it.                           *)
THEOREM SyncFoundWhenSent == BitsSpec => SyncWhenSent
<1>1. BitsInv /\ [BitsNext]_bitsVars =>
        [received >= WordBits - 1 /\ Len(sent') >= WordBits =>
           (synced' <=> ~one_begun' /\ EndsInSyncWord(sent'))]_bitsVars
  BY SyncStep
<1> QED
  BY <1>1, InvAlways, PTL DEF BitsSpec, SyncWhenSent

-----------------------------------------------------------------------------
(***************************************************************************)
(* IntervalTracker.                                                        *)
(***************************************************************************)

(* The limits are numbers in order.                                        *)
LEMMA Limits ==
  /\ TC_MIN_INTERVAL \in Nat /\ TC_MAX_INTERVAL \in Nat
  /\ TC_MIN_INTERVAL <= TC_MAX_INTERVAL
  BY TrackerAssumption

(* The types of the reader's two fields.                                   *)
TrackerTypes ==
  /\ bit_interval \in TC_MIN_INTERVAL .. TC_MAX_INTERVAL
  /\ bit_interval_adjust \in Int

SignalTypes ==
  /\ half \in HalfBits
  /\ half_sent \in BOOLEAN
  /\ last_bit \in {0, 1}
  /\ misread \in BOOLEAN

CountTypes ==
  /\ run \in 0 .. MaxRun
  /\ disturbances \in 0 .. MaxDisturbances

(* A transition keeps the types, whatever the length.                    *)
LEMMA TransitionType ==
  ASSUME TrackerTypes, NEW length \in Int, Transition(length)
  PROVE  TrackerTypes'
<1>1. ASSUME NEW direction \in {-1, 1}, Adjust(direction) PROVE TrackerTypes'
  <2>1. bit_interval_adjust' \in Int
    BY <1>1 DEF Adjust, Grown, TrackerTypes
  <2>2. bit_interval + bit_interval_adjust' \in Int
    BY <2>1, Limits DEF TrackerTypes
  <2> QED
    BY <1>1, <2>1, <2>2, Limits DEF Adjust, Limited, TrackerTypes
<1>2. ASSUME ResetAdjust PROVE TrackerTypes'
  BY <1>2 DEF ResetAdjust, TrackerTypes
<1> QED
  BY <1>1, <1>2 DEF Transition

(* The intervals the signal sends are numbers, in a range around a bit or  *)
(* half a bit.                                                             *)
LEMMA HalfBitRange ==
  ASSUME NEW h \in HalfBits
  PROVE  /\ h \in Nat /\ h >= 7
         /\ TC_MIN_INTERVAL <= 2 * h - 3 /\ 2 * h + 3 <= TC_MAX_INTERVAL
  BY TrackerAssumption

LEMMA ErrorRange ==
  ASSUME NEW error \in Jitter
  PROVE  error \in -1 .. 1
  BY TrackerAssumption

-----------------------------------------------------------------------------
(* Types.                                                                  *)

LEMMA SignalStep == SignalTypes /\ [Next]_vars => SignalTypes'
<1> SUFFICES ASSUME SignalTypes, [Next]_vars PROVE SignalTypes'
  OBVIOUS
<1> USE DEF SignalTypes
<1>1. ASSUME NEW error \in Jitter, SendZero(error) PROVE SignalTypes'
  BY <1>1 DEF SendZero, Send, IsHalf
<1>2. ASSUME NEW error \in Jitter, SendFirstHalf(error) PROVE SignalTypes'
  BY <1>2 DEF SendFirstHalf, SendHalf, Send, IsHalf
<1>3. ASSUME NEW error \in Jitter, SendSecondHalf(error) PROVE SignalTypes'
  BY <1>3 DEF SendSecondHalf, SendHalf, IsHalf
<1>4. CASE Disturb
  BY <1>4 DEF Disturb
<1>5. CASE UNCHANGED vars
  BY <1>5 DEF vars, signalVars
<1> QED
  BY <1>1, <1>2, <1>3, <1>4, <1>5 DEF Next, Signal

LEMMA CountStep == CountTypes /\ [Next]_vars => CountTypes'
<1> SUFFICES ASSUME CountTypes, [Next]_vars PROVE CountTypes'
  OBVIOUS
<1>1. MaxRun \in Nat \ {0} /\ MaxDisturbances \in Nat
  BY TrackerAssumption
<1>2. ASSUME NEW bit, Send(bit) PROVE CountTypes'
  BY <1>1, <1>2 DEF CountTypes, Send
<1>3. CASE Disturb
  BY <1>1, <1>3 DEF CountTypes, Disturb
<1>4. CASE UNCHANGED <<run, disturbances>>
  BY <1>4 DEF CountTypes
<1> QED
  BY <1>2, <1>3, <1>4
     DEF Next, Signal, SendZero, SendFirstHalf, SendSecondHalf, vars, signalVars

LEMMA TrackerStep ==
  TrackerTypes /\ SignalTypes /\ [Next]_vars => TrackerTypes'
<1> SUFFICES ASSUME TrackerTypes, SignalTypes, [Next]_vars PROVE TrackerTypes'
  OBVIOUS
<1>1. half \in Nat
  BY HalfBitRange DEF SignalTypes
<1>2. ASSUME NEW error \in Jitter,
             Transition(2 * half + error) \/ Transition(half + error)
      PROVE  TrackerTypes'
  BY <1>1, <1>2, ErrorRange, TransitionType
<1>3. ASSUME NEW length \in Disturbances, Transition(length)
      PROVE  TrackerTypes'
  BY <1>3, TransitionType, TrackerAssumption
<1>4. CASE UNCHANGED vars
  BY <1>4 DEF TrackerTypes, vars, trackerVars
<1> QED
  BY <1>2, <1>3, <1>4
     DEF Next, Signal, SendZero, SendFirstHalf, SendSecondHalf, SendHalf, Disturb

(* The estimate stays within its limits, whatever the signal.              *)
THEOREM TypeCorrect == Spec => []TypeOK
<1>1. Init => TrackerTypes /\ SignalTypes /\ CountTypes
  <2> SUFFICES ASSUME Init PROVE TrackerTypes /\ SignalTypes /\ CountTypes
    OBVIOUS
  <2>1. TrackerTypes
    BY Limits DEF Init, TrackerTypes
  <2>2. SignalTypes
    BY DEF Init, SignalTypes
  <2>3. CountTypes
    BY TrackerAssumption DEF Init, CountTypes
  <2> QED
    BY <2>1, <2>2, <2>3
<1>2. TrackerTypes /\ SignalTypes /\ CountTypes /\ [Next]_vars
        => TrackerTypes' /\ SignalTypes' /\ CountTypes'
  BY TrackerStep, SignalStep, CountStep
<1>3. TrackerTypes /\ SignalTypes /\ CountTypes => TypeOK
  BY DEF TypeOK, TrackerTypes, SignalTypes, CountTypes
<1> QED
  BY <1>1, <1>2, <1>3, PTL DEF Spec

-----------------------------------------------------------------------------
(* Staying locked.                                                         *)

(* A locked reader takes an length of about a bit for a full one.  It    *)
(* may lengthen the estimate, by 1 and then by 2, after which the estimate *)
(* is at least a bit and no length of the signal exceeds it by more      *)
(* than 1.                                                                 *)
LEMMA LockedFull ==
  ASSUME NEW h \in HalfBits, half = h, half' = h, Locked,
         bit_interval \in Int, bit_interval_adjust \in Int,
         NEW length \in 2 * h - 1 .. 2 * h + 1, Transition(length)
  PROVE  Locked' /\ ~IsHalf(length)
<1>1. /\ h \in Nat /\ h >= 7
      /\ TC_MIN_INTERVAL <= 2 * h - 3 /\ 2 * h + 3 <= TC_MAX_INTERVAL
  BY HalfBitRange
<1>2. ~IsHalf(length)
  BY <1>1 DEF Locked, IsHalf
<1>3. ASSUME ResetAdjust PROVE Locked'
  BY <1>1, <1>3 DEF Locked, ResetAdjust
<1>4. ASSUME length > bit_interval + 1, Adjust(1) PROVE Locked'
  <2>1. bit_interval < 2 * h
    BY <1>1, <1>4
  <2>2. bit_interval_adjust' \in 1 .. 2
    BY <1>1, <1>4, <2>1 DEF Adjust, Grown, Locked
  <2>3. bit_interval' = bit_interval + bit_interval_adjust'
    BY <1>1, <1>4, <2>1, <2>2, Limits DEF Adjust, Limited, Locked
  <2>4. bit_interval_adjust' = 2 => bit_interval >= 2 * h - 2
    BY <1>1, <1>4, <2>1 DEF Adjust, Grown, Locked
  <2>5. bit_interval >= 2 * h - 3
    BY <1>1 DEF Locked
  <2>6. CASE bit_interval_adjust' = 1
    BY <1>1, <2>1, <2>3, <2>5, <2>6 DEF Locked
  <2>7. CASE bit_interval_adjust' = 2
    BY <1>1, <2>1, <2>3, <2>4, <2>7 DEF Locked
  <2> QED
    BY <2>2, <2>6, <2>7
<1> QED
  BY <1>2, <1>3, <1>4 DEF Transition

(* It takes an length of about half a bit for a half one.  It may        *)
(* shorten the estimate, by 1, 2 and 3, after which the estimate is so     *)
(* short that twice no half length of the signal is less.                *)
LEMMA LockedHalf ==
  ASSUME NEW h \in HalfBits, half = h, half' = h, Locked,
         bit_interval \in Int, bit_interval_adjust \in Int,
         NEW length \in h - 1 .. h + 1, Transition(length)
  PROVE  Locked' /\ IsHalf(length)
<1>1. /\ h \in Nat /\ h >= 7
      /\ TC_MIN_INTERVAL <= 2 * h - 3 /\ 2 * h + 3 <= TC_MAX_INTERVAL
  BY HalfBitRange
<1>2. IsHalf(length)
  BY <1>1 DEF Locked, IsHalf
<1>3. ASSUME ResetAdjust PROVE Locked'
  BY <1>1, <1>3 DEF Locked, ResetAdjust
<1>4. ASSUME 2 * length + 1 < bit_interval, Adjust(-1) PROVE Locked'
  <2>1. bit_interval >= 2 * h
    BY <1>1, <1>4
  <2>2. bit_interval_adjust' \in -3 .. -1
    BY <1>1, <1>4, <2>1 DEF Adjust, Grown, Locked
  <2>3. bit_interval' = bit_interval + bit_interval_adjust'
    BY <1>1, <1>4, <2>1, <2>2, Limits DEF Adjust, Limited, Locked
  <2>4. /\ bit_interval_adjust' = -2 => bit_interval <= 2 * h + 2
        /\ bit_interval_adjust' = -3 => bit_interval <= 2 * h
    BY <1>1, <1>4, <2>1 DEF Adjust, Grown, Locked
  <2>5. bit_interval <= 2 * h + 3
    BY <1>1 DEF Locked
  <2>6. CASE bit_interval_adjust' = -1
    BY <1>1, <2>1, <2>3, <2>5, <2>6 DEF Locked
  <2>7. CASE bit_interval_adjust' = -2
    BY <1>1, <2>1, <2>3, <2>4, <2>7 DEF Locked
  <2>8. CASE bit_interval_adjust' = -3
    BY <1>1, <2>1, <2>3, <2>4, <2>8 DEF Locked
  <2> QED
    BY <2>2, <2>6, <2>7, <2>8
<1> QED
  BY <1>2, <1>3, <1>4 DEF Transition

LEMMA LockedStep ==
  TypeOK /\ [Next]_vars
    => [Locked /\ disturbances' = disturbances => Locked' /\ ~misread']_vars
<1> SUFFICES ASSUME TypeOK, Next, Locked, disturbances' = disturbances
             PROVE  Locked' /\ ~misread'
  OBVIOUS
<1>1. half \in HalfBits /\ half \in Nat /\ bit_interval \in Int
      /\ bit_interval_adjust \in Int
  BY HalfBitRange, Limits DEF TypeOK
<1>2. ASSUME NEW error \in Jitter, SendZero(error)
      PROVE  Locked' /\ ~misread'
  <2>1. 2 * half + error \in 2 * half - 1 .. 2 * half + 1
    BY <1>1, ErrorRange
  <2>2. half' = half /\ Transition(2 * half + error)
        /\ misread' = IsHalf(2 * half + error)
    BY <1>2 DEF SendZero, Send
  <2> QED
    BY <1>1, <2>1, <2>2, LockedFull
<1>3. ASSUME NEW error \in Jitter, SendHalf(error), half' = half
      PROVE  Locked' /\ ~misread'
  <2>1. half + error \in half - 1 .. half + 1
    BY <1>1, ErrorRange
  <2>2. Transition(half + error) /\ misread' = ~IsHalf(half + error)
    BY <1>3 DEF SendHalf
  <2> QED
    BY <1>1, <1>3, <2>1, <2>2, LockedHalf
<1>4. ~Disturb
  BY DEF Disturb, TypeOK
<1> QED
  BY <1>2, <1>3, <1>4 DEF Next, Signal, SendFirstHalf, SendSecondHalf, Send

(* Once locked, the reader stays locked and reads every length for what  *)
(* it is until the signal is disturbed.                                    *)
THEOREM ReaderStaysLocked == Spec => StaysLocked
<1> QED
  BY TypeCorrect, LockedStep, PTL DEF Spec, StaysLocked

-----------------------------------------------------------------------------
(***************************************************************************)
(* ZeroCrossings.                                                          *)
(***************************************************************************)

LEMMA Reduced ==
  ASSUME NEW x \in Nat, x < UnsignedSize
  PROVE  x % UnsignedSize = x
<1>1. UnsignedSize \in Nat \ {0} /\ x \in 0 .. UnsignedSize - 1
  BY CrossingAssumption
<1>2. (UnsignedSize * 0 + x) % UnsignedSize = x
  BY <1>1, DivMod
<1>3. UnsignedSize * 0 + x = x
  BY <1>1
<1> QED
  BY <1>2, <1>3

(* A set of numbers has a least member: < is well-founded on them.         *)
LEMMA LeastMember ==
  ASSUME NEW R, IsWellFoundedOn(R, Nat),
         \A x, y \in Nat : y < x => <<y, x>> \in R,
         NEW S, S \subseteq Nat, S # {}
  PROVE  \E x \in S : \A y \in S : x <= y
<1>1. PICK x \in S : \A y \in S : ~ (<<y, x>> \in R)
  BY WFMin
<1>2. ASSUME NEW y \in S PROVE x <= y
  <2>1. x \in Nat /\ y \in Nat
    OBVIOUS
  <2>2. ~(y < x)
    BY <1>1, <2>1, Zenon
  <2> QED
    BY <2>1, <2>2
<1> QED
  BY <1>2

LEMMA NatMin ==
  ASSUME NEW S, S \subseteq Nat, S # {}
  PROVE  /\ Min(S) \in S
         /\ \A x \in S : Min(S) <= x
<1>1. \A x, y \in Nat : y < x => <<y, x>> \in OpToRel(<, Nat)
  BY Zenon DEF OpToRel
<1>2. \E x \in S : \A y \in S : x <= y
  BY <1>1, NatLessThanWellFounded, LeastMember, Zenon
<1> QED
  BY <1>2 DEF Min

LEMMA OffsetRange ==
  ASSUME NEW a \in Int, NEW b \in Int, Positive(a) # Positive(b)
  PROVE  Offset(a, b) \in 0 .. TC_SAMPLE_TIME
<1> DEFINE x == Abs(a)
           y == Abs(a - b)
           q == (TC_SAMPLE_TIME * x) \div y
<1>1. x \in Nat /\ y \in Nat /\ x <= y /\ y > 0
  BY DEF Abs, Positive
<1> HIDE DEF x, y
<1>2. TC_SAMPLE_TIME \in Nat /\ TC_SAMPLE_TIME * x \in Nat
  BY <1>1, CrossingAssumption
<1>3. TC_SAMPLE_TIME * x <= TC_SAMPLE_TIME * y
  BY <1>1, <1>2
<1>4. q \in Nat /\ y * q <= TC_SAMPLE_TIME * x
  BY <1>1, <1>2
<1> HIDE DEF q
<1>5. q <= TC_SAMPLE_TIME
  <2> SUFFICES ASSUME q >= TC_SAMPLE_TIME + 1 PROVE FALSE
    BY <1>2, <1>4
  <2>1. y * q >= y * (TC_SAMPLE_TIME + 1)
    BY <1>1, <1>2, <1>4
  <2>2. y * (TC_SAMPLE_TIME + 1) = TC_SAMPLE_TIME * y + y
    BY <1>1, <1>2
  <2> QED
    BY <1>1, <1>2, <1>3, <1>4, <2>1, <2>2
<1>6. Offset(a, b) = q
  BY DEF Offset, q, x, y
<1> QED
  BY <1>2, <1>4, <1>5, <1>6

(***************************************************************************)
(* How far tcdecode has come in the buffer.  At(k) points to the sample    *)
(* after sample k, and Reached(k) says what is known when the samples up   *)
(* to k have been searched.                                                *)
(***************************************************************************)
At(k) == use_channel + channels * k

Reached(k) ==
  /\ found <= k /\ found \in Transitions \union {0}
  /\ \A i \in Transitions : i <= k => i <= found
  /\ prev_sample = Sample(k)
  /\ prev_transition = SinceFound(SampleTime(k)) % UnsignedSize
  /\ tc_is_valid => SinceFound(SampleTime(k)) < MAX_INTERVAL

ReaderTypes ==
  /\ channels \in Channels /\ use_channel \in 0 .. channels - 1
  /\ tc_is_valid \in BOOLEAN
  /\ buffer \in Buffers \union {<<>>}
  /\ before \in Samples \union {0}
  /\ found \in 0 .. Len(buffer) /\ since \in 0 .. MaxSilence
  /\ interval \in 0 .. UnsignedSize - 1
  /\ Transitions # {} \/ since + SampleTime(Len(buffer)) <= MaxSilence

Searched ==
  \/ stage = "idle" /\ frames = 0 /\ Reached(Len(buffer))
  \/ /\ stage = "call" /\ frames \in 0 .. Len(buffer)
     /\ Reached(Len(buffer) - frames)
     /\ frames > 0 => pos = channels * (Len(buffer) - frames)
  \/ /\ stage = "search" /\ frames \in 0 .. Len(buffer)
     /\ dataend = At(Len(buffer))
     /\ \E k \in 0 .. Len(buffer) : data = At(k) /\ Reached(k)

CrossingInv == ReaderTypes /\ Searched

LEMMA Constants ==
  /\ TC_SAMPLE_TIME \in Nat /\ TC_SAMPLE_TIME > 0
  /\ MAX_INTERVAL \in Nat /\ TC_SAMPLE_TIME < MAX_INTERVAL
  /\ MaxLength \in Nat /\ SampleTime(MaxLength) \in Nat
  /\ UnsignedSize \in Nat /\ UnsignedSize > 0
  /\ MAX_INTERVAL + SampleTime(MaxLength) < UnsignedSize
  /\ MaxSilence \in Nat /\ UnsignedSize <= MaxSilence
<1>1. /\ TC_SAMPLE_TIME \in Nat /\ TC_SAMPLE_TIME > 0 /\ MaxLength \in Nat
      /\ MAX_INTERVAL \in Nat /\ TC_SAMPLE_TIME < MAX_INTERVAL
      /\ UnsignedSize \in Nat /\ MaxSilence \in Nat /\ UnsignedSize <= MaxSilence
  BY CrossingAssumption
<1>2. SampleTime(MaxLength) = MaxLength * TC_SAMPLE_TIME /\ SampleTime(MaxLength) \in Nat
  BY <1>1 DEF SampleTime
<1> QED
  BY <1>1, <1>2, CrossingAssumption

LEMMA BufferLength ==
  ASSUME NEW b \in Buffers
  PROVE  b \in Seq(Samples) /\ Len(b) \in 1 .. MaxLength
<1>1. PICK n \in 1 .. MaxLength : b \in [1 .. n -> Samples]
  BY DEF Buffers
<1>2. n \in Nat
  BY <1>1, CrossingAssumption
<1>3. b \in Seq(Samples) /\ Len(b) = n
  BY <1>1, <1>2, SeqDef
<1> QED
  BY <1>1, <1>3

LEMMA Basics ==
  ASSUME ReaderTypes
  PROVE  /\ channels \in Nat /\ channels > 0
         /\ use_channel \in Nat /\ use_channel < channels
         /\ Len(buffer) \in Nat /\ Len(buffer) <= MaxLength
         /\ \A i \in 0 .. Len(buffer) :
              Sample(i) \in Samples \union {0} /\ Sample(i) \in Int
         /\ since \in Nat
<1>1. channels \in Nat /\ channels > 0 /\ use_channel \in Nat /\ use_channel < channels
  BY CrossingAssumption DEF ReaderTypes
<1>2. buffer \in Seq(Samples) /\ Len(buffer) \in 0 .. MaxLength
  <2>1. CASE buffer \in Buffers
    BY <2>1, BufferLength, Constants
  <2>2. CASE buffer = <<>>
    BY <2>2, Constants
  <2> QED
    BY <2>1, <2>2 DEF ReaderTypes
<1>3. \A i \in 1 .. Len(buffer) : buffer[i] \in Samples
  BY <1>2
<1>4. ASSUME NEW i \in 0 .. Len(buffer) PROVE Sample(i) \in Samples \union {0}
  BY <1>2, <1>3 DEF Sample, ReaderTypes
<1>5. \A i \in 0 .. Len(buffer) :
        Sample(i) \in Samples \union {0} /\ Sample(i) \in Int
  <2> TAKE i \in 0 .. Len(buffer)
  <2>1. Samples \union {0} \subseteq Int
    BY CrossingAssumption
  <2> QED
    BY <1>4, <2>1
<1>6. since \in Nat
  BY Constants DEF ReaderTypes
<1> QED
  BY <1>1, <1>2, <1>5, <1>6, Constants

(* Sample i of the channel in use is where the pointers take it from.      *)
LEMMA MemoryAt ==
  ASSUME ReaderTypes, NEW i \in 1 .. Len(buffer)
  PROVE  /\ Memory(At(i - 1)) = Sample(i)
         /\ At(i - 1) \div channels + 1 = i
<1> DEFINE d == At(i - 1)
<1>1. /\ channels \in Nat \ {0} /\ use_channel \in 0 .. channels - 1
      /\ Len(buffer) \in Nat
  BY Basics
<1>2. d \div channels = i - 1 /\ d % channels = use_channel
  <2>1. d = channels * (i - 1) + use_channel /\ i - 1 \in Int
    BY <1>1 DEF At
  <2> HIDE DEF d
  <2>2. /\ (channels * (i - 1) + use_channel) \div channels = i - 1
        /\ (channels * (i - 1) + use_channel) % channels = use_channel
    BY <1>1, <2>1, DivMod
  <2> QED
    BY <2>1, <2>2
<1>3. d \in 0 .. Len(buffer) * channels - 1
  <2>1. channels * (i - 1) \in Nat
    BY <1>1
  <2>2. channels * (i - 1) + channels = channels * i /\ channels * i <= channels * Len(buffer)
    BY <1>1
  <2>3. Len(buffer) * channels = channels * Len(buffer) /\ channels * i \in Nat
    BY <1>1
  <2> QED
    BY <1>1, <2>1, <2>2, <2>3 DEF At
<1> HIDE DEF d
<1>4. Memory(d) = buffer[(i - 1) + 1]
  BY <1>2, <1>3 DEF Memory
<1> QED
  BY <1>1, <1>2, <1>4 DEF d, Sample

(* Where the search ends: behind sample j - 1, the last one that has the   *)
(* sign of sample k.                                                       *)
SearchEnd(k, j) ==
  /\ Found = At(j - 1)
  /\ Found = dataend <=> j = Len(buffer) + 1
  /\ Elapsed = SampleTime(j - 1 - k)
  /\ SampleBefore = Sample(j - 1)
  /\ \A i \in k .. j - 1 : Positive(Sample(i)) = Positive(Sample(k))
  /\ j <= Len(buffer) => /\ Memory(Found) = Sample(j)
                         /\ Positive(Sample(j)) # Positive(Sample(k))
                         /\ Found \div channels + 1 = j

(* The places where the loop of the search stops.                          *)
LEMMA EndsAre ==
  ASSUME ReaderTypes, NEW k \in 0 .. Len(buffer), data = At(k),
         dataend = At(Len(buffer)), prev_sample = Sample(k)
  PROVE  Ends = {At(j - 1) : j \in {i \in k + 1 .. Len(buffer) + 1 :
                   i = Len(buffer) + 1 \/ Positive(Sample(i)) # Positive(Sample(k))}}
<1>1. /\ channels \in Nat \ {0} /\ use_channel \in 0 .. channels - 1
      /\ Len(buffer) \in Nat
  BY Basics
<1>2. ASSUME NEW j \in k + 1 .. Len(buffer) + 1
      PROVE  /\ At(j - 1) \in data .. dataend
             /\ (At(j - 1) - data) % channels = 0
             /\ At(j - 1) = dataend <=> j = Len(buffer) + 1
  <2>1. /\ j - 1 \in Int /\ j - 1 - k \in Nat /\ Len(buffer) - (j - 1) \in Nat
    BY <1>1
  <2>2. channels * (j - 1 - k) = channels * (j - 1) - channels * k
    BY <1>1, <2>1
  <2>3. channels * (Len(buffer) - (j - 1)) = channels * Len(buffer) - channels * (j - 1)
    BY <1>1, <2>1
  <2>4. /\ channels * (j - 1 - k) \in Nat
        /\ channels * (Len(buffer) - (j - 1)) \in Nat
        /\ channels * (j - 1) \in Int /\ channels * k \in Int
        /\ channels * Len(buffer) \in Int
    BY <1>1, <2>1
  <2>5. At(j - 1) - data = channels * (j - 1 - k) + 0
    BY <1>1, <2>2, <2>4 DEF At
  <2>6. (channels * (j - 1 - k) + 0) % channels = 0
    BY <1>1, <2>1, DivMod
  <2>7. Len(buffer) - (j - 1) > 0 => channels * (Len(buffer) - (j - 1)) > 0
    BY <1>1, <2>1
  <2>8. At(j - 1) \in data .. dataend
    BY <1>1, <2>2, <2>3, <2>4 DEF At
  <2>9. At(j - 1) = dataend <=> j = Len(buffer) + 1
    BY <1>1, <2>1, <2>3, <2>4, <2>7 DEF At
  <2> QED
    BY <2>5, <2>6, <2>8, <2>9
<1>3. ASSUME NEW d \in data .. dataend, (d - data) % channels = 0
      PROVE  \E j \in k + 1 .. Len(buffer) + 1 : d = At(j - 1)
  <2> DEFINE m == (d - data) \div channels
  <2>1. data \in Int /\ dataend \in Int /\ d \in Int /\ data <= d /\ d <= dataend
    BY <1>1 DEF At
  <2>2. m \in Int /\ d - data = channels * m
    BY <1>1, <1>3, <2>1
  <2> HIDE DEF m
  <2>3. m >= 0
    <3>1. m <= -1 => channels * m <= -channels
      BY <1>1, <2>2
    <3> QED
      BY <1>1, <2>1, <2>2, <3>1
  <2>4. m <= Len(buffer) - k
    <3>1. m >= Len(buffer) - k + 1
            => channels * m >= channels * (Len(buffer) - k + 1)
      BY <1>1, <2>2
    <3>2. channels * (Len(buffer) - k + 1)
            = channels * Len(buffer) - channels * k + channels
      BY <1>1
    <3>3. dataend - data = channels * Len(buffer) - channels * k
      BY <1>1 DEF At
    <3>4. channels * Len(buffer) \in Int /\ channels * k \in Int
      BY <1>1
    <3> QED
      BY <1>1, <2>1, <2>2, <3>1, <3>2, <3>3, <3>4
  <2>5. d = At((k + m + 1) - 1) /\ k + m + 1 \in k + 1 .. Len(buffer) + 1
    <3>1. channels * (k + m) = channels * k + channels * m
      BY <1>1, <2>2
    <3>2. channels * k \in Int /\ channels * m \in Int
      BY <1>1, <2>2
    <3>3. (k + m + 1) - 1 = k + m
      BY <2>2
    <3> QED
      BY <1>1, <2>1, <2>2, <2>3, <2>4, <3>1, <3>2, <3>3 DEF At
  <2> QED
    BY <2>5
<1>4. ASSUME NEW j \in k + 1 .. Len(buffer) + 1, j # Len(buffer) + 1
      PROVE  Memory(At(j - 1)) = Sample(j)
  <2>1. j \in 1 .. Len(buffer)
    BY <1>1, <1>4
  <2> QED
    BY <2>1, MemoryAt
<1>5. ASSUME NEW d \in Ends
      PROVE  \E j \in k + 1 .. Len(buffer) + 1 :
               /\ j = Len(buffer) + 1 \/ Positive(Sample(j)) # Positive(Sample(k))
               /\ d = At(j - 1)
  <2>1. PICK j \in k + 1 .. Len(buffer) + 1 : d = At(j - 1)
    BY <1>3 DEF Ends
  <2>2. j = Len(buffer) + 1 \/ Positive(Memory(d)) # Positive(prev_sample)
    BY <1>2, <2>1 DEF Ends
  <2> QED
    BY <1>4, <2>1, <2>2
<1>6. ASSUME NEW j \in k + 1 .. Len(buffer) + 1,
             j = Len(buffer) + 1 \/ Positive(Sample(j)) # Positive(Sample(k))
      PROVE  At(j - 1) \in Ends
  BY <1>2, <1>4, <1>6 DEF Ends
<1> QED
  BY <1>5, <1>6

LEMMA SearchEnds ==
  ASSUME ReaderTypes, NEW k \in 0 .. Len(buffer), data = At(k),
         dataend = At(Len(buffer)), prev_sample = Sample(k)
  PROVE  \E j \in k + 1 .. Len(buffer) + 1 : SearchEnd(k, j)
<1> DEFINE Stops == {i \in k + 1 .. Len(buffer) + 1 :
                       i = Len(buffer) + 1 \/ Positive(Sample(i)) # Positive(Sample(k))}
<1>1. /\ channels \in Nat \ {0} /\ use_channel \in 0 .. channels - 1
      /\ Len(buffer) \in Nat
  BY Basics
<1>2. Ends = {At(j - 1) : j \in Stops}
  BY EndsAre
<1>3. /\ Stops \subseteq k + 1 .. Len(buffer) + 1 /\ Len(buffer) + 1 \in Stops
      /\ \A i \in k + 1 .. Len(buffer) + 1 :
           i \notin Stops => Positive(Sample(i)) = Positive(Sample(k))
      /\ \A i \in Stops : i <= Len(buffer)
           => Positive(Sample(i)) # Positive(Sample(k))
  BY <1>1
<1> HIDE DEF Stops
<1>4. \A m, n \in 0 .. Len(buffer) :
        /\ At(m) \in Nat /\ (m < n => At(m) < At(n))
        /\ At(n) - At(m) = channels * (n - m)
  <2> TAKE m, n \in 0 .. Len(buffer)
  <2>1. channels * m \in Nat /\ channels * n \in Nat
    BY <1>1
  <2>2. channels * (n - m) = channels * n - channels * m
    BY <1>1
  <2>3. m < n => channels * (n - m) > 0
    BY <1>1
  <2> QED
    BY <1>1, <2>1, <2>2, <2>3 DEF At
<1>5. Ends \subseteq Nat /\ Ends # {}
  <2>1. ASSUME NEW i \in Stops PROVE At(i - 1) \in Nat
    <3>1. i - 1 \in 0 .. Len(buffer)
      BY <1>1, <1>3
    <3> QED
      BY <1>4, <3>1
  <2> QED
    BY <1>2, <1>3, <2>1
<1>6. Found \in Ends /\ \A d \in Ends : Found <= d
  BY <1>5, NatMin DEF Found
<1>7. PICK j \in Stops : Found = At(j - 1)
  BY <1>2, <1>6
<1>8. j \in k + 1 .. Len(buffer) + 1 /\ j - 1 \in k .. Len(buffer)
  BY <1>1, <1>3
<1>9. Found = dataend <=> j = Len(buffer) + 1
  <2>1. j - 1 \in 0 .. Len(buffer) /\ Len(buffer) \in 0 .. Len(buffer)
    BY <1>1, <1>8
  <2>2. j - 1 < Len(buffer) => At(j - 1) < At(Len(buffer))
    BY <1>4, <2>1
  <2>3. At(j - 1) \in Nat /\ At(Len(buffer)) \in Nat
    BY <1>4, <2>1
  <2>4. CASE j = Len(buffer) + 1
    <3>1. j - 1 = Len(buffer)
      BY <1>1, <2>4
    <3> QED
      BY <1>1, <1>7, <2>4, <3>1, Zenon
  <2>5. CASE j - 1 < Len(buffer)
    BY <1>1, <1>7, <2>2, <2>3, <2>5
  <2> QED
    BY <1>1, <1>8, <2>4, <2>5
<1>10. Elapsed = SampleTime(j - 1 - k)
  <2>1. /\ Found - data = channels * (j - 1 - k) /\ j - 1 - k \in Nat
        /\ TC_SAMPLE_TIME \in Nat
    <3>1. j - 1 \in 0 .. Len(buffer) /\ k \in 0 .. Len(buffer) /\ j - 1 - k \in Nat
      BY <1>1, <1>8
    <3>2. At(j - 1) - At(k) = channels * (j - 1 - k)
      BY <1>4, <3>1, Zenon
    <3> QED
      BY <1>7, <3>1, <3>2, Constants
  <2>2. TC_SAMPLE_TIME * (channels * (j - 1 - k))
          = channels * (TC_SAMPLE_TIME * (j - 1 - k)) + 0
    BY <1>1, <2>1
  <2>3. TC_SAMPLE_TIME * (j - 1 - k) \in Int /\ 0 \in 0 .. channels - 1
    BY <1>1, <2>1
  <2>4. (channels * (TC_SAMPLE_TIME * (j - 1 - k)) + 0) \div channels
          = TC_SAMPLE_TIME * (j - 1 - k)
    BY <1>1, <2>3, DivMod, Zenon
  <2> QED
    BY <2>1, <2>2, <2>4 DEF Elapsed, SampleTime
<1>11. SampleBefore = Sample(j - 1)
  <2>1. CASE j = k + 1
    <3>1. Found = data /\ j - 1 = k
      BY <1>1, <1>7, <2>1
    <3> QED
      BY <3>1 DEF SampleBefore
  <2>2. CASE j # k + 1
    <3>1. j - 1 \in 1 .. Len(buffer) /\ k < j - 1
      BY <1>1, <1>8, <2>2
    <3>2. Memory(At((j - 1) - 1)) = Sample(j - 1)
      BY <3>1, MemoryAt
    <3>3. At(k) < At(j - 1) /\ At(k) \in Nat
      BY <1>1, <1>4, <1>8, <3>1
    <3>4. Found # data
      BY <1>7, <3>3
    <3>5. At(j - 1) - At((j - 1) - 1) = channels * ((j - 1) - ((j - 1) - 1))
      <4>1. (j - 1) - 1 \in 0 .. Len(buffer) /\ j - 1 \in 0 .. Len(buffer)
        BY <1>1, <3>1
      <4> QED
        BY <1>4, <4>1
    <3>6. At((j - 1) - 1) = At(j - 1) - channels
      <4>1. (j - 1) - 1 \in 0 .. Len(buffer) /\ j - 1 \in 0 .. Len(buffer)
        BY <1>1, <3>1
      <4>2. (j - 1) - ((j - 1) - 1) = 1 /\ channels * 1 = channels
        BY <1>1, <4>1
      <4>3. At(j - 1) \in Nat /\ At((j - 1) - 1) \in Nat
        BY <1>4, <4>1
      <4> QED
        BY <1>1, <3>5, <4>2, <4>3
    <3> QED
      BY <1>7, <3>2, <3>4, <3>6 DEF SampleBefore
  <2> QED
    BY <2>1, <2>2
<1>12. ASSUME NEW i \in k .. j - 1 PROVE Positive(Sample(i)) = Positive(Sample(k))
  <2>1. CASE i = k
    BY <2>1
  <2>2. CASE i # k
    <3>1. /\ i \in k + 1 .. Len(buffer) + 1
          /\ i - 1 \in 0 .. Len(buffer) /\ j - 1 \in 0 .. Len(buffer) /\ i - 1 < j - 1
      BY <1>1, <1>8, <2>2
    <3>2. At(i - 1) < At(j - 1) /\ At(i - 1) \in Nat /\ At(j - 1) \in Nat
      BY <1>4, <3>1
    <3>3. At(i - 1) \notin Ends
      BY <1>6, <1>7, <3>2
    <3>4. i \notin Stops
      BY <1>2, <3>3
    <3> QED
      BY <1>3, <3>1, <3>4
  <2> QED
    BY <2>1, <2>2
<1>13. ASSUME j <= Len(buffer)
       PROVE  /\ Memory(Found) = Sample(j)
              /\ Positive(Sample(j)) # Positive(Sample(k))
              /\ Found \div channels + 1 = j
  <2>1. j \in 1 .. Len(buffer)
    BY <1>1, <1>8, <1>13
  <2> QED
    BY <1>3, <1>7, <1>13, <2>1, MemoryAt
<1> QED
  BY <1>7, <1>8, <1>9, <1>10, <1>11, <1>12, <1>13 DEF SearchEnd

(* Between sample k and the end of the search the sign never changes.      *)
LEMMA NoneBetween ==
  ASSUME ReaderTypes, NEW k \in 0 .. Len(buffer),
         NEW j \in k + 1 .. Len(buffer) + 1, SearchEnd(k, j)
  PROVE  /\ \A i \in Transitions : i < j => i <= k
         /\ j <= Len(buffer) => j \in Transitions
<1>1. Len(buffer) \in Nat
  BY Basics
<1>2. \A i \in k .. j - 1 : Positive(Sample(i)) = Positive(Sample(k))
  BY DEF SearchEnd
<1>3. ASSUME NEW i \in Transitions, i < j, ~(i <= k) PROVE FALSE
  <2>1. i \in k .. j - 1 /\ i - 1 \in k .. j - 1
    BY <1>1, <1>3 DEF Transitions
  <2>2. Positive(Sample(i - 1)) # Positive(Sample(i))
    BY DEF Transitions
  <2> QED
    BY <1>2, <2>1, <2>2
<1>4. ASSUME j <= Len(buffer) PROVE j \in Transitions
  <2>1. j \in 1 .. Len(buffer) /\ j - 1 \in k .. j - 1
    BY <1>1, <1>4
  <2>2. Positive(Sample(j)) # Positive(Sample(k))
    BY <1>4 DEF SearchEnd
  <2>3. Positive(Sample(j - 1)) = Positive(Sample(k))
    BY <1>2, <2>1
  <2> QED
    BY <2>1, <2>2, <2>3 DEF Transitions
<1> QED
  BY <1>3, <1>4

(* A transition lies between two samples.                                  *)
LEMMA PlaceRange ==
  ASSUME ReaderTypes, NEW i \in Transitions
  PROVE  /\ i \in 1 .. Len(buffer)
         /\ Offset(Sample(i - 1), Sample(i)) \in 0 .. TC_SAMPLE_TIME
         /\ Place(i) \in Int
         /\ SampleTime(i) - Place(i)
              = TC_SAMPLE_TIME - Offset(Sample(i - 1), Sample(i))
<1>1. i \in 1 .. Len(buffer) /\ Len(buffer) \in Nat
  BY Basics DEF Transitions
<1>2. Sample(i - 1) \in Int /\ Sample(i) \in Int
  <2>1. i - 1 \in 0 .. Len(buffer) /\ i \in 0 .. Len(buffer)
    BY <1>1
  <2> QED
    BY <2>1, Basics
<1>3. Positive(Sample(i - 1)) # Positive(Sample(i))
  BY DEF Transitions
<1>4. Offset(Sample(i - 1), Sample(i)) \in 0 .. TC_SAMPLE_TIME
  BY <1>2, <1>3, OffsetRange
<1>5. TC_SAMPLE_TIME * i = TC_SAMPLE_TIME * (i - 1) + TC_SAMPLE_TIME
  BY <1>1, Constants
<1>6. TC_SAMPLE_TIME * i \in Int /\ TC_SAMPLE_TIME * (i - 1) \in Int
  BY <1>1, Constants
<1> QED
  BY <1>1, <1>4, <1>5, <1>6, Constants DEF Place, SampleTime

LEMMA SampleTimeNat ==
  ASSUME NEW k \in Nat
  PROVE  SampleTime(k) \in Nat
BY Constants DEF SampleTime

LEMMA SampleTimes ==
  ASSUME NEW k \in Nat, NEW j \in Nat, k <= j
  PROVE  /\ SampleTime(k) \in Nat /\ SampleTime(k) <= SampleTime(j)
         /\ SampleTime(j - k) = SampleTime(j) - SampleTime(k)
<1>1. TC_SAMPLE_TIME \in Nat /\ j - k \in Nat
  BY Constants
<1>2. /\ TC_SAMPLE_TIME * k \in Nat /\ TC_SAMPLE_TIME * j \in Nat
      /\ TC_SAMPLE_TIME * (j - k) \in Nat
  BY <1>1
<1>3. TC_SAMPLE_TIME * (j - k) = TC_SAMPLE_TIME * j - TC_SAMPLE_TIME * k
  BY <1>1
<1> QED
  BY <1>2, <1>3 DEF SampleTime

(* The time since the latest transition found.                             *)
LEMMA SinceRange ==
  ASSUME ReaderTypes, NEW k \in 0 .. Len(buffer), found <= k,
         found \in Transitions \union {0}
  PROVE  /\ SinceFound(SampleTime(k)) \in Nat
         /\ found # 0 => SinceFound(SampleTime(k)) <= SampleTime(k)
         /\ \A t \in Int : SinceFound(SampleTime(k)) + t = SinceFound(SampleTime(k) + t)
<1>1. Len(buffer) \in Nat /\ since \in Nat /\ SampleTime(k) \in Nat
  BY Basics, SampleTimes
<1>2. CASE found = 0
  BY <1>1, <1>2 DEF SinceFound
<1>3. CASE found # 0
  <2>1. found \in Transitions
    BY <1>3
  <2>2. found \in Nat /\ k \in Nat
    BY <1>1 DEF ReaderTypes
  <2>3. SampleTime(found) <= SampleTime(k) /\ SampleTime(found) \in Nat
    BY <2>2, SampleTimes
  <2>4. /\ Offset(Sample(found - 1), Sample(found)) \in 0 .. TC_SAMPLE_TIME
        /\ Place(found) \in Int
        /\ SampleTime(found) - Place(found)
             = TC_SAMPLE_TIME - Offset(Sample(found - 1), Sample(found))
    BY <2>1, PlaceRange
  <2>5. Place(found) <= SampleTime(k)
    BY <1>1, <2>3, <2>4, Constants
  <2>6. Place(found) >= 0
    <3>1. /\ found - 1 \in Nat
          /\ Place(found) = TC_SAMPLE_TIME * (found - 1)
                             + Offset(Sample(found - 1), Sample(found))
      BY <1>3, <2>2 DEF Place
    <3>2. TC_SAMPLE_TIME * (found - 1) \in Nat
      BY <3>1, Constants
    <3> QED
      BY <2>4, <3>1, <3>2, Constants
  <2>7. SinceFound(SampleTime(k)) = SampleTime(k) + (-Place(found))
    BY <1>3 DEF SinceFound
  <2>8. ASSUME NEW t \in Int
        PROVE  SinceFound(SampleTime(k)) + t = SinceFound(SampleTime(k) + t)
    BY <1>1, <1>3, <2>4 DEF SinceFound
  <2>9. SinceFound(SampleTime(k)) \in Nat /\ SinceFound(SampleTime(k)) <= SampleTime(k)
    BY <1>1, <2>4, <2>5, <2>6, <2>7
  <2> QED
    BY <2>8, <2>9
<1> QED
  BY <1>2, <1>3

(* A transition is found: it is the next one of the signal.                *)
LEMMA TransitionStep ==
  ASSUME CrossingInv, stage = "search", TransitionFound
  PROVE  \E j \in Transitions :
           /\ found' = j /\ found < j
           /\ \A i \in Transitions : i < j => i <= found
           /\ interval' = SinceFound(Place(j)) % UnsignedSize
           /\ data' = At(j) /\ prev_sample' = Sample(j)
           /\ prev_transition' = SampleTime(j) - Place(j)
           /\ prev_transition' \in 0 .. TC_SAMPLE_TIME
<1>1. /\ ReaderTypes /\ Len(buffer) \in Nat /\ dataend = At(Len(buffer))
      /\ channels \in Nat /\ use_channel \in Nat
  BY Basics DEF CrossingInv, Searched
<1>2. PICK k \in 0 .. Len(buffer) : data = At(k) /\ Reached(k)
  BY DEF CrossingInv, Searched
<1>3. prev_sample = Sample(k) /\ found \in Transitions \union {0} /\ found <= k
  BY <1>2 DEF Reached
<1>4. PICK j \in k + 1 .. Len(buffer) + 1 : SearchEnd(k, j)
  BY <1>1, <1>2, <1>3, SearchEnds
<1>5. j \in 1 .. Len(buffer) /\ j - 1 - k \in Nat
  <2>1. j # Len(buffer) + 1
    BY <1>4 DEF TransitionFound, SearchEnd
  <2> QED
    BY <1>1, <2>1
<1>6. /\ Found = At(j - 1) /\ Elapsed = SampleTime(j - 1 - k)
      /\ SampleBefore = Sample(j - 1) /\ Memory(Found) = Sample(j)
      /\ Found \div channels + 1 = j
  BY <1>4, <1>5 DEF SearchEnd
<1>7. j \in Transitions /\ \A i \in Transitions : i < j => i <= k
  BY <1>1, <1>4, <1>5, NoneBetween
<1>8. found < j /\ \A i \in Transitions : i < j => i <= found
  BY <1>1, <1>2, <1>3, <1>5, <1>7 DEF Reached, ReaderTypes
<1> DEFINE offset == Offset(Sample(j - 1), Sample(j))
<1>9. /\ offset \in 0 .. TC_SAMPLE_TIME /\ Place(j) \in Int
      /\ SampleTime(j) - Place(j) = TC_SAMPLE_TIME - offset
  BY <1>1, <1>7, PlaceRange
<1>10. /\ interval' = Unsigned(prev_transition + SampleTime(j - 1 - k) + offset)
       /\ prev_transition' = TC_SAMPLE_TIME - offset
       /\ prev_sample' = Sample(j) /\ data' = At(j - 1) + channels /\ found' = j
  BY <1>6 DEF TransitionFound
<1>11. Place(j) = SampleTime(j - 1) + offset
  BY DEF Place, SampleTime
<1> HIDE DEF offset
<1>12. data' = At(j)
  <2>1. channels * j = channels * (j - 1) + channels /\ channels * (j - 1) \in Int
    BY <1>1, <1>5
  <2> QED
    BY <1>1, <1>10, <2>1 DEF At
<1>13. interval' = SinceFound(Place(j)) % UnsignedSize
  <2> DEFINE s == SinceFound(SampleTime(k))
             e == SampleTime(j - 1 - k) + offset
  <2>1. k \in Nat /\ j - 1 \in Nat /\ k <= j - 1
    BY <1>1, <1>5
  <2>2. /\ SampleTime(k) \in Nat /\ SampleTime(j - 1) \in Nat
        /\ SampleTime(j - 1 - k) = SampleTime(j - 1) - SampleTime(k)
    BY <2>1, SampleTimes, SampleTimeNat, Zenon
  <2>3. e \in Int /\ s \in Int /\ SampleTime(k) + e = Place(j)
    <3>1. offset \in Int
      BY <1>9, Constants
    <3>2. s \in Int
      BY <1>1, <1>3, SinceRange
    <3>3. e \in Int /\ SampleTime(k) + e = SampleTime(j - 1) + offset
      BY <2>2, <3>1
    <3> QED
      BY <1>11, <3>2, <3>3
  <2>4. s + e = SinceFound(Place(j))
    BY <1>1, <1>3, <2>3, SinceRange
  <2>5. prev_transition = s % UnsignedSize
    BY <1>2 DEF Reached
  <2>6. prev_transition + SampleTime(j - 1 - k) + offset = prev_transition + e
    <3>1. prev_transition \in Int
      BY <2>3, <2>5, Constants
    <3>2. SampleTime(j - 1 - k) \in Int /\ offset \in Int
      BY <1>9, <2>2, Constants
    <3> QED
      BY <3>1, <3>2
  <2> HIDE DEF s, e
  <2>7. ((s % UnsignedSize) + e) % UnsignedSize = (s + e) % UnsignedSize
    <3>1. UnsignedSize \in Nat \ {0}
      BY Constants
    <3> QED
      BY <2>3, <3>1, ModAdd
  <2> QED
    BY <1>10, <2>4, <2>5, <2>6, <2>7 DEF Unsigned
<1>14. prev_transition' \in 0 .. TC_SAMPLE_TIME
  BY <1>9, <1>10, Constants
<1> QED
  BY <1>7, <1>8, <1>9, <1>10, <1>12, <1>13, <1>14

(***************************************************************************)
(* The steps.                                                              *)
(***************************************************************************)

(* What follows a transition: the search goes on behind it.                *)
LEMMA AfterTransition ==
  ASSUME CrossingInv, stage = "search", TransitionFound, tc_is_valid' \in BOOLEAN
  PROVE  /\ ReaderTypes'
         /\ \E j \in 1 .. Len(buffer) :
              /\ data' = At(j) /\ Reached(j)'
         /\ Len(buffer') = Len(buffer) /\ dataend' = At(Len(buffer))
<1>1. PICK j \in Transitions :
        /\ found' = j /\ found < j
        /\ \A i \in Transitions : i < j => i <= found
        /\ interval' = SinceFound(Place(j)) % UnsignedSize
        /\ data' = At(j) /\ prev_sample' = Sample(j)
        /\ prev_transition' = SampleTime(j) - Place(j)
        /\ prev_transition' \in 0 .. TC_SAMPLE_TIME
  BY TransitionStep
<1>2. ReaderTypes /\ dataend = At(Len(buffer)) /\ Len(buffer) \in Nat
  BY Basics DEF CrossingInv, Searched
<1>3. UNCHANGED <<channels, use_channel, buffer, dataend, before, since>>
  BY DEF TransitionFound
<1>4. /\ Transitions' = Transitions /\ SampleTime(j)' = SampleTime(j)
      /\ SampleTime(Len(buffer))' = SampleTime(Len(buffer))
      /\ Sample(j)' = Sample(j) /\ Place(j)' = Place(j)
  BY <1>3 DEF Transitions, Sample, Place, SampleTime
<1>5. j \in 1 .. Len(buffer) /\ Place(j) \in Int
  BY <1>2, PlaceRange
<1>6. SinceFound(SampleTime(j))' = prev_transition'
  <2>1. SinceFound(SampleTime(j))' = SampleTime(j) + (-Place(j))
    BY <1>1, <1>2, <1>4, <1>5 DEF SinceFound, Place, Sample, SampleTime
  <2>2. SampleTime(j) \in Int
    BY <1>2, <1>5, SampleTimes
  <2> QED
    BY <1>1, <1>5, <2>1, <2>2
<1>7. /\ SinceFound(SampleTime(j))' < MAX_INTERVAL
      /\ SinceFound(SampleTime(j))' < UnsignedSize
      /\ SinceFound(SampleTime(j))' \in Nat
  BY <1>1, <1>6, Constants
<1>8. interval' \in 0 .. UnsignedSize - 1
  <2>1. SinceFound(Place(j)) \in Int
    <3>1. CASE found = 0
      BY <1>2, <1>5, <3>1, Basics DEF SinceFound
    <3>2. CASE found # 0
      <4>1. found \in Transitions
        BY <3>2 DEF CrossingInv, Searched, Reached
      <4> QED
        BY <1>2, <1>5, <3>2, <4>1, PlaceRange DEF SinceFound
    <3> QED
      BY <3>1, <3>2
  <2> QED
    BY <1>1, <2>1, Constants
<1>9. ReaderTypes'
  BY <1>1, <1>2, <1>3, <1>4, <1>5, <1>8 DEF ReaderTypes
<1>10. prev_transition' = SinceFound(SampleTime(j))' % UnsignedSize
  BY <1>6, <1>7, Reduced
<1>11. \A i \in Transitions : i <= j => i <= found'
  BY <1>1 DEF Transitions
<1>12. Reached(j)'
  BY <1>1, <1>4, <1>5, <1>7, <1>10, <1>11 DEF Reached
<1> QED
  BY <1>1, <1>2, <1>3, <1>5, <1>9, <1>12

LEMMA NoCodewordStep ==
  ASSUME CrossingInv, stage = "search", NoCodeword
  PROVE  CrossingInv'
<1>1. UNCHANGED <<stage, frames, tc_is_valid, buffer, channels, use_channel>> /\ TransitionFound
  BY DEF NoCodeword, TransitionFound
<1>2. /\ ReaderTypes' /\ Len(buffer') = Len(buffer) /\ dataend' = At(Len(buffer))
      /\ \E j \in 1 .. Len(buffer) : data' = At(j) /\ Reached(j)'
  BY <1>1, AfterTransition DEF CrossingInv, ReaderTypes
<1>3. PICK j \in 1 .. Len(buffer) : data' = At(j) /\ Reached(j)'
  BY <1>2
<1>4. j \in 0 .. Len(buffer') /\ At(j)' = At(j) /\ At(Len(buffer))' = At(Len(buffer))
  BY <1>1, <1>2, Basics DEF At, CrossingInv
<1> QED
  BY <1>1, <1>2, <1>3, <1>4 DEF CrossingInv, Searched

LEMMA CodewordFoundStep ==
  ASSUME CrossingInv, stage = "search", CodewordFound
  PROVE  CrossingInv'
<1>1. /\ TransitionFound /\ stage' = "call" /\ pos' = data' - use_channel
      /\ frames' = (dataend - data') \div channels /\ tc_is_valid' \in BOOLEAN
      /\ UNCHANGED <<buffer, channels, use_channel>>
  BY DEF CodewordFound, Aligned, TransitionFound
<1>2. /\ ReaderTypes' /\ \E j \in 1 .. Len(buffer) : data' = At(j) /\ Reached(j)'
  BY <1>1, AfterTransition
<1>3. PICK j \in 1 .. Len(buffer) : data' = At(j) /\ Reached(j)'
  BY <1>2
<1>4. /\ channels \in Nat \ {0} /\ use_channel \in Nat /\ Len(buffer) \in Nat
      /\ dataend = At(Len(buffer))
  BY Basics DEF CrossingInv, Searched
<1>5. pos' = channels * j
  <2>1. channels * j \in Int
    BY <1>4
  <2> QED
    BY <1>1, <1>3, <1>4, <2>1 DEF At
<1>6. frames' = Len(buffer) - j
  <2>1. channels * (Len(buffer) - j) = channels * Len(buffer) - channels * j
    BY <1>4
  <2>2. channels * Len(buffer) \in Int /\ channels * j \in Int
    BY <1>4
  <2>3. dataend - data' = channels * (Len(buffer) - j) + 0
    BY <1>3, <1>4, <2>1, <2>2 DEF At
  <2>4. Len(buffer) - j \in Int /\ 0 \in 0 .. channels - 1
    BY <1>4
  <2>5. (channels * (Len(buffer) - j) + 0) \div channels = Len(buffer) - j
    BY <1>4, <2>4, DivMod, Zenon
  <2> QED
    BY <1>1, <2>3, <2>5
<1>7. frames' \in 0 .. Len(buffer) /\ Len(buffer) - frames' = j
  BY <1>4, <1>6
<1>8. Len(buffer)' = Len(buffer) /\ channels' = channels
  BY <1>1
<1>9. Searched'
  BY <1>1, <1>3, <1>5, <1>7, <1>8 DEF Searched, Reached
<1> QED
  BY <1>2, <1>9 DEF CrossingInv

(* A silence is counted in full as long as the timecode is valid.          *)
LEMMA BufferEndStep ==
  ASSUME CrossingInv, BufferEnd
  PROVE  CrossingInv'
<1>1. /\ stage = "search" /\ ReaderTypes /\ Len(buffer) \in Nat
      /\ dataend = At(Len(buffer)) /\ Len(buffer) <= MaxLength
  BY Basics DEF CrossingInv, Searched, BufferEnd
<1>2. PICK k \in 0 .. Len(buffer) : data = At(k) /\ Reached(k)
  BY <1>1 DEF CrossingInv, Searched
<1>3. /\ prev_sample = Sample(k) /\ found \in Transitions \union {0} /\ found <= k
      /\ prev_transition = SinceFound(SampleTime(k)) % UnsignedSize
      /\ tc_is_valid => SinceFound(SampleTime(k)) < MAX_INTERVAL
      /\ \A i \in Transitions : i <= k => i <= found
  BY <1>2 DEF Reached
<1>4. PICK j \in k + 1 .. Len(buffer) + 1 : SearchEnd(k, j)
  BY <1>1, <1>2, <1>3, SearchEnds
<1>5. j = Len(buffer) + 1 /\ j - 1 = Len(buffer)
  BY <1>1, <1>4 DEF BufferEnd, SearchEnd
<1>6. Elapsed = SampleTime(Len(buffer) - k) /\ SampleBefore = Sample(Len(buffer))
  BY <1>4, <1>5 DEF SearchEnd
<1>7. \A i \in Transitions : i <= Len(buffer) => i <= found
  BY <1>1, <1>3, <1>4, <1>5, NoneBetween DEF Transitions
<1>8. /\ prev_transition' = Unsigned(prev_transition + Elapsed)
      /\ prev_sample' = SampleBefore /\ frames' = 0 /\ stage' = "call"
      /\ tc_is_valid' = (tc_is_valid /\ prev_transition' < MAX_INTERVAL)
      /\ UNCHANGED <<channels, use_channel, buffer, before, since, found, interval>>
  BY DEF BufferEnd
<1> DEFINE s == SinceFound(SampleTime(k))
           t == SampleTime(Len(buffer) - k)
           end == SinceFound(SampleTime(Len(buffer)))
<1>9. /\ s \in Nat /\ t \in Nat /\ t <= SampleTime(MaxLength) /\ end = s + t
  <2>1. k \in Nat /\ k <= Len(buffer) /\ Len(buffer) - k \in Nat
        /\ Len(buffer) - k <= MaxLength /\ MaxLength \in Nat
    BY <1>1, Constants
  <2>2. SampleTime(k) \in Nat /\ SampleTime(Len(buffer)) \in Nat
        /\ t = SampleTime(Len(buffer)) - SampleTime(k)
    BY <1>1, <2>1, SampleTimes
  <2>3. t \in Nat /\ t <= SampleTime(MaxLength)
    BY <2>1, SampleTimes
  <2>4. s \in Nat /\ s + t = SinceFound(SampleTime(k) + t)
    BY <1>1, <1>3, <2>3, SinceRange
  <2>5. SampleTime(k) + t = SampleTime(Len(buffer))
    BY <2>2, <2>3
  <2> QED
    BY <2>3, <2>4, <2>5
<1>10. prev_transition' = end % UnsignedSize
  <2>1. UnsignedSize \in Nat \ {0} /\ s \in Int /\ t \in Int
    BY <1>9, Constants
  <2> HIDE DEF s, t, end
  <2>2. ((s % UnsignedSize) + t) % UnsignedSize = (s + t) % UnsignedSize
    BY <2>1, ModAdd
  <2> QED
    BY <1>3, <1>6, <1>8, <1>9, <2>2 DEF Unsigned, s, t
<1>11. tc_is_valid' => end < MAX_INTERVAL
  <2> SUFFICES ASSUME tc_is_valid, prev_transition' < MAX_INTERVAL
               PROVE  end < MAX_INTERVAL
    BY <1>8
  <2>1. s < MAX_INTERVAL
    BY <1>3
  <2> HIDE DEF s, t, end
  <2>2. end \in Nat /\ end < UnsignedSize
    BY <1>9, <2>1, Constants
  <2>3. end % UnsignedSize = end
    BY <2>2, Reduced
  <2> QED
    BY <1>10, <2>3
<1>12. /\ Transitions' = Transitions /\ Sample(Len(buffer))' = Sample(Len(buffer))
       /\ SinceFound(SampleTime(Len(buffer)))' = end
       /\ SampleTime(Len(buffer))' = SampleTime(Len(buffer))
  BY <1>8 DEF Transitions, Sample, SinceFound, SampleTime, Place
<1>13. ReaderTypes'
  BY <1>1, <1>8, <1>12 DEF ReaderTypes
<1>14. found <= Len(buffer)
  BY <1>1, <1>3 DEF ReaderTypes
<1> HIDE DEF s, t, end
<1>15. Reached(Len(buffer))'
  BY <1>3, <1>6, <1>7, <1>8, <1>10, <1>11, <1>12, <1>14 DEF Reached
<1>16. Len(buffer)' - frames' = Len(buffer)' /\ frames' \in 0 .. Len(buffer)'
  BY <1>1, <1>8
<1>17. Searched'
  BY <1>8, <1>15, <1>16 DEF Searched
<1> QED
  BY <1>13, <1>17 DEF CrossingInv

LEMMA CallStep ==
  ASSUME CrossingInv, Call
  PROVE  CrossingInv'
<1>1. /\ stage = "call" /\ frames > 0 /\ stage' = "search"
      /\ data' = pos + use_channel
      /\ dataend' = pos + use_channel + frames * channels
      /\ UNCHANGED <<readerVars, tc_is_valid, buffer, frames, before, since, found,
                     interval>>
  BY DEF Call
<1>2. ReaderTypes /\ frames \in 0 .. Len(buffer) /\ Len(buffer) - frames \in 0 .. Len(buffer)
  BY <1>1, Basics DEF CrossingInv, Searched
<1>3. PICK k \in 0 .. Len(buffer) :
        k = Len(buffer) - frames /\ Reached(k) /\ pos = channels * k
  BY <1>1, <1>2 DEF CrossingInv, Searched
<1>4. channels \in Nat /\ use_channel \in Nat /\ Len(buffer) \in Nat
  BY <1>2, Basics
<1>5. /\ data' = At(k) /\ dataend' = At(Len(buffer))
  <2>1. channels * Len(buffer) = channels * k + frames * channels
    <3>1. Len(buffer) = k + frames
      BY <1>2, <1>3, <1>4
    <3>2. channels * (k + frames) = channels * k + frames * channels
      BY <1>2, <1>4
    <3> QED
      BY <3>1, <3>2
  <2>2. channels * k \in Int /\ frames * channels \in Int
    BY <1>2, <1>4
  <2>3. At(k) = use_channel + channels * k
        /\ At(Len(buffer)) = use_channel + channels * Len(buffer)
    BY DEF At
  <2>4. data' = channels * k + use_channel
        /\ dataend' = channels * k + use_channel + frames * channels
    BY <1>1, <1>3
  <2> QED
    BY <1>4, <2>1, <2>2, <2>3, <2>4
<1>6. ReaderTypes' /\ Reached(k)' /\ At(k)' = At(k)
      /\ At(Len(buffer))' = At(Len(buffer)) /\ Len(buffer)' = Len(buffer)
  BY <1>1, <1>2, <1>3 DEF readerVars, ReaderTypes, Reached, Transitions, Sample,
                          SampleTime, SinceFound, Place, At
<1>7. frames' \in 0 .. Len(buffer)'
  BY <1>1, <1>2
<1>8. Searched'
  BY <1>1, <1>3, <1>5, <1>6, <1>7 DEF Searched
<1> QED
  BY <1>6, <1>8 DEF CrossingInv

LEMMA WriteStep ==
  ASSUME CrossingInv, NEW samples \in Buffers, Write(samples)
  PROVE  CrossingInv'
<1>1. /\ stage = "idle" /\ stage' = "call" /\ buffer' = samples
      /\ frames' = Len(samples) /\ pos' = 0 /\ found' = 0
      /\ before' = Sample(Len(buffer))
      /\ since' = SinceFound(SampleTime(Len(buffer)))
      /\ Transitions' # {} \/ since' + SampleTime(Len(samples)) <= MaxSilence
      /\ UNCHANGED <<readerVars, tc_is_valid, interval>>
  BY DEF Write
<1>2. /\ ReaderTypes /\ Reached(Len(buffer)) /\ Len(buffer) \in Nat
      /\ Len(buffer) <= MaxLength /\ channels \in Nat
  BY <1>1, Basics DEF CrossingInv, Searched
<1>3. /\ found <= Len(buffer) /\ found \in Transitions \union {0}
      /\ prev_sample = Sample(Len(buffer))
      /\ prev_transition = since' % UnsignedSize
      /\ tc_is_valid => since' < MAX_INTERVAL
      /\ \A i \in Transitions : i <= Len(buffer) => i <= found
  BY <1>1, <1>2 DEF Reached
<1>4. Len(samples) \in 1 .. MaxLength /\ Len(samples) \in Nat
  BY BufferLength, Constants
<1>5. Len(buffer) \in 0 .. Len(buffer)
  BY <1>2
(* The silence before the buffer was let in as one within the bound.       *)
<1>6. since' \in 0 .. MaxSilence
  <2>1. since' \in Nat /\ (found # 0 => since' <= SampleTime(Len(buffer)))
    BY <1>1, <1>2, <1>3, <1>5, SinceRange
  <2>2. SampleTime(Len(buffer)) <= SampleTime(MaxLength) /\ SampleTime(Len(buffer)) \in Nat
    BY <1>2, SampleTimes, Constants
  <2>3. CASE found # 0
    BY <2>1, <2>2, <2>3, Constants
  <2>4. CASE found = 0
    <3>1. Transitions = {}
      BY <1>2, <1>3, <2>4 DEF Transitions
    <3>2. since' = SampleTime(Len(buffer)) + since /\ since \in Nat
      BY <1>1, <1>2, <2>4, Basics DEF SinceFound
    <3> QED
      BY <1>2, <2>1, <2>2, <3>1, <3>2, Constants DEF ReaderTypes
  <2> QED
    BY <2>3, <2>4
<1>7. SampleTime(Len(buffer))' = SampleTime(Len(samples)) /\ Len(buffer)' = Len(samples)
  BY <1>1 DEF SampleTime
<1>8. ReaderTypes'
  <2>1. before' \in Samples \union {0}
    BY <1>1, <1>2, <1>5, Basics
  <2>2. 0 \in 0 .. Len(buffer)'
    BY <1>4, <1>7
  <2> QED
    BY <1>1, <1>2, <1>6, <1>7, <2>1, <2>2 DEF ReaderTypes, readerVars
<1>9. Reached(0)'
  <2>1. Sample(0)' = Sample(Len(buffer))
    BY <1>1 DEF Sample
  <2>2. SinceFound(SampleTime(0))' = since'
    <3>1. TC_SAMPLE_TIME * 0 = 0
      BY Constants
    <3>2. SinceFound(SampleTime(0))' = 0 + since'
      BY <1>1, <3>1 DEF SinceFound, SampleTime
    <3> QED
      BY <1>6, <3>2, Constants
  <2>3. \A i \in Transitions' : i <= 0 => i <= found'
    BY <1>1
  <2> QED
    BY <1>1, <1>3, <2>1, <2>2, <2>3 DEF Reached, readerVars
<1>10. /\ Len(buffer)' - frames' = 0 /\ frames' \in 0 .. Len(buffer)'
       /\ pos' = channels' * (Len(buffer)' - frames')
  <2>1. Len(samples) - Len(samples) = 0 /\ channels * 0 = 0
    BY <1>2, <1>4
  <2> QED
    BY <1>1, <1>4, <1>7, <2>1 DEF readerVars
<1>11. Searched'
  BY <1>1, <1>9, <1>10 DEF Searched
<1> QED
  BY <1>8, <1>11 DEF CrossingInv

LEMMA KeepCrossing ==
  ASSUME CrossingInv,
         UNCHANGED <<readerVars, tc_is_valid, buffer, pos, frames, data, dataend,
                     before, since, found, interval>>,
         stage' = stage \/ (stage = "call" /\ frames = 0 /\ stage' = "idle")
  PROVE  CrossingInv'
<1>1. /\ ReaderTypes' /\ Len(buffer)' = Len(buffer)
      /\ \A k : (Reached(k)' <=> Reached(k)) /\ (At(k)' = At(k))
  BY DEF CrossingInv, ReaderTypes, Reached, Transitions, Sample, SampleTime,
         SinceFound, Place, At, readerVars
<1>2. Len(buffer) \in Nat
  BY Basics DEF CrossingInv
<1>3. CASE stage' = stage
  BY <1>1, <1>3 DEF CrossingInv, Searched, readerVars
<1>4. CASE stage = "call" /\ frames = 0 /\ stage' = "idle"
  <2>1. Len(buffer) - frames = Len(buffer)
    BY <1>2, <1>4
  <2>2. Reached(Len(buffer))
    BY <1>4, <2>1 DEF CrossingInv, Searched
  <2> QED
    BY <1>1, <1>4, <2>2 DEF CrossingInv, Searched
<1> QED
  BY <1>3, <1>4

LEMMA CrossingStep == CrossingInv /\ [CrossingNext]_crossingVars => CrossingInv'
<1> SUFFICES ASSUME CrossingInv, [CrossingNext]_crossingVars PROVE CrossingInv'
  OBVIOUS
<1>1. ASSUME NEW samples \in Buffers, Write(samples) PROVE CrossingInv'
  BY <1>1, WriteStep
<1>2. CASE Call
  BY <1>2, CallStep
<1>3. CASE BufferEnd
  BY <1>3, BufferEndStep
<1>4. CASE NoCodeword
  <2>1. stage = "search"
    BY <1>4 DEF NoCodeword, TransitionFound
  <2> QED
    BY <1>4, <2>1, NoCodewordStep
<1>5. CASE CodewordFound
  <2>1. stage = "search"
    BY <1>5 DEF CodewordFound, TransitionFound
  <2> QED
    BY <1>5, <2>1, CodewordFoundStep
<1>6. CASE Return
  BY <1>6, KeepCrossing DEF Return
<1>7. CASE UNCHANGED crossingVars
  BY <1>7, KeepCrossing DEF crossingVars
<1> QED
  BY <1>1, <1>2, <1>3, <1>4, <1>5, <1>6, <1>7 DEF CrossingNext, tcdecode

LEMMA InitCrossing == CrossingInit => CrossingInv
<1> SUFFICES ASSUME CrossingInit PROVE CrossingInv
  OBVIOUS
<1>1. Len(buffer) = 0 /\ buffer = <<>> /\ Transitions = {}
  BY DEF CrossingInit, Transitions
<1>2. /\ UnsignedSize \in Nat /\ UnsignedSize > MAX_INTERVAL
      /\ TC_SAMPLE_TIME * 0 = 0 /\ UnsignedSize - 1 \in 0 .. MaxSilence
  BY Constants
<1>3. SampleTime(0) = 0 /\ SinceFound(SampleTime(0)) = UnsignedSize - 1
  BY <1>2 DEF CrossingInit, SinceFound, SampleTime
<1>4. (UnsignedSize - 1) % UnsignedSize = UnsignedSize - 1
  BY <1>2, Reduced, Constants
<1>5. Reached(Len(buffer))
  BY <1>1, <1>3, <1>4 DEF CrossingInit, Reached, Sample
<1>6. ReaderTypes
  <2>1. since \in 0 .. MaxSilence /\ since + SampleTime(Len(buffer)) <= MaxSilence
    BY <1>1, <1>2, <1>3 DEF CrossingInit
  <2>2. interval \in 0 .. UnsignedSize - 1 /\ found \in 0 .. Len(buffer)
    BY <1>1, <1>2 DEF CrossingInit
  <2> QED
    BY <1>1, <2>1, <2>2 DEF CrossingInit, ReaderTypes
<1> QED
  BY <1>1, <1>5, <1>6 DEF CrossingInv, Searched, CrossingInit

LEMMA CrossingInvariant == CrossingSpec => []CrossingInv
  BY InitCrossing, CrossingStep, PTL DEF CrossingSpec

(***************************************************************************)
(* The properties.                                                         *)
(***************************************************************************)

(* Wherever buffers and codewords end, the pointers stay on the samples of *)
(* the channel in use and within the buffer.                               *)
THEOREM PointersCorrect == CrossingSpec => []PointersOK
<1>1. CrossingInv => PointersOK
  <2> SUFFICES ASSUME CrossingInv PROVE PointersOK
    OBVIOUS
  <2>1. /\ ReaderTypes /\ Len(buffer) \in Nat
        /\ channels \in Nat \ {0} /\ use_channel \in 0 .. channels - 1
    BY Basics DEF CrossingInv
  <2>2. PICK k \in 0 .. Len(buffer) : Reached(k) /\ (stage = "search" => data = At(k))
    <3>1. CASE stage = "call"
      <4>1. Len(buffer) - frames \in 0 .. Len(buffer)
        BY <2>1, <3>1 DEF CrossingInv, Searched
      <4> QED
        BY <3>1, <4>1 DEF CrossingInv, Searched
    <3> QED
      BY <2>1, <3>1 DEF CrossingInv, Searched
  <2>3. prev_sample \in Samples \union {0}
    BY <2>1, <2>2, Basics DEF Reached
  <2>4. prev_transition \in 0 .. UnsignedSize - 1
    <3>1. SinceFound(SampleTime(k)) \in Nat
      BY <2>1, <2>2, SinceRange DEF Reached
    <3> QED
      BY <2>2, <3>1, Constants DEF Reached
  <2>5. ASSUME stage = "search"
        PROVE  /\ data % channels = use_channel /\ data <= dataend
               /\ dataend = Len(buffer) * channels + use_channel
    <3>1. data = channels * k + use_channel /\ dataend = channels * Len(buffer) + use_channel
      BY <2>1, <2>2, <2>5 DEF CrossingInv, Searched, At
    <3>2. (channels * k + use_channel) % channels = use_channel
      BY <2>1, DivMod
    <3>3. channels * k <= channels * Len(buffer) /\ channels * Len(buffer) = Len(buffer) * channels
      BY <2>1
    <3>4. channels * k \in Int /\ channels * Len(buffer) \in Int
      BY <2>1
    <3> QED
      BY <2>1, <3>1, <3>2, <3>3, <3>4
  <2>6. stage \in {"idle", "call", "search"} /\ frames \in 0 .. Len(buffer)
    BY <2>1 DEF CrossingInv, Searched
  <2> QED
    BY <2>1, <2>3, <2>4, <2>5, <2>6 DEF PointersOK, ReaderTypes
<1> QED
  BY <1>1, CrossingInvariant, PTL

(* No transition of the signal is passed over, and the time since the      *)
(* latest one is right at the end of every buffer.                         *)
THEOREM NoTransitionMissed == CrossingSpec => []NoneMissed
<1>1. CrossingInv => NoneMissed
  <2> SUFFICES ASSUME CrossingInv, stage = "idle"
               PROVE  /\ found \in Transitions \union {0}
                      /\ \A i \in Transitions : i <= found
                      /\ prev_transition
                           = SinceFound(SampleTime(Len(buffer))) % UnsignedSize
    BY DEF NoneMissed
  <2>1. Reached(Len(buffer))
    BY DEF CrossingInv, Searched
  <2>2. Len(buffer) \in Nat /\ \A i \in Transitions : i <= Len(buffer)
    BY Basics DEF CrossingInv, Transitions
  <2> QED
    BY <2>1, <2>2 DEF Reached
<1> QED
  BY <1>1, CrossingInvariant, PTL

(* A silence makes the timecode invalid, however often the count wraps.    *)
THEOREM SilenceIsNoticed == CrossingSpec => []SilenceInvalidates
<1>1. CrossingInv => SilenceInvalidates
  BY DEF CrossingInv, Searched, Reached, SilenceInvalidates
<1> QED
  BY <1>1, CrossingInvariant, PTL

(* What is found is the next transition of the signal, with its interval.  *)
THEOREM IntervalsAreTrue == CrossingSpec => IntervalsTrue
<1> DEFINE FoundNext == TransitionFound =>
       /\ found' \in Transitions /\ found < found'
       /\ \A i \in Transitions : i < found' => i <= found
       /\ interval' = SinceFound(Place(found')) % UnsignedSize
<1>1. CrossingInv /\ [CrossingNext]_crossingVars => [FoundNext]_crossingVars
  <2> SUFFICES ASSUME CrossingInv, TransitionFound PROVE FoundNext
    OBVIOUS
  <2>1. stage = "search"
    BY DEF TransitionFound
  <2> QED
    BY <2>1, TransitionStep
<1> QED
  BY <1>1, CrossingInvariant, PTL DEF CrossingSpec, IntervalsTrue

=============================================================================

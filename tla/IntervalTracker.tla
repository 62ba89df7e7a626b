-------------------------- MODULE IntervalTracker --------------------------
(***************************************************************************)
(* How the LTC reader tells half from full intervals: the part of tcdecode *)
(* in LTC_reader.c that compares the time between two transitions with     *)
(* bit_interval, its estimate of the length of a bit, and corrects the     *)
(* estimate.  The correction grows by one each time it is applied again in *)
(* the same direction, so that the estimate gets near from far away and    *)
(* then runs past.                                                         *)
(*                                                                         *)
(* The signal is LTC at a steady speed: a 0 is one interval of a bit, a 1  *)
(* are two of half a bit, and no more than MaxRun bits in a row are equal. *)
(* The places of transitions between samples are rounded (line 599), which *)
(* makes intervals longer or shorter by Jitter.  That is the error of the  *)
(* rounding alone: noise in the samples and waves that are no straight     *)
(* lines between them move transitions further.  Now and then an interval  *)
(* is something else, and the speed another after it.                      *)
(***************************************************************************)
EXTENDS Integers

CONSTANTS
  TC_MIN_INTERVAL,
  TC_MAX_INTERVAL,
  HalfBits,        \* lengths of half a bit at the speeds of the signal
  Jitter,          \* errors of a single interval
  MaxRun,          \* equal bits in a row
  Disturbances,    \* lengths of intervals that are no part of a signal
  MaxDisturbances  \* bound: number of disturbances

(* A transition is misplaced by less than a unit.  The signal is slow      *)
(* enough to be sampled, with 7 units to half a bit, where a sample is 16  *)
(* units.                                                                  *)
ASSUME TrackerAssumption ==
  /\ TC_MIN_INTERVAL \in Nat \ {0}
  /\ TC_MAX_INTERVAL \in Nat
  /\ HalfBits \subseteq Nat
  /\ \A h \in HalfBits :
       h >= 7 /\ TC_MIN_INTERVAL <= 2 * h - 3 /\ 2 * h + 3 <= TC_MAX_INTERVAL
  /\ TC_MIN_INTERVAL <= TC_MAX_INTERVAL
  /\ Jitter \subseteq -1 .. 1
  /\ MaxRun \in Nat \ {0}
  /\ Disturbances \subseteq Nat
  /\ MaxDisturbances \in Nat

VARIABLES
  bit_interval,         \* believed length of a bit
  bit_interval_adjust   \* latest correction

trackerVars == <<bit_interval, bit_interval_adjust>>

VARIABLES
  half,         \* environment: length of half a bit
  half_sent,    \* has the first half of a 1 been sent?
  last_bit,     \* the latest bit sent
  run,          \* equal bits sent in a row
  disturbances, \* number of disturbances
  misread       \* history: was the latest interval taken for the other kind?

signalVars == <<half, half_sent, last_bit, run, disturbances>>

vars == <<trackerVars, signalVars, misread>>

(* LTC_reader_init *)
Init ==
  /\ bit_interval = TC_MAX_INTERVAL
  /\ bit_interval_adjust = 0
  /\ half \in HalfBits
  /\ half_sent = FALSE
  /\ last_bit = 0
  /\ run = 0
  /\ disturbances = 0
  /\ misread = FALSE

-----------------------------------------------------------------------------
(* A transition, interval units after the one before it.                   *)

(* Line 605                                                                *)
IsHalf(interval) == 4 * interval < 3 * bit_interval

(* Lines 615 and 645.                                                      *)
Limited(length) ==
  IF length < TC_MIN_INTERVAL THEN TC_MIN_INTERVAL
  ELSE IF length > TC_MAX_INTERVAL THEN TC_MAX_INTERVAL ELSE length

(* Lines 610-613 and 640-643: a correction in the other direction starts   *)
(* at one again.  The mutant goes on from the one before.                  *)
GoOn(direction) == bit_interval_adjust + direction
Grown(direction) ==
  IF bit_interval_adjust * direction < 0 THEN direction
  ELSE bit_interval_adjust + direction

Adjust(direction) ==
  /\ bit_interval_adjust' = Grown(direction)
  /\ bit_interval' = Limited(bit_interval + bit_interval_adjust')

(* Lines 618 and 649, and the mutant that keeps the correction.            *)
KeepAdjust == UNCHANGED trackerVars
ResetAdjust == bit_interval_adjust' = 0 /\ UNCHANGED bit_interval

(* Lines 605-649.                                                          *)
Transition(interval) ==
  \/ /\ IsHalf(interval)
     /\ 2 * interval + 1 < bit_interval
     /\ Adjust(-1)
  \/ /\ IsHalf(interval)
     /\ 2 * interval + 1 >= bit_interval
     /\ ResetAdjust
  \/ /\ ~IsHalf(interval)
     /\ interval > bit_interval + 1
     /\ Adjust(1)
  \/ /\ ~IsHalf(interval)
     /\ interval <= bit_interval + 1
     /\ ResetAdjust

-----------------------------------------------------------------------------
(* The signal.                                                             *)

Send(bit) ==
  /\ ~half_sent
  /\ run' = IF bit = last_bit THEN run + 1 ELSE 1
  /\ run' <= MaxRun
  /\ last_bit' = bit
  /\ UNCHANGED <<half, disturbances>>

SendZero(error) ==
  /\ Send(0)
  /\ Transition(2 * half + error)
  /\ misread' = IsHalf(2 * half + error)
  /\ UNCHANGED half_sent

SendHalf(error) ==
  /\ Transition(half + error)
  /\ misread' = ~IsHalf(half + error)
  /\ half_sent' = ~half_sent

SendFirstHalf(error) == Send(1) /\ SendHalf(error)

SendSecondHalf(error) ==
  /\ half_sent
  /\ SendHalf(error)
  /\ UNCHANGED <<half, last_bit, run, disturbances>>

Signal ==
  \E error \in Jitter :
    SendZero(error) \/ SendFirstHalf(error) \/ SendSecondHalf(error)

Disturb ==
  /\ disturbances < MaxDisturbances
  /\ disturbances' = disturbances + 1
  /\ half' \in HalfBits
  /\ half_sent' = FALSE
  /\ \E interval \in Disturbances : Transition(interval)
  /\ misread' = FALSE
  /\ UNCHANGED <<last_bit, run>>

Next == Signal \/ Disturb

Spec == Init /\ [][Next]_vars

(* The signal goes on.                                                     *)
FairSpec == Spec /\ WF_vars(Signal)

-----------------------------------------------------------------------------
(* Properties. *)

(* The estimate stays within the limits of lines 11 and 12.                *)
TypeOK ==
  /\ bit_interval \in TC_MIN_INTERVAL .. TC_MAX_INTERVAL
  /\ bit_interval_adjust \in Int
  /\ half \in HalfBits
  /\ half_sent \in BOOLEAN
  /\ last_bit \in {0, 1}
  /\ run \in 0 .. MaxRun
  /\ disturbances \in 0 .. MaxDisturbances
  /\ misread \in BOOLEAN

(* The estimate is within 3 units of a bit, with a correction that will    *)
(* not take it further.                                                    *)
Locked ==
  LET off == bit_interval - 2 * half IN
  /\ off \in -3 .. 3
  /\ bit_interval_adjust \in -3 .. 2
  /\ bit_interval_adjust = -1 => off <= 2
  /\ bit_interval_adjust = -2 => off <= 0
  /\ bit_interval_adjust = -3 => off <= -3
  /\ bit_interval_adjust = 1 => off >= -2
  /\ bit_interval_adjust = 2 => off >= 0

(* Once locked, the reader stays locked and takes no interval for the      *)
(* other kind until the signal is disturbed: corrections that grow do not  *)
(* build up a swing.                                                       *)
StaysLocked ==
  [][Locked /\ disturbances' = disturbances => Locked' /\ ~misread']_vars

(* From the longest estimate, with which it starts, and after any          *)
(* disturbance and change of speed, the reader locks, whatever bits are    *)
(* sent, if neither 0s nor 1s are all that is sent.                        *)
EventuallyLocks == <>[]Locked

=============================================================================

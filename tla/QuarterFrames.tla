--------------------------- MODULE QuarterFrames ---------------------------
(***************************************************************************)
(* What a listener on the MIDI port is promised: a timecode comes as eight *)
(* quarter-frame messages, pieces 0 to 7 in this order, and no message of  *)
(* another timecode comes between them.  Only a timecode that breaks while *)
(* it is sent may end early, and it spoils no other.                       *)
(***************************************************************************)
EXTENDS Integers

VARIABLES
  block,  \* number of the timecode the latest message belongs to
  piece,  \* and its piece
  broken  \* timecodes that broke

Init == block = 0 /\ piece = 7 /\ broken = {}

Break ==
  /\ broken \subseteq broken'
  /\ UNCHANGED <<block, piece>>

NextPiece ==
  /\ piece < 7
  /\ piece' = piece + 1
  /\ UNCHANGED <<block, broken>>

NextBlock ==
  /\ piece = 7 \/ block \in broken
  /\ piece' = 0
  /\ block' > block
  /\ UNCHANGED broken

Next == Break \/ NextPiece \/ NextBlock

Spec == Init /\ [][Next]_<<block, piece, broken>>

=============================================================================

---------------------------- MODULE MCAudioLink ----------------------------
(* Two SoundIOs with different numbers of channels and two readers.        *)
EXTENDS AudioLink, TLC

CONSTANTS mono, stereo, r1, r2

Channels == mono :> 1 @@ stereo :> 2

=============================================================================

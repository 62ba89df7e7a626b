----------------------------- MODULE MCLTCBits -----------------------------
(* Values for model-checking LTCBits.                                      *)
EXTENDS LTCBits

(* Like 0xbffc it begins with a 0.                                         *)
ShortSyncWord == <<0, 1, 1>>

=============================================================================

---------------------------- MODULE MCLTCReader ----------------------------
(* Values for model-checking LTCReader.                                    *)
EXTENDS LTCReader

(* A whole frame, and the parts of one that a buffer ends in.              *)
Gaps == {30, 50, 80}

=============================================================================

-------------------------- MODULE MCZeroCrossings ---------------------------
(* Values for model-checking ZeroCrossings.                                *)
EXTENDS ZeroCrossings

Values == {-2, 0, 3}

=============================================================================

----------------------------- MODULE MCMagZero -----------------------------
(* A small instance of MagZero: int16_t is -3 .. 2, a capture is the mean  *)
(* of two pairs after one.  The readings make the difference and the       *)
(* zeroed difference saturate and the mean fall on a half.                 *)
EXTENDS MagZero

MCIntMin == -3
MCField(p) == IF p = 1 THEN {-2, 2} ELSE {2}
=============================================================================

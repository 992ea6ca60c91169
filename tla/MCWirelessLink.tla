--------------------------- MODULE MCWirelessLink ---------------------------
(* WirelessLink with two buffers, so that CPU2 runs out of them, two commands  *)
(* in the start-up, and enough events and calls for a wait to be interrupted   *)
(* by every other task.                                                        *)
EXTENDS WirelessLink
=============================================================================

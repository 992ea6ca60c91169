------------------------------ MODULE MCRFPuff ------------------------------
(* RFPuff for TLC: a queue of two slots, a timeout of four ticks and a       *)
(* handler latency of one.                                                   *)
EXTENDS RFPuff

=============================================================================

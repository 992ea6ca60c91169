------------------------------ MODULE MCSdSpi ------------------------------
(* SdSpi for TLC: cards of three sectors, calls of one or two, from the    *)
(* main loop and from the USB interrupt.                                   *)
EXTENDS SdSpi

LoopAndUsb == {"loop", "usb"}
=============================================================================

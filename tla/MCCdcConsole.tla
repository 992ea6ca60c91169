---------------------------- MODULE MCCdcConsole ----------------------------
(* A small instance of CdcConsole: the word is "bt" in a line of three.    *)
EXTENDS CdcConsole

MCBoot == <<"b", "t">>
=============================================================================

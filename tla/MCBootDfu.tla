----------------------------- MODULE MCBootDfu -----------------------------
(* A small instance of BootDfu.                                            *)
EXTENDS BootDfu
=============================================================================

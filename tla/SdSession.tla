----------------------------- MODULE SdSession -----------------------------
(***************************************************************************)
(* What the SD logging code of Core/Src/main.c promises about its three    *)
(* flags sd_mounted, sd_logging and sd_faulted: the outcomes each command  *)
(* may have, FatFs being free to fail at any call.  SDLog implements this  *)
(* specification and CardOwnership is built on it.                         *)
(***************************************************************************)

VARIABLE session

Session == [mounted : BOOLEAN, logging : BOOLEAN, faulted : BOOLEAN]

PowerUp == [mounted |-> FALSE, logging |-> FALSE, faulted |-> FALSE]

\* SDLog_Start: a failed mount, a failure once mounted, or a new run.
AfterStart(s) ==
  IF s.logging
    THEN {s}
    ELSE {[s EXCEPT !.mounted = FALSE],
          [s EXCEPT !.mounted = TRUE],
          [mounted |-> TRUE, logging |-> TRUE, faulted |-> FALSE]}

\* SDLog_Abort: the card needs a fresh mount after a disk error.
AfterAbort == [mounted |-> FALSE, logging |-> FALSE, faulted |-> TRUE]

\* SDLog_Stop: a failed flush, a failed sync or close, or a clean stop.
AfterStop(s) ==
  IF s.logging
    THEN {AfterAbort,
          [s EXCEPT !.logging = FALSE, !.faulted = TRUE],
          [s EXCEPT !.logging = FALSE]}
    ELSE {s}

\* The start of SDLog_Eject and Cmd_EnterBootloader: forget an old fault and
\* stop; a fault means that the command is cancelled.
AfterSafeStop(s) == AfterStop([s EXCEPT !.faulted = FALSE])

\* SDLog_Eject up to the switch: what it leaves, and whether it goes on.
\* Mutants: a failed unmount does not cancel, or the card is not unmounted.
AfterEject_GoesAnyway(s) == [state : AfterSafeStop(s), go : {TRUE}]
AfterEject_StaysMounted(s) ==
  [state : {t \in AfterSafeStop(s) : ~t.faulted}, go : {TRUE}]
AfterEject(s) ==
  LET cancelled == {t \in AfterSafeStop(s) : t.faulted}
      stopped == AfterSafeStop(s) \ cancelled
      unmountFails == {t \in stopped : t.mounted}
  IN [state : cancelled \cup unmountFails, go : {FALSE}]
       \cup [state : {[t EXCEPT !.mounted = FALSE] : t \in stopped}, go : {TRUE}]

-----------------------------------------------------------------------------

SessionInit == session = PowerUp

Start == session' \in AfterStart(session)
Stop == session' \in AfterStop(session)
Eject == \E r \in AfterEject(session) : session' = r.state
\* SDLog_Service and SDLog_WritePuffEvent write while a run is logged.
WriteFails == session.logging /\ session' = AfterAbort
\* A cancelled 'boot'; the one that is not restarts the program.
BootCancelled == \E t \in AfterSafeStop(session) : t.faulted /\ session' = t
Restart == session' = PowerUp

SessionNext == Start \/ Stop \/ Eject \/ WriteFails \/ BootCancelled \/ Restart
SessionSpec == SessionInit /\ [][SessionNext]_session
=============================================================================

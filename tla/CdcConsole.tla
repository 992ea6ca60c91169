----------------------------- MODULE CdcConsole -----------------------------
(***************************************************************************)
(* The console of USB_Device/App/usbd_cdc_if.c and Core/Src/main.c, one    *)
(* character at a time: CDC_Receive_FS edits a line in the USB interrupt,  *)
(* CDC_ReadCommand hands it to SDLog_ProcessCommand in the main loop, and  *)
(* USB_CDC_Print sends lines from the main loop while the host may reset   *)
(* or suspend the device at any moment.                                    *)
(*                                                                         *)
(* A packet of several characters is a run of the steps below between      *)
(* which the main loop does nothing.  The ST device library is external:   *)
(* it allocates the class data when the host configures the device and     *)
(* frees it in a reset or a disconnection.  What the commands do is in     *)
(* SDLog, CardOwnership, MagZero and BootDfu; letters are lower case.      *)
(***************************************************************************)
EXTENDS Integers, Sequences

CONSTANTS
  CHARS,    \* the letters a host sends; " " is the blank
  BOOT,     \* the word "boot"
  ROOM,     \* characters a line can hold: sizeof(cdc_rx_line) - 1
  TEXTS,    \* lines the firmware prints
  MaxTyped  \* bound: characters typed and not deleted in a line

ASSUME ConsoleConstants ==
  /\ " " \notin CHARS /\ BOOT \in Seq(CHARS) /\ Len(BOOT) \in 1 .. ROOM
  /\ ROOM \in Nat /\ MaxTyped \in Nat /\ TEXTS # {}

VARIABLES
  cdc_rx_line,     \* cdc_rx_line[0 .. cdc_rx_index - 1]
  cdc_cmd_line,    \* the line waiting while cdc_cmd_ready, else << >>
  configured,      \* dev_state is CONFIGURED; with it the class data exists
  class_data,
  tx_buf,          \* the static buffer of USB_CDC_Print
  in_flight,       \* TxState, with the text the host was promised: {} or {text}
  print_pc, print_text,
  \* history: the line as the user sees it, whether it was ever too long, and
  \* what the line that waits was meant to do
  typed, overlong, meant

receiving == <<cdc_rx_line, typed, overlong>>
command == <<cdc_cmd_line, meant>>
device == <<configured, class_data>>
printing == <<print_pc, print_text>>
sending == <<tx_buf, in_flight>>
consoleVars == <<receiving, command, device, printing, sending>>

Front(s) == SubSeq(s, 1, Len(s) - 1)
Ink(s) == {i \in DOMAIN s : s[i] # " "}
FromInk(s) == SubSeq(s, CHOOSE i \in Ink(s) : \A j \in Ink(s) : i <= j, Len(s))

-----------------------------------------------------------------------------
(* CDC_Receive_FS, in the USB interrupt.                                   *)

\* A line that does not fit is forgotten, and so is the character that did not
\* fit; what follows is taken for a line of its own.
WithChar(ch) == IF Len(cdc_rx_line) < ROOM THEN Append(cdc_rx_line, ch) ELSE << >>

Type ==
  /\ configured /\ Len(typed) < MaxTyped
  /\ \E ch \in CHARS \cup {" "} :
       /\ cdc_rx_line' = WithChar(ch)
       /\ typed' = Append(typed, ch)
  /\ overlong' = (overlong \/ Len(typed') > ROOM)
  /\ UNCHANGED <<command, device, printing, sending>>

\* Backspace or delete.
Rub ==
  /\ configured
  /\ cdc_rx_line' = IF cdc_rx_line = << >> THEN << >> ELSE Front(cdc_rx_line)
  /\ typed' = IF typed = << >> THEN << >> ELSE Front(typed)
  /\ UNCHANGED <<overlong, command, device, printing, sending>>

\* SDLog_ProcessCommand: blanks are skipped, the first letter decides, and
\* 'b' has to be the word and nothing but blanks after it (Cmd_IsWord).
\* Mutant: what follows the word is not looked at.
Cmd_IsWord_Prefix(p) == Len(p) >= Len(BOOT) /\ SubSeq(p, 1, Len(BOOT)) = BOOT
Cmd_IsWord(p) ==
  /\ Len(p) >= Len(BOOT) /\ SubSeq(p, 1, Len(BOOT)) = BOOT
  /\ \A i \in Len(BOOT) + 1 .. Len(p) : p[i] = " "
CommandOf(line) ==
  IF Ink(line) = {} THEN "unknown"
  ELSE LET p == FromInk(line)
       IN IF p[1] # BOOT[1] THEN p[1] ELSE IF Cmd_IsWord(p) THEN "boot" ELSE "hint"

\* What the line means to the one who typed it.
Meaning(line) ==
  IF Ink(line) = {} THEN "unknown"
  ELSE IF \E i, j \in 0 .. Len(line) :
            /\ SubSeq(line, i + 1, j) = BOOT
            /\ Ink(line) \subseteq i + 1 .. j
    THEN "boot"
  ELSE IF FromInk(line)[1] = BOOT[1] THEN "hint" ELSE FromInk(line)[1]

\* The end of a line: an empty one, or one that comes while another waits, is
\* dropped.
Accepts == cdc_rx_line # << >> /\ cdc_cmd_line = << >>
Enter ==
  /\ configured
  /\ cdc_rx_line' = << >> /\ typed' = << >> /\ overlong' = FALSE
  /\ IF Accepts
       THEN /\ cdc_cmd_line' = cdc_rx_line
            /\ meant' = IF overlong THEN "any" ELSE Meaning(typed)
       ELSE UNCHANGED command
  /\ UNCHANGED <<device, printing, sending>>

-----------------------------------------------------------------------------
(* The host and the device library, in the USB interrupt.                  *)

\* SET_CONFIGURATION allocates the class data; CDC_Init_FS sets its buffers and
\* leaves the line being typed alone.
Configure ==
  /\ ~configured
  /\ configured' = TRUE /\ class_data' = TRUE
  /\ in_flight' = {}
  /\ UNCHANGED <<receiving, command, printing, tx_buf>>

\* A bus reset or a disconnection frees it.
Unconfigure ==
  /\ class_data
  /\ configured' = FALSE /\ class_data' = FALSE
  /\ in_flight' = {}
  /\ UNCHANGED <<receiving, command, printing, tx_buf>>

\* The bus is suspended; a resume restores the state.
Suspend ==
  /\ configured /\ configured' = FALSE
  /\ UNCHANGED <<receiving, command, class_data, printing, sending>>
Resume ==
  /\ ~configured /\ class_data /\ configured' = TRUE
  /\ UNCHANGED <<receiving, command, class_data, printing, sending>>

\* The host has read the line: the library clears TxState and calls
\* CDC_TransmitCplt_FS, which does nothing.
TransmitCplt ==
  /\ configured /\ in_flight # {}
  /\ in_flight' = {}
  /\ UNCHANGED <<receiving, command, device, printing, tx_buf>>

-----------------------------------------------------------------------------
(* The main loop.                                                          *)

\* CDC_ReadCommand masks the interrupt while it copies.
ProcessCommand ==
  /\ print_pc = "out" /\ cdc_cmd_line # << >>
  /\ cdc_cmd_line' = << >> /\ meant' = "any"
  /\ UNCHANGED <<receiving, device, printing, sending>>

\* USB_CDC_Print up to its copy; otherwise it returns busy.  Mutant: TxState is not looked at.
MayPrint_InFlight == configured /\ class_data
MayPrint == configured /\ class_data /\ in_flight = {}
CallPrint ==
  /\ print_pc = "out"
  /\ MayPrint
  /\ print_pc' = "copy"
  /\ print_text' \in TEXTS
  /\ UNCHANGED <<receiving, command, device, sending>>

Copy ==
  /\ print_pc = "copy" /\ print_pc' = "transmit"
  /\ tx_buf' = print_text
  /\ UNCHANGED <<receiving, command, device, print_text, in_flight>>

\* CDC_Transmit_FS.  When the class data is gone it reads TxState through a null
\* pointer; busy or not, the library then refuses.
CDC_Transmit_FS ==
  /\ print_pc = "transmit" /\ print_pc' = "out"
  /\ in_flight' = IF class_data /\ in_flight = {} THEN {print_text} ELSE in_flight
  /\ UNCHANGED <<receiving, command, device, print_text, tx_buf>>

AnyText == CHOOSE t \in TEXTS : TRUE
ConsoleInit ==
  /\ cdc_rx_line = << >> /\ cdc_cmd_line = << >>
  /\ configured = FALSE /\ class_data = FALSE
  /\ tx_buf = AnyText /\ in_flight = {}
  /\ print_pc = "out" /\ print_text = AnyText
  /\ typed = << >> /\ overlong = FALSE /\ meant = "any"

Interrupt ==
  Type \/ Rub \/ Enter \/ Configure \/ Unconfigure \/ Suspend \/ Resume \/ TransmitCplt
MainLoop == ProcessCommand \/ CallPrint \/ Copy \/ CDC_Transmit_FS
ConsoleNext == Interrupt \/ MainLoop
ConsoleSpec == ConsoleInit /\ [][ConsoleNext]_consoleVars

-----------------------------------------------------------------------------
(* Properties.                                                             *)

ConsoleTypeOK ==
  /\ cdc_rx_line \in Seq(CHARS \cup {" "}) /\ Len(cdc_rx_line) <= ROOM
  /\ cdc_cmd_line \in Seq(CHARS \cup {" "}) /\ Len(cdc_cmd_line) <= ROOM
  /\ configured \in BOOLEAN /\ class_data \in BOOLEAN
  /\ tx_buf \in TEXTS /\ in_flight \in SUBSET TEXTS
  /\ print_pc \in {"out", "copy", "transmit"} /\ print_text \in TEXTS
  /\ typed \in Seq(CHARS \cup {" "}) /\ overlong \in BOOLEAN

\* The command carried out is the one the user's line says once its deletions
\* are done (usbd_cdc_if.c:266-293, main.c:1535-1564): whatever else is typed,
\* deleted or reconnected before the main loop takes it.  Only a line that was
\* at some moment longer than the buffer may be taken for another.
CommandIsMeant == [][ProcessCommand => meant \in {"any", CommandOf(cdc_cmd_line)}]_consoleVars

\* While the host fetches a line its buffer still holds that line
\* (main.c:2415-2441), and no line of a device that is not configured is kept
\* in flight.
LineInFlightIsKept == \A t \in in_flight : tx_buf = t /\ class_data
ConsoleInv == ConsoleTypeOK /\ LineInFlightIsKept
=============================================================================

--------------------------- MODULE CardOwnership ---------------------------
(***************************************************************************)
(* Who uses the SD card: FatFs in the main loop or the host through mass   *)
(* storage.  Composes the USB mode switch (UsbMode), the run log's flags   *)
(* (SdSession), the one-line command buffer of usbd_cdc_if.c and the main  *)
(* loop of main().  `at' is the call of the main loop that comes next.     *)
(***************************************************************************)
EXTENDS UsbMode

CONSTANTS
  LateLines,     \* commands the host may still send while 'e' waits and switches
  MaxHostWrites  \* bound: times the host changes the card

Commands == {"d", "s", "e", "boot"}
NoLine == "none"

ASSUME OwnershipAssumption == LateLines \subseteq Commands /\ MaxHostWrites \in Nat

VARIABLES
  session,       \* sd_mounted, sd_logging, sd_faulted
  cdc_cmd_line,  \* the line waiting while cdc_cmd_ready, or NoLine
  at,
  storage_call,  \* the USB interrupt is in a call of usbd_storage_if.c
  \* history: the card's contents as a version, the version FatFs mounted
  card_version, view

own == <<session, cdc_cmd_line, card_version, view>>
card_vars == <<usb_vars, own, at>>
vars == <<card_vars, storage_call>>

INSTANCE SdSession

Init ==
  /\ UsbInit /\ SessionInit
  /\ cdc_cmd_line = NoLine
  /\ at = "usb"
  /\ storage_call = FALSE
  /\ card_version = 0 /\ view = 0

\* The main loop moves on from one of its own calls to another.
Turns(from, to) == usb_pc = "out" /\ at = from /\ at' = to

-----------------------------------------------------------------------------
(* The USB interrupt: a line of CDC_Receive_FS, the blocks the host writes. *)

\* A line that comes while one is waiting is dropped.
\* Mutant: it replaces the waiting one.
LineKept_Latest(c) == c
LineKept(c) == IF cdc_cmd_line = NoLine THEN c ELSE cdc_cmd_line

CDC_Receive_FS ==
  /\ dev_class = "CDC" /\ dev_state = "configured"
  /\ \E c \in IF at \in {"eject", "switch"} THEN LateLines ELSE Commands :
       cdc_cmd_line' = LineKept(c)
  /\ UNCHANGED <<usb_vars, session, at, card_version, view>>

STORAGE_Write_FS ==
  /\ dev_class = "MSC" /\ dev_state = "configured"
  /\ card_version < MaxHostWrites
  /\ card_version' = card_version + 1
  /\ UNCHANGED <<usb_vars, session, cdc_cmd_line, at, view>>

UsbInterrupt == Interrupt /\ UNCHANGED <<own, at>>

\* The mass-storage class calls usbd_storage_if.c in the interrupt, first to
\* initialise the card.  Such a call may wait for a tick, and as configured
\* that tick never comes: nothing says that it returns.
StorageCall ==
  /\ ~storage_call
  /\ dev_class = "MSC" /\ dev_state # "suspended"
  /\ storage_call' = TRUE
  /\ UNCHANGED card_vars

StorageReturns ==
  /\ storage_call
  /\ storage_call' = FALSE
  /\ STORAGE_Write_FS \/ UNCHANGED card_vars

-----------------------------------------------------------------------------
(* The main loop.                                                          *)

\* USB_Device_Service, from its entry until it returns.
CallService == at = "usb" /\ at' = "told" /\ ServiceEject /\ UNCHANGED own
InService == at = "told" /\ Service /\ UNCHANGED <<own, at>>

\* USB_Device_TakeCDCRestoredMessage.
Told ==
  /\ Turns("told", "command")
  /\ UNCHANGED own
  /\ \/ TakeCDCRestoredMessage
     \/ ~(usb_device_mode = "CDC" /\ dev_state = "configured") /\ UNCHANGED usb_vars

\* SDLog_ProcessCommand takes a line; CDC_ReadCommand masks the interrupt.
Takes(c) ==
  /\ at = "command" /\ usb_pc = "out"
  /\ cdc_cmd_line = c
  /\ cdc_cmd_line' = NoLine

NoCommand ==
  /\ Turns("command", "log")
  /\ cdc_cmd_line = NoLine
  /\ UNCHANGED <<usb_vars, own>>

StartCommand ==
  /\ Takes("d")
  /\ session' \in AfterStart(session)
  /\ view' = IF session'.mounted /\ ~session.logging THEN card_version ELSE view
  /\ at' = "log"
  /\ UNCHANGED <<usb_vars, card_version>>

StopCommand ==
  /\ Takes("s")
  /\ session' \in AfterStop(session)
  /\ at' = "log"
  /\ UNCHANGED <<usb_vars, card_version, view>>

\* SDLog_Eject up to HAL_Delay(300): the interrupt keeps receiving meanwhile.
EjectCommand ==
  /\ Takes("e")
  /\ \E r \in AfterEject(session) :
       session' = r.state /\ at' = IF r.go THEN "eject" ELSE "log"
  /\ UNCHANGED <<usb_vars, card_version, view>>

\* USB_Device_SwitchToMSC, from its entry until it returns.
CallSwitch == at = "eject" /\ at' = "switch" /\ SetModeMSC /\ UNCHANGED own
InSwitch == at = "switch" /\ SwitchToMSC /\ UNCHANGED <<own, at>>
Switched == Turns("switch", "log") /\ UNCHANGED <<usb_vars, own>>

\* Cmd_EnterBootloader: cancelled, or the board restarts with a new host view.
BootCommand ==
  /\ Takes("boot")
  /\ \E s \in AfterSafeStop(session) :
       \/ /\ s.faulted
          /\ session' = s /\ at' = "log"
          /\ UNCHANGED usb_vars
       \/ /\ ~s.faulted
          /\ session' = PowerUp /\ at' = "usb"
          /\ usb_device_mode' = "CDC"
          /\ ClearFlags
          /\ usb_pc' = "out" /\ dev_class' = "CDC" /\ dev_state' = "default"
          /\ host_ejected' = FALSE /\ polls_suspended' = 0
  /\ UNCHANGED <<card_version, view>>

\* SDLog_WriteSample, PuffLogService and SDLog_Service: a write may fail.
Log ==
  /\ Turns("log", "usb")
  /\ UNCHANGED session \/ WriteFails
  /\ UNCHANGED <<usb_vars, cdc_cmd_line, card_version, view>>

MainStep ==
  \/ CallService \/ InService \/ Told
  \/ NoCommand \/ StartCommand \/ StopCommand \/ EjectCommand \/ BootCommand
  \/ CallSwitch \/ InSwitch \/ Switched
  \/ Log

\* What a step does to the class, the card and the command line.
CardNext == MainStep \/ UsbInterrupt \/ CDC_Receive_FS \/ STORAGE_Write_FS

\* The loop and the other calls of the interrupt wait for a storage call.
Loop == ~storage_call /\ MainStep /\ UNCHANGED storage_call
OtherInterrupt ==
  ~storage_call /\ (UsbInterrupt \/ CDC_Receive_FS) /\ UNCHANGED storage_call

Next == Loop \/ OtherInterrupt \/ StorageCall \/ StorageReturns
Spec == Init /\ [][Next]_vars

\* The main loop goes on whenever the interrupt lets it again and again: the
\* host has to fetch the answer to one call before it causes the next.
\* Nothing else is promised of the host, nor that a storage call returns.
FairSpec == Spec /\ SF_vars(Loop)

-----------------------------------------------------------------------------
(* Properties.                                                             *)

TypeOK ==
  /\ UsbTypeOK
  /\ session \in Session
  /\ cdc_cmd_line \in Commands \cup {NoLine}
  /\ at \in {"usb", "told", "command", "eject", "switch", "log"}
  /\ card_version \in 0 .. MaxHostWrites /\ view \in 0 .. MaxHostWrites
  /\ storage_call \in BOOLEAN

\* main.c:1889: "do not allow Windows and FatFs access SD card after
\* unsuccessful unmount": while the host may reach the card as mass storage,
\* FatFs has it neither mounted nor open for logging.
CardHasOneOwner == dev_class = "MSC" => ~session.mounted /\ ~session.logging

\* What FatFs believes to be on a mounted card is what is there: every way back
\* from the host goes through a fresh mount before the next run.
ViewIsCurrent == session.mounted => view = card_version

\* The interrupt always comes out of the storage functions again.
CallsReturn == []<>~storage_call

\* Every line the device accepted is taken by the main loop, also across
\* switches of the USB class.
LineIsTaken == CallsReturn => (cdc_cmd_line # NoLine ~> cdc_cmd_line = NoLine)

\* No accepted line is replaced before it is taken.
LineIsNotReplaced ==
  [][cdc_cmd_line # NoLine => cdc_cmd_line' \in {cdc_cmd_line, NoLine}]_cdc_cmd_line
LinesAreServed == LineIsTaken /\ LineIsNotReplaced

\* Once the host has ejected the medium the serial port comes back, unless a
\* second 'e' reaches USB_Device_SwitchToMSC, which clears the eject.
EjectIsHeard ==
  CallsReturn =>
    ((usb_msc_ejected /\ dev_class = "MSC")
       ~> (usb_device_mode = "CDC" \/ (dev_class = "MSC" /\ usb_pc = "clear")))

\* So it does when the bus of a configured device stays suspended.
SuspendReturnsToCDC ==
  CallsReturn =>
    ((usb_device_mode = "MSC" /\ msc_was_configured /\ dev_state = "suspended")
       ~> (usb_device_mode = "CDC" \/ dev_state # "suspended"))

\* Neither way of leaving mass storage strands the user without a serial port.
PortComesBack == EjectIsHeard /\ SuspendReturnsToCDC

-----------------------------------------------------------------------------
(* What the documentation says and the code does not keep.                 *)

\* Once the host has ejected the medium the serial port comes back, whatever
\* was sent before: README.md:25 "and back again on eject", usb_mode.c:228
\* "switch immediately".
EjectReturnsToCDC ==
  CallsReturn => ((usb_msc_ejected /\ dev_class = "MSC") ~> usb_device_mode = "CDC")
=============================================================================

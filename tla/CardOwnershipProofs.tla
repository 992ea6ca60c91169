------------------------ MODULE CardOwnershipProofs ------------------------
(***************************************************************************)
(* Proofs about the USB class switch and the ownership of the SD card, for *)
(* every suspend timeout, every set of late lines and every number of host *)
(* writes.                                                                 *)
(***************************************************************************)
EXTENDS CardOwnership, TLAPS

-----------------------------------------------------------------------------
(* Whatever the interrupt's storage calls hold up, a step is a step on the *)
(* class, the card and the command line, or leaves them alone.             *)

\* Every action of Next contains an action of CardNext or leaves card_vars.
LEMMA CardStep == [Next]_vars => [CardNext]_card_vars
  <1>1. Loop \/ OtherInterrupt => CardNext
    BY Zenon DEF Loop, OtherInterrupt, CardNext
  <1>2. StorageCall \/ StorageReturns => [CardNext]_card_vars
    BY Zenon DEF StorageCall, StorageReturns, CardNext
  <1>3. UNCHANGED vars => UNCHANGED card_vars
    BY DEF vars
  <1> QED
    BY <1>1, <1>2, <1>3, Zenon DEF Next

-----------------------------------------------------------------------------
(* Types.                                                                  *)

\* The types of all but the storage call.
CardTypeOK ==
  /\ UsbTypeOK
  /\ session \in Session
  /\ cdc_cmd_line \in Commands \cup {NoLine}
  /\ at \in {"usb", "told", "command", "eject", "switch", "log"}
  /\ card_version \in 0 .. MaxHostWrites /\ view \in 0 .. MaxHostWrites

\* Every outcome the session specification allows is a session.
LEMMA SessionOutcomes ==
  ASSUME NEW s \in Session
  PROVE  /\ AfterStart(s) \subseteq Session
         /\ AfterStop(s) \subseteq Session
         /\ AfterSafeStop(s) \subseteq Session
         /\ \A r \in AfterEject(s) : r.state \in Session
         /\ PowerUp \in Session
  <1>1. AfterAbort \in Session /\ PowerUp \in Session
    BY DEF Session, AfterAbort, PowerUp
  <1>2. \A t \in Session, m \in BOOLEAN, l \in BOOLEAN, f \in BOOLEAN :
          /\ [t EXCEPT !.mounted = m] \in Session
          /\ [t EXCEPT !.logging = l] \in Session
          /\ [t EXCEPT !.faulted = f] \in Session
          /\ [t EXCEPT !.logging = l, !.faulted = f] \in Session
          /\ [mounted |-> m, logging |-> l, faulted |-> f] \in Session
    BY DEF Session
  <1>3. AfterStart(s) \subseteq Session
    <2>1. CASE s.logging
      BY <2>1 DEF AfterStart
    <2>2. CASE ~s.logging
      BY <1>2, <2>2 DEF AfterStart
    <2> QED
      BY <2>1, <2>2
  <1>4. ASSUME NEW t \in Session
        PROVE  AfterStop(t) \subseteq Session
    <2>1. CASE t.logging
      BY <1>1, <1>2, <2>1 DEF AfterStop
    <2>2. CASE ~t.logging
      BY <2>2 DEF AfterStop
    <2> QED
      BY <2>1, <2>2
  <1>5. AfterSafeStop(s) \subseteq Session
    BY <1>2, <1>4 DEF AfterSafeStop
  <1>6. ASSUME NEW r \in AfterEject(s)
        PROVE  r.state \in Session
    <2>1. \/ r.state \in AfterSafeStop(s)
          \/ \E t \in AfterSafeStop(s) : r.state = [t EXCEPT !.mounted = FALSE]
      BY DEF AfterEject
    <2> QED
      BY <1>2, <1>5, <2>1
  <1> QED
    BY <1>1, <1>3, <1>4, <1>5, <1>6

\* The types of the class switch in two parts: the flags, and the rest.
UsbFlagsOK ==
  /\ usb_msc_ejected \in BOOLEAN /\ usb_switch_to_cdc_pending \in BOOLEAN
  /\ msc_was_configured \in BOOLEAN /\ host_ejected \in BOOLEAN

UsbRestOK ==
  /\ usb_device_mode \in {"CDC", "MSC"}
  /\ usb_cdc_restore_reason \in 0 .. 2
  /\ msc_suspend_detect \in 0 .. SUSPEND + 1
  /\ usb_pc \in {"out", "clear", "stop_cdc", "start_msc", "start_cdc", "suspend",
                 "pending", "mode", "stop_msc", "restart_cdc"}
  /\ dev_class \in {"none", "CDC", "MSC"}
  /\ dev_state \in {"default", "configured", "suspended"}
  /\ polls_suspended \in 0 .. SUSPEND + 2

\* The two parts are the type invariant of UsbMode.
LEMMA UsbTypeParts == (UsbTypeOK <=> UsbFlagsOK /\ UsbRestOK) /\ (UsbTypeOK <=> UsbFlagsOK /\ UsbRestOK)'
  BY DEF UsbTypeOK, UsbFlagsOK, UsbRestOK

\* The initial state has the types.
LEMMA TypeInit == Init => CardTypeOK
  <1> SUFFICES ASSUME Init PROVE CardTypeOK
    OBVIOUS
  <1>1. UsbFlagsOK
    BY Zenon DEF Init, UsbInit, UsbFlagsOK
  <1>2. UsbRestOK
    BY SuspendAssumption DEF Init, UsbInit, UsbRestOK
  <1>3. session \in Session
    BY DEF Init, SessionInit, PowerUp, Session
  <1> QED
    BY <1>1, <1>2, <1>3, UsbTypeParts, OwnershipAssumption DEF Init, CardTypeOK

\* The USB interrupt keeps the types of the class switch.
LEMMA UsbTypeInterrupt ==
  ASSUME UsbTypeOK, Interrupt
  PROVE  UsbTypeOK'
  <1> USE DEF UsbTypeOK, usb_flags, bus, host
  <1>1. CASE HostResets
    BY <1>1 DEF HostResets, HostMoves
  <1>2. CASE HostConfigures
    BY <1>2 DEF HostConfigures, HostMoves
  <1>3. CASE HostSuspends
    BY <1>3 DEF HostSuspends, HostMoves
  <1>4. CASE HostEjects
    BY <1>4 DEF HostEjects
  <1>5. CASE Disconnected
    BY <1>5 DEF Disconnected
  <1> QED
    BY <1>1, <1>2, <1>3, <1>4, <1>5 DEF Interrupt

\* So do the steps of USB_Device_SwitchToMSC.
LEMMA UsbTypeSwitch ==
  ASSUME UsbTypeOK, SetModeMSC \/ SwitchToMSC
  PROVE  UsbTypeOK'
  <1>1. UsbFlagsOK /\ UsbRestOK
    BY UsbTypeParts
  <1>2. UsbFlagsOK'
    BY <1>1, Zenon DEF UsbFlagsOK, SetModeMSC, SwitchToMSC, ClearForMSC, ClearFlags,
       StopForMSC, StartMSC, StartMSCFails, FallBackToCDC, usb_flags, host
  <1>3. UsbRestOK'
    <2> USE <1>1, SuspendAssumption DEF UsbRestOK, usb_flags, bus, host, Goes
    <2>1. CASE SetModeMSC
      BY <2>1 DEF SetModeMSC
    <2>2. CASE ClearForMSC
      BY <2>2 DEF ClearForMSC, ClearFlags
    <2>3. CASE StopForMSC
      BY <2>3 DEF StopForMSC, LeaveBus
    <2>4. CASE StartMSC
      BY <2>4 DEF StartMSC, JoinBus
    <2>5. CASE StartMSCFails
      BY <2>5 DEF StartMSCFails, FallBackMode, LeaveBus
    <2>6. CASE FallBackToCDC
      BY <2>6 DEF FallBackToCDC, JoinBus
    <2> QED
      BY <2>1, <2>2, <2>3, <2>4, <2>5, <2>6 DEF SwitchToMSC
  <1> QED
    BY <1>2, <1>3, UsbTypeParts

\* And those of USB_Device_Service and the restored message.
LEMMA UsbTypeService ==
  ASSUME UsbTypeOK, ServiceEject \/ Service \/ TakeCDCRestoredMessage
  PROVE  UsbTypeOK'
  <1>1. UsbFlagsOK /\ UsbRestOK
    BY UsbTypeParts
  <1>2. UsbFlagsOK'
    <2> USE <1>1 DEF UsbFlagsOK, usb_flags, host
    <2>1. CASE ServiceEject
      BY <2>1, Zenon DEF ServiceEject, TakeEject
    <2>2. CASE ServiceSuspend
      <3>1. UNCHANGED <<usb_msc_ejected, host_ejected>>
        BY <2>2 DEF ServiceSuspend
      <3>2. msc_was_configured' \in BOOLEAN
        BY <2>2, Zenon DEF ServiceSuspend, Configured
      <3>3. usb_switch_to_cdc_pending' \in BOOLEAN
        BY <2>2, Zenon DEF ServiceSuspend, TimerRuns
      <3> QED
        BY <3>1, <3>2, <3>3
    <2>3. CASE ServiceNothing \/ ServiceTakes
      BY <2>3, Zenon DEF ServiceNothing, ServiceTakes
    <2>4. CASE SetModeCDC \/ StopForCDC \/ RestartCDC \/ TakeCDCRestoredMessage
      BY <2>4, Zenon DEF SetModeCDC, StopForCDC, RestartCDC, TakeCDCRestoredMessage
    <2> QED
      BY <2>1, <2>2, <2>3, <2>4 DEF Service
  <1>3. UsbRestOK'
    <2> USE <1>1, SuspendAssumption DEF UsbRestOK, usb_flags, bus, host, Goes
    <2>1. CASE ServiceEject
      BY <2>1 DEF ServiceEject, TakeEject
    <2>2. CASE ServiceSuspend
      <3>1. polls_suspended' \in 0 .. SUSPEND + 2
        BY <2>2 DEF ServiceSuspend
      <3>2. /\ msc_suspend_detect' \in 0 .. SUSPEND + 1
            /\ usb_cdc_restore_reason' \in 0 .. 2
        BY <2>2 DEF ServiceSuspend, Configured, TimerRuns
      <3> QED
        BY <2>2, <3>1, <3>2 DEF ServiceSuspend
    <2>3. CASE ServiceNothing \/ ServiceTakes
      BY <2>3 DEF ServiceNothing, ServiceTakes
    <2>4. CASE SetModeCDC \/ StopForCDC \/ RestartCDC
      BY <2>4 DEF SetModeCDC, StopForCDC, RestartCDC, LeaveBus, JoinBus
    <2>5. CASE TakeCDCRestoredMessage
      BY <2>5 DEF TakeCDCRestoredMessage
    <2> QED
      BY <2>1, <2>2, <2>3, <2>4, <2>5 DEF Service
  <1> QED
    BY <1>2, <1>3, UsbTypeParts

\* What is left of CardTypeOK once the class switch and the session are set aside.
LoopOK ==
  /\ cdc_cmd_line \in Commands \cup {NoLine}
  /\ at \in {"usb", "told", "command", "eject", "switch", "log"}
  /\ card_version \in 0 .. MaxHostWrites /\ view \in 0 .. MaxHostWrites

\* The class switch keeps its types in every step.
LEMMA UsbTypeStep ==
  ASSUME CardTypeOK, CardNext
  PROVE  UsbTypeOK'
  <1>1. UsbTypeOK
    BY DEF CardTypeOK
  <1>2. CASE UNCHANGED usb_vars
    BY <1>1, <1>2 DEF UsbTypeOK, usb_vars, usb_flags, bus, host
  <1>3. CASE UsbInterrupt
    BY <1>1, <1>3, UsbTypeInterrupt DEF UsbInterrupt
  <1>4. CASE CallService \/ InService
    BY <1>1, <1>4, UsbTypeService DEF CallService, InService
  <1>5. CASE Told
    <2>1. TakeCDCRestoredMessage => UsbTypeOK'
      BY <1>1, UsbTypeService
    <2>2. TakeCDCRestoredMessage \/ UNCHANGED usb_vars
      BY <1>5, Zenon DEF Told
    <2> QED
      BY <1>2, <2>1, <2>2
  <1>6. CASE CallSwitch \/ InSwitch
    BY <1>1, <1>6, UsbTypeSwitch DEF CallSwitch, InSwitch
  <1>7. CASE BootCommand
    <2>1. CASE UNCHANGED usb_vars
      BY <1>2, <2>1
    <2>2. CASE /\ usb_device_mode' = "CDC" /\ ClearFlags
               /\ usb_pc' = "out" /\ dev_class' = "CDC" /\ dev_state' = "default"
               /\ host_ejected' = FALSE /\ polls_suspended' = 0
      <3>1. UsbFlagsOK'
        BY <2>2, Zenon DEF UsbFlagsOK, ClearFlags
      <3>2. UsbRestOK'
        BY <2>2, SuspendAssumption DEF UsbRestOK, ClearFlags
      <3> QED
        BY <3>1, <3>2, UsbTypeParts
    <2> QED
      BY <1>7, <2>1, <2>2, Zenon DEF BootCommand
  <1>8. CASE CDC_Receive_FS \/ STORAGE_Write_FS
    BY <1>2, <1>8 DEF CDC_Receive_FS, STORAGE_Write_FS
  <1>9. CASE NoCommand \/ StartCommand \/ StopCommand \/ EjectCommand \/ Switched \/ Log
    BY <1>2, <1>9, Zenon DEF NoCommand, StartCommand, StopCommand, EjectCommand, Switched, Log
  <1> QED
    BY <1>3, <1>4, <1>5, <1>6, <1>7, <1>8, <1>9 DEF CardNext, MainStep

\* Every step leaves a session.
LEMMA SessionStep ==
  ASSUME CardTypeOK, CardNext
  PROVE  session' \in Session
  <1>1. session \in Session
    BY DEF CardTypeOK
  <1>2. CASE UNCHANGED session
    BY <1>1, <1>2
  <1>3. CASE StartCommand
    BY <1>1, <1>3, SessionOutcomes DEF StartCommand
  <1>4. CASE StopCommand
    BY <1>1, <1>4, SessionOutcomes DEF StopCommand
  <1>5. CASE EjectCommand
    BY <1>1, <1>5, SessionOutcomes DEF EjectCommand
  <1>6. CASE BootCommand
    <2>1. PICK s \in AfterSafeStop(session) : session' = s \/ session' = PowerUp
      BY <1>6, Zenon DEF BootCommand
    <2> QED
      BY <1>1, <2>1, SessionOutcomes
  <1>7. CASE Log
    <2>1. AfterAbort \in Session
      BY DEF AfterAbort, Session
    <2> QED
      BY <1>1, <1>7, <2>1 DEF Log, WriteFails
  <1>8. CASE UsbInterrupt \/ CDC_Receive_FS \/ STORAGE_Write_FS
    BY <1>2, <1>8, Zenon DEF UsbInterrupt, CDC_Receive_FS, STORAGE_Write_FS, own
  <1>9. CASE CallService \/ InService \/ Told \/ NoCommand \/ CallSwitch \/ InSwitch \/ Switched
    BY <1>2, <1>9, Zenon DEF CallService, InService, Told, NoCommand, CallSwitch, InSwitch,
       Switched, own
  <1> QED
    BY <1>3, <1>4, <1>5, <1>6, <1>7, <1>8, <1>9 DEF CardNext, MainStep

\* Every step keeps the types of the loop and of the command line.
LEMMA LoopStep ==
  ASSUME CardTypeOK, CardNext
  PROVE  LoopOK'
  <1> USE DEF LoopOK
  <1>1. LoopOK
    BY DEF CardTypeOK
  <1>2. CASE UsbInterrupt
    BY <1>1, <1>2 DEF UsbInterrupt, own
  <1>3. CASE CDC_Receive_FS
    BY <1>1, <1>3, OwnershipAssumption DEF CDC_Receive_FS, LineKept
  <1>4. CASE STORAGE_Write_FS
    BY <1>1, <1>4, OwnershipAssumption DEF STORAGE_Write_FS
  <1>5. CASE CallService \/ InService \/ Told \/ CallSwitch \/ InSwitch \/ Switched
    BY <1>1, <1>5 DEF CallService, InService, Told, CallSwitch, InSwitch, Switched, Turns, own
  <1>6. CASE NoCommand \/ StartCommand \/ StopCommand
    BY <1>1, <1>6 DEF NoCommand, StartCommand, StopCommand, Takes, Turns, own
  <1>7. CASE EjectCommand
    BY <1>1, <1>7 DEF EjectCommand, Takes
  <1>8. CASE BootCommand
    BY <1>1, <1>8 DEF BootCommand, Takes
  <1>9. CASE Log
    BY <1>1, <1>9 DEF Log, Turns
  <1> QED
    BY <1>2, <1>3, <1>4, <1>5, <1>6, <1>7, <1>8, <1>9 DEF CardNext, MainStep

\* Every step keeps the types.
LEMMA TypeStep == CardTypeOK /\ [CardNext]_card_vars => CardTypeOK'
  <1>1. ASSUME CardTypeOK, CardNext
        PROVE  CardTypeOK'
    BY <1>1, UsbTypeStep, SessionStep, LoopStep DEF CardTypeOK, LoopOK
  <1>2. ASSUME CardTypeOK, UNCHANGED card_vars
        PROVE  CardTypeOK'
    BY <1>2 DEF CardTypeOK, UsbTypeOK, card_vars, usb_vars, usb_flags, bus, host, own
  <1> QED
    BY <1>1, <1>2

\* The types of the class switch, the session and the loop hold for ever.
THEOREM TypeCorrect == Spec => []TypeOK
  <1> DEFINE CallOK == storage_call \in BOOLEAN
  <1>1. Init => CardTypeOK /\ CallOK
    BY TypeInit DEF Init
  <1>2. CallOK /\ [Next]_vars => CallOK'
    BY DEF Next, Loop, OtherInterrupt, StorageCall, StorageReturns, vars
  <1>3. CardTypeOK /\ CallOK => TypeOK
    BY Zenon DEF CardTypeOK, TypeOK
  <1> HIDE DEF CallOK
  <1> QED
    BY <1>1, <1>2, <1>3, TypeStep, CardStep, PTL DEF Spec

-----------------------------------------------------------------------------
(* The mode and the class on the bus.                                      *)

\* What holds at each place of the two switches; "mode" promises nothing.
ModeInv ==
  /\ usb_pc \in {"out", "suspend", "pending"} => dev_class \in {usb_device_mode, "none"}
  /\ usb_pc \in {"clear", "stop_cdc"} => usb_device_mode = "MSC"
  /\ usb_pc = "start_msc" => usb_device_mode = "MSC" /\ dev_class = "none"
  /\ usb_pc = "stop_msc" => usb_device_mode = "CDC"
  /\ usb_pc \in {"start_cdc", "restart_cdc"} => usb_device_mode = "CDC" /\ dev_class = "none"

\* Only the two switches and a restart write the mode or the class.
LEMMA ModeStep == ModeInv /\ [CardNext]_card_vars => ModeInv'
  <1> SUFFICES ASSUME ModeInv, [CardNext]_card_vars
               PROVE  ModeInv'
    OBVIOUS
  <1> USE DEF ModeInv, bus, Goes
  <1>1. CASE UNCHANGED <<usb_pc, usb_device_mode, dev_class>>
    BY <1>1
  <1>2. CASE SetModeMSC \/ SwitchToMSC
    BY <1>2 DEF SetModeMSC, SwitchToMSC, ClearForMSC, StopForMSC, StartMSC, StartMSCFails,
       FallBackToCDC, FallBackMode, LeaveBus, JoinBus
  <1>3. CASE ServiceEject \/ Service
    BY <1>3 DEF ServiceEject, Service, ServiceSuspend, ServiceNothing, ServiceTakes,
       SetModeCDC, StopForCDC, RestartCDC, LeaveBus, JoinBus
  <1>4. CASE BootCommand
    BY <1>1, <1>4 DEF BootCommand, usb_vars
  <1>5. CASE UsbInterrupt
    BY <1>1, <1>5, Zenon DEF UsbInterrupt, Interrupt, HostResets, HostConfigures, HostSuspends,
       HostMoves, HostEjects, Disconnected
  <1>6. CASE UNCHANGED usb_vars \/ TakeCDCRestoredMessage
    BY <1>1, <1>6 DEF usb_vars, TakeCDCRestoredMessage
  <1>7. CASE NoCommand \/ StartCommand \/ StopCommand \/ EjectCommand \/ Switched \/ Log \/ Told
    BY <1>6, <1>7, Zenon DEF NoCommand, StartCommand, StopCommand, EjectCommand, Switched, Log, Told
  <1>8. CASE CDC_Receive_FS \/ STORAGE_Write_FS \/ UNCHANGED card_vars
    BY <1>6, <1>8 DEF CDC_Receive_FS, STORAGE_Write_FS, card_vars
  <1> QED
    BY <1>2, <1>3, <1>4, <1>5, <1>7, <1>8
    DEF CardNext, MainStep, CallService, InService, CallSwitch, InSwitch

\* Whatever call of the switch fails and whatever the host does in between,
\* usb_device_mode names the class on the bus whenever no switch is under way.
THEOREM ModeCorrect == Spec => []ModeIsClass
  <1>1. Init => ModeInv
    BY DEF Init, UsbInit, ModeInv
  <1>2. ModeInv => ModeIsClass
    BY DEF ModeInv, ModeIsClass
  <1> QED
    BY <1>1, <1>2, ModeStep, CardStep, PTL DEF Spec

-----------------------------------------------------------------------------
(* One owner of the card.                                                  *)

Released(s) == ~s.mounted /\ ~s.logging

\* From the unmount of SDLog_Eject until mass storage leaves the bus FatFs has
\* released the card, and no line waits that would take it back.
OwnerInv ==
  (dev_class = "MSC" \/ at \in {"eject", "switch"})
    => Released(session) /\ cdc_cmd_line \in LateLines \cup {NoLine}

\* A stop that fails lets go of the card; any other stop only closes the log.
LEMMA StopOutcome ==
  ASSUME NEW s \in Session, s.logging, NEW t \in AfterStop(s)
  PROVE  t.logging = FALSE /\ (t.mounted = FALSE \/ t.mounted = s.mounted)
  <1>1. CASE t = AfterAbort
    BY <1>1 DEF AfterAbort
  <1>2. CASE t = [s EXCEPT !.logging = FALSE, !.faulted = TRUE]
    BY <1>2, Zenon DEF Session
  <1>3. CASE t = [s EXCEPT !.logging = FALSE]
    BY <1>3, Zenon DEF Session
  <1> QED
    BY <1>1, <1>2, <1>3 DEF AfterStop

\* An eject that goes on has released the card.
LEMMA EjectReleases ==
  ASSUME NEW s \in Session, NEW r \in AfterEject(s), r.go
  PROVE  Released(r.state)
  <1>1. PICK t \in AfterSafeStop(s) : ~t.faulted /\ r.state = [t EXCEPT !.mounted = FALSE]
    BY DEF AfterEject
  <1>2. t \in Session
    BY <1>1, SessionOutcomes
  <1>3. ~t.logging
    <2>1. \A u \in Session : \A v \in AfterStop(u) : ~v.faulted => ~v.logging
      <3> SUFFICES ASSUME NEW u \in Session, NEW v \in AfterStop(u), ~v.faulted
                   PROVE  ~v.logging
        OBVIOUS
      <3>1. CASE ~u.logging
        BY <3>1 DEF AfterStop
      <3>2. CASE u.logging
        BY <3>2, StopOutcome
      <3> QED
        BY <3>1, <3>2
    <2>2. [s EXCEPT !.faulted = FALSE] \in Session
      BY DEF Session
    <2> QED
      BY <1>1, <2>1, <2>2 DEF AfterSafeStop
  <1> QED
    BY <1>1, <1>2, <1>3 DEF Released, Session

\* No stop and no eject takes back a card, and a stopped log stays stopped.
LEMMA StopsRelease ==
  ASSUME NEW s \in Session,
         NEW t, t \in AfterStop(s) \/ t \in AfterSafeStop(s) \/ \E r \in AfterEject(s) : t = r.state
  PROVE  (t.mounted => s.mounted) /\ (t.logging => s.logging)
  <1>1. ASSUME NEW u \in Session, NEW v \in AfterStop(u)
        PROVE  (v.mounted => u.mounted) /\ (v.logging => u.logging)
    <2>1. CASE ~u.logging
      BY <2>1 DEF AfterStop
    <2>2. CASE u.logging
      BY <2>2, StopOutcome
    <2> QED
      BY <2>1, <2>2
  <1>2. ASSUME NEW v \in AfterSafeStop(s)
        PROVE  (v.mounted => s.mounted) /\ (v.logging => s.logging)
    <2>1. [s EXCEPT !.faulted = FALSE] \in Session
      BY DEF Session
    <2> QED
      BY <1>1, <2>1 DEF AfterSafeStop, Session
  <1>3. ASSUME NEW r \in AfterEject(s), t = r.state
        PROVE  (t.mounted => s.mounted) /\ (t.logging => s.logging)
    <2>1. \E v \in AfterSafeStop(s) : t = v \/ t = [v EXCEPT !.mounted = FALSE]
      BY <1>3 DEF AfterEject
    <2> QED
      BY <1>2, <2>1, SessionOutcomes DEF Session
  <1> QED
    BY <1>1, <1>2, <1>3

\* Only 'd' takes a released card back.
LEMMA ReleasedStep ==
  ASSUME CardTypeOK, CardNext, ~StartCommand
  PROVE  (session'.mounted => session.mounted) /\ (session'.logging => session.logging)
  <1>1. session \in Session
    BY DEF CardTypeOK
  <1>2. CASE UNCHANGED session
    BY <1>2
  <1>3. CASE StopCommand \/ EjectCommand
    BY <1>1, <1>3, StopsRelease DEF StopCommand, EjectCommand
  <1>4. CASE BootCommand
    <2>1. PICK s \in AfterSafeStop(session) : session' = s \/ session' = PowerUp
      BY <1>4, Zenon DEF BootCommand
    <2> QED
      BY <1>1, <2>1, StopsRelease DEF PowerUp
  <1>5. CASE Log
    BY <1>2, <1>5 DEF Log, WriteFails, AfterAbort
  <1>6. CASE UsbInterrupt \/ CDC_Receive_FS \/ STORAGE_Write_FS
    BY <1>2, <1>6, Zenon DEF UsbInterrupt, CDC_Receive_FS, STORAGE_Write_FS, own
  <1>7. CASE CallService \/ InService \/ Told \/ NoCommand \/ CallSwitch \/ InSwitch \/ Switched
    BY <1>2, <1>7, Zenon DEF CallService, InService, Told, NoCommand, CallSwitch, InSwitch,
       Switched, own
  <1> QED
    BY <1>3, <1>4, <1>5, <1>6, <1>7 DEF CardNext, MainStep

\* Mass storage comes onto the bus only in the switch that 'e' makes.
LEMMA ClassStep ==
  ASSUME CardNext, dev_class' = "MSC"
  PROVE  dev_class = "MSC" \/ at = "switch"
  <1>1. CASE UNCHANGED dev_class
    BY <1>1
  <1>2. CASE CallSwitch
    BY <1>1, <1>2 DEF CallSwitch, SetModeMSC, bus
  <1>3. CASE InSwitch
    BY <1>3 DEF InSwitch
  <1>4. CASE CallService \/ InService
    BY <1>1, <1>4 DEF CallService, InService, ServiceEject, Service, ServiceSuspend,
       ServiceNothing, ServiceTakes, SetModeCDC, StopForCDC, RestartCDC, LeaveBus, JoinBus, bus
  <1>5. CASE UsbInterrupt
    BY <1>1, <1>5, Zenon DEF UsbInterrupt, Interrupt, HostResets, HostConfigures, HostSuspends,
       HostMoves, HostEjects, Disconnected, bus
  <1>6. CASE BootCommand
    BY <1>1, <1>6 DEF BootCommand, usb_vars, bus
  <1>7. CASE NoCommand \/ StartCommand \/ StopCommand \/ EjectCommand \/ Switched \/ Log \/ Told
    BY <1>1, <1>7 DEF NoCommand, StartCommand, StopCommand, EjectCommand, Switched, Log, Told,
       TakeCDCRestoredMessage, usb_vars, bus
  <1>8. CASE CDC_Receive_FS \/ STORAGE_Write_FS
    BY <1>1, <1>8 DEF CDC_Receive_FS, STORAGE_Write_FS, usb_vars, bus
  <1> QED
    BY <1>2, <1>3, <1>4, <1>5, <1>6, <1>7, <1>8 DEF CardNext, MainStep

\* The loop enters "eject" only by 'e', and "switch" only from "eject".
LEMMA AtStep ==
  ASSUME CardNext, at' \in {"eject", "switch"}, ~EjectCommand
  PROVE  at \in {"eject", "switch"}
  BY DEF CardNext, MainStep, CallService, InService, Told, NoCommand, StartCommand, StopCommand,
     BootCommand, CallSwitch, InSwitch, Switched, Log, UsbInterrupt, CDC_Receive_FS,
     STORAGE_Write_FS, Turns

\* The line that waits while FatFs has released the card does not take it
\* back: serial lines come only with the serial port on the bus.
LEMMA LineStep ==
  ASSUME CardNext, OwnerInv, dev_class = "MSC" \/ at \in {"eject", "switch"}
  PROVE  cdc_cmd_line' \in LateLines \cup {NoLine}
  <1>1. cdc_cmd_line \in LateLines \cup {NoLine}
    BY DEF OwnerInv
  <1>2. CASE UNCHANGED cdc_cmd_line \/ cdc_cmd_line' = NoLine
    BY <1>1, <1>2
  <1>3. CASE CDC_Receive_FS
    BY <1>1, <1>3 DEF CDC_Receive_FS, LineKept
  <1>4. CASE StartCommand \/ StopCommand \/ EjectCommand \/ BootCommand
    BY <1>2, <1>4 DEF StartCommand, StopCommand, EjectCommand, BootCommand, Takes
  <1>5. CASE UsbInterrupt \/ STORAGE_Write_FS \/ Log
    BY <1>2, <1>5, Zenon DEF UsbInterrupt, STORAGE_Write_FS, Log, own
  <1>6. CASE CallService \/ InService \/ Told \/ NoCommand \/ CallSwitch \/ InSwitch \/ Switched
    BY <1>2, <1>6, Zenon DEF CallService, InService, Told, NoCommand, CallSwitch, InSwitch,
       Switched, own
  <1> QED
    BY <1>3, <1>4, <1>5, <1>6 DEF CardNext, MainStep

\* A released card stays released while no 'd' may come late.
LEMMA OwnerStep ==
  ASSUME "d" \notin LateLines
  PROVE  CardTypeOK /\ OwnerInv /\ [CardNext]_card_vars => OwnerInv'
  <1> SUFFICES ASSUME CardTypeOK, OwnerInv, [CardNext]_card_vars,
                      (dev_class = "MSC" \/ at \in {"eject", "switch"})'
               PROVE  (Released(session) /\ cdc_cmd_line \in LateLines \cup {NoLine})'
    BY DEF OwnerInv
  <1>1. CASE UNCHANGED card_vars
    BY <1>1 DEF OwnerInv, Released, card_vars, own, usb_vars, bus
  <1>2. CASE EjectCommand
    <2>1. session \in Session
      BY DEF CardTypeOK
    <2>2. cdc_cmd_line' = NoLine
      BY <1>2 DEF EjectCommand, Takes
    <2>3. PICK r \in AfterEject(session) :
             session' = r.state /\ at' = IF r.go THEN "eject" ELSE "log"
      BY <1>2, Zenon DEF EjectCommand
    <2>4. CASE r.go
      BY <2>1, <2>2, <2>3, <2>4, EjectReleases
    <2>5. CASE ~r.go
      <3>1. dev_class' = dev_class
        BY <1>2 DEF EjectCommand, usb_vars, bus
      <3>2. dev_class = "MSC"
        BY <2>3, <2>5, <3>1
      <3>3. Released(session)
        BY <3>2 DEF OwnerInv
      <3> QED
        BY <2>1, <2>2, <2>3, <3>3, StopsRelease DEF Released
    <2> QED
      BY <2>4, <2>5
  <1>3. CASE CardNext /\ ~EjectCommand
    <2>1. dev_class = "MSC" \/ at \in {"eject", "switch"}
      BY <1>3, ClassStep, AtStep
    <2>2. Released(session) /\ cdc_cmd_line \in LateLines \cup {NoLine}
      BY <2>1 DEF OwnerInv
    <2>3. cdc_cmd_line' \in LateLines \cup {NoLine}
      BY <1>3, <2>1, LineStep
    <2>4. ~StartCommand
      BY <2>2 DEF StartCommand, Takes, NoLine
    <2>5. (session'.mounted => session.mounted) /\ (session'.logging => session.logging)
      BY <1>3, <2>4, ReleasedStep
    <2> QED
      BY <2>2, <2>3, <2>5 DEF Released
  <1> QED
    BY <1>1, <1>2, <1>3

\* FatFs and the host never use the card at once, unless a 'd' comes after 'e'
\* was taken: the run card_late shows that case, which the code does not
\* exclude.
THEOREM CardOwnedOnce ==
  ASSUME "d" \notin LateLines
  PROVE  Spec => []CardHasOneOwner
  <1>1. Init => CardTypeOK /\ OwnerInv
    BY TypeInit DEF Init, UsbInit, OwnerInv
  <1>2. CardTypeOK /\ OwnerInv /\ [CardNext]_card_vars => (CardTypeOK /\ OwnerInv)'
    BY TypeStep, OwnerStep
  <1>3. OwnerInv => CardHasOneOwner
    BY DEF OwnerInv, CardHasOneOwner, Released
  <1> QED
    BY <1>1, <1>2, <1>3, CardStep, PTL DEF Spec

-----------------------------------------------------------------------------
(* What FatFs believes about the card.                                     *)

\* The host changes the card only when it is not mounted, and a mount looks
\* at the card as it is.
LEMMA ViewStep ==
  ASSUME "d" \notin LateLines
  PROVE  CardTypeOK /\ OwnerInv /\ ViewIsCurrent /\ [CardNext]_card_vars => ViewIsCurrent'
  <1> SUFFICES ASSUME CardTypeOK, OwnerInv, ViewIsCurrent, [CardNext]_card_vars, session'.mounted
               PROVE  view' = card_version'
    BY DEF ViewIsCurrent
  <1>1. session \in Session
    BY DEF CardTypeOK
  <1>2. CASE UNCHANGED card_vars
    BY <1>2 DEF ViewIsCurrent, card_vars, own
  <1>3. CASE StartCommand
    <2>1. CASE session.logging
      BY <1>3, <2>1 DEF StartCommand, AfterStart, ViewIsCurrent
    <2>2. CASE ~session.logging
      BY <1>3, <2>2 DEF StartCommand
    <2> QED
      BY <2>1, <2>2
  <1>4. CASE CardNext /\ ~StartCommand
    <2>1. session.mounted
      BY <1>4, ReleasedStep
    <2>2. ~STORAGE_Write_FS
      BY <2>1 DEF OwnerInv, Released, STORAGE_Write_FS
    <2>3. UNCHANGED <<card_version, view>>
      BY <1>4, <2>2, Zenon DEF CardNext, MainStep, CallService, InService, Told, NoCommand,
         StopCommand, EjectCommand, BootCommand, CallSwitch, InSwitch, Switched, Log,
         UsbInterrupt, CDC_Receive_FS, own
    <2> QED
      BY <2>1, <2>3 DEF ViewIsCurrent
  <1> QED
    BY <1>2, <1>3, <1>4

\* A mounted card is never one the host has changed since the mount, again
\* unless a 'd' comes after 'e' was taken.
THEOREM ViewCurrent ==
  ASSUME "d" \notin LateLines
  PROVE  Spec => []ViewIsCurrent
  <1>1. Init => CardTypeOK /\ OwnerInv /\ ViewIsCurrent
    BY TypeInit DEF Init, UsbInit, OwnerInv, ViewIsCurrent
  <1>2. CardTypeOK /\ OwnerInv /\ ViewIsCurrent /\ [CardNext]_card_vars
          => (CardTypeOK /\ OwnerInv /\ ViewIsCurrent)'
    BY TypeStep, OwnerStep, ViewStep
  <1> QED
    BY <1>1, <1>2, CardStep, PTL DEF Spec

-----------------------------------------------------------------------------
(* What the user is told of a switch back.                                 *)

\* The eject flag is the host's; the suspend timer, which only runs in mass
\* storage mode, is not ahead of the bus until a switch back is decided.
ReasonInv ==
  /\ usb_msc_ejected => host_ejected
  /\ usb_switch_to_cdc_pending \/ msc_suspend_detect <= polls_suspended
  /\ usb_device_mode = "CDC" => msc_suspend_detect = 0
  /\ usb_pc \in {"stop_cdc", "start_msc", "mode"} => msc_suspend_detect = 0

\* The eject flag alone: a Boolean that only the host sets.
LEMMA EjectFlagStep ==
  ASSUME CardNext, usb_msc_ejected => host_ejected
  PROVE  usb_msc_ejected' => host_ejected'
  <1>1. CASE UNCHANGED <<usb_msc_ejected, host_ejected>>
    BY <1>1
  <1>2. CASE UsbInterrupt
    BY <1>2, Zenon DEF UsbInterrupt, Interrupt, HostResets, HostConfigures, HostSuspends,
       HostMoves, HostEjects, Disconnected, usb_flags, host
  <1>3. CASE CallService \/ InService
    BY <1>3, Zenon DEF CallService, InService, ServiceEject, TakeEject, Service, ServiceSuspend,
       ServiceNothing, ServiceTakes, SetModeCDC, StopForCDC, RestartCDC, usb_flags, host
  <1>4. CASE CallSwitch \/ InSwitch
    BY <1>4, Zenon DEF CallSwitch, InSwitch, SetModeMSC, SwitchToMSC, ClearForMSC, ClearFlags,
       StopForMSC, StartMSC, StartMSCFails, FallBackToCDC, usb_flags, host
  <1>5. CASE BootCommand
    BY <1>1, <1>5, Zenon DEF BootCommand, ClearFlags, usb_vars, usb_flags, host
  <1>6. CASE Told
    BY <1>1, <1>6, Zenon DEF Told, TakeCDCRestoredMessage, usb_vars, usb_flags, host
  <1>7. CASE NoCommand \/ StartCommand \/ StopCommand \/ EjectCommand \/ Switched \/ Log
    BY <1>1, <1>7, Zenon DEF NoCommand, StartCommand, StopCommand, EjectCommand, Switched, Log,
       usb_vars, usb_flags, host
  <1>8. CASE CDC_Receive_FS \/ STORAGE_Write_FS
    BY <1>1, <1>8, Zenon DEF CDC_Receive_FS, STORAGE_Write_FS, usb_vars, usb_flags, host
  <1> QED
    BY <1>2, <1>3, <1>4, <1>5, <1>6, <1>7, <1>8 DEF CardNext, MainStep

\* One call of the suspend watch counts no faster than the bus.
LEMMA SuspendWatch ==
  ASSUME CardTypeOK, ReasonInv, ServiceSuspend
  PROVE  /\ usb_switch_to_cdc_pending' \/ msc_suspend_detect' <= polls_suspended'
         /\ usb_device_mode = "CDC" => msc_suspend_detect' = 0
         /\ usb_cdc_restore_reason' # usb_cdc_restore_reason => polls_suspended' > SUSPEND
  <1> USE SuspendAssumption
  <1>1. /\ msc_suspend_detect \in 0 .. SUSPEND + 1
        /\ polls_suspended \in 0 .. SUSPEND + 2
    BY DEF CardTypeOK, UsbTypeOK
  <1>2. CASE Watched /\ dev_state = "suspended" /\ msc_was_configured
    <2>1. TimerRuns
      BY <1>2 DEF ServiceSuspend
    <2>2. polls_suspended' =
            IF polls_suspended <= SUSPEND + 1 THEN polls_suspended + 1 ELSE polls_suspended
      BY <1>2 DEF ServiceSuspend
    <2>3. usb_device_mode = "MSC" /\ msc_suspend_detect <= polls_suspended
      BY <1>2 DEF ReasonInv, Watched
    <2> QED
      BY <1>1, <2>1, <2>2, <2>3 DEF TimerRuns
  <1>3. CASE Watched /\ ~(dev_state = "suspended" /\ msc_was_configured)
    <2>1. msc_suspend_detect' = 0 /\ usb_cdc_restore_reason' = usb_cdc_restore_reason
      BY <1>3 DEF ServiceSuspend, Configured
    <2>2. polls_suspended' \in 0 .. SUSPEND + 2
      BY <1>1 DEF ServiceSuspend
    <2> QED
      BY <2>1, <2>2
  <1>4. CASE ~Watched
    <2>1. UNCHANGED <<usb_switch_to_cdc_pending, msc_suspend_detect, usb_cdc_restore_reason>>
      BY <1>4 DEF ServiceSuspend, usb_flags, Watched
    <2>2. CASE usb_switch_to_cdc_pending
      BY <2>1, <2>2 DEF ReasonInv
    <2>3. CASE usb_device_mode # "MSC"
      <3>1. usb_device_mode = "CDC"
        BY <2>3 DEF CardTypeOK, UsbTypeOK
      <3>2. msc_suspend_detect = 0 /\ polls_suspended' \in 0 .. SUSPEND + 2
        BY <1>1, <3>1 DEF ReasonInv, ServiceSuspend
      <3> QED
        BY <2>1, <3>2
    <2> QED
      BY <1>4, <2>2, <2>3 DEF Watched
  <1> QED
    BY <1>2, <1>3, <1>4

\* The strengthened invariant is inductive.
LEMMA ReasonStep == CardTypeOK /\ ReasonInv /\ [CardNext]_card_vars => ReasonInv'
  <1>1. ASSUME UNCHANGED card_vars, ReasonInv
        PROVE  ReasonInv'
    BY <1>1 DEF ReasonInv, card_vars, usb_vars, usb_flags, host
  <1>2. ASSUME CardTypeOK, ReasonInv, CardNext
        PROVE  ReasonInv'
    <2> DEFINE Timed ==
          /\ usb_switch_to_cdc_pending \/ msc_suspend_detect <= polls_suspended
          /\ usb_device_mode = "CDC" => msc_suspend_detect = 0
          /\ usb_pc \in {"stop_cdc", "start_msc", "mode"} => msc_suspend_detect = 0
    <2>1. usb_msc_ejected' => host_ejected'
      BY <1>2, EjectFlagStep DEF ReasonInv
    <2>2. Timed /\ polls_suspended \in 0 .. SUSPEND + 2 /\ SUSPEND \in Nat
      BY <1>2, SuspendAssumption DEF ReasonInv, CardTypeOK, UsbTypeOK
    <2>3. Timed'
      <3> USE DEF usb_flags, bus, host, Goes
      <3>1. CASE UNCHANGED usb_vars
        BY <2>2, <3>1 DEF usb_vars
      <3>2. CASE UsbInterrupt
        BY <2>2, <3>2 DEF UsbInterrupt, Interrupt, HostResets, HostConfigures, HostSuspends,
           HostMoves, HostEjects, Disconnected
      <3>3. CASE ServiceSuspend
        BY <1>2, <3>3, SuspendWatch DEF ServiceSuspend
      <3>4. CASE ServiceEject
        BY <2>2, <3>4 DEF ServiceEject, TakeEject
      <3>5. CASE ServiceNothing \/ SetModeCDC \/ StopForCDC \/ RestartCDC
        BY <2>2, <3>5 DEF ServiceNothing, SetModeCDC, StopForCDC, RestartCDC
      <3>6. CASE ServiceTakes
        BY <2>2, <3>6 DEF ServiceTakes
      <3>7. CASE SetModeMSC \/ SwitchToMSC
        BY <2>2, <3>7 DEF SetModeMSC, SwitchToMSC, ClearForMSC, ClearFlags, StopForMSC,
           StartMSC, StartMSCFails, FallBackMode, FallBackToCDC
      <3>8. CASE TakeCDCRestoredMessage
        BY <2>2, <3>8 DEF TakeCDCRestoredMessage
      <3>9. CASE BootCommand
        BY <3>1, <3>9 DEF BootCommand, ClearFlags
      <3>10. CASE NoCommand \/ StartCommand \/ StopCommand \/ EjectCommand \/ Switched \/ Log \/ Told
        BY <3>1, <3>8, <3>10, Zenon DEF NoCommand, StartCommand, StopCommand, EjectCommand,
           Switched, Log, Told
      <3>11. CASE CDC_Receive_FS \/ STORAGE_Write_FS
        BY <3>1, <3>11 DEF CDC_Receive_FS, STORAGE_Write_FS
      <3> QED
        BY <1>2, <3>2, <3>3, <3>4, <3>5, <3>6, <3>7, <3>9, <3>10, <3>11
        DEF CardNext, MainStep, CallService, InService, Service, CallSwitch, InSwitch
    <2> QED
      BY <2>1, <2>3 DEF ReasonInv
  <1> QED
    BY <1>1, <1>2

\* The reason the user reads is what happened, for every suspend timeout.
THEOREM ReasonTrue == Spec => RestoreReasonIsTrue
  <1> DEFINE Truthful ==
        /\ (usb_cdc_restore_reason = 0 /\ usb_cdc_restore_reason' = 1) => host_ejected
        /\ (usb_cdc_restore_reason = 0 /\ usb_cdc_restore_reason' = 2)
             => polls_suspended' > SUSPEND
  <1>1. Init => CardTypeOK /\ ReasonInv
    BY TypeInit DEF Init, UsbInit, ReasonInv
  <1>2. CardTypeOK /\ ReasonInv /\ [CardNext]_card_vars => (CardTypeOK /\ ReasonInv)'
    BY TypeStep, ReasonStep
  <1>3. CardTypeOK /\ ReasonInv /\ [CardNext]_card_vars => [Truthful]_usb_vars
    <2> SUFFICES ASSUME CardTypeOK, ReasonInv, CardNext, usb_cdc_restore_reason = 0,
                        usb_cdc_restore_reason' # 0
                 PROVE  Truthful
      BY DEF card_vars
    <2>1. CASE ServiceSuspend
      <3>1. polls_suspended' > SUSPEND
        BY <2>1, SuspendWatch
      <3>2. usb_cdc_restore_reason' # 1
        BY <2>1 DEF ServiceSuspend, Configured, TimerRuns, usb_flags
      <3> QED
        BY <3>1, <3>2
    <2>2. CASE ServiceEject
      <3>1. usb_msc_ejected /\ usb_cdc_restore_reason' = 1
        BY <2>2, Zenon DEF ServiceEject, TakeEject
      <3> QED
        BY <3>1 DEF ReasonInv
    <2>3. CASE ~ServiceSuspend /\ ~ServiceEject
      <3>1. usb_cdc_restore_reason' \in {0, usb_cdc_restore_reason}
        <4> USE DEF usb_flags, usb_vars
        <4>1. CASE CallService \/ InService \/ Told
          BY <2>3, <4>1 DEF CallService, InService, Told, Service, ServiceNothing, ServiceTakes,
             SetModeCDC, StopForCDC, RestartCDC, TakeCDCRestoredMessage
        <4>2. CASE CallSwitch \/ InSwitch
          BY <4>2 DEF CallSwitch, InSwitch, SetModeMSC, SwitchToMSC, ClearForMSC, ClearFlags,
             StopForMSC, StartMSC, StartMSCFails, FallBackToCDC
        <4>3. CASE UsbInterrupt
          BY <4>3 DEF UsbInterrupt, Interrupt, HostResets, HostConfigures, HostSuspends,
             HostMoves, HostEjects, Disconnected
        <4>4. CASE NoCommand \/ StartCommand \/ StopCommand \/ EjectCommand \/ Switched \/ Log
          BY <4>4 DEF NoCommand, StartCommand, StopCommand, EjectCommand, Switched, Log
        <4>5. CASE BootCommand \/ CDC_Receive_FS \/ STORAGE_Write_FS
          BY <4>5 DEF BootCommand, ClearFlags, CDC_Receive_FS, STORAGE_Write_FS
        <4> QED
          BY <4>1, <4>2, <4>3, <4>4, <4>5 DEF CardNext, MainStep
      <3> QED
        BY <3>1
    <2> QED
      BY <2>1, <2>2, <2>3
  <1> QED
    BY <1>1, <1>2, <1>3, CardStep, PTL DEF Spec, RestoreReasonIsTrue

-----------------------------------------------------------------------------
(* The command line.                                                       *)

\* No line the device accepted is replaced before the main loop takes it.
THEOREM LineNotReplaced == Spec => LineIsNotReplaced
  <1>1. [CardNext]_card_vars => [cdc_cmd_line # NoLine => cdc_cmd_line' \in {cdc_cmd_line, NoLine}]_cdc_cmd_line
    <2> SUFFICES ASSUME CardNext, cdc_cmd_line # NoLine
                 PROVE  cdc_cmd_line' \in {cdc_cmd_line, NoLine}
      BY DEF card_vars, own
    <2>1. CASE CDC_Receive_FS
      BY <2>1 DEF CDC_Receive_FS, LineKept
    <2>2. CASE UsbInterrupt \/ STORAGE_Write_FS
      BY <2>2 DEF UsbInterrupt, STORAGE_Write_FS, own
    <2>3. CASE MainStep
      BY <2>3 DEF MainStep, CallService, InService, Told, NoCommand, StartCommand, StopCommand,
         EjectCommand, BootCommand, CallSwitch, InSwitch, Switched, Log, Takes, own
    <2> QED
      BY <2>1, <2>2, <2>3 DEF CardNext
  <1> QED
    BY <1>1, CardStep, PTL DEF Spec, LineIsNotReplaced
=============================================================================

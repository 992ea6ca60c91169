------------------------------ MODULE UsbMode ------------------------------
(***************************************************************************)
(* Core/Src/usb_mode.c: the switch of the USB device between the serial    *)
(* port (CDC) and mass storage (MSC), made by the main loop while the USB  *)
(* interrupt reports what the host does.  usb_pc is where the main loop    *)
(* stands in USB_Device_SwitchToMSC or USB_Device_Service; "out" is        *)
(* anywhere else.  The interrupt may come between any two steps.           *)
(*                                                                         *)
(* External: the ST device library.  USBD_Start puts a class on the bus,   *)
(* USBD_Stop takes it off, dev_state follows the host.  Time is counted in *)
(* calls of USB_Device_Service: SUSPEND of them make the five seconds.     *)
(***************************************************************************)
EXTENDS Integers

CONSTANT SUSPEND  \* calls of USB_Device_Service in the suspend timeout

ASSUME SuspendAssumption == SUSPEND \in Nat \ {0}

VARIABLES
  usb_device_mode, usb_msc_ejected, usb_switch_to_cdc_pending,
  usb_cdc_restore_reason, msc_suspend_detect, msc_was_configured,
  usb_pc,
  dev_class,  \* the class on the bus
  dev_state,  \* hUsbDeviceFS.dev_state
  \* history: what the host did since the switch to mass storage
  host_ejected, polls_suspended

usb_flags == <<usb_msc_ejected, usb_switch_to_cdc_pending, usb_cdc_restore_reason,
               msc_suspend_detect, msc_was_configured>>
bus == <<dev_class, dev_state>>
host == <<host_ejected, polls_suspended>>
usb_vars == <<usb_device_mode, usb_flags, usb_pc, bus, host>>

\* MX_USB_Device_Init starts the device as a serial port.
UsbInit ==
  /\ usb_device_mode = "CDC"
  /\ usb_msc_ejected = FALSE /\ usb_switch_to_cdc_pending = FALSE
  /\ usb_cdc_restore_reason = 0
  /\ msc_suspend_detect = 0 /\ msc_was_configured = FALSE
  /\ usb_pc = "out"
  /\ dev_class = "CDC" /\ dev_state = "default"
  /\ host_ejected = FALSE /\ polls_suspended = 0

\* A step of the main loop from one place to another.
Goes(from, to) == usb_pc = from /\ usb_pc' = to

-----------------------------------------------------------------------------
(* USB_Device_SwitchToMSC.                                                 *)

SetModeMSC ==
  /\ Goes("out", "clear")
  /\ usb_device_mode' = "MSC"
  /\ UNCHANGED <<usb_flags, bus, host>>

ClearFlags ==
  /\ usb_msc_ejected' = FALSE
  /\ usb_switch_to_cdc_pending' = FALSE
  /\ usb_cdc_restore_reason' = 0
  /\ msc_suspend_detect' = 0
  /\ msc_was_configured' = FALSE

ClearForMSC ==
  /\ Goes("clear", "stop_cdc")
  /\ ClearFlags
  /\ host_ejected' = FALSE /\ polls_suspended' = 0
  /\ UNCHANGED <<usb_device_mode, bus>>

\* USBD_Stop and USBD_DeInit: the host sees a detach.
LeaveBus == dev_class' = "none" /\ dev_state' = "default"

\* USB_Device_InitClass.  USBD_Start is its last call: a failure of any of
\* its calls leaves no class on the bus.
JoinBus(class) == dev_class' = class /\ dev_state' = "default"

StopForMSC ==
  /\ Goes("stop_cdc", "start_msc")
  /\ LeaveBus
  /\ UNCHANGED <<usb_device_mode, usb_flags, host>>

StartMSC ==
  /\ Goes("start_msc", "out")
  /\ JoinBus("MSC")
  /\ UNCHANGED <<usb_device_mode, usb_flags, host>>

\* Mutant: the mode is not set back.
FallBackMode_Keeps == UNCHANGED usb_device_mode
FallBackMode == usb_device_mode' = "CDC"

StartMSCFails ==
  /\ Goes("start_msc", "start_cdc")
  /\ FallBackMode
  /\ LeaveBus
  /\ UNCHANGED <<usb_flags, host>>

\* The serial port is restored, or nothing is.
FallBackToCDC ==
  /\ Goes("start_cdc", "out")
  /\ JoinBus("CDC") \/ UNCHANGED bus
  /\ UNCHANGED <<usb_device_mode, usb_flags, host>>

SwitchToMSC ==
  \/ ClearForMSC \/ StopForMSC \/ StartMSC \/ StartMSCFails \/ FallBackToCDC

-----------------------------------------------------------------------------
(* USB_Device_Service.                                                     *)

\* Path 1: the host ejected the medium.  Mutant: only the flag is reset.
TakeEject_Forgets ==
  usb_msc_ejected' = FALSE /\ UNCHANGED <<usb_switch_to_cdc_pending, usb_cdc_restore_reason>>
TakeEject ==
  /\ usb_msc_ejected' = FALSE
  /\ usb_switch_to_cdc_pending' = TRUE
  /\ usb_cdc_restore_reason' = 1

ServiceEject ==
  /\ Goes("out", "suspend")
  /\ IF usb_msc_ejected
       THEN TakeEject
       ELSE UNCHANGED <<usb_msc_ejected, usb_switch_to_cdc_pending, usb_cdc_restore_reason>>
  /\ UNCHANGED <<usb_device_mode, msc_suspend_detect, msc_was_configured, bus, host>>

\* Path 2: the bus stays suspended after the host had configured the device.
\* Mutant: the timer keeps running when the host comes back.
Configured_KeepsTimer == msc_was_configured' = TRUE /\ UNCHANGED msc_suspend_detect
Configured == msc_was_configured' = TRUE /\ msc_suspend_detect' = 0

Watched == usb_device_mode = "MSC" /\ ~usb_switch_to_cdc_pending

TimerRuns ==
  IF msc_suspend_detect <= SUSPEND
    THEN /\ msc_suspend_detect' = msc_suspend_detect + 1
         /\ UNCHANGED <<usb_switch_to_cdc_pending, usb_cdc_restore_reason>>
    ELSE /\ msc_suspend_detect' = 0
         /\ usb_switch_to_cdc_pending' = TRUE
         /\ usb_cdc_restore_reason' = 2

ServiceSuspend ==
  /\ Goes("suspend", "pending")
  /\ \/ /\ Watched /\ dev_state = "configured"
        /\ Configured
        /\ UNCHANGED <<usb_switch_to_cdc_pending, usb_cdc_restore_reason>>
     \/ /\ Watched /\ dev_state = "suspended" /\ msc_was_configured
        /\ TimerRuns
        /\ UNCHANGED msc_was_configured
     \/ /\ Watched /\ dev_state # "configured"
        /\ ~(dev_state = "suspended" /\ msc_was_configured)
        /\ msc_suspend_detect' = 0
        /\ UNCHANGED <<usb_switch_to_cdc_pending, usb_cdc_restore_reason, msc_was_configured>>
     \/ ~Watched /\ UNCHANGED usb_flags
  /\ polls_suspended' =
       IF dev_state = "suspended"
         THEN IF polls_suspended <= SUSPEND + 1 THEN polls_suspended + 1 ELSE polls_suspended
         ELSE 0
  /\ UNCHANGED <<usb_device_mode, usb_msc_ejected, bus, host_ejected>>

ServiceNothing ==
  /\ ~usb_switch_to_cdc_pending
  /\ Goes("pending", "out")
  /\ UNCHANGED <<usb_device_mode, usb_flags, bus, host>>

\* The flags first, then the mode: a disconnect in between sets the pending
\* flag again, and the next call restarts the serial port once more.
ServiceTakes ==
  /\ usb_switch_to_cdc_pending
  /\ Goes("pending", "mode")
  /\ usb_switch_to_cdc_pending' = FALSE /\ usb_msc_ejected' = FALSE
  /\ msc_suspend_detect' = 0 /\ msc_was_configured' = FALSE
  /\ UNCHANGED <<usb_device_mode, usb_cdc_restore_reason, bus, host>>

SetModeCDC ==
  /\ Goes("mode", "stop_msc")
  /\ usb_device_mode' = "CDC"
  /\ UNCHANGED <<usb_flags, bus, host>>

StopForCDC ==
  /\ Goes("stop_msc", "restart_cdc")
  /\ LeaveBus
  /\ UNCHANGED <<usb_device_mode, usb_flags, host>>

RestartCDC ==
  /\ Goes("restart_cdc", "out")
  /\ \/ JoinBus("CDC") /\ UNCHANGED usb_cdc_restore_reason
     \/ UNCHANGED bus /\ usb_cdc_restore_reason' = 0
  /\ UNCHANGED <<usb_device_mode, usb_msc_ejected, usb_switch_to_cdc_pending,
                 msc_suspend_detect, msc_was_configured, host>>

Service ==
  \/ ServiceSuspend \/ ServiceNothing \/ ServiceTakes
  \/ SetModeCDC \/ StopForCDC \/ RestartCDC

\* USB_Device_TakeCDCRestoredMessage.
TakeCDCRestoredMessage ==
  /\ usb_pc = "out" /\ usb_device_mode = "CDC" /\ dev_state = "configured"
  /\ usb_cdc_restore_reason' = 0
  /\ UNCHANGED <<usb_device_mode, usb_msc_ejected, usb_switch_to_cdc_pending,
                 msc_suspend_detect, msc_was_configured, usb_pc, bus, host>>

-----------------------------------------------------------------------------
(* The USB interrupt.                                                      *)

HostMoves(states) ==
  /\ dev_class # "none"
  /\ dev_state' \in states \ {dev_state}
  /\ UNCHANGED <<usb_device_mode, usb_flags, usb_pc, dev_class, host>>

HostResets == HostMoves({"default"})
HostConfigures == HostMoves({"configured"})
HostSuspends == HostMoves({"suspended"})

\* USB_Device_NotifyMSCEjected, called for a SCSI START STOP UNIT.
HostEjects ==
  /\ dev_class = "MSC" /\ dev_state = "configured"
  /\ usb_msc_ejected' = (usb_msc_ejected \/ usb_device_mode = "MSC")
  /\ host_ejected' = TRUE
  /\ UNCHANGED <<usb_device_mode, usb_switch_to_cdc_pending, usb_cdc_restore_reason,
                 msc_suspend_detect, msc_was_configured, usb_pc, bus, polls_suspended>>

\* HAL_PCD_DisconnectCallback and USB_Device_NotifyDisconnected.
Disconnected ==
  /\ dev_class # "none"
  /\ dev_state' = "default"
  /\ IF usb_device_mode = "MSC"
       THEN usb_msc_ejected' = FALSE /\ usb_switch_to_cdc_pending' = TRUE
       ELSE UNCHANGED <<usb_msc_ejected, usb_switch_to_cdc_pending>>
  /\ UNCHANGED <<usb_device_mode, usb_cdc_restore_reason, msc_suspend_detect,
                 msc_was_configured, usb_pc, dev_class, host>>

Interrupt == HostResets \/ HostConfigures \/ HostSuspends \/ HostEjects \/ Disconnected

-----------------------------------------------------------------------------
(* Properties, checked where this module is composed with the main loop.   *)

UsbTypeOK ==
  /\ usb_device_mode \in {"CDC", "MSC"}
  /\ usb_msc_ejected \in BOOLEAN /\ usb_switch_to_cdc_pending \in BOOLEAN
  /\ usb_cdc_restore_reason \in 0 .. 2
  /\ msc_suspend_detect \in 0 .. SUSPEND + 1 /\ msc_was_configured \in BOOLEAN
  /\ usb_pc \in {"out", "clear", "stop_cdc", "start_msc", "start_cdc", "suspend",
                 "pending", "mode", "stop_msc", "restart_cdc"}
  /\ dev_class \in {"none", "CDC", "MSC"}
  /\ dev_state \in {"default", "configured", "suspended"}
  /\ host_ejected \in BOOLEAN /\ polls_suspended \in 0 .. SUSPEND + 2

\* Whenever no switch is under way, the class on the bus is the one the mode
\* tells USB_CDC_Print and the notifications of, or there is none, whatever
\* failed and whatever the host did meanwhile.
ModeIsClass == usb_pc = "out" => dev_class \in {usb_device_mode, "none"}

\* What the user is told is why: an eject only if the host ejected since the
\* switch, a lost connection only if the bus was seen suspended that long.
RestoreReasonIsTrue ==
  [][ /\ (usb_cdc_restore_reason = 0 /\ usb_cdc_restore_reason' = 1) => host_ejected
      /\ (usb_cdc_restore_reason = 0 /\ usb_cdc_restore_reason' = 2)
           => polls_suspended' > SUSPEND ]_usb_vars
=============================================================================

------------------------------ MODULE BootDfu ------------------------------
(***************************************************************************)
(* From reset to the main loop and by the command 'boot' into the ST       *)
(* bootloader: Core/Src/boot_dfu.c, main() of Core/Src/main.c up to its    *)
(* loop, Cmd_EnterBootloader, and the 48 MHz clock that USB shares with    *)
(* the radio core (USB_ClockConfig_ClaimCLK48, USB_ClockGuard).            *)
(*                                                                         *)
(* A reset or a power cycle may come between any two steps; what survives  *)
(* it is the backup register.  External: the bootloader, which may be left *)
(* by a reset or by its Go command, and CPU2, which resets the selection   *)
(* of the clock unless CPU1 holds the hardware semaphore.  Since           *)
(* CFG_HW_RESET_BY_FW is 0, MX_APPE_Config leaves the backup domain alone. *)
(* How the files are closed before the reset is in SDLog.                  *)
(***************************************************************************)
EXTENDS Integers

CONSTANTS
  MaxRequests, \* bound: commands 'boot' carried out
  MaxResets    \* bound: pin resets and power cycles

ASSUME BootConstants == MaxRequests \in Nat /\ MaxResets \in Nat

VARIABLES
  bkp, dbp,      \* RTC_BKP0R holds BOOT_DFU_MAGIC; it can be written
  vectors_ok,    \* system memory looks like a vector table
  map,           \* MEM_MODE and VTOR: whose vector table is used
  pc,            \* what CPU1 does next
  usb,           \* the pull-up is on: the host sees a device
  clk48, hsi48,  \* CLK48SEL; whether HSI48 is on
  semaphore,     \* the holder of CFG_HW_CLK48_CONFIG_SEMID
  c2boot,        \* CPU2 was started
  \* history: the fate of the last request, requests and entries, resets
  request, requests, entries, resets

backup == <<bkp, dbp>>
usbClock == <<usb, clk48, hsi48, semaphore, c2boot>>
history == <<request, requests, entries>>
vars == <<backup, vectors_ok, map, pc, usbClock, history, resets>>

AppPc == {"check", "consume", "vectors", "clocks", "claim", "peripherals", "usb",
          "appe", "guard", "command", "request", "reset"}

-----------------------------------------------------------------------------
(* BootDFU_CheckAndJump, the first statement of main().                    *)

\* A Go command leaves system memory mapped; a reset does not.
NormalBoot ==
  /\ pc = "check" /\ ~bkp
  /\ map' = "flash"
  /\ pc' = "clocks"
  /\ UNCHANGED <<backup, vectors_ok, usbClock, history, resets>>

RequestFound ==
  /\ pc = "check" /\ bkp
  /\ pc' = "consume"
  /\ UNCHANGED <<backup, vectors_ok, map, usbClock, history, resets>>

\* A write to the register lands only with access enabled.  Mutant: access is
\* not enabled before the flag is cleared.
ClearFlag_NoAccess == bkp' = (bkp /\ ~dbp)
ClearFlag == bkp' = FALSE
Consume ==
  /\ pc = "consume" /\ pc' = "vectors"
  /\ ClearFlag
  /\ dbp' = FALSE
  /\ UNCHANGED <<vectors_ok, map, usbClock, history, resets>>

\* RDP level 2, say: the application boots instead.
VectorsBad ==
  /\ pc = "vectors" /\ ~vectors_ok
  /\ pc' = "clocks"
  /\ request' = IF request = "made" THEN "refused" ELSE request
  /\ UNCHANGED <<backup, vectors_ok, map, usbClock, requests, entries, resets>>

Jump ==
  /\ pc = "vectors" /\ vectors_ok
  /\ map' = "system"
  /\ pc' = "bootloader"
  /\ request' = "entered" /\ entries' = entries + 1
  /\ UNCHANGED <<backup, vectors_ok, usbClock, requests, resets>>

-----------------------------------------------------------------------------
(* main() up to its loop.                                                  *)

\* SystemClock_Config and PeriphCommonClock_Config.
Clocks ==
  /\ pc = "clocks" /\ pc' = "claim"
  /\ clk48' = "PLLSAI1"
  /\ UNCHANGED <<backup, vectors_ok, map, usb, hsi48, semaphore, c2boot, history, resets>>

\* USB_ClockConfig_ClaimCLK48: the result of the take is not looked at.
\* Mutant: the semaphore is not taken.
FastTake_Not == UNCHANGED semaphore
FastTake == semaphore' = IF semaphore = "free" THEN "CPU1" ELSE semaphore
Claim ==
  /\ pc = "claim" /\ pc' = "peripherals"
  /\ FastTake
  /\ clk48' = "PLLSAI1"
  /\ UNCHANGED <<backup, vectors_ok, map, usb, hsi48, c2boot, history, resets>>

\* MX_GPIO_Init to MX_RTC_Init, whose MSP enables backup access.
HAL_RTC_MspInit == dbp' = TRUE
Peripherals ==
  /\ pc = "peripherals" /\ pc' = "usb"
  /\ HAL_RTC_MspInit
  /\ UNCHANGED <<bkp, vectors_ok, map, usbClock, history, resets>>

MX_USB_Device_Init ==
  /\ pc = "usb" /\ pc' = "appe"
  /\ usb' = TRUE
  /\ UNCHANGED <<backup, vectors_ok, map, clk48, hsi48, semaphore, c2boot, history, resets>>

\* A clock, a peripheral, USB or a TIM2 channel cannot be started: Error_Handler
\* masks interrupts and stops, in the last case with the pull-up on.
Error_Handler == pc' = "stopped"
InitFails ==
  /\ pc \in {"clocks", "peripherals", "usb", "appe"}
  /\ Error_Handler
  /\ dbp' \in {dbp, pc # "clocks"}
  /\ UNCHANGED <<bkp, vectors_ok, map, usbClock, history, resets>>

\* MX_APPE_Init starts CPU2 (HW_IPCC_Enable).
StartCpu2 ==
  /\ pc = "appe" /\ pc' = "guard"
  /\ c2boot' = TRUE
  /\ UNCHANGED <<backup, vectors_ok, map, usb, clk48, hsi48, semaphore, history, resets>>

-----------------------------------------------------------------------------
(* The main loop.                                                          *)

USB_ClockGuard ==
  /\ pc = "guard" /\ pc' = "command"
  /\ clk48' = "PLLSAI1"
  /\ UNCHANGED <<backup, vectors_ok, map, usb, hsi48, semaphore, c2boot, history, resets>>

\* No 'boot', or one cancelled because the files did not close.
NoBoot ==
  /\ pc = "command" /\ pc' = "guard"
  /\ UNCHANGED <<backup, vectors_ok, map, usbClock, history, resets>>

\* Cmd_EnterBootloader: the notice, then USBD_Stop and USBD_DeInit.
Cmd_EnterBootloader ==
  /\ pc = "command" /\ requests < MaxRequests
  /\ pc' = "request"
  /\ usb' = FALSE
  /\ UNCHANGED <<backup, vectors_ok, map, clk48, hsi48, semaphore, c2boot, history, resets>>

\* BootDFU_RequestAndReset writes the flag and waits for it to land.
\* Mutant: it does not wait.
SetFlag_MayBeLost == bkp' \in BOOLEAN
SetFlag == bkp' = TRUE
Request ==
  /\ pc = "request" /\ pc' = "reset"
  /\ dbp' = TRUE
  /\ SetFlag
  /\ request' = "made" /\ requests' = requests + 1
  /\ UNCHANGED <<vectors_ok, map, usbClock, entries, resets>>

\* What a system reset does to CPU1, the clocks, the semaphores and CPU2.
SystemReset ==
  /\ pc' = "check" /\ map' = "flash" /\ dbp' = FALSE
  /\ usb' = FALSE /\ clk48' = "HSI48" /\ hsi48' = FALSE
  /\ semaphore' = "free" /\ c2boot' = FALSE

Reset ==
  /\ pc = "reset"
  /\ SystemReset
  /\ UNCHANGED <<bkp, vectors_ok, history, resets>>

-----------------------------------------------------------------------------
(* The world outside.                                                      *)

\* A request that was consumed and not yet carried out is lost in a reset.
RequestAfterReset == IF request = "made" /\ pc = "vectors" THEN "interrupted" ELSE request

PinReset ==
  /\ resets < MaxResets /\ resets' = resets + 1
  /\ SystemReset
  /\ request' = RequestAfterReset
  /\ UNCHANGED <<bkp, vectors_ok, requests, entries>>

\* Without a battery the backup register is cleared.
PowerCycle ==
  /\ resets < MaxResets /\ resets' = resets + 1
  /\ SystemReset
  /\ bkp' \in {bkp, FALSE}
  /\ request' = IF bkp /\ ~bkp' /\ request = "made" THEN "interrupted" ELSE RequestAfterReset
  /\ UNCHANGED <<vectors_ok, requests, entries>>

\* The bootloader runs USB from HSI48.
BootloaderUsb ==
  /\ pc = "bootloader" /\ ~usb
  /\ usb' = TRUE /\ clk48' = "HSI48" /\ hsi48' = TRUE
  /\ UNCHANGED <<backup, vectors_ok, map, pc, semaphore, c2boot, history, resets>>

\* "Run after programming": main() starts without a reset.  The peripherals the
\* bootloader used are not reset, so the pull-up may still be on; SystemInit has
\* switched HSI48 off.
Go ==
  /\ pc = "bootloader" /\ pc' = "check"
  /\ usb' \in {usb, FALSE} /\ hsi48' = FALSE
  /\ UNCHANGED <<backup, vectors_ok, map, clk48, semaphore, c2boot, history, resets>>

\* CPU2 has used its random numbers: unless CPU1 claimed CLK48 it selects the
\* default source, and it powers HSI48 off.
Cpu2LeavesClock ==
  /\ c2boot
  /\ clk48' = IF semaphore = "CPU1" THEN clk48 ELSE "HSI48"
  /\ hsi48' = FALSE
  /\ UNCHANGED <<backup, vectors_ok, map, pc, usb, semaphore, c2boot, history, resets>>

\* The first power-on.
Init ==
  /\ bkp = FALSE /\ dbp = FALSE /\ vectors_ok \in BOOLEAN
  /\ map = "flash" /\ pc = "check"
  /\ usb = FALSE /\ clk48 = "HSI48" /\ hsi48 = FALSE
  /\ semaphore = "free" /\ c2boot = FALSE
  /\ request = "none" /\ requests = 0 /\ entries = 0 /\ resets = 0

Cpu1 ==
  \/ NormalBoot \/ RequestFound \/ Consume \/ VectorsBad \/ Jump
  \/ Clocks \/ Claim \/ Peripherals \/ MX_USB_Device_Init \/ InitFails \/ StartCpu2
  \/ USB_ClockGuard \/ NoBoot \/ Cmd_EnterBootloader \/ Request \/ Reset
World == PinReset \/ PowerCycle \/ BootloaderUsb \/ Go \/ Cpu2LeavesClock
Next == Cpu1 \/ World

\* The processor runs.
Spec == Init /\ [][Next]_vars /\ WF_vars(Cpu1)

-----------------------------------------------------------------------------
(* Properties.                                                             *)

CountsOK == requests \in 0 .. MaxRequests /\ entries \in Nat /\ resets \in 0 .. MaxResets
TypeOK ==
  /\ bkp \in BOOLEAN /\ dbp \in BOOLEAN /\ vectors_ok \in BOOLEAN
  /\ map \in {"flash", "system"} /\ pc \in AppPc \cup {"bootloader", "stopped"}
  /\ usb \in BOOLEAN /\ clk48 \in {"HSI48", "PLLSAI1"} /\ hsi48 \in BOOLEAN
  /\ semaphore \in {"free", "CPU1"} /\ c2boot \in BOOLEAN
  /\ request \in {"none", "made", "entered", "refused", "interrupted"}
  /\ CountsOK

\* The bootloader is entered at most once for each 'boot', wherever a reset or
\* a power cycle falls (boot_dfu.c:84-90: "rather than looping into DFU").
OneEntryPerRequest ==
  /\ entries <= requests
  /\ bkp => request = "made"

\* Once past BootDFU_CheckAndJump the application runs on its own vector table,
\* also when it was started by the bootloader's Go or the jump was refused, and
\* the bootloader on its own (boot_dfu.c:66-116).
TableIsTheProgramsOwn ==
  /\ pc \in AppPc \ {"check", "consume"} => map = "flash"
  /\ pc = "bootloader" => map = "system"

\* main() has not set the clock yet, or stopped where it failed to.
ClockNotSet ==
  pc \in {"check", "clocks"} \/ (pc = "stopped" /\ semaphore = "free")

\* Whenever the host sees a device, USB has a clock that runs: HSI48 for the
\* bootloader, and for the application, from SystemClock_Config on, PLLSAI1, which
\* CPU2 must not deselect in favour of the oscillator it powers down (main.c:210-262).
\* Only a device that the bootloader's Go left on the bus (boot_dfu.c:71-73) is
\* without a clock until then.
UsbKeepsItsClock == usb /\ ~ClockNotSet => clk48 = "PLLSAI1" \/ hsi48

BootInv == TypeOK /\ TableIsTheProgramsOwn /\ OneEntryPerRequest

\* A request that reached the register leads into the bootloader, unless it is
\* refused or a reset falls between its consumption and the jump or clears the
\* register.
RequestIsHonoured == request = "made" ~> request # "made"
=============================================================================

------------------------------- MODULE SdSpi -------------------------------
(***************************************************************************)
(* Core/Src/sd_spi_diskio.c behind diskio.c: the SD card driver, call by   *)
(* call and command by command, against a card that may refuse a command,  *)
(* reject a block, stay busy, or be taken out and replaced.                *)
(*                                                                         *)
(* Calls come from the main loop (FatFs) or from the USB interrupt (the    *)
(* STORAGE_*_FS functions of mass storage), one at a time (CardOwnership). *)
(* Every wait of the driver ends by HAL_GetTick, which SysTick_Handler     *)
(* advances; its priority (TICK_INT_PRIORITY, 15) is below that of the USB *)
(* interrupt (0), so that no tick comes while the latter runs.             *)
(*                                                                         *)
(* External: the card.  A sector holds the number of the write that filled *)
(* it.  An absent card reads as 0xFF: never busy, answering nothing.  A    *)
(* block is transferred in one step.                                       *)
(* Left out: GET_SECTOR_COUNT and the other ioctls that change nothing,    *)
(* ACMD23 (a hint whose answer is ignored), and calls with count = 0 or    *)
(* outside the card, which neither FatFs nor the USB library makes.        *)
(***************************************************************************)
EXTENDS Integers, Sequences

CONSTANTS
  SECTORS,     \* sectors of a card
  SD_BLOCK_SIZE,
  TIMEOUT,     \* ticks of every wait
  CALLERS,     \* who calls: "loop", "usb"
  MaxCount,    \* bound: sectors in a call
  MaxWrites,   \* bound: calls of SD_SPI_write
  MaxRemovals  \* bound: removals of a card

ASSUME DriverConstants ==
  /\ SECTORS \in Nat \ {0} /\ SD_BLOCK_SIZE \in Nat \ {0, 1} /\ TIMEOUT \in Nat \ {0}
  /\ CALLERS \subseteq {"loop", "usb"}
  /\ MaxCount \in Nat /\ MaxWrites \in Nat /\ MaxRemovals \in Nat

VARIABLES
  sd_status, sd_card_type,
  \* the call under way: where it is, for whom, sector, count, `count' as the
  \* code counts it down, the sectors read, ticks since the wait began
  pc, caller, op, sector, count, todo, buff, elapsed,
  result,      \* of the last call
  \* the card: its protocol state, whether it is addressed by block, its
  \* contents, the block it is busy storing, the sector a transfer is at
  card, by_block, blocks, storing, card_at,
  \* history: writes started, what a write that returned RES_OK left to be
  \* read back (0: nothing is promised), removals
  writes, promised, removals,
  same         \* ... the card has been in since the call began

driver == <<sd_status, sd_card_type>>
call == <<caller, op, sector, count>>
card_vars == <<card, by_block, blocks, storing, card_at>>
history == <<writes, promised, removals, same>>
vars == <<driver, pc, call, todo, buff, elapsed, result, card_vars, history>>

Sectors == 0 .. SECTORS - 1
Nothing == << >>
Empty == [s \in Sectors |-> 0]

Init ==
  /\ sd_status = "STA_NOINIT" /\ sd_card_type = "none"
  /\ pc = "out" /\ caller = "loop" /\ op = "none" /\ sector = 0 /\ count = 0
  /\ todo = 0 /\ buff = << >> /\ elapsed = 0 /\ result = "RES_OK"
  /\ card = "native" /\ by_block \in BOOLEAN
  /\ blocks = Empty /\ storing = Nothing /\ card_at = 0
  /\ writes = 0 /\ promised = Empty /\ removals = 0 /\ same = FALSE

-----------------------------------------------------------------------------
(* The card.                                                               *)

Stores ==
  /\ storing # Nothing
  /\ blocks' = [blocks EXCEPT ![storing[1]] = storing[2]]
  /\ storing' = Nothing
  /\ UNCHANGED <<driver, pc, call, todo, buff, elapsed, result, card, by_block, card_at, history>>

\* The card is taken out: what it has not stored is lost, and nothing that was
\* promised of it can be read any more.
Removed ==
  /\ card # "absent" /\ removals < MaxRemovals
  /\ card' = "absent" /\ storing' = Nothing
  /\ removals' = removals + 1 /\ promised' = Empty /\ same' = FALSE
  /\ UNCHANGED <<driver, pc, call, todo, buff, elapsed, result, by_block, blocks, card_at, writes>>

\* Another card, of either kind, that has not left its native mode.
Inserted ==
  /\ card = "absent"
  /\ card' = "native" /\ by_block' \in BOOLEAN /\ blocks' = Empty
  /\ UNCHANGED <<driver, pc, call, todo, buff, elapsed, result, storing, card_at, history>>

\* The sector the card takes an address for; SECTORS is out of range.
Addressed(address) ==
  IF by_block THEN address
  ELSE IF address % SD_BLOCK_SIZE = 0 THEN address \div SD_BLOCK_SIZE ELSE SECTORS

\* A transfer is over.
Released == IF card \in {"sending", "receiving"} THEN "ready" ELSE card

-----------------------------------------------------------------------------
(* Waiting.                                                                *)

\* The waits end by a comparison of ticks.  Mutant: the limit is not compared.
TimedOut_Never == FALSE
TimedOut == elapsed = TIMEOUT

SysTick_Handler ==
  /\ pc # "out" /\ elapsed < TIMEOUT
  /\ caller # "usb"
  /\ elapsed' = elapsed + 1
  /\ UNCHANGED <<driver, pc, call, todo, buff, result, card_vars, history>>

\* SD_WaitReady: a card that is not busy, or none, reads as 0xFF.
CardReady == storing = Nothing

\* The call goes on at a place where a new wait begins.
Goes(to) == pc' = to /\ elapsed' = 0

-----------------------------------------------------------------------------
(* The calls.                                                              *)

Calls(kind) == pc = "out" /\ caller' \in CALLERS /\ op' = kind

\* disk_initialize: SD_SPI_Reset up to its delay.
disk_initialize ==
  /\ Calls("initialize")
  /\ sd_status' = "STA_NOINIT" /\ sd_card_type' = "none"
  /\ Goes("delay")
  /\ UNCHANGED <<sector, count, todo, buff, result, card_vars, history>>

\* A call on a card that is not initialised returns at once.
NotReady ==
  /\ \E kind \in {"read", "write", "sync"} : Calls(kind)
  /\ sd_status = "STA_NOINIT"
  /\ result' = "RES_NOTRDY"
  /\ UNCHANGED <<driver, pc, sector, count, todo, buff, elapsed, card_vars, history>>

Transfers(s, n) ==
  /\ sd_status = "ready"
  /\ sector' = s /\ count' = n /\ todo' = n /\ buff' = << >>
  /\ Goes("command")

Run(s, n) == s .. s + n - 1

SD_SPI_read ==
  /\ Calls("read")
  /\ \E s \in Sectors, n \in 1 .. MaxCount : s + n <= SECTORS /\ Transfers(s, n)
  /\ UNCHANGED <<driver, result, card_vars, history>>

\* Until it returns, nothing is promised of the sectors it may overwrite.
SD_SPI_write ==
  /\ Calls("write") /\ writes < MaxWrites
  /\ \E s \in Sectors, n \in 1 .. MaxCount :
       /\ s + n <= SECTORS
       /\ Transfers(s, n)
       /\ promised' = [t \in Sectors |-> IF t \in Run(s, n) THEN 0 ELSE promised[t]]
  /\ writes' = writes + 1 /\ same' = (card # "absent")
  /\ UNCHANGED <<driver, result, card_vars, removals>>

\* SD_SPI_ioctl(CTRL_SYNC).
Sync ==
  /\ Calls("sync") /\ sd_status = "ready"
  /\ Goes("sync")
  /\ UNCHANGED <<driver, sector, count, todo, buff, result, card_vars, history>>

\* The call returns.  A write that returns RES_OK promises its sectors.
Returns(r, keeps) ==
  /\ Goes("out") /\ result' = r
  /\ promised' = IF keeps /\ same
                   THEN [t \in Sectors |-> IF t \in Run(sector, count) THEN writes ELSE promised[t]]
                   ELSE promised
  /\ UNCHANGED <<call, writes, removals, same>>

-----------------------------------------------------------------------------
(* SD_SPI_initialize.                                                      *)

\* HAL_Delay, of SD_SPI_Reset and of SD_SPI_initialize.
Delayed ==
  /\ pc = "delay" /\ elapsed = TIMEOUT
  /\ Goes("CMD0")
  /\ UNCHANGED <<driver, call, todo, buff, result, card_vars, history>>

\* CMD0 resets a card in any state; a transfer under way is given up.
CMD0 ==
  /\ pc = "CMD0" /\ CardReady /\ card # "absent"
  /\ card' = "idle"
  /\ Goes("ACMD41")
  /\ UNCHANGED <<driver, call, todo, buff, result, by_block, blocks, storing, card_at, history>>

\* CMD8 and ACMD41 or CMD1, repeated until the card leaves the idle state.
ACMD41 ==
  /\ pc = "ACMD41" /\ card = "idle"
  /\ card' = "ready"
  /\ Goes("CMD58")
  /\ UNCHANGED <<driver, call, todo, buff, result, by_block, blocks, storing, card_at, history>>

\* CMD58, or CMD16 for an old card: the kind of card.
\* Mutant: every card is taken for one addressed by bytes.
CardType_AllBytes == "byte"
CardType == IF by_block THEN "block" ELSE "byte"

CMD58 ==
  /\ pc = "CMD58" /\ card = "ready"
  /\ sd_card_type' = CardType /\ sd_status' = "ready"
  /\ Returns("RES_OK", FALSE)
  /\ UNCHANGED <<todo, buff, card_vars>>

\* Both loops give up after a second; a wrong echo of CMD8, or a refused CMD58
\* or CMD16, ends the attempt at once.
InitFails ==
  /\ (pc = "CMD0" /\ TimedOut) \/ pc \in {"ACMD41", "CMD58"}
  /\ sd_card_type' = "none" /\ sd_status' = "STA_NOINIT"
  /\ Returns("RES_ERROR", FALSE)
  /\ UNCHANGED <<todo, buff, card_vars>>

-----------------------------------------------------------------------------
(* SD_SPI_read, SD_SPI_write and CTRL_SYNC.                                *)

\* The address the command carries.
Address == IF sd_card_type = "block" THEN sector ELSE sector * SD_BLOCK_SIZE

\* SD_SendCmd waits for the card before it sends.  Mutant: it does not.
CommandWaits_Not == TRUE
CommandWaits == CardReady

\* SD_SendCmd(CMD17, CMD18, CMD24, CMD25): accepted.
Accepted ==
  /\ pc = "command" /\ CommandWaits /\ card = "ready"
  /\ Addressed(Address) < SECTORS
  /\ card_at' = Addressed(Address)
  /\ card' = IF op = "read" THEN "sending" ELSE "receiving"
  /\ Goes("data")
  /\ UNCHANGED <<driver, call, todo, buff, result, by_block, blocks, storing, history>>

\* It is refused, not answered, or never sent because the card stays busy.
Refused ==
  /\ pc = "command" /\ (CardReady \/ TimedOut)
  /\ Goes("end")
  /\ UNCHANGED <<driver, call, todo, buff, result, card_vars, history>>

\* One more block; after the last a single transfer is over, a multiple one
\* has to be stopped.
LastBlock == todo = 1

Counts ==
  /\ todo' = todo - 1
  /\ Goes(IF ~LastBlock THEN "data" ELSE IF count = 1 THEN "end" ELSE "stop")
  /\ card_at' = card_at + 1
  /\ card' = IF count = 1 THEN "ready" ELSE card

\* SD_ReadDataBlock.
ReadsBlock ==
  /\ pc = "data" /\ card = "sending" /\ card_at < SECTORS
  /\ buff' = Append(buff, blocks[card_at])
  /\ Counts
  /\ UNCHANGED <<driver, call, result, by_block, blocks, storing, history>>

\* SD_WriteDataBlock: the card is ready for the block, takes it and is busy.
WritesBlock ==
  /\ pc = "data" /\ card = "receiving" /\ CardReady /\ card_at < SECTORS
  /\ storing' = <<card_at, writes>>
  /\ Counts
  /\ UNCHANGED <<driver, call, buff, result, by_block, blocks, history>>

\* No start token comes; the block is rejected or not answered; the card stays
\* busy.  What the code then does with `count' decides the result.
BlockFails ==
  /\ pc = "data"
  /\ \/ op = "read" /\ TimedOut
     \/ op = "write" /\ (CardReady \/ TimedOut)
  /\ Goes(IF count = 1 THEN "end" ELSE "stop")
  /\ card' = IF count = 1 THEN Released ELSE card
  /\ UNCHANGED <<driver, call, todo, buff, result, by_block, blocks, storing, card_at, history>>

\* CMD12 after a read, whose answer is ignored, or the stop token after a write.
\* Mutant: a stop that fails is ignored, and so is a failed block.
Stopped_IgnoresCount == todo' = 0
Stopped == UNCHANGED todo

StopsTransfer ==
  /\ pc = "stop" /\ CardReady
  /\ card' = Released
  /\ Stopped
  /\ Goes("end")
  /\ UNCHANGED <<driver, call, buff, result, by_block, blocks, storing, card_at, history>>

\* The card stays busy: CMD12 is not sent, or the write fails after all.
StopFails ==
  /\ pc = "stop" /\ ~CardReady /\ TimedOut
  /\ todo' = IF op = "write" THEN 1 ELSE todo
  /\ Goes("end")
  /\ UNCHANGED <<driver, call, buff, result, card_vars, history>>

Ends ==
  /\ pc = "end"
  /\ Returns(IF todo = 0 THEN "RES_OK" ELSE "RES_ERROR", op = "write" /\ todo = 0)
  /\ UNCHANGED <<driver, todo, buff, card_vars>>

\* CTRL_SYNC waits for the card.  Mutant: it does not.
SyncWaits_Not == TRUE
SyncWaits == CardReady

Synced ==
  /\ pc = "sync"
  /\ \/ SyncWaits /\ Returns("RES_OK", FALSE)
     \/ ~CardReady /\ TimedOut /\ Returns("RES_ERROR", FALSE)
  /\ UNCHANGED <<driver, todo, buff, card_vars>>

-----------------------------------------------------------------------------

Driver ==
  \/ Delayed \/ CMD0 \/ ACMD41 \/ CMD58 \/ InitFails
  \/ Accepted \/ Refused \/ ReadsBlock \/ WritesBlock \/ BlockFails
  \/ StopsTransfer \/ StopFails \/ Ends \/ Synced

Next ==
  \/ disk_initialize \/ NotReady \/ SD_SPI_read \/ SD_SPI_write \/ Sync
  \/ Driver \/ SysTick_Handler
  \/ Stores \/ Removed \/ Inserted

Spec == Init /\ [][Next]_vars

\* The processor runs and time passes; nothing is asked of the card.
FairSpec == Spec /\ WF_vars(Driver) /\ WF_vars(SysTick_Handler)

-----------------------------------------------------------------------------
(* Properties.                                                             *)

TypeOK ==
  /\ sd_status \in {"STA_NOINIT", "ready"} /\ sd_card_type \in {"none", "byte", "block"}
  /\ pc \in {"out", "delay", "CMD0", "ACMD41", "CMD58", "command", "data", "stop", "end", "sync"}
  /\ caller \in {"loop", "usb"} /\ op \in {"none", "initialize", "read", "write", "sync"}
  /\ sector \in Sectors /\ count \in 0 .. MaxCount /\ todo \in 0 .. MaxCount
  /\ buff \in Seq(0 .. MaxWrites) /\ Len(buff) <= MaxCount
  /\ elapsed \in 0 .. TIMEOUT
  /\ result \in {"RES_OK", "RES_ERROR", "RES_NOTRDY"}
  /\ card \in {"absent", "native", "idle", "ready", "sending", "receiving"}
  /\ by_block \in BOOLEAN /\ blocks \in [Sectors -> 0 .. MaxWrites]
  /\ storing \in {Nothing} \cup (Sectors \X (1 .. MaxWrites)) /\ card_at \in 0 .. SECTORS
  /\ writes \in 0 .. MaxWrites /\ promised \in [Sectors -> 0 .. MaxWrites]
  /\ removals \in 0 .. MaxRemovals /\ same \in BOOLEAN

Holds(s, v) == blocks[s] = v \/ storing = <<s, v>>

\* FatFs and the host build on what a write that returned RES_OK left: as long
\* as the card stays in, the sectors hold it or are about to, whatever fails in
\* later calls and whichever kind of card was exchanged for the one before.
OkMeansWritten == \A s \in Sectors : promised[s] # 0 => Holds(s, promised[s])

\* A call that returned RES_OK did what it was asked.  f_sync relies on it for
\* CTRL_SYNC: the promised sectors are stored, and no power cut loses them.  A
\* read has given back what was promised of every sector, in order.
ResultIsTrue ==
  (pc = "out" /\ result = "RES_OK") =>
     /\ op = "sync" => \A s \in Sectors : promised[s] # 0 => blocks[s] = promised[s]
     /\ op = "read" => \A i \in 1 .. count :
                         LET p == promised[sector + i - 1] IN p # 0 => buff[i] = p
CallInv == TypeOK /\ ResultIsTrue

\* SD_CMD_TIMEOUT_MS, SD_READ_TIMEOUT_MS, SD_WRITE_TIMEOUT_MS and the limits of
\* a second in SD_SPI_initialize bound every wait: a call of the main loop
\* returns whatever the card does.
CallReturns == pc # "out" /\ caller = "loop" ~> pc = "out"

-----------------------------------------------------------------------------
(* What the documentation says and the code does not keep.                 *)

\* Mass storage, which README.md:24 promises, needs the same of the calls of the
\* USB interrupt; but no tick ends their waits.
StorageCallReturns == pc # "out" /\ caller = "usb" ~> pc = "out"
=============================================================================

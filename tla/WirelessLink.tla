---------------------------- MODULE WirelessLink ----------------------------
(***************************************************************************)
(* How CPU1 talks to the wireless core: the mailbox interrupts of          *)
(* hw_ipcc.c, the start-up of app_entry.c and app_ble.c once CPU2 reports  *)
(* ready, and the waits for CPU2's answers, in which the sequencer runs    *)
(* other tasks on the same stack.                                          *)
(*                                                                         *)
(* External: CPU2, ST's transport layer (which copies events between       *)
(* lists and frees their buffers) and ST's sequencer, as src/ uses them.   *)
(* The interrupts of the mailbox have one priority and preempt the main    *)
(* loop, so its steps are taken with no interrupt pending.                 *)
(*                                                                         *)
(* Left out: the ACL data channel, which nothing uses, and the trace       *)
(* channel, whose messages CPU1 drops.  What the commands and events mean  *)
(* is in BleLink; here a command only asks and is answered.                *)
(***************************************************************************)
EXTENDS Integers, Sequences

CONSTANTS
  NBUF,       \* event buffers of the pool
  InitCmds,   \* HCI commands of Ble_Hci_Gap_Gatt_Init, SVCCTL_Init, Adv_Request
  MaxEvents,  \* bound: asynchronous events CPU2 sends
  MaxCalls    \* bound: expiries of the advertising timer and notifications

ASSUME LinkConstants ==
  NBUF \in Nat \ {0} /\ InitCmds \in Nat /\ MaxEvents \in Nat /\ MaxCalls \in Nat

RX == {"sys_evt", "ble_evt"}
CHANNELS == RX \cup {"sys_cmd", "ble_cmd", "mm"}

VARIABLES
  flag,         \* the mailbox's flag of each channel
  open,         \* channels whose interrupt C1MR lets through
  isr,          \* the handler under way: <<channel, what it still does>>
  posted,       \* the events in CPU2's lists, one for each channel of RX
  rsp_posted,   \* the list of the BLE channel also holds the answer of a command
  asynch,       \* events for the user tasks, one queue for each channel of RX
  hci_rsp,      \* HciCmdEventQueue holds the answer of a command
  tasks, paused, evt_set,  \* the sequencer
  frames,       \* the stack of the main loop: a waiting frame runs the next one
  local_free, free_list,   \* buffers CPU1 has done with; those it has handed over
  cpu2_fw, cpu2_sys, cpu2_hci, cpu2_ble, cpu2_free,  \* CPU2
  advertised,   \* APP_BLE_Init has reached its end
  stopped,      \* Error_Handler
  events, calls \* history: what the bounds count

mailbox == <<flag, open, isr>>
queues == <<posted, rsp_posted, asynch, hci_rsp>>
sequencer == <<tasks, paused, evt_set>>
buffers == <<local_free, free_list, cpu2_free>>
cpu2 == <<cpu2_fw, cpu2_sys, cpu2_hci, cpu2_ble>>
outcome == <<advertised, stopped>>
bounds == <<events, calls>>
vars == <<mailbox, queues, sequencer, frames, buffers, cpu2, outcome, bounds>>

\* MX_APPE_Init: the mailbox and the system channel are open when TL_Enable
\* lets CPU2 start, with the wireless firmware, the FUS, or something else.
Init ==
  /\ flag = [c \in CHANNELS |-> FALSE] /\ open = {"sys_evt"} /\ isr = << >>
  /\ posted = [c \in RX |-> << >>] /\ asynch = [c \in RX |-> << >>]
  /\ rsp_posted = FALSE /\ hci_rsp = FALSE
  /\ tasks = {} /\ paused = {} /\ evt_set = {} /\ frames = << >>
  /\ local_free = 0 /\ free_list = 0 /\ cpu2_free = NBUF
  /\ cpu2_fw \in {"wireless", "fus", "other"}
  /\ cpu2_sys = "idle" /\ cpu2_hci = FALSE /\ cpu2_ble = FALSE
  /\ advertised = FALSE /\ stopped = FALSE /\ events = 0 /\ calls = 0

-----------------------------------------------------------------------------
(* CPU2.  It touches a list only while the channel is its own.             *)

\* The first event says which firmware runs; the FUS sends no other.  Events of
\* the BLE stack may make CPU1 send commands once it is advertising.
Sendable(c) ==
  IF c = "sys_evt"
    THEN {IF events = 0 THEN "ready" ELSE "note"}
    ELSE {"note"} \cup (IF advertised THEN {"link"} ELSE {})

Cpu2Sends(c) ==
  /\ ~stopped /\ ~flag[c] /\ cpu2_free > 0 /\ events < MaxEvents
  /\ c = "ble_evt" => cpu2_ble
  /\ cpu2_fw = "fus" => events = 0
  /\ \E e \in Sendable(c) : posted' = [posted EXCEPT ![c] = Append(@, e)]
  /\ cpu2_free' = cpu2_free - 1
  /\ events' = events + 1
  /\ UNCHANGED <<mailbox, rsp_posted, asynch, hci_rsp, sequencer, frames, local_free,
                 free_list, cpu2, outcome, calls>>

\* The answer of an HCI command has a buffer of its own.  Its place among the events
\* of the list tells nothing: the list is taken whole and sorted (Drain).
Cpu2AnswersHci ==
  /\ ~stopped /\ cpu2_hci /\ ~flag["ble_evt"]
  /\ rsp_posted' = TRUE
  /\ cpu2_hci' = FALSE
  /\ UNCHANGED <<mailbox, posted, asynch, hci_rsp, sequencer, frames, buffers, cpu2_fw,
                 cpu2_sys, cpu2_ble, outcome, bounds>>

AnswerIn(c) == c = "ble_evt" /\ rsp_posted

Cpu2Raises(c) ==
  /\ ~stopped /\ ~flag[c] /\ (posted[c] # << >> \/ AnswerIn(c))
  /\ flag' = [flag EXCEPT ![c] = TRUE]
  /\ UNCHANGED <<open, isr, queues, sequencer, frames, buffers, cpu2, outcome, bounds>>

\* The answer of a system command replaces the command in its buffer.  The only one
\* after the BLE channel is open, SHCI_C2_BLE_Init, starts the BLE stack.
Cpu2AnswersSys ==
  /\ ~stopped /\ flag["sys_cmd"]
  /\ flag' = [flag EXCEPT !["sys_cmd"] = FALSE]
  /\ cpu2_sys' \in {"answered", "refused"}
  /\ cpu2_ble' = (cpu2_ble \/ ("ble_evt" \in open /\ cpu2_sys' = "answered"))
  /\ UNCHANGED <<open, isr, queues, sequencer, frames, buffers, cpu2_fw, cpu2_hci,
                 outcome, bounds>>

Cpu2TakesHci ==
  /\ ~stopped /\ flag["ble_cmd"]
  /\ flag' = [flag EXCEPT !["ble_cmd"] = FALSE]
  /\ cpu2_hci' = TRUE
  /\ UNCHANGED <<open, isr, queues, sequencer, frames, buffers, cpu2_fw, cpu2_sys,
                 cpu2_ble, outcome, bounds>>

Cpu2TakesBuffers ==
  /\ ~stopped /\ flag["mm"]
  /\ flag' = [flag EXCEPT !["mm"] = FALSE]
  /\ cpu2_free' = cpu2_free + free_list /\ free_list' = 0
  /\ UNCHANGED <<open, isr, queues, sequencer, frames, local_free, cpu2, outcome, bounds>>

-----------------------------------------------------------------------------
(* HW_IPCC_Rx_Handler and HW_IPCC_Tx_Handler: the first pending channel.   *)

RxPending == {c \in RX \cap open : flag[c]}
TxPending == {c \in {"sys_cmd", "mm"} \cap open : ~flag[c]}
\* The main loop runs.
Quiet == ~stopped /\ isr = << >> /\ RxPending = {} /\ TxPending = {}

\* HW_IPCC_SYS_EvtHandler, HW_IPCC_BLE_EvtHandler: the list is emptied, then the
\* channel is given back.  Mutant: the other way round.
EVT_HANDLER_ClearsFirst == <<"clear", "drain">>
EVT_HANDLER == <<"drain", "clear">>
\* HW_IPCC_MM_FreeBufHandler, once the mask is closed.
FREE_HANDLER == <<"move", "set">>

RxInterrupt ==
  /\ ~stopped /\ isr = << >> /\ RxPending # {}
  /\ LET c == IF "sys_evt" \in RxPending THEN "sys_evt" ELSE "ble_evt"
     IN  isr' = <<c>> \o EVT_HANDLER
  /\ UNCHANGED <<flag, open, queues, sequencer, frames, buffers, cpu2, outcome, bounds>>

Isr(c, step) == ~stopped /\ isr # << >> /\ isr[1] = c /\ isr[2] = step
Returns == isr' = IF Len(isr) = 2 THEN << >> ELSE <<isr[1], isr[3]>>

\* The transport layer sorts the list: an answer releases the wait
\* (hci_cmd_resp_release), an event is queued for its task
\* (shci_notify_asynch_evt, hci_notify_asynch_evt).
Drain(c) ==
  /\ Isr(c, "drain") /\ Returns
  /\ asynch' = [asynch EXCEPT ![c] = @ \o posted[c]]
  /\ tasks' = IF posted[c] = << >> THEN tasks ELSE tasks \cup {c}
  /\ hci_rsp' = (hci_rsp \/ AnswerIn(c))
  /\ evt_set' = IF AnswerIn(c) THEN evt_set \cup {"hci"} ELSE evt_set
  /\ rsp_posted' = (rsp_posted /\ ~AnswerIn(c))
  /\ posted' = [posted EXCEPT ![c] = << >>]
  /\ UNCHANGED <<flag, open, paused, frames, buffers, cpu2, outcome, bounds>>

ClearFlag(c) ==
  /\ Isr(c, "clear") /\ Returns
  /\ flag' = [flag EXCEPT ![c] = FALSE]
  /\ UNCHANGED <<open, queues, sequencer, frames, buffers, cpu2, outcome, bounds>>

\* The mask is closed; a command's answer releases its wait (HW_IPCC_SYS_Cmd-
\* EvtHandler, shci_cmd_resp_release), a free channel takes the buffers that wait.
TxInterrupt ==
  /\ ~stopped /\ isr = << >> /\ TxPending # {}
  /\ IF "sys_cmd" \in TxPending
       THEN open' = open \ {"sys_cmd"} /\ evt_set' = evt_set \cup {"sys"} /\ UNCHANGED isr
       ELSE open' = open \ {"mm"} /\ isr' = <<"mm">> \o FREE_HANDLER /\ UNCHANGED evt_set
  /\ UNCHANGED <<flag, queues, tasks, paused, frames, buffers, cpu2, outcome, bounds>>

MoveBuffers == free_list' = free_list + local_free /\ local_free' = 0

FreeBufCb ==
  /\ Isr("mm", "move") /\ Returns /\ MoveBuffers
  /\ UNCHANGED <<flag, open, queues, sequencer, frames, cpu2_free, cpu2, outcome, bounds>>

FreeBufSetFlag ==
  /\ Isr("mm", "set") /\ Returns
  /\ flag' = [flag EXCEPT !["mm"] = TRUE]
  /\ UNCHANGED <<open, queues, sequencer, frames, buffers, cpu2, outcome, bounds>>

-----------------------------------------------------------------------------
(* The main loop and the tasks on its stack.                               *)

Top == frames[Len(frames)]
At(pc) == Quiet /\ frames # << >> /\ Top.pc = pc
Below == SubSeq(frames, 1, Len(frames) - 1)
Goto(pc) == frames' = [frames EXCEPT ![Len(frames)] = [Top EXCEPT !.pc = pc]]
\* The next thing the frame does, or its end.
Advance(pc) ==
  frames' = [frames EXCEPT ![Len(frames)] =
               [task |-> Top.task, pc |-> pc, todo |-> Tail(Top.todo)]]
Does(x) == At("run") /\ Top.todo # << >> /\ Head(Top.todo) = x
Waits == frames # << >> => \/ Top.pc = "sys_wait" /\ "sys" \notin evt_set
                           \/ Top.pc = "hci_wait" /\ "hci" \notin evt_set
Frame(task, todo) == [task |-> task, pc |-> "run", todo |-> todo]

\* APPE_SysEvtReadyProcessing with the wireless firmware: APPD_EnableCPU2,
\* SHCI_C2_Config, then APP_BLE_Init.
StartUp ==
  <<"sys", "sys", "open_ble", "ble_init">> \o [i \in 1 .. InitCmds |-> "hci"]
          \o <<"advertised">>
Handling(e) ==
  CASE e = "ready" -> (IF cpu2_fw = "wireless" THEN StartUp ELSE << >>)
    [] e = "link" -> <<"hci">>
    [] OTHER -> << >>

\* UTIL_SEQ_Run, in the loop or in a wait: a task that is set, not paused and not
\* waiting itself.  shci_user_evt_proc and hci_user_evt_proc take one event and ask
\* to be run again; FUS's ready event is put back and no other is taken
\* (SHCI_TL_UserEventFlow_Disable).  Adv_Cancel sends a command unless connected.
RunTask(t) ==
  /\ Quiet /\ Waits
  /\ t \in tasks \ paused
  /\ \A i \in DOMAIN frames : frames[i].task # t
  /\ IF t \in RX
       THEN /\ asynch[t] # << >>
            /\ IF Head(asynch[t]) = "ready" /\ cpu2_fw = "fus"
                 THEN tasks' = tasks \ {t} /\ UNCHANGED <<frames, asynch>>
                 ELSE /\ frames' = Append(frames, Frame(t, Handling(Head(asynch[t]))
                                                             \o <<"done">>))
                      /\ asynch' = [asynch EXCEPT ![t] = Tail(@)]
                      /\ tasks' = IF Len(asynch[t]) = 1 THEN tasks \ {t} ELSE tasks
       ELSE /\ \E todo \in {<<"hci">>, << >>} : frames' = Append(frames, Frame(t, todo))
            /\ tasks' = tasks \ {t}
            /\ UNCHANGED asynch
  /\ UNCHANGED <<mailbox, posted, rsp_posted, hci_rsp, paused, evt_set, buffers, cpu2,
                 outcome, bounds>>

\* The advertising timer's interrupt sets the task Adv_Cancel, and the loop sends
\* a notification (P2PS_APP_Process).
AdvTimer ==
  /\ ~stopped /\ advertised /\ calls < MaxCalls
  /\ calls' = calls + 1
  /\ tasks' = tasks \cup {"adv_cancel"}
  /\ UNCHANGED <<mailbox, queues, paused, evt_set, frames, buffers, cpu2, outcome, events>>

Notify ==
  /\ Quiet /\ advertised /\ frames = << >> /\ calls < MaxCalls
  /\ calls' = calls + 1
  /\ frames' = <<Frame("loop", <<"hci">>)>>
  /\ UNCHANGED <<mailbox, queues, sequencer, buffers, cpu2, outcome, events>>

\* A task that has nothing left returns.
Return ==
  /\ At("run") /\ Top.todo = << >>
  /\ frames' = Below
  /\ UNCHANGED <<mailbox, queues, sequencer, buffers, cpu2, outcome, bounds>>

\* HW_IPCC_SYS_SendCmd: the flag, then the mask.  Mutant: the other way round.
SYS_SENDS_MaskFirst == <<"sys_mask", "sys_flag">>
SYS_SENDS == <<"sys_flag", "sys_mask">>

SendSys(x) ==
  /\ x \in {"sys", "ble_init"} /\ Does(x)
  /\ Goto(SYS_SENDS[1])
  /\ UNCHANGED <<mailbox, queues, sequencer, buffers, cpu2, outcome, bounds>>

SysThen(pc) == Goto(IF pc = SYS_SENDS[1] THEN SYS_SENDS[2] ELSE "sys_wait")

SysSetFlag ==
  /\ At("sys_flag") /\ SysThen("sys_flag")
  /\ flag' = [flag EXCEPT !["sys_cmd"] = TRUE] /\ cpu2_sys' = "sent"
  /\ UNCHANGED <<open, isr, queues, sequencer, buffers, cpu2_fw, cpu2_hci, cpu2_ble,
                 outcome, bounds>>

SysEnableTransmit ==
  /\ At("sys_mask") /\ SysThen("sys_mask")
  /\ open' = open \cup {"sys_cmd"}
  /\ UNCHANGED <<flag, isr, queues, sequencer, buffers, cpu2, outcome, bounds>>

\* shci_cmd_resp_wait returns.  Only SHCI_C2_BLE_Init looks at the answer: a
\* refusal ends in Error_Handler.
SysAnswered ==
  /\ At("sys_wait") /\ "sys" \in evt_set
  /\ evt_set' = evt_set \ {"sys"}
  /\ Advance("run")
  /\ stopped' = (Head(Top.todo) = "ble_init" /\ cpu2_sys = "refused")
  /\ cpu2_sys' = "idle"
  /\ UNCHANGED <<mailbox, queues, tasks, paused, buffers, cpu2_fw, cpu2_hci, cpu2_ble,
                 advertised, bounds>>

\* Ble_Tl_Init, HW_IPCC_BLE_Init.
OpenBle ==
  /\ Does("open_ble") /\ Advance("run")
  /\ open' = open \cup {"ble_evt"}
  /\ UNCHANGED <<flag, isr, queues, sequencer, buffers, cpu2, outcome, bounds>>

\* BLE_StatusNot: the tasks with an ID below CFG_LAST_TASK_ID_WITH_HCICMD.
WITH_HCICMD == {"adv_cancel", "ble_evt"}

SendHci ==
  /\ Does("hci") /\ Goto("hci_wait")
  /\ paused' = paused \cup WITH_HCICMD
  /\ flag' = [flag EXCEPT !["ble_cmd"] = TRUE]
  /\ UNCHANGED <<open, isr, queues, tasks, evt_set, buffers, cpu2, outcome, bounds>>

\* hci_cmd_resp_wait returns; without an answer in the queue it is called again.
HciAnswered ==
  /\ At("hci_wait") /\ "hci" \in evt_set
  /\ evt_set' = evt_set \ {"hci"}
  /\ IF hci_rsp
       THEN hci_rsp' = FALSE /\ paused' = paused \ WITH_HCICMD /\ Advance("run")
       ELSE UNCHANGED <<hci_rsp, paused, frames>>
  /\ UNCHANGED <<mailbox, posted, rsp_posted, asynch, tasks, buffers, cpu2, outcome, bounds>>

\* The end of APP_BLE_Init.
Advertises ==
  /\ Does("advertised") /\ Advance("run")
  /\ advertised' = TRUE
  /\ UNCHANGED <<mailbox, queues, sequencer, buffers, cpu2, stopped, bounds>>

\* The event is handled: TL_MM_EvtDone, then HW_IPCC_MM_SendFreeBuf.
EvtDone ==
  /\ Does("done") /\ Advance("free")
  /\ local_free' = local_free + 1
  /\ UNCHANGED <<mailbox, queues, sequencer, free_list, cpu2_free, cpu2, outcome, bounds>>

SendFreeBuf ==
  /\ At("free") /\ Goto(IF flag["mm"] THEN "free_mask" ELSE "free_move")
  /\ UNCHANGED <<mailbox, queues, sequencer, buffers, cpu2, outcome, bounds>>

\* Mutant: the buffers wait for the next call.
WaitForChannel_Not == open
WaitForChannel == open \cup {"mm"}

FreeWhenTaken ==
  /\ At("free_mask") /\ Goto("run")
  /\ open' = WaitForChannel
  /\ UNCHANGED <<flag, isr, queues, sequencer, buffers, cpu2, outcome, bounds>>

FreeNow ==
  /\ At("free_move") /\ Goto("free_flag") /\ MoveBuffers
  /\ UNCHANGED <<mailbox, queues, sequencer, cpu2_free, cpu2, outcome, bounds>>

FreeSetFlag ==
  /\ At("free_flag") /\ Goto("run")
  /\ flag' = [flag EXCEPT !["mm"] = TRUE]
  /\ UNCHANGED <<open, isr, queues, sequencer, buffers, cpu2, outcome, bounds>>

-----------------------------------------------------------------------------

Cpu2 ==
  \/ \E c \in RX : Cpu2Raises(c)
  \/ Cpu2AnswersHci \/ Cpu2AnswersSys \/ Cpu2TakesHci \/ Cpu2TakesBuffers

Interrupt ==
  \/ RxInterrupt \/ TxInterrupt \/ FreeBufCb \/ FreeBufSetFlag
  \/ \E c \in RX : Drain(c) \/ ClearFlag(c)

Cpu1 ==
  \/ \E t \in RX \cup {"adv_cancel"} : RunTask(t)
  \/ \E x \in {"sys", "ble_init"} : SendSys(x)
  \/ SysSetFlag \/ SysEnableTransmit \/ SysAnswered \/ OpenBle
  \/ SendHci \/ HciAnswered \/ Advertises \/ Return
  \/ EvtDone \/ SendFreeBuf \/ FreeWhenTaken \/ FreeNow \/ FreeSetFlag

Next == Cpu2 \/ Interrupt \/ Cpu1 \/ AdvTimer \/ Notify \/ \E c \in RX : Cpu2Sends(c)

Spec == Init /\ [][Next]_vars

\* Both cores run and CPU2 says that it is ready; nobody has to send an event.
FairSpec ==
  /\ Spec
  /\ WF_vars(Cpu1) /\ WF_vars(Interrupt)
  /\ WF_vars(Cpu2AnswersHci) /\ WF_vars(Cpu2AnswersSys)
  /\ WF_vars(Cpu2TakesHci) /\ WF_vars(Cpu2TakesBuffers)
  /\ \A c \in RX : WF_vars(Cpu2Raises(c))
  /\ WF_vars(events = 0 /\ Cpu2Sends("sys_evt"))

-----------------------------------------------------------------------------
(* Properties.                                                             *)

TypeOK ==
  /\ flag \in [CHANNELS -> BOOLEAN] /\ open \subseteq CHANNELS
  /\ \A c \in RX : Len(posted[c]) + Len(asynch[c]) <= NBUF
  /\ tasks \subseteq RX \cup {"adv_cancel"} /\ paused \subseteq RX \cup {"adv_cancel"}
  /\ evt_set \subseteq {"sys", "hci"}
  /\ local_free \in 0 .. NBUF /\ free_list \in 0 .. NBUF /\ cpu2_free \in 0 .. NBUF
  /\ advertised \in BOOLEAN /\ stopped \in BOOLEAN

\* A list of events is emptied, and the list of freed buffers filled, only while
\* the flag says that it is CPU1's: the cores never change one list at a time.
OneCoreAtATime ==
  /\ \A c \in RX : isr # << >> /\ isr[1] = c /\ isr[2] = "drain" => flag[c]
  /\ isr # << >> /\ isr[1] = "mm" => ~flag["mm"]
  /\ \A i \in DOMAIN frames : frames[i].pc \in {"free_move", "free_flag"} => ~flag["mm"]

\* A wait for CPU2 ends on the answer of its own command, whatever ran meanwhile on
\* the stack: nothing releases a system command before CPU2 has answered it, and no
\* second HCI command is sent while one is pending, as app_conf.h:675-676 asks.
AnswerIsItsOwn ==
  /\ "sys" \in evt_set => cpu2_sys \in {"answered", "refused"}
  /\ \A i, j \in DOMAIN frames :
       frames[i].pc = "hci_wait" /\ frames[j].pc = "hci_wait" => i = j
LinkInv == TypeOK /\ AnswerIsItsOwn

\* In the end, unless Error_Handler stopped the program, every event is handled and
\* its buffer is back with CPU2, save the one FUS must not be given, and a wireless
\* firmware that reported ready has been set up and advertises.
Withheld == IF cpu2_fw = "fus" THEN 1 ELSE 0
Settled ==
  \/ stopped
  \/ cpu2_free = NBUF - Withheld /\ (cpu2_fw = "wireless" => advertised)
LinkSettles == <>[]Settled

=============================================================================

----------------------------- MODULE RfEvtQueue -----------------------------
(***************************************************************************)
(* The puff event queue of Core/Src/main.c: a ring of RF_EVT_QUEUE_LEN     *)
(* slots between one producer, the TIM2 interrupt (RF_QueuePush), and one  *)
(* consumer, the main loop (PuffLogService).  "Single producer / single    *)
(* consumer, so no lock is needed": head is written by the interrupt only, *)
(* tail by the main loop only, and both are free running uint32_t that     *)
(* wrap at 2^32 (here at IDX).                                             *)
(*                                                                         *)
(* The interrupt preempts the main loop and never the other way round, so  *)
(* RF_QueuePush is one step, while the loop's test of head, its copy of    *)
(* the slot and its release of the slot are three steps an interrupt may   *)
(* fall between.  The __DMB() calls keep the compiler and the core from    *)
(* reordering them, so the steps are taken in program order.               *)
(***************************************************************************)
EXTENDS Integers, Sequences

CONSTANTS
  Event,    \* what an RfPuffEvent can hold
  NoEvent,  \* the content of a slot before its first use
  QLEN,     \* RF_EVT_QUEUE_LEN
  IDX       \* the modulus of rf_evt_head and rf_evt_tail (2^32)

\* 16 slots, 2^32 index values: wrap-around is harmless because the length
\* divides the modulus, and full differs from empty because it is smaller.
\* RFPuff assumes it of its constants.
QueueSizes ==
  /\ QLEN \in Nat \ {0}
  /\ IDX \in Nat
  /\ \E k \in 2 .. IDX : IDX = QLEN * k

VARIABLES
  rf_evt_queue,      \* the slots
  rf_evt_head,       \* next slot to fill
  rf_evt_tail,       \* next slot to drain
  rf_evt_dropped,    \* events lost to a full queue
  dropped_reported,  \* static of PuffLogService: losses already printed
  at,                \* where PuffLogService stands
  ev,                \* its local copy of an event
  accepted,          \* history: events stored in the queue
  logged             \* history: events handed to Puff_LogStart / Puff_LogEnd

ringVars == <<rf_evt_queue, rf_evt_head, rf_evt_dropped, accepted>>
loopVars == <<rf_evt_tail, at, ev, logged, dropped_reported>>
queueVars == <<rf_evt_queue, rf_evt_head, rf_evt_dropped, accepted,
               rf_evt_tail, at, ev, logged, dropped_reported>>

Slot == 0 .. QLEN - 1

QueueInit ==
  /\ rf_evt_queue = [s \in Slot |-> NoEvent]
  /\ rf_evt_head = 0
  /\ rf_evt_tail = 0
  /\ rf_evt_dropped = 0
  /\ dropped_reported = 0
  /\ at = "test"
  /\ ev = NoEvent
  /\ accepted = << >>
  /\ logged = << >>

-----------------------------------------------------------------------------
(* The producer.                                                           *)

\* head - tail in uint32_t arithmetic.
Used == (rf_evt_head - rf_evt_tail) % IDX

\* Mutant: the test off by one.
Full_Early == Used >= QLEN - 1
Full == Used >= QLEN

\* index + 1 in uint32_t arithmetic.
NextIndex(i) == (i + 1) % IDX

RF_QueuePush(e) ==
  /\ IF Full
       THEN /\ rf_evt_dropped' = rf_evt_dropped + 1
            /\ UNCHANGED <<rf_evt_queue, rf_evt_head, accepted>>
       ELSE /\ rf_evt_queue' = [rf_evt_queue EXCEPT ![rf_evt_head % QLEN] = e]
            /\ rf_evt_head' = NextIndex(rf_evt_head)
            /\ accepted' = Append(accepted, e)
            /\ UNCHANGED rf_evt_dropped
  /\ UNCHANGED loopVars

-----------------------------------------------------------------------------
(* The consumer: PuffLogService.                                           *)

\* Mutant: an order test, which fails once head has wrapped and tail has not.
NotEmpty_Ordered == rf_evt_tail < rf_evt_head
NotEmpty == rf_evt_tail # rf_evt_head

\* while (rf_evt_tail != rf_evt_head)
TestHead ==
  /\ at = "test"
  /\ NotEmpty
  /\ at' = "copy"
  /\ UNCHANGED <<ringVars, rf_evt_tail, ev, logged, dropped_reported>>

\* ev = rf_evt_queue[rf_evt_tail % RF_EVT_QUEUE_LEN]
CopySlot ==
  /\ at = "copy"
  /\ ev' = rf_evt_queue[rf_evt_tail % QLEN]
  /\ at' = "release"
  /\ UNCHANGED <<ringVars, rf_evt_tail, logged, dropped_reported>>

\* rf_evt_tail = rf_evt_tail + 1, then Puff_LogStart or Puff_LogEnd on the copy
ReleaseSlot ==
  /\ at = "release"
  /\ rf_evt_tail' = NextIndex(rf_evt_tail)
  /\ logged' = Append(logged, ev)
  /\ at' = "test"
  /\ UNCHANGED <<ringVars, ev, dropped_reported>>

\* A queue drained to the end: report the losses since the last report.
ReportDropped ==
  /\ at = "test"
  /\ ~ NotEmpty
  /\ dropped_reported # rf_evt_dropped
  /\ dropped_reported' = rf_evt_dropped
  /\ UNCHANGED <<ringVars, rf_evt_tail, at, ev, logged>>

PuffLogService == TestHead \/ CopySlot \/ ReleaseSlot \/ ReportDropped

QueueNext == (\E e \in Event : RF_QueuePush(e)) \/ PuffLogService

QueueSpec == QueueInit /\ [][QueueNext]_queueVars

-----------------------------------------------------------------------------
(* Properties.                                                             *)

QueueTypeOK ==
  /\ rf_evt_queue \in [Slot -> Event \cup {NoEvent}]
  /\ rf_evt_head \in 0 .. IDX - 1
  /\ rf_evt_tail \in 0 .. IDX - 1
  /\ rf_evt_dropped \in Nat
  /\ dropped_reported \in Nat
  /\ at \in {"test", "copy", "release"}
  /\ ev \in Event \cup {NoEvent}
  /\ accepted \in Seq(Event)
  /\ logged \in Seq(Event)

\* The wrapped indices stand for the number of events stored and drained, and
\* at most QLEN events are in the ring.
IndicesCount ==
  /\ Len(logged) <= Len(accepted)
  /\ Len(accepted) <= Len(logged) + QLEN
  /\ rf_evt_head = Len(accepted) % IDX
  /\ rf_evt_tail = Len(logged) % IDX

\* Every event not yet drained is still in its slot: the interrupt never
\* overwrites a slot the main loop has not released.
SlotsIntact ==
  \A i \in Len(logged) + 1 .. Len(accepted) :
    rf_evt_queue[(i - 1) % QLEN] = accepted[i]

\* Past its test the loop has an event to drain, and the copy it holds before
\* it releases the slot is the oldest event, untorn by any later push.
CopyIntact ==
  /\ at # "test" => Len(logged) < Len(accepted)
  /\ at = "release" => ev = accepted[Len(logged) + 1]

QueueInv == IndicesCount /\ SlotsIntact /\ CopyIntact

\* The ring is the channel: its capacity is QLEN, an event is accepted when it
\* is stored and delivered when its slot is released.
Channel == INSTANCE PuffChannel WITH
  Capacity <- QLEN, dropped <- rf_evt_dropped

\* RF_QueuePush and PuffLogService implement the lossy FIFO: accepted events
\* are logged in order, once each, and one is lost only when QLEN are waiting.
ImplementsChannel == Channel!ChannelSpec

=============================================================================

------------------------------- MODULE RFPuff -------------------------------
(***************************************************************************)
(* Puff detection of Core/Src/main.c: the TIM2 input-capture hardware, the *)
(* two callbacks of its interrupt, the event queue to the main loop, and   *)
(* the main-loop code that shares puff state with the interrupt.           *)
(*                                                                         *)
(* Time is counted in ticks of which TIMEOUT make RF_END_TIMEOUT_US.  The  *)
(* counter restarts at each rising edge of the RF signal, so cnt is the    *)
(* time since the last edge; it is saturated at TIMEOUT, past which every  *)
(* comparison of the code has the same outcome.  Edges and ticks may fall  *)
(* between any two steps of the interrupt handler.  Main-loop steps need   *)
(* the handler to be idle, because it preempts the main loop.              *)
(*                                                                         *)
(* Left out: CCR2 and the duty-cycle statistics, start_ms, the LED (it is  *)
(* switched with puff_active), rf_rising_count (never incremented).        *)
(***************************************************************************)
EXTENDS Integers, Sequences

CONSTANTS
  NoEvent, QLEN, IDX,  \* the event queue, see RfEvtQueue
  TIMEOUT,             \* rf_end_timeout_ticks = CCR3
  LATENCY,             \* bound: ticks an interrupt waits, and ticks it runs
  MaxEdges,            \* bound: rising edges of the RF signal
  MaxRestarts,         \* bound: calls of SDLog_Start that open a run
  MaxRows              \* bound: MAG rows sampled

VARIABLES
  \* TIM2 registers
  cnt, ccr1, cc1if, cc1of, cc3if, cc3ie,
  \* the interrupt handler: where it stands, HAL's sample of CC3, its locals
  isr, cc3_sampled, period, first_edge,
  \* puff state written by the handler
  puff_active, current_puff_id, rf_puff_id, rf_dur_ticks, rf_overcapture,
  rf_edge_count, rf_puff_start_edges,
  \* the event queue
  rf_evt_queue, rf_evt_head, rf_evt_tail, rf_evt_dropped, dropped_reported,
  at, ev, accepted, logged,
  \* SDLog_WriteSample: the row it is filling, and the rows it filled
  row_id, rows,
  \* history: the rising edges and the RF bursts they form, the puffs started,
  \* the runs started, the ticks the pending or running interrupt has taken
  edges, bursts, started, restarts, wait

tim2 == <<cnt, ccr1, cc1if, cc1of, cc3if, cc3ie>>
handler == <<isr, cc3_sampled, period, first_edge>>
puff == <<puff_active, current_puff_id, rf_puff_id, rf_dur_ticks,
          rf_overcapture, rf_edge_count, rf_puff_start_edges>>
queue == <<rf_evt_queue, rf_evt_head, rf_evt_tail, rf_evt_dropped,
           dropped_reported, at, ev, accepted, logged>>
mag == <<row_id, rows>>
world == <<edges, bursts, restarts>>
vars == <<tim2, handler, puff, queue, mag, world, started, wait>>

\* RfPuffEvent.  nth is history: the number of the puff since power-up.
PuffEvent ==
  [type : {"START", "END"}, puff_id : Nat, duration_ticks : Nat,
   edges : Nat, overcapture : Nat, nth : Nat]

INSTANCE RfEvtQueue WITH Event <- PuffEvent

\* An edge waits at most for the handler that runs, for its own entry, and for
\* the handler to reach it: the code relies on that being below the timeout.
ASSUME PuffConstants ==
  /\ QueueSizes
  /\ TIMEOUT \in Nat /\ LATENCY \in Nat /\ 3 * LATENCY < TIMEOUT
  /\ MaxEdges \in Nat /\ MaxRestarts \in Nat /\ MaxRows \in Nat

NoRow == -1

Init ==
  /\ cnt = TIMEOUT /\ ccr1 = 0
  /\ cc1if = FALSE /\ cc1of = FALSE /\ cc3if \in BOOLEAN /\ cc3ie = FALSE
  /\ isr = "idle" /\ cc3_sampled = FALSE /\ period = 0 /\ first_edge = FALSE
  /\ puff_active = FALSE /\ current_puff_id = 0 /\ rf_puff_id = 0
  /\ rf_dur_ticks = 0 /\ rf_overcapture = 0
  /\ rf_edge_count = 0 /\ rf_puff_start_edges = 0
  /\ QueueInit
  /\ row_id = NoRow /\ rows = << >>
  /\ edges = 0 /\ bursts = << >> /\ started = 0 /\ restarts = 0 /\ wait = 0

-----------------------------------------------------------------------------
(* The hardware.                                                           *)

\* The interrupt line of TIM2: CC1IE is always set, CC3IE only during a puff.
Pending == cc1if \/ (cc3if /\ cc3ie)

\* The capture of the previous edge is lost when this edge overwrites CCR1
\* before the callback read it: while CC1IF is still set, which sets CC1OF, or
\* between HAL's clearing of CC1IF and the read, which leaves no trace.
CaptureLost == cc1if \/ isr = "read"

\* A rising edge: CCR1 captures the counter, slave reset mode restarts it.
Edge ==
  /\ edges < MaxEdges
  /\ edges' = edges + 1
  /\ cnt > 0
  /\ ccr1' = cnt
  /\ cnt' = 0
  /\ cc1if' = TRUE
  /\ cc1of' = (cc1of \/ cc1if)
  /\ LET lost == IF CaptureLost THEN 1 ELSE 0
     IN bursts' =
          IF cnt >= TIMEOUT
            THEN Append(bursts, [span |-> 0, edges |-> 1, lost |-> lost])
            ELSE [bursts EXCEPT ![Len(bursts)] =
                   [span |-> @.span + cnt, edges |-> @.edges + 1,
                    lost |-> @.lost + lost]]
  /\ UNCHANGED <<cc3if, cc3ie, handler, puff, queue, mag, started, restarts, wait>>

\* Time passes, within the latency the interrupt is granted.
Tick ==
  /\ cnt < TIMEOUT
  /\ IF Pending \/ isr # "idle"
       THEN wait < LATENCY /\ wait' = wait + 1
       ELSE wait' = 0
  /\ cnt' = cnt + 1
  /\ cc3if' = (cc3if \/ cnt + 1 = TIMEOUT)
  /\ UNCHANGED <<ccr1, cc1if, cc1of, cc3ie, handler, puff, queue, mag, world, started>>

-----------------------------------------------------------------------------
(* RF_PuffStart, RF_PuffEnd, RF_QueuePush.                                 *)

\* The event RF_QueuePush builds from the current puff.
Snapshot(type) ==
  [type |-> type, puff_id |-> rf_puff_id, duration_ticks |-> rf_dur_ticks,
   edges |-> rf_edge_count - rf_puff_start_edges,
   overcapture |-> rf_overcapture, nth |-> started]

\* Clear CC3IF and enable CC3IE: the edge has just restarted the counter.
\* Mutant: the interrupt is left off.
ArmCompare_Off == cc3if' = FALSE /\ UNCHANGED cc3ie
ArmCompare == cc3if' = FALSE /\ cc3ie' = TRUE

\* Mutant: a statistic of the previous puff is carried over.
ResetStats_KeepsEdges ==
  rf_overcapture' = 0 /\ rf_dur_ticks' = 0 /\ UNCHANGED rf_puff_start_edges
ResetStats ==
  /\ rf_dur_ticks' = 0
  /\ rf_overcapture' = 0
  /\ rf_puff_start_edges' = rf_edge_count

RF_PuffStart ==
  /\ current_puff_id' = current_puff_id + 1
  /\ rf_puff_id' = current_puff_id + 1
  /\ ResetStats
  /\ puff_active' = TRUE
  /\ ArmCompare
  /\ started' = started + 1
  /\ UNCHANGED <<cnt, ccr1, cc1if, cc1of, rf_edge_count>>
  /\ RF_QueuePush(Snapshot("START")')

RF_PuffEnd ==
  /\ cc3ie' = FALSE
  /\ cc3if' = FALSE
  /\ RF_QueuePush(Snapshot("END"))
  /\ puff_active' = FALSE
  /\ UNCHANGED <<cnt, ccr1, cc1if, cc1of, current_puff_id, rf_puff_id, rf_dur_ticks,
                 rf_overcapture, rf_edge_count, rf_puff_start_edges, started>>

-----------------------------------------------------------------------------
(* The TIM2 interrupt.  HAL samples SR and DIER once, then serves CC1 and  *)
(* CC3 from that sample, clearing each flag before its callback.           *)

EnterHandler ==
  /\ isr = "idle" /\ Pending
  /\ cc3_sampled' = (cc3if /\ cc3ie)
  /\ isr' = IF cc1if THEN "clear1" ELSE "clear3"
  /\ wait' = 0
  /\ UNCHANGED <<tim2, period, first_edge, puff, queue, mag, world, started>>

ClearCC1 ==
  /\ isr = "clear1"
  /\ cc1if' = FALSE
  /\ isr' = "read"
  /\ UNCHANGED <<cnt, ccr1, cc1of, cc3if, cc3ie, cc3_sampled, period, first_edge,
                 puff, queue, mag, world, started, wait>>

\* period = TIM2->CCR1; reading the capture register clears CC1IF.
ReadCapture ==
  /\ isr = "read"
  /\ period' = ccr1
  /\ cc1if' = FALSE
  /\ isr' = "check"
  /\ UNCHANGED <<cnt, ccr1, cc1of, cc3if, cc3ie, cc3_sampled, first_edge,
                 puff, queue, mag, world, started, wait>>

\* The previous puff timed out before this edge: CC3 matched and was not yet
\* dispatched, or the gap itself was long enough.
TimedOutBefore == cc3if \/ period >= TIMEOUT

CaptureEndsPuff ==
  /\ isr = "check"
  /\ puff_active /\ TimedOutBefore
  /\ RF_PuffEnd
  /\ isr' = "start"
  /\ UNCHANGED <<cc3_sampled, period, first_edge, mag, world, wait>>

CaptureStartsPuff ==
  /\ isr \in {"check", "start"}
  /\ ~ puff_active
  /\ RF_PuffStart
  /\ first_edge' = TRUE
  /\ isr' = "flag"
  /\ UNCHANGED <<cc3_sampled, period, mag, world, wait>>

CaptureAddsPeriod ==
  /\ isr = "check"
  /\ puff_active /\ ~ TimedOutBefore
  /\ rf_dur_ticks' = rf_dur_ticks + period
  /\ first_edge' = FALSE
  /\ isr' = "flag"
  /\ UNCHANGED <<tim2, cc3_sampled, period, puff_active, current_puff_id, rf_puff_id,
                 rf_overcapture, rf_edge_count, rf_puff_start_edges,
                 queue, mag, world, started, wait>>

\* Test and clear CC1OF, count the edge, return to HAL, which goes on to CC3
\* if its sample had it set.
CountEdge ==
  /\ isr = "flag"
  /\ rf_overcapture' = rf_overcapture + (IF cc1of /\ ~ first_edge THEN 1 ELSE 0)
  /\ cc1of' = FALSE
  /\ rf_edge_count' = rf_edge_count + 1
  /\ isr' = IF cc3_sampled THEN "clear3" ELSE "idle"
  /\ wait' = IF cc3_sampled THEN wait ELSE 0
  /\ UNCHANGED <<cnt, ccr1, cc1if, cc3if, cc3ie, cc3_sampled, period, first_edge,
                 puff_active, current_puff_id, rf_puff_id, rf_dur_ticks,
                 rf_puff_start_edges, queue, mag, world, started>>

ClearCC3 ==
  /\ isr = "clear3"
  /\ cc3if' = FALSE
  /\ isr' = "compare"
  /\ UNCHANGED <<cnt, ccr1, cc1if, cc1of, cc3ie, cc3_sampled, period, first_edge,
                 puff, queue, mag, world, started, wait>>

\* HAL_TIM_OC_DelayElapsedCallback runs on a genuine timeout, and on a match
\* whose puff is over or whose counter an edge has restarted since.
\* Mutant: the callback trusts HAL's sample and does not look at CNT.
GenuineTimeout_NoCount == puff_active
GenuineTimeout == puff_active /\ cnt >= TIMEOUT

CompareEndsPuff ==
  /\ isr = "compare"
  /\ GenuineTimeout
  /\ RF_PuffEnd
  /\ isr' = "idle"
  /\ wait' = 0
  /\ UNCHANGED <<cc3_sampled, period, first_edge, mag, world>>

CompareSkips ==
  /\ isr = "compare"
  /\ ~ GenuineTimeout
  /\ isr' = "idle"
  /\ wait' = 0
  /\ UNCHANGED <<tim2, cc3_sampled, period, first_edge, puff, queue, mag, world, started>>

HandlerStep ==
  \/ EnterHandler \/ ClearCC1 \/ ReadCapture
  \/ CaptureEndsPuff \/ CaptureStartsPuff \/ CaptureAddsPeriod \/ CountEdge
  \/ ClearCC3 \/ CompareEndsPuff \/ CompareSkips

-----------------------------------------------------------------------------
(* The main loop, while the handler is idle.                               *)

\* PuffLogService drains the queue.
LogPuffs ==
  /\ isr = "idle"
  /\ PuffLogService
  /\ UNCHANGED <<tim2, handler, puff, mag, world, started, wait>>

\* SDLog_Start opens a run and restarts the numbering with interrupts masked.
\* A puff in progress keeps its number.
\* Mutant: the number of the puff in progress is reset as well.
RestartNumbers_Always == current_puff_id' = 0 /\ rf_puff_id' = 0
RestartNumbers ==
  /\ current_puff_id' = 0
  /\ rf_puff_id' = IF puff_active THEN rf_puff_id ELSE 0

StartRun ==
  /\ isr = "idle" /\ at = "test" /\ row_id = NoRow
  /\ restarts < MaxRestarts
  /\ restarts' = restarts + 1
  /\ RestartNumbers
  /\ UNCHANGED <<tim2, handler, puff_active, rf_dur_ticks, rf_overcapture, rf_edge_count,
                 rf_puff_start_edges, queue, mag, edges, bursts, started, wait>>

\* SDLog_WriteSample reads rf_puff_id, then puff_active.
ReadRowId ==
  /\ isr = "idle" /\ at = "test" /\ row_id = NoRow
  /\ Len(rows) < MaxRows
  /\ row_id' = rf_puff_id
  /\ UNCHANGED <<tim2, handler, puff, queue, rows, world, started, wait>>

\* current is history: the number the puff state carries at the second read.
ReadRowActive ==
  /\ isr = "idle" /\ row_id # NoRow
  /\ rows' = Append(rows, [puff_id |-> row_id, puff_active |-> puff_active,
                           current |-> rf_puff_id])
  /\ row_id' = NoRow
  /\ UNCHANGED <<tim2, handler, puff, queue, world, started, wait>>

LoopStep == (row_id = NoRow /\ LogPuffs) \/ StartRun \/ ReadRowId \/ ReadRowActive

Next == Edge \/ Tick \/ HandlerStep \/ LoopStep

Spec == Init /\ [][Next]_vars

\* Time passes, an interrupt is served, and the main loop never stops: every
\* pass of it calls PuffLogService.
Fairness ==
  /\ WF_vars(Tick)
  /\ WF_vars(HandlerStep)
  /\ WF_vars(row_id = NoRow /\ LogPuffs)
  /\ WF_vars(ReadRowActive)

FairSpec == Spec /\ Fairness

-----------------------------------------------------------------------------
(* Properties.                                                             *)

Burst == [span : Nat, edges : Nat, lost : Nat]

TypeOK ==
  /\ cnt \in 0 .. TIMEOUT /\ ccr1 \in 0 .. TIMEOUT /\ period \in 0 .. TIMEOUT
  /\ cc1if \in BOOLEAN /\ cc1of \in BOOLEAN /\ cc3if \in BOOLEAN /\ cc3ie \in BOOLEAN
  /\ isr \in {"idle", "clear1", "read", "check", "start", "flag", "clear3", "compare"}
  /\ cc3_sampled \in BOOLEAN /\ first_edge \in BOOLEAN /\ puff_active \in BOOLEAN
  /\ current_puff_id \in Nat /\ rf_puff_id \in Nat /\ rf_dur_ticks \in Nat
  /\ rf_overcapture \in Nat /\ rf_edge_count \in Nat
  /\ rf_puff_start_edges \in 0 .. rf_edge_count
  /\ row_id \in Nat \cup {NoRow}
  /\ rows \in Seq([puff_id : Nat, puff_active : BOOLEAN, current : Nat])
  /\ edges \in Nat /\ bursts \in Seq(Burst)
  /\ started \in Nat /\ restarts \in Nat /\ wait \in 0 .. LATENCY
  /\ QueueTypeOK

\* Every edge that happened has been served.
Quiet == isr = "idle" /\ ~ cc1if

\* No capture of the first n bursts was lost.
AllCaptured(n) == \A i \in 1 .. Len(bursts) : i <= n => bursts[i].lost = 0

\* One puff per burst of the signal (a burst: edges less than the timeout
\* apart).  A burst is never split, not even by a compare flag left from an
\* idle period or a compare dispatched for a match that is over; and while no
\* capture is lost two bursts are never merged.
OnePuffPerBurst ==
  /\ started <= Len(bursts)
  /\ Quiet /\ AllCaptured(Len(bursts)) => started = Len(bursts)

\* "Sum of periods = time from the first rising edge to this one" (main.c, in
\* the capture callback), and the edges of the puff are all counted.
RunningMeasureExact ==
  Quiet /\ puff_active /\ AllCaptured(Len(bursts)) =>
    /\ rf_dur_ticks = bursts[Len(bursts)].span
    /\ rf_edge_count - rf_puff_start_edges = bursts[Len(bursts)].edges

\* What an END event carries is the measure of its own burst, whichever of the
\* two callbacks ended the puff, and never includes the timeout.
LoggedMeasureExact ==
  \A i \in 1 .. Len(accepted) :
    LET e == accepted[i]
    IN e.type = "END" /\ AllCaptured(e.nth + 1) =>
         /\ e.duration_ticks = bursts[e.nth].span
         /\ e.edges = bursts[e.nth].edges
         /\ e.overcapture = 0

\* The measures are exact while the puff runs and once it is logged.
MeasureExact == RunningMeasureExact /\ LoggedMeasureExact

\* A puff in progress always has its end coming: once the handler is idle with
\* no edge waiting, the compare interrupt is enabled and the match is still
\* ahead or already flagged.  Without a puff the compare interrupt is off.
EndIsArmed ==
  /\ Quiet /\ puff_active => cc3ie /\ (cnt < TIMEOUT \/ cc3if)
  /\ isr = "idle" /\ ~ puff_active => ~ cc3ie
PuffInv == TypeOK /\ EndIsArmed

\* While no event is lost, the queue carries START and END of the same puff in
\* turn, under one number, also when a run starts and numbering restarts
\* between the two; the last START is still open exactly while a puff is.
EventsPaired ==
  rf_evt_dropped = 0 =>
    /\ \A i \in 1 .. Len(accepted) :
         accepted[i].type = IF i % 2 = 1 THEN "START" ELSE "END"
    /\ \A i \in 1 .. Len(accepted) :
         i % 2 = 0 => /\ accepted[i].puff_id = accepted[i - 1].puff_id
                      /\ accepted[i].nth = accepted[i - 1].nth
    /\ puff_active <=> Len(accepted) % 2 = 1

\* A puff ends once the signal stops, and everything about it is logged: no
\* order of edges, matches and dispatches leaves it (and the LED) on forever.
PuffGetsLogged == puff_active ~> (~ puff_active /\ Len(logged) = Len(accepted))

\* However many events the interrupt has pushed, as many are handed to
\* Puff_LogStart or Puff_LogEnd or reported as lost on the console, while the
\* indices wrap and wherever the interrupt falls.  An edge brings two at most.
EverythingReported ==
  \A n \in 1 .. 2 * MaxEdges :
    Len(accepted) + rf_evt_dropped >= n ~> Len(logged) + dropped_reported >= n

-----------------------------------------------------------------------------
(* What comments of main.c say and the code does not keep.                 *)

\* The compare callback that skips because an edge has just reset CNT leaves
\* it to the capture callback to end the puff on that edge ("the capture
\* callback ends the puff on that edge instead (period >= CCR3)").
SkippedTimeoutEndsPuff == Quiet => started = Len(bursts)

\* The duration is the sum of periods from the first edge, and a period that
\* was missed is counted in rf_overcapture.
LostPeriodIsFlagged ==
  Quiet /\ puff_active /\ started = Len(bursts) /\ rf_overcapture = 0 =>
    rf_dur_ticks = bursts[Len(bursts)].span

\* "START, END and MAG rows all use this": a row sampled during a puff names it.
RowNamesItsPuff ==
  \A i \in 1 .. Len(rows) : rows[i].puff_active => rows[i].puff_id = rows[i].current

=============================================================================

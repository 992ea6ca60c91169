---------------------------- MODULE TimerServer ----------------------------
(***************************************************************************)
(* hw_timerserver.c: software timers shared on the one RTC wakeup timer.   *)
(* Running timers are a doubly linked list, the earliest first, with their *)
(* counts left since the RTC was last read; the wakeup timer counts for    *)
(* the head.                                                               *)
(*                                                                         *)
(* Time is the sub-second register, one tick of it per tick of the wakeup  *)
(* timer as app_conf.h sets the dividers (16 and 16 >> 4).  The wakeup     *)
(* timer is not in phase with it, so it may expire before the last tick.   *)
(* A critical section takes less than a tick.                              *)
(*                                                                         *)
(* Clients call from the main loop; the handler runs between their         *)
(* critical sections, as hw_if.h asks of the application.  The callbacks   *)
(* of this program start no timer, so they are only recorded.              *)
(*                                                                         *)
(* Left out: hw_ts_InitMode_Limited and HW_TS_RTC_ReadLeftTicksToCount,    *)
(* which nothing calls.                                                    *)
(***************************************************************************)
EXTENDS Integers, FiniteSets

CONSTANTS
  MaxTimers,  \* CFG_HW_TS_MAX_NBR_CONCURRENT_TIMER
  WRAP,       \* ticks after which the sub-second register wraps
  MARGIN,     \* CFG_HW_TS_RTC_HANDLER_MAX_DELAY, in ticks
  DELAY,      \* ticks for which other interrupts may hold the handler off
  Timeouts,   \* timeouts a client asks for
  MaxCalls    \* bound: calls of HW_TS_Start, HW_TS_Stop and HW_TS_Delete

ASSUME TimerConstants ==
  /\ MaxTimers \in Nat \ {0} /\ WRAP \in Nat /\ MARGIN \in Nat /\ DELAY \in Nat
  /\ DELAY <= MARGIN /\ MARGIN < WRAP - 1
  /\ Timeouts \subseteq Nat /\ MaxCalls \in Nat

Ids == 0 .. MaxTimers - 1
None == MaxTimers
MaxWakeupTimerSetup == WRAP - 1 - MARGIN
FORBIDDEN == -1   \* SSR_FORBIDDEN_VALUE
NotPending == -1

VARIABLES
  \* ctx, current and previous are aTimerContext, CurrentRunningTimerID and
  \* PreviousRunningTimerID; since is the ticks since SSRValueOnLastSetup, or
  \* FORBIDDEN; overpassed is WakeupTimerLimitation.  wut is the wakeup timer,
  \* 0 when it does not count, and pending for how many ticks its interrupt
  \* has been pending, or NotPending.
  ts,
  \* the call a client is in: its next critical section, timer and timeout
  call,
  \* history: the ticks left until each running timer is due, and the calls
  due, calls

timerVars == <<ts, call, due, calls>>

Idle == <<"idle", None, 0>>

FreeContext ==
  [status |-> "Free", mode |-> "SingleShot", CountLeft |-> 0, CounterInit |-> 0,
   NextID |-> 0, PreviousID |-> 0]

\* HW_TS_Init(hw_ts_InitMode_Full); static variables start as 0.
TimerInit ==
  /\ ts = [ctx |-> [t \in Ids |-> FreeContext], current |-> None, previous |-> 0,
           since |-> FORBIDDEN, overpassed |-> FALSE, wut |-> 0, pending |-> NotPending]
  /\ call = Idle
  /\ due = [t \in Ids |-> 0] /\ calls = 0

-----------------------------------------------------------------------------
(* The list.  The operators take a value of ts and return the next one.    *)

Running(s, t) == t # None /\ s.ctx[t].status = "Running"

\* The timers reached from the current one.
Listed(s) ==
  LET from[id \in Ids \cup {None}] ==
        IF id = None THEN {} ELSE {id} \cup from[s.ctx[id].NextID]
  IN  from[s.current]

ReturnTimeElapsed(s) == IF s.since = FORBIDDEN THEN 0 ELSE s.since

BecomesCurrent(s, t) == [s EXCEPT !.previous = s.current, !.current = t]

LinkTimerAfter(s, t, ref) ==
  LET next == s.ctx[ref].NextID IN
  [s EXCEPT !.ctx = [i \in Ids |->
     CASE i = t -> [s.ctx[t] EXCEPT !.NextID = next, !.PreviousID = ref]
       [] i = ref -> [s.ctx[ref] EXCEPT !.NextID = t]
       [] i = next -> [s.ctx[next] EXCEPT !.PreviousID = t]
       [] OTHER -> s.ctx[i]]]

\* LinkTimerBefore is only called with the current timer.
LinkTimerBefore(s, t, ref) ==
  [s EXCEPT !.ctx[t].NextID = ref, !.ctx[ref].PreviousID = t]

\* The last listed timer that is due no later than left.
LinkedAfter(s, left) ==
  LET walk[id \in Ids] ==
        LET next == s.ctx[id].NextID IN
        IF next # None /\ s.ctx[next].CountLeft <= left THEN walk[next] ELSE id
  IN  walk[s.current]

InsertTimer(s, t) ==
  LET left == s.ctx[t].CountLeft IN
  IF s.ctx[s.current].CountLeft <= left
  THEN LinkTimerAfter(s, t, LinkedAfter(s, left))
  ELSE BecomesCurrent(LinkTimerBefore(s, t, s.current), t)

linkTimer_FromSetup(s, t) ==
  IF s.current = None
  THEN [BecomesCurrent(s, t) EXCEPT !.ctx[t].NextID = None, !.since = FORBIDDEN]
  ELSE InsertTimer(s, t)

linkTimer(s, t) ==
  IF s.current = None
  THEN [BecomesCurrent(s, t) EXCEPT !.ctx[t].NextID = None, !.since = FORBIDDEN]
  ELSE InsertTimer([s EXCEPT !.ctx[t].CountLeft = @ + ReturnTimeElapsed(s)], t)

\* The list without t.
RemoveTimer(s, t) ==
  LET next == s.ctx[t].NextID
      before == s.ctx[t].PreviousID
  IN  IF t = s.current THEN BecomesCurrent(s, next)
      ELSE [s EXCEPT !.ctx = [i \in Ids |->
              CASE i = before -> [s.ctx[before] EXCEPT !.NextID = next]
                [] i = next -> [s.ctx[next] EXCEPT !.PreviousID = before]
                [] OTHER -> s.ctx[i]]]

\* readSSR is SSR_Read_Requested.
UnlinkTimer(s, t, readSSR) ==
  LET out == RemoveTimer(s, t) IN
  [out EXCEPT !.ctx[t].status = "Created",
              !.since = IF out.current = None /\ readSSR THEN FORBIDDEN ELSE s.since]

-----------------------------------------------------------------------------
(* The wakeup timer.                                                       *)

RestartWakeupCounter_NoSimulation(s, value) ==
  [s EXCEPT !.since = 0, !.wut = value, !.pending = NotPending]

\* RestartWakeupCounter: a pending interrupt simulates a count of 0.
RestartWakeupCounter(s, value) ==
  IF value = 0
  THEN [s EXCEPT !.since = 0, !.wut = 0,
                 !.pending = IF @ = NotPending THEN 0 ELSE @]
  ELSE [s EXCEPT !.since = 0, !.wut = value, !.pending = NotPending]

WakeupTimerLimitation(s) ==
  s.ctx[s.current].CountLeft > ReturnTimeElapsed(s) + MaxWakeupTimerSetup

CountDown(left, elapsed) == IF left < elapsed THEN 0 ELSE left - elapsed

RescheduleTimerList(s) ==
  LET elapsed == ReturnTimeElapsed(s)
      listed == Listed(s)
      overpassed == WakeupTimerLimitation(s)
      value == IF overpassed THEN MaxWakeupTimerSetup
               ELSE CountDown(s.ctx[s.current].CountLeft, elapsed)
  IN  RestartWakeupCounter(
        [s EXCEPT !.overpassed = overpassed,
                  !.ctx = [i \in Ids |->
                     IF i \in listed
                     THEN [s.ctx[i] EXCEPT !.CountLeft = CountDown(@, elapsed)]
                     ELSE s.ctx[i]]],
        value)

NothingToCount_KeepsPending(s) == [s EXCEPT !.wut = 0]

\* The list is empty: HW_TS_Stop stops the timer and clears its interrupt.
NothingToCount(s) == [s EXCEPT !.wut = 0, !.pending = NotPending]

\* The critical section of HW_TS_Stop.
Stopped(s, t) ==
  LET out == UnlinkTimer(s, t, TRUE) IN
  IF ~Running(s, t) THEN s
  ELSE IF out.current = None THEN NothingToCount(out)
  ELSE IF out.previous # out.current THEN RescheduleTimerList(out)
  ELSE out

\* The critical section of HW_TS_Start.
Started(s, t, ticks) ==
  LET linked == linkTimer([s EXCEPT !.ctx[t].status = "Running",
                                    !.ctx[t].CountLeft = ticks,
                                    !.ctx[t].CounterInit = ticks], t)
  IN  IF linked.previous # linked.current
      THEN RescheduleTimerList(linked)
      ELSE [linked EXCEPT !.ctx[t].CountLeft = @ - ReturnTimeElapsed(s)]

-----------------------------------------------------------------------------
(* The calls of a client, up to their first critical section.              *)

Created(t) == ts.ctx[t].status # "Free"

Calls(section, t, ticks) ==
  /\ call = Idle /\ Created(t) /\ calls < MaxCalls
  /\ call' = <<section, t, ticks>>
  /\ calls' = calls + 1
  /\ UNCHANGED <<ts, due>>

\* HW_TS_Create takes the first free context.
HW_TS_Create(mode) ==
  /\ call = Idle
  /\ \E t \in Ids :
       /\ ~Created(t) /\ \A i \in 0 .. t - 1 : Created(i)
       /\ ts' = [ts EXCEPT !.ctx[t].status = "Created", !.ctx[t].mode = mode]
  /\ UNCHANGED <<call, due, calls>>

\* HW_TS_Start reads the status before its critical section.
HW_TS_Start(t, ticks) == Calls(IF Running(ts, t) THEN "restart" ELSE "link", t, ticks)

HW_TS_Stop(t) == Calls("stop", t, 0)

HW_TS_Delete(t) == Calls("delete", t, 0)

(* Their critical sections.                                                *)

StopSection ==
  LET t == call[2] IN
  /\ call[1] \in {"stop", "restart", "delete"}
  /\ ts' = Stopped(ts, t)
  /\ due' = [due EXCEPT ![t] = 0]
  /\ call' = CASE call[1] = "stop" -> Idle
               [] call[1] = "restart" -> <<"link", t, call[3]>>
               [] call[1] = "delete" -> <<"free", t, 0>>
  /\ UNCHANGED calls

LinkSection ==
  /\ call[1] = "link"
  /\ ts' = Started(ts, call[2], call[3])
  /\ due' = [due EXCEPT ![call[2]] = call[3]]
  /\ call' = Idle
  /\ UNCHANGED calls

FreesTimer ==
  /\ call[1] = "free"
  /\ ts' = [ts EXCEPT !.ctx[call[2]].status = "Free"]
  /\ call' = Idle
  /\ UNCHANGED <<due, calls>>

-----------------------------------------------------------------------------
(* HW_TS_RTC_Wakeup_Handler.                                               *)

\* On entry: the pending bit is clear and the wakeup timer disabled.
Entered == [ts EXCEPT !.pending = NotPending, !.wut = 0]

WholeCountWritten_Always == TRUE

WholeCountWritten == ~ts.overpassed

Interrupted == ts.pending # NotPending /\ Running(ts, ts.current)

\* The whole count was written, so the current timer is due; it is taken off
\* the list, or started again, and its callback called.
Fires(t) ==
  LET again == ts.ctx[t].mode = "Repeated" IN
  /\ Interrupted /\ t = ts.current /\ WholeCountWritten
  /\ ts' = IF again
           THEN Started(UnlinkTimer(Entered, t, FALSE), t, ts.ctx[t].CounterInit)
           ELSE Stopped(Entered, t)
  /\ due' = [due EXCEPT ![t] = IF again THEN ts.ctx[t].CounterInit ELSE 0]
  /\ UNCHANGED <<call, calls>>

\* Only a part of the count was written.
CountsOn ==
  /\ Interrupted /\ ~WholeCountWritten
  /\ ts' = RescheduleTimerList(Entered)
  /\ UNCHANGED <<call, due, calls>>

-----------------------------------------------------------------------------
(* The RTC.                                                                *)

Expired(s) == [s EXCEPT !.wut = 0, !.pending = 0]

\* The wakeup timer may be ahead of the sub-second register.
ExpiresEarly ==
  /\ ts.wut = 1
  /\ ts' = Expired(ts)
  /\ UNCHANGED <<call, due, calls>>

Ticked(s) ==
  [s EXCEPT !.since = IF @ = FORBIDDEN THEN FORBIDDEN ELSE (@ + 1) % WRAP,
            !.wut = IF @ > 1 THEN @ - 1 ELSE @,
            !.pending = IF @ = NotPending THEN @ ELSE @ + 1]

Tick ==
  /\ ts.pending < DELAY
  /\ ts' = IF ts.wut = 1 THEN Expired(Ticked(ts)) ELSE Ticked(ts)
  /\ due' = [t \in Ids |-> IF Running(ts, t) THEN due[t] - 1 ELSE due[t]]
  /\ UNCHANGED <<call, calls>>

TimerNext ==
  \/ \E mode \in {"SingleShot", "Repeated"} : HW_TS_Create(mode)
  \/ \E t \in Ids, ticks \in Timeouts : HW_TS_Start(t, ticks)
  \/ \E t \in Ids : HW_TS_Stop(t)
  \/ \E t \in Ids : HW_TS_Delete(t)
  \/ StopSection
  \/ LinkSection
  \/ FreesTimer
  \/ \E t \in Ids : Fires(t)
  \/ CountsOn
  \/ ExpiresEarly
  \/ Tick

TimerSpec == TimerInit /\ [][TimerNext]_timerVars

-----------------------------------------------------------------------------
(* Properties.                                                             *)

Context ==
  [status : {"Free", "Created", "Running"}, mode : {"SingleShot", "Repeated"},
   CountLeft : Nat, CounterInit : Timeouts \cup {0},
   NextID : Ids \cup {None}, PreviousID : Ids \cup {None}]

\* The counts are unsigned: none goes below 0.
TimerTypeOK ==
  /\ ts.ctx \in [Ids -> Context]
  /\ ts.current \in Ids \cup {None} /\ ts.previous \in Ids \cup {None}
  /\ ts.since \in {FORBIDDEN} \cup 0 .. WRAP - 1
  /\ ts.overpassed \in BOOLEAN
  /\ ts.wut \in 0 .. MaxWakeupTimerSetup
  /\ ts.pending \in {NotPending} \cup 0 .. DELAY
  /\ call[1] \in {"idle", "restart", "link", "stop", "delete", "free"}
  /\ call[2] \in Ids \cup {None} /\ call[3] \in Timeouts \cup {0}
  /\ due \in [Ids -> Int]
  /\ calls \in 0 .. MaxCalls

\* The list holds the running timers and no other, linked both ways, the
\* earliest first, whatever starts, stops and interrupts have interleaved.
ListIsSorted ==
  LET listed == Listed(ts) IN
  /\ listed = {t \in Ids : Running(ts, t)}
  /\ \A t \in listed :
       LET next == ts.ctx[t].NextID IN
       next # None => /\ ts.ctx[next].PreviousID = t
                      /\ ts.ctx[t].CountLeft <= ts.ctx[next].CountLeft

\* The counts, taken from the last setup, say when each running timer is due:
\* the register has not wrapped unnoticed, and no restart has lost a tick.
LeftMatchesClock ==
  \A t \in Ids : Running(ts, t) =>
    LET left == ts.ctx[t].CountLeft - ReturnTimeElapsed(ts) IN
    IF due[t] > 0 THEN left = due[t] ELSE left <= 0
TimerInv == TimerTypeOK /\ ListIsSorted /\ LeftMatchesClock

\* No running timer is overdue by more than the handler's delay for each of
\* the timers that may be due with it, and once more, less a tick, when the
\* handler found a tick of the count still to be written: an interrupt is
\* never lost.
FiresInTime ==
  LET again == IF DELAY = 0 THEN 0 ELSE DELAY - 1 IN
  \A t \in Ids : Running(ts, t) => due[t] >= -(MaxTimers * DELAY + again)

\* A callback is called no sooner than the last tick of its timeout, however
\* many parts the wakeup timer counts it in.
FiresNotEarly == [][\A t \in Ids : Fires(t) => due[t] <= 1]_timerVars

\* An interrupt always finds the current timer running ("We should never end
\* up in this case", of the other branch of the handler).
WakeupExpected == ts.pending # NotPending => Running(ts, ts.current)
=============================================================================

------------------------------ MODULE MagZero ------------------------------
(***************************************************************************)
(* The two magnetometers: the sensor part of the main loop of              *)
(* Core/Src/main.c (reading, re-initialising and pairing the LIS2MDLs) and *)
(* Core/Src/mag_zero.c, which averages s1 - s2 into a baseline and         *)
(* subtracts it, restarted by the command 'z'.                             *)
(*                                                                         *)
(* The axes are treated alike, so one is modelled.  Nothing but the main   *)
(* loop touches these variables: a pass is three steps (the command, the   *)
(* reads with their busy timers, the pair), and the parts and HAL_GetTick  *)
(* move between them.  Left out: the magnitudes, the streams and the lines *)
(* printed about a silent part, none of which are read back.               *)
(***************************************************************************)
EXTENDS Integers

CONSTANTS
  SAMPLES,     \* MAG_ZERO_SAMPLES
  DISCARD,     \* MAG_ZERO_DISCARD
  INT_MIN, INT_MAX, \* the range of an int16_t
  Field(_),    \* the readings part p can give
  REINIT_MS,   \* a part busy for longer is initialised again (1000)
  TICKS,       \* HAL_GetTick counts modulo this (2^32)
  MaxFaults,   \* bound: SPI errors and parts falling out of continuous mode
  MaxZ         \* bound: commands 'z'

PARTS == {1, 2}
SHORTS == INT_MIN .. INT_MAX

ASSUME MagZeroConstants ==
  /\ SAMPLES \in Nat \ {0} /\ DISCARD \in Nat
  /\ INT_MIN \in Int /\ INT_MAX \in Int /\ INT_MIN < 0 /\ INT_MAX > 0
  /\ \A p \in PARTS : Field(p) \subseteq SHORTS
  /\ REINIT_MS \in Nat /\ TICKS \in Nat /\ TICKS > REINIT_MS + 1
  /\ MaxFaults \in Nat /\ MaxZ \in Nat

VARIABLES
  \* the parts: in continuous mode, a sample waiting (STATUS_REG Zyxda)
  continuous, zyxda,
  tick, ticked,  \* HAL_GetTick; whether it moved since the loop read it
  pc,            \* the step of the pass that comes next
  \* x1, x2; s1_new, s2_new; s1_busy_since, s2_busy_since
  x, new, busy_since,
  mz_acc, mz_count, mz_discard, mz_base, mz_ready, mz_init, mag_zero_announced,
  \* history: the pair handed on in this pass; how many pairs came since the
  \* capture was last asked for, and the sum of those to be averaged; the
  \* baseline announced for it; the faults and commands so far.  The pair and
  \* the announcement are sets, empty while there is none.
  out, seen, total, told, faults, zs

clock == <<tick, ticked>>
parts == <<continuous, zyxda>>
zeroing == <<mz_acc, mz_count, mz_discard, mz_base, mz_ready, mz_init>>
pairing == <<x, new, busy_since>>
history == <<out, seen, total, told>>
bounds == <<faults, zs>>
vars == <<parts, clock, pc, pairing, zeroing, mag_zero_announced, history, bounds>>

-----------------------------------------------------------------------------
(* mag_zero.c                                                              *)

MagZero_Sat16(v) == IF v > INT_MAX THEN INT_MAX ELSE IF v < INT_MIN THEN INT_MIN ELSE v

\* C's division truncates: halves are added away from zero.
MagZero_RoundDiv(sum, n) ==
  LET half == n \div 2
  IN MagZero_Sat16(IF sum >= 0 THEN (sum + half) \div n ELSE -((half - sum) \div n))

\* What the first sample finds: itself if armed before, else a fresh capture.
Acc == IF mz_init THEN mz_acc ELSE 0
Count == IF mz_init THEN mz_count ELSE 0
Discard == IF mz_init THEN mz_discard ELSE DISCARD
Ready == mz_init /\ mz_ready

\* Mutant: the sum and the count of an interrupted capture are kept.
MagZero_Arm_KeepsSum ==
  /\ UNCHANGED <<mz_acc, mz_base>> /\ mz_count' = 0 /\ mz_discard' = DISCARD
  /\ mz_ready' = FALSE /\ mz_init' = TRUE
MagZero_Arm ==
  /\ mz_acc' = 0 /\ mz_count' = 0 /\ mz_discard' = DISCARD
  /\ mz_ready' = FALSE /\ mz_init' = TRUE
  /\ UNCHANGED mz_base

MagZero_Feed(d) ==
  LET discards == ~Ready /\ Discard # 0
      adds == ~Ready /\ Discard = 0
  IN /\ mz_init' = TRUE
     /\ mz_discard' = IF discards THEN Discard - 1 ELSE Discard
     /\ mz_acc' = IF adds THEN Acc + d ELSE Acc
     /\ mz_count' = IF adds THEN Count + 1 ELSE Count
     /\ mz_ready' = (Ready \/ (adds /\ Count + 1 >= SAMPLES))
     /\ mz_base' = IF mz_ready' /\ ~Ready THEN MagZero_RoundDiv(mz_acc', mz_count')
                   ELSE mz_base

-----------------------------------------------------------------------------
(* LIS2MDL_Init writes CFG_REG_C, B, A and C, and stops at the first write *)
(* that fails; the part is continuous once A was written.  Its result is   *)
(* not looked at.  A part initialised stays as it was if A is not reached. *)

InitWorks(p, outcome) == outcome \in {"ok", "last write fails"}
InitFaults(outcome) == IF outcome = "ok" THEN 0 ELSE 1
INIT_OUTCOMES == {"ok", "last write fails", "earlier write fails"}

\* main() before its loop: both parts are initialised whatever WHO_AM_I said,
\* and the capture is armed.
Start ==
  /\ pc = "start"
  /\ \E o \in [PARTS -> INIT_OUTCOMES] :
       /\ continuous' = [p \in PARTS |-> InitWorks(p, o[p])]
       /\ faults' = faults + InitFaults(o[1]) + InitFaults(o[2])
       /\ faults' <= MaxFaults
  /\ MagZero_Arm
  /\ mag_zero_announced' = FALSE
  /\ pc' = "command"
  /\ UNCHANGED <<zyxda, clock, pairing, history, zs>>

\* SDLog_ProcessCommand at the head of the pass: no 'z', or a 'z'.
\* Mutant: the announcement of the new baseline is not asked for.
AskAnnouncement_Not == UNCHANGED mag_zero_announced
AskAnnouncement == mag_zero_announced' = FALSE
Command ==
  /\ pc = "command" /\ pc' = "read"
  /\ out' = {}
  /\ \/ UNCHANGED <<zeroing, mag_zero_announced, seen, total, told, zs>>
     \/ /\ zs < MaxZ /\ zs' = zs + 1
        /\ MagZero_Arm
        /\ AskAnnouncement
        /\ seen' = 0 /\ total' = 0 /\ told' = {}
  /\ UNCHANGED <<parts, clock, pairing, faults>>

-----------------------------------------------------------------------------
(* The reads.                                                              *)

\* LIS2MDL_ReadXYZ of part p: BUSY without a sample, else the sample, which
\* the read takes; either transaction may fail.
ReadXYZ(p) ==
  {[status |-> "error", value |-> x[p], zyxda |-> z] : z \in {FALSE, zyxda[p]}}
    \cup (IF zyxda[p]
          THEN {[status |-> "ok", value |-> v, zyxda |-> FALSE] : v \in Field(p)}
          ELSE {[status |-> "busy", value |-> x[p], zyxda |-> FALSE]})

Elapsed(p) == (tick - busy_since[p]) % TICKS
TooLong(p) == busy_since[p] # 0 /\ Elapsed(p) > REINIT_MS

\* The busy timer of part p after a read with this status.  Mutant: every busy
\* read starts it again.
BusySince_Restarts(p, status) == IF status = "busy" THEN tick ELSE 0
BusySince(p, status) ==
  IF status # "busy" \/ TooLong(p) THEN 0
  ELSE IF busy_since[p] = 0 THEN tick ELSE busy_since[p]

ReadSensors ==
  /\ pc = "read" /\ pc' = "pair"
  /\ \E r1 \in ReadXYZ(1), r2 \in ReadXYZ(2), o \in [PARTS -> INIT_OUTCOMES] :
       LET r == <<r1, r2>>
           reinit(p) == r[p].status = "busy" /\ TooLong(p)
           errors(p) == (IF r[p].status = "error" THEN 1 ELSE 0)
                          + (IF reinit(p) THEN InitFaults(o[p]) ELSE 0)
       IN /\ \A p \in PARTS : reinit(p) \/ o[p] = "ok"
          /\ faults' = faults + errors(1) + errors(2)
          /\ faults' <= MaxFaults
          /\ x' = [p \in PARTS |-> r[p].value]
          /\ zyxda' = [p \in PARTS |-> r[p].zyxda]
          /\ new' = [p \in PARTS |-> new[p] \/ r[p].status = "ok"]
          /\ busy_since' = [p \in PARTS |-> BusySince(p, r[p].status)]
          /\ continuous' =
               [p \in PARTS |-> continuous[p] \/ (reinit(p) /\ InitWorks(p, o[p]))]
  /\ ticked' = FALSE
  /\ UNCHANGED <<tick, zeroing, mag_zero_announced, history, zs>>

-----------------------------------------------------------------------------
(* The pair.                                                               *)

\* What MagZero_Apply returns after the feed.
Applied(d) == IF mz_ready' THEN MagZero_Sat16(d - mz_base') ELSE d

Announce ==
  /\ mag_zero_announced' = (mag_zero_announced \/ mz_ready')
  /\ told' = IF mz_ready' /\ ~mag_zero_announced THEN {mz_base'} ELSE told

CountPair(d) ==
  /\ seen' = IF seen < DISCARD + SAMPLES THEN seen + 1 ELSE seen
  /\ total' = IF seen \in DISCARD .. DISCARD + SAMPLES - 1 THEN total + d ELSE total

ServePair ==
  /\ pc = "pair" /\ pc' = "command"
  /\ \A p \in PARTS : new[p]
  /\ new' = [p \in PARTS |-> FALSE]
  /\ LET d == MagZero_Sat16(x[1] - x[2])
     IN /\ MagZero_Feed(d)
        /\ Announce
        /\ out' = {[d |-> d, z |-> Applied(d), zeroed |-> mz_ready']}
        /\ CountPair(d)
  /\ UNCHANGED <<parts, clock, x, busy_since, bounds>>

NoPair ==
  /\ pc = "pair" /\ pc' = "command"
  /\ \E p \in PARTS : ~new[p]
  /\ UNCHANGED <<parts, clock, pairing, zeroing, mag_zero_announced, history, bounds>>

-----------------------------------------------------------------------------
(* The parts and the clock.                                                *)

\* A part in continuous mode has a new sample.
Sample(p) ==
  /\ continuous[p] /\ ~zyxda[p]
  /\ zyxda' = [zyxda EXCEPT ![p] = TRUE]
  /\ UNCHANGED <<continuous, clock, pc, pairing, zeroing, mag_zero_announced, history, bounds>>

\* A part falls back to its power-on idle state.
FallsIdle(p) ==
  /\ continuous[p] /\ faults < MaxFaults
  /\ faults' = faults + 1
  /\ continuous' = [continuous EXCEPT ![p] = FALSE]
  /\ zyxda' = [zyxda EXCEPT ![p] = FALSE]
  /\ UNCHANGED <<clock, pc, pairing, zeroing, mag_zero_announced, history, zs>>

\* A pass takes less than a tick or one tick.
Tick ==
  /\ ~ticked /\ ticked' = TRUE
  /\ tick' = (tick + 1) % TICKS
  /\ UNCHANGED <<parts, pc, pairing, zeroing, mag_zero_announced, history, bounds>>

\* The static initial values; the parts are idle after power-up, or still in
\* continuous mode after a reset of the microcontroller alone.
Init ==
  /\ continuous \in [PARTS -> BOOLEAN] /\ zyxda = [p \in PARTS |-> FALSE]
  /\ tick = 0 /\ ticked = FALSE /\ pc = "start"
  /\ x = [p \in PARTS |-> 0] /\ new = [p \in PARTS |-> FALSE]
  /\ busy_since = [p \in PARTS |-> 0]
  /\ mz_acc = 0 /\ mz_count = 0 /\ mz_discard = 0 /\ mz_base = 0
  /\ mz_ready = FALSE /\ mz_init = FALSE /\ mag_zero_announced = FALSE
  /\ out = {} /\ seen = 0 /\ total = 0 /\ told = {}
  /\ faults = 0 /\ zs = 0

Loop == Start \/ Command \/ ReadSensors \/ ServePair \/ NoPair
Next == Loop \/ Tick \/ \E p \in PARTS : Sample(p) \/ FallsIdle(p)

\* The loop runs, time passes, and a continuous part samples at its rate.
Fairness == WF_vars(Loop) /\ WF_vars(Tick) /\ \A p \in PARTS : WF_vars(Sample(p))
Spec == Init /\ [][Next]_vars /\ Fairness

-----------------------------------------------------------------------------
(* Properties.                                                             *)

TypeOK ==
  /\ continuous \in [PARTS -> BOOLEAN] /\ zyxda \in [PARTS -> BOOLEAN]
  /\ tick \in 0 .. TICKS - 1 /\ ticked \in BOOLEAN
  /\ pc \in {"start", "command", "read", "pair"}
  /\ x \in [PARTS -> SHORTS] /\ new \in [PARTS -> BOOLEAN]
  /\ busy_since \in [PARTS -> 0 .. TICKS - 1]
  /\ mz_acc \in Int /\ mz_count \in 0 .. SAMPLES /\ mz_discard \in 0 .. DISCARD
  /\ mz_base \in SHORTS /\ mz_ready \in BOOLEAN /\ mz_init \in BOOLEAN
  /\ mag_zero_announced \in BOOLEAN
  /\ out \in SUBSET [d : SHORTS, z : SHORTS, zeroed : BOOLEAN]
  /\ seen \in 0 .. DISCARD + SAMPLES /\ total \in Int /\ told \in SUBSET SHORTS
  /\ faults \in 0 .. MaxFaults /\ zs \in 0 .. MaxZ

Abs(n) == IF n < 0 THEN -n ELSE n

\* b is the mean of the pairs to be averaged, rounded to the nearest integer,
\* a half away from zero.
IsMean(b) ==
  LET twice == 2 * Abs(SAMPLES * b - total)
  IN twice < SAMPLES \/ (twice = SAMPLES /\ Abs(SAMPLES * b) > Abs(total))

\* A pair is handed on as zeroed exactly from the pair that completes a capture
\* (main.c:571-631, mag_zero.c:63-126), and then by the mean of exactly SAMPLES
\* pairs after exactly DISCARD pairs, all of which came after the last 'z' or
\* the start, however often 'z' interrupted a capture; before, it is unchanged.
PairIsZeroedRightly ==
  \A o \in out :
    /\ o.zeroed <=> seen = DISCARD + SAMPLES
    /\ IF o.zeroed THEN \E b \in SHORTS : IsMean(b) /\ o.z = MagZero_Sat16(o.d - b)
       ELSE o.z = o.d

MagInv == TypeOK /\ PairIsZeroedRightly

\* The baseline announced for this capture is the one that pairs are zeroed
\* with until the next 'z' (main.c:607-619, 1587-1605), and no zeroed pair goes
\* out before the announcement was tried.
AnnouncementIsTrue ==
  /\ \A b \in told : mz_ready /\ b = mz_base
  /\ \A o \in out : o.zeroed => told # {}

\* Once faults stop, pairs go on for ever: a part that fell out of continuous
\* mode, or was not initialised at the start, is found silent and initialised
\* again (main.c:520-557), whatever its timer held and wherever the tick wraps.
PairsKeepComing == []<><<ServePair>>_vars
=============================================================================

--------------------------- MODULE MagZeroProofs ---------------------------
(***************************************************************************)
(* For every number of samples and discarded pairs, every width of the     *)
(* readings, any number of faults and of commands 'z': the types hold, a   *)
(* zeroed pair is zeroed by the rounded mean of one whole capture (MagInv) *)
(* and the baseline announced is the one in use (AnnouncementIsTrue).      *)
(*                                                                         *)
(* Neither is inductive: CaptureInv relates the counters of mag_zero.c to  *)
(* the pairs that came and bounds their sum, so that the mean (Rounding)   *)
(* never saturates, and ToldInv says that an announcement was made once.   *)
(***************************************************************************)
EXTENDS MagZero, TLAPS

-----------------------------------------------------------------------------
(* Rounding: MagZero_RoundDiv gives the nearest integer, halves away from  *)
(* zero.                                                                   *)

\* A product with a positive factor grows with the other factor.
LEMMA ProductGrows ==
  ASSUME NEW n \in Nat, NEW a \in Int, NEW b \in Int, a <= b
  PROVE  n * a <= n * b
<1>1. PICK k \in Nat : b = a + k
  <2>1. b - a \in Nat /\ b = a + (b - a)
    OBVIOUS
  <2> QED  BY <2>1
<1>2. n * b = n * a + n * k
  BY <1>1
<1>3. n * k \in Nat /\ n * a \in Int
  BY <1>1
<1> QED  BY <1>2, <1>3

\* What integer division returns.
LEMMA Quotient ==
  ASSUME NEW a \in Int, NEW n \in Nat \ {0}
  PROVE  /\ a \div n \in Int
         /\ n * (a \div n) <= a
         /\ a < n * (a \div n) + n
  OBVIOUS

\* half is n / 2, or (n - 1) / 2 if n is odd.
LEMMA Half ==
  ASSUME NEW n \in Nat
  PROVE  /\ n \div 2 \in Nat
         /\ 2 * (n \div 2) \in {n, n - 1}
  OBVIOUS

\* q is s / n rounded, halves up.
HalfUp(q, s, n) ==
  /\ q \in Nat /\ n * q \in Nat
  /\ 2 * (n * q - s) <= n /\ 2 * (s - n * q) < n
  /\ \A m \in Nat : s <= n * m => q <= m

\* The quotient q of s + half is nearest to s / n, above it in the case of a
\* tie, and no larger than any m with s <= n * m.
LEMMA RoundedHalfUp ==
  ASSUME NEW s \in Nat, NEW n \in Nat \ {0}
  PROVE  HalfUp((s + (n \div 2)) \div n, s, n)
<1>0. PICK q : q = (s + (n \div 2)) \div n
  OBVIOUS
<1> DEFINE h == n \div 2
<1>1. h \in Nat /\ (2 * h = n \/ 2 * h = n - 1)
  BY Half
<1>2. q \in Int /\ n * q <= s + h /\ s + h < n * q + n
  BY <1>0, <1>1, Quotient
<1> HIDE DEF h
<1>3. q \in Nat /\ n * q \in Nat
  <2>1. SUFFICES ASSUME q < 0 PROVE FALSE
    BY <1>2
  <2>2. n * q <= n * (0 - 1)
    BY <1>2, <2>1, ProductGrows
  <2>3. n * (0 - 1) = -n /\ n * q \in Int
    BY <1>2
  <2> QED  BY <1>1, <1>2, <2>2, <2>3
<1> DEFINE p == n * q
<1>4. p \in Nat /\ p <= s + h /\ s + h < p + n
  BY <1>2, <1>3
<1>5. ASSUME NEW m \in Nat, s <= n * m PROVE q <= m
  <2>1. SUFFICES ASSUME m + 1 <= q PROVE FALSE
    BY <1>3
  <2>2. n * (m + 1) <= p
    BY <1>3, <2>1, ProductGrows
  <2>3. n * (m + 1) = n * m + n /\ n * m \in Nat
    OBVIOUS
  <2> HIDE DEF p
  <2>4. h < n
    BY <1>1
  <2> QED  BY <1>1, <1>4, <1>5, <2>2, <2>3, <2>4
<1> HIDE DEF p
<1>6. 2 * (p - s) <= n /\ 2 * (s - p) < n
  BY <1>1, <1>4
<1>7. HalfUp(q, s, n)
  BY <1>3, <1>5, <1>6 DEF p, HalfUp
<1> QED  BY <1>0, <1>7

\* b is the mean of n numbers of this sum, rounded: IsMean for any sum and n.
Mean(b, sum, n) ==
  LET twice == 2 * Abs(n * b - sum)
  IN twice < n \/ (twice = n /\ Abs(n * b) > Abs(sum))

\* If the sum is one of n values of an int16_t, MagZero_RoundDiv returns their
\* rounded mean, which needs no saturation (mag_zero.c: round_div, sat16).
LEMMA Rounding ==
  ASSUME NEW sum \in Int, NEW n \in Nat \ {0},
         n * INT_MIN <= sum, sum <= n * INT_MAX
  PROVE  MagZero_RoundDiv(sum, n) \in SHORTS /\ Mean(MagZero_RoundDiv(sum, n), sum, n)
<1>1. INT_MIN \in Int /\ INT_MAX \in Int /\ INT_MIN < 0 /\ INT_MAX > 0
  BY MagZeroConstants DEF MagZeroConstants
<1> DEFINE h == n \div 2
<1>2. h \in Nat
  BY Half
<1>3. CASE sum >= 0
  <2>0. PICK q : q = (sum + (n \div 2)) \div n
    OBVIOUS
  <2>1. /\ q \in Nat /\ n * q \in Nat
        /\ 2 * (n * q - sum) <= n /\ 2 * (sum - n * q) < n
        /\ \A m \in Nat : sum <= n * m => q <= m
    <3>1. sum \in Nat
      BY <1>3
    <3>2. HalfUp(q, sum, n)
      BY <2>0, <3>1, RoundedHalfUp
    <3> QED  BY <3>2 DEF HalfUp
  <2>2. q <= INT_MAX
    BY <1>1, <2>1
  <2>3. MagZero_RoundDiv(sum, n) = MagZero_Sat16(q)
    BY <1>3, <2>0 DEF MagZero_RoundDiv
  <2>4. MagZero_Sat16(q) = q /\ q \in SHORTS
    BY <1>1, <2>1, <2>2 DEF MagZero_Sat16, SHORTS
  <2> DEFINE p == n * q
  <2>5. p \in Nat /\ 2 * (p - sum) <= n /\ 2 * (sum - p) < n
    BY <2>1
  <2>6. Mean(q, sum, n)
    <3> HIDE DEF p
    <3>1. 2 * Abs(p - sum) < n \/ (2 * Abs(p - sum) = n /\ Abs(p) > Abs(sum))
      BY <1>3, <2>5 DEF Abs
    <3> QED  BY <3>1, Zenon DEF Mean, p
  <2> QED  BY <2>3, <2>4, <2>6
<1>4. CASE sum < 0
  <2>1. PICK s \in Nat : s = -sum
    BY <1>4
  <2>0. PICK q : q = (s + (n \div 2)) \div n
    OBVIOUS
  <2>2. /\ q \in Nat /\ n * q \in Nat
        /\ 2 * (n * q - s) <= n /\ 2 * (s - n * q) < n
        /\ \A m \in Nat : s <= n * m => q <= m
    <3>1. HalfUp(q, s, n)
      BY <2>0, RoundedHalfUp
    <3> QED  BY <3>1 DEF HalfUp
  <2>3. q <= -INT_MIN
    <3>1. n * INT_MIN \in Int /\ n * (-INT_MIN) = -(n * INT_MIN)
      BY <1>1
    <3>2. s <= n * (-INT_MIN)
      BY <2>1, <3>1
    <3>3. -INT_MIN \in Nat
      BY <1>1
    <3> QED  BY <2>2, <3>2, <3>3
  <2>4. MagZero_RoundDiv(sum, n) = MagZero_Sat16(-q)
    <3>1. h - sum = s + h
      BY <1>2, <2>1
    <3> QED  BY <1>4, <2>0, <3>1 DEF MagZero_RoundDiv
  <2>5. MagZero_Sat16(-q) = -q /\ -q \in SHORTS
    BY <1>1, <2>2, <2>3 DEF MagZero_Sat16, SHORTS
  <2> DEFINE p == n * q
  <2>6. p \in Nat /\ 2 * (p - s) <= n /\ 2 * (s - p) < n
    BY <2>2
  <2>7. n * (-q) = -p
    BY <2>2
  <2>8. Mean(-q, sum, n)
    <3> HIDE DEF p
    <3>1. \/ 2 * Abs((-p) - sum) < n
          \/ 2 * Abs((-p) - sum) = n /\ Abs(-p) > Abs(sum)
      BY <1>4, <2>1, <2>6 DEF Abs
    <3> QED  BY <2>7, <3>1 DEF Mean
  <2> QED  BY <2>4, <2>5, <2>8
<1> QED  BY <1>3, <1>4

-----------------------------------------------------------------------------
(* The inductive invariants.                                               *)

\* Pairs of the present capture that have been averaged so far.
Averaged == IF seen > DISCARD THEN seen - DISCARD ELSE 0

\* The counters of mag_zero.c say how many pairs came since the capture was asked
\* for, the sum is theirs, and the baseline their mean.
CaptureInv ==
  /\ pc # "start" => mz_init
  /\ mz_ready => seen = DISCARD + SAMPLES /\ mz_base = MagZero_RoundDiv(total, SAMPLES)
  /\ ~mz_ready =>
       /\ mz_count < SAMPLES /\ (mz_discard # 0 => mz_count = 0)
       /\ pc # "start" => seen = (DISCARD - mz_discard) + mz_count
       /\ mz_acc = total
  /\ Averaged * INT_MIN <= total /\ total <= Averaged * INT_MAX
  /\ pc = "start" => seen = 0 /\ total = 0 /\ out = {} /\ told = {} /\ ~mz_ready

\* The announcement is made once for a capture and stays true.
ToldInv ==
  /\ pc # "start" => (mag_zero_announced <=> told # {})
  /\ \A b \in told : mz_ready /\ b = mz_base
  /\ \A o \in out : o.zeroed => told # {}

IInv == TypeOK /\ CaptureInv /\ ToldInv /\ PairIsZeroedRightly

\* What the proofs use of the constants.
LEMMA Constants ==
  /\ SAMPLES \in Nat \ {0} /\ DISCARD \in Nat
  /\ INT_MIN \in Int /\ INT_MAX \in Int /\ INT_MIN < 0 /\ INT_MAX > 0
  /\ 0 \in SHORTS /\ 0 \in 0 .. SAMPLES
  /\ DISCARD \in 0 .. DISCARD /\ 0 \in 0 .. DISCARD /\ 0 \in 0 .. DISCARD + SAMPLES
  /\ 0 \in 0 .. TICKS - 1 /\ 0 \in 0 .. MaxFaults /\ 0 \in 0 .. MaxZ
  /\ TICKS \in Nat /\ MaxFaults \in Nat /\ MaxZ \in Nat
  BY MagZeroConstants DEF MagZeroConstants, SHORTS

\* A reading is an int16_t.
LEMMA Readings ==
  ASSUME NEW p \in PARTS, IInv, NEW q \in ReadXYZ(p)
  PROVE  q.value \in SHORTS /\ q.zyxda \in BOOLEAN
<1>1. x[p] \in SHORTS /\ zyxda[p] \in BOOLEAN /\ Field(p) \subseteq SHORTS
  BY MagZeroConstants DEF IInv, TypeOK, MagZeroConstants
<1>2. CASE \E z \in {FALSE, zyxda[p]} : q = [status |-> "error", value |-> x[p], zyxda |-> z]
  <2>1. PICK z \in {FALSE, zyxda[p]} : q = [status |-> "error", value |-> x[p], zyxda |-> z]
    BY <1>2, Zenon
  <2>2. q.value = x[p] /\ q.zyxda = z
    BY <2>1
  <2>3. z \in BOOLEAN
    BY <1>1, <2>1, Zenon
  <2> QED  BY <1>1, <2>2, <2>3, Zenon
<1>3. CASE \E v \in Field(p) : q = [status |-> "ok", value |-> v, zyxda |-> FALSE]
  BY <1>1, <1>3
<1>4. CASE q = [status |-> "busy", value |-> x[p], zyxda |-> FALSE]
  BY <1>1, <1>4
<1> QED  BY <1>2, <1>3, <1>4 DEF ReadXYZ

\* Saturation gives an int16_t (MagZero_Sat16).
LEMMA Saturates ==
  ASSUME NEW v \in Int
  PROVE  MagZero_Sat16(v) \in SHORTS
  BY Constants DEF MagZero_Sat16, SHORTS

\* TypeOK by the variables that change together: the parts, the clock and the
\* reads; mag_zero.c and the announcement; the history.
LoopTypes ==
  /\ continuous \in [PARTS -> BOOLEAN] /\ zyxda \in [PARTS -> BOOLEAN]
  /\ tick \in 0 .. TICKS - 1 /\ ticked \in BOOLEAN
  /\ pc \in {"start", "command", "read", "pair"}
  /\ x \in [PARTS -> SHORTS] /\ new \in [PARTS -> BOOLEAN]
  /\ busy_since \in [PARTS -> 0 .. TICKS - 1]
  /\ faults \in 0 .. MaxFaults /\ zs \in 0 .. MaxZ
ZeroTypes ==
  /\ mz_acc \in Int /\ mz_count \in 0 .. SAMPLES /\ mz_discard \in 0 .. DISCARD
  /\ mz_base \in SHORTS /\ mz_ready \in BOOLEAN /\ mz_init \in BOOLEAN
  /\ mag_zero_announced \in BOOLEAN
HistoryTypes ==
  /\ out \in SUBSET [d : SHORTS, z : SHORTS, zeroed : BOOLEAN]
  /\ seen \in 0 .. DISCARD + SAMPLES /\ total \in Int /\ told \in SUBSET SHORTS

\* TypeOK is the three parts.
LEMMA TypeParts == TypeOK <=> LoopTypes /\ ZeroTypes /\ HistoryTypes
  BY Zenon DEF TypeOK, LoopTypes, ZeroTypes, HistoryTypes

\* The same of the next state.
LEMMA TypePartsNext == TypeOK' <=> LoopTypes' /\ ZeroTypes' /\ HistoryTypes'
  BY Zenon DEF TypeOK, LoopTypes, ZeroTypes, HistoryTypes

\* Nothing is captured, paired or announced at the start.
LEMMA InitIInv == Init => IInv
<1> SUFFICES ASSUME Init PROVE IInv
  OBVIOUS
<1> USE Constants
<1>1. TypeOK
  <2>1. LoopTypes
    BY DEF Init, LoopTypes
  <2>2. ZeroTypes
    <3>1. mz_acc \in Int
      BY DEF Init
    <3>2. mz_count \in 0 .. SAMPLES
      BY DEF Init
    <3>3. mz_discard \in 0 .. DISCARD
      BY DEF Init
    <3>4. mz_base \in SHORTS
      BY DEF Init
    <3>5. mz_ready \in BOOLEAN
      BY DEF Init
    <3>6. mz_init \in BOOLEAN /\ mag_zero_announced \in BOOLEAN
      BY DEF Init
    <3> QED  BY <3>1, <3>2, <3>3, <3>4, <3>5, <3>6, Zenon DEF ZeroTypes
  <2>3. HistoryTypes
    BY DEF Init, HistoryTypes
  <2> QED  BY <2>1, <2>2, <2>3, TypeParts
<1>2. CaptureInv
  BY DEF Init, CaptureInv, Averaged
<1>3. ToldInv /\ PairIsZeroedRightly
  BY DEF Init, ToldInv, PairIsZeroedRightly
<1> QED  BY <1>1, <1>2, <1>3 DEF IInv

\* They survive a step that changes none of their variables, or only goes to the
\* next step of the pass (the reads, no pair, the parts and the clock).
LEMMA CaptureKept ==
  ASSUME IInv, UNCHANGED <<zeroing, mag_zero_announced, history>>,
         pc' = pc \/ (pc # "start" /\ pc' # "start")
  PROVE  CaptureInv' /\ ToldInv' /\ PairIsZeroedRightly'
<1> USE DEF IInv, zeroing, history
<1>1. CaptureInv'
  BY DEF CaptureInv, Averaged
<1>2. ToldInv'
  BY DEF ToldInv
<1>3. PairIsZeroedRightly'
  BY DEF PairIsZeroedRightly, IsMean, Abs
<1> QED  BY <1>1, <1>2, <1>3

\* A capture that begins is of the types (MagZero_Arm).
LEMMA ArmTypes ==
  ASSUME ZeroTypes, MagZero_Arm, mag_zero_announced' \in BOOLEAN
  PROVE  ZeroTypes'
<1>1. mz_acc' \in Int
  BY DEF MagZero_Arm
<1>2. mz_count' \in 0 .. SAMPLES /\ mz_discard' \in 0 .. DISCARD
  BY Constants DEF MagZero_Arm
<1>3. mz_base' \in SHORTS
  BY DEF MagZero_Arm, ZeroTypes
<1>4. mz_ready' \in BOOLEAN /\ mz_init' \in BOOLEAN
  BY DEF MagZero_Arm
<1> QED  BY <1>1, <1>2, <1>3, <1>4, Zenon DEF ZeroTypes

\* The start, and 'z', begin a capture of nothing (MagZero_Arm).
LEMMA ArmStep ==
  ASSUME IInv, Start \/ Command
  PROVE  IInv'
<1> USE Constants
<1>1. CASE Start
  <2>1. TypeOK'
    <3>1. faults' \in 0 .. MaxFaults
      <4>1. \A a : InitFaults(a) \in {0, 1}
        BY DEF InitFaults
      <4>2. \E a, b \in {0, 1} : faults' = faults + a + b /\ faults' <= MaxFaults
        BY <1>1, <4>1 DEF Start
      <4> QED  BY <4>2 DEF IInv, TypeOK
    <3>2. continuous' \in [PARTS -> BOOLEAN]
      <4>1. PICK o : continuous' = [p \in PARTS |-> InitWorks(p, o[p])]
        BY <1>1 DEF Start
      <4>2. \A p \in PARTS : InitWorks(p, o[p]) \in BOOLEAN
        BY DEF InitWorks
      <4> QED  BY <4>1, <4>2, Zenon
    <3>3. LoopTypes'
      BY <1>1, <3>1, <3>2, TypeParts DEF Start, IInv, LoopTypes, clock, pairing
    <3>4. ZeroTypes'
      BY <1>1, TypeParts, ArmTypes DEF Start, IInv
    <3>5. HistoryTypes'
      BY <1>1, TypeParts DEF Start, IInv, HistoryTypes, history
    <3> QED  BY <3>3, <3>4, <3>5, TypePartsNext
  <2>2. CaptureInv'
    BY <1>1 DEF Start, MagZero_Arm, IInv, TypeOK, CaptureInv, Averaged, history
  <2>3. ToldInv' /\ PairIsZeroedRightly'
    BY <1>1 DEF Start, IInv, CaptureInv, ToldInv, PairIsZeroedRightly, history
  <2> QED  BY <2>1, <2>2, <2>3 DEF IInv
<1>2. CASE Command
  <2>1. TypeOK'
    <3>1. LoopTypes'
      BY <1>2, TypeParts DEF Command, IInv, LoopTypes, parts, clock, pairing
    <3>2. ZeroTypes'
      <4>1. CASE UNCHANGED <<zeroing, mag_zero_announced>>
        BY <4>1, TypeParts DEF IInv, ZeroTypes, zeroing
      <4>2. CASE MagZero_Arm /\ AskAnnouncement
        BY <4>2, TypeParts, ArmTypes DEF AskAnnouncement, IInv
      <4> QED  BY <1>2, <4>1, <4>2 DEF Command
    <3>3. HistoryTypes'
      BY <1>2, TypeParts DEF Command, IInv, HistoryTypes
    <3> QED  BY <3>1, <3>2, <3>3, TypePartsNext
  <2>2. CaptureInv'
    <3>1. CASE UNCHANGED <<zeroing, seen, total, told>>
      BY <1>2, <3>1 DEF Command, IInv, CaptureInv, Averaged, zeroing
    <3>2. CASE MagZero_Arm /\ seen' = 0 /\ total' = 0
      BY <1>2, <3>2 DEF Command, MagZero_Arm, CaptureInv, Averaged, IInv, TypeOK
    <3> QED  BY <1>2, <3>1, <3>2 DEF Command
  <2>3. ToldInv' /\ PairIsZeroedRightly'
    BY <1>2 DEF Command, AskAnnouncement, IInv, ToldInv, PairIsZeroedRightly, zeroing
  <2> QED  BY <2>1, <2>2, <2>3 DEF IInv
<1> QED  BY <1>1, <1>2

\* The reads, the parts and the clock keep the types.
LEMMA QuietStep ==
  ASSUME IInv,
         ReadSensors \/ NoPair \/ Tick \/ \E p \in PARTS : Sample(p) \/ FallsIdle(p)
  PROVE  IInv'
<1> USE Constants
<1>1. CASE ReadSensors
  <2>1. TypeOK'
    <3>1. PICK r1 \in ReadXYZ(1), r2 \in ReadXYZ(2) :
            LET r == <<r1, r2>>
            IN /\ x' = [p \in PARTS |-> r[p].value]
               /\ zyxda' = [p \in PARTS |-> r[p].zyxda]
               /\ new' = [p \in PARTS |-> new[p] \/ r[p].status = "ok"]
               /\ busy_since' = [p \in PARTS |-> BusySince(p, r[p].status)]
      BY <1>1 DEF ReadSensors
    <3>2. \A p \in PARTS : \A q \in ReadXYZ(p) : q.value \in SHORTS /\ q.zyxda \in BOOLEAN
      BY Readings
    <3>3. x' \in [PARTS -> SHORTS] /\ zyxda' \in [PARTS -> BOOLEAN]
      BY <3>1, <3>2 DEF PARTS
    <3>4. new' \in [PARTS -> BOOLEAN]
      BY <3>1 DEF IInv, TypeOK
    <3>5. busy_since' \in [PARTS -> 0 .. TICKS - 1]
      BY <3>1, MagZeroConstants DEF BusySince, IInv, TypeOK, MagZeroConstants
    <3>6. continuous' \in [PARTS -> BOOLEAN]
      BY <1>1 DEF ReadSensors, IInv, TypeOK, InitWorks
    <3>7. faults' \in 0 .. MaxFaults
      <4>1. PICK e \in Nat : faults' = faults + e /\ faults' <= MaxFaults
        <5>1. PICK a1 \in ReadXYZ(1), a2 \in ReadXYZ(2), o \in [PARTS -> INIT_OUTCOMES] :
                LET r == <<a1, a2>>
                    reinit(p) == r[p].status = "busy" /\ TooLong(p)
                    errors(p) == (IF r[p].status = "error" THEN 1 ELSE 0)
                                   + (IF reinit(p) THEN InitFaults(o[p]) ELSE 0)
                IN faults' = faults + errors(1) + errors(2) /\ faults' <= MaxFaults
          BY <1>1 DEF ReadSensors
        <5>2. \A a : InitFaults(a) \in Nat
          BY DEF InitFaults
        <5>3. faults \in Nat
          BY DEF IInv, TypeOK
        <5> DEFINE r == <<a1, a2>>
                   e(p) == (IF r[p].status = "error" THEN 1 ELSE 0)
                             + (IF r[p].status = "busy" /\ TooLong(p)
                                THEN InitFaults(o[p]) ELSE 0)
        <5>4. e(1) \in Nat /\ e(2) \in Nat
          BY <5>2
        <5>5. faults' = faults + e(1) + e(2) /\ faults' <= MaxFaults
          BY <5>1
        <5> HIDE DEF e
        <5>6. faults' = faults + (e(1) + e(2)) /\ e(1) + e(2) \in Nat
          BY <5>3, <5>4, <5>5
        <5> QED  BY <5>5, <5>6
      <4> QED  BY <4>1 DEF IInv, TypeOK
    <3> QED  BY <1>1, <3>3, <3>4, <3>5, <3>6, <3>7
             DEF ReadSensors, IInv, TypeOK, zeroing, history
  <2> QED  BY <1>1, <2>1, CaptureKept DEF ReadSensors, IInv
<1>2. CASE NoPair
  BY <1>2, CaptureKept DEF NoPair, IInv, TypeOK, parts, clock, pairing, zeroing,
                           history, bounds
<1>3. CASE Tick
  <2>1. tick' \in 0 .. TICKS - 1
    BY <1>3, MagZeroConstants DEF Tick, IInv, TypeOK, MagZeroConstants
  <2> QED  BY <1>3, <2>1, CaptureKept DEF Tick, IInv, TypeOK, parts, pairing, zeroing,
                                          history, bounds
<1>4. ASSUME NEW p \in PARTS, Sample(p) PROVE IInv'
  BY <1>4, CaptureKept DEF Sample, IInv, TypeOK, clock, pairing, zeroing, history, bounds
<1>5. ASSUME NEW p \in PARTS, FallsIdle(p) PROVE IInv'
  BY <1>5, CaptureKept DEF FallsIdle, IInv, TypeOK, clock, pairing, zeroing, history
<1> QED  BY <1>1, <1>2, <1>3, <1>4, <1>5

\* The pair that is served: it is fed to the capture, the baseline announced, and
\* the difference zeroed (main.c:571-631, MagZero_Feed, MagZero_Apply).
LEMMA ServeStep ==
  ASSUME IInv, ServePair
  PROVE  IInv'
<1> DEFINE d == MagZero_Sat16(x[1] - x[2])
<1>1. /\ TypeOK /\ LoopTypes /\ ZeroTypes /\ HistoryTypes /\ CaptureInv /\ ToldInv
      /\ mz_init /\ pc # "start" /\ pc' # "start"
  BY TypeParts DEF IInv, CaptureInv, ServePair
<1>2. d \in SHORTS /\ d \in Int /\ INT_MIN <= d /\ d <= INT_MAX
  <2>1. x[1] - x[2] \in Int
    BY <1>1, Constants DEF LoopTypes, PARTS, SHORTS
  <2>2. d \in SHORTS
    BY <2>1, Saturates
  <2> QED  BY <2>2, Constants DEF SHORTS
<1> HIDE DEF d
<1>3. MagZero_Feed(d) /\ Announce /\ CountPair(d)
  BY DEF ServePair, d
<1>4. out' = {[d |-> d, z |-> Applied(d), zeroed |-> mz_ready']}
  BY DEF ServePair, d
<1> DEFINE Discards == ~mz_ready /\ mz_discard # 0
           Adds == ~mz_ready /\ mz_discard = 0
\* What MagZero_Feed does once armed.
<1>5. /\ mz_init'
      /\ mz_discard' = IF Discards THEN mz_discard - 1 ELSE mz_discard
      /\ mz_acc' = IF Adds THEN mz_acc + d ELSE mz_acc
      /\ mz_count' = IF Adds THEN mz_count + 1 ELSE mz_count
      /\ mz_ready' <=> (mz_ready \/ (Adds /\ mz_count + 1 >= SAMPLES))
      /\ mz_base' = IF mz_ready' /\ ~mz_ready THEN MagZero_RoundDiv(mz_acc', mz_count')
                    ELSE mz_base
  BY <1>1, <1>3 DEF MagZero_Feed, Acc, Count, Discard, Ready
<1>6. /\ seen \in Nat /\ total \in Int /\ mz_count \in Nat /\ mz_discard \in 0 .. DISCARD
      /\ mz_acc \in Int /\ SAMPLES \in Nat \ {0} /\ DISCARD \in Nat
      /\ INT_MIN \in Int /\ INT_MAX \in Int
  BY <1>1, Constants DEF ZeroTypes, HistoryTypes
<1>7. /\ mz_ready => seen = DISCARD + SAMPLES /\ mz_base = MagZero_RoundDiv(total, SAMPLES)
      /\ ~mz_ready => /\ mz_count < SAMPLES /\ (mz_discard # 0 => mz_count = 0)
                      /\ seen = (DISCARD - mz_discard) + mz_count
                      /\ mz_acc = total
      /\ Averaged * INT_MIN <= total /\ total <= Averaged * INT_MAX
  BY <1>1 DEF CaptureInv
\* The history counts as the code does.
<1>8. /\ seen' = IF mz_ready THEN seen ELSE seen + 1
      /\ total' = IF Adds THEN total + d ELSE total
  BY <1>3, <1>6, <1>7 DEF CountPair
<1>9. Averaged' * INT_MIN <= total' /\ total' <= Averaged' * INT_MAX
  <2>1. CASE Adds
    <3>1. Averaged' = Averaged + 1 /\ Averaged \in Nat
      BY <1>6, <1>7, <1>8, <2>1 DEF Averaged
    <3>2. /\ (Averaged + 1) * INT_MIN = Averaged * INT_MIN + INT_MIN
          /\ (Averaged + 1) * INT_MAX = Averaged * INT_MAX + INT_MAX
          /\ Averaged * INT_MIN \in Int /\ Averaged * INT_MAX \in Int
      BY <1>6, <3>1
    <3> DEFINE lo == Averaged * INT_MIN
               hi == Averaged * INT_MAX
    <3>3. /\ lo \in Int /\ hi \in Int /\ lo <= total /\ total <= hi
          /\ total' = total + d
      BY <1>7, <1>8, <2>1, <3>2
    <3> HIDE DEF lo, hi
    <3>4. lo + INT_MIN <= total' /\ total' <= hi + INT_MAX
      BY <1>2, <1>6, <3>3
    <3> QED  BY <3>1, <3>2, <3>4 DEF lo, hi
  <2>2. CASE ~Adds
    <3>1. Averaged' = Averaged
      BY <1>6, <1>7, <1>8, <2>2 DEF Averaged
    <3> QED  BY <1>7, <1>8, <2>2, <3>1
  <2> QED  BY <2>1, <2>2
\* Of a whole capture.
<1>10. mz_ready' => /\ seen' = DISCARD + SAMPLES
                    /\ mz_base' = MagZero_RoundDiv(total', SAMPLES)
  <2>1. CASE mz_ready
    BY <1>5, <1>7, <1>8, <2>1
  <2>2. CASE ~mz_ready /\ mz_ready'
    <3>1. Adds /\ mz_count + 1 = SAMPLES
      BY <1>5, <1>6, <1>7, <2>2
    <3>2. seen' = DISCARD + SAMPLES
      BY <1>6, <1>7, <1>8, <3>1
    <3>3. mz_acc' = total' /\ mz_count' = SAMPLES
      BY <1>5, <1>7, <1>8, <3>1
    <3> QED  BY <1>5, <2>2, <3>2, <3>3
  <2> QED  BY <2>1, <2>2
<1>11. CaptureInv'
  <2>1. ~mz_ready' => /\ mz_count' < SAMPLES /\ (mz_discard' # 0 => mz_count' = 0)
                      /\ seen' = (DISCARD - mz_discard') + mz_count'
                      /\ mz_acc' = total'
    BY <1>5, <1>6, <1>7, <1>8
  <2> QED  BY <1>1, <1>5, <1>9, <1>10, <2>1 DEF CaptureInv
\* Once ready the baseline is the mean of all pairs that were averaged.
<1>12. mz_ready' => mz_base' \in SHORTS /\ Mean(mz_base', total', SAMPLES)
  <2>1. SUFFICES ASSUME mz_ready' PROVE mz_base' \in SHORTS /\ Mean(mz_base', total', SAMPLES)
    OBVIOUS
  <2>2. Averaged' = SAMPLES
    BY <1>6, <1>10, <2>1 DEF Averaged
  <2>3. total' \in Int
    BY <1>2, <1>6, <1>8
  <2>4. SAMPLES * INT_MIN <= total' /\ total' <= SAMPLES * INT_MAX
    BY <1>9, <2>2
  <2> QED  BY <1>6, <1>10, <2>1, <2>3, <2>4, Rounding
<1>13. TypeOK'
  <2>1. LoopTypes'
    <3>1. new' \in [PARTS -> BOOLEAN]
      BY DEF ServePair
    <3> QED  BY <1>1, <3>1 DEF ServePair, LoopTypes, parts, clock, bounds
  <2>2. mz_base' \in SHORTS
    BY <1>1, <1>5, <1>12 DEF ZeroTypes
  <2>3. mz_acc' \in Int /\ mz_count' \in 0 .. SAMPLES /\ mz_discard' \in 0 .. DISCARD
    BY <1>1, <1>2, <1>5, <1>6, <1>7 DEF ZeroTypes
  <2>4. mz_ready' \in BOOLEAN /\ mz_init' \in BOOLEAN /\ mag_zero_announced' \in BOOLEAN
    BY <1>1, <1>3 DEF MagZero_Feed, Announce, ZeroTypes
  <2>5. ZeroTypes'
    BY <2>2, <2>3, <2>4, Zenon DEF ZeroTypes
  <2>6. Applied(d) \in SHORTS
    BY <1>2, <2>2, Saturates, Constants DEF Applied, SHORTS
  <2>7. HistoryTypes'
    <3>1. seen' \in 0 .. DISCARD + SAMPLES
      BY <1>6, <1>7, <1>8
    <3>2. total' \in Int
      BY <1>2, <1>6, <1>8
    <3>3. told' \in SUBSET SHORTS
      BY <1>1, <1>3, <2>2 DEF Announce, HistoryTypes
    <3>4. out' \in SUBSET [d : SHORTS, z : SHORTS, zeroed : BOOLEAN]
      BY <1>2, <1>4, <2>4, <2>6
    <3> QED  BY <3>1, <3>2, <3>3, <3>4 DEF HistoryTypes
  <2> QED  BY <2>1, <2>5, <2>7, TypePartsNext
<1>14. ToldInv'
  <2>1. told' # {} <=> mag_zero_announced'
    BY <1>1, <1>3 DEF Announce, ToldInv
  <2>2. \A b \in told' : mz_ready' /\ b = mz_base'
    BY <1>1, <1>3, <1>5 DEF Announce, ToldInv
  <2>3. \A o \in out' : o.zeroed => told' # {}
    <3>1. \A o \in out' : o.zeroed <=> mz_ready'
      BY <1>4
    <3>2. mz_ready' => mag_zero_announced'
      BY <1>3 DEF Announce
    <3> QED  BY <2>1, <3>1, <3>2
  <2> QED  BY <2>1, <2>2, <2>3 DEF ToldInv
<1>15. PairIsZeroedRightly'
  <2>1. mz_ready' <=> seen' = DISCARD + SAMPLES
    BY <1>5, <1>6, <1>7, <1>8, <1>10
  <2>2. CASE mz_ready'
    <3>1. out' = {[d |-> d, z |-> MagZero_Sat16(d - mz_base'), zeroed |-> mz_ready']}
      BY <1>4, <2>2 DEF Applied
    <3>2. \E b \in SHORTS : Mean(b, total', SAMPLES) /\ MagZero_Sat16(d - mz_base') = MagZero_Sat16(d - b)
      BY <1>12, <2>2
    <3>3. \A o \in out' : /\ o.zeroed <=> mz_ready'
                          /\ o.d = d /\ o.z = MagZero_Sat16(d - mz_base')
      BY <3>1
    <3> QED  BY <2>1, <2>2, <3>2, <3>3 DEF PairIsZeroedRightly, IsMean, Mean
  <2>3. CASE ~mz_ready'
    <3>1. out' = {[d |-> d, z |-> d, zeroed |-> mz_ready']}
      BY <1>4, <2>3 DEF Applied
    <3>2. \A o \in out' : (o.zeroed <=> mz_ready') /\ o.d = d /\ o.z = d
      BY <3>1
    <3> QED  BY <2>1, <2>3, <3>2 DEF PairIsZeroedRightly
  <2> QED  BY <2>2, <2>3
<1> QED  BY <1>11, <1>13, <1>14, <1>15 DEF IInv

\* The strengthened invariant holds in every reachable state.
THEOREM Invariant == Spec => []IInv
<1>1. IInv /\ [Next]_vars => IInv'
  <2> SUFFICES ASSUME IInv, [Next]_vars PROVE IInv'
    OBVIOUS
  <2>1. CASE Next
    BY <2>1, ArmStep, QuietStep, ServeStep DEF Next, Loop
  <2>2. CASE UNCHANGED vars
    BY <2>2, CaptureKept DEF IInv, TypeOK, vars, parts, clock, pairing, zeroing, history,
                             bounds
  <2> QED  BY <2>1, <2>2
<1> QED  BY <1>1, InitIInv, PTL DEF Spec

\* A pair is zeroed exactly from the pair that completes a capture, by the mean,
\* rounded and halves away from zero, of exactly SAMPLES pairs that came after
\* DISCARD others and after the last 'z' (main.c:571-631, mag_zero.c), for every
\* number of samples and every width of the readings.
THEOREM ZeroingCorrect == Spec => []MagInv
<1>1. IInv => MagInv
  BY DEF IInv, MagInv
<1> QED  BY <1>1, Invariant, PTL

\* The baseline announced for a capture is the one in use until the next 'z', and
\* no zeroed pair precedes the announcement (main.c:607-619).
THEOREM AnnouncementCorrect == Spec => []AnnouncementIsTrue
<1>1. IInv => AnnouncementIsTrue
  BY DEF IInv, ToldInv, AnnouncementIsTrue
<1> QED  BY <1>1, Invariant, PTL
=============================================================================

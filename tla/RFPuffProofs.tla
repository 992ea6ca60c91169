---------------------------- MODULE RFPuffProofs ----------------------------
(***************************************************************************)
(* Theorems about the puff event queue and about puff detection.           *)
(*                                                                         *)
(* The queue, for every length and every index modulus that is a proper    *)
(* multiple of it: the inductive invariant is QueueTypeOK /\ QueueInv.     *)
(* IndicesCount ties the wrapped indices to the lengths of the two         *)
(* histories; with it the code's (head - tail) is the number of waiting    *)
(* events, which gives SlotsIntact, because two events that wait at once   *)
(* are less than QLEN apart and so never share a slot; CopyIntact then     *)
(* follows from it.                                                        *)
(*                                                                         *)
(* Puff detection, for every timeout of more than three handler latencies: *)
(* Latency bounds the counter while an edge waits to be served.  With it   *)
(* Armed and BurstsStarted say when the end of a puff is still to come and *)
(* how many bursts have their puff; CountIs, PuffIs and NewIs in Exact say  *)
(* where each period of the signal is, as long as no capture is lost, and  *)
(* EndsLogged, OpenStart what the queue has been given.                    *)
(***************************************************************************)
EXTENDS RFPuff, SequenceTheorems, TLAPS

-----------------------------------------------------------------------------
(* The event queue: arithmetic of the wrapped indices.                     *)

\* A quotient and a remainder in range determine the remainder.
LEMMA RemainderUnique ==
  ASSUME NEW d \in Nat, d > 0, NEW q \in Int, NEW r \in 0 .. d - 1
  PROVE  (q * d + r) % d = r
  BY Z3

\* Every integer splits into quotient and remainder.
LEMMA Division ==
  ASSUME NEW n \in Int, NEW d \in Nat, d > 0
  PROVE  n \div d \in Int /\ n % d \in 0 .. d - 1 /\ n = (n \div d) * d + (n % d)
  OBVIOUS

\* Adding a multiple of the modulus does not change the remainder.
LEMMA RemainderShift ==
  ASSUME NEW n \in Int, NEW d \in Nat, d > 0, NEW k \in Int
  PROVE  (n + k * d) % d = n % d
  <1> DEFINE q == n \div d
             r == n % d
  <1>1. q \in Int /\ r \in 0 .. d - 1 /\ n = q * d + r
    BY Division
  <1> HIDE DEF q, r
  <1>2. n + k * d = (q + k) * d + r
    BY <1>1
  <1>3. ((q + k) * d + r) % d = r
    BY <1>1, RemainderUnique
  <1> QED
    BY <1>2, <1>3 DEF r

\* head and tail wrapped, their wrapped difference is the number of events
\* between them as long as that is below the modulus.
LEMMA WrappedDifference ==
  ASSUME NEW h \in Nat, NEW t \in Nat, NEW d \in Nat, d > 0, t <= h, h - t < d
  PROVE  ((h % d) - (t % d)) % d = h - t
  <1> DEFINE qh == h \div d
             qt == t \div d
             rh == h % d
             rt == t % d
  <1>1. qh \in Int /\ rh \in 0 .. d - 1 /\ h = qh * d + rh
    BY Division
  <1>2. qt \in Int /\ rt \in 0 .. d - 1 /\ t = qt * d + rt
    BY Division
  <1> HIDE DEF qh, qt, rh, rt
  <1>3. rh - rt = (qt - qh) * d + (h - t)
    BY <1>1, <1>2
  <1>4. ((qt - qh) * d + (h - t)) % d = h - t
    <2>1. qt - qh \in Int /\ h - t \in 0 .. d - 1
      BY <1>1, <1>2
    <2> QED
      BY <2>1, RemainderUnique
  <1>5. (rh - rt) % d = h - t
    BY <1>3, <1>4
  <1> QED
    BY <1>5 DEF rh, rt

\* Wrapping first and stepping afterwards is wrapping the next number.
LEMMA WrappedSuccessor ==
  ASSUME NEW n \in Nat, NEW d \in Nat, d > 0
  PROVE  ((n % d) + 1) % d = (n + 1) % d
  <1> DEFINE q == n \div d
             r == n % d
  <1>1. q \in Int /\ r \in 0 .. d - 1 /\ n = q * d + r
    BY Division
  <1> HIDE DEF q, r
  <1>2. (r + 1 + q * d) % d = (r + 1) % d
    BY <1>1, RemainderShift
  <1>3. n + 1 = r + 1 + q * d
    BY <1>1
  <1> QED
    BY <1>2, <1>3 DEF r

\* The slot of a wrapped index is the slot of the number it stands for,
\* because the queue length divides the modulus.
LEMMA WrappedSlot ==
  ASSUME NEW n \in Nat
  PROVE  (n % IDX) % QLEN = n % QLEN
  <1>1. PICK k \in 2 .. IDX : IDX = QLEN * k
    BY PuffConstants DEF QueueSizes
  <1>2. IDX \in Nat /\ IDX > 0 /\ QLEN \in Nat /\ QLEN > 0
    BY <1>1, PuffConstants DEF QueueSizes
  <1> DEFINE q == n \div IDX
             r == n % IDX
  <1>3. q \in Int /\ r \in 0 .. IDX - 1 /\ n = q * IDX + r
    BY <1>2, Division
  <1> HIDE DEF q, r
  <1>4. n = r + (q * k) * QLEN
    BY <1>1, <1>2, <1>3
  <1>5. (r + (q * k) * QLEN) % QLEN = r % QLEN
    <2>1. q * k \in Int /\ r \in Int
      BY <1>1, <1>3
    <2> QED
      BY <2>1, <1>2, RemainderShift
  <1> QED
    BY <1>4, <1>5 DEF r

\* Numbers less than QLEN apart have different slots.
LEMMA SlotsDiffer ==
  ASSUME NEW i \in Nat, NEW j \in Nat, i < j, j < i + QLEN
  PROVE  i % QLEN # j % QLEN
  <1>1. QLEN \in Nat /\ QLEN > 0
    BY PuffConstants DEF QueueSizes
  <1> DEFINE qi == i \div QLEN
             qj == j \div QLEN
             ri == i % QLEN
             rj == j % QLEN
  <1>2. qi \in Int /\ ri \in 0 .. QLEN - 1 /\ i = qi * QLEN + ri
    BY <1>1, Division
  <1>3. qj \in Int /\ rj \in 0 .. QLEN - 1 /\ j = qj * QLEN + rj
    BY <1>1, Division
  <1> HIDE DEF qi, qj, ri, rj
  <1>4. ASSUME ri = rj PROVE FALSE
    <2>1. j - i = (qj - qi) * QLEN
      BY <1>2, <1>3, <1>4, <1>1
    <2>2. (j - i) % QLEN = 0
      <3>1. qj - qi \in Int /\ 0 \in 0 .. QLEN - 1
        BY <1>1, <1>2, <1>3
      <3>2. ((qj - qi) * QLEN + 0) % QLEN = 0
        BY <3>1, <1>1, RemainderUnique
      <3> QED
        BY <3>2, <2>1, <1>1, <3>1
    <2>3. (j - i) % QLEN = j - i
      <3>1. j - i \in 0 .. QLEN - 1 /\ 0 \in Int
        BY <1>1
      <3>2. (0 * QLEN + (j - i)) % QLEN = j - i
        BY <3>1, <1>1, RemainderUnique
      <3> QED
        BY <3>1, <3>2, <1>1
    <2> QED
      BY <2>2, <2>3
  <1> QED
    BY <1>4 DEF ri, rj

\* The queue has a slot, fewer slots than index values, and divides them.
LEMMA Sizes == /\ QLEN \in Nat /\ QLEN > 0
               /\ IDX \in Nat /\ IDX > QLEN
  <1>1. PICK k \in 2 .. IDX : IDX = QLEN * k
    BY PuffConstants DEF QueueSizes
  <1>2. QLEN \in Nat /\ QLEN > 0 /\ IDX \in Nat
    BY PuffConstants DEF QueueSizes
  <1>3. k >= 2 /\ k \in Nat
    BY <1>1, <1>2
  <1>4. QLEN * k >= QLEN * 2
    BY <1>2, <1>3
  <1> QED
    BY <1>1, <1>2, <1>4

\* The successor of a wrapped index stands for the next number.
LEMMA NextIndexCounts ==
  ASSUME NEW n \in Nat
  PROVE  NextIndex(n % IDX) = (n + 1) % IDX
  <1>0. IDX \in Nat /\ IDX > 0
    BY Sizes
  <1>1. ((n % IDX) + 1) % IDX = (n + 1) % IDX
    BY <1>0, WrappedSuccessor, Zenon
  <1> QED
    BY <1>1 DEF NextIndex

\* A remainder is in range.
LEMMA InRange ==
  ASSUME NEW n \in Int
  PROVE  n % QLEN \in Slot /\ n % IDX \in 0 .. IDX - 1
  BY Sizes, Division DEF Slot

-----------------------------------------------------------------------------
(* The event queue: the inductive invariant.                               *)

QueueIInv == QueueTypeOK /\ QueueInv

\* What RF_QueuePush computes as the number of waiting events is that number.
LEMMA UsedIsOutstanding ==
  ASSUME QueueTypeOK, IndicesCount
  PROVE  Used = Len(accepted) - Len(logged)
  <1>1. Len(accepted) \in Nat /\ Len(logged) \in Nat
    BY LenProperties DEF QueueTypeOK
  <1>2. Len(accepted) - Len(logged) < IDX
    BY <1>1, Sizes DEF IndicesCount
  <1>3. ((Len(accepted) % IDX) - (Len(logged) % IDX)) % IDX = Len(accepted) - Len(logged)
    <2> DEFINE h == Len(accepted)
               t == Len(logged)
    <2>1. h \in Nat /\ t \in Nat /\ t <= h /\ h - t < IDX /\ IDX \in Nat /\ IDX > 0
      BY <1>1, <1>2, Sizes DEF IndicesCount
    <2> HIDE DEF h, t
    <2>2. ((h % IDX) - (t % IDX)) % IDX = h - t
      BY <2>1, WrappedDifference
    <2> QED
      BY <2>2 DEF h, t
  <1> QED
    BY <1>3 DEF IndicesCount, Used

\* The loop finds the queue empty exactly when every event is drained.
LEMMA NotEmptyIsOutstanding ==
  ASSUME QueueTypeOK, IndicesCount
  PROVE  NotEmpty <=> Len(logged) < Len(accepted)
  <1>1. Len(accepted) \in Nat /\ Len(logged) \in Nat
    BY LenProperties DEF QueueTypeOK
  <1>2. CASE Len(logged) < Len(accepted)
    <2>1. Used > 0
      BY <1>1, <1>2, UsedIsOutstanding
    <2>2. rf_evt_head = rf_evt_tail => Used = 0
      <3>1. 0 % IDX = 0
        BY Sizes
      <3> QED
        BY <3>1 DEF Used, QueueTypeOK
    <2> QED
      BY <2>1, <2>2, <1>2 DEF NotEmpty
  <1>3. CASE ~ (Len(logged) < Len(accepted))
    BY <1>1, <1>3 DEF IndicesCount, NotEmpty
  <1> QED
    BY <1>2, <1>3

\* The empty ring with both indices at 0 satisfies the invariant.
LEMMA QueueInitIInv == QueueInit => QueueIInv
  <1> SUFFICES ASSUME QueueInit PROVE QueueIInv
    OBVIOUS
  <1>1. QueueTypeOK
    BY Sizes, EmptySeq DEF QueueInit, QueueTypeOK
  <1>2. QueueInv
    <2>1. 0 % IDX = 0
      BY Sizes
    <2> QED
      BY <2>1, Sizes DEF QueueInit, QueueInv, IndicesCount, SlotsIntact, CopyIntact
  <1> QED
    BY <1>1, <1>2 DEF QueueIInv

\* A push keeps the invariant: it stores at the first free slot, or the queue
\* is full and nothing but the loss counter changes.
LEMMA PushKeepsIInv ==
  ASSUME QueueIInv, NEW e \in PuffEvent, RF_QueuePush(e)
  PROVE  QueueIInv'
  <1> USE DEF QueueIInv
  <1> DEFINE h == Len(accepted)
             t == Len(logged)
  <1>0. h \in Nat /\ t \in Nat /\ accepted \in Seq(PuffEvent) /\ logged \in Seq(PuffEvent)
    BY LenProperties DEF QueueTypeOK
  <1>1. CASE Full
    BY <1>1 DEF RF_QueuePush, QueueTypeOK, QueueInv, IndicesCount, SlotsIntact,
                CopyIntact, loopVars
  <1>2. CASE ~ Full
    <2>1. /\ rf_evt_queue' = [rf_evt_queue EXCEPT ![rf_evt_head % QLEN] = e]
          /\ rf_evt_head' = NextIndex(rf_evt_head)
          /\ accepted' = Append(accepted, e)
          /\ UNCHANGED <<rf_evt_dropped, rf_evt_tail, at, ev, logged, dropped_reported>>
      BY <1>2 DEF RF_QueuePush, loopVars
    <2>2. h - t < QLEN
      BY <1>2, <1>0, UsedIsOutstanding, Sizes DEF Full, QueueInv
    <2>3. /\ accepted' \in Seq(PuffEvent) /\ Len(accepted') = h + 1
          /\ \A i \in 1 .. h : accepted'[i] = accepted[i]
          /\ accepted'[h + 1] = e
      BY <1>0, <2>1, AppendProperties
    <2>4. rf_evt_head' = (h + 1) % IDX
      BY <1>0, <2>1, NextIndexCounts DEF QueueInv, IndicesCount
    <2>5. rf_evt_head % QLEN = h % QLEN /\ h % QLEN \in Slot
      BY <1>0, WrappedSlot, InRange DEF QueueInv, IndicesCount
    <2>6. QueueTypeOK'
      BY <1>0, <2>1, <2>3, <2>4, <2>5, InRange DEF QueueTypeOK
    <2>7. IndicesCount'
      BY <1>0, <2>1, <2>2, <2>3, <2>4, Sizes DEF QueueInv, IndicesCount
    <2>8. SlotsIntact'
      <3> SUFFICES ASSUME NEW i \in t + 1 .. h + 1
                   PROVE  rf_evt_queue'[(i - 1) % QLEN] = accepted'[i]
        BY <2>1, <2>3 DEF SlotsIntact
      <3>1. i - 1 \in Nat /\ (i - 1) % QLEN \in Slot
        BY <1>0, InRange
      <3>2. CASE i = h + 1
        BY <3>1, <3>2, <2>1, <2>3, <2>5, <1>0 DEF QueueTypeOK
      <3>3. CASE i # h + 1
        <4>1. i \in t + 1 .. h /\ i \in 1 .. h
          BY <1>0, <3>3
        <4>2. (i - 1) % QLEN # h % QLEN
          BY <1>0, <3>1, <4>1, <2>2, SlotsDiffer, Sizes
        <4>3. rf_evt_queue'[(i - 1) % QLEN] = rf_evt_queue[(i - 1) % QLEN]
          BY <4>2, <3>1, <2>1, <2>5 DEF QueueTypeOK
        <4> QED
          BY <4>1, <4>3, <2>3 DEF QueueInv, SlotsIntact
      <3> QED
        BY <3>2, <3>3
    <2>9. CopyIntact'
      <3>1. at # "test" => t < h
        BY DEF QueueInv, CopyIntact
      <3>2. t < h => t + 1 \in 1 .. h
        BY <1>0
      <3> QED
        BY <1>0, <2>1, <2>3, <3>1, <3>2 DEF QueueInv, CopyIntact
    <2> QED
      BY <2>6, <2>7, <2>8, <2>9 DEF QueueInv
  <1> QED
    BY <1>1, <1>2

\* The main loop keeps the invariant: the copy is the oldest event, and the
\* release frees its slot and no other.
LEMMA LoopKeepsIInv ==
  ASSUME QueueIInv, PuffLogService
  PROVE  QueueIInv'
  <1> USE DEF QueueIInv
  <1> DEFINE h == Len(accepted)
             t == Len(logged)
  <1>0. h \in Nat /\ t \in Nat /\ accepted \in Seq(PuffEvent) /\ logged \in Seq(PuffEvent)
    BY LenProperties DEF QueueTypeOK
  <1>1. CASE TestHead
    <2>1. t < h
      BY <1>1, NotEmptyIsOutstanding DEF TestHead, QueueInv
    <2> QED
      BY <1>1, <2>1 DEF TestHead, QueueTypeOK, QueueInv, IndicesCount, SlotsIntact,
                        CopyIntact, ringVars
  <1>2. CASE CopySlot
    <2>1. t < h
      BY <1>2 DEF CopySlot, QueueInv, CopyIntact
    <2>2. rf_evt_tail % QLEN = t % QLEN /\ t % QLEN \in Slot
      BY <1>0, WrappedSlot, InRange DEF QueueInv, IndicesCount
    <2>3. ev' = accepted[t + 1]
      <3>1. t + 1 \in t + 1 .. h /\ (t + 1) - 1 = t
        BY <1>0, <2>1
      <3> QED
        BY <1>2, <2>2, <3>1 DEF CopySlot, QueueInv, SlotsIntact
    <2>4. ev' \in PuffEvent
      BY <1>0, <2>1, <2>3, ElementOfSeq
    <2> QED
      BY <1>2, <2>1, <2>3, <2>4 DEF CopySlot, QueueTypeOK, QueueInv, IndicesCount,
                                    SlotsIntact, CopyIntact, ringVars
  <1>3. CASE ReleaseSlot
    <2>1. t < h /\ ev = accepted[t + 1]
      BY <1>3 DEF ReleaseSlot, QueueInv, CopyIntact
    <2>2. ev \in PuffEvent
      BY <1>0, <2>1, ElementOfSeq
    <2>3. logged' \in Seq(PuffEvent) /\ Len(logged') = t + 1
      BY <1>0, <1>3, <2>2, AppendProperties DEF ReleaseSlot
    <2>4. rf_evt_tail' = (t + 1) % IDX
      BY <1>0, <1>3, NextIndexCounts DEF ReleaseSlot, QueueInv, IndicesCount
    <2>5. QueueTypeOK'
      BY <1>0, <1>3, <2>2, <2>3, <2>4, InRange DEF ReleaseSlot, QueueTypeOK, ringVars
    <2>6. IndicesCount'
      BY <1>0, <1>3, <2>1, <2>3, <2>4, Sizes
         DEF ReleaseSlot, QueueInv, IndicesCount, ringVars
    <2>7. SlotsIntact' /\ CopyIntact'
      BY <1>0, <1>3, <2>3 DEF ReleaseSlot, QueueInv, SlotsIntact, CopyIntact, ringVars
    <2> QED
      BY <2>5, <2>6, <2>7 DEF QueueInv
  <1>4. CASE ReportDropped
    BY <1>4 DEF ReportDropped, QueueTypeOK, QueueInv, IndicesCount, SlotsIntact,
                CopyIntact, ringVars
  <1> QED
    BY <1>1, <1>2, <1>3, <1>4 DEF PuffLogService

\* Every step of the interrupt and of the main loop keeps the invariant.
LEMMA QueueStepIInv == QueueIInv /\ [QueueNext]_queueVars => QueueIInv'
  <1> SUFFICES ASSUME QueueIInv, [QueueNext]_queueVars PROVE QueueIInv'
    OBVIOUS
  <1>1. ASSUME NEW e \in PuffEvent, RF_QueuePush(e) PROVE QueueIInv'
    BY <1>1, PushKeepsIInv
  <1>2. CASE PuffLogService
    BY <1>2, LoopKeepsIInv
  <1>3. CASE UNCHANGED queueVars
    BY <1>3 DEF QueueIInv, QueueTypeOK, QueueInv, IndicesCount, SlotsIntact,
                CopyIntact, queueVars
  <1> QED
    BY <1>1, <1>2, <1>3 DEF QueueNext

\* The ring keeps its types: both indices stay inside the modulus.
THEOREM QueueTypeCorrect == QueueSpec => []QueueTypeOK
  <1>1. QueueIInv => QueueTypeOK
    BY DEF QueueIInv
  <1> QED
    BY <1>1, QueueInitIInv, QueueStepIInv, PTL DEF QueueSpec

\* The queue between the TIM2 interrupt and the main loop needs no lock: no
\* waiting event is overwritten, and no copy of the loop is torn.
THEOREM QueueCorrect == QueueSpec => []QueueInv
  <1>1. QueueIInv => QueueInv
    BY DEF QueueIInv
  <1> QED
    BY <1>1, QueueInitIInv, QueueStepIInv, PTL DEF QueueSpec

-----------------------------------------------------------------------------
(* The event queue: the ring implements the lossy FIFO.                    *)

\* The empty ring is the empty channel.
LEMMA InitIsChannelInit == QueueInit => Channel!ChannelInit
  BY DEF QueueInit, Channel!ChannelInit

\* Under the invariant a push accepts or loses an event, the release delivers the
\* oldest one, and every other step of the ring is a stutter of the channel.
LEMMA StepIsChannelStep ==
  QueueIInv /\ [QueueNext]_queueVars => [Channel!ChannelNext]_(Channel!chanVars)
  <1> SUFFICES ASSUME QueueIInv, [QueueNext]_queueVars
               PROVE  [Channel!ChannelNext]_(Channel!chanVars)
    OBVIOUS
  <1> USE DEF QueueIInv, Channel!chanVars
  <1>0. Len(accepted) \in Nat /\ Len(logged) \in Nat
    BY LenProperties DEF QueueTypeOK
  <1>u. Used = Channel!Outstanding
    BY UsedIsOutstanding DEF Channel!Outstanding, QueueInv
  <1>1. ASSUME NEW e \in PuffEvent, RF_QueuePush(e)
        PROVE  Channel!Accept \/ Channel!Lose
    <2>1. CASE Full
      <3>1. Channel!Outstanding = QLEN
        BY <2>1, <1>0, <1>u, Sizes DEF Full, Channel!Outstanding, QueueInv, IndicesCount
      <3> QED
        BY <1>1, <2>1, <3>1 DEF RF_QueuePush, Channel!Lose, loopVars
    <2>2. CASE ~ Full
      <3>1. Channel!Outstanding < QLEN
        BY <2>2, <1>0, <1>u, Sizes DEF Full, Channel!Outstanding
      <3>2. accepted' = Append(accepted, e) /\ UNCHANGED <<logged, rf_evt_dropped>>
        BY <1>1, <2>2 DEF RF_QueuePush, loopVars
      <3>3. Len(accepted') = Len(accepted) + 1 /\ accepted'[Len(accepted) + 1] = e
        BY <3>2, AppendProperties DEF QueueTypeOK
      <3>4. accepted'[Len(accepted')] = e
        BY <3>3
      <3> QED
        BY <1>1, <3>1, <3>2, <3>3, <3>4 DEF Channel!Accept
    <2> QED
      BY <2>1, <2>2
  <1>2. CASE ReleaseSlot
    <2>1. Len(logged) < Len(accepted) /\ ev = accepted[Len(logged) + 1]
      BY <1>2 DEF ReleaseSlot, QueueInv, CopyIntact
    <2> QED
      BY <1>2, <2>1 DEF ReleaseSlot, Channel!ChannelNext, Channel!Deliver, ringVars
  <1>3. CASE TestHead \/ CopySlot \/ ReportDropped
    BY <1>3 DEF TestHead, CopySlot, ReportDropped, ringVars
  <1>4. CASE UNCHANGED queueVars
    BY <1>4 DEF queueVars
  <1> QED
    BY <1>1, <1>2, <1>3, <1>4 DEF QueueNext, PuffLogService, Channel!ChannelNext

\* RF_QueuePush and PuffLogService implement the bounded lossy FIFO of
\* PuffChannel, whatever the interleaving of interrupt and loop.
THEOREM QueueImplementsChannel == QueueSpec => ImplementsChannel
  BY QueueInitIInv, QueueStepIInv, InitIsChannelInit, StepIsChannelStep, PTL
     DEF QueueSpec, ImplementsChannel, Channel!ChannelSpec

-----------------------------------------------------------------------------
(* Puff detection: types and the queue in its place.                       *)

\* The number of bursts the signal has shown.
B == Len(bursts)

\* What is not in the queue's own types: the timer and the handler, the state of
\* the puff, and the rows and histories.
TimerTypeOK ==
  /\ cnt \in 0 .. TIMEOUT /\ ccr1 \in 0 .. TIMEOUT /\ period \in 0 .. TIMEOUT
  /\ cc1if \in BOOLEAN /\ cc1of \in BOOLEAN /\ cc3if \in BOOLEAN /\ cc3ie \in BOOLEAN
  /\ isr \in {"idle", "clear1", "read", "check", "start", "flag", "clear3", "compare"}
  /\ cc3_sampled \in BOOLEAN /\ first_edge \in BOOLEAN /\ wait \in 0 .. LATENCY
StateTypeOK ==
  /\ puff_active \in BOOLEAN /\ started \in Nat
  /\ current_puff_id \in Nat /\ rf_puff_id \in Nat /\ rf_dur_ticks \in Nat
  /\ rf_overcapture \in Nat /\ rf_edge_count \in Nat
  /\ rf_puff_start_edges \in 0 .. rf_edge_count
Row == [puff_id : Nat, puff_active : BOOLEAN, current : Nat]
RowsTypeOK ==
  /\ row_id \in Nat \cup {NoRow} /\ rows \in Seq(Row)
  /\ edges \in Nat /\ restarts \in Nat
BurstsTypeOK == bursts \in Seq(Burst)
PuffTypeOK == TimerTypeOK /\ StateTypeOK /\ RowsTypeOK /\ BurstsTypeOK

\* What is still to be added when p holds.
Owed(p, x) == IF p THEN x ELSE 0

\* The latencies leave room below the timeout.
LEMMA Ticks == /\ TIMEOUT \in Nat /\ LATENCY \in Nat /\ 3 * LATENCY < TIMEOUT
               /\ TIMEOUT > 0
  BY PuffConstants

\* An edge that comes once the timeout has passed opens a burst of its own.
LEMMA EdgeOpensBurst ==
  ASSUME PuffTypeOK, Edge, cnt = TIMEOUT
  PROVE  /\ bursts' \in Seq(Burst) /\ B \in Nat /\ B' = B + 1
         /\ \A i \in 1 .. B : bursts'[i] = bursts[i]
         /\ bursts'[B + 1] = [span |-> 0, edges |-> 1, lost |-> Owed(CaptureLost, 1)]
  <1>1. bursts \in Seq(Burst) /\ B \in Nat
    BY LenProperties DEF PuffTypeOK, BurstsTypeOK, B
  <1>2. bursts' = Append(bursts, [span |-> 0, edges |-> 1, lost |-> Owed(CaptureLost, 1)])
    BY Ticks DEF Edge, Owed
  <1>3. [span |-> 0, edges |-> 1, lost |-> Owed(CaptureLost, 1)] \in Burst
    BY DEF Burst, Owed
  <1> QED
    BY <1>1, <1>2, <1>3, AppendProperties DEF B

\* Any other edge adds its period to the last burst.
LEMMA EdgeAddsToBurst ==
  ASSUME PuffTypeOK, Edge, cnt < TIMEOUT, B > 0
  PROVE  /\ bursts' \in Seq(Burst) /\ B \in Nat /\ B' = B
         /\ \A i \in 1 .. B - 1 : bursts'[i] = bursts[i]
         /\ bursts'[B] = [span |-> bursts[B].span + cnt, edges |-> bursts[B].edges + 1,
                          lost |-> bursts[B].lost + Owed(CaptureLost, 1)]
  <1>1. bursts \in Seq(Burst) /\ B \in Nat /\ B \in 1 .. B
    BY LenProperties DEF PuffTypeOK, BurstsTypeOK, B
  <1> DEFINE lost == Owed(CaptureLost, 1)
             more == [span |-> bursts[B].span + cnt, edges |-> bursts[B].edges + 1,
                      lost |-> bursts[B].lost + lost]
  <1>2. bursts' = [bursts EXCEPT ![B] = more]
    BY Ticks DEF Edge, Owed, B, PuffTypeOK, TimerTypeOK
  <1>3. bursts[B].span \in Nat /\ bursts[B].edges \in Nat /\ bursts[B].lost \in Nat
    <2>1. bursts[B] \in Burst
      BY <1>1, ElementOfSeq DEF B
    <2> QED
      BY <2>1 DEF Burst
  <1>4. cnt \in Nat /\ lost \in Nat
    BY Ticks DEF Owed, PuffTypeOK, TimerTypeOK
  <1> HIDE DEF lost
  <1>5. more \in Burst
    BY <1>3, <1>4 DEF Burst
  <1> HIDE DEF more
  <1>6. bursts' \in Seq(Burst) /\ Len(bursts') = B
    BY <1>1, <1>2, <1>5 DEF B
  <1>7. bursts'[B] = more /\ \A i \in 1 .. B - 1 : bursts'[i] = bursts[i]
    BY <1>1, <1>2 DEF B
  <1> QED
    BY <1>1, <1>6, <1>7 DEF B, more, lost

\* The types are those of the puff with those of the queue.
LEMMA TypeParts == TypeOK <=> PuffTypeOK /\ QueueTypeOK
  BY DEF TypeOK, PuffTypeOK, TimerTypeOK, StateTypeOK, Row, RowsTypeOK, BurstsTypeOK

\* The edges of a puff are those counted since its start.
LEMMA CountFrom ==
  ASSUME NEW n \in Nat, NEW first \in 0 .. n
  PROVE  n - first \in Nat
  OBVIOUS

\* The event of a puff is one the queue can hold.
LEMMA SnapshotType ==
  ASSUME StateTypeOK, NEW type \in {"START", "END"}
  PROVE  Snapshot(type) \in PuffEvent
  <1>1. rf_edge_count - rf_puff_start_edges \in Nat
    BY CountFrom DEF StateTypeOK
  <1> QED
    BY <1>1 DEF Snapshot, PuffEvent, StateTypeOK

-----------------------------------------------------------------------------
(* Puff detection: every step keeps the types.                             *)

\* The timer and the handler.
LEMMA StepTimerTypes ==
  ASSUME TimerTypeOK, [Next]_vars
  PROVE  TimerTypeOK'
  <1> USE Ticks DEF TimerTypeOK, tim2, handler
  <1>1. CASE Edge
    BY <1>1 DEF Edge
  <1>2. CASE Tick
    BY <1>2 DEF Tick
  <1>3. CASE EnterHandler
    BY <1>3 DEF EnterHandler
  <1>4. CASE ClearCC1
    BY <1>4 DEF ClearCC1
  <1>5. CASE ReadCapture
    BY <1>5 DEF ReadCapture
  <1>6. CASE CaptureEndsPuff
    BY <1>6 DEF CaptureEndsPuff, RF_PuffEnd
  <1>7. CASE CaptureStartsPuff
    BY <1>7 DEF CaptureStartsPuff, RF_PuffStart, ArmCompare
  <1>8. CASE CaptureAddsPeriod
    BY <1>8 DEF CaptureAddsPeriod
  <1>9. CASE CountEdge
    <2>1. wait' \in {0, wait} /\ isr' \in {"idle", "clear3"} /\ cc1of' = FALSE
      BY <1>9 DEF CountEdge
    <2>2. UNCHANGED <<cnt, ccr1, cc1if, cc3if, cc3ie, cc3_sampled, period, first_edge>>
      BY <1>9 DEF CountEdge
    <2>3. wait' \in 0 .. LATENCY
      BY <2>1
    <2>4. isr' \in {"idle", "clear1", "read", "check", "start", "flag", "clear3", "compare"}
      BY <2>1
    <2> HIDE Ticks
    <2> QED
      BY <2>1, <2>2, <2>3, <2>4
  <1>10. CASE ClearCC3
    BY <1>10 DEF ClearCC3
  <1>11. CASE CompareEndsPuff
    <2>1. wait' = 0 /\ isr' = "idle" /\ cc3ie' = FALSE /\ cc3if' = FALSE
      BY <1>11 DEF CompareEndsPuff, RF_PuffEnd
    <2>2. UNCHANGED <<cnt, ccr1, cc1if, cc1of, cc3_sampled, period, first_edge>>
      BY <1>11 DEF CompareEndsPuff, RF_PuffEnd
    <2>3. wait' \in 0 .. LATENCY
      BY <2>1
    <2>4. isr' \in {"idle", "clear1", "read", "check", "start", "flag", "clear3", "compare"}
      BY <2>1
    <2> HIDE Ticks
    <2> QED
      BY <2>1, <2>2, <2>3, <2>4
  <1>12. CASE CompareSkips
    BY <1>12 DEF CompareSkips
  <1>13. CASE LogPuffs \/ StartRun \/ ReadRowId \/ ReadRowActive
    BY <1>13 DEF LogPuffs, StartRun, ReadRowId, ReadRowActive
  <1>14. CASE UNCHANGED vars
    BY <1>14 DEF vars
  <1> QED
    BY <1>1, <1>2, <1>3, <1>4, <1>5, <1>6, <1>7, <1>8, <1>9, <1>10, <1>11, <1>12,
       <1>13, <1>14 DEF Next, HandlerStep, LoopStep

\* The state of the puff, which only the callbacks and SDLog_Start change.
LEMMA StepStateTypes ==
  ASSUME TimerTypeOK, StateTypeOK, [Next]_vars
  PROVE  StateTypeOK'
  <1> USE DEF StateTypeOK, puff
  <1>1. CASE CaptureEndsPuff \/ CompareEndsPuff
    BY <1>1 DEF CaptureEndsPuff, CompareEndsPuff, RF_PuffEnd
  <1>2. CASE CaptureStartsPuff
    BY <1>2 DEF CaptureStartsPuff, RF_PuffStart, ResetStats
  <1>3. CASE CaptureAddsPeriod
    BY <1>3, Ticks DEF CaptureAddsPeriod, TimerTypeOK
  <1>4. CASE CountEdge
    BY <1>4 DEF CountEdge
  <1>5. CASE StartRun
    BY <1>5 DEF StartRun, RestartNumbers
  <1>6. CASE \/ Edge \/ Tick \/ EnterHandler \/ ClearCC1 \/ ReadCapture \/ ClearCC3
             \/ CompareSkips \/ LogPuffs \/ ReadRowId \/ ReadRowActive
    BY <1>6 DEF Edge, Tick, EnterHandler, ClearCC1, ReadCapture, ClearCC3, CompareSkips,
                LogPuffs, ReadRowId, ReadRowActive
  <1>7. CASE UNCHANGED vars
    BY <1>7 DEF vars
  <1> QED
    BY <1>1, <1>2, <1>3, <1>4, <1>5, <1>6, <1>7 DEF Next, HandlerStep, LoopStep

\* The rows of the run log.
LEMMA StepRowsTypes ==
  ASSUME StateTypeOK, RowsTypeOK, [Next]_vars
  PROVE  RowsTypeOK'
  <1> USE DEF RowsTypeOK, mag, world
  <1>1. CASE ReadRowActive
    <2>1. row_id \in Nat
      BY <1>1 DEF ReadRowActive
    <2>2. [puff_id |-> row_id, puff_active |-> puff_active, current |-> rf_puff_id] \in Row
      BY <2>1 DEF Row, StateTypeOK
    <2>3. rows' \in Seq(Row)
      BY <1>1, <2>2, AppendProperties DEF ReadRowActive
    <2> QED
      BY <1>1, <2>3 DEF ReadRowActive
  <1>2. CASE ReadRowId
    BY <1>2 DEF ReadRowId, StateTypeOK
  <1>3. CASE StartRun \/ Edge
    BY <1>3 DEF StartRun, Edge
  <1>4. CASE Tick \/ HandlerStep \/ LogPuffs
    BY <1>4 DEF Tick, HandlerStep, LogPuffs, EnterHandler, ClearCC1, ReadCapture,
                CaptureEndsPuff, CaptureStartsPuff, CaptureAddsPeriod, CountEdge, ClearCC3,
                CompareEndsPuff, CompareSkips
  <1>5. CASE UNCHANGED vars
    BY <1>5 DEF vars
  <1> QED
    BY <1>1, <1>2, <1>3, <1>4, <1>5 DEF Next, LoopStep

\* The bursts of the signal, which only edges change.
LEMMA StepBurstsTypes ==
  ASSUME PuffTypeOK, [Next]_vars
  PROVE  BurstsTypeOK' /\ (~ Edge => bursts' = bursts)
  <1>0. bursts \in Seq(Burst)
    BY DEF PuffTypeOK, BurstsTypeOK
  <1>1. CASE Edge
    <2>1. CASE cnt = TIMEOUT
      BY <1>1, <2>1, EdgeOpensBurst DEF BurstsTypeOK
    <2>2. CASE cnt < TIMEOUT /\ B > 0
      BY <1>1, <2>2, EdgeAddsToBurst DEF BurstsTypeOK
    <2>3. CASE cnt < TIMEOUT /\ B = 0
      <3>1. bursts = << >> /\ bursts' = bursts
        BY <1>0, <1>1, <2>3, EmptySeq, Ticks DEF Edge, B, PuffTypeOK, TimerTypeOK
      <3> QED
        BY <1>0, <1>1, <3>1 DEF BurstsTypeOK
    <2>4. B \in Nat /\ cnt \in 0 .. TIMEOUT
      BY <1>0, LenProperties DEF B, PuffTypeOK, TimerTypeOK
    <2> QED
      BY <1>1, <2>1, <2>2, <2>3, <2>4, Ticks
  <1>2. CASE Tick \/ HandlerStep \/ LoopStep
    BY <1>0, <1>2
       DEF Tick, HandlerStep, LoopStep, EnterHandler, ClearCC1, ReadCapture,
           CaptureEndsPuff, CaptureStartsPuff, CaptureAddsPeriod, CountEdge, ClearCC3,
           CompareEndsPuff, CompareSkips, LogPuffs, StartRun, ReadRowId, ReadRowActive,
           world, BurstsTypeOK
  <1>3. CASE UNCHANGED vars
    BY <1>0, <1>3 DEF vars, world, BurstsTypeOK
  <1> QED
    BY <1>1, <1>2, <1>3 DEF Next

\* All of them.
LEMMA StepPuffTypes ==
  ASSUME PuffTypeOK, [Next]_vars
  PROVE  PuffTypeOK'
  BY StepTimerTypes, StepStateTypes, StepRowsTypes, StepBurstsTypes DEF PuffTypeOK

\* To the queue, every step is a push of the interrupt, a step of the loop's
\* PuffLogService or nothing.
LEMMA StepIsQueueStep ==
  ASSUME TimerTypeOK, StateTypeOK, [Next]_vars
  PROVE  [QueueNext]_queueVars
  <1> USE DEF queue
  <1>1. CASE CaptureEndsPuff \/ CompareEndsPuff
    BY <1>1, SnapshotType DEF CaptureEndsPuff, CompareEndsPuff, RF_PuffEnd, QueueNext
  <1>2. CASE CaptureStartsPuff
    <2>1. StateTypeOK'
      BY StepStateTypes
    <2>2. rf_edge_count' - rf_puff_start_edges' \in Nat
      BY <2>1, CountFrom DEF StateTypeOK
    <2>3. Snapshot("START")' \in PuffEvent
      BY <2>1, <2>2 DEF Snapshot, PuffEvent, StateTypeOK
    <2> QED
      BY <1>2, <2>3 DEF CaptureStartsPuff, RF_PuffStart, QueueNext
  <1>3. CASE LogPuffs
    BY <1>3 DEF LogPuffs, QueueNext
  <1>4. CASE \/ Edge \/ Tick \/ EnterHandler \/ ClearCC1 \/ ReadCapture
             \/ CaptureAddsPeriod \/ CountEdge \/ ClearCC3 \/ CompareSkips
             \/ StartRun \/ ReadRowId \/ ReadRowActive
    BY <1>4 DEF Edge, Tick, EnterHandler, ClearCC1, ReadCapture, CaptureAddsPeriod,
                CountEdge, ClearCC3, CompareSkips, StartRun, ReadRowId, ReadRowActive,
                queueVars
  <1>5. CASE UNCHANGED vars
    BY <1>5 DEF vars, queueVars
  <1> QED
    BY <1>1, <1>2, <1>3, <1>4, <1>5 DEF Next, HandlerStep, LoopStep

-----------------------------------------------------------------------------
(* Puff detection: an edge is served well before the timeout, and the end  *)
(* of a puff is still to come.                                             *)

\* The counter restarts at an edge, so while an edge waits or is being served it
\* counts that wait: at most the run of the handler before, the edge's own entry and
\* the run that serves it.
Latency ==
  /\ isr = "idle" /\ cc1if => cnt <= LATENCY + wait
  /\ isr = "clear1" => cc1if /\ cnt <= 2 * LATENCY + wait
  /\ isr \in {"read", "check", "start", "flag"} => cnt <= 2 * LATENCY + wait
  /\ isr \notin {"idle", "clear1"} /\ cc1if => cnt <= wait

\* The compare interrupt is on during a puff, and its match ahead or flagged, save
\* while the callback that has just taken the flag decides.
Armed ==
  /\ cc3ie = puff_active
  /\ puff_active /\ isr # "compare" => cnt < TIMEOUT \/ cc3if
  /\ isr = "start" => ~ puff_active
  /\ isr = "flag" => puff_active

\* So an edge is served before the timeout can pass.
LEMMA ServedInTime ==
  ASSUME TimerTypeOK, Latency, \/ cc1if
                               \/ isr \in {"clear1", "read", "check", "start", "flag"}
  PROVE  cnt < TIMEOUT
  <1>1. /\ cnt \in Nat /\ wait \in Nat /\ wait <= LATENCY
        /\ LATENCY \in Nat /\ TIMEOUT \in Nat /\ 3 * LATENCY < TIMEOUT
    BY Ticks DEF TimerTypeOK
  <1>2. cnt <= 2 * LATENCY + wait
    BY <1>1 DEF Latency
  <1> QED
    BY <1>1, <1>2

\* Every step keeps the bound.
LEMMA StepLatency ==
  ASSUME TimerTypeOK, Latency, [Next]_vars
  PROVE  Latency'
  <1> USE DEF tim2, handler
  <1>0. /\ cnt \in Nat /\ wait \in Nat /\ wait <= LATENCY
        /\ LATENCY \in Nat /\ TIMEOUT \in Nat
    BY Ticks DEF TimerTypeOK
  <1>1. CASE Edge
    BY <1>0, <1>1 DEF Edge, Latency
  <1>2. CASE Tick
    <2>1. CASE Pending \/ isr # "idle"
      BY <1>0, <1>2, <2>1 DEF Tick, Latency
    <2>2. CASE ~ (Pending \/ isr # "idle")
      BY <1>0, <1>2, <2>2 DEF Tick, Latency, Pending
    <2> QED
      BY <2>1, <2>2
  <1>3. CASE EnterHandler
    BY <1>0, <1>3 DEF EnterHandler, Latency
  <1>4. CASE ClearCC1
    BY <1>0, <1>4 DEF ClearCC1, Latency
  <1>5. CASE ReadCapture
    BY <1>0, <1>5 DEF ReadCapture, Latency
  <1>6. CASE CaptureEndsPuff
    BY <1>0, <1>6 DEF CaptureEndsPuff, RF_PuffEnd, Latency
  <1>7. CASE CaptureStartsPuff
    BY <1>0, <1>7 DEF CaptureStartsPuff, RF_PuffStart, Latency
  <1>8. CASE CaptureAddsPeriod
    BY <1>0, <1>8 DEF CaptureAddsPeriod, Latency
  <1>9. CASE CountEdge
    BY <1>0, <1>9 DEF CountEdge, Latency
  <1>10. CASE ClearCC3
    BY <1>0, <1>10 DEF ClearCC3, Latency
  <1>11. CASE CompareEndsPuff
    BY <1>0, <1>11 DEF CompareEndsPuff, RF_PuffEnd, Latency
  <1>12. CASE CompareSkips
    BY <1>0, <1>12 DEF CompareSkips, Latency
  <1>13. CASE LogPuffs \/ StartRun \/ ReadRowId \/ ReadRowActive
    BY <1>13 DEF LogPuffs, StartRun, ReadRowId, ReadRowActive, Latency
  <1>14. CASE UNCHANGED vars
    BY <1>14 DEF vars, Latency
  <1> QED
    BY <1>1, <1>2, <1>3, <1>4, <1>5, <1>6, <1>7, <1>8, <1>9, <1>10, <1>11, <1>12,
       <1>13, <1>14 DEF Next, HandlerStep, LoopStep

\* Every step keeps the end of the puff coming: the flag is cleared only by the
\* compare callback's dispatch, by the end of the puff and by an edge that has just
\* restarted the counter.
LEMMA StepArmed ==
  ASSUME TimerTypeOK, StateTypeOK, Latency, Armed, [Next]_vars
  PROVE  Armed'
  <1> USE DEF tim2, handler, puff
  <1>0. cnt \in 0 .. TIMEOUT /\ TIMEOUT \in Nat /\ TIMEOUT > 0
        /\ puff_active \in BOOLEAN
    BY Ticks DEF TimerTypeOK, StateTypeOK
  <1>1. CASE Edge
    BY <1>0, <1>1 DEF Edge, Armed
  <1>2. CASE Tick
    BY <1>0, <1>2 DEF Tick, Armed
  <1>3. CASE EnterHandler \/ ClearCC1 \/ ReadCapture \/ ClearCC3
    BY <1>3 DEF EnterHandler, ClearCC1, ReadCapture, ClearCC3, Armed
  <1>4. CASE CaptureEndsPuff \/ CompareEndsPuff
    BY <1>4 DEF CaptureEndsPuff, CompareEndsPuff, RF_PuffEnd, Armed
  <1>5. CASE CaptureStartsPuff
    <2>1. cnt < TIMEOUT
      BY <1>5, ServedInTime DEF CaptureStartsPuff
    <2> QED
      BY <1>0, <1>5, <2>1 DEF CaptureStartsPuff, RF_PuffStart, ArmCompare, Armed
  <1>6. CASE CaptureAddsPeriod
    <2>1. cnt < TIMEOUT
      BY <1>6, ServedInTime DEF CaptureAddsPeriod
    <2> QED
      BY <1>0, <1>6, <2>1 DEF CaptureAddsPeriod, Armed
  <1>7. CASE CountEdge
    BY <1>0, <1>7 DEF CountEdge, Armed
  <1>8. CASE CompareSkips
    BY <1>0, <1>8 DEF CompareSkips, GenuineTimeout, Armed
  <1>9. CASE LogPuffs \/ StartRun \/ ReadRowId \/ ReadRowActive
    BY <1>9 DEF LogPuffs, StartRun, ReadRowId, ReadRowActive, Armed
  <1>10. CASE UNCHANGED vars
    BY <1>10 DEF vars, Armed
  <1> QED
    BY <1>1, <1>2, <1>3, <1>4, <1>5, <1>6, <1>7, <1>8, <1>9, <1>10
       DEF Next, HandlerStep, LoopStep

-----------------------------------------------------------------------------
(* Puff detection: no burst is split.                                      *)

\* An edge has come whose capture callback has not yet dealt with it.
Unserved == cc1if \/ isr \in {"clear1", "read", "check", "start"}

\* Every puff has a burst of its own.  Between puffs either an edge waits that opens
\* a burst without one, or the signal is silent; in a puff a flagged match and a
\* period as long as the timeout tell the end of its burst.
BurstsStarted ==
  /\ started <= B
  /\ puff_active => started > 0
  /\ Unserved /\ ~ puff_active => started < B
  /\ ~ Unserved /\ ~ puff_active => cnt = TIMEOUT
  /\ puff_active /\ cc3if => cnt = TIMEOUT \/ started < B
  /\ puff_active /\ (cc1if \/ isr = "read") /\ ccr1 = TIMEOUT => started < B
  /\ puff_active /\ isr = "check" /\ period = TIMEOUT => started < B
  /\ isr \in {"read", "check", "start", "flag"} /\ cc1if => ccr1 < TIMEOUT
  /\ cnt < TIMEOUT => B > 0

\* Every step keeps it.
LEMMA StepBurstsStarted ==
  ASSUME PuffTypeOK, Latency, Armed, BurstsStarted, [Next]_vars
  PROVE  BurstsStarted'
  <1> USE DEF tim2, handler, puff
  <1>0. /\ cnt \in 0 .. TIMEOUT /\ TIMEOUT \in Nat /\ TIMEOUT > 0
        /\ ccr1 \in 0 .. TIMEOUT /\ period \in 0 .. TIMEOUT
        /\ puff_active \in BOOLEAN /\ started \in Nat /\ B \in Nat
    BY Ticks, LenProperties
       DEF PuffTypeOK, TimerTypeOK, StateTypeOK, BurstsTypeOK, B
  <1>s. Unserved => cnt < TIMEOUT
    BY ServedInTime DEF Unserved, PuffTypeOK
  <1>f. isr = "flag" => cnt < TIMEOUT
    BY ServedInTime DEF PuffTypeOK
  <1>b. ~ Edge => B' = B
    BY StepBurstsTypes DEF B
  <1>1. CASE Edge
    <2>0. UNCHANGED <<isr, puff_active, started, cc3if, period>>
      BY <1>1 DEF Edge
    <2>1. cc1if' = TRUE /\ cnt' = 0 /\ ccr1' = cnt
      BY <1>1 DEF Edge
    <2>2. CASE cnt = TIMEOUT
      <3>1. B' = B + 1
        BY <1>1, <2>2, EdgeOpensBurst DEF PuffTypeOK
      <3> QED
        BY <1>0, <1>s, <1>f, <2>0, <2>1, <2>2, <3>1 DEF BurstsStarted, Unserved
    <2>3. CASE cnt < TIMEOUT
      <3>1. B' = B
        BY <1>1, <2>3, EdgeAddsToBurst DEF PuffTypeOK, BurstsStarted
      <3> QED
        BY <1>0, <2>0, <2>1, <2>3, <3>1 DEF BurstsStarted, Unserved
    <2> QED
      BY <1>0, <2>2, <2>3
  <1>2. CASE Tick
    <2>1. /\ cnt < TIMEOUT /\ cnt' = cnt + 1 /\ (cc3if' => cc3if \/ cnt' = TIMEOUT)
          /\ UNCHANGED <<isr, puff_active, started, cc1if, ccr1, period>>
      BY <1>2 DEF Tick
    <2>2. B' = B
      BY <1>0, <1>b, <2>1 DEF Edge
    <2> QED
      BY <1>0, <2>1, <2>2 DEF BurstsStarted, Unserved
  <1>3. CASE EnterHandler
    BY <1>0, <1>b, <1>3 DEF EnterHandler, Edge, BurstsStarted, Unserved
  <1>4. CASE ClearCC1
    BY <1>0, <1>b, <1>4 DEF ClearCC1, Edge, BurstsStarted, Unserved, Latency
  <1>5. CASE ReadCapture
    BY <1>0, <1>b, <1>5 DEF ReadCapture, Edge, BurstsStarted, Unserved
  <1>6. CASE CaptureEndsPuff
    <2>1. started < B
      BY <1>0, <1>s, <1>6 DEF CaptureEndsPuff, TimedOutBefore, BurstsStarted, Unserved
    <2>2. /\ isr = "check" /\ isr' = "start" /\ puff_active' = FALSE
          /\ UNCHANGED <<cnt, ccr1, cc1if, started, period>> /\ cc3if' = FALSE
      BY <1>6 DEF CaptureEndsPuff, RF_PuffEnd
    <2>3. B' = B
      BY <1>b, <2>2 DEF Edge
    <2> QED
      BY <1>0, <2>1, <2>2, <2>3 DEF BurstsStarted, Unserved
  <1>7. CASE CaptureStartsPuff
    <2>1. started < B
      BY <1>7 DEF CaptureStartsPuff, BurstsStarted, Unserved
    <2>2. /\ isr \in {"check", "start"} /\ isr' = "flag" /\ puff_active' = TRUE
          /\ UNCHANGED <<cnt, ccr1, cc1if, period>>
          /\ started' = started + 1 /\ cc3if' = FALSE
      BY <1>7 DEF CaptureStartsPuff, RF_PuffStart, ArmCompare
    <2>3. B' = B
      BY <1>b, <2>2 DEF Edge
    <2> QED
      BY <1>0, <2>1, <2>2, <2>3 DEF BurstsStarted, Unserved
  <1>8. CASE CaptureAddsPeriod
    BY <1>0, <1>b, <1>8 DEF CaptureAddsPeriod, Edge, BurstsStarted, Unserved
  <1>9. CASE CountEdge
    <2>1. /\ isr = "flag" /\ isr' \in {"idle", "clear3"} /\ puff_active
          /\ UNCHANGED <<cnt, ccr1, cc1if, cc3if, period, puff_active, started>>
      BY <1>9 DEF CountEdge, Armed
    <2>2. B' = B
      BY <1>b, <2>1 DEF Edge
    <2> QED
      BY <1>0, <2>1, <2>2 DEF BurstsStarted, Unserved
  <1>10. CASE ClearCC3
    BY <1>0, <1>b, <1>10 DEF ClearCC3, Edge, BurstsStarted, Unserved
  <1>11. CASE CompareEndsPuff
    <2>1. cnt = TIMEOUT /\ ~ cc1if /\ puff_active
      BY <1>0, <1>s, <1>11 DEF CompareEndsPuff, GenuineTimeout, Unserved
    <2>2. /\ isr = "compare" /\ isr' = "idle" /\ puff_active' = FALSE
          /\ UNCHANGED <<cnt, ccr1, cc1if, started, period>> /\ cc3if' = FALSE
      BY <1>11 DEF CompareEndsPuff, RF_PuffEnd
    <2>3. B' = B
      BY <1>b, <2>2 DEF Edge
    <2> QED
      BY <1>0, <2>1, <2>2, <2>3 DEF BurstsStarted, Unserved
  <1>12. CASE CompareSkips
    BY <1>0, <1>b, <1>12 DEF CompareSkips, Edge, BurstsStarted, Unserved
  <1>13. CASE LogPuffs \/ StartRun \/ ReadRowId \/ ReadRowActive
    <2>1. UNCHANGED <<cnt, ccr1, cc1if, cc3if, isr, period, puff_active, started, bursts>>
      BY <1>13 DEF LogPuffs, StartRun, ReadRowId, ReadRowActive, world
    <2> QED
      BY <2>1 DEF BurstsStarted, Unserved, B
  <1>14. CASE UNCHANGED vars
    BY <1>14 DEF vars, world, BurstsStarted, Unserved, B
  <1> QED
    BY <1>1, <1>2, <1>3, <1>4, <1>5, <1>6, <1>7, <1>8, <1>9, <1>10, <1>11, <1>12,
       <1>13, <1>14 DEF Next, HandlerStep, LoopStep

-----------------------------------------------------------------------------
(* Puff detection: while no capture is lost, where every burst and every   *)
(* period of the signal is.                                                *)

Clean == AllCaptured(B)

\* A capture the callback has not read, which opens a burst if its period is as
\* long as the timeout; a capture it has read that does.
Unread == cc1if \/ isr = "read"
ReadsNew == Unread /\ ccr1 = TIMEOUT
ServesNew == isr = "start" \/ (isr = "check" /\ period = TIMEOUT)

\* At most the last burst has no puff yet, while its first edge is to be served.
CountIs ==
  /\ ~ (isr = "read" /\ cc1if) /\ ~ cc1of /\ rf_overcapture = 0
  /\ ReadsNew \/ ServesNew => started = B - 1
  /\ ~ (ReadsNew \/ ServesNew) => started = B

\* The sums of the puff lack what is still to be served of its burst.
PuffEdges == rf_edge_count - rf_puff_start_edges
PuffIs ==
  puff_active =>
    /\ started = B =>
         /\ rf_dur_ticks + Owed(isr = "check", period) + Owed(Unread, ccr1) = bursts[B].span
         /\ PuffEdges + Owed(isr \in {"check", "flag"}, 1) + Owed(Unread, 1)
              = bursts[B].edges
    /\ started < B => rf_dur_ticks = bursts[B - 1].span /\ PuffEdges = bursts[B - 1].edges

\* A burst without a puff has its first edge, and a second while that one is served.
NewIs ==
  started < B =>
    /\ bursts[B].span = Owed(ServesNew /\ cc1if, ccr1)
    /\ bursts[B].edges = 1 + Owed(ServesNew /\ cc1if, 1)

Exact == Clean => CountIs /\ PuffIs /\ NewIs

\* The first lost capture is in no burst later than the next to be started.
LossIsLate == AllCaptured(started + 1) => Clean

\* What an unserved edge does to a burst's record.
LEMMA BurstFields ==
  ASSUME BurstsTypeOK, NEW i \in 1 .. B
  PROVE  bursts[i].span \in Nat /\ bursts[i].edges \in Nat /\ bursts[i].lost \in Nat
  <1>1. bursts[i] \in Burst
    BY ElementOfSeq DEF BurstsTypeOK, B
  <1> QED
    BY <1>1 DEF Burst

\* A capture is lost only of a burst that goes on.
LEMMA LostGoesOn ==
  ASSUME PuffTypeOK, Latency, BurstsStarted, CaptureLost
  PROVE  cnt < TIMEOUT /\ B > 0
  BY ServedInTime DEF CaptureLost, PuffTypeOK, BurstsStarted

\* A loss is never forgotten, and an edge that loses a capture is one.
LEMMA LossStays ==
  ASSUME PuffTypeOK, Latency, BurstsStarted, [Next]_vars, NEW n \in Int
  PROVE  /\ AllCaptured(n)' => AllCaptured(n)
         /\ Edge /\ CaptureLost => B' = B /\ bursts'[B].lost # 0
  <1>0. B \in Nat /\ cnt \in 0 .. TIMEOUT /\ TIMEOUT \in Nat
    BY Ticks, LenProperties DEF PuffTypeOK, TimerTypeOK, BurstsTypeOK, B
  <1>t. \A i \in 1 .. B : bursts[i].lost \in Nat
    BY BurstFields DEF PuffTypeOK
  <1>a. AllCaptured(n) <=> \A i \in 1 .. B : i <= n => bursts[i].lost = 0
    BY DEF AllCaptured, B
  <1>b. AllCaptured(n)' <=> \A i \in 1 .. B' : i <= n => bursts'[i].lost = 0
    BY DEF AllCaptured, B
  <1>1. CASE Edge /\ cnt = TIMEOUT
    <2>1. ~ CaptureLost
      BY <1>0, <1>1, LostGoesOn
    <2>2. /\ B' = B + 1 /\ \A i \in 1 .. B : bursts'[i] = bursts[i]
          /\ bursts'[B + 1].lost = 0
      BY <1>1, <2>1, EdgeOpensBurst DEF Owed
    <2>3. \A i \in 1 .. B' : i \in 1 .. B \/ i = B + 1
      BY <1>0, <2>2
    <2> QED
      BY <1>0, <1>a, <1>b, <2>1, <2>2, <2>3
  <1>2. CASE Edge /\ cnt < TIMEOUT
    <2>1. /\ B > 0 /\ B' = B /\ \A i \in 1 .. B - 1 : bursts'[i] = bursts[i]
          /\ bursts'[B].lost = bursts[B].lost + Owed(CaptureLost, 1)
      BY <1>2, EdgeAddsToBurst DEF BurstsStarted
    <2>2. \A i \in 1 .. B : i \in 1 .. B - 1 \/ i = B
      BY <1>0
    <2>3. CASE CaptureLost
      <3>1. bursts'[B].lost = bursts[B].lost + 1 /\ B \in 1 .. B
        BY <1>0, <2>1, <2>3 DEF Owed
      <3>2. bursts'[B].lost # 0
        BY <1>t, <3>1
      <3> QED
        BY <1>0, <1>a, <1>b, <2>1, <2>2, <2>3, <3>1, <3>2
    <2>4. CASE ~ CaptureLost
      <3>1. bursts'[B].lost = bursts[B].lost
        BY <1>0, <1>t, <2>1, <2>4 DEF Owed
      <3> QED
        BY <1>0, <1>a, <1>b, <2>1, <2>2, <2>4, <3>1
    <2> QED
      BY <2>3, <2>4
  <1>3. CASE ~ Edge
    BY <1>3, <1>a, <1>b, StepBurstsTypes DEF B
  <1> QED
    BY <1>0, <1>1, <1>2, <1>3

\* So a clean state comes from a clean one without a loss.
LEMMA CleanBefore ==
  ASSUME PuffTypeOK, Latency, BurstsStarted, [Next]_vars, Clean'
  PROVE  Clean /\ (Edge => ~ CaptureLost)
  <1>0. B \in Nat /\ cnt \in 0 .. TIMEOUT /\ TIMEOUT \in Nat
    BY Ticks, LenProperties DEF PuffTypeOK, TimerTypeOK, BurstsTypeOK, B
  <1>b. \A i \in 1 .. B' : bursts'[i].lost = 0
    <2>1. B' \in Nat
      BY StepBurstsTypes, LenProperties DEF BurstsTypeOK, B
    <2> QED
      BY <2>1 DEF Clean, AllCaptured, B
  <1>1. CASE Edge /\ cnt = TIMEOUT
    <2>1. B' = B + 1 /\ \A i \in 1 .. B : bursts'[i] = bursts[i]
      BY <1>1, EdgeOpensBurst
    <2>2. ~ CaptureLost
      BY <1>0, <1>1, LostGoesOn
    <2>3. \A i \in 1 .. B : bursts[i].lost = 0
      BY <1>0, <1>b, <2>1
    <2> QED
      BY <2>2, <2>3 DEF Clean, AllCaptured, B
  <1>2. CASE Edge /\ cnt < TIMEOUT
    <2>1. B > 0 /\ B' = B
      BY <1>2, EdgeAddsToBurst DEF BurstsStarted
    <2>2. ~ CaptureLost
      BY <1>0, <1>2, <1>b, <2>1, LossStays
    <2>3. /\ \A i \in 1 .. B - 1 : bursts'[i] = bursts[i]
          /\ bursts'[B].lost = bursts[B].lost
      <3>1. bursts[B].lost \in Nat
        BY <1>0, <2>1, BurstFields DEF PuffTypeOK
      <3> QED
        BY <1>2, <2>1, <2>2, <3>1, EdgeAddsToBurst DEF Owed
    <2>4. \A i \in 1 .. B : bursts[i].lost = 0
      <3>1. \A i \in 1 .. B : i \in 1 .. B - 1 \/ i = B
        BY <1>0
      <3> QED
        BY <1>b, <2>1, <2>3, <3>1
    <2> QED
      BY <2>2, <2>4 DEF Clean, AllCaptured, B
  <1>3. CASE ~ Edge
    BY <1>3, <1>b, StepBurstsTypes DEF Clean, AllCaptured, B
  <1> QED
    BY <1>0, <1>1, <1>2, <1>3

\* Every step keeps the account: each edge is in the timer, in the callback or in
\* the sums of its own puff.
LEMMA StepExact ==
  ASSUME PuffTypeOK, Latency, Armed, BurstsStarted, Exact, [Next]_vars
  PROVE  Exact'
  <1> SUFFICES ASSUME Clean' PROVE CountIs' /\ PuffIs' /\ NewIs'
    BY DEF Exact
  <1> USE DEF tim2, handler, puff
  <1>c. Clean /\ CountIs /\ PuffIs /\ NewIs /\ (Edge => ~ CaptureLost)
    BY CleanBefore DEF Exact
  <1>0. /\ cnt \in 0 .. TIMEOUT /\ TIMEOUT \in Nat /\ TIMEOUT > 0
        /\ ccr1 \in 0 .. TIMEOUT /\ period \in 0 .. TIMEOUT
        /\ puff_active \in BOOLEAN /\ started \in Nat /\ B \in Nat
        /\ rf_dur_ticks \in Nat /\ PuffEdges \in Nat
    BY Ticks, LenProperties, CountFrom
       DEF PuffTypeOK, TimerTypeOK, StateTypeOK, BurstsTypeOK, B, PuffEdges
  <1>t. B > 0 => bursts[B].span \in Nat /\ bursts[B].edges \in Nat
    BY <1>0, BurstFields DEF PuffTypeOK
  <1>s. Unserved \/ isr = "flag" => cnt < TIMEOUT
    BY ServedInTime DEF Unserved, PuffTypeOK
  <1>b. ~ Edge => bursts' = bursts /\ B' = B
    BY StepBurstsTypes DEF B
  <1>1. CASE Edge /\ cnt = TIMEOUT
    <2>0. /\ UNCHANGED <<isr, puff_active, started, cc3if, period, rf_dur_ticks>>
          /\ PuffEdges' = PuffEdges /\ rf_overcapture' = rf_overcapture
          /\ cc1of' = (cc1of \/ cc1if)
      BY <1>1 DEF Edge, PuffEdges
    <2>1. cc1if' = TRUE /\ ccr1' = TIMEOUT
      BY <1>1 DEF Edge
    <2>2. ~ cc1if /\ isr \notin {"clear1", "read", "check", "start", "flag"}
      BY <1>0, <1>1, <1>s DEF Unserved
    <2>3. started = B
      BY <1>c, <2>2 DEF CountIs, ReadsNew, ServesNew, Unread
    <2>4. /\ B' = B + 1 /\ \A i \in 1 .. B : bursts'[i] = bursts[i]
          /\ bursts'[B + 1].span = 0 /\ bursts'[B + 1].edges = 1
      BY <1>1, EdgeOpensBurst
    <2>5. ReadsNew' /\ ~ ServesNew'
      BY <2>0, <2>1, <2>2 DEF ReadsNew, ServesNew, Unread
    <2>6. CountIs'
      <3>1. ~ cc1of' /\ isr' # "read" /\ rf_overcapture' = 0
        BY <1>c, <2>0, <2>2 DEF CountIs
      <3>2. started' = B' - 1
        BY <1>0, <2>0, <2>3, <2>4
      <3> QED
        BY <2>5, <3>1, <3>2 DEF CountIs
    <2>7. PuffIs'
      <3>1. puff_active => B \in 1 .. B
        BY <1>0, <2>3 DEF BurstsStarted
      <3>2. puff_active => rf_dur_ticks = bursts[B].span /\ PuffEdges = bursts[B].edges
        BY <1>0, <1>c, <2>2, <2>3 DEF PuffIs, Owed, Unread
      <3>3. puff_active => bursts'[B' - 1] = bursts[B]
        BY <1>0, <2>4, <3>1
      <3> QED
        BY <1>0, <2>0, <2>3, <2>4, <3>2, <3>3 DEF PuffIs
    <2>8. NewIs'
      BY <2>4, <2>5 DEF NewIs, Owed
    <2> QED
      BY <2>6, <2>7, <2>8
  <1>2. CASE Edge /\ cnt < TIMEOUT
    <2>0. /\ UNCHANGED <<isr, puff_active, started, cc3if, period, rf_dur_ticks>>
          /\ PuffEdges' = PuffEdges /\ rf_overcapture' = rf_overcapture
          /\ cc1of' = (cc1of \/ cc1if)
      BY <1>2 DEF Edge, PuffEdges
    <2>1. cc1if' = TRUE /\ ccr1' = cnt
      BY <1>2 DEF Edge
    <2>2. ~ Unread
      BY <1>2, <1>c DEF CaptureLost, Unread
    <2>3. ~ ReadsNew /\ ~ ReadsNew' /\ ServesNew' = ServesNew /\ Unread'
      BY <1>0, <1>2, <2>0, <2>1, <2>2 DEF ReadsNew, ServesNew, Unread
    <2>4. /\ B > 0 /\ B' = B /\ \A i \in 1 .. B - 1 : bursts'[i] = bursts[i]
          /\ bursts'[B].span = bursts[B].span + cnt
          /\ bursts'[B].edges = bursts[B].edges + 1
      BY <1>2, EdgeAddsToBurst DEF BurstsStarted
    <2>6. CountIs'
      BY <1>0, <1>c, <2>0, <2>2, <2>3, <2>4 DEF CountIs, Unread
    <2>7. PuffIs'
      <3> SUFFICES ASSUME puff_active PROVE PuffIs'
        BY <2>0 DEF PuffIs
      <3>1. CASE started = B
        BY <1>0, <1>t, <1>c, <2>0, <2>1, <2>2, <2>3, <2>4, <3>1 DEF PuffIs, Owed
      <3>2. CASE started < B
        <4>1. B - 1 \in 1 .. B - 1
          BY <1>0, <1>c, <3>2 DEF CountIs, BurstsStarted
        <4> QED
          BY <1>0, <1>c, <2>0, <2>4, <3>2, <4>1 DEF PuffIs
      <3> QED
        BY <1>0, <3>1, <3>2 DEF BurstsStarted
    <2>8. NewIs'
      <3>1. started < B => ServesNew
        BY <1>0, <1>c, <2>3 DEF CountIs
      <3> QED
        BY <1>0, <1>t, <1>c, <2>0, <2>1, <2>2, <2>3, <2>4, <3>1 DEF NewIs, Owed, Unread
    <2> QED
      BY <2>6, <2>7, <2>8
  <1>3. CASE EnterHandler \/ ClearCC3 \/ CompareSkips
    <2>1. UNCHANGED <<ccr1, cc1if, cc1of, period, puff_active, started, rf_dur_ticks,
                      rf_overcapture, rf_edge_count, rf_puff_start_edges>>
      BY <1>3 DEF EnterHandler, ClearCC3, CompareSkips
    <2>2. bursts' = bursts /\ B' = B
      BY <1>3 DEF EnterHandler, ClearCC3, CompareSkips, world, B
    <2>3. /\ isr \notin {"read", "check", "start", "flag"}
          /\ isr' \notin {"read", "check", "start", "flag"}
      BY <1>3 DEF EnterHandler, ClearCC3, CompareSkips
    <2> QED
      BY <1>c, <2>1, <2>2, <2>3
         DEF CountIs, PuffIs, NewIs, PuffEdges, ReadsNew, ServesNew, Unread, Owed
  <1>4. CASE Tick \/ LogPuffs \/ StartRun \/ ReadRowId \/ ReadRowActive \/ UNCHANGED vars
    <2>1. UNCHANGED <<ccr1, cc1if, cc1of, period, puff_active, started, rf_dur_ticks,
                      rf_overcapture, rf_edge_count, rf_puff_start_edges, isr>>
      BY <1>4 DEF Tick, LogPuffs, StartRun, ReadRowId, ReadRowActive, vars
    <2>2. bursts' = bursts /\ B' = B
      BY <1>4 DEF Tick, LogPuffs, StartRun, ReadRowId, ReadRowActive, world, vars, B
    <2> QED
      BY <1>c, <2>1, <2>2
         DEF CountIs, PuffIs, NewIs, PuffEdges, ReadsNew, ServesNew, Unread, Owed
  <1>5. CASE ClearCC1
    <2>1. /\ isr = "clear1" /\ isr' = "read" /\ cc1if /\ ~ cc1if'
          /\ UNCHANGED <<ccr1, cc1of, period, puff_active, started, rf_dur_ticks,
                         rf_overcapture, rf_edge_count, rf_puff_start_edges>>
      BY <1>5 DEF ClearCC1, Latency
    <2>2. bursts' = bursts /\ B' = B
      BY <1>5 DEF ClearCC1, world, B
    <2> QED
      BY <1>c, <2>1, <2>2
         DEF CountIs, PuffIs, NewIs, PuffEdges, ReadsNew, ServesNew, Unread, Owed
  <1>6. CASE ReadCapture
    <2>1. /\ isr = "read" /\ isr' = "check" /\ ~ cc1if /\ ~ cc1if' /\ period' = ccr1
          /\ UNCHANGED <<ccr1, cc1of, puff_active, started, rf_dur_ticks,
                         rf_overcapture, rf_edge_count, rf_puff_start_edges>>
      BY <1>6, <1>c DEF ReadCapture, CountIs
    <2>2. bursts' = bursts /\ B' = B
      BY <1>6 DEF ReadCapture, world, B
    <2>3. ~ ReadsNew' /\ ~ ServesNew /\ ServesNew' = ReadsNew /\ Unread /\ ~ Unread'
      BY <2>1 DEF ReadsNew, ServesNew, Unread
    <2>4. CountIs'
      BY <1>c, <2>1, <2>2, <2>3 DEF CountIs
    <2>5. PuffIs'
      BY <1>0, <1>c, <2>1, <2>2, <2>3 DEF PuffIs, PuffEdges, Owed
    <2>6. NewIs'
      BY <1>c, <2>1, <2>2, <2>3 DEF NewIs, Owed
    <2> QED
      BY <2>4, <2>5, <2>6
  <1>7. CASE CaptureEndsPuff
    <2>1. /\ isr = "check" /\ isr' = "start" /\ puff_active /\ puff_active' = FALSE
          /\ UNCHANGED <<ccr1, cc1if, cc1of, started, period, rf_overcapture>>
          /\ (cc3if \/ period >= TIMEOUT)
      BY <1>7 DEF CaptureEndsPuff, RF_PuffEnd, TimedOutBefore
    <2>2. bursts' = bursts /\ B' = B
      BY <1>7 DEF CaptureEndsPuff, world, B
    <2>3. started < B
      BY <1>0, <1>s, <2>1 DEF BurstsStarted, Unserved
    <2>4. ~ ReadsNew /\ ~ ReadsNew'
      BY <1>0, <2>1 DEF ReadsNew, Unread, BurstsStarted
    <2>5. ServesNew /\ ServesNew'
      BY <1>0, <1>c, <2>1, <2>3, <2>4 DEF CountIs, ServesNew
    <2> QED
      BY <1>c, <2>1, <2>2, <2>4, <2>5 DEF CountIs, PuffIs, NewIs, Unread
  <1>8. CASE CaptureStartsPuff
    <2>1. /\ isr \in {"check", "start"} /\ isr' = "flag" /\ ~ puff_active
          /\ puff_active' = TRUE /\ started' = started + 1 /\ rf_dur_ticks' = 0
          /\ rf_overcapture' = 0 /\ rf_puff_start_edges' = rf_edge_count
          /\ UNCHANGED <<ccr1, cc1if, cc1of, period, rf_edge_count>>
      BY <1>8 DEF CaptureStartsPuff, RF_PuffStart, ResetStats
    <2>2. bursts' = bursts /\ B' = B
      BY <1>8 DEF CaptureStartsPuff, world, B
    <2>3. started < B
      BY <2>1 DEF BurstsStarted, Unserved
    <2>4. ~ ReadsNew /\ ~ ReadsNew' /\ ~ ServesNew'
      BY <1>0, <2>1 DEF ReadsNew, ServesNew, Unread, BurstsStarted
    <2>5. ServesNew /\ started = B - 1
      BY <1>0, <1>c, <2>3, <2>4 DEF CountIs
    <2>6. CountIs'
      BY <1>0, <1>c, <2>1, <2>2, <2>4, <2>5 DEF CountIs
    <2>7. PuffEdges' = 0
      <3>1. rf_edge_count \in Nat
        BY DEF PuffTypeOK, StateTypeOK
      <3> QED
        BY <2>1, <3>1 DEF PuffEdges
    <2>8. PuffIs' /\ NewIs'
      BY <1>0, <1>t, <1>c, <2>1, <2>2, <2>3, <2>5, <2>7 DEF PuffIs, NewIs, Owed, Unread
    <2> QED
      BY <2>6, <2>8
  <1>9. CASE CaptureAddsPeriod
    <2>1. /\ isr = "check" /\ isr' = "flag" /\ puff_active /\ period < TIMEOUT
          /\ rf_dur_ticks' = rf_dur_ticks + period
          /\ UNCHANGED <<ccr1, cc1if, cc1of, period, puff_active, started, rf_overcapture,
                         rf_edge_count, rf_puff_start_edges>>
      BY <1>0, <1>9 DEF CaptureAddsPeriod, TimedOutBefore
    <2>2. bursts' = bursts /\ B' = B
      BY <1>9 DEF CaptureAddsPeriod, world, B
    <2>3. ~ ReadsNew /\ ~ ReadsNew' /\ ~ ServesNew /\ ~ ServesNew' /\ Unread' = Unread
      BY <1>0, <2>1 DEF ReadsNew, ServesNew, Unread, BurstsStarted
    <2>4. started = B
      BY <1>c, <2>3 DEF CountIs
    <2>5. CountIs' /\ NewIs'
      BY <1>0, <1>c, <2>1, <2>2, <2>3, <2>4 DEF CountIs, NewIs
    <2>6. PuffIs'
      BY <1>0, <1>c, <2>1, <2>2, <2>3, <2>4 DEF PuffIs, PuffEdges, Owed
    <2> QED
      BY <2>5, <2>6
  <1>10. CASE CountEdge
    <2>1. /\ isr = "flag" /\ isr' \in {"idle", "clear3"} /\ puff_active
          /\ rf_overcapture' = rf_overcapture + (IF cc1of /\ ~ first_edge THEN 1 ELSE 0)
          /\ cc1of' = FALSE /\ rf_edge_count' = rf_edge_count + 1
          /\ UNCHANGED <<ccr1, cc1if, period, puff_active, started, rf_dur_ticks,
                         rf_puff_start_edges>>
      BY <1>10 DEF CountEdge, Armed
    <2>2. bursts' = bursts /\ B' = B
      BY <1>10 DEF CountEdge, world, B
    <2>3. ~ ReadsNew /\ ~ ReadsNew' /\ ~ ServesNew /\ ~ ServesNew' /\ Unread' = Unread
      BY <1>0, <2>1 DEF ReadsNew, ServesNew, Unread, BurstsStarted
    <2>4. started = B
      BY <1>c, <2>3 DEF CountIs
    <2>5. CountIs' /\ NewIs'
      BY <1>0, <1>c, <2>1, <2>2, <2>3, <2>4 DEF CountIs, NewIs
    <2>6. PuffEdges' = PuffEdges + 1
      <3>1. rf_edge_count \in Nat /\ rf_puff_start_edges \in Nat
        BY DEF PuffTypeOK, StateTypeOK
      <3> QED
        BY <2>1, <3>1 DEF PuffEdges
    <2>7. PuffIs'
      BY <1>0, <1>c, <2>1, <2>2, <2>3, <2>4, <2>6 DEF PuffIs, Owed
    <2> QED
      BY <2>5, <2>7
  <1>11. CASE CompareEndsPuff
    <2>1. /\ isr = "compare" /\ isr' = "idle" /\ puff_active' = FALSE
          /\ UNCHANGED <<ccr1, cc1if, cc1of, started, period, rf_overcapture>>
      BY <1>11 DEF CompareEndsPuff, RF_PuffEnd
    <2>2. bursts' = bursts /\ B' = B
      BY <1>11 DEF CompareEndsPuff, world, B
    <2> QED
      BY <1>c, <2>1, <2>2
         DEF CountIs, PuffIs, NewIs, ReadsNew, ServesNew, Unread
  <1> QED
    BY <1>0, <1>1, <1>2, <1>3, <1>4, <1>5, <1>6, <1>7, <1>8, <1>9, <1>10, <1>11
       DEF Next, HandlerStep, LoopStep

-----------------------------------------------------------------------------
(* Puff detection: what is logged.                                         *)

\* An END in the queue is of a puff that is over.
EndsLogged ==
  \A i \in 1 .. Len(accepted) :
    accepted[i].type = "END" =>
      /\ accepted[i].nth \in 1 .. started
      /\ accepted[i].nth = started => ~ puff_active

\* While no event is lost, the last START is of the puff in progress.
OpenStart ==
  rf_evt_dropped = 0 /\ puff_active =>
    /\ Len(accepted) > 0
    /\ accepted[Len(accepted)].puff_id = rf_puff_id
    /\ accepted[Len(accepted)].nth = started

\* Puffs are only ever added.
LEMMA StartedGrows ==
  ASSUME StateTypeOK, [Next]_vars
  PROVE  started' \in {started, started + 1}
  <1>1. CASE Edge \/ Tick \/ LoopStep \/ UNCHANGED vars
    BY <1>1 DEF Edge, Tick, LoopStep, LogPuffs, StartRun, ReadRowId, ReadRowActive, vars
  <1>2. CASE CaptureStartsPuff
    BY <1>2 DEF CaptureStartsPuff, RF_PuffStart
  <1>3. CASE \/ EnterHandler \/ ClearCC1 \/ ReadCapture \/ CaptureEndsPuff
             \/ CaptureAddsPeriod \/ CountEdge \/ ClearCC3 \/ CompareEndsPuff \/ CompareSkips
    BY <1>3 DEF EnterHandler, ClearCC1, ReadCapture, CaptureEndsPuff, CaptureAddsPeriod,
                CountEdge, ClearCC3, CompareEndsPuff, CompareSkips, RF_PuffEnd
  <1> QED
    BY <1>1, <1>2, <1>3 DEF Next, HandlerStep

\* Every step keeps the loss early enough for the puffs after it to be known.
LEMMA StepLossIsLate ==
  ASSUME PuffTypeOK, Latency, Armed, BurstsStarted, Exact, LossIsLate, [Next]_vars
  PROVE  LossIsLate'
  <1> SUFFICES ASSUME AllCaptured(started + 1)' PROVE Clean'
    BY DEF LossIsLate
  <1>0. B \in Nat /\ started \in Nat /\ started + 1 \in Int /\ B \in Int
    BY LenProperties DEF PuffTypeOK, StateTypeOK, BurstsTypeOK, B
  <1>a. \A i \in 1 .. B' : i <= started' + 1 => bursts'[i].lost = 0
    BY DEF AllCaptured, B
  <1>1. CASE Edge
    <2>1. started' = started
      BY <1>1 DEF Edge
    <2>2. \A n \in Int : AllCaptured(n)' <=> \A i \in 1 .. B' : i <= n => bursts'[i].lost = 0
      BY DEF AllCaptured, B
    <2>3. AllCaptured(started + 1)
      <3> DEFINE n == started + 1
      <3>1. n \in Int /\ \A i \in 1 .. B' : i <= n => bursts'[i].lost = 0
        BY <1>0, <1>a, <2>1
      <3> HIDE DEF n
      <3>2. AllCaptured(n)
        BY <2>2, <3>1, LossStays
      <3> QED
        BY <3>2 DEF n
    <2>4. Clean /\ CountIs
      BY <2>3 DEF LossIsLate, Exact
    <2>5. ~ CaptureLost
      <3> SUFFICES ASSUME CaptureLost PROVE FALSE
        OBVIOUS
      <3>1. B' = B /\ bursts'[B].lost # 0
        BY <1>0, <1>1, LossStays
      <3>2. B > 0
        BY LostGoesOn
      <3>3. B \in 1 .. B' /\ B <= started' + 1
        BY <1>0, <2>1, <2>4, <3>1, <3>2 DEF CountIs
      <3> QED
        BY <1>a, <3>1, <3>3
    <2>6. CASE cnt = TIMEOUT
      <3>1. /\ B' = B + 1 /\ \A i \in 1 .. B : bursts'[i] = bursts[i]
            /\ bursts'[B + 1].lost = 0
        BY <1>1, <2>5, <2>6, EdgeOpensBurst DEF Owed
      <3>2. \A i \in 1 .. B : bursts[i].lost = 0
        BY <1>0, <2>4 DEF Clean, AllCaptured, B
      <3>3. \A i \in 1 .. B' : bursts'[i].lost = 0
        <4>1. \A i \in 1 .. B' : i \in 1 .. B \/ i = B + 1
          BY <1>0, <3>1
        <4> QED
          BY <3>1, <3>2, <4>1
      <3> QED
        BY <3>3 DEF Clean, AllCaptured, B
    <2>7. CASE cnt < TIMEOUT
      <3>1. /\ B > 0 /\ B' = B /\ \A i \in 1 .. B - 1 : bursts'[i] = bursts[i]
            /\ bursts'[B].lost = bursts[B].lost
        <4>1. B > 0
          BY <2>7 DEF BurstsStarted
        <4>2. bursts[B].lost \in Nat
          BY <1>0, <4>1, BurstFields DEF PuffTypeOK
        <4> QED
          BY <1>1, <2>5, <2>7, <4>1, <4>2, EdgeAddsToBurst DEF Owed
      <3>2. \A i \in 1 .. B : bursts[i].lost = 0
        BY <1>0, <2>4 DEF Clean, AllCaptured, B
      <3>3. \A i \in 1 .. B' : bursts'[i].lost = 0
        <4>1. \A i \in 1 .. B' : i \in 1 .. B - 1 \/ i = B
          BY <1>0, <3>1
        <4> QED
          BY <1>0, <3>1, <3>2, <4>1
      <3> QED
        BY <3>3 DEF Clean, AllCaptured, B
    <2> QED
      BY <2>6, <2>7, Ticks DEF PuffTypeOK, TimerTypeOK
  <1>2. CASE ~ Edge
    <2>1. bursts' = bursts /\ B' = B /\ started' \in {started, started + 1}
      BY <1>2, StepBurstsTypes, StartedGrows DEF B, PuffTypeOK
    <2>2. \A i \in 1 .. B : i <= started + 1 => bursts[i].lost = 0
      <3> SUFFICES ASSUME NEW i \in 1 .. B, i <= started + 1 PROVE bursts[i].lost = 0
        OBVIOUS
      <3>1. i <= started + 1 /\ i <= (started + 1) + 1
        BY <1>0
      <3>2. i \in 1 .. B'
        BY <2>1
      <3>3. i <= started' + 1
        BY <2>1, <3>1
      <3> QED
        BY <1>a, <2>1, <3>2, <3>3
    <2>3. AllCaptured(started + 1)
      BY <2>2 DEF AllCaptured, B
    <2> QED
      BY <2>1, <2>3 DEF LossIsLate, Clean, AllCaptured, B
  <1> QED
    BY <1>1, <1>2

\* A push appends the event, or counts its loss.
LEMMA PushOutcome ==
  ASSUME QueueTypeOK, NEW e \in PuffEvent, RF_QueuePush(e)
  PROVE  \/ accepted' = accepted /\ rf_evt_dropped' # 0
         \/ /\ Len(accepted) \in Nat /\ Len(accepted') = Len(accepted) + 1
            /\ \A i \in 1 .. Len(accepted) : accepted'[i] = accepted[i]
            /\ accepted'[Len(accepted) + 1] = e
            /\ rf_evt_dropped' = rf_evt_dropped
  <1>1. CASE Full
    BY <1>1 DEF RF_QueuePush, QueueTypeOK
  <1>2. CASE ~ Full
    <2>1. accepted' = Append(accepted, e) /\ rf_evt_dropped' = rf_evt_dropped
      BY <1>2 DEF RF_QueuePush
    <2>2. accepted \in Seq(PuffEvent) /\ Len(accepted) \in Nat
      BY LenProperties DEF QueueTypeOK
    <2> QED
      BY <2>1, <2>2, AppendProperties
  <1> QED
    BY <1>1, <1>2

\* Only the start and the end of a puff touch what the queue has been given, and
\* with it the number and state of the puff; a new run renumbers no running puff.
LEMMA OthersLogNothing ==
  ASSUME PuffTypeOK, [Next]_vars,
         ~ CaptureEndsPuff, ~ CaptureStartsPuff, ~ CompareEndsPuff
  PROVE  /\ UNCHANGED <<accepted, rf_evt_dropped, started, puff_active>>
         /\ puff_active => rf_puff_id' = rf_puff_id
  <1>1. CASE LogPuffs
    BY <1>1 DEF LogPuffs, puff, PuffLogService, TestHead, CopySlot, ReleaseSlot,
                ReportDropped, ringVars
  <1>2. CASE StartRun
    BY <1>2 DEF StartRun, RestartNumbers, queue
  <1>3. CASE Edge \/ Tick \/ ReadRowId \/ ReadRowActive \/ UNCHANGED vars
    BY <1>3 DEF Edge, Tick, ReadRowId, ReadRowActive, vars, queue, puff
  <1>4. CASE HandlerStep
    BY <1>4 DEF HandlerStep, EnterHandler, ClearCC1, ReadCapture, CaptureAddsPeriod,
                CountEdge, ClearCC3, CompareSkips, queue, puff
  <1> QED
    BY <1>1, <1>2, <1>3, <1>4 DEF Next, LoopStep

\* What the end of a puff does, in either callback.
LEMMA EndPushes ==
  ASSUME PuffTypeOK, QueueTypeOK, Latency, BurstsStarted,
         CaptureEndsPuff \/ CompareEndsPuff
  PROVE  /\ RF_QueuePush(Snapshot("END")) /\ Snapshot("END") \in PuffEvent
         /\ puff_active /\ ~ puff_active' /\ started \in Nat /\ started > 0
         /\ UNCHANGED <<started, bursts>>
  <1>1. started \in Nat /\ Snapshot("END") \in PuffEvent
    BY SnapshotType DEF PuffTypeOK, StateTypeOK
  <1>2. puff_active /\ RF_PuffEnd
    BY DEF CaptureEndsPuff, CompareEndsPuff, GenuineTimeout
  <1>3. bursts' = bursts
    BY DEF CaptureEndsPuff, CompareEndsPuff, world
  <1> QED
    BY <1>1, <1>2, <1>3 DEF RF_PuffEnd, BurstsStarted

\* What the start of a puff does.
LEMMA StartPushes ==
  ASSUME PuffTypeOK, QueueTypeOK, [Next]_vars, CaptureStartsPuff
  PROVE  \E e \in PuffEvent :
           /\ RF_QueuePush(e)
           /\ e.type = "START" /\ e.puff_id = rf_puff_id' /\ e.nth = started'
           /\ started \in Nat /\ started' = started + 1
           /\ ~ puff_active /\ puff_active' /\ bursts' = bursts
  <1>1. StateTypeOK' /\ started \in Nat
    BY StepStateTypes DEF PuffTypeOK, StateTypeOK
  <1>2. rf_edge_count' - rf_puff_start_edges' \in Nat
    BY <1>1, CountFrom DEF StateTypeOK
  <1> DEFINE e == [type |-> "START", puff_id |-> rf_puff_id',
                   duration_ticks |-> rf_dur_ticks',
                   edges |-> rf_edge_count' - rf_puff_start_edges',
                   overcapture |-> rf_overcapture', nth |-> started']
  <1>3. Snapshot("START")' = e
    BY DEF Snapshot
  <1>4. e \in PuffEvent
    BY <1>1, <1>2 DEF PuffEvent, StateTypeOK
  <1>5. RF_QueuePush(e)
    BY <1>3 DEF CaptureStartsPuff, RF_PuffStart
  <1>6. /\ started' = started + 1 /\ ~ puff_active /\ puff_active' /\ bursts' = bursts
    BY DEF CaptureStartsPuff, RF_PuffStart, world
  <1>7. e.type = "START" /\ e.puff_id = rf_puff_id' /\ e.nth = started'
    OBVIOUS
  <1> HIDE DEF e
  <1> QED
    BY <1>1, <1>4, <1>5, <1>6, <1>7

\* Every step keeps the ENDs behind the puff in progress.
LEMMA StepEndsLogged ==
  ASSUME PuffTypeOK, QueueTypeOK, Latency, BurstsStarted, EndsLogged, [Next]_vars
  PROVE  EndsLogged'
  <1>0. Len(accepted) \in Nat /\ started \in Nat
    BY LenProperties DEF QueueTypeOK, PuffTypeOK, StateTypeOK
  <1>1. CASE CaptureEndsPuff \/ CompareEndsPuff
    <2>1. /\ RF_QueuePush(Snapshot("END")) /\ Snapshot("END") \in PuffEvent
          /\ ~ puff_active' /\ started' = started /\ started > 0
      BY <1>1, EndPushes
    <2>2. Snapshot("END").nth \in 1 .. started
      BY <1>0, <2>1 DEF Snapshot
    <2> HIDE DEF Snapshot
    <2>3. CASE accepted' = accepted
      BY <2>1, <2>3 DEF EndsLogged
    <2>4. CASE /\ Len(accepted') = Len(accepted) + 1
               /\ \A i \in 1 .. Len(accepted) : accepted'[i] = accepted[i]
               /\ accepted'[Len(accepted) + 1] = Snapshot("END")
      <3>1. \A i \in 1 .. Len(accepted') : i \in 1 .. Len(accepted) \/ i = Len(accepted) + 1
        BY <1>0, <2>4
      <3> QED
        BY <2>1, <2>2, <2>4, <3>1 DEF EndsLogged
    <2> QED
      BY <2>1, <2>3, <2>4, PushOutcome
  <1>2. CASE CaptureStartsPuff
    <2>1. PICK e \in PuffEvent : /\ RF_QueuePush(e) /\ e.type = "START"
                                 /\ started' = started + 1
      BY <1>2, StartPushes
    <2>2. \A i \in 1 .. Len(accepted) :
            accepted[i].type = "END" =>
              accepted[i].nth \in 1 .. started' /\ accepted[i].nth # started'
      BY <1>0, <2>1 DEF EndsLogged
    <2>3. CASE accepted' = accepted
      BY <2>2, <2>3 DEF EndsLogged
    <2>4. CASE /\ Len(accepted') = Len(accepted) + 1
               /\ \A i \in 1 .. Len(accepted) : accepted'[i] = accepted[i]
               /\ accepted'[Len(accepted) + 1] = e
      <3>1. \A i \in 1 .. Len(accepted') : i \in 1 .. Len(accepted) \/ i = Len(accepted) + 1
        BY <1>0, <2>4
      <3> QED
        BY <2>1, <2>2, <2>4, <3>1 DEF EndsLogged
    <2> QED
      BY <2>1, <2>3, <2>4, PushOutcome
  <1>3. CASE ~ CaptureEndsPuff /\ ~ CompareEndsPuff /\ ~ CaptureStartsPuff
    BY <1>3, OthersLogNothing DEF EndsLogged
  <1> QED
    BY <1>1, <1>2, <1>3

\* A burst whose puff is over does not change any more.
LEMMA BurstIsOver ==
  ASSUME PuffTypeOK, Latency, BurstsStarted, [Next]_vars,
         NEW n \in 1 .. started, n = started => ~ puff_active
  PROVE  bursts'[n] = bursts[n]
  <1>0. B \in Nat /\ started \in Nat /\ cnt \in 0 .. TIMEOUT /\ TIMEOUT \in Nat
    BY Ticks, LenProperties DEF PuffTypeOK, TimerTypeOK, StateTypeOK, BurstsTypeOK, B
  <1>1. n \in 1 .. B
    BY <1>0 DEF BurstsStarted
  <1>2. CASE Edge /\ cnt = TIMEOUT
    BY <1>1, <1>2, EdgeOpensBurst
  <1>3. CASE Edge /\ cnt < TIMEOUT
    <2>1. n # B
      BY <1>0, <1>3 DEF BurstsStarted, Unserved
    <2>2. n \in 1 .. B - 1
      BY <1>0, <1>1, <2>1
    <2> QED
      BY <1>3, <2>2, EdgeAddsToBurst DEF BurstsStarted
  <1>4. CASE ~ Edge
    BY <1>4, StepBurstsTypes
  <1> QED
    BY <1>0, <1>2, <1>3, <1>4

\* The measure of a puff that ends is that of its burst.
LEMMA EndIsExact ==
  ASSUME PuffTypeOK, Latency, Armed, BurstsStarted, Exact, LossIsLate,
         CaptureEndsPuff \/ CompareEndsPuff, AllCaptured(started + 1)
  PROVE  /\ rf_dur_ticks = bursts[started].span /\ PuffEdges = bursts[started].edges
         /\ rf_overcapture = 0
  <1>0. /\ B \in Nat /\ started \in Nat /\ cnt \in 0 .. TIMEOUT /\ TIMEOUT \in Nat
        /\ period \in 0 .. TIMEOUT /\ rf_dur_ticks \in Nat /\ PuffEdges \in Nat
    BY Ticks, LenProperties, CountFrom
       DEF PuffTypeOK, TimerTypeOK, StateTypeOK, BurstsTypeOK, B, PuffEdges
  <1>1. CountIs /\ PuffIs
    BY DEF LossIsLate, Exact
  <1>s. Unserved => cnt < TIMEOUT
    BY ServedInTime DEF Unserved, PuffTypeOK
  <1>2. CASE CaptureEndsPuff
    <2>1. isr = "check" /\ puff_active /\ (cc3if \/ period >= TIMEOUT)
      BY <1>2 DEF CaptureEndsPuff, TimedOutBefore
    <2>2. started < B
      BY <1>0, <1>s, <2>1 DEF BurstsStarted, Unserved
    <2>3. started = B - 1
      BY <1>0, <1>1, <2>2 DEF CountIs
    <2> QED
      BY <1>1, <2>1, <2>2, <2>3 DEF CountIs, PuffIs
  <1>3. CASE CompareEndsPuff
    <2>1. isr = "compare" /\ puff_active /\ cnt >= TIMEOUT
      BY <1>3 DEF CompareEndsPuff, GenuineTimeout
    <2>2. ~ Unread /\ ~ ReadsNew /\ ~ ServesNew
      BY <1>0, <1>s, <2>1 DEF Unserved, Unread, ReadsNew, ServesNew
    <2>3. started = B
      BY <1>1, <2>2 DEF CountIs
    <2> QED
      BY <1>0, <1>1, <2>1, <2>2, <2>3 DEF CountIs, PuffIs, Owed
  <1> QED
    BY <1>2, <1>3

\* Every step keeps the logged measures exact.
LEMMA StepLoggedMeasure ==
  ASSUME PuffTypeOK, QueueTypeOK, Latency, Armed, BurstsStarted, Exact, LossIsLate,
         EndsLogged, LoggedMeasureExact, [Next]_vars
  PROVE  LoggedMeasureExact'
  <1> DEFINE Of(e, bs) == /\ e.duration_ticks = bs[e.nth].span
                          /\ e.edges = bs[e.nth].edges
                          /\ e.overcapture = 0
  <1>0. /\ Len(accepted) \in Nat /\ started \in Nat
        /\ \A i \in 1 .. Len(accepted) : accepted[i].nth \in Nat
    <2>1. \A i \in 1 .. Len(accepted) : accepted[i] \in PuffEvent
      BY ElementOfSeq DEF QueueTypeOK
    <2> QED
      BY <2>1, LenProperties DEF QueueTypeOK, PuffTypeOK, StateTypeOK, PuffEvent
  <1> DEFINE Captured(n) == \A j \in 1 .. B' : j <= n => bursts'[j].lost = 0
  <1>1. \A i \in 1 .. Len(accepted) :
          accepted[i].type = "END" /\ Captured(accepted[i].nth + 1) => Of(accepted[i], bursts')
    <2> SUFFICES ASSUME NEW i \in 1 .. Len(accepted), NEW n \in Nat,
                        accepted[i].nth = n, accepted[i].type = "END", Captured(n + 1)
                 PROVE  Of(accepted[i], bursts')
      BY <1>0
    <2>1. n \in 1 .. started /\ (n = started => ~ puff_active)
      BY DEF EndsLogged
    <2>2. bursts'[n] = bursts[n]
      BY <2>1, BurstIsOver
    <2>3. AllCaptured(n + 1)'
      BY DEF AllCaptured, B
    <2>4. AllCaptured(n + 1)
      BY <2>3, LossStays
    <2> QED
      BY <2>2, <2>4 DEF LoggedMeasureExact
  <1> HIDE DEF Of
  <1>2. ASSUME \/ accepted' = accepted
               \/ /\ Len(accepted') = Len(accepted) + 1
                  /\ \A i \in 1 .. Len(accepted) : accepted'[i] = accepted[i]
                  /\ \/ accepted'[Len(accepted) + 1].type # "END"
                     \/ Captured(accepted'[Len(accepted) + 1].nth + 1)
                          => Of(accepted'[Len(accepted) + 1], bursts')
        PROVE  LoggedMeasureExact'
    <2>1. \A i \in 1 .. Len(accepted') :
            accepted'[i].type = "END" /\ Captured(accepted'[i].nth + 1)
              => Of(accepted'[i], bursts')
      <3>1. CASE accepted' = accepted
        BY <1>1, <3>1
      <3>2. CASE accepted' # accepted
        <4> SUFFICES ASSUME NEW i \in 1 .. Len(accepted'), accepted'[i].type = "END",
                            Captured(accepted'[i].nth + 1)
                     PROVE  Of(accepted'[i], bursts')
          OBVIOUS
        <4> HIDE DEF Captured
        <4>1. CASE i \in 1 .. Len(accepted)
          BY <1>1, <1>2, <3>2, <4>1
        <4>2. CASE i = Len(accepted) + 1
          BY <1>2, <3>2, <4>2
        <4> QED
          BY <1>0, <1>2, <3>2, <4>1, <4>2
      <3> QED
        BY <3>1, <3>2
    <2> QED
      BY <2>1 DEF LoggedMeasureExact, AllCaptured, Of, B
  <1> HIDE DEF Captured
  <1>3. CASE CaptureEndsPuff \/ CompareEndsPuff
    <2>1. /\ RF_QueuePush(Snapshot("END")) /\ Snapshot("END") \in PuffEvent
          /\ bursts' = bursts
      BY <1>3, EndPushes
    <2>2. Captured(started + 1) => Of(Snapshot("END"), bursts')
      <3> SUFFICES ASSUME Captured(started + 1) PROVE Of(Snapshot("END"), bursts')
        OBVIOUS
      <3>1. AllCaptured(started + 1)
        BY <2>1 DEF Captured, AllCaptured, B
      <3> QED
        BY <1>3, <2>1, <3>1, EndIsExact DEF Of, Snapshot, PuffEdges
    <2>3. Snapshot("END").nth = started
      BY DEF Snapshot
    <2> HIDE DEF Snapshot
    <2> QED
      BY <1>2, <2>1, <2>2, <2>3, PushOutcome
  <1>4. CASE CaptureStartsPuff
    <2>1. PICK e \in PuffEvent : RF_QueuePush(e) /\ e.type = "START"
      BY <1>4, StartPushes
    <2> QED
      BY <1>2, <2>1, PushOutcome
  <1>5. CASE ~ CaptureEndsPuff /\ ~ CompareEndsPuff /\ ~ CaptureStartsPuff
    BY <1>2, <1>5, OthersLogNothing
  <1> QED
    BY <1>3, <1>4, <1>5

\* Odd and even follow each other.
LEMMA Parity ==
  ASSUME NEW n \in Nat
  PROVE  (n % 2) \in {0, 1} /\ ((n + 1) % 2) = 1 - (n % 2)
  OBVIOUS

\* Every step keeps START and END in turn, under one number.
LEMMA StepPaired ==
  ASSUME PuffTypeOK, QueueTypeOK, Latency, BurstsStarted, EventsPaired, OpenStart,
         [Next]_vars
  PROVE  EventsPaired' /\ OpenStart'
  <1> DEFINE n == Len(accepted)
  <1>0. n \in Nat /\ puff_active \in BOOLEAN /\ rf_evt_dropped \in Nat
    BY LenProperties DEF QueueTypeOK, PuffTypeOK, StateTypeOK
  <1>p. (n % 2) \in {0, 1} /\ ((n + 1) % 2) = 1 - (n % 2)
    BY <1>0, Parity
  <1>l. ASSUME rf_evt_dropped' # 0 PROVE EventsPaired' /\ OpenStart'
    BY <1>l DEF EventsPaired, OpenStart
  <1>1. CASE CaptureEndsPuff \/ CompareEndsPuff
    <2>1. /\ RF_QueuePush(Snapshot("END")) /\ Snapshot("END") \in PuffEvent
          /\ puff_active /\ ~ puff_active'
      BY <1>1, EndPushes
    <2> DEFINE e == Snapshot("END")
    <2>2. e.type = "END" /\ e.puff_id = rf_puff_id /\ e.nth = started
      BY DEF Snapshot
    <2>e. RF_QueuePush(e) /\ e \in PuffEvent
      BY <2>1
    <2> HIDE DEF e
    <2>3. CASE /\ Len(accepted') = n + 1 /\ \A i \in 1 .. n : accepted'[i] = accepted[i]
               /\ accepted'[n + 1] = e /\ rf_evt_dropped' = rf_evt_dropped
      <3> SUFFICES ASSUME rf_evt_dropped = 0 PROVE EventsPaired' /\ OpenStart'
        BY <1>l, <2>3
      <3>1. /\ \A i \in 1 .. n : accepted[i].type = IF i % 2 = 1 THEN "START" ELSE "END"
            /\ \A i \in 1 .. n : i % 2 = 0 => /\ accepted[i].puff_id = accepted[i - 1].puff_id
                                              /\ accepted[i].nth = accepted[i - 1].nth
            /\ n % 2 = 1
        BY <2>1 DEF EventsPaired
      <3>2. n > 0 /\ accepted[n].puff_id = e.puff_id /\ accepted[n].nth = e.nth
        BY <2>1, <2>2 DEF OpenStart
      <3>3. (n + 1) % 2 = 0
        BY <1>p, <3>1
      <3>4. \A i \in 1 .. n + 1 : i \in 1 .. n \/ i = n + 1
        BY <1>0
      <3>5. \A i \in 1 .. n + 1 :
              accepted'[i].type = IF i % 2 = 1 THEN "START" ELSE "END"
        BY <2>2, <2>3, <3>1, <3>3, <3>4
      <3>6. \A i \in 1 .. n + 1 : i % 2 = 0 =>
              /\ accepted'[i].puff_id = accepted'[i - 1].puff_id
              /\ accepted'[i].nth = accepted'[i - 1].nth
        <4> SUFFICES ASSUME NEW i \in 1 .. n + 1, i % 2 = 0
                     PROVE  /\ accepted'[i].puff_id = accepted'[i - 1].puff_id
                            /\ accepted'[i].nth = accepted'[i - 1].nth
          OBVIOUS
        <4>1. i # 1 /\ i - 1 \in 1 .. n
          <5>1. 1 % 2 = 1
            OBVIOUS
          <5> QED
            BY <1>0, <5>1
        <4>2. CASE i \in 1 .. n
          BY <2>3, <3>1, <4>1, <4>2
        <4>3. CASE i = n + 1
          <5>1. i - 1 = n
            BY <1>0, <4>3
          <5> QED
            BY <2>3, <3>2, <4>1, <4>3, <5>1
        <4> QED
          BY <3>4, <4>2, <4>3
      <3> QED
        BY <2>1, <2>3, <3>3, <3>5, <3>6 DEF EventsPaired, OpenStart
    <2>4. CASE rf_evt_dropped' # 0
      BY <1>l, <2>4
    <2> QED
      BY <2>e, <2>3, <2>4, PushOutcome
  <1>2. CASE CaptureStartsPuff
    <2>1. PICK e \in PuffEvent :
            /\ RF_QueuePush(e)
            /\ e.type = "START" /\ e.puff_id = rf_puff_id' /\ e.nth = started'
            /\ ~ puff_active /\ puff_active'
      BY <1>2, StartPushes
    <2>3. CASE /\ Len(accepted') = n + 1 /\ \A i \in 1 .. n : accepted'[i] = accepted[i]
               /\ accepted'[n + 1] = e /\ rf_evt_dropped' = rf_evt_dropped
      <3> SUFFICES ASSUME rf_evt_dropped = 0 PROVE EventsPaired' /\ OpenStart'
        BY <1>l, <2>3
      <3>1. /\ \A i \in 1 .. n : accepted[i].type = IF i % 2 = 1 THEN "START" ELSE "END"
            /\ \A i \in 1 .. n : i % 2 = 0 => /\ accepted[i].puff_id = accepted[i - 1].puff_id
                                              /\ accepted[i].nth = accepted[i - 1].nth
            /\ n % 2 # 1
        BY <2>1 DEF EventsPaired
      <3>3. (n + 1) % 2 = 1
        BY <1>p, <3>1
      <3>4. \A i \in 1 .. n + 1 : i \in 1 .. n \/ i = n + 1
        BY <1>0
      <3>5. \A i \in 1 .. n + 1 :
              accepted'[i].type = IF i % 2 = 1 THEN "START" ELSE "END"
        BY <2>1, <2>3, <3>1, <3>3, <3>4
      <3>6. \A i \in 1 .. n + 1 : i % 2 = 0 =>
              /\ accepted'[i].puff_id = accepted'[i - 1].puff_id
              /\ accepted'[i].nth = accepted'[i - 1].nth
        <4> SUFFICES ASSUME NEW i \in 1 .. n + 1, i % 2 = 0
                     PROVE  /\ accepted'[i].puff_id = accepted'[i - 1].puff_id
                            /\ accepted'[i].nth = accepted'[i - 1].nth
          OBVIOUS
        <4>1. i \in 1 .. n
          BY <3>3, <3>4
        <4>2. i # 1 /\ i - 1 \in 1 .. n
          <5>1. 1 % 2 = 1
            OBVIOUS
          <5> QED
            BY <1>0, <4>1, <5>1
        <4> QED
          BY <2>3, <3>1, <4>1, <4>2
      <3> QED
        BY <1>0, <2>1, <2>3, <3>3, <3>5, <3>6 DEF EventsPaired, OpenStart
    <2> QED
      BY <1>l, <2>1, <2>3, PushOutcome
  <1>3. CASE ~ CaptureEndsPuff /\ ~ CompareEndsPuff /\ ~ CaptureStartsPuff
    BY <1>3, OthersLogNothing DEF EventsPaired, OpenStart
  <1> QED
    BY <1>1, <1>2, <1>3

-----------------------------------------------------------------------------
(* Puff detection: the inductive invariant and the theorems.               *)

IInv ==
  /\ PuffTypeOK /\ QueueIInv
  /\ Latency /\ Armed /\ BurstsStarted
  /\ Exact /\ LossIsLate
  /\ EndsLogged /\ LoggedMeasureExact
  /\ EventsPaired /\ OpenStart

\* At power-up the signal is silent and nothing has happened.
LEMMA InitIInv == Init => IInv
  <1> SUFFICES ASSUME Init PROVE IInv
    OBVIOUS
  <1>1. PuffTypeOK
    <2>1. TimerTypeOK
      <3>1. /\ cnt = TIMEOUT /\ ccr1 = 0 /\ period = 0 /\ isr = "idle" /\ wait = 0
            /\ cc1if = FALSE /\ cc1of = FALSE /\ cc3if \in BOOLEAN /\ cc3ie = FALSE
            /\ cc3_sampled = FALSE /\ first_edge = FALSE
        BY DEF Init
      <3>2. TIMEOUT \in Nat /\ LATENCY \in Nat
        BY Ticks
      <3>3. cnt \in 0 .. TIMEOUT /\ ccr1 \in 0 .. TIMEOUT /\ period \in 0 .. TIMEOUT
        BY <3>1, <3>2
      <3>4. wait \in 0 .. LATENCY
        BY <3>1, <3>2
      <3>5. /\ cc1if \in BOOLEAN /\ cc1of \in BOOLEAN /\ cc3if \in BOOLEAN
            /\ cc3ie \in BOOLEAN /\ cc3_sampled \in BOOLEAN /\ first_edge \in BOOLEAN
        BY <3>1
      <3> QED
        BY <3>1, <3>3, <3>4, <3>5 DEF TimerTypeOK
    <2>2. StateTypeOK
      <3>1. /\ puff_active = FALSE /\ started = 0 /\ current_puff_id = 0
            /\ rf_puff_id = 0 /\ rf_dur_ticks = 0 /\ rf_overcapture = 0
            /\ rf_edge_count = 0 /\ rf_puff_start_edges = 0
        BY DEF Init
      <3>2. puff_active \in BOOLEAN
        BY <3>1
      <3>3. rf_puff_start_edges \in 0 .. rf_edge_count
        BY <3>1
      <3>4. started \in Nat /\ current_puff_id \in Nat /\ rf_puff_id \in Nat
        BY <3>1
      <3>5. rf_dur_ticks \in Nat /\ rf_overcapture \in Nat /\ rf_edge_count \in Nat
        BY <3>1
      <3> QED
        BY <3>2, <3>3, <3>4, <3>5 DEF StateTypeOK
    <2>3. RowsTypeOK /\ BurstsTypeOK
      BY EmptySeq DEF Init, RowsTypeOK, BurstsTypeOK
    <2> QED
      BY <2>1, <2>2, <2>3 DEF PuffTypeOK
  <1>2. QueueIInv
    BY QueueInitIInv DEF Init
  <1>3. accepted = << >> /\ Len(accepted) = 0 /\ bursts = << >> /\ B = 0
    BY EmptySeq DEF Init, QueueInit, B
  <1>4. Latency /\ Armed /\ BurstsStarted
    <2>1. /\ isr = "idle" /\ cc1if = FALSE /\ puff_active = FALSE /\ cc3ie = FALSE
          /\ cnt = TIMEOUT /\ started = 0
      BY DEF Init
    <2>2. TIMEOUT \in Nat
      BY Ticks
    <2>3. Latency
      BY <2>1 DEF Latency
    <2>4. Armed
      BY <2>1 DEF Armed
    <2> QED
      BY <1>3, <2>1, <2>2, <2>3, <2>4 DEF BurstsStarted, Unserved
  <1>5. Exact /\ LossIsLate
    BY <1>3, Ticks DEF Init, Exact, LossIsLate, Clean, AllCaptured, B, CountIs, PuffIs, NewIs,
                       ReadsNew, ServesNew, Unread
  <1>6. EndsLogged /\ LoggedMeasureExact /\ EventsPaired /\ OpenStart
    BY <1>3 DEF Init, EndsLogged, LoggedMeasureExact, EventsPaired, OpenStart
  <1> QED
    BY <1>1, <1>2, <1>4, <1>5, <1>6 DEF IInv

\* Every step keeps it.
LEMMA StepIInv == IInv /\ [Next]_vars => IInv'
  <1> SUFFICES ASSUME IInv, [Next]_vars PROVE IInv'
    OBVIOUS
  <1>1. PuffTypeOK' /\ QueueIInv' /\ QueueTypeOK
    <2>1. [QueueNext]_queueVars
      BY StepIsQueueStep DEF IInv, PuffTypeOK
    <2> QED
      BY <2>1, StepPuffTypes, QueueStepIInv DEF IInv, QueueIInv
  <1>2. Latency' /\ Armed' /\ BurstsStarted'
    BY StepLatency, StepArmed, StepBurstsStarted DEF IInv, PuffTypeOK
  <1>3. Exact' /\ LossIsLate'
    BY StepExact, StepLossIsLate DEF IInv
  <1>4. EndsLogged' /\ LoggedMeasureExact' /\ EventsPaired' /\ OpenStart'
    BY <1>1, StepEndsLogged, StepLoggedMeasure, StepPaired DEF IInv
  <1> QED
    BY <1>1, <1>2, <1>3, <1>4 DEF IInv

\* The inductive invariant of the detector and its queue holds in every state.
THEOREM DetectorInvariant == Spec => []IInv
  BY InitIInv, StepIInv, PTL DEF Spec

\* A puff in progress always has its end coming, and without one the compare
\* interrupt is off: the callbacks and the hardware never leave a puff on for ever.
THEOREM EndIsComing == Spec => []PuffInv
  <1>1. IInv => PuffInv
    <2> SUFFICES ASSUME IInv PROVE PuffInv
      OBVIOUS
    <2>1. TypeOK
      BY TypeParts DEF IInv, QueueIInv
    <2>2. EndIsArmed
      BY DEF IInv, Armed, EndIsArmed, Quiet
    <2> QED
      BY <2>1, <2>2 DEF PuffInv
  <1> QED
    BY <1>1, DetectorInvariant, PTL

\* No burst of the signal is ever split into two puffs, and while no capture is lost
\* no two are merged, for every timeout of more than three handler latencies.
THEOREM OnePuffEach == Spec => []OnePuffPerBurst
  <1>1. IInv => OnePuffPerBurst
    <2> SUFFICES ASSUME IInv PROVE OnePuffPerBurst
      OBVIOUS
    <2>1. started <= Len(bursts)
      BY DEF IInv, BurstsStarted, B
    <2>2. ASSUME Quiet, AllCaptured(Len(bursts)) PROVE started = Len(bursts)
      <3>1. CountIs
        BY <2>2 DEF IInv, Exact, Clean, B
      <3>2. ~ ReadsNew /\ ~ ServesNew
        BY <2>2 DEF Quiet, ReadsNew, ServesNew, Unread
      <3> QED
        BY <3>1, <3>2 DEF CountIs, B
    <2> QED
      BY <2>1, <2>2 DEF OnePuffPerBurst
  <1> QED
    BY <1>1, DetectorInvariant, PTL

\* While no capture is lost, duration and edges are those of the burst: of the puff in
\* progress once its edges are served, and of every END in the queue.
THEOREM MeasuresExact == Spec => []MeasureExact
  <1>1. IInv => MeasureExact
    <2> SUFFICES ASSUME IInv PROVE MeasureExact
      OBVIOUS
    <2>1. ASSUME Quiet, puff_active, AllCaptured(Len(bursts))
          PROVE  /\ rf_dur_ticks = bursts[Len(bursts)].span
                 /\ rf_edge_count - rf_puff_start_edges = bursts[Len(bursts)].edges
      <3>1. CountIs /\ PuffIs
        BY <2>1 DEF IInv, Exact, Clean, B
      <3>2. ~ ReadsNew /\ ~ ServesNew /\ ~ Unread /\ isr = "idle"
        BY <2>1 DEF Quiet, ReadsNew, ServesNew, Unread
      <3>3. started = B
        BY <3>1, <3>2 DEF CountIs
      <3>4. rf_dur_ticks \in Nat /\ PuffEdges \in Nat
        BY CountFrom DEF IInv, PuffTypeOK, StateTypeOK, PuffEdges
      <3>5. rf_dur_ticks + 0 + 0 = bursts[B].span /\ PuffEdges + 0 + 0 = bursts[B].edges
        BY <2>1, <3>1, <3>2, <3>3 DEF PuffIs, Owed
      <3> QED
        BY <3>4, <3>5 DEF PuffEdges, B
    <2> QED
      BY <2>1 DEF IInv, MeasureExact, RunningMeasureExact
  <1> QED
    BY <1>1, DetectorInvariant, PTL

\* While the queue loses nothing it carries START and END of each puff in turn, under
\* one number, whenever a run starts and restarts the numbering.
THEOREM StartAndEndPaired == Spec => []EventsPaired
  <1>1. IInv => EventsPaired
    BY DEF IInv
  <1> QED
    BY <1>1, DetectorInvariant, PTL

\* In its place between the TIM2 interrupt and the main loop the ring is the lossy
\* FIFO of PuffChannel: what the detector does to it, it allows.
THEOREM DetectorImplementsChannel == Spec => ImplementsChannel
  <1>1. Init => QueueInit
    BY DEF Init
  <1>2. IInv /\ [Next]_vars => [QueueNext]_queueVars
    BY StepIsQueueStep DEF IInv, PuffTypeOK
  <1>3. Spec => QueueSpec
    BY <1>1, <1>2, DetectorInvariant, PTL DEF Spec, QueueSpec
  <1> QED
    BY <1>3, QueueImplementsChannel

=============================================================================

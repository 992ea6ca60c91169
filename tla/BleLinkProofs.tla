--------------------------- MODULE BleLinkProofs ---------------------------
(***************************************************************************)
(* Proofs about the BLE link, for every number of links, pairs, queued     *)
(* events and sequence values.                                             *)
(***************************************************************************)
EXTENDS BleLink, TLAPS

Kinds == {"connected", "disconnected", "enabled", "disabled"}
Changes == {"connected", "disconnected"}

-----------------------------------------------------------------------------
(* The queue of events.                                                    *)

\* What appending leaves of a sequence.
LEMMA SequenceGrows ==
  ASSUME NEW S, NEW s \in Seq(S), NEW e \in S
  PROVE  /\ Append(s, e) \in Seq(S) /\ Append(s, e) # << >>
         /\ Len(Append(s, e)) = Len(s) + 1 /\ Len(s) \in Nat
         /\ \A i \in 1 .. Len(s) : Append(s, e)[i] = s[i]
         /\ Append(s, e)[Len(s) + 1] = e
  OBVIOUS

\* The items of a sequence have its type.
LEMMA SequenceItem ==
  ASSUME NEW S, NEW s \in Seq(S), NEW i \in 1 .. Len(s)
  PROVE  s[i] \in S
  OBVIOUS

\* What the taken event leaves of the queue.
LEMMA QueueShrinks ==
  ASSUME NEW s \in Seq(Kinds), s # << >>
  PROVE  /\ Tail(s) \in Seq(Kinds)
         /\ Len(Tail(s)) = Len(s) - 1 /\ Len(s) \in Nat \ {0}
         /\ Head(s) = s[1] /\ Head(s) \in Kinds
         /\ \A i \in 1 .. Len(s) - 1 : Tail(s)[i] = s[i + 1]
  OBVIOUS

-----------------------------------------------------------------------------
(* Types.  The Booleans and the rest are kept apart for the provers.       *)

FlagsOK ==
  /\ radio_adv \in BOOLEAN /\ radio_link \in BOOLEAN
  /\ adv_timer \in BOOLEAN /\ adv_cancel_task \in BOOLEAN
  /\ notifications_enabled \in BOOLEAN /\ latest_sample_valid \in BOOLEAN
  /\ min_gap \in BOOLEAN

LinkOK ==
  /\ events \in Seq(Kinds) /\ Len(events) <= MaxPending
  /\ Device_Connection_Status \in {"IDLE", "FAST_ADV", "CONNECTED_SERVER"}
  /\ links \in 0 .. MaxLinks

StreamOK ==
  /\ latest_sample \in 0 .. MaxPairs /\ pairs \in 0 .. MaxPairs
  /\ sequence \in 0 .. SEQ - 1
  /\ sent \in Seq([pair : 1 .. MaxPairs, sequence : 0 .. SEQ - 1])

\* The stream of pairs: the newest pair is the one kept, and while it is valid
\* it is newer than everything sent.
PairInv ==
  /\ latest_sample = pairs
  /\ latest_sample_valid => latest_sample > 0
  /\ \A i \in 1 .. Len(sent) :
       sent[i].pair <= latest_sample /\ (latest_sample_valid => sent[i].pair < latest_sample)

\* The next sequence number follows the last one sent.
SequenceInv ==
  sent # << >> => sequence = (sent[Len(sent)].sequence + 1) % SEQ

\* The three parts are the type invariant.
LEMMA TypeParts ==
  (TypeOK <=> FlagsOK /\ LinkOK /\ StreamOK) /\ (TypeOK <=> FlagsOK /\ LinkOK /\ StreamOK)'
  BY DEF TypeOK, FlagsOK, LinkOK, StreamOK, Kinds

\* The flags stay flags.
LEMMA FlagsStep ==
  ASSUME FlagsOK, Next
  PROVE  FlagsOK'
  <1> USE DEF FlagsOK, cpu2, app, p2ps
  <1>1. CASE Connects \/ Disconnects \/ Subscribes
    BY <1>1, Zenon DEF Connects, Disconnects, Subscribes
  <1>2. CASE TimerExpires \/ Adv_Cancel
    BY <1>2, Zenon DEF TimerExpires, Adv_Cancel
  <1>3. CASE UserEvent
    <2>1. UNCHANGED <<radio_link, adv_cancel_task>>
      BY <1>3 DEF UserEvent
    <2>2. CASE ConnectionComplete
      BY <2>1, <2>2, Zenon DEF ConnectionComplete
    <2>3. CASE DisconnectionComplete
      BY <2>1, <2>3, Zenon DEF DisconnectionComplete, Adv_Request, PeerGone
    <2>4. CASE NotifyEnabled(TRUE) \/ NotifyEnabled(FALSE)
      BY <2>1, <2>4, Zenon DEF NotifyEnabled
    <2> QED
      BY <1>3, <2>2, <2>3, <2>4, Zenon DEF UserEvent
  <1>4. CASE P2PS_APP_SetMagSample \/ GapElapses
    BY <1>4, Zenon DEF P2PS_APP_SetMagSample, GapElapses
  <1>5. CASE Sends \/ FailsToSend
    BY <1>5, Zenon DEF Sends, AfterSend, FailsToSend, SendFails
  <1> QED
    BY <1>1, <1>2, <1>3, <1>4, <1>5 DEF Next

\* The status, the queue and the number of links keep their types.
LEMMA LinkStep ==
  ASSUME LinkOK, Next
  PROVE  LinkOK'
  <1> USE BleConstants DEF LinkOK, cpu2, app, p2ps
  <1>1. CASE Connects \/ Disconnects \/ Subscribes
    <2>1. PICK e \in Kinds : Queues(e)
      BY <1>1 DEF Connects, Disconnects, Subscribes, Kinds
    <2>2. events' \in Seq(Kinds) /\ Len(events') <= MaxPending
      BY <2>1, SequenceGrows DEF Queues
    <2> QED
      BY <1>1, <2>2 DEF Connects, Disconnects, Subscribes
  <1>2. CASE TimerExpires \/ Adv_Cancel
    BY <1>2 DEF TimerExpires, Adv_Cancel
  <1>3. CASE UserEvent
    <2>1. events' \in Seq(Kinds) /\ Len(events') <= MaxPending
      BY <1>3, QueueShrinks DEF UserEvent
    <2> QED
      BY <1>3, <2>1 DEF UserEvent, ConnectionComplete, DisconnectionComplete, Adv_Request,
         NotifyEnabled
  <1>4. CASE P2PS_APP_SetMagSample \/ GapElapses \/ Sends \/ FailsToSend
    BY <1>4 DEF P2PS_APP_SetMagSample, GapElapses, Sends, FailsToSend
  <1> QED
    BY <1>1, <1>2, <1>3, <1>4 DEF Next

-----------------------------------------------------------------------------
(* The stream of pairs.                                                    *)

Stream == <<latest_sample, pairs, sequence, sent>>

\* Only a new pair and a send touch the stream.
LEMMA StreamKept ==
  ASSUME [Next]_vars, ~P2PS_APP_SetMagSample, ~Sends
  PROVE  UNCHANGED Stream /\ (latest_sample_valid' => latest_sample_valid)
  <1> USE DEF cpu2, app, p2ps
  <1>1. UNCHANGED Stream
    BY DEF Stream, vars, Next, Connects, Disconnects, Subscribes, TimerExpires, Adv_Cancel,
       UserEvent, ConnectionComplete, DisconnectionComplete, NotifyEnabled, GapElapses, FailsToSend
  <1>2. latest_sample_valid' => latest_sample_valid
    <2>1. CASE UserEvent
      BY <2>1, Zenon DEF UserEvent, ConnectionComplete, DisconnectionComplete, PeerGone,
         NotifyEnabled
    <2>2. CASE Connects \/ Disconnects \/ Subscribes \/ TimerExpires \/ Adv_Cancel
      BY <2>2, Zenon DEF Connects, Disconnects, Subscribes, TimerExpires, Adv_Cancel
    <2>3. CASE GapElapses \/ FailsToSend
      BY <2>3, Zenon DEF GapElapses, FailsToSend, SendFails
    <2>4. CASE UNCHANGED vars
      BY <2>4, Zenon DEF vars
    <2> QED
      BY <2>1, <2>2, <2>3, <2>4 DEF Next
  <1> QED
    BY <1>1, <1>2

\* A new sample and a send keep the stream in order and its numbers gapless.
LEMMA StreamStep ==
  StreamOK /\ PairInv /\ SequenceInv /\ EachPairAtMostOnce /\ SequenceHasNoGap /\ [Next]_vars
    => (StreamOK /\ PairInv /\ SequenceInv /\ EachPairAtMostOnce /\ SequenceHasNoGap)'
  <1> SUFFICES ASSUME StreamOK, PairInv, SequenceInv, EachPairAtMostOnce, SequenceHasNoGap,
                      [Next]_vars
               PROVE  (StreamOK /\ PairInv /\ SequenceInv /\ EachPairAtMostOnce
                        /\ SequenceHasNoGap)'
    OBVIOUS
  <1> USE BleConstants
  <1>1. CASE P2PS_APP_SetMagSample
    <2>1. /\ latest_sample' = pairs + 1 /\ pairs' = pairs + 1 /\ pairs < MaxPairs
          /\ UNCHANGED <<sequence, sent>>
      BY <1>1 DEF P2PS_APP_SetMagSample
    <2>2. \A i \in 1 .. Len(sent) : sent[i].pair \in 1 .. MaxPairs /\ sent[i].pair <= pairs
      <3> TAKE i \in 1 .. Len(sent)
      <3>1. sent[i] \in [pair : 1 .. MaxPairs, sequence : 0 .. SEQ - 1]
        BY SequenceItem DEF StreamOK
      <3> QED
        BY <3>1 DEF PairInv
    <2>3. StreamOK' /\ PairInv'
      BY <2>1, <2>2 DEF StreamOK, PairInv
    <2> QED
      BY <2>1, <2>3 DEF SequenceInv, EachPairAtMostOnce, SequenceHasNoGap
  <1>2. CASE Sends
    <2> DEFINE n == Len(sent)
               new == [pair |-> latest_sample, sequence |-> sequence]
    <2>1. /\ sent' = Append(sent, new)
          /\ latest_sample_valid /\ ~latest_sample_valid'
          /\ sequence' = (sequence + 1) % SEQ
          /\ UNCHANGED <<latest_sample, pairs>>
      BY <1>2 DEF Sends, AfterSend, CanSend
    <2>2. new \in [pair : 1 .. MaxPairs, sequence : 0 .. SEQ - 1]
      <3>1. latest_sample \in 1 .. MaxPairs
        <4>1. latest_sample > 0
          BY <2>1, Zenon DEF PairInv
        <4> QED
          BY <4>1 DEF StreamOK
      <3> QED
        BY <3>1 DEF StreamOK
    <2>3. /\ sent' \in Seq([pair : 1 .. MaxPairs, sequence : 0 .. SEQ - 1])
          /\ n \in Nat /\ Len(sent') = n + 1 /\ sent' # << >>
          /\ sent'[n + 1] = new
          /\ \A i \in 1 .. n : sent'[i] = sent[i]
      BY <2>1, <2>2, SequenceGrows DEF StreamOK
    <2>4. sequence' \in 0 .. SEQ - 1
      BY <2>1 DEF StreamOK
    <2> HIDE DEF n
    <2>5. StreamOK'
      BY <2>1, <2>3, <2>4 DEF StreamOK
    <2>6. \A i \in 1 .. n : sent[i].pair < latest_sample
      BY <2>1 DEF PairInv, n
    <2>7. PairInv'
      <3>1. \A i \in 1 .. n : sent'[i].pair < latest_sample'
        BY <2>1, <2>3, <2>6
      <3>2. sent'[n + 1].pair = latest_sample'
        BY <2>1, <2>3
      <3>3. latest_sample' \in Nat /\ latest_sample' = pairs'
        BY <2>1 DEF StreamOK, PairInv
      <3>4. \A i \in 1 .. n + 1 : sent'[i].pair <= latest_sample'
        <4> TAKE i \in 1 .. n + 1
        <4>1. sent'[i].pair \in 1 .. MaxPairs
          <5>1. sent'[i] \in [pair : 1 .. MaxPairs, sequence : 0 .. SEQ - 1]
            BY <2>3, SequenceItem
          <5> QED
            BY <5>1
        <4>2. i = n + 1 \/ i \in 1 .. n
          BY <2>3
        <4> QED
          BY <3>1, <3>2, <3>3, <4>1, <4>2
      <3> QED
        BY <2>1, <2>3, <3>3, <3>4 DEF PairInv
    <2>8. SequenceInv'
      BY SMTT(20), <2>1, <2>3 DEF SequenceInv
    <2>9. EachPairAtMostOnce'
      <3> SUFFICES ASSUME NEW i \in 1 .. n + 1, NEW j \in 1 .. n + 1, i < j
                   PROVE  sent'[i].pair < sent'[j].pair
        BY <2>3 DEF EachPairAtMostOnce
      <3>1. i \in 1 .. n /\ sent'[i] = sent[i]
        BY <2>3
      <3>2. CASE j = n + 1
        BY <2>3, <2>6, <3>1, <3>2
      <3>3. CASE j # n + 1
        <4>1. j \in 1 .. n /\ sent'[j] = sent[j]
          BY <2>3, <3>3
        <4> QED
          BY <3>1, <4>1 DEF EachPairAtMostOnce, n
      <3> QED
        BY <3>2, <3>3
    <2>10. SequenceHasNoGap'
      <3> SUFFICES ASSUME NEW i \in 1 .. n
                   PROVE  sent'[i + 1].sequence = (sent'[i].sequence + 1) % SEQ
        BY <2>3 DEF SequenceHasNoGap
      <3>1. CASE i = n
        BY <2>3, <3>1 DEF SequenceInv, n
      <3>2. CASE i < n
        <4>1. i \in 1 .. n - 1 /\ i + 1 \in 1 .. n
          BY <2>3, <3>2
        <4> QED
          BY <2>3, <4>1 DEF SequenceHasNoGap, n
      <3> QED
        BY <2>3, <3>1, <3>2
    <2> QED
      BY <2>5, <2>7, <2>8, <2>9, <2>10
  <1>3. CASE ~P2PS_APP_SetMagSample /\ ~Sends
    BY <1>3, StreamKept DEF Stream, StreamOK, PairInv, SequenceInv, EachPairAtMostOnce,
       SequenceHasNoGap
  <1> QED
    BY <1>1, <1>2, <1>3

\* The initial state has the types and an empty stream.
LEMMA StreamInit ==
  Init => TypeOK /\ PairInv /\ SequenceInv /\ EachPairAtMostOnce /\ SequenceHasNoGap
  <1> SUFFICES ASSUME Init
               PROVE  TypeOK /\ PairInv /\ SequenceInv /\ EachPairAtMostOnce /\ SequenceHasNoGap
    OBVIOUS
  <1>1. FlagsOK
    BY Zenon DEF Init, FlagsOK
  <1>2. LinkOK /\ StreamOK
    BY BleConstants DEF Init, LinkOK, StreamOK
  <1> QED
    BY <1>1, <1>2, TypeParts DEF Init, PairInv, SequenceInv, EachPairAtMostOnce, SequenceHasNoGap

\* The types and the stream together are inductive.
LEMMA StreamInvariant ==
  Spec => [](TypeOK /\ PairInv /\ SequenceInv /\ EachPairAtMostOnce /\ SequenceHasNoGap)
  <1> DEFINE IInv == TypeOK /\ PairInv /\ SequenceInv /\ EachPairAtMostOnce /\ SequenceHasNoGap
  <1>1. Init => IInv
    BY StreamInit
  <1>2. IInv /\ [Next]_vars => IInv'
    <2>1. ASSUME IInv, Next
          PROVE  FlagsOK' /\ LinkOK'
      BY <2>1, TypeParts, FlagsStep, LinkStep
    <2>2. ASSUME IInv, UNCHANGED vars
          PROVE  FlagsOK' /\ LinkOK'
      BY <2>2, TypeParts DEF FlagsOK, LinkOK, vars, cpu2, app, p2ps
    <2> QED
      BY <2>1, <2>2, TypeParts, StreamStep
  <1> QED
    BY <1>1, <1>2, PTL DEF Spec

\* Every variable keeps its type.
THEOREM TypeCorrect == Spec => []TypeOK
  BY StreamInvariant, PTL

\* No pair goes out twice, and none after a newer one.
THEOREM PairsOnce == Spec => []EachPairAtMostOnce
  BY StreamInvariant, PTL

\* The sequence numbers have no gap, for every width of the counter.
THEOREM NoGap == Spec => []SequenceHasNoGap
  BY StreamInvariant, PTL

\* Both together: the notifications are a gapless, repetition-free stream.
THEOREM InOrder == Spec => []NotifiedInOrder
  <1>1. EachPairAtMostOnce /\ SequenceHasNoGap => NotifiedInOrder
    BY DEF NotifiedInOrder
  <1> QED
    BY <1>1, PairsOnce, NoGap, PTL

-----------------------------------------------------------------------------
(* The status and the link.                                                *)

Connected == Device_Connection_Status = "CONNECTED_SERVER"

\* Event i of the queue is the last change of the link it tells of.
LastChange(i) ==
  /\ i \in 1 .. Len(events) /\ events[i] \in Changes
  /\ \A j \in i + 1 .. Len(events) : events[j] \notin Changes

NoChange == \A i \in 1 .. Len(events) : events[i] \notin Changes

\* CPU2's link is what the last change in the queue says, and what the status
\* says once no change waits.
ChangeInv ==
  \/ NoChange /\ (Connected <=> radio_link)
  \/ \E i \in 1 .. Len(events) : LastChange(i) /\ (radio_link <=> events[i] = "connected")

\* A subscription in the queue is of a peer that is, or by then will be, the
\* one the firmware believes to be connected to.
SubscribeInv ==
  \A i \in 1 .. Len(events) : events[i] = "enabled" =>
    \/ Connected /\ \A k \in 1 .. i - 1 : events[k] # "disconnected"
    \/ \E j \in 1 .. i - 1 :
         events[j] = "connected" /\ \A k \in j + 1 .. i - 1 : events[k] # "disconnected"

LinkInv == ChangeInv /\ SubscribeInv /\ EnabledByThisPeer

\* An event CPU2 queues keeps what the queue says of the link.
LEMMA QueuedStep ==
  ASSUME LinkOK, LinkInv, Connects \/ Disconnects \/ Subscribes
  PROVE  LinkInv'
  <1>0. PICK n \in Nat : n = Len(events)
    BY DEF LinkOK
  <1> USE <1>0
  <1>1. PICK e \in Kinds :
          /\ events' = Append(events, e)
          /\ e = "connected" => radio_link'
          /\ e = "disconnected" => ~radio_link'
          /\ e \notin Changes => (radio_link /\ radio_link')
    <2>1. CASE Connects
      BY <2>1 DEF Connects, Queues, Kinds, Changes
    <2>2. CASE Disconnects
      BY <2>2 DEF Disconnects, Queues, Kinds, Changes
    <2>3. CASE Subscribes
      BY <2>3, Zenon DEF Subscribes, Queues, Kinds, Changes
    <2> QED
      BY <2>1, <2>2, <2>3
  <1>2. UNCHANGED <<Device_Connection_Status, notifications_enabled>>
    BY DEF Connects, Disconnects, Subscribes, app, p2ps
  <1>3. /\ n \in Nat /\ Len(events') = n + 1 /\ events'[n + 1] = e
        /\ \A i \in 1 .. n : events'[i] = events[i]
    BY <1>1, SequenceGrows DEF LinkOK
  <1>4. ChangeInv'
    <2>1. CASE e \in Changes
      <3>1. LastChange(n + 1)'
        BY <1>3, <2>1 DEF LastChange
      <3>2. radio_link' <=> e = "connected"
        BY <1>1, <2>1 DEF Changes
      <3> QED
        BY <1>3, <3>1, <3>2 DEF ChangeInv
    <2>2. CASE e \notin Changes
      <3>1. radio_link /\ radio_link'
        BY <1>1, <2>2
      <3>2. CASE NoChange /\ (Connected <=> radio_link)
        <4>1. NoChange'
          BY <1>3, <2>2, <3>2 DEF NoChange
        <4> QED
          BY <1>2, <3>1, <3>2, <4>1 DEF ChangeInv, Connected
      <3>3. ASSUME NEW i \in 1 .. n, LastChange(i), radio_link <=> events[i] = "connected"
            PROVE  ChangeInv'
        <4>1. i \in 1 .. n + 1 /\ events'[i] = events[i]
          BY <1>3
        <4>2. LastChange(i)'
          BY <1>3, <2>2, <3>3, <4>1 DEF LastChange
        <4> QED
          BY <1>3, <3>1, <3>3, <4>1, <4>2 DEF ChangeInv
      <3> QED
        BY <3>2, <3>3 DEF LinkInv, ChangeInv
    <2> QED
      BY <2>1, <2>2
  <1>5. SubscribeInv'
    <2> SUFFICES ASSUME NEW i \in 1 .. n + 1, events'[i] = "enabled"
                 PROVE  \/ Connected' /\ \A k \in 1 .. i - 1 : events'[k] # "disconnected"
                        \/ \E j \in 1 .. i - 1 :
                             /\ events'[j] = "connected"
                             /\ \A k \in j + 1 .. i - 1 : events'[k] # "disconnected"
      BY <1>3 DEF SubscribeInv
    <2>1. \A k \in 1 .. i - 1 : k \in 1 .. n /\ events'[k] = events[k]
      BY <1>3
    <2>2. Connected' <=> Connected
      BY <1>2 DEF Connected
    <2>3. CASE i \in 1 .. n
      <3>1. events[i] = "enabled"
        BY <1>3, <2>3
      <3>2. CASE Connected /\ \A k \in 1 .. i - 1 : events[k] # "disconnected"
        BY <2>1, <2>2, <3>2
      <3>3. ASSUME NEW j \in 1 .. i - 1, events[j] = "connected",
                   \A k \in j + 1 .. i - 1 : events[k] # "disconnected"
            PROVE  \E l \in 1 .. i - 1 :
                     /\ events'[l] = "connected"
                     /\ \A k \in l + 1 .. i - 1 : events'[k] # "disconnected"
        <4>1. \A k \in j + 1 .. i - 1 : events'[k] # "disconnected"
          BY <1>3, <2>1, <3>3
        <4> QED
          BY <2>1, <3>3, <4>1
      <3> QED
        BY <2>3, <3>1, <3>2, <3>3 DEF LinkInv, SubscribeInv
    <2>4. CASE i = n + 1
      <3>1. radio_link
        BY <1>1, <1>3, <2>4 DEF Changes
      <3>2. CASE NoChange /\ (Connected <=> radio_link)
        <4>1. \A k \in 1 .. i - 1 : events'[k] # "disconnected"
          BY <2>1, <3>2 DEF NoChange, Changes
        <4> QED
          BY <2>2, <3>1, <3>2, <4>1
      <3>3. ASSUME NEW j \in 1 .. n, LastChange(j), radio_link <=> events[j] = "connected"
            PROVE  \E l \in 1 .. i - 1 :
                     /\ events'[l] = "connected"
                     /\ \A k \in l + 1 .. i - 1 : events'[k] # "disconnected"
        <4>1. j \in 1 .. i - 1 /\ events'[j] = "connected"
          BY <1>3, <2>4, <3>1, <3>3
        <4>2. \A k \in j + 1 .. i - 1 : events'[k] # "disconnected"
          BY <1>3, <2>1, <2>4, <3>3 DEF LastChange, Changes
        <4> QED
          BY <4>1, <4>2
      <3> QED
        BY <3>2, <3>3 DEF LinkInv, ChangeInv
    <2> QED
      BY <1>3, <2>3, <2>4
  <1> QED
    BY <1>2, <1>4, <1>5 DEF LinkInv, EnabledByThisPeer

\* An event the main loop handles moves the status along with the queue.
LEMMA HandledStep ==
  ASSUME LinkOK, LinkInv, UserEvent
  PROVE  LinkInv'
  <1>0. PICK n \in Nat : n = Len(events)
    BY DEF LinkOK
  <1> USE <1>0
  <1>1. /\ n \in Nat \ {0} /\ Len(events') = n - 1
        /\ \A i \in 1 .. n - 1 : events'[i] = events[i + 1]
        /\ radio_link' = radio_link
    BY QueueShrinks DEF LinkOK, UserEvent
  <1>2. /\ events[1] = "connected" => Connected'
        /\ events[1] = "disconnected" => ~Connected' /\ ~notifications_enabled'
        /\ events[1] \notin Changes => (Connected' <=> Connected)
        /\ notifications_enabled' => (notifications_enabled /\ events[1] # "disconnected")
                                       \/ events[1] = "enabled"
    <2>1. Head(events) = events[1]
      BY QueueShrinks DEF LinkOK, UserEvent
    <2>2. CASE Head(events) = "connected" /\ ConnectionComplete
      BY <2>1, <2>2, Zenon DEF ConnectionComplete, Connected, Changes, p2ps
    <2>3. CASE Head(events) = "disconnected" /\ DisconnectionComplete
      BY <2>1, <2>3 DEF DisconnectionComplete, Adv_Request, PeerGone, Connected, Changes
    <2>4. CASE Head(events) = "enabled" /\ NotifyEnabled(TRUE)
      BY <2>1, <2>4 DEF NotifyEnabled, Connected, Changes
    <2>5. CASE Head(events) = "disabled" /\ NotifyEnabled(FALSE)
      BY <2>1, <2>5 DEF NotifyEnabled, Connected, Changes
    <2> QED
      BY <2>2, <2>3, <2>4, <2>5, Zenon DEF UserEvent
  <1>3. ChangeInv'
    <2>1. CASE NoChange /\ (Connected <=> radio_link)
      <3>1. NoChange' /\ events[1] \notin Changes
        BY <1>1, <2>1 DEF NoChange
      <3> QED
        BY <1>1, <1>2, <2>1, <3>1 DEF ChangeInv
    <2>2. ASSUME LastChange(1), radio_link <=> events[1] = "connected"
          PROVE  ChangeInv'
      <3>1. NoChange'
        BY <1>1, <2>2 DEF LastChange, NoChange
      <3>2. Connected' <=> radio_link'
        BY <1>1, <1>2, <2>2 DEF LastChange, Changes
      <3> QED
        BY <3>1, <3>2 DEF ChangeInv
    <2>3. ASSUME NEW i \in 2 .. n, LastChange(i), radio_link <=> events[i] = "connected"
          PROVE  ChangeInv'
      <3>1. i - 1 \in 1 .. n - 1 /\ events'[i - 1] = events[i]
        BY <1>1
      <3>2. LastChange(i - 1)'
        BY <1>1, <2>3, <3>1 DEF LastChange
      <3> QED
        BY <1>1, <2>3, <3>1, <3>2 DEF ChangeInv
    <2>4. \A i \in 1 .. n : i = 1 \/ i \in 2 .. n
      BY <1>1
    <2> QED
      BY <2>1, <2>2, <2>3, <2>4 DEF LinkInv, ChangeInv
  <1>4. SubscribeInv'
    <2> SUFFICES ASSUME NEW i \in 1 .. n - 1, events'[i] = "enabled"
                 PROVE  \/ Connected' /\ \A k \in 1 .. i - 1 : events'[k] # "disconnected"
                        \/ \E j \in 1 .. i - 1 :
                             /\ events'[j] = "connected"
                             /\ \A k \in j + 1 .. i - 1 : events'[k] # "disconnected"
      BY <1>1 DEF SubscribeInv
    <2>1. i + 1 \in 1 .. n /\ events[i + 1] = "enabled"
      BY <1>1
    <2>2. \A k \in 1 .. i - 1 : k + 1 \in 2 .. i /\ k \in 1 .. n - 1 /\ events'[k] = events[k + 1]
      BY <1>1
    <2>3. ASSUME NEW j \in 2 .. i, events[j] = "connected",
                 \A k \in j + 1 .. i : events[k] # "disconnected"
          PROVE  \E l \in 1 .. i - 1 :
                   /\ events'[l] = "connected"
                   /\ \A k \in l + 1 .. i - 1 : events'[k] # "disconnected"
      <3>1. j - 1 \in 1 .. i - 1 /\ events'[j - 1] = "connected"
        BY <1>1, <2>3
      <3>2. \A k \in (j - 1) + 1 .. i - 1 : events'[k] # "disconnected"
        <4> TAKE k \in (j - 1) + 1 .. i - 1
        <4>1. k + 1 \in j + 1 .. i /\ k \in 1 .. i - 1
          BY <1>1
        <4> QED
          BY <2>2, <2>3, <4>1
      <3> QED
        BY <3>1, <3>2
    <2>4. ASSUME \A k \in 2 .. i : events[k] # "disconnected"
          PROVE  \A k \in 1 .. i - 1 : events'[k] # "disconnected"
      BY <2>2, <2>4
    <2>5. CASE Connected /\ \A k \in 1 .. i : events[k] # "disconnected"
      <3>1. Connected'
        BY <1>1, <1>2, <2>5 DEF Changes
      <3> QED
        BY <1>1, <2>4, <2>5, <3>1
    <2>6. ASSUME NEW j \in 1 .. i, events[j] = "connected",
                 \A k \in j + 1 .. i : events[k] # "disconnected"
          PROVE  \/ Connected' /\ \A k \in 1 .. i - 1 : events'[k] # "disconnected"
                 \/ \E l \in 1 .. i - 1 :
                      /\ events'[l] = "connected"
                      /\ \A k \in l + 1 .. i - 1 : events'[k] # "disconnected"
      <3>1. CASE j = 1
        BY <1>2, <2>4, <2>6, <3>1
      <3>2. CASE j \in 2 .. i
        BY <2>3, <2>6, <3>2
      <3> QED
        BY <1>1, <3>1, <3>2
    <2>7. (i + 1) - 1 = i
      BY <1>1
    <2> QED
      BY <2>1, <2>5, <2>6, <2>7 DEF LinkInv, SubscribeInv
  <1>5. EnabledByThisPeer'
    <2> SUFFICES ASSUME notifications_enabled'
                 PROVE  Connected'
      BY DEF EnabledByThisPeer, Connected
    <2>1. CASE notifications_enabled /\ events[1] # "disconnected"
      <3>1. Connected
        BY <2>1 DEF LinkInv, EnabledByThisPeer, Connected
      <3> QED
        BY <1>2, <2>1, <3>1 DEF Changes
    <2>2. CASE events[1] = "enabled"
      <3>1. Connected
        BY <1>1, <2>2 DEF LinkInv, SubscribeInv
      <3> QED
        BY <1>2, <2>2, <3>1 DEF Changes
    <2> QED
      BY <1>2, <2>1, <2>2
  <1> QED
    BY <1>3, <1>4, <1>5 DEF LinkInv

\* Everything else leaves the queue and the link alone, and the status of a
\* connected device: Adv_Cancel spares it.
LEMMA LinkStaysStep ==
  ASSUME LinkInv, [Next]_vars, ~Connects, ~Disconnects, ~Subscribes, ~UserEvent
  PROVE  LinkInv'
  <1> USE DEF cpu2, app, p2ps
  <1>1. UNCHANGED <<events, radio_link, notifications_enabled>>
    BY DEF vars, Next, TimerExpires, Adv_Cancel, P2PS_APP_SetMagSample, GapElapses, Sends,
       FailsToSend
  <1>2. Connected' <=> Connected
    BY DEF Connected, vars, Next, TimerExpires, Adv_Cancel, Cancels, P2PS_APP_SetMagSample,
       GapElapses, Sends, FailsToSend
  <1>3. ChangeInv'
    BY <1>1, <1>2 DEF LinkInv, ChangeInv, NoChange, LastChange
  <1>4. SubscribeInv'
    BY <1>1, <1>2 DEF LinkInv, SubscribeInv
  <1>5. EnabledByThisPeer'
    BY <1>1, <1>2 DEF LinkInv, EnabledByThisPeer, Connected
  <1> QED
    BY <1>3, <1>4, <1>5 DEF LinkInv

\* The link invariant holds for ever.
LEMMA LinkInvariant == Spec => [](TypeOK /\ LinkInv)
  <1>1. Init => LinkInv
    <2> SUFFICES ASSUME Init
                 PROVE  LinkInv
      OBVIOUS
    <2>1. ~Connected /\ ~radio_link /\ ~notifications_enabled
      BY DEF Init, Connected
    <2>2. \A i \in 1 .. Len(events) : FALSE
      BY DEF Init
    <2> QED
      BY <2>1, <2>2 DEF LinkInv, ChangeInv, NoChange, SubscribeInv, EnabledByThisPeer
  <1>2. TypeOK /\ LinkInv /\ [Next]_vars => LinkInv'
    BY TypeParts, QueuedStep, HandledStep, LinkStaysStep
  <1> QED
    BY <1>1, <1>2, TypeCorrect, PTL DEF Spec

\* Once the queued events are handled the firmware believes to be connected
\* exactly when it is, whatever the advertising timer did meanwhile.
THEOREM LinkFollowed == Spec => []StatusFollowsLink
  <1>1. TypeOK /\ LinkInv => StatusFollowsLink
    <2> SUFFICES ASSUME TypeOK, LinkInv, events = << >>
                 PROVE  (Device_Connection_Status = "CONNECTED_SERVER") = radio_link
      BY DEF StatusFollowsLink
    <2>1. Connected <=> radio_link
      BY DEF LinkInv, ChangeInv
    <2>2. radio_link \in BOOLEAN
      BY DEF TypeOK
    <2> QED
      BY <2>1, <2>2, Zenon DEF Connected
  <1> QED
    BY <1>1, LinkInvariant, PTL

\* No subscription outlives its peer, whatever is queued at the disconnection.
THEOREM EnabledByPeer == Spec => []EnabledByThisPeer
  <1>1. LinkInv => EnabledByThisPeer
    BY DEF LinkInv
  <1> QED
    BY <1>1, LinkInvariant, PTL
=============================================================================

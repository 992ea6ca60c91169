---------------------------- MODULE PuffChannel ----------------------------
(***************************************************************************)
(* What the puff event queue of main.c promises: a bounded, lossy FIFO     *)
(* between the TIM2 interrupt and the main loop.  The producer hands over  *)
(* an event or, only when Capacity events are outstanding, loses it and    *)
(* counts the loss; the consumer receives exactly the accepted events, in  *)
(* order, each one once.  RfEvtQueue implements this specification.        *)
(***************************************************************************)
EXTENDS Naturals, Sequences

CONSTANTS
  Event,     \* the events a producer can offer
  Capacity   \* events the channel can hold

VARIABLES
  accepted,  \* every event taken from the producer, oldest first
  logged,    \* every event handed to the consumer, oldest first
  dropped    \* events lost to a full channel

chanVars == <<accepted, logged, dropped>>

Outstanding == Len(accepted) - Len(logged)

ChannelInit ==
  /\ accepted = << >>
  /\ logged = << >>
  /\ dropped = 0

\* One event more is accepted (it is named by its place, since there may be
\* infinitely many an event can be).
Accept ==
  /\ Outstanding < Capacity
  /\ Len(accepted') = Len(accepted) + 1
  /\ LET e == accepted'[Len(accepted')]
     IN e \in Event /\ accepted' = Append(accepted, e)
  /\ UNCHANGED <<logged, dropped>>

Lose ==
  /\ Outstanding = Capacity
  /\ dropped' = dropped + 1
  /\ UNCHANGED <<accepted, logged>>

Deliver ==
  /\ Len(logged) < Len(accepted)
  /\ logged' = Append(logged, accepted[Len(logged) + 1])
  /\ UNCHANGED <<accepted, dropped>>

ChannelNext ==
  \/ Accept
  \/ Lose
  \/ Deliver

ChannelSpec == ChannelInit /\ [][ChannelNext]_chanVars

=============================================================================

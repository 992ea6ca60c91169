------------------------------ MODULE BleLink ------------------------------
(***************************************************************************)
(* The BLE link of the magnetometer stream: app_ble.c (advertising, its    *)
(* timer, the connection) and p2p_server_app.c (one notification for each  *)
(* new pair of samples).                                                   *)
(*                                                                         *)
(* External: CPU2, which owns the radio.  It connects and disconnects on   *)
(* its own and queues an event for the main loop, so the firmware's view   *)
(* of the link lags behind.  A command to CPU2 may fail.                   *)
(*                                                                         *)
(* A task that may send a command to CPU2 is paused while one is pending   *)
(* (BLE_StatusNot), so each runs to its end before the next.               *)
(*                                                                         *)
(* Left out: P2PS_APP_SetPuffEvent and pending_puff, which nothing calls;  *)
(* the PHY and MTU exchanges; the contents of the packets.                 *)
(***************************************************************************)
EXTENDS Integers, Sequences

CONSTANTS
  SEQ,        \* values of the uint16_t sequence number
  MaxPairs,   \* bound: pairs sampled
  MaxLinks,   \* bound: connections
  MaxPending  \* bound: events CPU2 has queued

ASSUME BleConstants ==
  SEQ \in Nat \ {0} /\ MaxPairs \in Nat /\ MaxLinks \in Nat /\ MaxPending \in Nat

VARIABLES
  \* CPU2: advertising, connected, and the events for the main loop
  radio_adv, radio_link, events,
  \* app_ble.c
  Device_Connection_Status, adv_timer, adv_cancel_task,
  \* p2p_server_app.c; min_gap: the gap since last_send_ms is over
  notifications_enabled, latest_sample, latest_sample_valid, sequence, min_gap,
  \* history: the notifications sent, the pairs sampled, the connections
  sent, pairs, links

cpu2 == <<radio_adv, radio_link, events>>
app == <<Device_Connection_Status, adv_timer, adv_cancel_task>>
p2ps == <<notifications_enabled, latest_sample, latest_sample_valid, sequence, min_gap>>
vars == <<cpu2, app, p2ps, sent, pairs, links>>

\* APP_BLE_Init ends with Adv_Request(APP_BLE_FAST_ADV), whose commands may fail.
Init ==
  /\ radio_adv \in BOOLEAN /\ radio_link = FALSE /\ events = << >>
  /\ Device_Connection_Status = "FAST_ADV"
  /\ adv_timer \in BOOLEAN /\ adv_cancel_task = FALSE
  /\ notifications_enabled = FALSE /\ latest_sample = 0
  /\ latest_sample_valid = FALSE /\ sequence = 0 /\ min_gap = TRUE
  /\ sent = << >> /\ pairs = 0 /\ links = 0

-----------------------------------------------------------------------------
(* CPU2 and the central.                                                   *)

Queues(e) == Len(events) < MaxPending /\ events' = Append(events, e)

Connects ==
  /\ radio_adv /\ links < MaxLinks
  /\ Queues("connected")
  /\ radio_link' = TRUE /\ radio_adv' = FALSE
  /\ links' = links + 1
  /\ UNCHANGED <<app, p2ps, sent, pairs>>

Disconnects ==
  /\ radio_link
  /\ Queues("disconnected")
  /\ radio_link' = FALSE
  /\ UNCHANGED <<radio_adv, app, p2ps, sent, pairs, links>>

\* The central writes the client configuration of the characteristic.
Subscribes ==
  /\ radio_link
  /\ Queues("enabled") \/ Queues("disabled")
  /\ UNCHANGED <<radio_adv, radio_link, app, p2ps, sent, pairs, links>>

-----------------------------------------------------------------------------
(* app_ble.c                                                               *)

\* Adv_Request(APP_BLE_FAST_ADV): aci_gap_set_discoverable may fail, and the
\* timer is started only if the advertising data is accepted.
Adv_Request ==
  /\ Device_Connection_Status' = "FAST_ADV"
  /\ radio_adv' \in {radio_adv, ~radio_link}
  /\ adv_timer' \in BOOLEAN

\* The timer's callback in the RTC interrupt, Adv_Cancel_Req.
TimerExpires ==
  /\ adv_timer
  /\ adv_timer' = FALSE
  /\ adv_cancel_task' = TRUE
  /\ UNCHANGED <<cpu2, Device_Connection_Status, p2ps, sent, pairs, links>>

\* The task Adv_Cancel.  Mutant: a connected device is not spared.
Cancels_Always == TRUE
Cancels == Device_Connection_Status # "CONNECTED_SERVER"

Adv_Cancel ==
  /\ adv_cancel_task
  /\ adv_cancel_task' = FALSE
  /\ IF Cancels
       THEN Device_Connection_Status' = "IDLE" /\ radio_adv' \in {radio_adv, FALSE}
       ELSE UNCHANGED <<Device_Connection_Status, radio_adv>>
  /\ UNCHANGED <<radio_link, events, adv_timer, p2ps, sent, pairs, links>>

\* SVCCTL_App_Notification: HCI_LE_CONNECTION_COMPLETE.
ConnectionComplete ==
  /\ adv_timer' = FALSE
  /\ Device_Connection_Status' = "CONNECTED_SERVER"
  /\ UNCHANGED <<radio_adv, p2ps>>

\* P2PS_APP_Notification(PEER_DISCON_HANDLE_EVT).
\* Mutant: notifications stay enabled.
PeerGone_KeepsEnabled == latest_sample_valid' = FALSE /\ UNCHANGED notifications_enabled
PeerGone == notifications_enabled' = FALSE /\ latest_sample_valid' = FALSE

\* SVCCTL_App_Notification: HCI_DISCONNECTION_COMPLETE.
DisconnectionComplete ==
  /\ Adv_Request
  /\ PeerGone
  /\ UNCHANGED <<latest_sample, sequence, min_gap>>

\* P2PS_STM_App_Notification.
NotifyEnabled(on) ==
  /\ notifications_enabled' = on
  /\ UNCHANGED <<radio_adv, Device_Connection_Status, adv_timer, latest_sample,
                 latest_sample_valid, sequence, min_gap>>

\* The task hci_user_evt_proc hands over the oldest event.
UserEvent ==
  /\ events # << >>
  /\ events' = Tail(events)
  /\ \/ Head(events) = "connected" /\ ConnectionComplete
     \/ Head(events) = "disconnected" /\ DisconnectionComplete
     \/ Head(events) = "enabled" /\ NotifyEnabled(TRUE)
     \/ Head(events) = "disabled" /\ NotifyEnabled(FALSE)
  /\ UNCHANGED <<radio_link, adv_cancel_task, sent, pairs, links>>

-----------------------------------------------------------------------------
(* p2p_server_app.c                                                        *)

\* P2PS_APP_SetMagSample: the newest pair replaces one not sent yet.
P2PS_APP_SetMagSample ==
  /\ pairs < MaxPairs
  /\ pairs' = pairs + 1
  /\ latest_sample' = pairs + 1
  /\ latest_sample_valid' = TRUE
  /\ UNCHANGED <<cpu2, app, notifications_enabled, sequence, min_gap, sent, links>>

GapElapses ==
  /\ ~min_gap
  /\ min_gap' = TRUE
  /\ UNCHANGED <<cpu2, app, notifications_enabled, latest_sample,
                 latest_sample_valid, sequence, sent, pairs, links>>

CanSend == notifications_enabled /\ latest_sample_valid /\ min_gap

\* What a successful send updates.  Mutant: the pair stays valid.
AfterSend_StaysValid == sequence' = (sequence + 1) % SEQ /\ UNCHANGED latest_sample_valid
AfterSend == sequence' = (sequence + 1) % SEQ /\ latest_sample_valid' = FALSE

\* P2PS_APP_Process: P2PS_STM_App_Update_Char succeeds.
Sends ==
  /\ CanSend
  /\ sent' = Append(sent, [pair |-> latest_sample, sequence |-> sequence])
  /\ AfterSend
  /\ min_gap' = FALSE
  /\ UNCHANGED <<cpu2, app, notifications_enabled, latest_sample, pairs, links>>

\* CPU2's pool is full: the pair stays pending.  Mutant: it is dropped.
SendFails_Drops == latest_sample_valid' = FALSE
SendFails == UNCHANGED latest_sample_valid

FailsToSend ==
  /\ CanSend
  /\ SendFails
  /\ UNCHANGED <<cpu2, app, notifications_enabled, latest_sample, sequence,
                 min_gap, sent, pairs, links>>

-----------------------------------------------------------------------------

Next ==
  \/ Connects \/ Disconnects \/ Subscribes
  \/ TimerExpires \/ Adv_Cancel \/ UserEvent
  \/ P2PS_APP_SetMagSample \/ GapElapses \/ Sends \/ FailsToSend

Spec == Init /\ [][Next]_vars

\* The main loop runs its tasks and P2PS_APP_Process on every pass, the timers
\* expire, and CPU2 does not refuse a notification forever.
FairSpec ==
  /\ Spec
  /\ WF_vars(UserEvent) /\ WF_vars(Adv_Cancel)
  /\ WF_vars(TimerExpires) /\ WF_vars(GapElapses) /\ SF_vars(Sends)

-----------------------------------------------------------------------------
(* Properties.                                                             *)

TypeOK ==
  /\ radio_adv \in BOOLEAN /\ radio_link \in BOOLEAN
  /\ events \in Seq({"connected", "disconnected", "enabled", "disabled"})
  /\ Len(events) <= MaxPending
  /\ Device_Connection_Status \in {"IDLE", "FAST_ADV", "CONNECTED_SERVER"}
  /\ adv_timer \in BOOLEAN /\ adv_cancel_task \in BOOLEAN
  /\ notifications_enabled \in BOOLEAN /\ latest_sample \in 0 .. MaxPairs
  /\ latest_sample_valid \in BOOLEAN /\ sequence \in 0 .. SEQ - 1
  /\ min_gap \in BOOLEAN
  /\ sent \in Seq([pair : 1 .. MaxPairs, sequence : 0 .. SEQ - 1])
  /\ pairs \in 0 .. MaxPairs /\ links \in 0 .. MaxLinks

\* Once the queued events are handled, the firmware believes to be connected
\* exactly when it is: a timer that expires around the connection, or the
\* cancel task it left behind, does not make it forget the link.
StatusFollowsLink ==
  events = << >> => (Device_Connection_Status = "CONNECTED_SERVER") = radio_link

\* Notifications are enabled only for the peer the firmware is connected to,
\* never by the subscription of one that has gone.
EnabledByThisPeer ==
  notifications_enabled => Device_Connection_Status = "CONNECTED_SERVER"

\* p2p_server_app.c:122: "Each pair goes out at most once, so a free-running
\* main loop cannot resend a stale sample."
EachPairAtMostOnce ==
  \A i, j \in 1 .. Len(sent) : i < j => sent[i].pair < sent[j].pair

\* The sequence numbers a host sees are consecutive, across reconnections, the
\* wrap and failed sends: a gap means that a notification was lost in the air.
SequenceHasNoGap ==
  \A i \in 1 .. Len(sent) - 1 :
    sent[i + 1].sequence = (sent[i].sequence + 1) % SEQ

\* What a host that records the notifications relies on.
NotifiedInOrder == EachPairAtMostOnce /\ SequenceHasNoGap

\* A pair that is waiting for a subscribed host is sent, or replaced by a newer
\* one, or the host goes: CPU2's refusals only delay it.
PairIsSent ==
  [](latest_sample_valid /\ notifications_enabled
       => <>(~notifications_enabled \/ \E i \in 1 .. Len(sent) : sent[i].pair = latest_sample))
=============================================================================

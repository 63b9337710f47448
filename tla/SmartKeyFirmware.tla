-------------------------- MODULE SmartKeyFirmware --------------------------
(***************************************************************************)
(* firmware/src/main.cpp: the tasks of the firmware around one queue.      *)
(* The NimBLE host task (callbacks on_ble_connection, on_ble_response),    *)
(* uwb_task and nfc_task post access events; controller_task takes them    *)
(* one by one and drives the access state machine, here AccessFlow, the    *)
(* untimed machine that ControllerTask implements: with Wraps = TRUE over  *)
(* all uptimes, with Wraps = FALSE in the first epoch of millis().         *)
(*                                                                         *)
(* The host and nfc_task can be preempted between two accesses to what     *)
(* they share; each callback and each round is split there.                *)
(***************************************************************************)
EXTENDS AccessFlow, NfcManager

CONSTANTS
    EVENT_QUEUE_LEN,
    Sessions,       \* bound: the connections a phone makes
    Tags,           \* bound: what the NFC reader may read
    Bench           \* the tasks' stand-ins for the UWB and NFC drivers are used

ASSUME FirmwareAssumption ==
    /\ EVENT_QUEUE_LEN \in Nat \ {0}
    /\ Sessions \in Nat \ {0}
    /\ MaxFails \in Nat
    /\ Bench \in BOOLEAN

VARIABLES
    queue,          \* g_events
    connected,      \* g_ble.conn_handle_ # kInvalidHandle
    host,           \* the callback the NimBLE host task is in
    answerable,     \* challenges issued that no right answer has consumed
    zone,           \* g_uwb.zone(), and uwb_task's prev, between two rounds
    nfc,            \* nfc_task's position in its loop
    tap,            \* what it made of the tag it read last, not yet posted
    tapped,         \* its local
    ctrl,           \* controller_task's position in its loop
    toldOpen,       \* the latest STATUS notified on this link was UNLOCKED
    (* History. *)
    session,        \* the connections made so far: the current one's number
    took,           \* the session whose BLE_CONNECT the state machine took
    taps,           \* tags presented to the state machine in this session
    lost            \* BLE_DISCONNECTs dropped; a UWB_FAR dropped, or refused for
                    \* a penalty that has returned, until another is queued

machine == <<state, fails, penalised, took>>
radio == <<connected, host, answerable, session>>
reader == <<nfc, tap, tapped, taps>>
control == <<ctrl, toldOpen>>
firmwareVars == <<machine, radio, reader, control, queue, zone, lost>>

\* An event, and, as history, the connection of the callback that posted it:
\* 0 for those of uwb_task and nfc_task, which know of no connection.
Evt(type, s) == [type |-> type, session |-> s]
NoTap == Evt("NFC_FAIL", 0)

\* xQueueSend() with no timeout, whose result nobody reads.
post(e) ==
    \/ /\ Len(queue) < EVENT_QUEUE_LEN
       /\ queue' = Append(queue, e)
       /\ lost' = lost \ {e}
    \/ /\ Len(queue) = EVENT_QUEUE_LEN
       /\ queue' = queue
       /\ lost' = IF e.type \in {"BLE_DISCONNECT", "UWB_FAR"}
                      THEN lost \cup {e} ELSE lost

FirmwareInit ==
    /\ FlowInit
    /\ queue = <<>>
    /\ connected = FALSE /\ host = "idle" /\ answerable = 0
    /\ zone = "FAR"
    /\ nfc = "check" /\ tap = NoTap /\ tapped = FALSE
    /\ ctrl = "loop" /\ toldOpen = FALSE
    /\ session = 0 /\ took = 0 /\ taps = 0 /\ lost = {}

(***************************************************************************)
(* The NimBLE host task.  A connection's handle is set, or cleared, before *)
(* the callback posts.                                                     *)
(***************************************************************************)
OnConnect ==
    /\ host = "idle" /\ ~connected
    /\ session < Sessions
    /\ connected' = TRUE /\ host' = "connecting"
    /\ session' = session + 1 /\ taps' = 0
    /\ UNCHANGED <<machine, queue, answerable, zone, nfc, tap, tapped, control, lost>>

OnConnectPost ==
    /\ host = "connecting" /\ host' = "idle"
    /\ post(Evt("BLE_CONNECT", session))
    /\ answerable' = answerable + 1
    /\ UNCHANGED <<machine, connected, session, zone, reader, control>>

\* Mutant: the application is not told of the disconnection.
OnDisconnectUnreported ==
    /\ host = "idle" /\ connected
    /\ connected' = FALSE /\ toldOpen' = FALSE
    /\ UNCHANGED <<machine, queue, host, answerable, session, zone, reader, ctrl, lost>>

\* A link that drops takes the phone's view of the status with it.
OnDisconnect ==
    /\ host = "idle" /\ connected
    /\ connected' = FALSE /\ host' = "disconnecting"
    /\ toldOpen' = FALSE
    /\ UNCHANGED <<machine, queue, answerable, session, zone, reader, ctrl, lost>>

OnDisconnectPost ==
    /\ host = "disconnecting" /\ host' = "idle"
    /\ post(Evt("BLE_DISCONNECT", session))
    /\ UNCHANGED <<machine, connected, answerable, session, zone, reader, control>>

\* The right answer to an open challenge, whichever connection it was issued on.
RightResponse ==
    /\ host = "idle" /\ connected /\ answerable > 0
    /\ answerable' = answerable - 1
    /\ post(Evt("AUTH_OK", session))
    /\ UNCHANGED <<machine, connected, host, session, zone, reader, control>>

\* Any other answer, or one too late.
WrongResponse ==
    /\ host = "idle" /\ connected
    /\ post(Evt("AUTH_FAIL", session))
    /\ UNCHANGED <<machine, radio, zone, reader, control>>

(***************************************************************************)
(* uwb_task: a round measures, compares the zone with the previous round's *)
(* and posts at the edges into NEAR and FAR.  On the bench the distance    *)
(* only shrinks; a driver measures anything.                               *)
(***************************************************************************)
Nearness(z) == CASE z = "FAR" -> 0 [] z = "MEDIUM" -> 1 [] z = "NEAR" -> 2

\* Mutant: only the edge from NEAR to FAR is one.
EdgeFromNear(z) ==
    IF z = "NEAR" THEN {"UWB_NEAR"}
    ELSE IF z = "FAR" /\ zone = "NEAR" THEN {"UWB_FAR"} ELSE {}

Edge(z) ==
    CASE z = "NEAR" -> {"UWB_NEAR"} [] z = "FAR" -> {"UWB_FAR"} [] OTHER -> {}

UwbRound(z) ==
    /\ z # zone /\ zone' = z
    /\ Bench => Nearness(z) = Nearness(zone) + 1
    /\ \/ \E type \in Edge(z) : post(Evt(type, 0))
       \/ Edge(z) = {} /\ UNCHANGED <<queue, lost>>
    /\ UNCHANGED <<machine, radio, reader, control>>

(***************************************************************************)
(* nfc_task: reads connected(), reads a tag with on_tag(), posts what it   *)
(* makes of it, reads connected() again.  The link may drop, and another   *)
(* come up, between any two of these.  On the bench the tag is always the  *)
(* first of the whitelist.  A round in which the task neither taps nor     *)
(* rearms changes nothing.                                                 *)
(***************************************************************************)
NfcCheck ==
    /\ nfc = "check" /\ connected /\ ~tapped
    /\ nfc' = "read"
    /\ UNCHANGED <<machine, radio, tap, tapped, taps, control, queue, zone, lost>>

\* What on_tag() makes of the tags that may be presented.
TapEvents ==
    IF Bench THEN {TapEvent(SubSeq(NFC_WHITELIST[1], 1, NFC_WHITELIST_UID_LEN[1]))}
    ELSE {TapEvent(uid) : uid \in Tags}

NfcRead ==
    /\ nfc = "read" /\ nfc' = "post"
    /\ \E type \in TapEvents : tap' = Evt(type, 0)
    /\ UNCHANGED <<machine, radio, tapped, taps, control, queue, zone, lost>>

\* Mutant: presents a tag again and again.
NfcPostAgain ==
    /\ nfc = "post" /\ nfc' = "check"
    /\ post(tap) /\ tap' = NoTap
    /\ taps' = taps + 1
    /\ UNCHANGED <<machine, radio, tapped, control, zone>>

NfcPost ==
    /\ nfc = "post" /\ nfc' = "check"
    /\ post(tap) /\ tap' = NoTap
    /\ tapped' = TRUE
    /\ taps' = taps + 1
    /\ UNCHANGED <<machine, radio, control, zone>>

NfcRearm ==
    /\ nfc = "check" /\ tapped /\ ~connected
    /\ tapped' = FALSE
    /\ UNCHANGED <<machine, radio, nfc, tap, taps, control, queue, zone, lost>>

(***************************************************************************)
(* controller_task: an event is handled, the status notified if the link   *)
(* is up then, and the timers serviced.                                    *)
(***************************************************************************)
\* History: handle_event() refuses a departure before its switch.
Refused(e) == e.type = "UWB_FAR" /\ penalised /\ state \in {"UWB_NEAR", "UNLOCKED"}

Receive ==
    /\ ctrl = "loop" /\ queue # <<>>
    /\ Take(Head(queue).type)
    /\ took' = IF state' = "BLE_CONNECTED" /\ state # state'
                   THEN Head(queue).session ELSE took
    /\ lost' = IF Refused(Head(queue)) THEN lost \cup {Evt("UWB_FAR", 0)} ELSE lost
    /\ queue' = Tail(queue)
    /\ ctrl' = "notify"
    /\ UNCHANGED <<radio, reader, toldOpen, zone>>

\* Mutant: tells the phone of what authentication has reached, no more.
NotifyProgress ==
    /\ ctrl = "notify" /\ ctrl' = "loop"
    /\ toldOpen' = IF connected /\ state \in Flow THEN state = "UNLOCKED" ELSE toldOpen
    /\ UNCHANGED <<machine, radio, reader, queue, zone, lost>>

Notify ==
    /\ ctrl = "notify" /\ ctrl' = "loop"
    /\ toldOpen' = IF connected THEN state = "UNLOCKED" ELSE toldOpen
    /\ UNCHANGED <<machine, radio, reader, queue, zone, lost>>

Tick ==
    /\ ctrl = "loop"
    /\ TimeOut \/ LockoutRunsOut \/ PenaltyRunsOut \/ PenaltyReturns
    /\ UNCHANGED <<took, radio, reader, control, queue, zone, lost>>

FirmwareNext ==
    \/ OnConnect
    \/ OnConnectPost
    \/ OnDisconnect
    \/ OnDisconnectPost
    \/ RightResponse
    \/ WrongResponse
    \/ \E z \in {"NEAR", "MEDIUM", "FAR"} : UwbRound(z)
    \/ NfcCheck
    \/ NfcRead
    \/ NfcPost
    \/ NfcRearm
    \/ Receive
    \/ Notify
    \/ Tick

FirmwareSpec == FirmwareInit /\ [][FirmwareNext]_firmwareVars

(***************************************************************************)
(* A callback that has begun goes on to its post, and the controller task  *)
(* goes on taking what is queued.  Phones, tags, distances and timers owe  *)
(* nothing.                                                                *)
(***************************************************************************)
FirmwareFairness ==
    /\ WF_firmwareVars(OnConnectPost \/ OnDisconnectPost)
    /\ WF_firmwareVars(Receive \/ Notify)

FirmwareFairSpec == FirmwareSpec /\ FirmwareFairness
-----------------------------------------------------------------------------
Pending(type) == \E i \in DOMAIN queue : queue[i].type = type
Dropped(type, s) == Evt(type, s) \in lost

FirmwareTypeOK ==
    /\ state \in {"IDLE", "LOCKED", "LOCKOUT"} \cup Flow
    /\ fails \in 0 .. MaxFails /\ penalised \in BOOLEAN
    /\ Len(queue) <= EVENT_QUEUE_LEN
    /\ \A i \in DOMAIN queue :
          queue[i] \in [type : Events \ {"USER_LOCK"}, session : 0 .. session]
    /\ connected \in BOOLEAN
    /\ host \in {"idle", "connecting", "disconnecting"}
    /\ answerable \in 0 .. session
    /\ zone \in {"NEAR", "MEDIUM", "FAR"}
    /\ nfc \in {"check", "read", "post"} /\ tapped \in BOOLEAN
    /\ tap \in [type : {"NFC_OK", "NFC_FAIL"}, session : {0}]
    /\ ctrl \in {"loop", "notify"}
    /\ toldOpen \in BOOLEAN
    /\ session \in 0 .. Sessions /\ took \in 0 .. session
    /\ taps \in Nat
    /\ lost \subseteq [type : {"BLE_DISCONNECT", "UWB_FAR"}, session : 0 .. session]

(***************************************************************************)
(* A door that opens at NEAR, or is about to, does not outlast the phone's *)
(* departure: unless a UWB_FAR is on its way, was dropped by a full queue  *)
(* or, after the first wrap-around of millis(), met a penalty that had     *)
(* returned, the phone is not far away.                                    *)
(***************************************************************************)
FarHeard ==
    state \in {"UWB_NEAR", "UNLOCKED"} /\ zone = "FAR"
        => Pending("UWB_FAR") \/ Dropped("UWB_FAR", 0)

(***************************************************************************)
(* The state machine is in the flow only while a phone is linked, unless   *)
(* its disconnection is being posted, is on its way or was dropped.        *)
(***************************************************************************)
LinkHeard ==
    state \in Flow /\ ~connected
        => \/ host = "disconnecting"
           \/ Pending("BLE_DISCONNECT")
           \/ Dropped("BLE_DISCONNECT", took)

(***************************************************************************)
(* The right answer that opens the door was given on the connection that   *)
(* began the flow, however the host's posts interleave with the other      *)
(* tasks, unless that connection's end was dropped.                        *)
(***************************************************************************)
Opens(e) == e.type = "AUTH_OK" /\ state # "UNLOCKED" /\ state' = "UNLOCKED"

AnswerOfSession ==
    [][ctrl = "loop" /\ ctrl' = "notify" /\ Opens(Head(queue))
        => \/ Head(queue).session = took
           \/ Dropped("BLE_DISCONNECT", took)]_firmwareVars

(***************************************************************************)
(* nfc_task, "present the first whitelisted UID once per connection":      *)
(* never twice, even when the phone drops and reconnects while the task    *)
(* is between its two reads of connected().                                *)
(***************************************************************************)
TappedOnce == taps <= 1

(***************************************************************************)
(* A phone is never left with the status UNLOCKED of a door that has       *)
(* locked since.                                                           *)
(***************************************************************************)
OpenIsOpen == toldOpen /\ ctrl = "loop" => state = "UNLOCKED"

(***************************************************************************)
(* README.md, "UNLOCKED --> LOCKED : UWB_FAR / USER_LOCK / disconnect": an *)
(* open door shuts in the end once the phone is far or its link is gone,   *)
(* although UNLOCKED has no timeout, whatever else is queued before and    *)
(* even if the phone is back by then, unless the report was dropped or,    *)
(* after the first wrap-around, refused for a penalty that had returned.   *)
(***************************************************************************)
DoorShuts ==
    state = "UNLOCKED" /\ (~connected \/ zone = "FAR")
        ~> state # "UNLOCKED" \/ lost # {}

(***************************************************************************)
(* README.md's flowchart from RESPONSE to GRANT, and auth_flow.puml: a     *)
(* right answer with the tag verified and the zone NEAR opens the door.    *)
(***************************************************************************)
GrantAsDocumented ==
    [][ctrl = "loop" /\ ctrl' = "notify" /\ Head(queue).type = "AUTH_OK"
        /\ state = "NFC_VERIFIED" /\ ~penalised /\ zone = "NEAR"
        /\ ~Pending("UWB_NEAR") /\ lost = {}
        => state' = "UNLOCKED"]_firmwareVars
=============================================================================

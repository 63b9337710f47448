----------------------------- MODULE BleManager -----------------------------
(***************************************************************************)
(* firmware/src/ble_manager.cpp: set-up, connections, the challenge pushed *)
(* to each, and the inactivity timeout.  Three tasks on two cores share    *)
(* conn_handle_ and last_activity_ms_ without a lock: the NimBLE host task *)
(* (the callbacks), ble_task (service()) and the controller task           *)
(* (note_activity()).  Each access of one of them is a step of its own.    *)
(*                                                                         *)
(* A unit of the clock is one period of ble_task.                          *)
(***************************************************************************)
EXTENDS Millis

CONSTANTS Handle, kInvalidHandle, BLE_INACTIVITY_TIMEOUT_MS

ASSUME BleAssumption ==
    /\ kInvalidHandle \notin Handle
    /\ (Handle \cup {kInvalidHandle}) \cap {"down", "lost"} = {}
    /\ BLE_INACTIVITY_TIMEOUT_MS \in Nat \ {0}
    /\ BLE_INACTIVITY_TIMEOUT_MS + 4 < U32

VARIABLES
    conn_handle, last_activity_ms,
    registered, \* on_connection_ and on_response_ are set
    begun,      \* g_self and the characteristics are
    advertising,
    link,       \* the radio link: down, up with a handle, or lost unreported
    host,       \* the NimBLE host task's position
    svc,        \* ble_task's position, before its loop and in service()
    svcNow,     \* the millis() it was called with
    note,       \* the controller's position in note_activity()
    noteNow,    \* the millis() it was called with
    passed,     \* a unit of time has passed in this iteration of ble_task
    (* History. *)
    idle,       \* true time since the link's latest activity, up to IdleCap
    noteAge,    \* true time since noteNow was read
    cut,        \* service() has just disconnected the link
    receptive,  \* the phone on the link has enabled CHALLENGE's notifications
                \* and negotiated an MTU that a nonce fits in
    pushed,     \* a challenge was notified to it
    received    \* ... when it was receptive

challenge == <<receptive, pushed, received>>
gatt == <<registered, begun, advertising, challenge>>
service == <<svc, svcNow>>
noting == <<note, noteNow, noteAge>>
tasks == <<host, service, noting>>
bleVars == <<now, conn_handle, last_activity_ms, gatt, link, tasks, passed, idle, cut>>

IdleCap == BLE_INACTIVITY_TIMEOUT_MS + 4

BleInit ==
    /\ now = 0
    /\ conn_handle = kInvalidHandle
    /\ last_activity_ms = 0
    /\ registered = FALSE /\ begun = FALSE /\ advertising = FALSE
    /\ link = "down"
    /\ host = "idle" /\ svc = "boot" /\ note = "idle"
    /\ svcNow = 0 /\ noteNow = 0
    /\ passed = FALSE
    /\ idle = 0 /\ noteAge = 0 /\ cut = FALSE
    /\ receptive = FALSE /\ pushed = FALSE /\ received = FALSE

connected == conn_handle # kInvalidHandle

(***************************************************************************)
(* ble_task before its loop: the callbacks are set, then begin() sets up   *)
(* the service and ends by advertising it.                                 *)
(***************************************************************************)
SetCallbacks ==
    /\ svc = "boot" /\ svc' = "begin"
    /\ registered' = TRUE
    /\ UNCHANGED <<now, conn_handle, last_activity_ms, begun, advertising, challenge,
                   link, host, svcNow, noting, passed, idle, cut>>

Begin ==
    /\ svc = "begin" /\ svc' = "idle"
    /\ begun' = TRUE /\ advertising' = TRUE
    /\ UNCHANGED <<now, conn_handle, last_activity_ms, registered, challenge,
                   link, host, svcNow, noting, passed, idle, cut>>

\* Mutant: the handle is not set before the callback.
OnConnectLate(h) ==
    /\ host = "idle" /\ advertising
    /\ link' = h /\ advertising' = FALSE
    /\ host' = "connecting"
    /\ idle' = 0 /\ cut' = FALSE
    /\ receptive' = FALSE /\ pushed' = FALSE /\ received' = FALSE
    /\ UNCHANGED <<now, conn_handle, last_activity_ms, registered, begun, service,
                   noting, passed>>

(***************************************************************************)
(* A phone connects, upon which the stack stops advertising.  onConnect()  *)
(* and _on_connect(): the handle first, then the activity and the          *)
(* application's callback, which pushes a challenge.                       *)
(***************************************************************************)
OnConnect(h) ==
    /\ host = "idle" /\ advertising
    /\ link' = h /\ advertising' = FALSE
    /\ conn_handle' = IF begun THEN h ELSE conn_handle
    /\ host' = "connecting"
    /\ idle' = 0 /\ cut' = FALSE
    /\ receptive' = FALSE /\ pushed' = FALSE /\ received' = FALSE
    /\ UNCHANGED <<now, last_activity_ms, registered, begun, service, noting, passed>>

\* notify_challenge(), from the connection callback.
notify_challenge ==
    /\ pushed' = (begun /\ connected)
    /\ received' = (begun /\ connected /\ receptive)

OnConnectActivity ==
    /\ host = "connecting" /\ host' = "idle"
    /\ last_activity_ms' = now
    /\ \/ registered /\ notify_challenge
       \/ ~registered /\ UNCHANGED <<pushed, received>>
    /\ UNCHANGED <<now, conn_handle, registered, begun, advertising, receptive, link,
                   service, noting, passed, idle, cut>>

\* The phone's MTU exchange and its write to the CCCD, which the stack answers
\* when it is in no callback.
GetReceptive ==
    /\ host = "idle" /\ link \in Handle
    /\ ~receptive /\ receptive' = TRUE
    /\ cut' = FALSE
    /\ UNCHANGED <<now, conn_handle, last_activity_ms, registered, begun, advertising,
                   pushed, received, link, tasks, passed, idle>>

LinkLost ==
    /\ link \in Handle /\ link' = "lost"
    /\ cut' = FALSE
    /\ UNCHANGED <<now, conn_handle, last_activity_ms, gatt, tasks, passed, idle>>

\* onDisconnect(): _on_disconnect() with the application's callback.
OnDisconnect ==
    /\ host = "idle" /\ link = "lost"
    /\ link' = "down" /\ conn_handle' = kInvalidHandle
    /\ host' = "disconnecting"
    /\ cut' = FALSE
    /\ UNCHANGED <<now, last_activity_ms, gatt, service, noting, passed, idle>>

\* Mutant: nothing is advertised again.
ReadvertiseNot ==
    /\ host = "disconnecting" /\ host' = "idle"
    /\ UNCHANGED <<now, conn_handle, last_activity_ms, gatt, link, service, noting,
                   passed, idle, cut>>

\* The end of onDisconnect().
Readvertise ==
    /\ host = "disconnecting" /\ host' = "idle"
    /\ advertising' = TRUE
    /\ UNCHANGED <<now, conn_handle, last_activity_ms, registered, begun, challenge,
                   link, service, noting, passed, idle, cut>>

\* onWrite(): anything but a whole nonce and HMAC is dropped.
OnResponse(whole) ==
    /\ host = "idle" /\ link \in Handle
    /\ \/ whole /\ begun /\ last_activity_ms' = now /\ idle' = 0
       \/ ~(whole /\ begun) /\ UNCHANGED <<last_activity_ms, idle>>
    /\ cut' = FALSE
    /\ UNCHANGED <<now, conn_handle, gatt, link, tasks, passed>>

(***************************************************************************)
(* The controller got an event: g_ble.note_activity(millis()).             *)
(***************************************************************************)
NoteCall ==
    /\ note = "idle" /\ note' = "called"
    /\ noteNow' = now /\ noteAge' = 0
    /\ UNCHANGED <<now, conn_handle, last_activity_ms, gatt, link, host, service,
                   passed, idle, cut>>

NoteActivity ==
    /\ note = "called" /\ note' = "idle"
    /\ last_activity_ms' = noteNow
    /\ idle' = IF noteAge < idle THEN noteAge ELSE idle
    /\ UNCHANGED <<now, conn_handle, gatt, link, host, service, noteNow, noteAge,
                   passed, cut>>

(***************************************************************************)
(* ble_task: g_ble.service(millis()), whose argument is read before the    *)
(* call, then vTaskDelay().                                                *)
(***************************************************************************)
ServiceCall ==
    /\ svc = "idle" /\ svc' = "called"
    /\ svcNow' = now
    /\ passed' = FALSE /\ cut' = FALSE
    /\ UNCHANGED <<now, conn_handle, last_activity_ms, gatt, link, host, noting, idle>>

ServiceConnected ==
    /\ svc = "called"
    /\ svc' = IF connected THEN "connected" ELSE "idle"
    /\ UNCHANGED <<now, conn_handle, last_activity_ms, gatt, link, host, svcNow, noting,
                   passed, idle, cut>>

\* Mutant: a deadline instead of a difference.
InactiveAbsolute == svcNow > Plus(last_activity_ms, BLE_INACTIVITY_TIMEOUT_MS)

Inactive == Minus(svcNow, last_activity_ms) > BLE_INACTIVITY_TIMEOUT_MS

ServiceElapsed ==
    /\ svc = "connected"
    /\ svc' = IF Inactive THEN "inactive" ELSE "idle"
    /\ UNCHANGED <<now, conn_handle, last_activity_ms, gatt, link, host, svcNow, noting,
                   passed, idle, cut>>

\* disconnect() of the handle read now: a link with another one is not touched.
ServiceDisconnect ==
    /\ svc = "inactive" /\ svc' = "idle"
    /\ \/ link = conn_handle /\ link' = "lost" /\ cut' = TRUE
       \/ link # conn_handle /\ UNCHANGED <<link, cut>>
    /\ UNCHANGED <<now, conn_handle, last_activity_ms, gatt, host, svcNow, noting,
                   passed, idle>>

\* No task is held up for two units: ble_task gets round its loop, a callback
\* and the controller's call return.
UnitPasses ==
    /\ ~passed /\ passed' = TRUE
    /\ host = "idle"
    /\ note = "called" => noteAge = 0
    /\ MillisPasses
    /\ idle' = CountUp(idle, IdleCap)
    /\ noteAge' = CountUp(noteAge, 1)
    /\ cut' = FALSE
    /\ UNCHANGED <<conn_handle, last_activity_ms, gatt, link, host, service, note, noteNow>>

BleNext ==
    \/ SetCallbacks
    \/ Begin
    \/ \E h \in Handle : OnConnect(h)
    \/ OnConnectActivity
    \/ GetReceptive
    \/ LinkLost
    \/ OnDisconnect
    \/ Readvertise
    \/ \E whole \in BOOLEAN : OnResponse(whole)
    \/ NoteCall
    \/ NoteActivity
    \/ ServiceCall
    \/ ServiceConnected
    \/ ServiceElapsed
    \/ ServiceDisconnect
    \/ UnitPasses

BleSpec == BleInit /\ [][BleNext]_bleVars

(***************************************************************************)
(* The tasks are scheduled and time goes on.  No phone must do anything,   *)
(* no link must fail, no event must reach the controller.                  *)
(***************************************************************************)
BleTask == SetCallbacks \/ Begin \/ ServiceCall \/ ServiceConnected \/ ServiceElapsed
               \/ ServiceDisconnect
HostTask == OnConnectActivity \/ OnDisconnect \/ Readvertise

BleFairness ==
    /\ WF_bleVars(BleTask)
    /\ WF_bleVars(HostTask)
    /\ WF_bleVars(NoteActivity)
    /\ WF_bleVars(UnitPasses)

BleFairSpec == BleSpec /\ BleFairness
-----------------------------------------------------------------------------
BleTypeOK ==
    /\ now \in Millis
    /\ conn_handle \in Handle \cup {kInvalidHandle}
    /\ last_activity_ms \in Millis
    /\ link \in Handle \cup {"down", "lost"}
    /\ registered \in BOOLEAN /\ begun \in BOOLEAN
    /\ advertising \in BOOLEAN
    /\ receptive \in BOOLEAN /\ pushed \in BOOLEAN /\ received \in BOOLEAN
    /\ host \in {"idle", "connecting", "disconnecting"}
    /\ svc \in {"boot", "begin", "idle", "called", "connected", "inactive"}
    /\ svcNow \in Millis
    /\ note \in {"idle", "called"}
    /\ noteNow \in Millis
    /\ passed \in BOOLEAN
    /\ idle \in 0 .. IdleCap
    /\ noteAge \in 0 .. 1
    /\ cut \in BOOLEAN

(***************************************************************************)
(* config.h, "disconnect after 30s idle": an idle link is cut within the   *)
(* timeout and two periods of ble_task, whatever the three tasks do to     *)
(* the shared members meanwhile and however the clock wraps around.        *)
(***************************************************************************)
IdleLinkCut == link \in Handle => idle <= BLE_INACTIVITY_TIMEOUT_MS + 2

(***************************************************************************)
(* main.cpp, "Push a fresh challenge immediately on connect": a challenge  *)
(* is notified on every connection, the handle being set by then, and also *)
(* on the first one after the set-up.  That is all the firmware does: the  *)
(* phone need not be able to receive it yet.                               *)
(***************************************************************************)
ChallengePushed == host = "idle" /\ link \in Handle => pushed

(***************************************************************************)
(* A phone that hangs on its link, as one whose BLE_CONNECT the access     *)
(* state machine ignored in a penalty or a lockout, does not keep the car  *)
(* out of reach: the service is advertised again and again, unless whole   *)
(* responses or events for the controller keep coming.                     *)
(***************************************************************************)
ReachableAgain ==
    \/ []<>advertising
    \/ []<><<OnResponse(TRUE)>>_bleVars
    \/ []<><<NoteActivity>>_bleVars

(***************************************************************************)
(* The same line read the other way: only an idle link is cut.             *)
(***************************************************************************)
ActiveLinkKept == cut => idle >= BLE_INACTIVITY_TIMEOUT_MS

(***************************************************************************)
(* README.md, CHALLENGE "server pushes the 32-byte nonce": a phone that    *)
(* takes part has one to answer.                                           *)
(***************************************************************************)
ChallengeReceived == host = "idle" /\ link \in Handle /\ receptive => received
=============================================================================

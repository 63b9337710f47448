-------------------------- MODULE BleManagerProofs --------------------------
(***************************************************************************)
(* Theorems on BleManager: whatever the order in which its three tasks     *)
(* access what they share, for every timeout, every set of handles and     *)
(* over wrap-arounds of the clock.                                         *)
(***************************************************************************)
EXTENDS BleManager, TLAPS

USE U32Assumption, BleAssumption DEF Millis, IdleCap

Age(t) == Minus(now, t)
Slack == IF passed THEN 1 ELSE 0

(***************************************************************************)
(* The set-up comes before any link, and the handle before the callback.   *)
(***************************************************************************)
SetUpInv ==
    /\ svc # "boot" => registered
    /\ svc \notin {"boot", "begin"} => begun
    /\ svc \in {"boot", "begin"} => ~advertising /\ link = "down" /\ host = "idle"
    /\ link \in Handle => conn_handle = link
    /\ host = "disconnecting" => link = "down"

(***************************************************************************)
(* The times that a task has read and not yet used are a unit old at most; *)
(* the timestamp is as old as the latest activity, or a unit older.  While *)
(* a connection is being reported the timestamp may still be the previous  *)
(* link's; no time passes then.                                            *)
(***************************************************************************)
TimeInv ==
    /\ svc \in {"called", "connected"} => Age(svcNow) = Slack
    /\ note = "called" => Age(noteNow) = noteAge
    /\ link \in Handle /\ host = "connecting" => idle = 0
    /\ link \in Handle /\ host = "idle" => Age(last_activity_ms) \in {idle, idle + 1}

(***************************************************************************)
(* service() has left no link that was idle for more than the timeout.     *)
(***************************************************************************)
CutInv ==
    link \in Handle =>
        idle <= BLE_INACTIVITY_TIMEOUT_MS + Slack
                  + (IF svc \in {"called", "connected", "inactive"} THEN 1 ELSE 0)

BleInv == BleTypeOK /\ SetUpInv /\ TimeInv /\ CutInv /\ ChallengePushed

-----------------------------------------------------------------------------
(* BleTypeOK in the parts that different provers are good at. *)
TimesOK ==
    /\ now \in Millis /\ last_activity_ms \in Millis
    /\ svcNow \in Millis /\ noteNow \in Millis
    /\ idle \in 0 .. IdleCap /\ noteAge \in 0 .. 1

PlacesOK ==
    /\ conn_handle \in Handle \cup {kInvalidHandle}
    /\ link \in Handle \cup {"down", "lost"}
    /\ host \in {"idle", "connecting", "disconnecting"}
    /\ svc \in {"boot", "begin", "idle", "called", "connected", "inactive"}
    /\ note \in {"idle", "called"}

FlagsOK ==
    /\ registered \in BOOLEAN /\ begun \in BOOLEAN
    /\ advertising \in BOOLEAN
    /\ receptive \in BOOLEAN /\ pushed \in BOOLEAN /\ received \in BOOLEAN
    /\ passed \in BOOLEAN /\ cut \in BOOLEAN

LEMMA TypeParts == BleTypeOK <=> TimesOK /\ PlacesOK /\ FlagsOK
  BY DEF BleTypeOK, TimesOK, PlacesOK, FlagsOK

LEMMA BleInitInv == BleInit => BleInv
  <1> SUFFICES ASSUME BleInit PROVE BleInv
    OBVIOUS
  <1>a. TimesOK
    BY DEF BleInit, TimesOK
  <1>b. PlacesOK
    BY DEF BleInit, PlacesOK
  <1>c. FlagsOK
    BY DEF BleInit, FlagsOK
  <1>1. BleTypeOK
    BY <1>a, <1>b, <1>c, TypeParts
  <1>2. SetUpInv /\ TimeInv /\ CutInv /\ ChallengePushed
    BY DEF BleInit, SetUpInv, TimeInv, CutInv, ChallengePushed
  <1> QED
    BY <1>1, <1>2 DEF BleInv

LEMMA OneUnit ==
    ASSUME now \in Millis, MillisPasses, NEW t \in Millis, Minus(now, t) + 1 < U32
    PROVE  now' \in Millis /\ Minus(now', t) = Minus(now, t) + 1
  BY DEF MillisPasses, Plus, Minus

LEMMA UnitInv == BleInv /\ UnitPasses => BleInv'
  <1> SUFFICES ASSUME BleInv, UnitPasses PROVE BleInv'
    OBVIOUS
  <1>0. BleTypeOK /\ SetUpInv /\ TimeInv /\ CutInv /\ ChallengePushed
    BY DEF BleInv
  <1>1. /\ ~passed /\ passed' = TRUE /\ host = "idle" /\ MillisPasses
        /\ note = "called" => noteAge = 0
        /\ idle' = CountUp(idle, IdleCap) /\ noteAge' = CountUp(noteAge, 1)
        /\ cut' = FALSE
        /\ UNCHANGED <<conn_handle, last_activity_ms, registered, begun, advertising,
                       receptive, pushed, received, link, host, svc, svcNow, note, noteNow>>
    BY DEF UnitPasses, gatt, challenge, service
  <1>2. now' \in Millis
    BY <1>0, <1>1 DEF BleTypeOK, MillisPasses, Plus
  <1>3. BleTypeOK'
    <2>1. idle' \in 0 .. IdleCap /\ noteAge' \in 0 .. 1
      BY <1>0, <1>1 DEF BleTypeOK, CountUp
    <2>2. TimesOK'
      BY <1>0, <1>1, <1>2, <2>1, TypeParts DEF TimesOK
    <2>3. PlacesOK'
      BY <1>0, <1>1, TypeParts DEF PlacesOK
    <2>4. FlagsOK'
      BY <1>0, <1>1, TypeParts DEF FlagsOK
    <2> QED
      BY <2>2, <2>3, <2>4 DEF BleTypeOK, TimesOK, PlacesOK, FlagsOK
  <1>4. link \in Handle => /\ idle <= BLE_INACTIVITY_TIMEOUT_MS + 1
                           /\ idle' = idle + 1
    BY <1>0, <1>1 DEF CutInv, Slack, CountUp, BleTypeOK
  <1>5. TimeInv'
    <2>1. svc \in {"called", "connected"} => Age(svcNow)' = 1
      BY <1>0, <1>1, OneUnit DEF TimeInv, Slack, Age, BleTypeOK
    <2>2. note = "called" => Age(noteNow)' = 1 /\ noteAge' = 1
      BY <1>0, <1>1, OneUnit DEF TimeInv, Age, BleTypeOK, CountUp
    <2>3. link \in Handle => Age(last_activity_ms)' = Age(last_activity_ms) + 1
      BY <1>0, <1>1, <1>4, OneUnit DEF TimeInv, Age, BleTypeOK
    <2>4. link \in Handle => Age(last_activity_ms)' \in {idle', idle' + 1}
      BY <1>0, <1>1, <1>4, <2>3 DEF TimeInv, BleTypeOK
    <2> QED
      BY <1>1, <2>1, <2>2, <2>4 DEF TimeInv, Slack
  <1>6. SetUpInv' /\ CutInv' /\ ChallengePushed'
    BY <1>0, <1>1, <1>4 DEF SetUpInv, CutInv, Slack, ChallengePushed, BleTypeOK
  <1> QED
    BY <1>3, <1>5, <1>6 DEF BleInv

(***************************************************************************)
(* ble_task: the set-up, and service().                                    *)
(***************************************************************************)
LEMMA BleTaskInv == BleInv /\ BleTask => BleInv'
  <1> SUFFICES ASSUME BleInv, BleTask PROVE BleInv'
    OBVIOUS
  <1>0. BleTypeOK /\ SetUpInv /\ TimeInv /\ CutInv /\ ChallengePushed
    BY DEF BleInv
  <1> USE DEF Age, Slack, gatt, challenge, service, noting, tasks
  <1>1. CASE SetCallbacks
    BY <1>0, <1>1 DEF SetCallbacks, BleInv, BleTypeOK, SetUpInv, TimeInv, CutInv,
                      ChallengePushed
  <1>2. CASE Begin
    BY <1>0, <1>2 DEF Begin, BleInv, BleTypeOK, SetUpInv, TimeInv, CutInv,
                      ChallengePushed
  <1>3. CASE ServiceCall
    <2>1. BleTypeOK' /\ SetUpInv' /\ ChallengePushed'
      BY <1>0, <1>3 DEF ServiceCall, BleTypeOK, SetUpInv, ChallengePushed
    <2>2. Minus(now, now) = 0
      BY <1>0 DEF BleTypeOK, Minus
    <2>3. TimeInv' /\ CutInv'
      BY <1>0, <1>3, <2>2 DEF ServiceCall, BleTypeOK, TimeInv, CutInv
    <2> QED
      BY <2>1, <2>3 DEF BleInv
  <1>4. CASE ServiceConnected
    <2>1. svc' = "idle" => link \notin Handle
      BY <1>0, <1>4 DEF ServiceConnected, connected, SetUpInv
    <2>2. BleTypeOK' /\ SetUpInv' /\ ChallengePushed'
      BY <1>0, <1>4 DEF ServiceConnected, BleTypeOK, SetUpInv, ChallengePushed
    <2>3. TimeInv' /\ CutInv'
      BY <1>0, <1>4, <2>1 DEF ServiceConnected, BleTypeOK, TimeInv, CutInv
    <2> QED
      BY <2>2, <2>3 DEF BleInv
  <1>5. CASE ServiceElapsed
    <2>a. TimesOK'
      BY <1>0, <1>5, TypeParts DEF ServiceElapsed, TimesOK
    <2>b. PlacesOK'
      BY <1>0, <1>5, TypeParts DEF ServiceElapsed, PlacesOK
    <2>c. FlagsOK'
      BY <1>0, <1>5, TypeParts DEF ServiceElapsed, FlagsOK
    <2>0. BleTypeOK'
      BY <2>a, <2>b, <2>c DEF BleTypeOK, TimesOK, PlacesOK, FlagsOK
    <2>1. svc' = "idle" => ~Inactive
      BY <1>5 DEF ServiceElapsed
    <2>2. SetUpInv' /\ ChallengePushed'
      BY <1>0, <1>5 DEF ServiceElapsed, SetUpInv, ChallengePushed
    <2>3. TimeInv'
      BY <1>0, <1>5 DEF ServiceElapsed, TimeInv
    <2>4. ASSUME link \in Handle, svc' = "idle"
          PROVE  idle <= BLE_INACTIVITY_TIMEOUT_MS + Slack
      <3>1. host # "disconnecting"
        BY <1>0, <2>4 DEF SetUpInv
      <3>2. CASE host = "connecting"
        BY <1>0, <2>4, <3>2 DEF TimeInv
      <3>3. CASE host = "idle"
        <4>1. /\ Minus(svcNow, last_activity_ms) <= BLE_INACTIVITY_TIMEOUT_MS
              /\ Minus(now, svcNow) = Slack
              /\ idle <= Minus(now, last_activity_ms)
          BY <1>0, <1>5, <2>1, <2>4, <3>3
             DEF ServiceElapsed, Inactive, TimeInv, BleTypeOK, Minus
        <4> QED
          BY <1>0, <4>1 DEF BleTypeOK, Minus
      <3> QED
        BY <1>0, <3>1, <3>2, <3>3 DEF BleTypeOK
    <2>5. CutInv'
      <3>1. /\ link' = link /\ idle' = idle /\ passed' = passed
            /\ svc = "connected" /\ svc' \in {"inactive", "idle"}
        BY <1>5 DEF ServiceElapsed
      <3>2. CASE svc' = "inactive"
        BY <1>0, <3>1, <3>2 DEF CutInv
      <3>3. CASE svc' = "idle"
        BY <2>4, <3>1, <3>3 DEF CutInv
      <3> QED
        BY <3>1, <3>2, <3>3
    <2> QED
      BY <2>0, <2>2, <2>3, <2>5 DEF BleInv
  <1>6. CASE ServiceDisconnect
    <2>1. link' \notin Handle
      BY <1>0, <1>6 DEF ServiceDisconnect, SetUpInv, BleTypeOK
    <2>a. TimesOK'
      BY <1>0, <1>6, TypeParts DEF ServiceDisconnect, TimesOK
    <2>b. PlacesOK'
      BY <1>0, <1>6, TypeParts DEF ServiceDisconnect, PlacesOK
    <2>c. FlagsOK'
      BY <1>0, <1>6, TypeParts DEF ServiceDisconnect, FlagsOK
    <2>0. BleTypeOK'
      BY <2>a, <2>b, <2>c DEF BleTypeOK, TimesOK, PlacesOK, FlagsOK
    <2>2. SetUpInv' /\ ChallengePushed'
      <3>1. host = "disconnecting" => link' = "down"
        BY <1>0, <1>6, TypeParts DEF ServiceDisconnect, SetUpInv, PlacesOK
      <3> QED
        BY <1>0, <1>6, <2>1, <3>1 DEF ServiceDisconnect, SetUpInv, ChallengePushed
    <2>3. TimeInv' /\ CutInv'
      BY <1>0, <1>6, <2>1 DEF ServiceDisconnect, TimeInv, CutInv
    <2> QED
      BY <2>0, <2>2, <2>3 DEF BleInv
  <1> QED
    BY <1>1, <1>2, <1>3, <1>4, <1>5, <1>6 DEF BleTask

(***************************************************************************)
(* The NimBLE host task, the phone and the radio.                          *)
(***************************************************************************)
LEMMA HostInv ==
    ASSUME BleInv,
           \/ \E h \in Handle : OnConnect(h)
           \/ LinkLost
           \/ GetReceptive
           \/ \E whole \in BOOLEAN : OnResponse(whole)
           \/ HostTask
    PROVE  BleInv'
  <1>0. BleTypeOK /\ SetUpInv /\ TimeInv /\ CutInv /\ ChallengePushed
    BY DEF BleInv
  <1>a. Minus(now, now) = 0
    BY <1>0 DEF BleTypeOK, Minus
  <1> USE DEF Age, Slack, gatt, challenge, service, noting, tasks
  <1>1. ASSUME NEW h \in Handle, OnConnect(h) PROVE BleInv'
    <2>1. svc \notin {"boot", "begin"} /\ begun
      BY <1>0, <1>1 DEF OnConnect, SetUpInv
    <2>a. TimesOK'
      BY <1>0, <1>1, TypeParts DEF OnConnect, TimesOK
    <2>b. PlacesOK'
      BY <1>0, <1>1, TypeParts DEF OnConnect, PlacesOK
    <2>c. FlagsOK'
      BY <1>0, <1>1, TypeParts DEF OnConnect, FlagsOK
    <2>0. BleTypeOK'
      BY <2>a, <2>b, <2>c DEF BleTypeOK, TimesOK, PlacesOK, FlagsOK
    <2>2. SetUpInv' /\ ChallengePushed'
      BY <1>0, <1>1, <2>1 DEF OnConnect, SetUpInv, ChallengePushed
    <2>3. TimeInv' /\ CutInv'
      BY <1>0, <1>1, <2>1 DEF OnConnect, BleTypeOK, TimeInv, CutInv
    <2> QED
      BY <2>0, <2>2, <2>3 DEF BleInv
  <1>2. CASE OnConnectActivity
    <2>a. TimesOK'
      BY <1>0, <1>2, TypeParts DEF OnConnectActivity, TimesOK
    <2>b. PlacesOK'
      BY <1>0, <1>2, TypeParts DEF OnConnectActivity, PlacesOK
    <2>c. FlagsOK'
      BY <1>0, <1>2, TypeParts
         DEF OnConnectActivity, notify_challenge, connected, FlagsOK
    <2>0. SetUpInv'
      BY <1>0, <1>2 DEF OnConnectActivity, notify_challenge, SetUpInv
    <2>1. BleTypeOK' /\ SetUpInv'
      BY <2>0, <2>a, <2>b, <2>c DEF BleTypeOK, TimesOK, PlacesOK, FlagsOK
    <2>2. link \in Handle => svc \notin {"boot", "begin"} /\ connected
      BY <1>0 DEF SetUpInv, connected
    <2>3. ChallengePushed'
      BY <1>0, <1>2, <2>2
         DEF OnConnectActivity, notify_challenge, SetUpInv, ChallengePushed
    <2>4. TimeInv' /\ CutInv'
      BY <1>0, <1>2, <1>a DEF OnConnectActivity, BleTypeOK, TimeInv, CutInv
    <2> QED
      BY <2>1, <2>3, <2>4 DEF BleInv
  <1>3. CASE LinkLost
    <2>a. TimesOK'
      BY <1>0, <1>3, TypeParts DEF LinkLost, TimesOK
    <2>b. PlacesOK'
      BY <1>0, <1>3, TypeParts DEF LinkLost, PlacesOK
    <2>c. FlagsOK'
      BY <1>0, <1>3, TypeParts DEF LinkLost, FlagsOK
    <2>0. BleTypeOK'
      BY <2>a, <2>b, <2>c DEF BleTypeOK, TimesOK, PlacesOK, FlagsOK
    <2>1. link' \notin Handle /\ link' # "down" /\ link # "down"
      BY <1>3 DEF LinkLost
    <2>2. SetUpInv' /\ ChallengePushed'
      BY <1>0, <1>3, <2>1 DEF LinkLost, SetUpInv, ChallengePushed
    <2>3. TimeInv' /\ CutInv'
      BY <1>0, <1>3, <2>1 DEF LinkLost, TimeInv, CutInv
    <2> QED
      BY <2>0, <2>2, <2>3 DEF BleInv
  <1>4. CASE OnDisconnect
    BY <1>0, <1>4 DEF OnDisconnect, BleInv, BleTypeOK, SetUpInv, TimeInv, CutInv,
                      ChallengePushed
  <1>5. CASE Readvertise
    <2>1. link = "down" /\ link' = "down"
      BY <1>0, <1>5 DEF Readvertise, SetUpInv
    <2>2. svc \notin {"boot", "begin"}
      BY <1>0, <1>5 DEF Readvertise, SetUpInv
    <2> QED
      BY <1>0, <1>5, <2>1, <2>2
         DEF Readvertise, BleInv, BleTypeOK, SetUpInv, TimeInv, CutInv,
             ChallengePushed
  <1>6. ASSUME NEW whole \in BOOLEAN, OnResponse(whole) PROVE BleInv'
    <2>a. TimesOK'
      BY <1>0, <1>6, TypeParts DEF OnResponse, TimesOK
    <2>b. PlacesOK'
      BY <1>0, <1>6, TypeParts DEF OnResponse, PlacesOK
    <2>c. FlagsOK'
      BY <1>0, <1>6, TypeParts DEF OnResponse, FlagsOK
    <2>0. BleTypeOK'
      BY <2>a, <2>b, <2>c DEF BleTypeOK, TimesOK, PlacesOK, FlagsOK
    <2>1. SetUpInv' /\ ChallengePushed'
      BY <1>0, <1>6 DEF OnResponse, SetUpInv, ChallengePushed
    <2>2. TimeInv' /\ CutInv'
      BY <1>0, <1>6, <1>a DEF OnResponse, BleTypeOK, TimeInv, CutInv
    <2> QED
      BY <2>0, <2>1, <2>2 DEF BleInv
  <1>7. CASE GetReceptive
    <2>a. TimesOK'
      BY <1>0, <1>7, TypeParts DEF GetReceptive, TimesOK
    <2>b. PlacesOK'
      BY <1>0, <1>7, TypeParts DEF GetReceptive, PlacesOK
    <2>c. FlagsOK'
      BY <1>0, <1>7, TypeParts DEF GetReceptive, FlagsOK
    <2>0. BleTypeOK'
      BY <2>a, <2>b, <2>c DEF BleTypeOK, TimesOK, PlacesOK, FlagsOK
    <2>1. SetUpInv' /\ ChallengePushed'
      BY <1>0, <1>7 DEF GetReceptive, SetUpInv, ChallengePushed
    <2>2. TimeInv' /\ CutInv'
      BY <1>0, <1>7 DEF GetReceptive, TimeInv, CutInv
    <2> QED
      BY <2>0, <2>1, <2>2 DEF BleInv
  <1> QED
    BY <1>1, <1>2, <1>3, <1>4, <1>5, <1>6, <1>7 DEF HostTask

(***************************************************************************)
(* The controller's note_activity(): with a time it may have read before   *)
(* the host wrote a later one.                                             *)
(***************************************************************************)
LEMMA NoteInv == BleInv /\ (NoteCall \/ NoteActivity) => BleInv'
  <1> SUFFICES ASSUME BleInv, NoteCall \/ NoteActivity PROVE BleInv'
    OBVIOUS
  <1>0. BleTypeOK /\ SetUpInv /\ TimeInv /\ CutInv /\ ChallengePushed
    BY DEF BleInv
  <1>a. Minus(now, now) = 0
    BY <1>0 DEF BleTypeOK, Minus
  <1> USE DEF Age, Slack, gatt, challenge, service, noting, tasks
  <1>1. CASE NoteCall
    BY <1>0, <1>1, <1>a DEF NoteCall, BleInv, BleTypeOK, SetUpInv, TimeInv, CutInv,
                            ChallengePushed
  <1>2. CASE NoteActivity
    <2>1. BleTypeOK' /\ SetUpInv' /\ ChallengePushed'
      BY <1>0, <1>2 DEF NoteActivity, BleTypeOK, SetUpInv, ChallengePushed
    <2>2. idle' <= idle /\ idle' \in {noteAge, idle} /\ idle' <= noteAge
      BY <1>0, <1>2 DEF NoteActivity, BleTypeOK
    <2>3. Minus(now, last_activity_ms)' = noteAge
      BY <1>0, <1>2 DEF NoteActivity, TimeInv
    <2>4. TimeInv'
      BY <1>0, <1>2, <2>2, <2>3 DEF NoteActivity, BleTypeOK, TimeInv
    <2>5. CutInv'
      BY <1>0, <1>2, <2>2 DEF NoteActivity, BleTypeOK, CutInv
    <2> QED
      BY <2>1, <2>4, <2>5 DEF BleInv
  <1> QED
    BY <1>1, <1>2

THEOREM BleInvariance == BleSpec => []BleInv
  <1>1. BleInv /\ [BleNext]_bleVars => BleInv'
    <2> SUFFICES ASSUME BleInv, [BleNext]_bleVars PROVE BleInv'
      OBVIOUS
    <2>1. CASE BleNext
      BY <2>1, UnitInv, BleTaskInv, HostInv, NoteInv DEF BleNext, BleTask, HostTask
    <2>2. CASE UNCHANGED bleVars
      BY <2>2 DEF bleVars, gatt, challenge, tasks, service, noting, BleInv, BleTypeOK, SetUpInv,
                  TimeInv, CutInv, ChallengePushed, Age, Slack
    <2> QED
      BY <2>1, <2>2
  <1> QED
    BY BleInitInv, <1>1, PTL DEF BleSpec

(* Type correctness of the manager, its tasks and the history. *)
THEOREM BleTypeCorrect == BleSpec => []BleTypeOK
  <1>1. BleInv => BleTypeOK
    BY DEF BleInv
  <1> QED
    BY BleInvariance, <1>1, PTL

(* An idle link is cut within the timeout and two periods of ble_task. *)
THEOREM IdleAlwaysCut == BleSpec => []IdleLinkCut
  <1>1. BleInv => IdleLinkCut
    BY DEF BleInv, BleTypeOK, CutInv, Slack, IdleLinkCut
  <1> QED
    BY BleInvariance, <1>1, PTL

(* A challenge is notified on every connection. *)
THEOREM AlwaysPushed == BleSpec => []ChallengePushed
  <1>1. BleInv => ChallengePushed
    BY DEF BleInv
  <1> QED
    BY BleInvariance, <1>1, PTL
=============================================================================

----------------------- MODULE SmartKeyFirmwareProofs -----------------------
(***************************************************************************)
(* Theorems on the firmware's tasks around their queue: for every length   *)
(* of the queue, every number of connections, whitelist and failure limit, *)
(* with the events that a full queue drops.                                *)
(***************************************************************************)
EXTENDS SmartKeyFirmware, TLAPS

USE FirmwareAssumption

States == {"IDLE", "LOCKED", "LOCKOUT"} \cup Flow
EventRecord == [type : Events, session : Nat]

Typed ==
    /\ state \in States /\ penalised \in BOOLEAN
    /\ queue \in Seq(EventRecord)
    /\ session \in Nat /\ took \in Nat /\ took <= session
    /\ \A i \in 1 .. Len(queue) : queue[i].session <= session
    /\ host \in {"idle", "connecting", "disconnecting"}
    /\ host = "connecting" => connected
    /\ host = "disconnecting" => ~connected
    /\ connected \in BOOLEAN
    /\ zone \in {"NEAR", "MEDIUM", "FAR"}

\* The tag nfc_task has read, or none.
TapTyped ==
    /\ tap.type \in {"NFC_OK", "NFC_FAIL"}
    /\ tap = Evt(tap.type, 0)

(***************************************************************************)
(* The life of a connection k as the queue tells it behind a position p:   *)
(* it goes on, or its end is queued or was dropped; and a right answer     *)
(* that is queued before its end is its own.                               *)
(***************************************************************************)
EndOf(k) == Evt("BLE_DISCONNECT", k)
Live(k) == k = session /\ (connected \/ host = "disconnecting")

Settled(k, p) ==
    \/ Live(k)
    \/ \E j \in 1 .. Len(queue) : j > p /\ queue[j] = EndOf(k)
    \/ EndOf(k) \in lost

Own(k, p) ==
    \A j \in 1 .. Len(queue) :
        j > p /\ queue[j].type = "AUTH_OK"
            => \/ queue[j].session = k
               \/ EndOf(k) \in lost
               \/ \E m \in 1 .. Len(queue) : p < m /\ m < j /\ queue[m] = EndOf(k)

Orderly(k, p) == Settled(k, p) /\ Own(k, p)

\* The connection that the state machine's flow is about, and those to come.
FlowInv == \A k \in Nat : state \in Flow /\ took = k => Orderly(k, 0)
ConnectInv ==
    \A k, i \in Nat :
        i \in 1 .. Len(queue) /\ queue[i] = Evt("BLE_CONNECT", k) => Orderly(k, i)

\* An end is reported once.
LostInv == \A k \in Nat : EndOf(k) \in lost => k <= session /\ ~Live(k)

SessionInv == Typed /\ LostInv /\ FlowInv /\ ConnectInv

-----------------------------------------------------------------------------
LEMMA PostCases ==
    ASSUME queue \in Seq(EventRecord), NEW e \in EventRecord, post(e)
    PROVE  /\ queue' \in Seq(EventRecord)
           /\ \/ /\ Len(queue') = Len(queue) + 1
                 /\ \A i \in 1 .. Len(queue) : queue'[i] = queue[i]
                 /\ queue'[Len(queue) + 1] = e
                 /\ lost' = lost \ {e}
              \/ /\ queue' = queue
                 /\ lost \subseteq lost' /\ lost' \subseteq lost \cup {e}
                 /\ e.type \in {"BLE_DISCONNECT", "UWB_FAR"} => e \in lost'
  BY DEF post

LEMMA TailCases ==
    ASSUME queue \in Seq(EventRecord), queue # <<>>, queue' = Tail(queue)
    PROVE  /\ queue' \in Seq(EventRecord)
           /\ Len(queue) \in Nat \ {0} /\ Len(queue') = Len(queue) - 1
           /\ \A i \in 1 .. Len(queue') : queue'[i] = queue[i + 1]
           /\ Head(queue) = queue[1] /\ queue[1] \in EventRecord
  OBVIOUS

LEMMA EndOfRecord ==
    ASSUME NEW k \in Nat
    PROVE  /\ EndOf(k) \in EventRecord /\ EndOf(k).type = "BLE_DISCONNECT"
           /\ EndOf(k).session = k
           /\ \A e \in EventRecord :
                 e.type = "BLE_DISCONNECT" /\ e.session = k => e = EndOf(k)
  BY DEF EndOf, Evt, EventRecord, Events, Ending

(***************************************************************************)
(* What a post may do to a connection's order: end it, or add an answer of *)
(* its own or one after its end.                                           *)
(***************************************************************************)
LEMMA PostOrderly ==
    ASSUME Typed, NEW e \in EventRecord, post(e),
           NEW k \in Nat, NEW p \in 0 .. Len(queue), Orderly(k, p),
           Live(k) => Live(k)' \/ e = EndOf(k),
           e = EndOf(k) => EndOf(k) \notin lost,
           e.type = "AUTH_OK" => e.session = k \/ ~Live(k)
    PROVE  Orderly(k, p)'
  <1> DEFINE n == Len(queue)
  <1>0. n \in Nat /\ queue \in Seq(EventRecord)
    BY DEF Typed
  <1>1. CASE /\ Len(queue') = n + 1
             /\ \A i \in 1 .. n : queue'[i] = queue[i]
             /\ queue'[n + 1] = e
             /\ lost' = lost \ {e}
    <2>1. EndOf(k) \in lost => EndOf(k) \in lost'
      BY <1>1
    <2>2. \A j \in 1 .. n : j \in 1 .. Len(queue') /\ queue'[j] = queue[j]
      BY <1>0, <1>1
    <2>3. n + 1 \in 1 .. Len(queue') /\ n + 1 > p
      BY <1>0, <1>1
    <2>a. EndOf(k)' = EndOf(k)
      BY DEF EndOf, Evt
    <2>4. Settled(k, p)'
      BY <1>1, <2>1, <2>2, <2>3, <2>a DEF Orderly, Settled
    <2>5. ASSUME NEW j \in 1 .. Len(queue'), j > p, queue'[j].type = "AUTH_OK"
          PROVE  \/ queue'[j].session = k
                 \/ EndOf(k) \in lost'
                 \/ \E m \in 1 .. Len(queue') :
                       p < m /\ m < j /\ queue'[m] = EndOf(k)
      <3>1. CASE j \in 1 .. n
        BY <2>1, <2>2, <2>5, <3>1 DEF Orderly, Own
      <3>2. CASE j = n + 1
        <4>1. CASE e.session = k
          BY <1>1, <3>2, <4>1
        <4>2. CASE e.session # k
          <5>1. \/ \E m \in 1 .. n : m > p /\ queue[m] = EndOf(k)
                \/ EndOf(k) \in lost
            BY <1>1, <2>5, <3>2, <4>2 DEF Orderly, Settled
          <5> QED
            BY <1>0, <2>1, <2>2, <3>2, <5>1
        <4> QED
          BY <4>1, <4>2
      <3> QED
        BY <1>0, <1>1, <3>1, <3>2
    <2> QED
      BY <2>4, <2>5, <2>a DEF Orderly, Own
  <1>2. CASE /\ queue' = queue
             /\ lost \subseteq lost' /\ lost' \subseteq lost \cup {e}
             /\ e.type \in {"BLE_DISCONNECT", "UWB_FAR"} => e \in lost'
    <2>a. EndOf(k)' = EndOf(k)
      BY DEF EndOf, Evt
    <2>1. Settled(k, p)'
      BY <1>2, <2>a, EndOfRecord DEF Orderly, Settled
    <2>2. Own(k, p)'
      BY <1>2, <2>a DEF Orderly, Own
    <2> QED
      BY <2>1, <2>2 DEF Orderly
  <1> QED
    BY <1>0, <1>1, <1>2, PostCases

(***************************************************************************)
(* Taking the head moves everything up by one.                             *)
(***************************************************************************)
LEMMA TakeOrderly ==
    ASSUME Typed, queue # <<>>, queue' = Tail(queue), UNCHANGED radio,
           NEW k \in Nat, EndOf(k) \in lost' <=> EndOf(k) \in lost, NEW p \in 1 .. Len(queue),
           NEW q \in 0 .. p - 1, q = p - 1,
           \/ Orderly(k, p)
           \/ p = 1 /\ Orderly(k, 0) /\ queue[1] # EndOf(k)
    PROVE  Orderly(k, q)'
  <1>0. /\ queue \in Seq(EventRecord) /\ Len(queue) \in Nat
        /\ Len(queue') = Len(queue) - 1
        /\ \A i \in 1 .. Len(queue') : queue'[i] = queue[i + 1]
    BY TailCases DEF Typed
  <1>1. EndOf(k)' = EndOf(k) /\ Live(k)' = Live(k)
    BY DEF EndOf, Evt, Live, radio
  <1>2. \A j \in 2 .. Len(queue) :
           j - 1 \in 1 .. Len(queue') /\ queue'[j - 1] = queue[j]
    BY <1>0
  <1>3. \A j \in 1 .. Len(queue') : j + 1 \in 2 .. Len(queue) /\ j + 1 \in 1 .. Len(queue)
    BY <1>0
  <1>4. Settled(k, q)'
    <2>1. CASE Live(k) \/ EndOf(k) \in lost
      BY <1>1, <2>1 DEF Settled
    <2>2. CASE ~(Live(k) \/ EndOf(k) \in lost)
      <3>1. PICK j \in 1 .. Len(queue) : j > q + 1 /\ queue[j] = EndOf(k)
        BY <1>0, <2>2 DEF Orderly, Settled
      <3>2. j \in 2 .. Len(queue) /\ j - 1 > q
        BY <1>0, <3>1
      <3> QED
        BY <1>1, <1>2, <3>1, <3>2 DEF Settled
    <2> QED
      BY <2>1, <2>2
  <1>5. ASSUME NEW j \in 1 .. Len(queue'), j > q, queue'[j].type = "AUTH_OK",
               queue'[j].session # k, EndOf(k) \notin lost
        PROVE  \E m \in 1 .. Len(queue') : q < m /\ m < j /\ queue'[m] = EndOf(k)
    <2>1. /\ j + 1 \in 1 .. Len(queue) /\ j + 1 > p /\ j + 1 > 0
          /\ queue[j + 1].type = "AUTH_OK" /\ queue[j + 1].session # k
      BY <1>0, <1>3, <1>5
    <2>2. PICK m \in 1 .. Len(queue) : m > q + 1 /\ m < j + 1 /\ queue[m] = EndOf(k)
      BY <1>0, <1>5, <2>1 DEF Orderly, Own
    <2>3. m \in 2 .. Len(queue) /\ q < m - 1 /\ m - 1 < j
      BY <1>0, <2>2
    <2> QED
      BY <1>2, <2>2, <2>3
  <1> QED
    BY <1>1, <1>4, <1>5 DEF Orderly, Own

LEMMA SameOrderly ==
    ASSUME UNCHANGED <<queue, lost>>, NEW k \in Nat, NEW p \in Nat, Orderly(k, p),
           Live(k) => Live(k)'
    PROVE  Orderly(k, p)'
  BY DEF Orderly, Settled, Own, EndOf, Evt

-----------------------------------------------------------------------------
(***************************************************************************)
(* What the state machine does with an event, as far as a flow's beginning *)
(* and end, its proximity and its penalty are concerned.                   *)
(***************************************************************************)
Close == {"UWB_NEAR", "UNLOCKED"}

LEMMA TakeFacts ==
    ASSUME state \in States, penalised \in BOOLEAN,
           NEW ev \in Events, Take(ev)
    PROVE  /\ state' \in States /\ penalised' \in BOOLEAN
           /\ state' \in Flow => \/ state \in Flow /\ ev \notin Ending
                                 \/ state \notin Flow /\ ev = "BLE_CONNECT"
           /\ state' = "BLE_CONNECTED" /\ state # state' => state \notin Flow
           /\ state \notin Flow /\ state' \in Flow => state' = "BLE_CONNECTED"
           /\ state' \in Close => \/ state \in Close /\ (ev = "UWB_FAR" => penalised)
                                 \/ ev = "UWB_NEAR"
  <1> USE DEF States, Flow, Unfinished, Close, Events, Ending, Failing
  <1>1. CASE End(ev)
    BY <1>1 DEF End
  <1>2. CASE Move(ev)
    <2>1. PICK a \in Arrows : a[1] = state /\ a[2] = ev /\ state' = a[3]
      BY <1>2 DEF Move
    <2>2. ~penalised /\ penalised' = penalised
      BY <1>2 DEF Move
    <2> QED
      BY <2>1, <2>2 DEF Arrows
  <1>3. CASE Open(ev)
    BY <1>3 DEF Open
  <1>4. CASE Punish(ev)
    <2>1. \/ state = "BLE_CONNECTED" /\ ev = "NFC_FAIL"
          \/ state = "UWB_NEAR" /\ ev = "AUTH_FAIL"
      BY <1>4 DEF Punish
    <2>2. \/ state' = "IDLE" /\ penalised' \in BOOLEAN
          \/ state' = "LOCKOUT" /\ penalised' = penalised /\ ~penalised
      BY <1>4 DEF Punish
    <2>3. state' \in States /\ state' \notin Flow /\ state' \notin Close
      BY <2>2
    <2>4. penalised' \in BOOLEAN
      BY <2>2
    <2> QED
      BY <2>3, <2>4
  <1>5. CASE Ignore(ev)
    <2>1. state \in Close /\ ev = "UWB_FAR" => penalised
      <3>1. <<"UWB_NEAR", "UWB_FAR", "IDLE">> \in Arrows
            /\ <<"UNLOCKED", "UWB_FAR", "LOCKED">> \in Arrows
        BY DEF Arrows
      <3> QED
        BY <1>5, <3>1 DEF Ignore, Reacts
    <2>2. state \in Flow => ev \notin Ending
      BY <1>5 DEF Ignore, Reacts
    <2> QED
      BY <1>5, <2>1, <2>2 DEF Ignore, flowVars
  <1> QED
    BY <1>1, <1>2, <1>3, <1>4, <1>5 DEF Take

LEMMA ClockFacts ==
    ASSUME state \in States, penalised \in BOOLEAN,
           TimeOut \/ LockoutRunsOut \/ PenaltyRunsOut \/ PenaltyReturns
    PROVE  /\ state' \in States /\ penalised' \in BOOLEAN
           /\ state' \in Flow => state' = state
           /\ state = "UNLOCKED" => state' = state
  BY DEF States, Flow, Unfinished, TimeOut, LockoutRunsOut, PenaltyRunsOut,
         PenaltyReturns

-----------------------------------------------------------------------------
THEOREM SessionInit == FirmwareInit => SessionInv
  <1> SUFFICES ASSUME FirmwareInit PROVE SessionInv
    OBVIOUS
  <1>1. Typed
    <2>1. /\ state \in States /\ queue \in Seq(EventRecord)
          /\ host \in {"idle", "connecting", "disconnecting"}
          /\ zone \in {"NEAR", "MEDIUM", "FAR"}
      BY DEF FirmwareInit, FlowInit, States
    <2>2. session \in Nat /\ took \in Nat /\ took <= session
      BY DEF FirmwareInit
    <2>3. /\ penalised \in BOOLEAN /\ connected \in BOOLEAN
          /\ host # "connecting" /\ host # "disconnecting"
      BY DEF FirmwareInit, FlowInit
    <2>4. \A i \in 1 .. Len(queue) : queue[i].session <= session
      BY DEF FirmwareInit
    <2> QED
      BY <2>1, <2>2, <2>3, <2>4 DEF Typed
  <1>2. LostInv /\ FlowInv /\ ConnectInv
    BY DEF FirmwareInit, FlowInit, LostInv, FlowInv, ConnectInv, Flow, Unfinished
  <1> QED
    BY <1>1, <1>2 DEF SessionInv

(***************************************************************************)
(* A post of any task: of the host, which ends a callback with it, of      *)
(* uwb_task or of nfc_task.                                                *)
(***************************************************************************)
LEMMA PostSession ==
    ASSUME SessionInv, NEW e \in EventRecord, post(e),
           UNCHANGED <<state, penalised, took, connected, session>>,
           zone' \in {"NEAR", "MEDIUM", "FAR"},
           \/ host' = host /\ e.type \notin {"BLE_CONNECT", "BLE_DISCONNECT"}
           \/ host = "connecting" /\ host' = "idle" /\ e = Evt("BLE_CONNECT", session)
           \/ host = "disconnecting" /\ host' = "idle" /\ e = EndOf(session),
           e.session <= session,
           e.type = "AUTH_OK" => e.session = session
    PROVE  SessionInv'
  <1> DEFINE n == Len(queue)
  <1>0. n \in Nat /\ queue \in Seq(EventRecord) /\ session \in Nat
    BY DEF SessionInv, Typed
  <1>1. \A k \in Nat : Live(k)' => Live(k)
    BY DEF Live, SessionInv, Typed
  <1>2. \A k \in Nat : e = EndOf(k) => k = session /\ ~Live(k)' /\ Live(k)
    BY <1>0, EndOfRecord DEF Live, SessionInv, Typed, EndOf, Evt
  <1>3. \A k \in Nat : Live(k) => Live(k)' \/ e = EndOf(k)
    BY DEF Live, SessionInv, Typed
  <1>4. ASSUME NEW k \in Nat, NEW p \in 0 .. n, Orderly(k, p)
        PROVE  Orderly(k, p)'
    <2>1. Typed
      BY DEF SessionInv
    <2>2. Live(k) => Live(k)' \/ e = EndOf(k)
      BY <1>3
    <2>3. e = EndOf(k) => EndOf(k) \notin lost
      BY <1>2 DEF SessionInv, LostInv
    <2>4. e.type = "AUTH_OK" => e.session = k \/ ~Live(k)
      BY DEF Live
    <2> QED
      BY <1>4, <2>1, <2>2, <2>3, <2>4, PostOrderly
  <1>5. /\ queue' \in Seq(EventRecord)
        /\ \/ /\ Len(queue') = n + 1
              /\ \A i \in 1 .. n : queue'[i] = queue[i]
              /\ queue'[n + 1] = e
              /\ lost' = lost \ {e}
           \/ /\ queue' = queue
              /\ lost \subseteq lost' /\ lost' \subseteq lost \cup {e}
              /\ e.type \in {"BLE_DISCONNECT", "UWB_FAR"} => e \in lost'
    BY <1>0, PostCases
  <1>6. Typed'
    <2>1. \A i \in 1 .. Len(queue') : queue'[i].session <= session
      BY <1>0, <1>5 DEF SessionInv, Typed
    <2> QED
      BY <1>5, <2>1 DEF SessionInv, Typed
  <1>7. LostInv'
    <2>1. \A k \in Nat : EndOf(k)' = EndOf(k)
      BY DEF EndOf, Evt
    <2>2. \A k \in Nat : EndOf(k) \in lost' => EndOf(k) \in lost \/ e = EndOf(k)
      BY <1>5
    <2>3. \A k \in Nat : EndOf(k) \in lost' => k <= session /\ ~Live(k)'
      BY <1>0, <1>1, <1>2, <2>2 DEF SessionInv, LostInv
    <2> QED
      BY <2>1, <2>3 DEF LostInv
  <1>8. FlowInv'
    <2>1. ASSUME NEW k \in Nat, state' \in Flow, took' = k
          PROVE  Orderly(k, 0)'
      BY <1>0, <1>4, <2>1 DEF SessionInv, FlowInv
    <2> QED
      BY <2>1 DEF FlowInv
  <1>9. ConnectInv'
    <2>1. ASSUME NEW k \in Nat, NEW i \in Nat, i \in 1 .. Len(queue'),
                 queue'[i] = Evt("BLE_CONNECT", k)
          PROVE  Orderly(k, i)'
      <3>1. CASE i \in 1 .. n
        <4>1. queue[i] = Evt("BLE_CONNECT", k) /\ i \in 0 .. n
          BY <1>0, <1>5, <2>1, <3>1
        <4> QED
          BY <1>4, <3>1, <4>1 DEF SessionInv, ConnectInv
      <3>2. CASE i \notin 1 .. n
        <4>1. i = n + 1 /\ Len(queue') = n + 1 /\ e = Evt("BLE_CONNECT", k)
          BY <1>0, <1>5, <2>1, <3>2
        <4>2. k = session /\ connected' /\ session' = session
          BY <4>1 DEF Evt, EndOf, SessionInv, Typed
        <4>3. Live(k)'
          BY <4>2 DEF Live
        <4>4. \A j \in 1 .. Len(queue') : ~(j > i)
          BY <1>0, <4>1
        <4> QED
          BY <4>3, <4>4 DEF Orderly, Settled, Own
      <3> QED
        BY <3>1, <3>2
    <2>2. \A k \in Nat : Evt("BLE_CONNECT", k)' = Evt("BLE_CONNECT", k)
      BY DEF Evt
    <2> QED
      BY <2>1, <2>2 DEF ConnectInv
  <1> QED
    BY <1>6, <1>7, <1>8, <1>9 DEF SessionInv

(***************************************************************************)
(* A step that leaves the queue alone: a new connection follows the end of *)
(* the one before.                                                         *)
(***************************************************************************)
LEMMA StillSession ==
    ASSUME SessionInv, UNCHANGED <<queue, lost, took>>,
           zone' \in {"NEAR", "MEDIUM", "FAR"},
           \/ UNCHANGED <<connected, host, session>>
           \/ /\ host = "idle" /\ ~connected
              /\ connected' = TRUE /\ host' = "connecting" /\ session' = session + 1
           \/ /\ host = "idle" /\ connected
              /\ connected' = FALSE /\ host' = "disconnecting" /\ session' = session,
           state' \in States, penalised' \in BOOLEAN,
           state' \in Flow => state' = state
    PROVE  SessionInv'
  <1>0. session \in Nat /\ session' \in Nat /\ session <= session'
    BY DEF SessionInv, Typed
  <1>1. \A k \in Nat : Live(k) => Live(k)'
    BY <1>0 DEF Live
  <1>2. \A k \in Nat : Live(k)' => Live(k) \/ k = session + 1
    BY <1>0 DEF Live
  <1>3. Typed'
    <2>1. /\ connected' \in BOOLEAN
          /\ host' = "connecting" => connected'
          /\ host' = "disconnecting" => ~connected'
          /\ host' \in {"idle", "connecting", "disconnecting"}
      <3>1. /\ host \in {"idle", "connecting", "disconnecting"}
            /\ connected \in BOOLEAN
            /\ host = "connecting" => connected
            /\ host = "disconnecting" => ~connected
        BY DEF SessionInv, Typed
      <3>2. CASE UNCHANGED <<connected, host, session>>
        BY <3>1, <3>2
      <3>3. CASE connected' = TRUE /\ host' = "connecting"
        BY <3>3
      <3>4. CASE connected' = FALSE /\ host' = "disconnecting"
        BY <3>4
      <3> QED
        BY <3>2, <3>3, <3>4
    <2>2. /\ queue' \in Seq(EventRecord) /\ took' \in Nat /\ took' <= session'
          /\ \A i \in 1 .. Len(queue') : queue'[i].session <= session'
          /\ zone' \in {"NEAR", "MEDIUM", "FAR"}
      <3>1. \A i \in 1 .. Len(queue) :
               queue[i].session \in Nat /\ queue[i].session <= session
        <4>1. queue \in Seq(EventRecord)
          BY DEF SessionInv, Typed
        <4>0. \A i \in 1 .. Len(queue) : queue[i] \in EventRecord
          BY <4>1
        <4>2. \A i \in 1 .. Len(queue) : queue[i].session \in Nat
          BY <4>0 DEF EventRecord
        <4> QED
          BY <4>2 DEF SessionInv, Typed
      <3> QED
        BY <1>0, <3>1 DEF SessionInv, Typed
    <2> QED
      BY <1>0, <2>1, <2>2 DEF Typed
  <1>4. LostInv'
    BY <1>0, <1>2 DEF SessionInv, LostInv, EndOf, Evt
  <1>5. FlowInv'
    <2>1. ASSUME NEW k \in Nat, state' \in Flow, took' = k
          PROVE  Orderly(k, 0)'
      <3>1. Orderly(k, 0)
        BY <2>1 DEF SessionInv, FlowInv
      <3> QED
        BY <1>1, <3>1, SameOrderly
    <2> QED
      BY <2>1 DEF FlowInv
  <1>6. ConnectInv'
    <2>1. ASSUME NEW k \in Nat, NEW i \in Nat, i \in 1 .. Len(queue),
                 queue[i] = Evt("BLE_CONNECT", k)
          PROVE  Orderly(k, i)'
      <3>1. Orderly(k, i)
        BY <2>1 DEF SessionInv, ConnectInv
      <3> QED
        BY <1>1, <3>1, SameOrderly
    <2> QED
      BY <2>1 DEF ConnectInv, Evt
  <1> QED
    BY <1>3, <1>4, <1>5, <1>6 DEF SessionInv

(***************************************************************************)
(* The controller takes an event: the flow goes on behind it, or begins    *)
(* with the connection it reports.                                         *)
(***************************************************************************)
LEMMA ReceiveSession ==
    ASSUME SessionInv, Receive
    PROVE  SessionInv'
  <1> DEFINE e == queue[1]
  <1>0. /\ queue \in Seq(EventRecord) /\ queue # <<>> /\ queue' = Tail(queue)
        /\ e \in EventRecord /\ e = Head(queue) /\ Len(queue) \in Nat \ {0}
        /\ Len(queue') = Len(queue) - 1 /\ queue' \in Seq(EventRecord)
        /\ \A i \in 1 .. Len(queue') : queue'[i] = queue[i + 1]
    BY TailCases DEF Receive, SessionInv, Typed
  <1>1. /\ UNCHANGED <<radio, zone>> /\ Take(e.type)
        /\ \A k \in Nat : EndOf(k) \in lost' <=> EndOf(k) \in lost
        /\ took' = IF state' = "BLE_CONNECTED" /\ state # state'
                      THEN e.session ELSE took
    BY <1>0 DEF Receive, EndOf, Evt
  <1>2. Typed /\ state \in States /\ penalised \in BOOLEAN
        /\ session \in Nat /\ took \in Nat
    BY DEF SessionInv, Typed
  <1>3. e.type \in Events /\ e.session \in Nat /\ e = Evt(e.type, e.session)
    BY <1>0 DEF EventRecord, Evt
  <1>4. /\ state' \in States /\ penalised' \in BOOLEAN
        /\ state' \in Flow => \/ state \in Flow /\ e.type \notin Ending
                              \/ state \notin Flow /\ e.type = "BLE_CONNECT"
        /\ state' = "BLE_CONNECTED" /\ state # state' => state \notin Flow
        /\ state \notin Flow /\ state' \in Flow => state' = "BLE_CONNECTED"
    BY <1>1, <1>2, <1>3, TakeFacts
  <1>5. Typed'
    <2>1. e.session <= session /\ 1 \in 1 .. Len(queue)
      BY <1>0, <1>2 DEF Typed
    <2>2. took' \in Nat /\ took' <= session'
      BY <1>1, <1>2, <1>3, <2>1 DEF Typed, radio
    <2>3. \A i \in 1 .. Len(queue') : queue'[i].session <= session'
      <3>1. \A i \in 1 .. Len(queue') : i + 1 \in 1 .. Len(queue)
        BY <1>0
      <3> QED
        BY <1>0, <1>1, <1>2, <3>1 DEF Typed, radio
    <2>4. session' \in Nat /\ zone' \in {"NEAR", "MEDIUM", "FAR"}
      BY <1>1, <1>2 DEF Typed, radio
    <2>5. /\ host' \in {"idle", "connecting", "disconnecting"}
          /\ host' = "connecting" => connected'
          /\ host' = "disconnecting" => ~connected'
          /\ connected' \in BOOLEAN
      BY <1>1, <1>2 DEF Typed, radio
    <2> QED
      BY <1>0, <1>4, <2>2, <2>3, <2>4, <2>5 DEF Typed
  <1>6. LostInv'
    BY <1>1 DEF SessionInv, LostInv, Live, EndOf, Evt, radio
  <1>7. FlowInv'
    <2>1. ASSUME NEW k \in Nat, state' \in Flow, took' = k
          PROVE  Orderly(k, 0)'
      <3>1. CASE state \in Flow /\ e.type \notin Ending
        <4>1. took = k
          BY <1>1, <1>4, <2>1, <3>1
        <4>2. Orderly(k, 0)
          BY <3>1, <4>1 DEF SessionInv, FlowInv
        <4>3. queue[1] # EndOf(k)
          BY <3>1, EndOfRecord DEF Ending
        <4> QED
          BY <1>0, <1>1, <1>2, <4>2, <4>3, TakeOrderly
      <3>2. CASE state \notin Flow /\ e.type = "BLE_CONNECT"
        <4>1. k = e.session
          <5>1. state' = "BLE_CONNECTED" /\ state # state'
            BY <1>4, <2>1, <3>2
          <5> QED
            BY <1>1, <2>1, <5>1
        <4>2. Orderly(k, 1)
          <5>1. queue[1] = Evt("BLE_CONNECT", k) /\ 1 \in 1 .. Len(queue)
            BY <1>0, <1>3, <3>2, <4>1
          <5> QED
            BY <5>1 DEF SessionInv, ConnectInv
        <4> QED
          BY <1>0, <1>1, <1>2, <4>2, TakeOrderly
      <3> QED
        BY <1>4, <2>1, <3>1, <3>2
    <2> QED
      BY <2>1 DEF FlowInv
  <1>8. ConnectInv'
    <2>1. ASSUME NEW k \in Nat, NEW i \in Nat, i \in 1 .. Len(queue'),
                 queue'[i] = Evt("BLE_CONNECT", k)
          PROVE  Orderly(k, i)'
      <3>1. i + 1 \in 1 .. Len(queue) /\ queue[i + 1] = Evt("BLE_CONNECT", k)
        BY <1>0, <2>1
      <3>2. Orderly(k, i + 1)
        BY <3>1 DEF SessionInv, ConnectInv
      <3>3. i \in 0 .. (i + 1) - 1 /\ i = (i + 1) - 1
        OBVIOUS
      <3> QED
        BY <1>0, <1>1, <1>2, <3>1, <3>2, <3>3, TakeOrderly
    <2> QED
      BY <2>1 DEF ConnectInv, Evt
  <1> QED
    BY <1>4, <1>5, <1>6, <1>7, <1>8 DEF SessionInv

LEMMA TapPosts == TapEvents \subseteq {"NFC_OK", "NFC_FAIL"}
  BY DEF TapEvents, TapEvent

THEOREM SessionStep ==
    ASSUME SessionInv, TapTyped, [FirmwareNext]_firmwareVars
    PROVE  SessionInv'
  <1> USE DEF machine, radio, reader, control
  <1>0. /\ session \in Nat /\ state \in States /\ penalised \in BOOLEAN
        /\ zone \in {"NEAR", "MEDIUM", "FAR"}
        /\ Evt("BLE_CONNECT", session) \in EventRecord
        /\ EndOf(session) \in EventRecord
        /\ \A type \in {"NFC_OK", "NFC_FAIL", "AUTH_OK", "AUTH_FAIL"} :
              Evt(type, session) \in EventRecord
        /\ \A type \in {"UWB_NEAR", "UWB_FAR"} : Evt(type, 0) \in EventRecord
    BY DEF SessionInv, Typed, Evt, EndOf, EventRecord, Events, Ending, Failing
  <1>1. CASE OnConnect
    BY <1>0, <1>1, StillSession DEF OnConnect
  <1>2. CASE OnConnectPost
    BY <1>0, <1>2, PostSession DEF OnConnectPost, Evt
  <1>3. CASE OnDisconnect
    BY <1>0, <1>3, StillSession DEF OnDisconnect
  <1>4. CASE OnDisconnectPost
    BY <1>0, <1>4, PostSession DEF OnDisconnectPost, Evt, EndOf
  <1>5. CASE RightResponse
    BY <1>0, <1>5, PostSession DEF RightResponse, Evt
  <1>6. CASE WrongResponse
    BY <1>0, <1>6, PostSession DEF WrongResponse, Evt
  <1>7. ASSUME NEW z \in {"NEAR", "MEDIUM", "FAR"}, UwbRound(z)
        PROVE  SessionInv'
    <2>1. CASE Edge(z) = {}
      <3>1. UNCHANGED <<machine, radio, queue, lost>> /\ zone' \in {"NEAR", "MEDIUM", "FAR"}
        BY <1>7, <2>1 DEF UwbRound
      <3> QED
        BY <1>0, <3>1, StillSession
    <2>2. ASSUME NEW type \in Edge(z), post(Evt(type, 0))
          PROVE  SessionInv'
      <3>1. type \in {"UWB_NEAR", "UWB_FAR"}
        BY <2>2 DEF Edge
      <3> QED
        BY <1>0, <1>7, <2>2, <3>1, PostSession DEF UwbRound, Evt
    <2> QED
      BY <1>7, <2>1, <2>2 DEF UwbRound
  <1>8. CASE NfcCheck
    BY <1>0, <1>8, StillSession DEF NfcCheck
  <1>9. CASE NfcRead
    BY <1>0, <1>9, StillSession DEF NfcRead
  <1>a. CASE NfcPost
    <2>1. tap \in EventRecord /\ tap.type \in {"NFC_OK", "NFC_FAIL"}
      BY DEF TapTyped, Evt, EventRecord, Events, Ending, Failing
    <2>2. tap.session <= session
      BY <1>0 DEF TapTyped, Evt
    <2> QED
      BY <1>0, <1>a, <2>1, <2>2, PostSession DEF NfcPost
  <1>10. CASE NfcRearm
    BY <1>0, <1>10, StillSession DEF NfcRearm
  <1>11. CASE Receive
    BY <1>11, ReceiveSession
  <1>12. CASE Notify
    BY <1>0, <1>12, StillSession DEF Notify
  <1>13. CASE Tick
    BY <1>0, <1>13, StillSession, ClockFacts DEF Tick
  <1>14. CASE UNCHANGED firmwareVars
    BY <1>0, <1>14, StillSession DEF firmwareVars
  <1> QED
    BY <1>1, <1>2, <1>3, <1>4, <1>5, <1>6, <1>7, <1>8, <1>9, <1>a, <1>10, <1>11,
       <1>12, <1>13, <1>14 DEF FirmwareNext

LEMMA TapTypedInit == FirmwareInit => TapTyped
  BY DEF FirmwareInit, TapTyped, NoTap, Evt

LEMMA TapTypedStep ==
    ASSUME TapTyped, [FirmwareNext]_firmwareVars
    PROVE  TapTyped'
  <1> USE DEF machine, radio, reader, control
  <1>1. CASE NfcRead
    <2>1. PICK type \in {"NFC_OK", "NFC_FAIL"} : tap' = Evt(type, 0)
      BY <1>1, TapPosts DEF NfcRead
    <2> QED
      BY <2>1 DEF TapTyped, Evt
  <1>2. CASE NfcPost
    BY <1>2 DEF NfcPost, TapTyped, NoTap, Evt
  <1>3. CASE UNCHANGED tap
    BY <1>3 DEF TapTyped, Evt
  <1> QED
    BY <1>1, <1>2, <1>3 DEF FirmwareNext, OnConnect, OnConnectPost, OnDisconnect,
       OnDisconnectPost, RightResponse, WrongResponse, UwbRound, NfcCheck, NfcRearm,
       Receive, Notify, Tick, firmwareVars

LEMMA SessionInvariance == FirmwareSpec => [](SessionInv /\ TapTyped)
  <1>1. SessionInv => Typed
    BY DEF SessionInv
  <1> QED
    BY <1>1, SessionInit, SessionStep, TapTypedInit, TapTypedStep, PTL DEF FirmwareSpec

-----------------------------------------------------------------------------
(***************************************************************************)
(* The state machine is in the flow only while a phone is linked, unless   *)
(* that connection's end is being posted, is queued, or was dropped by a   *)
(* full queue (on_ble_connection in main.cpp).                             *)
(***************************************************************************)
THEOREM LinkAlwaysHeard == FirmwareSpec => []LinkHeard
  <1>1. ASSUME SessionInv PROVE LinkHeard
    <2>1. SUFFICES ASSUME state \in Flow, ~connected, host # "disconnecting",
                          ~Dropped("BLE_DISCONNECT", took)
                   PROVE  Pending("BLE_DISCONNECT")
      BY DEF LinkHeard
    <2>2. Settled(took, 0)
      BY <1>1, <2>1 DEF SessionInv, FlowInv, Typed, Orderly
    <2>3. PICK j \in 1 .. Len(queue) : queue[j] = EndOf(took)
      BY <2>1, <2>2 DEF Settled, Live, Dropped, EndOf
    <2>4. j \in DOMAIN queue /\ queue[j].type = "BLE_DISCONNECT"
      BY <1>1, <2>3 DEF EndOf, Evt, SessionInv, Typed
    <2> QED
      BY <2>4 DEF Pending
  <1> QED
    BY <1>1, SessionInvariance, PTL

(***************************************************************************)
(* The right answer that opens the door was given on the connection that   *)
(* began the flow, unless that connection's end was dropped, however the   *)
(* posts of the host task interleave with the other tasks.                 *)
(***************************************************************************)
THEOREM AnswerAlwaysOfSession == FirmwareSpec => AnswerOfSession
  <1> DEFINE Mixed ==
        ctrl = "loop" /\ ctrl' = "notify" /\ Opens(Head(queue))
            => Head(queue).session = took \/ Dropped("BLE_DISCONNECT", took)
  <1>1. ASSUME SessionInv, [FirmwareNext]_firmwareVars
        PROVE  [Mixed]_firmwareVars
    <2>1. SUFFICES ASSUME ctrl = "loop", ctrl' = "notify", Opens(Head(queue)),
                          ~Dropped("BLE_DISCONNECT", took)
                   PROVE  Head(queue).session = took
      OBVIOUS
    <2>2. Receive
      BY <1>1, <2>1 DEF FirmwareNext, OnConnect, OnConnectPost, OnDisconnect,
           OnDisconnectPost, RightResponse, WrongResponse, UwbRound, NfcCheck, NfcRead,
           NfcPost, NfcRearm, Notify, Tick, control, firmwareVars
    <2>3. /\ Head(queue) = queue[1] /\ queue[1] \in EventRecord
          /\ Len(queue) \in Nat \ {0}
      BY <1>1, <2>2, TailCases DEF Receive, SessionInv, Typed
    <2>4. queue[1].type = "AUTH_OK" /\ state' \in Flow /\ Take(queue[1].type)
      BY <2>1, <2>2, <2>3 DEF Opens, Receive, Flow, Unfinished
    <2>5. state \in Flow /\ took \in Nat
      <3>1. /\ state \in States /\ penalised \in BOOLEAN /\ took \in Nat
            /\ queue[1].type \in Events
        BY <1>1, <2>3 DEF SessionInv, Typed, EventRecord
      <3> QED
        BY <2>4, <3>1, TakeFacts
    <2>6. Own(took, 0)
      BY <1>1, <2>5 DEF SessionInv, FlowInv, Orderly
    <2>7. 1 \in 1 .. Len(queue) /\ 1 > 0 /\ \A m \in 1 .. Len(queue) : ~(m < 1)
      BY <2>3
    <2> QED
      BY <2>1, <2>3, <2>4, <2>6, <2>7 DEF Own, Dropped, EndOf
  <1> QED
    BY <1>1, SessionInvariance, PTL DEF FirmwareSpec, AnswerOfSession

-----------------------------------------------------------------------------
(***************************************************************************)
(* The latest news of a phone that is far away: it is lost, or queued with *)
(* no approach behind it, or taken, with no approach to come.              *)
(***************************************************************************)
FarInv ==
    zone = "FAR" =>
        \/ Evt("UWB_FAR", 0) \in lost
        \/ \E i \in 1 .. Len(queue) :
              /\ queue[i].type = "UWB_FAR"
              /\ \A j \in 1 .. Len(queue) : j > i => queue[j].type # "UWB_NEAR"
        \/ /\ state \notin Close
           /\ \A j \in 1 .. Len(queue) : queue[j].type # "UWB_NEAR"

LEMMA PostFar ==
    ASSUME Typed, FarInv, NEW e \in EventRecord, post(e), state' = state,
           \/ zone' = zone /\ e.type \notin {"UWB_NEAR", "UWB_FAR"}
           \/ zone' # "FAR"
           \/ e = Evt("UWB_FAR", 0)
    PROVE  FarInv'
  <1> DEFINE n == Len(queue)
  <1>0. n \in Nat /\ Evt("UWB_FAR", 0)' = Evt("UWB_FAR", 0)
        /\ Evt("UWB_FAR", 0).type = "UWB_FAR"
    BY DEF Typed, Evt
  <1>1. CASE zone' # "FAR"
    BY <1>1 DEF FarInv
  <1>2. CASE /\ Len(queue') = n + 1
             /\ \A i \in 1 .. n : queue'[i] = queue[i]
             /\ queue'[n + 1] = e
             /\ lost' = lost \ {e}
    <2>1. CASE e = Evt("UWB_FAR", 0)
      <3>1. /\ n + 1 \in 1 .. Len(queue') /\ queue'[n + 1].type = "UWB_FAR"
            /\ \A j \in 1 .. Len(queue') : ~(j > n + 1)
        BY <1>0, <1>2, <2>1
      <3> QED
        BY <3>1 DEF FarInv
    <2>2. CASE zone' = zone /\ e.type \notin {"UWB_NEAR", "UWB_FAR"}
      <3>1. Evt("UWB_FAR", 0) \in lost => Evt("UWB_FAR", 0) \in lost'
        BY <1>0, <1>2, <2>2
      <3>2. \A i \in 1 .. n : i \in 1 .. Len(queue') /\ queue'[i] = queue[i]
        BY <1>0, <1>2
      <3>3. \A j \in 1 .. Len(queue') : j \in 1 .. n \/ queue'[j].type # "UWB_NEAR"
        BY <1>0, <1>2, <2>2
      <3> QED
        BY <1>0, <2>2, <3>1, <3>2, <3>3 DEF FarInv
    <2> QED
      BY <1>1, <2>1, <2>2
  <1>3. CASE /\ queue' = queue
             /\ lost \subseteq lost' /\ lost' \subseteq lost \cup {e}
             /\ e.type \in {"BLE_DISCONNECT", "UWB_FAR"} => e \in lost'
    BY <1>0, <1>1, <1>3 DEF FarInv
  <1> QED
    BY <1>2, <1>3, PostCases DEF Typed

LEMMA ReceiveFar ==
    ASSUME Typed, FarInv, Receive
    PROVE  FarInv'
  <1>0. /\ Len(queue) \in Nat \ {0} /\ Len(queue') = Len(queue) - 1
        /\ \A i \in 1 .. Len(queue') : queue'[i] = queue[i + 1]
        /\ Head(queue) = queue[1] /\ queue[1] \in EventRecord
    BY TailCases DEF Receive, Typed
  <1>1. /\ Evt("UWB_FAR", 0) \in lost => Evt("UWB_FAR", 0) \in lost'
        /\ zone' = zone /\ Evt("UWB_FAR", 0)' = Evt("UWB_FAR", 0)
        /\ state' \in Close => \/ state \in Close /\ queue[1].type # "UWB_FAR"
                               \/ queue[1].type = "UWB_NEAR"
                               \/ Evt("UWB_FAR", 0) \in lost'
    <2>1. queue[1].type \in Events /\ Take(queue[1].type)
      BY <1>0 DEF Receive, EventRecord
    <2>2. Evt("UWB_FAR", 0) \in lost => Evt("UWB_FAR", 0) \in lost'
      BY DEF Receive
    <2>3. ASSUME queue[1].type = "UWB_FAR", state' \in Close
          PROVE  Evt("UWB_FAR", 0) \in lost'
      <3>1. Refused(Head(queue))
        BY <1>0, <2>1, <2>3, TakeFacts DEF Refused, Typed, Close
      <3> QED
        BY <3>1 DEF Receive
    <2>4. state' \in Close => state \in Close \/ queue[1].type = "UWB_NEAR"
      BY <2>1, TakeFacts DEF Typed
    <2> QED
      BY <2>2, <2>3, <2>4 DEF Receive, Evt
  <1>2. \A j \in 1 .. Len(queue') :
           j + 1 \in 1 .. Len(queue) /\ queue'[j] = queue[j + 1]
    BY <1>0
  <1>3. CASE zone # "FAR" \/ Evt("UWB_FAR", 0) \in lost
    BY <1>1, <1>3 DEF FarInv
  <1>4. ASSUME NEW i \in 1 .. Len(queue), queue[i].type = "UWB_FAR",
               \A j \in 1 .. Len(queue) : j > i => queue[j].type # "UWB_NEAR"
        PROVE  FarInv'
    <2>1. CASE i = 1
      <3>1. \A j \in 1 .. Len(queue') : j + 1 > i
        BY <1>0, <2>1
      <3>2. \A j \in 1 .. Len(queue') : queue'[j].type # "UWB_NEAR"
        BY <1>2, <1>4, <3>1
      <3> QED
        BY <1>1, <1>4, <2>1, <3>2 DEF FarInv
    <2>2. CASE i # 1
      <3>1. i - 1 \in 1 .. Len(queue') /\ queue'[i - 1] = queue[i]
        BY <1>0, <2>2
      <3>2. \A j \in 1 .. Len(queue') : j > i - 1 => j + 1 > i
        BY <1>0
      <3>3. \A j \in 1 .. Len(queue') : j > i - 1 => queue'[j].type # "UWB_NEAR"
        BY <1>2, <1>4, <3>2
      <3> QED
        BY <1>4, <3>1, <3>3 DEF FarInv
    <2> QED
      BY <2>1, <2>2
  <1>5. CASE /\ state \notin Close
             /\ \A j \in 1 .. Len(queue) : queue[j].type # "UWB_NEAR"
    <2>1. 1 \in 1 .. Len(queue)
      BY <1>0
    <2> QED
      BY <1>1, <1>2, <1>5, <2>1 DEF FarInv
  <1> QED
    BY <1>3, <1>4, <1>5 DEF FarInv

LEMMA FarStep ==
    ASSUME SessionInv, TapTyped, FarInv, [FirmwareNext]_firmwareVars
    PROVE  FarInv'
  <1> USE DEF machine, radio, reader, control
  <1>0. /\ Typed
        /\ session \in Nat
        /\ \A type \in Events, k \in Nat : Evt(type, k) \in EventRecord
        /\ \A type \in {"UWB_NEAR", "UWB_FAR"} : Evt(type, 0) \in EventRecord
    BY DEF SessionInv, Typed, Evt, EventRecord, Events, Ending, Failing
  <1>1. ASSUME NEW k \in Nat, NEW type \in {"BLE_CONNECT", "BLE_DISCONNECT", "NFC_OK", "NFC_FAIL",
                             "AUTH_OK", "AUTH_FAIL"},
               post(Evt(type, k)), UNCHANGED <<state, zone>>
        PROVE  FarInv'
    <2>1. Evt(type, k) \in EventRecord
          /\ Evt(type, k).type \notin {"UWB_NEAR", "UWB_FAR"}
      BY <1>0 DEF Events, Ending, Failing, Evt
    <2> QED
      BY <1>0, <1>1, <2>1, PostFar
  <1>2. CASE OnConnectPost \/ OnDisconnectPost \/ RightResponse \/ WrongResponse
    BY <1>0, <1>1, <1>2 DEF OnConnectPost, OnDisconnectPost, RightResponse, WrongResponse
  <1>3. CASE NfcPost
    BY <1>1, <1>3 DEF NfcPost, TapTyped
  <1>4. ASSUME NEW z \in {"NEAR", "MEDIUM", "FAR"}, UwbRound(z)
        PROVE  FarInv'
    <2>1. CASE z = "FAR"
      BY <1>0, <1>4, <2>1, PostFar DEF UwbRound, Edge
    <2>2. CASE z # "FAR"
      BY <1>4, <2>2 DEF UwbRound, FarInv
    <2> QED
      BY <2>1, <2>2
  <1>5. CASE Receive
    BY <1>0, <1>5, ReceiveFar
  <1>6. CASE Tick
    <2>1. state' \in Close => state \in Close
      BY <1>0, <1>6, ClockFacts DEF Tick, Typed, Close, Flow, Unfinished
    <2> QED
      BY <1>6, <2>1 DEF Tick, FarInv, Evt
  <1>7. CASE UNCHANGED <<state, queue, zone, lost>>
    BY <1>7 DEF FarInv, Evt
  <1> QED
    BY <1>2, <1>3, <1>4, <1>5, <1>6, <1>7 DEF FirmwareNext, OnConnect, OnDisconnect,
       NfcCheck, NfcRead, NfcRearm, Notify, firmwareVars

(***************************************************************************)
(* An open door, or one about to open, does not outlast the departure of   *)
(* its phone: uwb_task's report of it is queued, was dropped, or was taken *)
(* under a penalty that had returned.                                      *)
(***************************************************************************)
THEOREM FarAlwaysHeard == FirmwareSpec => []FarHeard
  <1>1. FirmwareInit => FarInv
    BY DEF FirmwareInit, FlowInit, FarInv, Close
  <1>2. ASSUME SessionInv, FarInv PROVE FarHeard
    <2>1. \A i \in 1 .. Len(queue) : i \in DOMAIN queue
      BY <1>2 DEF SessionInv, Typed
    <2> QED
      BY <1>2, <2>1 DEF FarInv, FarHeard, Pending, Dropped, Close
  <1>3. ASSUME SessionInv, TapTyped, FarInv, [FirmwareNext]_firmwareVars
        PROVE  FarInv'
    BY <1>3, FarStep
  <1> QED
    BY <1>1, <1>2, <1>3, SessionInvariance, PTL DEF FirmwareSpec

-----------------------------------------------------------------------------
\* A tag is presented, in a session, by a task that then waits for its end.
TapInv ==
    /\ connected \in BOOLEAN /\ tapped \in BOOLEAN /\ taps \in {0, 1}
    /\ connected /\ ~tapped => taps = 0
    /\ nfc \in {"read", "post"} => ~tapped /\ taps = 0

(***************************************************************************)
(* nfc_task presents a tag at most once in a session, also when the phone  *)
(* leaves and comes back between its two reads of connected().             *)
(***************************************************************************)
THEOREM AlwaysTappedOnce == FirmwareSpec => []TappedOnce
  <1>1. FirmwareInit => TapInv
    BY DEF FirmwareInit, TapInv
  <1>2. ASSUME TapInv, [FirmwareNext]_firmwareVars PROVE TapInv'
    <2> USE DEF TapInv, machine, radio, reader, control
    <2>1. CASE OnConnect
      BY <1>2, <2>1 DEF OnConnect
    <2>2. CASE OnDisconnect
      BY <1>2, <2>2 DEF OnDisconnect
    <2>3. CASE NfcCheck
      BY <1>2, <2>3 DEF NfcCheck
    <2>a. CASE NfcRead
      BY <1>2, <2>a DEF NfcRead
    <2>4. CASE NfcPost
      BY <1>2, <2>4 DEF NfcPost
    <2>5. CASE NfcRearm
      BY <1>2, <2>5 DEF NfcRearm
    <2>6. CASE UNCHANGED <<connected, nfc, tapped, taps>>
      BY <1>2, <2>6
    <2> QED
      BY <1>2, <2>1, <2>2, <2>3, <2>a, <2>4, <2>5, <2>6 DEF FirmwareNext, OnConnectPost,
         OnDisconnectPost, RightResponse, WrongResponse, UwbRound, Receive, Notify, Tick,
         firmwareVars
  <1>3. TapInv => TappedOnce
    BY DEF TapInv, TappedOnce
  <1> QED
    BY <1>1, <1>2, <1>3, PTL DEF FirmwareSpec

\* What a phone has been told, while it is linked.
ToldInv ==
    /\ connected \in BOOLEAN /\ toldOpen \in BOOLEAN
    /\ toldOpen => connected
    /\ toldOpen /\ ctrl = "loop" => state = "UNLOCKED"

(***************************************************************************)
(* Between two iterations of controller_task, the latest status a linked   *)
(* phone was notified is UNLOCKED only of a door that is.                  *)
(***************************************************************************)
THEOREM OpenAlwaysOpen == FirmwareSpec => []OpenIsOpen
  <1>1. FirmwareInit => ToldInv
    BY DEF FirmwareInit, ToldInv
  <1>2. ASSUME ToldInv, [FirmwareNext]_firmwareVars PROVE ToldInv'
    <2> USE DEF ToldInv, machine, radio, reader, control
    <2>1. CASE OnConnect
      BY <1>2, <2>1 DEF OnConnect
    <2>2. CASE OnDisconnect
      BY <1>2, <2>2 DEF OnDisconnect
    <2>3. CASE Receive
      BY <1>2, <2>3 DEF Receive
    <2>4. CASE Notify
      BY <1>2, <2>4 DEF Notify
    <2>5. CASE Tick
      BY <1>2, <2>5 DEF Tick, TimeOut, LockoutRunsOut, PenaltyRunsOut,
           PenaltyReturns, Unfinished
    <2>6. CASE UNCHANGED <<connected, toldOpen, ctrl, state>>
      BY <1>2, <2>6
    <2> QED
      BY <1>2, <2>1, <2>2, <2>3, <2>4, <2>5, <2>6 DEF FirmwareNext, OnConnectPost,
         OnDisconnectPost, RightResponse, WrongResponse, UwbRound, NfcCheck, NfcRead,
         NfcPost, NfcRearm, firmwareVars
  <1>3. ToldInv => OpenIsOpen
    BY DEF ToldInv, OpenIsOpen
  <1> QED
    BY <1>1, <1>2, <1>3, PTL DEF FirmwareSpec

-----------------------------------------------------------------------------
(***************************************************************************)
(* NfcManager::is_authorised() accepts exactly the UIDs the configuration  *)
(* lists, each as far as its length says: neither a prefix of one, nor one *)
(* with a byte of the row's padding behind it.                             *)
(***************************************************************************)
THEOREM AuthorisedIsListed ==
    ASSUME NEW S, NEW uid \in Seq(S), uid # NULL
    PROVE  is_authorised(uid) <=> uid \in Listed
  <1> USE NfcAssumption
  <1> DEFINE Row(i) == [j \in 1 .. NFC_WHITELIST_UID_LEN[i] |-> NFC_WHITELIST[i][j]]
  <1>0. Len(uid) \in Nat /\ DOMAIN uid = 1 .. Len(uid)
        /\ uid = [j \in 1 .. Len(uid) |-> uid[j]]
    OBVIOUS
  <1>1. ASSUME is_authorised(uid) PROVE uid \in Listed
    <2>1. PICK i \in DOMAIN NFC_WHITELIST :
             /\ NFC_WHITELIST_UID_LEN[i] = Len(uid)
             /\ \A j \in 1 .. Len(uid) : NFC_WHITELIST[i][j] = uid[j]
      BY <1>1 DEF is_authorised, memcmp_equal
    <2>2. uid = Row(i)
      BY <1>0, <2>1
    <2> QED
      BY <2>2 DEF Listed
  <1>2. ASSUME uid \in Listed PROVE is_authorised(uid)
    <2>1. PICK i \in DOMAIN NFC_WHITELIST : uid = Row(i)
      BY <1>2 DEF Listed
    <2>2. NFC_WHITELIST_UID_LEN[i] \in 1 .. NFC_MAX_UID_LEN /\ NFC_MAX_UID_LEN \in Nat
      BY <2>1
    <2>3. DOMAIN uid = 1 .. NFC_WHITELIST_UID_LEN[i]
      BY <2>1
    <2>4. NFC_WHITELIST_UID_LEN[i] = Len(uid)
      BY <1>0, <2>2, <2>3
    <2>5. \A j \in 1 .. Len(uid) : NFC_WHITELIST[i][j] = uid[j]
      BY <2>1, <2>4
    <2> QED
      BY <2>2, <2>4, <2>5 DEF is_authorised, memcmp_equal
  <1> QED
    BY <1>1, <1>2
=============================================================================

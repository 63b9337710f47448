------------------------ MODULE VehicleServerProofs ------------------------
(***************************************************************************)
(* Theorems on VehicleServer for any number of phones, nonces, tags and    *)
(* connections.                                                            *)
(***************************************************************************)
EXTENDS VehicleServer, SequenceTheorems, TLAPS

USE VehicleAssumption

NonceRecord == [nonce : Nonce, handle : 1 .. Connections, age : 0 .. ttl_s + 1,
            consumed : BOOLEAN]

(***************************************************************************)
(* The records tell their connections apart: each has a handle and a nonce *)
(* of its own, both from the past.                                         *)
(***************************************************************************)
PoolInv ==
    /\ \A i \in DOMAIN pool : pool[i].handle < next_handle
    /\ \A i, j \in DOMAIN pool : pool[i].handle = pool[j].handle => i = j

(***************************************************************************)
(* The connected phone holds the challenge of the present handle.          *)
(***************************************************************************)
ClientInv ==
    conn_handle # None =>
        /\ client \in Phone
        /\ conn_handle < next_handle
        /\ \E i \in DOMAIN pool : /\ pool[i].handle = conn_handle
                                  /\ pool[i].nonce = last_challenge[client]

\* Every disconnection had a connection of its own.
CountInv == disconnects + (IF conn_handle = None THEN 1 ELSE 2) <= next_handle

TagInv == nfc_verified => tapOf = disconnects

SpoofInv == spoofed => relay_suspected

VehicleInv ==
    VehicleTypeOK /\ PoolInv /\ ClientInv /\ CountInv /\ TagInv /\ SpoofInv

-----------------------------------------------------------------------------
(***************************************************************************)
(* Steps that leave the nonces and handles of the records as they are.     *)
(***************************************************************************)
SameKeys ==
    /\ pool' \in Seq(NonceRecord) /\ DOMAIN pool' = DOMAIN pool
    /\ \A i \in DOMAIN pool : /\ pool'[i].nonce = pool[i].nonce
                              /\ pool'[i].handle = pool[i].handle

LEMMA PoolType == VehicleTypeOK => pool \in Seq(NonceRecord)
  BY DEF VehicleTypeOK, NonceRecord

LEMMA SameKeysKeep ==
    ASSUME VehicleInv, SameKeys,
           UNCHANGED <<link, last_challenge>>
    PROVE  PoolInv' /\ ClientInv'
  BY DEF VehicleInv, PoolInv, ClientInv, SameKeys, link

LEMMA Ageing ==
    ASSUME VehicleTypeOK, TimePasses PROVE SameKeys
  <1>1. /\ pool \in Seq(NonceRecord) /\ DOMAIN pool = 1 .. Len(pool) /\ Len(pool) \in Nat
        /\ \A i \in 1 .. Len(pool) : pool[i] \in NonceRecord
    BY PoolType, LenProperties, ElementOfSeq
  <1>2. pool' = [i \in 1 .. Len(pool) |->
                   [pool[i] EXCEPT !.age = IF pool[i].age <= ttl_s THEN pool[i].age + 1
                                                                   ELSE pool[i].age]]
    BY <1>1 DEF TimePasses
  <1>3. \A i \in 1 .. Len(pool) : /\ pool'[i] \in NonceRecord
                                  /\ pool'[i].nonce = pool[i].nonce
                                  /\ pool'[i].handle = pool[i].handle
    <2> SUFFICES ASSUME NEW i \in 1 .. Len(pool)
                 PROVE  /\ pool'[i] \in NonceRecord
                        /\ pool'[i].nonce = pool[i].nonce
                        /\ pool'[i].handle = pool[i].handle
      OBVIOUS
    <2> DEFINE a == IF pool[i].age <= ttl_s THEN pool[i].age + 1 ELSE pool[i].age
    <2>1. pool'[i] = [pool[i] EXCEPT !.age = a]
      BY <1>2
    <2>2. pool[i] \in NonceRecord
      BY <1>1
    <2>3. a \in 0 .. ttl_s + 1
      BY <2>2 DEF NonceRecord
    <2> HIDE DEF a
    <2> QED BY <2>1, <2>2, <2>3 DEF NonceRecord
  <1>4. pool' \in [1 .. Len(pool) -> NonceRecord]
    BY <1>2, <1>3
  <1>5. pool' \in Seq(NonceRecord)
    BY <1>1, <1>4, SeqDef
  <1> QED BY <1>1, <1>2, <1>3, <1>5 DEF SameKeys

(***************************************************************************)
(* A verified answer: what it leaves, and on what a record is consumed.    *)
(***************************************************************************)
LEMMA Verification ==
    ASSUME VehicleTypeOK, NEW n, NEW good \in BOOLEAN, conn_handle # None,
           verify_response(n, good)
    PROVE  /\ SameKeys
           /\ verdict' \in AuthResult /\ asked' \in 1 .. Connections
           /\ unused' = unused
           /\ verdict' = "OK" =>
                \E i \in DOMAIN pool : /\ pool[i].nonce = n /\ pool[i].handle = conn_handle
                                       /\ ~pool[i].consumed /\ pool'[i].consumed
  <1>1. /\ pool \in Seq(NonceRecord) /\ DOMAIN pool = 1 .. Len(pool) /\ Len(pool) \in Nat
        /\ \A i \in 1 .. Len(pool) : pool[i] \in NonceRecord
    BY PoolType, LenProperties, ElementOfSeq
  <1>2. asked' \in 1 .. Connections /\ unused' = unused
    BY DEF VehicleTypeOK, verify_response, None
  <1>3. CASE Records(n) = {} /\ verdict' = "UNKNOWN_NONCE" /\ UNCHANGED pool
    BY <1>1, <1>2, <1>3 DEF SameKeys, AuthResult
  <1>4. CASE \E i \in Records(n) :
               /\ verdict' = Verdict(pool[i], good)
               /\ pool' = IF verdict' = "OK" THEN [pool EXCEPT ![i].consumed = TRUE]
                                             ELSE pool
    <2>1. PICK i \in Records(n) :
            /\ verdict' = Verdict(pool[i], good)
            /\ pool' = IF verdict' = "OK" THEN [pool EXCEPT ![i].consumed = TRUE]
                                          ELSE pool
      BY <1>4
    <2>2. i \in 1 .. Len(pool) /\ pool[i].nonce = n
      BY <1>1 DEF Records
    <2>3. verdict' \in AuthResult
      BY <2>1 DEF Verdict, AuthResult
    <2>4. CASE verdict' # "OK"
      BY <1>1, <1>2, <2>1, <2>3, <2>4 DEF SameKeys
    <2>5. CASE verdict' = "OK"
      <3> DEFINE e == [pool[i] EXCEPT !.consumed = TRUE]
      <3>1. e \in NonceRecord /\ e.nonce = pool[i].nonce /\ e.handle = pool[i].handle /\ e.consumed
        BY <1>1, <2>2 DEF NonceRecord
      <3>2. pool' = [pool EXCEPT ![i] = e]
        BY <2>1, <2>5
      <3>3. /\ pool' \in Seq(NonceRecord) /\ Len(pool') = Len(pool)
            /\ \A j \in 1 .. Len(pool) : pool'[j] = IF j = i THEN e ELSE pool[j]
        <4> HIDE DEF e
        <4> QED BY <1>1, <2>2, <3>1, <3>2, ExceptSeq
      <3>4. DOMAIN pool' = 1 .. Len(pool')
        BY <3>3, LenProperties
      <3>5. pool[i].handle = conn_handle /\ ~pool[i].consumed
        BY <2>1, <2>5 DEF Verdict
      <3>6. SameKeys
        BY <1>1, <3>1, <3>3, <3>4 DEF SameKeys
      <3> QED BY <1>1, <1>2, <2>2, <2>3, <3>1, <3>3, <3>5, <3>6
    <2> QED BY <2>4, <2>5
  <1> QED BY <1>3, <1>4 DEF verify_response

-----------------------------------------------------------------------------
LEMMA InitInv == VehicleInit => VehicleInv
  <1> SUFFICES ASSUME VehicleInit PROVE VehicleInv
    OBVIOUS
  <1>1. <<>> \in Seq(NonceRecord) /\ DOMAIN <<>> = {}
    BY EmptySeq, LenProperties
  <1> USE DEF VehicleInit, None
  <1>2. VehicleTypeOK
    <2>1. pool \in Seq([nonce : Nonce, handle : 1 .. Connections, age : 0 .. ttl_s + 1,
                        consumed : BOOLEAN])
      BY <1>1 DEF NonceRecord
    <2>2. /\ last_challenge \in [Phone -> Nonce \cup {NoNonce}]
          /\ last_status \in [Phone -> Status] /\ told \in Status
      BY DEF Status
    <2>3. /\ conn_handle \in 0 .. Connections /\ next_handle \in 1 .. Connections + 1
          /\ asked \in 1 .. Connections
          /\ disconnects \in 0 .. Connections /\ tapOf \in 0 .. Connections
      OBVIOUS
    <2>4. /\ client \in Phone \cup {NoPhone} /\ unused \subseteq Nonce
          /\ linked \subseteq Phone
      OBVIOUS
    <2>5. /\ zone \in UwbZone /\ verdict \in AuthResult \cup {"NONE"}
          /\ decision \in Denials \cup {"none", "passed"}
      BY DEF UwbZone
    <2>6. /\ relay_suspected \in BOOLEAN /\ nfc_verified \in BOOLEAN
          /\ locked \in BOOLEAN /\ spoofed \in BOOLEAN
      OBVIOUS
    <2> QED BY <2>1, <2>2, <2>3, <2>4, <2>5, <2>6 DEF VehicleTypeOK
  <1>3. PoolInv
    BY <1>1 DEF PoolInv
  <1> QED BY <1>2, <1>3 DEF VehicleInv, ClientInv, CountInv, TagInv, SpoofInv

LEMMA ConnectInv ==
    ASSUME VehicleInv, NEW p \in Phone, Connect(p) PROVE VehicleInv'
  <1> USE DEF VehicleInv, Connect, NewHandle
  <1>1. PICK n \in unused : new_challenge(n, next_handle) /\ NotifyChallenge(p, n)
    BY DEF on_connect
  <1> DEFINE e == [nonce |-> n, handle |-> next_handle, age |-> 0, consumed |-> FALSE]
  <1>2. pool \in Seq(NonceRecord) /\ e \in NonceRecord /\ next_handle \in 1 .. Connections
    BY PoolType DEF VehicleTypeOK, NonceRecord
  <1>3. e.nonce = n /\ e.handle = next_handle
    OBVIOUS
  <1>4. pool' = Append(pool, e)
    BY <1>1 DEF new_challenge
  <1> HIDE DEF e
  <1>5. /\ pool' \in Seq(NonceRecord) /\ Len(pool) \in Nat
        /\ DOMAIN pool = 1 .. Len(pool) /\ DOMAIN pool' = 1 .. Len(pool) + 1
        /\ \A i \in 1 .. Len(pool) : pool'[i] = pool[i] /\ pool[i].handle \in Int
        /\ pool'[Len(pool) + 1] = e
    <2>1. /\ Len(pool) \in Nat /\ DOMAIN pool = 1 .. Len(pool)
          /\ \A i \in 1 .. Len(pool) : pool[i] \in NonceRecord
      BY <1>2, LenProperties, ElementOfSeq
    <2>2. \A i \in 1 .. Len(pool) : pool[i].handle \in Int
      BY <2>1 DEF NonceRecord
    <2>3. pool' \in Seq(NonceRecord) /\ Len(pool') = Len(pool) + 1
      BY <1>2, <1>4, <2>1
    <2>4. DOMAIN pool' = 1 .. Len(pool) + 1
      BY <2>3, LenProperties
    <2>5. (\A i \in 1 .. Len(pool) : pool'[i] = pool[i]) /\ pool'[Len(pool) + 1] = e
      BY <1>2, <1>4, <2>1
    <2> QED BY <2>1, <2>2, <2>3, <2>4, <2>5
  <1>6. VehicleTypeOK'
    <2>1. last_challenge' \in [Phone -> Nonce \cup {NoNonce}]
      BY <1>1 DEF VehicleTypeOK, NotifyChallenge
    <2>2. unused' \subseteq Nonce
      BY <1>1 DEF VehicleTypeOK, new_challenge
    <2>3. pool' \in Seq([nonce : Nonce, handle : 1 .. Connections, age : 0 .. ttl_s + 1,
                         consumed : BOOLEAN])
      BY <1>5 DEF NonceRecord
    <2>4. /\ conn_handle' \in 0 .. Connections /\ next_handle' \in 1 .. Connections + 1
          /\ client' \in Phone \cup {NoPhone} /\ linked' \subseteq Phone
      BY <1>2 DEF VehicleTypeOK
    <2>5. verdict' = verdict /\ asked' = asked /\ told' \in Status
          /\ last_status' = last_status
      BY <1>1 DEF new_challenge, NotifyChallenge, Status
    <2> QED BY <2>1, <2>2, <2>3, <2>4, <2>5 DEF VehicleTypeOK, ranger, server
  <1>7. PoolInv'
    <2> DEFINE L == Len(pool)
    <2>1. /\ L \in Nat /\ DOMAIN pool = 1 .. L /\ next_handle' = next_handle + 1
          /\ \A i \in DOMAIN pool' : i \in 1 .. L \/ i = L + 1
      BY <1>5
    <2>2. \A i \in 1 .. L : pool'[i].handle = pool[i].handle
      BY <1>5
    <2>3. \A i \in 1 .. L : pool'[i].handle \in Int /\ pool'[i].handle < next_handle
      BY <1>5, <2>1, <2>2 DEF PoolInv
    <2>4. pool'[L + 1].handle = next_handle
      BY <1>3, <1>5
    <2>5. \A i, j \in 1 .. L : pool'[i].handle = pool'[j].handle => i = j
      BY <2>1, <2>2 DEF PoolInv
    <2> HIDE DEF L
    <2>6. \A i \in DOMAIN pool' : pool'[i].handle < next_handle'
      BY <1>2, <2>1, <2>3, <2>4
    <2>7. \A i, j \in DOMAIN pool' : pool'[i].handle = pool'[j].handle => i = j
      BY <1>2, <2>1, <2>3, <2>4, <2>5
    <2> QED BY <2>6, <2>7 DEF PoolInv
  <1>8. ClientInv'
    <2>1. last_challenge'[p] = n
      BY <1>1 DEF NotifyChallenge, VehicleTypeOK
    <2> QED BY <1>2, <1>3, <1>5, <2>1 DEF ClientInv
  <1>9. CountInv'
    BY <1>2 DEF CountInv, VehicleTypeOK, server, None
  <1> QED BY <1>6, <1>7, <1>8, <1>9 DEF TagInv, SpoofInv, server, ranger

LEMMA DisconnectInv ==
    ASSUME VehicleInv, NEW p \in Phone, Disconnect(p) PROVE VehicleInv'
  <1> USE DEF VehicleInv, Disconnect, LinkDown, on_disconnect, None
  <1>1. disconnects' \in 0 .. Connections
    BY DEF CountInv, VehicleTypeOK
  <1>2. VehicleTypeOK'
    <2>1. UNCHANGED <<next_handle, pool, unused, verdict, asked, zone, relay_suspected,
                      spoofed, last_challenge, last_status, linked, decision, tapOf>>
      BY DEF engine, ranger
    <2>2. conn_handle' \in 0 .. Connections
      BY SMT
    <2>3. client' \in Phone \cup {NoPhone} /\ told' \in Status
      BY DEF Status
    <2>4. nfc_verified' \in BOOLEAN /\ locked' \in BOOLEAN
      OBVIOUS
    <2> QED BY <1>1, <2>1, <2>2, <2>3, <2>4 DEF VehicleTypeOK
  <1>3. PoolInv' /\ ClientInv'
    BY DEF PoolInv, ClientInv, engine
  <1>4. CountInv'
    BY DEF CountInv, VehicleTypeOK
  <1> QED BY <1>2, <1>3, <1>4 DEF TagInv, SpoofInv, ranger

LEMMA NfcInv ==
    ASSUME VehicleInv, NEW uid \in Uid, verify_nfc(uid) PROVE VehicleInv'
  <1> USE DEF VehicleInv, verify_nfc
  <1>1. VehicleTypeOK'
    BY DEF VehicleTypeOK, authorised, link, engine, ranger, phones
  <1>2. PoolInv' /\ ClientInv' /\ CountInv' /\ SpoofInv'
    BY DEF PoolInv, ClientInv, CountInv, SpoofInv, link, engine, ranger, phones
  <1> QED BY <1>1, <1>2 DEF TagInv

LEMMA RangeInv ==
    ASSUME VehicleInv,
           \/ \E z \in UwbZone, plausible \in BOOLEAN : range_uwb(z, plausible)
           \/ reset_session
    PROVE  VehicleInv'
  <1> USE DEF VehicleInv
  <1>1. UNCHANGED <<link, engine, phones, server>>
    BY DEF range_uwb, reset_session
  <1>2. /\ zone' \in UwbZone /\ relay_suspected' \in BOOLEAN /\ spoofed' \in BOOLEAN
        /\ SpoofInv'
    BY DEF VehicleTypeOK, SpoofInv, range_uwb, reset_session, push, UwbZone
  <1>3. VehicleTypeOK'
    BY <1>1, <1>2 DEF VehicleTypeOK, link, engine, phones, server
  <1>4. PoolInv' /\ ClientInv' /\ CountInv' /\ TagInv'
    BY <1>1 DEF PoolInv, ClientInv, CountInv, TagInv, link, engine, phones, server
  <1> QED BY <1>2, <1>3, <1>4

(***************************************************************************)
(* _record() keeps types and tells the connected phone.                    *)
(***************************************************************************)
LEMMA Recording ==
    ASSUME VehicleInv, conn_handle # None,
           NEW reason \in Denials \cup {"passed"}, Record(reason)
    PROVE  /\ decision' \in Denials \cup {"none", "passed"}
           /\ last_status' \in [Phone -> Status] /\ told' \in Status
           /\ UNCHANGED <<last_challenge, linked>>
  BY DEF VehicleInv, VehicleTypeOK, Record, NotifyStatus, Status

LEMMA WriteInv ==
    ASSUME VehicleInv, NEW n, NEW good \in BOOLEAN, client_write(n, good)
    PROVE  VehicleInv'
  <1> USE DEF VehicleInv, client_write, on_response_write
  <1>1. /\ SameKeys /\ verdict' \in AuthResult /\ asked' \in 1 .. Connections
        /\ unused' = unused
    BY Verification
  <1>2. Judgement \in Denials \cup {"passed"}
    BY <1>1 DEF Judgement, Denials, AuthResult
  <1>3. /\ decision' \in Denials \cup {"none", "passed"}
        /\ last_status' \in [Phone -> Status] /\ told' \in Status
        /\ UNCHANGED <<last_challenge, linked>>
    BY <1>2, Recording
  <1>4. VehicleTypeOK'
    BY <1>1, <1>3 DEF VehicleTypeOK, SameKeys, NonceRecord, link, ranger
  <1>5. PoolInv' /\ ClientInv'
    BY <1>1, <1>3, SameKeysKeep
  <1>6. CountInv' /\ TagInv' /\ SpoofInv'
    BY DEF CountInv, TagInv, SpoofInv, link, ranger
  <1> QED BY <1>4, <1>5, <1>6

LEMMA MalformedInv ==
    ASSUME VehicleInv, MalformedWrite PROVE VehicleInv'
  <1> USE DEF VehicleInv, MalformedWrite
  <1>1. /\ decision' \in Denials \cup {"none", "passed"}
        /\ last_status' \in [Phone -> Status] /\ told' \in Status
        /\ UNCHANGED <<last_challenge, linked>>
    BY Recording DEF Denials
  <1>2. VehicleTypeOK'
    BY <1>1 DEF VehicleTypeOK, link, engine, ranger
  <1>3. PoolInv' /\ ClientInv' /\ CountInv' /\ TagInv' /\ SpoofInv'
    BY <1>1 DEF PoolInv, ClientInv, CountInv, TagInv, SpoofInv, link, engine, ranger
  <1> QED BY <1>2, <1>3

LEMMA AgeInv ==
    ASSUME VehicleInv, TimePasses PROVE VehicleInv'
  <1> USE DEF VehicleInv, TimePasses
  <1>1. SameKeys
    BY Ageing
  <1>2. VehicleTypeOK'
    BY <1>1 DEF VehicleTypeOK, SameKeys, NonceRecord, link, ranger, phones, server
  <1>3. PoolInv' /\ ClientInv'
    BY <1>1, SameKeysKeep DEF phones
  <1>4. CountInv' /\ TagInv' /\ SpoofInv'
    BY DEF CountInv, TagInv, SpoofInv, link, ranger, server
  <1> QED BY <1>2, <1>3, <1>4

LEMMA VehicleStep == VehicleInv /\ [VehicleNext]_vehicleVars => VehicleInv'
  <1> SUFFICES ASSUME VehicleInv, [VehicleNext]_vehicleVars PROVE VehicleInv'
    OBVIOUS
  <1>1. CASE \E p \in Phone : Connect(p) \/ Disconnect(p)
    BY <1>1, ConnectInv, DisconnectInv
  <1>2. CASE \E uid \in Uid : verify_nfc(uid)
    BY <1>2, NfcInv
  <1>3. CASE \/ \E z \in UwbZone, plausible \in BOOLEAN : range_uwb(z, plausible)
             \/ reset_session
    BY <1>3, RangeInv
  <1>4. CASE \E p \in Phone, good \in BOOLEAN : respond_to_challenge(p, good)
    BY <1>4, WriteInv DEF respond_to_challenge
  <1>5. CASE \E n \in Nonce, good \in BOOLEAN : client_write(n, good)
    BY <1>5, WriteInv
  <1>6. CASE MalformedWrite
    BY <1>6, MalformedInv
  <1>7. CASE TimePasses
    BY <1>7, AgeInv
  <1>8. CASE UNCHANGED vehicleVars
    BY <1>8 DEF vehicleVars, link, engine, ranger, phones, server, VehicleInv,
                VehicleTypeOK, PoolInv, ClientInv, CountInv, TagInv, SpoofInv
  <1> QED BY <1>1, <1>2, <1>3, <1>4, <1>5, <1>6, <1>7, <1>8 DEF VehicleNext

(***************************************************************************)
(* VehicleInv is an inductive invariant.                                   *)
(***************************************************************************)
THEOREM VehicleInvariance == VehicleSpec => []VehicleInv
  BY InitInv, VehicleStep, PTL DEF VehicleSpec

(***************************************************************************)
(* Only a written answer opens the door, and only with everything in place.*)
(***************************************************************************)
LEMMA OpeningAnswer ==
    ASSUME VehicleInv, [VehicleNext]_vehicleVars, Opens
    PROVE  \E n, good : /\ good \in BOOLEAN /\ client_write(n, good)
                        /\ verdict' = "OK" /\ nfc_verified /\ ~relay_suspected
                        /\ zone = "NEAR"
  <1> USE DEF Opens
  <1>1. ~UNCHANGED vehicleVars
    BY DEF vehicleVars, server
  <1>2. ASSUME NEW p \in Phone, Connect(p) \/ Disconnect(p) PROVE FALSE
    BY <1>2 DEF Connect, Disconnect, on_disconnect, server
  <1>3. ASSUME NEW uid \in Uid, verify_nfc(uid) PROVE FALSE
    BY <1>3 DEF verify_nfc
  <1>4. ASSUME NEW z \in UwbZone, NEW plausible \in BOOLEAN,
               range_uwb(z, plausible) \/ reset_session
        PROVE  FALSE
    BY <1>4 DEF range_uwb, reset_session, server
  <1>5. ~MalformedWrite /\ ~TimePasses
    BY DEF MalformedWrite, TimePasses, server
  <1>6. ~reset_session
    BY DEF reset_session, server
  <1>7. PICK n, good : good \in BOOLEAN /\ client_write(n, good)
    BY <1>1, <1>2, <1>3, <1>4, <1>5, <1>6 DEF VehicleNext, respond_to_challenge
  <1>8. Judgement = "passed"
    BY <1>7 DEF client_write, on_response_write
  <1>9. verdict' = "OK" /\ nfc_verified /\ ~relay_suspected /\ zone = "NEAR"
    <2>1. verdict' \in AuthResult
      BY <1>7, Verification DEF client_write, on_response_write, VehicleInv
    <2> QED BY <1>8, <2>1 DEF Judgement, AuthResult
  <1> QED BY <1>7, <1>9

(***************************************************************************)
(* Type correctness of the simulator's classes.                            *)
(***************************************************************************)
THEOREM VehicleTypeCorrect == VehicleSpec => []VehicleTypeOK
  <1>1. VehicleInv => VehicleTypeOK
    BY DEF VehicleInv
  <1> QED BY <1>1, VehicleInvariance, PTL

(***************************************************************************)
(* The answer that opens the door is to the challenge the connected phone  *)
(* got on this very connection.                                            *)
(***************************************************************************)
THEOREM OwnChallengeOpens == VehicleSpec => BoundToConnection
  <1> DEFINE Own == Opens => \E i \in DOMAIN pool :
                        /\ pool'[i].consumed /\ ~pool[i].consumed
                        /\ pool[i].nonce = last_challenge[client]
  <1>1. ASSUME VehicleInv, [VehicleNext]_vehicleVars PROVE [Own]_vehicleVars
    <2> SUFFICES ASSUME Opens
                 PROVE  \E i \in DOMAIN pool : /\ pool'[i].consumed /\ ~pool[i].consumed
                                               /\ pool[i].nonce = last_challenge[client]
      OBVIOUS
    <2>1. PICK n, good : good \in BOOLEAN /\ client_write(n, good) /\ verdict' = "OK"
      BY <1>1, OpeningAnswer
    <2>2. conn_handle # None /\ verify_response(n, good)
      BY <2>1 DEF client_write, on_response_write
    <2>3. PICK i \in DOMAIN pool : /\ pool[i].handle = conn_handle
                                   /\ ~pool[i].consumed /\ pool'[i].consumed
      BY <1>1, <2>1, <2>2, Verification DEF VehicleInv
    <2>4. PICK j \in DOMAIN pool : /\ pool[j].handle = conn_handle
                                   /\ pool[j].nonce = last_challenge[client]
      BY <1>1, <2>2 DEF VehicleInv, ClientInv
    <2>5. i = j
      BY <1>1, <2>3, <2>4 DEF VehicleInv, PoolInv
    <2> QED BY <2>3, <2>4, <2>5
  <1> QED BY <1>1, VehicleInvariance, PTL DEF VehicleSpec, BoundToConnection

(***************************************************************************)
(* The tag that opens the door was read since the latest disconnection the *)
(* server was told of.                                                     *)
(***************************************************************************)
THEOREM RecentTagOpens == VehicleSpec => TagSinceDisconnect
  <1>1. ASSUME VehicleInv, [VehicleNext]_vehicleVars
        PROVE  [Opens => nfc_verified /\ tapOf = disconnects]_vehicleVars
    BY <1>1, OpeningAnswer DEF VehicleInv, TagInv
  <1> QED BY <1>1, VehicleInvariance, PTL DEF VehicleSpec, TagSinceDisconnect

(***************************************************************************)
(* After an implausible sample nothing opens the door before a reset.      *)
(***************************************************************************)
THEOREM SpoofedStaysShut == VehicleSpec => SpoofNeverOpens
  <1>1. ASSUME VehicleInv, [VehicleNext]_vehicleVars
        PROVE  [Opens => ~spoofed]_vehicleVars
    BY <1>1, OpeningAnswer DEF VehicleInv, SpoofInv
  <1> QED BY <1>1, VehicleInvariance, PTL DEF VehicleSpec, SpoofNeverOpens

(***************************************************************************)
(* A phone told "granted" on its connection stands before an open door:    *)
(* the status and the lock part company in no step.                        *)
(***************************************************************************)
THEOREM GrantAlwaysOpen == VehicleSpec => []GrantToldIsOpen
  <1>1. VehicleInit => GrantToldIsOpen
    BY DEF VehicleInit, GrantToldIsOpen
  <1>2. GrantToldIsOpen /\ [VehicleNext]_vehicleVars => GrantToldIsOpen'
    <2> SUFFICES ASSUME GrantToldIsOpen, [VehicleNext]_vehicleVars PROVE GrantToldIsOpen'
      OBVIOUS
    <2> USE DEF GrantToldIsOpen
    <2>1. ASSUME NEW n, NEW good, client_write(n, good) PROVE GrantToldIsOpen'
      BY <2>1 DEF client_write, on_response_write, Record, NotifyStatus
    <2>2. CASE \E p \in Phone : Connect(p) \/ Disconnect(p)
      BY <2>2 DEF Connect, on_connect, NotifyChallenge, Disconnect
    <2>3. CASE \E uid \in Uid : verify_nfc(uid)
      BY <2>3 DEF verify_nfc, phones
    <2>4. CASE \/ \E z \in UwbZone, plausible \in BOOLEAN : range_uwb(z, plausible)
               \/ reset_session
      BY <2>4 DEF range_uwb, reset_session, phones, server
    <2>5. CASE MalformedWrite
      BY <2>5 DEF MalformedWrite, Record, NotifyStatus
    <2>6. CASE TimePasses \/ UNCHANGED vehicleVars
      BY <2>6 DEF TimePasses, vehicleVars, phones, server
    <2> QED BY <2>1, <2>2, <2>3, <2>4, <2>5, <2>6 DEF VehicleNext, respond_to_challenge
  <1> QED BY <1>1, <1>2, PTL DEF VehicleSpec

-----------------------------------------------------------------------------
(***************************************************************************)
(* The engine as a ledger.  It has a challenge per connection, so it never *)
(* has to forget one, and a phone that answers has a challenge to name.    *)
(***************************************************************************)
RoomInv ==
    /\ VehicleInv
    /\ Len(pool) < next_handle
    /\ \A p \in linked : last_challenge[p] \in Nonce

LEMMA RoomInit == VehicleInit => RoomInv
  BY InitInv, EmptySeq DEF VehicleInit, RoomInv


LEMMA RoomStep == RoomInv /\ [VehicleNext]_vehicleVars => RoomInv'
  <1> SUFFICES ASSUME RoomInv, [VehicleNext]_vehicleVars PROVE RoomInv'
    OBVIOUS
  <1>0. VehicleInv /\ VehicleInv'
    BY VehicleStep DEF RoomInv
  <1>1. /\ pool \in Seq(NonceRecord) /\ DOMAIN pool = 1 .. Len(pool) /\ Len(pool) \in Nat
        /\ next_handle \in Nat
    BY <1>0, PoolType, LenProperties DEF VehicleInv, VehicleTypeOK
  <1>2. /\ last_challenge \in [Phone -> Nonce \cup {NoNonce}] /\ linked \subseteq Phone
        /\ unused \subseteq Nonce
    BY <1>0 DEF VehicleInv, VehicleTypeOK
  <1>3. ASSUME SameKeys, UNCHANGED <<next_handle, last_challenge, linked>> PROVE RoomInv'
    <2>1. pool' \in Seq(NonceRecord) /\ DOMAIN pool' = DOMAIN pool
      BY <1>3 DEF SameKeys
    <2>2. Len(pool') \in Nat /\ DOMAIN pool' = 1 .. Len(pool')
      BY <2>1, LenProperties
    <2>3. Len(pool') = Len(pool)
      BY <1>1, <2>1, <2>2
    <2> QED BY <1>0, <1>3, <2>3 DEF RoomInv
  <1>4. ASSUME UNCHANGED <<pool, next_handle, last_challenge, linked>> PROVE RoomInv'
    BY <1>0, <1>4 DEF RoomInv
  <1>5. ASSUME NEW p \in Phone, Connect(p) PROVE RoomInv'
    <2>1. PICK n \in unused : /\ new_challenge(n, next_handle)
                              /\ last_challenge' = [last_challenge EXCEPT ![p] = n]
      BY <1>5 DEF Connect, on_connect, NotifyChallenge
    <2> DEFINE e == [nonce |-> n, handle |-> next_handle, age |-> 0, consumed |-> FALSE]
    <2>2. e \in NonceRecord
      BY <1>0, <1>2, <1>5 DEF Connect, NonceRecord, VehicleInv, VehicleTypeOK
    <2>3. pool' = Append(pool, e)
      BY <2>1 DEF new_challenge
    <2>4. Len(pool') = Len(pool) + 1
      <3> HIDE DEF e
      <3> QED BY <1>1, <2>2, <2>3, AppendProperties
    <2>5. next_handle' = next_handle + 1 /\ linked' = linked \cup {p}
      BY <1>5 DEF Connect, NewHandle
    <2>6. \A q \in linked' : last_challenge'[q] \in Nonce
      BY <1>2, <2>1, <2>5 DEF RoomInv
    <2>7. Len(pool') < next_handle'
      BY <1>1, <2>4, <2>5 DEF RoomInv
    <2> QED BY <1>0, <2>6, <2>7 DEF RoomInv
  <1>6. ASSUME NEW p \in Phone, Disconnect(p) PROVE RoomInv'
    BY <1>4, <1>6 DEF Disconnect, LinkDown, engine
  <1>7. ASSUME NEW uid \in Uid, verify_nfc(uid) PROVE RoomInv'
    BY <1>4, <1>7 DEF verify_nfc, link, engine, phones
  <1>8. ASSUME \/ \E z \in UwbZone, plausible \in BOOLEAN : range_uwb(z, plausible)
               \/ reset_session
        PROVE  RoomInv'
    BY <1>4, <1>8 DEF range_uwb, reset_session, link, engine, phones
  <1>9. ASSUME NEW n, NEW good \in BOOLEAN, client_write(n, good) PROVE RoomInv'
    <2>1. SameKeys
      BY <1>0, <1>9, Verification DEF client_write, on_response_write, VehicleInv
    <2>2. UNCHANGED <<next_handle, last_challenge, linked>>
      BY <1>9 DEF client_write, on_response_write, Record, NotifyStatus, link
    <2> QED BY <1>3, <2>1, <2>2
  <1>10. ASSUME MalformedWrite PROVE RoomInv'
    BY <1>4, <1>10 DEF MalformedWrite, Record, NotifyStatus, link, engine
  <1>11. ASSUME TimePasses PROVE RoomInv'
    <2>1. SameKeys
      BY <1>0, <1>11, Ageing DEF VehicleInv
    <2> QED BY <1>3, <1>11, <2>1 DEF TimePasses, link, phones
  <1>12. CASE UNCHANGED vehicleVars
    BY <1>4, <1>12 DEF vehicleVars, link, engine, phones
  <1> QED BY <1>5, <1>6, <1>7, <1>8, <1>9, <1>10, <1>11, <1>12
          DEF VehicleNext, respond_to_challenge

(***************************************************************************)
(* A verdict is "OK" on the ledger's terms, and otherwise its reason.      *)
(***************************************************************************)
LEMMA VerdictReason ==
    ASSUME NEW rec \in NonceRecord, NEW good \in BOOLEAN
    PROVE  /\ Verdict(rec, good) = "OK" <=> good /\ Ledger!Fresh(rec, conn_handle)
           /\ Verdict(rec, good) # "OK"
                => Verdict(rec, good) = Ledger!Reason(rec, conn_handle)
  <1>1. rec.age \in Nat /\ ttl_s \in Nat /\ rec.consumed \in BOOLEAN
    BY DEF NonceRecord
  <1> QED BY <1>1 DEF Verdict, Ledger!Fresh, Ledger!Reason

LEMMA LedgerAnswer ==
    ASSUME RoomInv, NEW n \in Nonce, NEW good \in BOOLEAN, client_write(n, good)
    PROVE  Ledger!Next
  <1>1. /\ verify_response(n, good) /\ conn_handle \in 1 .. Connections
        /\ asked' = conn_handle /\ UNCHANGED unused
    <2>1. conn_handle # None /\ verify_response(n, good)
      BY DEF client_write, on_response_write
    <2>2. conn_handle \in 1 .. Connections
      BY <2>1 DEF RoomInv, VehicleInv, VehicleTypeOK, None
    <2>3. asked' = conn_handle /\ UNCHANGED unused
      BY <2>1 DEF verify_response
    <2> QED BY <2>1, <2>2, <2>3
  <1> SUFFICES Ledger!Answer(conn_handle, n, good)
    BY <1>1 DEF Ledger!Next
  <1>2. \A i \in DOMAIN pool : pool[i] \in NonceRecord
    BY PoolType, LenProperties, ElementOfSeq DEF RoomInv, VehicleInv
  <1>3. CASE Records(n) = {} /\ verdict' = "UNKNOWN_NONCE" /\ UNCHANGED pool
    BY <1>1, <1>3 DEF Records, Ledger!Answer, Ledger!Refuse, Ledger!Known
  <1>4. ASSUME NEW i \in Records(n), verdict' = Verdict(pool[i], good),
               pool' = IF verdict' = "OK" THEN [pool EXCEPT ![i].consumed = TRUE] ELSE pool
        PROVE  Ledger!Answer(conn_handle, n, good)
    <2>1. i \in Ledger!Known(n) /\ pool[i] \in NonceRecord
      BY <1>2 DEF Records, Ledger!Known
    <2>2. CASE verdict' = "OK"
      <3>1. good /\ Ledger!Fresh(pool[i], conn_handle)
        BY <1>4, <2>1, <2>2, VerdictReason
      <3>2. Ledger!Accept(conn_handle, n)
        BY <1>1, <1>4, <2>1, <2>2, <3>1 DEF Ledger!Accept
      <3> QED BY <1>1, <3>1, <3>2 DEF Ledger!Answer
    <2>3. CASE verdict' # "OK"
      <3>1. /\ ~(good /\ Ledger!Fresh(pool[i], conn_handle))
            /\ verdict' = Ledger!Reason(pool[i], conn_handle)
        BY <1>4, <2>1, <2>3, VerdictReason
      <3>2. Ledger!Refuse(conn_handle, n, good)
        BY <1>1, <1>4, <2>1, <2>3, <3>1 DEF Ledger!Refuse
      <3> QED BY <1>1, <3>2 DEF Ledger!Answer
    <2> QED BY <2>2, <2>3
  <1> QED BY <1>1, <1>3, <1>4 DEF verify_response

LEMMA LedgerIssue ==
    ASSUME RoomInv, NEW p \in Phone, Connect(p)
    PROVE  Ledger!Next
  <1>1. PICK n \in unused : new_challenge(n, next_handle)
    BY DEF Connect, on_connect
  <1>2. next_handle \in 1 .. Connections /\ Len(pool) \in Nat /\ Len(pool) < next_handle
    BY PoolType, LenProperties DEF Connect, RoomInv, VehicleInv, VehicleTypeOK
  <1>3. Ledger!Remembered = pool
    BY <1>2 DEF Ledger!Remembered
  <1>4. Ledger!Issue(next_handle)
    BY <1>1, <1>3 DEF new_challenge, Ledger!Issue
  <1> QED BY <1>2, <1>4 DEF Ledger!Next

(***************************************************************************)
(* The simulator's engine implements the ledger: a connection issues, an   *)
(* answer is judged, time ages, and nothing else touches a challenge.      *)
(***************************************************************************)
THEOREM PythonImplementsLedger == VehicleSpec => LedgerSpec
  <1>1. VehicleInit => Ledger!Init
    BY DEF VehicleInit, Ledger!Init
  <1>2. RoomInv /\ [VehicleNext]_vehicleVars => [Ledger!Next]_(Ledger!vars)
    <2> SUFFICES ASSUME RoomInv, [VehicleNext]_vehicleVars
                 PROVE  Ledger!Next \/ UNCHANGED Ledger!vars
      OBVIOUS
    <2>1. ASSUME NEW p \in Phone, Connect(p) PROVE Ledger!Next
      BY <2>1, LedgerIssue
    <2>2. ASSUME NEW n \in Nonce, NEW good \in BOOLEAN, client_write(n, good)
          PROVE  Ledger!Next
      BY <2>2, LedgerAnswer
    <2>3. ASSUME NEW p \in Phone, NEW good \in BOOLEAN, respond_to_challenge(p, good)
          PROVE  Ledger!Next
      BY <2>3, LedgerAnswer DEF respond_to_challenge, RoomInv
    <2>4. CASE TimePasses
      BY <2>4 DEF TimePasses, Ledger!Next, Ledger!Age
    <2>5. ASSUME NEW p \in Phone, Disconnect(p) PROVE UNCHANGED Ledger!vars
      BY <2>5 DEF Disconnect, engine, Ledger!vars
    <2>6. ASSUME NEW uid \in Uid, verify_nfc(uid) PROVE UNCHANGED Ledger!vars
      BY <2>6 DEF verify_nfc, engine, Ledger!vars
    <2>7. ASSUME \/ \E z \in UwbZone, plausible \in BOOLEAN : range_uwb(z, plausible)
                 \/ reset_session
          PROVE  UNCHANGED Ledger!vars
      BY <2>7 DEF range_uwb, reset_session, engine, Ledger!vars
    <2>8. CASE MalformedWrite \/ UNCHANGED vehicleVars
      BY <2>8 DEF MalformedWrite, vehicleVars, engine, Ledger!vars
    <2> QED BY <2>1, <2>2, <2>3, <2>4, <2>5, <2>6, <2>7, <2>8 DEF VehicleNext
  <1> QED BY <1>1, <1>2, RoomInit, RoomStep, PTL DEF VehicleSpec, LedgerSpec, Ledger!Spec
=============================================================================

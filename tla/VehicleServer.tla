--------------------------- MODULE VehicleServer ---------------------------
(***************************************************************************)
(* simulator/: the vehicle's server with its own engine, ranger and reader *)
(* (vehicle_sim.py, sca_common.py, uwb_sim.py, nfc_sim.py), the virtual    *)
(* BLE link (ble_sim.py) and the phones on it (phone_sim.py).  It all runs *)
(* in one thread: a call runs to its end, callbacks included, and is one   *)
(* action.  The calls come in any order the classes allow.                 *)
(*                                                                         *)
(* A sample is its zone and whether it is plausible (UwbManager has the    *)
(* two checks), a response the nonce it names and whether its HMAC is      *)
(* right.                                                                  *)
(***************************************************************************)
EXTENDS Naturals, Sequences

CONSTANTS
    Phone, NoPhone, Nonce, NoNonce,
    Uid, NFC_WHITELIST,
    Connections,    \* bound: how often a phone connects
    ttl_s

ASSUME VehicleAssumption ==
    /\ NoPhone \notin Phone /\ NoNonce \notin Nonce
    /\ NFC_WHITELIST \subseteq Uid
    /\ Connections \in Nat \ {0} /\ ttl_s \in Nat

VARIABLES
    (* VirtualBleLink: the handle, 0 for None, and who is notified. *)
    conn_handle, next_handle, client,
    (* AuthEngine: the records in the order of their issue, which a Python *)
    (* dict keeps, each with its age. *)
    pool, unused,
    (* UwbRanger. *)
    zone, relay_suspected,
    (* VehicleServer. *)
    nfc_verified, locked, decision,
    (* PhoneSim; a phone that has connected keeps its reference to the link. *)
    last_challenge, last_status, linked,
    (* History. *)
    verdict, asked, \* of the latest verified answer: its result and handle
    disconnects,    \* disconnection callbacks so far
    tapOf,          \* that number when the latest tag was authorised
    spoofed,        \* an implausible sample since the latest reset_session()
    told            \* the status notified last on this connection

link == <<conn_handle, next_handle, client>>
engine == <<pool, unused, verdict, asked>>
ranger == <<zone, relay_suspected, spoofed>>
phones == <<last_challenge, last_status, linked, told>>
server == <<nfc_verified, locked, decision, disconnects, tapOf>>
vehicleVars == <<link, engine, ranger, phones, server>>

None == 0
UwbZone == {"NEAR", "MEDIUM", "FAR"}
AuthResult == {"OK", "UNKNOWN_NONCE", "EXPIRED", "REPLAYED", "HANDLE_MISMATCH", "BAD_HMAC"}
\* The STATUS byte, 0 or 1, before the first one "none".
Status == {"none", "granted", "denied"}
Denials == (AuthResult \ {"OK"}) \cup {"malformed", "NFC", "relay", "zone"}

\* After bind(): the link is up for clients, nobody has connected.
VehicleInit ==
    /\ conn_handle = None /\ next_handle = 1 /\ client = NoPhone
    /\ pool = <<>> /\ unused = Nonce
    /\ zone = "FAR" /\ relay_suspected = FALSE
    /\ nfc_verified = FALSE /\ locked = TRUE /\ decision = "none"
    /\ last_challenge = [p \in Phone |-> NoNonce]
    /\ last_status = [p \in Phone |-> "none"]
    /\ linked = {}
    /\ verdict = "NONE" /\ asked = 1
    /\ disconnects = 0 /\ tapOf = 0 /\ spoofed = FALSE /\ told = "none"

(***************************************************************************)
(* Notifications: server_notify() reaches the client of the moment, whose  *)
(* _on_notify() keeps the latest of each kind.                             *)
(***************************************************************************)
NotifyChallenge(p, n) ==
    /\ last_challenge' = [last_challenge EXCEPT ![p] = n]
    /\ told' = "none"
    /\ UNCHANGED last_status

NotifyStatus(status) ==
    /\ last_status' = [last_status EXCEPT ![client] = status]
    /\ told' = status
    /\ UNCHANGED <<last_challenge, linked>>

(***************************************************************************)
(* PhoneSim.connect() on VirtualBleLink.connect(): a new handle even while *)
(* another phone is connected, which is dropped without a callback; then   *)
(* _on_connect() issues a challenge and notifies it.                       *)
(***************************************************************************)
\* Mutant: the next handle is not moved on.
SameHandle(p) ==
    /\ conn_handle' = next_handle
    /\ next_handle' = next_handle
    /\ client' = p

NewHandle(p) ==
    /\ conn_handle' = next_handle
    /\ next_handle' = next_handle + 1
    /\ client' = p

new_challenge(n, h) ==
    /\ pool' = Append(pool, [nonce |-> n, handle |-> h, age |-> 0, consumed |-> FALSE])
    /\ unused' = unused \ {n}
    /\ UNCHANGED <<verdict, asked>>

on_connect(p, h) ==
    \E n \in unused : new_challenge(n, h) /\ NotifyChallenge(p, n)

Connect(p) ==
    /\ next_handle <= Connections
    /\ NewHandle(p)
    /\ on_connect(p, next_handle)
    /\ linked' = linked \cup {p}
    /\ UNCHANGED <<ranger, server>>

(***************************************************************************)
(* PhoneSim.disconnect(): any phone that ever connected ends whatever      *)
(* connection the link has.                                                *)
(***************************************************************************)
\* Mutant: the tag is left to the next connection.
OnDisconnectKeepsTag ==
    /\ locked' = TRUE
    /\ UNCHANGED <<nfc_verified, decision>>

on_disconnect ==
    /\ nfc_verified' = FALSE
    /\ locked' = TRUE
    /\ UNCHANGED decision

LinkDown ==
    /\ conn_handle # None
    /\ conn_handle' = None /\ client' = NoPhone
    /\ UNCHANGED next_handle

Disconnect(p) ==
    /\ p \in linked
    /\ LinkDown
    /\ on_disconnect
    /\ disconnects' = disconnects + 1
    /\ told' = "none"
    /\ UNCHANGED <<engine, ranger, last_challenge, last_status, linked, tapOf>>

\* NfcReader.tap()
authorised(uid) == uid \in NFC_WHITELIST

verify_nfc(uid) ==
    /\ nfc_verified' = authorised(uid)
    /\ tapOf' = IF authorised(uid) THEN disconnects ELSE tapOf
    /\ UNCHANGED <<link, engine, ranger, phones, locked, decision, disconnects>>

\* Mutant: an accepted sample clears the suspicion.
PushForgives(z, plausible) ==
    /\ relay_suspected' = ~plausible
    /\ zone' = IF plausible THEN z ELSE "FAR"

\* UwbRanger.push()
push(z, plausible) ==
    /\ relay_suspected' = (relay_suspected \/ ~plausible)
    /\ zone' = IF relay_suspected' THEN "FAR" ELSE z

range_uwb(z, plausible) ==
    /\ push(z, plausible)
    /\ spoofed' = (spoofed \/ ~plausible)
    /\ UNCHANGED <<link, engine, phones, server>>

\* UwbRanger.reset_session(), which no class calls; the demos do.
reset_session ==
    /\ zone' = "FAR" /\ relay_suspected' = FALSE /\ spoofed' = FALSE
    /\ UNCHANGED <<link, engine, phones, server>>

(***************************************************************************)
(* AuthEngine.verify_response(): the checks in their order.                *)
(***************************************************************************)
\* Mutant: single use rests on the phone.
VerdictAgain(rec, good) ==
    IF rec.age > ttl_s THEN "EXPIRED"
    ELSE IF rec.handle # conn_handle THEN "HANDLE_MISMATCH"
    ELSE IF ~good THEN "BAD_HMAC"
    ELSE "OK"

Verdict(rec, good) ==
    IF rec.consumed THEN "REPLAYED"
    ELSE IF rec.age > ttl_s THEN "EXPIRED"
    ELSE IF rec.handle # conn_handle THEN "HANDLE_MISMATCH"
    ELSE IF ~good THEN "BAD_HMAC"
    ELSE "OK"

Records(n) == {i \in DOMAIN pool : pool[i].nonce = n}

verify_response(n, good) ==
    /\ asked' = conn_handle
    /\ UNCHANGED unused
    /\ \/ Records(n) = {} /\ verdict' = "UNKNOWN_NONCE" /\ UNCHANGED pool
       \/ \E i \in Records(n) :
            /\ verdict' = Verdict(pool[i], good)
            /\ pool' = IF verdict' = "OK"
                           THEN [pool EXCEPT ![i].consumed = TRUE] ELSE pool

(***************************************************************************)
(* _on_response_write(): the answer first, then tag, latch and zone.       *)
(***************************************************************************)
Judgement ==
    IF verdict' # "OK" THEN verdict'
    ELSE IF ~nfc_verified THEN "NFC"
    ELSE IF relay_suspected THEN "relay"
    ELSE IF zone # "NEAR" THEN "zone"
    ELSE "passed"

\* _record()
Record(reason) ==
    /\ decision' = reason
    /\ NotifyStatus(IF reason = "passed" THEN "granted" ELSE "denied")

on_response_write(n, good) ==
    /\ verify_response(n, good)
    /\ Record(Judgement)
    /\ locked' = (locked /\ Judgement # "passed")
    /\ UNCHANGED <<link, ranger, nfc_verified, disconnects, tapOf>>

MalformedWrite ==
    /\ conn_handle # None
    /\ Record("malformed")
    /\ UNCHANGED <<link, engine, ranger, nfc_verified, locked, disconnects, tapOf>>

\* Any bytes may be written while a phone is connected; without one
\* client_write() raises and nothing changes.
client_write(n, good) == conn_handle # None /\ on_response_write(n, good)

\* respond_to_challenge(): a phone, with the secret or with another one,
\* answers the challenge it got last, on whatever connection there is now.
respond_to_challenge(p, good) ==
    /\ p \in linked
    /\ client_write(last_challenge[p], good)

TimePasses ==
    /\ pool' = [i \in DOMAIN pool |->
                  [pool[i] EXCEPT !.age = IF @ <= ttl_s THEN @ + 1 ELSE @]]
    /\ UNCHANGED <<link, unused, verdict, asked, ranger, phones, server>>

VehicleNext ==
    \/ \E p \in Phone : Connect(p) \/ Disconnect(p)
    \/ \E uid \in Uid : verify_nfc(uid)
    \/ \E z \in UwbZone, plausible \in BOOLEAN : range_uwb(z, plausible)
    \/ reset_session
    \/ \E p \in Phone, good \in BOOLEAN : respond_to_challenge(p, good)
    \/ \E n \in Nonce, good \in BOOLEAN : client_write(n, good)
    \/ MalformedWrite
    \/ TimePasses

VehicleSpec == VehicleInit /\ [][VehicleNext]_vehicleVars
-----------------------------------------------------------------------------
VehicleTypeOK ==
    /\ conn_handle \in 0 .. Connections /\ next_handle \in 1 .. Connections + 1
    /\ client \in Phone \cup {NoPhone}
    /\ pool \in Seq([nonce : Nonce, handle : 1 .. Connections, age : 0 .. ttl_s + 1,
                     consumed : BOOLEAN])
    /\ unused \subseteq Nonce
    /\ zone \in UwbZone /\ relay_suspected \in BOOLEAN
    /\ nfc_verified \in BOOLEAN /\ locked \in BOOLEAN
    /\ decision \in Denials \cup {"none", "passed"}
    /\ last_challenge \in [Phone -> Nonce \cup {NoNonce}]
    /\ last_status \in [Phone -> Status]
    /\ linked \subseteq Phone
    /\ verdict \in AuthResult \cup {"NONE"}
    /\ asked \in 1 .. Connections
    /\ disconnects \in 0 .. Connections /\ tapOf \in 0 .. Connections
    /\ spoofed \in BOOLEAN
    /\ told \in Status

Opens == locked /\ ~locked'

(***************************************************************************)
(* sca_common.py, "bound to the connection handle they were issued on":    *)
(* what opens the door is the answer to the challenge the connected phone  *)
(* got on this connection, for a handle is never given out twice.          *)
(***************************************************************************)
BoundToConnection ==
    [][Opens => \E i \in DOMAIN pool :
            /\ pool'[i].consumed /\ ~pool[i].consumed
            /\ pool[i].nonce = last_challenge[client]]_vehicleVars

(***************************************************************************)
(* The tag that opens the door was read since the server was last told of  *)
(* a disconnection, whatever answers, taps and connections come between.   *)
(* (A connection that replaces another fires no callback: it goes on with  *)
(* that one's tag, and with a door it has opened.)                         *)
(***************************************************************************)
TagSinceDisconnect ==
    [][Opens => nfc_verified /\ tapOf = disconnects]_vehicleVars

(***************************************************************************)
(* uwb_sim.py, "a subsequent self-consistent spoof must not be able to     *)
(* clear suspicion": no series of good samples, disconnections and         *)
(* answers opens the door before the ranger is reset.                      *)
(***************************************************************************)
SpoofNeverOpens == [][Opens => ~spoofed]_vehicleVars

(***************************************************************************)
(* A phone told "granted" on this connection stands before an open door,   *)
(* whatever tags, samples and other answers have come since.               *)
(***************************************************************************)
GrantToldIsOpen == told = "granted" => ~locked

(***************************************************************************)
(* The Python engine keeps the ledger the firmware's ring keeps, with room *)
(* for the challenge of every connection.                                  *)
(***************************************************************************)
Ledger == INSTANCE NonceLedger
            WITH window <- pool, result <- verdict, Handle <- 1 .. Connections,
                 POOL <- Connections, TTL <- ttl_s

LedgerSpec == Ledger!Spec
=============================================================================

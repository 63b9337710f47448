----------------------------- MODULE AuthEngine -----------------------------
(***************************************************************************)
(* firmware/src/auth_engine.cpp: the challenge-response engine with its    *)
(* ring of nonces.  Both operations run in the NimBLE host task, so they   *)
(* never overlap: on_ble_connection() issues one challenge for each new    *)
(* connection, on_ble_response() verifies an answer.                       *)
(*                                                                         *)
(* A nonce is 32 random bytes, an HMAC is computed over the nonce alone: a *)
(* nonce is a member of Nonce that was not drawn before, a response is the *)
(* nonce it names and whether its HMAC is the one of that nonce.           *)
(***************************************************************************)
EXTENDS Millis, FiniteSets

CONSTANTS Nonce, Handle, NONCE_POOL_SIZE, NONCE_TTL_MS, NoNonce

ASSUME AuthAssumption ==
    /\ NONCE_POOL_SIZE \in Nat \ {0}
    /\ NONCE_TTL_MS \in Nat
    /\ NONCE_TTL_MS + 1 < U32
    /\ NoNonce \notin Nonce

VARIABLES
    pool, next_slot,
    result,         \* the AuthResult of the latest answer
    (* History. *)
    asked,          \* the handle that answer came on
    trueAge,        \* time since the challenge in a slot was issued, capped
    unused,         \* the nonces not drawn yet
    accepted        \* the nonces accepted so far

members == <<pool, next_slot>>
aeVars == <<now, members, result, asked, trueAge, unused, accepted>>

Slots == 0 .. NONCE_POOL_SIZE - 1

NonceRecord == [valid : BOOLEAN, consumed : BOOLEAN, nonce : Nonce \cup {NoNonce},
                handle : Handle, issued_ms : Millis]

AuthResult == {"OK", "UNKNOWN_NONCE", "REPLAYED", "EXPIRED", "HANDLE_MISMATCH",
               "BAD_HMAC"}

\* The constructor only marks the slots invalid.
AEInit ==
    /\ now = 0
    /\ \E h \in Handle :
         /\ pool = [s \in Slots |-> [valid |-> FALSE, consumed |-> FALSE,
                                  nonce |-> NoNonce, handle |-> h, issued_ms |-> 0]]
         /\ asked = h
    /\ next_slot = 0
    /\ result = "NONE"
    /\ trueAge = [s \in Slots |-> 0]
    /\ unused = Nonce
    /\ accepted = {}

(***************************************************************************)
(* new_challenge(): the next slot of the ring, whatever it holds, is       *)
(* overwritten.                                                            *)
(***************************************************************************)
new_challenge(h) ==
    \E n \in unused :
        /\ pool' = [pool EXCEPT ![next_slot] =
                        [valid |-> TRUE, consumed |-> FALSE, nonce |-> n,
                         handle |-> h, issued_ms |-> now]]
        /\ next_slot' = IF next_slot + 1 = NONCE_POOL_SIZE THEN 0 ELSE next_slot + 1
        /\ trueAge' = [trueAge EXCEPT ![next_slot] = 0]
        /\ unused' = unused \ {n}
        /\ UNCHANGED <<now, result, asked, accepted>>

find(n) == {s \in Slots : pool[s].valid /\ pool[s].nonce = n}

(***************************************************************************)
(* verify_response(): the checks in their order.                           *)
(***************************************************************************)
\* Mutant: one unit more than the TTL.
ExpiredLate(rec) == Minus(now, rec.issued_ms) > NONCE_TTL_MS + 1

Expired(rec) == Minus(now, rec.issued_ms) > NONCE_TTL_MS

\* Mutant: the connection is not compared.
VerdictAnyHandle(rec, h, good) ==
    IF rec.consumed THEN "REPLAYED"
    ELSE IF Expired(rec) THEN "EXPIRED"
    ELSE IF ~good THEN "BAD_HMAC"
    ELSE "OK"

Verdict(rec, h, good) ==
    IF rec.consumed THEN "REPLAYED"
    ELSE IF Expired(rec) THEN "EXPIRED"
    ELSE IF rec.handle # h THEN "HANDLE_MISMATCH"
    ELSE IF ~good THEN "BAD_HMAC"
    ELSE "OK"

Refuse(h, n, good) ==
    /\ \/ find(n) = {} /\ result' = "UNKNOWN_NONCE"
       \/ \E s \in find(n) :
            /\ Verdict(pool[s], h, good) # "OK"
            /\ result' = Verdict(pool[s], h, good)
    /\ UNCHANGED <<now, members, trueAge, unused, accepted>>

\* Mutant: an accepted nonce stays open.
AcceptKeepsOpen(h, n, good) ==
    \E s \in find(n) :
        /\ Verdict(pool[s], h, good) = "OK"
        /\ result' = "OK"
        /\ accepted' = accepted \cup {n}
        /\ UNCHANGED <<now, members, trueAge, unused>>

Accept(h, n, good) ==
    \E s \in find(n) :
        /\ Verdict(pool[s], h, good) = "OK"
        /\ pool' = [pool EXCEPT ![s].consumed = TRUE]
        /\ result' = "OK"
        /\ accepted' = accepted \cup {n}
        /\ UNCHANGED <<now, next_slot, trueAge, unused>>

verify_response(h, n, good) ==
    /\ Refuse(h, n, good) \/ Accept(h, n, good)
    /\ asked' = h

active_nonces == Cardinality({s \in Slots : pool[s].valid /\ ~pool[s].consumed})

TimePasses ==
    /\ MillisPasses
    /\ trueAge' = [s \in Slots |-> CountUp(trueAge[s], NONCE_TTL_MS + 1)]
    /\ UNCHANGED <<members, result, asked, unused, accepted>>

AENext ==
    \/ \E h \in Handle : new_challenge(h)
    \/ \E h \in Handle, n \in Nonce, good \in BOOLEAN : verify_response(h, n, good)
    \/ TimePasses

AESpec == AEInit /\ [][AENext]_aeVars

\* The uptime before millis() wraps around.
AESpecFirstEpoch == AEInit /\ [][AENext /\ now' >= now]_aeVars
-----------------------------------------------------------------------------
AETypeOK ==
    /\ now \in Millis
    /\ pool \in [Slots -> NonceRecord]
    /\ next_slot \in Slots
    /\ result \in AuthResult \cup {"NONE"}
    /\ asked \in Handle
    /\ trueAge \in [Slots -> 0 .. NONCE_TTL_MS + 1]
    /\ unused \subseteq Nonce
    /\ accepted \subseteq Nonce

(***************************************************************************)
(* A nonce is accepted at most once, over every uptime: neither the ring's *)
(* overwriting nor a wrap-around of the clock revives one.                 *)
(***************************************************************************)
AcceptedOnce ==
    [][\A h \in Handle, n \in Nonce :
         Accept(h, n, TRUE) => n \notin accepted]_aeVars

(***************************************************************************)
(* An answer with a wrong HMAC, on another handle, late or repeated leaves *)
(* every challenge as it was: nobody can use up a nonce of another.        *)
(***************************************************************************)
OnlyRightAnswersConsume ==
    [][\A s \in Slots :
         pool'[s].consumed /\ ~pool[s].consumed
           => /\ result' = "OK"
              /\ pool[s].nonce \in accepted' \ accepted]_aeVars

(***************************************************************************)
(* config.h, NONCE_TTL_MS "anti-replay TTL: 60s": an accepted nonce is no  *)
(* older.  True in the first epoch only.                                   *)
(***************************************************************************)
AcceptedFresh ==
    [][\A s \in Slots :
         pool'[s].consumed /\ ~pool[s].consumed => trueAge[s] <= NONCE_TTL_MS]_aeVars

(***************************************************************************)
(* In the first epoch the ring is the ledger of its latest challenges: the *)
(* slots from next_slot on, oldest first, without the ones not yet used.   *)
(***************************************************************************)
Full == \A s \in Slots : pool[s].valid

SlotOf(i) ==
    IF Full THEN (next_slot + i - 1) % NONCE_POOL_SIZE ELSE i - 1

Window ==
    [i \in 1 .. (IF Full THEN NONCE_POOL_SIZE ELSE next_slot) |->
        [nonce |-> pool[SlotOf(i)].nonce, handle |-> pool[SlotOf(i)].handle,
         age |-> trueAge[SlotOf(i)], consumed |-> pool[SlotOf(i)].consumed]]

Ledger == INSTANCE NonceLedger
            WITH window <- Window, POOL <- NONCE_POOL_SIZE, TTL <- NONCE_TTL_MS

LedgerSpec == Ledger!Spec
=============================================================================

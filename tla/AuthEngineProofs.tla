-------------------------- MODULE AuthEngineProofs --------------------------
(***************************************************************************)
(* A nonce is accepted once, and within its TTL, for every size of the     *)
(* ring, every set of connections and every number of challenges.          *)
(***************************************************************************)
EXTENDS AuthEngine, SequenceTheorems, TLAPS

(***************************************************************************)
(* What the ring knows of the nonces: a slot's nonce has been drawn, no    *)
(* two slots hold the same one, and the slot's flag says whether it has    *)
(* been accepted.  A nonce that has left the ring is not drawn again.      *)
(***************************************************************************)
RingInv ==
    /\ \A s \in Slots : pool[s].valid =>
         /\ pool[s].nonce \in Nonce \ unused
         /\ pool[s].consumed <=> pool[s].nonce \in accepted
    /\ \A s \in Slots : ~pool[s].valid => ~pool[s].consumed
    /\ \A s, t \in Slots :
         pool[s].valid /\ pool[t].valid /\ pool[s].nonce = pool[t].nonce => s = t
    /\ accepted \cap unused = {}

AEInv == AETypeOK /\ RingInv

LEMMA AEInitInv == AEInit => AEInv
  <1> SUFFICES ASSUME AEInit PROVE AEInv
    OBVIOUS
  <1>0. PICK h \in Handle :
          pool = [s \in Slots |-> [valid |-> FALSE, consumed |-> FALSE,
                                   nonce |-> NoNonce, handle |-> h, issued_ms |-> 0]]
    BY DEF AEInit
  <1>1. 0 \in Millis /\ 0 \in Slots /\ 0 \in 0 .. NONCE_TTL_MS + 1
    BY U32Assumption, AuthAssumption DEF Millis, Slots
  <1>2. pool \in [Slots -> NonceRecord]
    BY <1>0, <1>1 DEF NonceRecord
  <1>3. AETypeOK
    BY <1>1, <1>2 DEF AEInit, AETypeOK
  <1>4. RingInv
    BY <1>0 DEF AEInit, RingInv
  <1> QED
    BY <1>3, <1>4 DEF AEInv

LEMMA ChallengeInv ==
    ASSUME AEInv, NEW h \in Handle, new_challenge(h)
    PROVE  AEInv'
  <1>0. PICK n \in unused :
          /\ pool' = [pool EXCEPT ![next_slot] =
                        [valid |-> TRUE, consumed |-> FALSE, nonce |-> n,
                         handle |-> h, issued_ms |-> now]]
          /\ next_slot' = IF next_slot + 1 = NONCE_POOL_SIZE THEN 0 ELSE next_slot + 1
          /\ trueAge' = [trueAge EXCEPT ![next_slot] = 0]
          /\ unused' = unused \ {n}
          /\ UNCHANGED <<now, result, asked, accepted>>
    BY DEF new_challenge
  <1>1. /\ n \in Nonce /\ next_slot \in Slots /\ now \in Millis
        /\ pool \in [Slots -> NonceRecord]
    BY DEF AEInv, AETypeOK
  <1>2. [valid |-> TRUE, consumed |-> FALSE, nonce |-> n, handle |-> h,
         issued_ms |-> now] \in NonceRecord
    BY <1>1 DEF NonceRecord
  <1>3. pool' \in [Slots -> NonceRecord]
    BY <1>0, <1>1, <1>2
  <1>4. next_slot' \in Slots
    BY <1>0, <1>1, AuthAssumption DEF Slots
  <1>5. trueAge' \in [Slots -> 0 .. NONCE_TTL_MS + 1]
    BY <1>0, <1>1, AuthAssumption DEF AEInv, AETypeOK
  <1>6. AETypeOK'
    BY <1>0, <1>3, <1>4, <1>5 DEF AEInv, AETypeOK
  <1>7. \A s \in Slots :
          pool'[s] = IF s = next_slot
                     THEN [valid |-> TRUE, consumed |-> FALSE, nonce |-> n,
                           handle |-> h, issued_ms |-> now]
                     ELSE pool[s]
    BY <1>0, <1>1
  <1>8. n \notin accepted
    BY <1>0 DEF AEInv, RingInv
  <1>9. RingInv'
    BY <1>0, <1>1, <1>7, <1>8 DEF AEInv, RingInv
  <1> QED
    BY <1>6, <1>9 DEF AEInv

(* The answer that is accepted: its nonce has not been accepted before. *)
LEMMA AcceptNew ==
    ASSUME AEInv, NEW h \in Handle, NEW n \in Nonce, NEW good \in BOOLEAN,
           Accept(h, n, good)
    PROVE  n \notin accepted
  BY DEF Accept, find, Verdict, AEInv, RingInv

LEMMA AcceptInv ==
    ASSUME AEInv, NEW h \in Handle, NEW n \in Nonce, NEW good \in BOOLEAN,
           Accept(h, n, good), asked' = h
    PROVE  AEInv'
  <1>0. PICK s \in find(n) :
          /\ Verdict(pool[s], h, good) = "OK"
          /\ pool' = [pool EXCEPT ![s].consumed = TRUE]
    BY DEF Accept
  <1>1. /\ s \in Slots /\ pool[s].valid /\ pool[s].nonce = n
        /\ ~pool[s].consumed
    BY <1>0 DEF find, Verdict
  <1>3. /\ pool \in [Slots -> NonceRecord]
        /\ pool[s] \in NonceRecord
    BY <1>1 DEF AEInv, AETypeOK
  <1>4. /\ DOMAIN pool' = Slots
        /\ \A t \in Slots :
             pool'[t] = IF t = s THEN [pool[s] EXCEPT !.consumed = TRUE] ELSE pool[t]
    BY <1>0, <1>1, <1>3
  <1>5. /\ pool'[s].consumed = TRUE /\ pool'[s].valid = pool[s].valid
        /\ pool'[s].nonce = pool[s].nonce /\ pool'[s] \in NonceRecord
    BY <1>1, <1>3, <1>4 DEF NonceRecord
  <1>6. \A t \in Slots : pool'[t] \in NonceRecord
    BY <1>3, <1>4, <1>5
  <1>7. pool' \in [Slots -> NonceRecord]
    BY <1>0, <1>3, <1>6
  <1>8. AETypeOK'
    BY <1>7 DEF Accept, AEInv, AETypeOK, AuthResult
  <1>9. accepted' = accepted \cup {n} /\ unused' = unused
    BY DEF Accept
  <1>10. \A t \in Slots : /\ pool'[t].valid = pool[t].valid
                          /\ pool'[t].nonce = pool[t].nonce
                          /\ t # s => pool'[t].consumed = pool[t].consumed
    BY <1>4, <1>5
  <1>11. ASSUME NEW t \in Slots, pool'[t].valid
         PROVE  /\ pool'[t].nonce \in Nonce \ unused'
                /\ pool'[t].consumed <=> pool'[t].nonce \in accepted'
    <2>1. CASE t = s
      BY <1>1, <1>5, <1>9, <2>1 DEF AEInv, RingInv
    <2>2. CASE t # s
      <3>1. pool[t].valid /\ pool[t].nonce # n
        BY <1>1, <1>10, <1>11, <2>2 DEF AEInv, RingInv
      <3> QED
        BY <1>9, <1>10, <2>2, <3>1 DEF AEInv, RingInv
    <2> QED
      BY <2>1, <2>2
  <1>12. \A t \in Slots : ~pool'[t].valid => ~pool'[t].consumed
    BY <1>1, <1>10 DEF AEInv, RingInv
  <1>13. accepted' \cap unused' = {}
    BY <1>1, <1>9 DEF AEInv, RingInv
  <1>14. RingInv'
    BY <1>10, <1>11, <1>12, <1>13 DEF AEInv, RingInv
  <1> QED
    BY <1>8, <1>14 DEF AEInv

LEMMA RefuseInv ==
    ASSUME AEInv, NEW h \in Handle, NEW n \in Nonce, NEW good \in BOOLEAN,
           Refuse(h, n, good), asked' = h
    PROVE  AEInv'
  <1>1. result' \in AuthResult
    BY DEF Refuse, Verdict, AuthResult
  <1> QED
    BY <1>1 DEF Refuse, members, AEInv, AETypeOK, RingInv

LEMMA PassInv ==
    ASSUME AEInv, TimePasses
    PROVE  AEInv'
  <1>1. now' \in Millis
    BY U32Assumption DEF TimePasses, MillisPasses, Plus, Millis, AEInv, AETypeOK
  <1>2. trueAge' \in [Slots -> 0 .. NONCE_TTL_MS + 1]
    BY AuthAssumption DEF TimePasses, CountUp, AEInv, AETypeOK
  <1> QED
    BY <1>1, <1>2 DEF TimePasses, members, AEInv, AETypeOK, RingInv

LEMMA AEStep == AEInv /\ [AENext]_aeVars => AEInv'
  <1> SUFFICES ASSUME AEInv, [AENext]_aeVars PROVE AEInv'
    OBVIOUS
  <1>1. ASSUME NEW h \in Handle, new_challenge(h) PROVE AEInv'
    BY <1>1, ChallengeInv
  <1>2. ASSUME NEW h \in Handle, NEW n \in Nonce, NEW good \in BOOLEAN,
               verify_response(h, n, good)
        PROVE  AEInv'
    BY <1>2, AcceptInv, RefuseInv DEF verify_response
  <1>3. CASE TimePasses
    BY <1>3, PassInv
  <1>4. CASE UNCHANGED aeVars
    BY <1>4 DEF aeVars, members, AEInv, AETypeOK, RingInv
  <1> QED
    BY <1>1, <1>2, <1>3, <1>4 DEF AENext

(* Type correctness of the ring. *)
THEOREM AuthTypeCorrect == AESpec => []AETypeOK
  <1>1. AEInv => AETypeOK
    BY DEF AEInv
  <1> QED
    BY AEInitInv, AEStep, <1>1, PTL DEF AESpec

(* A nonce is accepted at most once. *)
THEOREM NonceAcceptedOnce == AESpec => AcceptedOnce
  <1>1. AEInv /\ [AENext]_aeVars
          => [\A h \in Handle, n \in Nonce : Accept(h, n, TRUE) => n \notin accepted]_aeVars
    BY AcceptNew
  <1> QED
    BY AEInitInv, AEStep, <1>1, PTL DEF AESpec, AcceptedOnce

(* Only a right answer, accepted for the first time, uses a challenge up. *)
THEOREM ConsumedByRightAnswers == AESpec => OnlyRightAnswersConsume
  <1>1. ASSUME AEInv, AENext, NEW s \in Slots,
               pool'[s].consumed, ~pool[s].consumed
        PROVE  result' = "OK" /\ pool[s].nonce \in accepted' \ accepted
    <2>0. pool \in [Slots -> NonceRecord] /\ next_slot \in Slots
      BY <1>1 DEF AEInv, AETypeOK
    <2>1. ASSUME NEW h \in Handle, new_challenge(h) PROVE FALSE
      BY <1>1, <2>0, <2>1 DEF new_challenge
    <2>2. ASSUME NEW h \in Handle, NEW n \in Nonce, NEW good \in BOOLEAN,
                 Refuse(h, n, good)
          PROVE  FALSE
      BY <1>1, <2>2 DEF Refuse, members
    <2>3. CASE TimePasses
      BY <1>1, <2>3 DEF TimePasses, members
    <2>4. ASSUME NEW h \in Handle, NEW n \in Nonce, NEW good \in BOOLEAN,
                 Accept(h, n, good)
          PROVE  result' = "OK" /\ pool[s].nonce \in accepted' \ accepted
      <3>1. PICK t \in Slots : /\ pool[t].nonce = n
                               /\ pool' = [pool EXCEPT ![t].consumed = TRUE]
        BY <2>4 DEF Accept, find
      <3>2. s = t
        BY <1>1, <2>0, <3>1
      <3>3. result' = "OK" /\ accepted' = accepted \cup {n}
        BY <2>4 DEF Accept
      <3>4. n \notin accepted
        BY <1>1, <2>4, AcceptNew
      <3> QED
        BY <3>1, <3>2, <3>3, <3>4
    <2> QED
      BY <1>1, <2>1, <2>2, <2>3, <2>4 DEF AENext, verify_response
  <1>2. AEInv /\ [AENext]_aeVars
          => [\A s \in Slots :
                pool'[s].consumed /\ ~pool[s].consumed
                  => /\ result' = "OK"
                     /\ pool[s].nonce \in accepted' \ accepted]_aeVars
    BY <1>1
  <1> QED
    BY AEInitInv, AEStep, <1>2, PTL DEF AESpec, OnlyRightAnswersConsume

-----------------------------------------------------------------------------
(***************************************************************************)
(* In the first epoch the difference the TTL check computes is the true    *)
(* age of the challenge, which the history counts as far as it matters.    *)
(***************************************************************************)
Capped(d) == IF d <= NONCE_TTL_MS THEN d ELSE NONCE_TTL_MS + 1

TtlInv ==
    /\ AEInv
    /\ \A s \in Slots : pool[s].valid =>
         /\ pool[s].issued_ms <= now
         /\ trueAge[s] = Capped(now - pool[s].issued_ms)

LEMMA TtlInit == AEInit => TtlInv
  <1>1. AEInit => \A s \in Slots : ~pool[s].valid
    BY DEF AEInit
  <1> QED
    BY <1>1, AEInitInv DEF TtlInv

LEMMA TtlStep == TtlInv /\ [AENext /\ now' >= now]_aeVars => TtlInv'
  <1> SUFFICES ASSUME TtlInv, [AENext /\ now' >= now]_aeVars PROVE TtlInv'
    OBVIOUS
  <1>0. AEInv /\ AEInv'
    BY AEStep DEF TtlInv
  <1>a. /\ now \in Millis /\ pool \in [Slots -> NonceRecord] /\ next_slot \in Slots
        /\ trueAge \in [Slots -> 0 .. NONCE_TTL_MS + 1]
    BY <1>0 DEF AEInv, AETypeOK
  <1>b. \A s \in Slots : pool[s].issued_ms \in Int /\ trueAge[s] \in Int
    BY <1>a, AuthAssumption DEF NonceRecord, Millis
  <1>1. ASSUME NEW h \in Handle, new_challenge(h) PROVE TtlInv'
    <2>1. now' = now
      BY <1>1 DEF new_challenge
    <2>2. \A s \in Slots : s # next_slot =>
            pool'[s] = pool[s] /\ trueAge'[s] = trueAge[s]
      BY <1>1, <1>a DEF new_challenge
    <2>3. pool'[next_slot].issued_ms = now /\ trueAge'[next_slot] = 0
      BY <1>1, <1>a DEF new_challenge
    <2> QED
      BY <1>0, <1>a, <2>1, <2>2, <2>3, U32Assumption, AuthAssumption
         DEF TtlInv, Millis, Capped
  <1>2. ASSUME NEW h \in Handle, NEW n \in Nonce, NEW good \in BOOLEAN,
               Accept(h, n, good)
        PROVE  TtlInv'
    <2>1. now' = now /\ trueAge' = trueAge
      BY <1>2 DEF Accept
    <2>2. \A t \in Slots : /\ pool'[t].issued_ms = pool[t].issued_ms
                           /\ pool'[t].valid = pool[t].valid
      <3>1. PICK s \in Slots : pool' = [pool EXCEPT ![s].consumed = TRUE]
        BY <1>2 DEF Accept, find
      <3>2. pool[s] \in NonceRecord
        BY <1>a
      <3> QED
        BY <3>1, <3>2, <1>a DEF NonceRecord
    <2> QED
      BY <1>0, <2>1, <2>2 DEF TtlInv
  <1>3. ASSUME NEW h \in Handle, NEW n \in Nonce, NEW good \in BOOLEAN,
               Refuse(h, n, good)
        PROVE  TtlInv'
    BY <1>0, <1>3 DEF Refuse, members, TtlInv
  <1>4. CASE TimePasses /\ now' >= now
    <2>1. now' = now + 1
      BY <1>4, <1>a, U32Assumption, AuthAssumption
         DEF TimePasses, MillisPasses, Plus, Millis
    <2>2. \A s \in Slots : trueAge'[s] = CountUp(trueAge[s], NONCE_TTL_MS + 1)
      BY <1>4 DEF TimePasses
    <2>3. pool' = pool
      BY <1>4 DEF TimePasses, members
    <2>4. now \in Int
      BY <1>a DEF Millis
    <2> QED
      BY <1>0, <1>b, <2>1, <2>2, <2>3, <2>4, AuthAssumption DEF TtlInv, Capped, CountUp
  <1>5. CASE UNCHANGED aeVars
    BY <1>0, <1>5 DEF aeVars, members, TtlInv
  <1> QED
    BY <1>1, <1>2, <1>3, <1>4, <1>5 DEF AENext, verify_response

(* An accepted nonce is within its TTL. *)
THEOREM NonceAcceptedFresh == AESpecFirstEpoch => AcceptedFresh
  <1>1. ASSUME TtlInv, AENext, NEW s \in Slots,
               pool'[s].consumed, ~pool[s].consumed
        PROVE  trueAge[s] <= NONCE_TTL_MS
    <2>0. /\ now \in Millis /\ pool \in [Slots -> NonceRecord] /\ next_slot \in Slots
          /\ trueAge \in [Slots -> 0 .. NONCE_TTL_MS + 1]
      BY <1>1 DEF TtlInv, AEInv, AETypeOK
    <2>1. ASSUME NEW h \in Handle, new_challenge(h) PROVE FALSE
      BY <1>1, <2>0, <2>1 DEF new_challenge
    <2>2. ASSUME NEW h \in Handle, NEW n \in Nonce, NEW good \in BOOLEAN,
                 Refuse(h, n, good)
          PROVE  FALSE
      BY <1>1, <2>2 DEF Refuse, members
    <2>3. CASE TimePasses
      BY <1>1, <2>3 DEF TimePasses, members
    <2>4. ASSUME NEW h \in Handle, NEW n \in Nonce, NEW good \in BOOLEAN,
                 Accept(h, n, good)
          PROVE  trueAge[s] <= NONCE_TTL_MS
      <3>1. PICK t \in Slots : /\ pool[t].valid
                               /\ Verdict(pool[t], h, good) = "OK"
                               /\ pool' = [pool EXCEPT ![t].consumed = TRUE]
        BY <2>4 DEF Accept, find
      <3>2. s = t
        BY <1>1, <2>0, <3>1
      <3>3. ~Expired(pool[s])
        BY <3>1, <3>2 DEF Verdict
      <3>4. /\ pool[s].issued_ms <= now
            /\ trueAge[s] = Capped(now - pool[s].issued_ms)
        BY <1>1, <3>1, <3>2 DEF TtlInv
      <3>5. pool[s].issued_ms \in Int /\ now \in Int /\ trueAge[s] \in Int
        BY <2>0, AuthAssumption DEF NonceRecord, Millis
      <3> QED
        BY <3>3, <3>4, <3>5, AuthAssumption DEF Expired, Minus, Capped
    <2> QED
      BY <1>1, <2>1, <2>2, <2>3, <2>4 DEF AENext, verify_response
  <1>2. TtlInv /\ [AENext /\ now' >= now]_aeVars
          => [\A s \in Slots : pool'[s].consumed /\ ~pool[s].consumed
                                 => trueAge[s] <= NONCE_TTL_MS]_aeVars
    BY <1>1
  <1> QED
    BY TtlInit, TtlStep, <1>2, PTL DEF AESpecFirstEpoch, AcceptedFresh

-----------------------------------------------------------------------------
(***************************************************************************)
(* The ring as a ledger.  Until it is full its first slots are in use; the *)
(* entries of the ledger are the slots from the oldest one on, and each    *)
(* slot in use has its place there.                                        *)
(***************************************************************************)
FillInv == Full \/ \A s \in Slots : pool[s].valid <=> s < next_slot

RefInv == TtlInv /\ FillInv

Entry(s) == [nonce |-> pool[s].nonce, handle |-> pool[s].handle,
             age |-> trueAge[s], consumed |-> pool[s].consumed]

Kept == IF Full THEN NONCE_POOL_SIZE ELSE next_slot

LedgerRecord == [nonce : Nonce, handle : Handle, age : 0 .. NONCE_TTL_MS + 1,
                 consumed : BOOLEAN]

(* The slot i - 1 places on from slot m. *)
LEMMA Turn ==
    ASSUME NEW m \in 0 .. NONCE_POOL_SIZE - 1, NEW i \in 1 .. NONCE_POOL_SIZE
    PROVE  (m + i - 1) % NONCE_POOL_SIZE =
             IF m + i - 1 < NONCE_POOL_SIZE THEN m + i - 1 ELSE m + i - 1 - NONCE_POOL_SIZE
  BY AuthAssumption

LEMMA Places ==
    ASSUME RefInv
    PROVE  /\ Kept \in 0 .. NONCE_POOL_SIZE
           /\ \A i \in 1 .. Kept :
                /\ SlotOf(i) \in Slots /\ pool[SlotOf(i)].valid
                /\ SlotOf(i) = IF ~Full THEN i - 1
                               ELSE IF next_slot + i - 1 < NONCE_POOL_SIZE
                               THEN next_slot + i - 1
                               ELSE next_slot + i - 1 - NONCE_POOL_SIZE
           /\ \A s \in Slots : pool[s].valid => \E i \in 1 .. Kept : SlotOf(i) = s
           /\ \A i, j \in 1 .. Kept : SlotOf(i) = SlotOf(j) => i = j
  <1>0. next_slot \in 0 .. NONCE_POOL_SIZE - 1 /\ NONCE_POOL_SIZE \in Nat \ {0}
    BY AuthAssumption DEF RefInv, TtlInv, AEInv, AETypeOK, Slots
  <1>1. Kept \in 0 .. NONCE_POOL_SIZE
    BY <1>0 DEF Kept
  <1>2. CASE Full
    <2>1. Kept = NONCE_POOL_SIZE
      BY <1>2 DEF Kept
    <2>2. \A i \in 1 .. NONCE_POOL_SIZE :
            SlotOf(i) = IF next_slot + i - 1 < NONCE_POOL_SIZE THEN next_slot + i - 1
                        ELSE next_slot + i - 1 - NONCE_POOL_SIZE
      BY <1>0, <1>2, Turn DEF SlotOf
    <2>3. \A i \in 1 .. NONCE_POOL_SIZE : SlotOf(i) \in Slots
      BY <1>0, <2>2 DEF Slots
    <2>4. ASSUME NEW s \in Slots PROVE \E i \in 1 .. NONCE_POOL_SIZE : SlotOf(i) = s
      <3>1. CASE s >= next_slot
        <4>1. s - next_slot + 1 \in 1 .. NONCE_POOL_SIZE
          BY <1>0, <3>1 DEF Slots
        <4>2. SlotOf(s - next_slot + 1) = s
          BY <1>0, <2>2, <3>1, <4>1 DEF Slots
        <4> QED BY <4>1, <4>2
      <3>2. CASE s < next_slot
        <4>1. s - next_slot + 1 + NONCE_POOL_SIZE \in 1 .. NONCE_POOL_SIZE
          BY <1>0, <3>2 DEF Slots
        <4>2. SlotOf(s - next_slot + 1 + NONCE_POOL_SIZE) = s
          BY <1>0, <2>2, <3>2, <4>1 DEF Slots
        <4> QED BY <4>1, <4>2
      <3> QED BY <1>0, <3>1, <3>2 DEF Slots
    <2>5. \A i, j \in 1 .. NONCE_POOL_SIZE : SlotOf(i) = SlotOf(j) => i = j
      BY <1>0, <2>2
    <2> QED BY <1>1, <1>2, <2>1, <2>2, <2>3, <2>4, <2>5 DEF Full
  <1>3. CASE ~Full
    <2>1. Kept = next_slot /\ \A i \in 1 .. Kept : SlotOf(i) = i - 1
      BY <1>3 DEF Kept, SlotOf
    <2>2. \A s \in Slots : pool[s].valid <=> s < next_slot
      BY <1>3 DEF RefInv, FillInv
    <2>3. \A i \in 1 .. Kept : SlotOf(i) \in Slots /\ pool[SlotOf(i)].valid
      BY <1>0, <2>1, <2>2 DEF Slots
    <2>4. \A s \in Slots : pool[s].valid => s + 1 \in 1 .. Kept /\ SlotOf(s + 1) = s
      BY <1>0, <2>1, <2>2 DEF Slots
    <2>5. \A i, j \in 1 .. Kept : SlotOf(i) = SlotOf(j) => i = j
      BY <1>0, <2>1
    <2> QED BY <1>1, <1>3, <2>1, <2>3, <2>4, <2>5
  <1> QED BY <1>2, <1>3

IsLedger ==
    /\ Window \in Seq(LedgerRecord) /\ Len(Window) = Kept
    /\ DOMAIN Window = 1 .. Kept
    /\ \A i \in 1 .. Kept : Window[i] = Entry(SlotOf(i))

LEMMA WindowFacts == RefInv => IsLedger
  <1> SUFFICES ASSUME RefInv PROVE IsLedger
    OBVIOUS
  <1>1. Window = [i \in 1 .. Kept |-> Entry(SlotOf(i))]
    BY DEF Window, Kept, Entry
  <1>2. ASSUME NEW i \in 1 .. Kept PROVE Entry(SlotOf(i)) \in LedgerRecord
    <2>1. SlotOf(i) \in Slots /\ pool[SlotOf(i)].valid
      BY Places
    <2>2. /\ pool[SlotOf(i)].nonce \in Nonce /\ pool[SlotOf(i)] \in NonceRecord
          /\ trueAge[SlotOf(i)] \in 0 .. NONCE_TTL_MS + 1
      BY <2>1 DEF RefInv, TtlInv, AEInv, AETypeOK, RingInv
    <2> QED BY <2>2 DEF Entry, LedgerRecord, NonceRecord
  <1>3. Window \in [1 .. Kept -> LedgerRecord] /\ Kept \in Nat
    BY <1>1, <1>2, Places, AuthAssumption
  <1>4. Window \in Seq(LedgerRecord)
    BY <1>3, SeqDef
  <1>5. Len(Window) = Kept
    BY <1>3, <1>4, LenProperties
  <1> QED BY <1>1, <1>3, <1>4, <1>5 DEF IsLedger

LEMMA RefInit == AEInit => RefInv /\ Ledger!Init
  <1> SUFFICES ASSUME AEInit PROVE RefInv /\ Ledger!Init
    OBVIOUS
  <1>0. 0 \in Slots
    BY AuthAssumption DEF Slots
  <1>1. \A s \in Slots : ~pool[s].valid /\ ~(s < next_slot)
    BY AuthAssumption DEF AEInit, Slots
  <1>2. RefInv /\ Kept = 0
    BY <1>0, <1>1, TtlInit DEF AEInit, RefInv, FillInv, Kept, Full
  <1>3. Window \in Seq(LedgerRecord) /\ Len(Window) = 0
    BY <1>2, WindowFacts DEF IsLedger
  <1>4. Window = <<>>
    BY <1>3, EmptySeq
  <1> QED BY <1>2, <1>4 DEF AEInit, Ledger!Init

LEMMA RefStep == RefInv /\ [AENext /\ now' >= now]_aeVars => RefInv'
  <1> SUFFICES ASSUME RefInv, [AENext /\ now' >= now]_aeVars PROVE RefInv'
    OBVIOUS
  <1>0. TtlInv'
    BY TtlStep DEF RefInv
  <1>1. /\ pool \in [Slots -> NonceRecord] /\ next_slot \in 0 .. NONCE_POOL_SIZE - 1
        /\ NONCE_POOL_SIZE \in Nat \ {0}
    BY AuthAssumption DEF RefInv, TtlInv, AEInv, AETypeOK, Slots
  <1>2. ASSUME NEW h \in Handle, new_challenge(h) PROVE FillInv'
    <2>1. \A s \in Slots : pool'[s].valid <=> s = next_slot \/ pool[s].valid
      BY <1>1, <1>2 DEF new_challenge, Slots
    <2>2. CASE Full
      BY <2>1, <2>2 DEF FillInv, Full
    <2>3. CASE ~Full /\ next_slot + 1 = NONCE_POOL_SIZE
      <3>1. \A s \in Slots : s = next_slot \/ s < next_slot
        BY <1>1, <2>3 DEF Slots
      <3>2. \A s \in Slots : pool'[s].valid
        BY <2>1, <2>3, <3>1 DEF RefInv, FillInv
      <3> QED BY <3>2 DEF FillInv, Full
    <2>4. CASE ~Full /\ next_slot + 1 # NONCE_POOL_SIZE
      <3>1. next_slot' = next_slot + 1
        BY <1>2, <2>4 DEF new_challenge
      <3>2. \A s \in Slots : s < next_slot + 1 <=> s = next_slot \/ s < next_slot
        BY <1>1 DEF Slots
      <3> QED BY <2>1, <2>4, <3>1, <3>2 DEF RefInv, FillInv
    <2> QED BY <2>2, <2>3, <2>4
  <1>3. ASSUME NEW h \in Handle, NEW n \in Nonce, NEW good \in BOOLEAN,
               Accept(h, n, good)
        PROVE  FillInv'
    <2>1. PICK s \in Slots : pool' = [pool EXCEPT ![s].consumed = TRUE]
      BY <1>3 DEF Accept, find
    <2>2. \A t \in Slots : pool'[t].valid = pool[t].valid
      BY <1>1, <2>1 DEF NonceRecord
    <2> QED BY <1>3, <2>2 DEF Accept, RefInv, FillInv, Full
  <1>4. ASSUME UNCHANGED members PROVE FillInv'
    BY <1>4 DEF members, RefInv, FillInv, Full
  <1> QED
    BY <1>0, <1>2, <1>3, <1>4
       DEF RefInv, AENext, verify_response, Refuse, TimePasses, aeVars

(***************************************************************************)
(* A new challenge: the first free slot is the next entry, and in a full   *)
(* ring the oldest entry makes room.                                       *)
(***************************************************************************)
LEMMA ChallengeIssues ==
    ASSUME RefInv, RefInv', NEW h \in Handle, new_challenge(h)
    PROVE  Ledger!Issue(h)
  <1>0. /\ pool \in [Slots -> NonceRecord] /\ next_slot \in Slots
        /\ next_slot \in 0 .. NONCE_POOL_SIZE - 1 /\ NONCE_POOL_SIZE \in Nat \ {0}
        /\ trueAge \in [Slots -> 0 .. NONCE_TTL_MS + 1]
    BY AuthAssumption DEF RefInv, TtlInv, AEInv, AETypeOK, Slots
  <1>1. PICK n \in unused :
          /\ pool' = [pool EXCEPT ![next_slot] =
                        [valid |-> TRUE, consumed |-> FALSE, nonce |-> n,
                         handle |-> h, issued_ms |-> now]]
          /\ next_slot' = IF next_slot + 1 = NONCE_POOL_SIZE THEN 0 ELSE next_slot + 1
          /\ trueAge' = [trueAge EXCEPT ![next_slot] = 0]
          /\ unused' = unused \ {n}
          /\ UNCHANGED <<now, result, asked, accepted>>
    BY DEF new_challenge
  <1> DEFINE e == [nonce |-> n, handle |-> h, age |-> 0, consumed |-> FALSE]
  <1>2. /\ \A s \in Slots : Entry(s)' = IF s = next_slot THEN e ELSE Entry(s)
        /\ \A s \in Slots : pool'[s].valid <=> s = next_slot \/ pool[s].valid
    BY <1>0, <1>1 DEF Entry
  <1>3. e \in LedgerRecord
    BY AuthAssumption DEF LedgerRecord, RefInv, TtlInv, AEInv, AETypeOK
  <1>4. IsLedger /\ IsLedger'
    BY WindowFacts, PTL
  <1> DEFINE w == Ledger!Remembered
  <1>6. /\ next_slot' = IF next_slot + 1 = NONCE_POOL_SIZE THEN 0 ELSE next_slot + 1
        /\ next_slot' \in 0 .. NONCE_POOL_SIZE - 1
    BY <1>0, <1>1
  <1>7. ASSUME w \in Seq(LedgerRecord), Kept' = Len(w) + 1,
               \A i \in 1 .. Len(w) : Window'[i] = w[i],
               Window'[Len(w) + 1] = e
        PROVE  Ledger!Issue(h)
    <2> HIDE DEF e, w
    <2>1. Len(w) \in Nat
      BY <1>7, LenProperties
    <2> DEFINE a == Append(w, e)
    <2>2. /\ a \in Seq(LedgerRecord) /\ Len(a) = Len(w) + 1
          /\ \A i \in 1 .. Len(w) : a[i] = w[i]
          /\ a[Len(w) + 1] = e
      BY <1>3, <1>7, AppendProperties
    <2>3. Window' \in Seq(LedgerRecord) /\ Len(Window') = Len(w) + 1
      BY <1>4, <1>7 DEF IsLedger
    <2> HIDE DEF a
    <2>4. \A i \in 1 .. Len(w) + 1 : Window'[i] = a[i]
      <3>1. \A i \in 1 .. Len(w) + 1 : i \in 1 .. Len(w) \/ i = Len(w) + 1
        BY <2>1
      <3> QED BY <1>7, <2>2, <3>1
    <2>5. Window' = a
      BY <2>2, <2>3, <2>4, SeqEqual
    <2> QED BY <1>1, <2>5 DEF a, e, w, Ledger!Issue
  <1>5. CASE Full
    <2>1. Full' /\ Kept = NONCE_POOL_SIZE /\ Kept' = NONCE_POOL_SIZE
      BY <1>2, <1>5 DEF Full, Kept
    <2>2. w = Tail(Window) /\ Window # <<>>
      BY <1>0, <1>4, <2>1, EmptySeq DEF Ledger!Remembered, IsLedger
    <2>3. /\ w \in Seq(LedgerRecord) /\ Len(w) = NONCE_POOL_SIZE - 1
          /\ \A i \in 1 .. NONCE_POOL_SIZE - 1 : w[i] = Window[i + 1]
      BY <1>0, <1>4, <2>1, <2>2, HeadTailProperties DEF IsLedger
    <2>4. ASSUME NEW i \in 1 .. NONCE_POOL_SIZE - 1
          PROVE  SlotOf(i)' = SlotOf(i + 1) /\ SlotOf(i)' # next_slot
      <3>1. SlotOf(i + 1) = IF next_slot + i < NONCE_POOL_SIZE THEN next_slot + i
                            ELSE next_slot + i - NONCE_POOL_SIZE
        BY <1>0, <1>5, <2>1, Places
      <3>2. SlotOf(i)' = (next_slot' + i - 1) % NONCE_POOL_SIZE
        BY <2>1 DEF SlotOf
      <3>3. i \in 1 .. NONCE_POOL_SIZE
        BY <1>0
      <3>4. SlotOf(i)' = IF next_slot' + i - 1 < NONCE_POOL_SIZE THEN next_slot' + i - 1
                         ELSE next_slot' + i - 1 - NONCE_POOL_SIZE
        BY <1>6, <3>2, <3>3, Turn
      <3> HIDE DEF e, w
      <3> QED BY <1>0, <1>6, <3>1, <3>4
    <2>5. SlotOf(NONCE_POOL_SIZE)' = next_slot
      <3>1. SlotOf(NONCE_POOL_SIZE)' = (next_slot' + NONCE_POOL_SIZE - 1) % NONCE_POOL_SIZE
        BY <2>1 DEF SlotOf
      <3>2. NONCE_POOL_SIZE \in 1 .. NONCE_POOL_SIZE
        BY <1>0
      <3>3. SlotOf(NONCE_POOL_SIZE)' =
              IF next_slot' + NONCE_POOL_SIZE - 1 < NONCE_POOL_SIZE
              THEN next_slot' + NONCE_POOL_SIZE - 1
              ELSE next_slot' + NONCE_POOL_SIZE - 1 - NONCE_POOL_SIZE
        BY <1>6, <3>1, <3>2, Turn
      <3> QED BY <1>0, <1>6, <3>3
    <2>6. \A i \in 1 .. NONCE_POOL_SIZE - 1 : Window'[i] = w[i]
      <3> SUFFICES ASSUME NEW i \in 1 .. NONCE_POOL_SIZE - 1
                   PROVE  Window'[i] = w[i]
        OBVIOUS
      <3>1. i \in 1 .. Kept' /\ i + 1 \in 1 .. Kept
        BY <1>0, <2>1
      <3>2. Window'[i] = Entry(SlotOf(i))' /\ Window[i + 1] = Entry(SlotOf(i + 1))
        BY <1>4, <3>1 DEF IsLedger
      <3>3. SlotOf(i + 1) \in Slots
        BY <3>1, Places
      <3>4. Entry(SlotOf(i))' = Entry(SlotOf(i + 1))
        BY <1>2, <2>4, <3>3 DEF Entry
      <3> QED BY <2>3, <3>2, <3>4
    <2>7. Window'[NONCE_POOL_SIZE] = e
      <3>1. NONCE_POOL_SIZE \in 1 .. Kept'
        BY <1>0, <2>1
      <3>2. Window'[NONCE_POOL_SIZE] = Entry(SlotOf(NONCE_POOL_SIZE))'
        BY <1>4, <3>1 DEF IsLedger
      <3> QED BY <1>0, <1>2, <2>5, <3>2 DEF Entry
    <2> HIDE DEF e, w
    <2> QED BY <1>0, <1>7, <2>1, <2>3, <2>6, <2>7
  <1>8. CASE ~Full
    <2>1. /\ Kept = next_slot /\ w = Window /\ Len(w) = next_slot
          /\ w \in Seq(LedgerRecord)
      BY <1>0, <1>4, <1>8 DEF Kept, Ledger!Remembered, IsLedger
    <2>2. /\ Kept' = next_slot + 1
          /\ \A i \in 1 .. next_slot + 1 : SlotOf(i)' = i - 1
      <3>1. \A s \in Slots : pool[s].valid <=> s < next_slot
        BY <1>8 DEF RefInv, FillInv
      <3>2. CASE next_slot + 1 = NONCE_POOL_SIZE
        <4>1. \A s \in Slots : s = next_slot \/ s < next_slot
          BY <1>0, <3>2 DEF Slots
        <4>2. Full'
          BY <1>2, <3>1, <4>1 DEF Full
        <4>3. next_slot' = 0
          BY <1>6, <3>2
        <4>4. ASSUME NEW i \in 1 .. NONCE_POOL_SIZE PROVE SlotOf(i)' = i - 1
          <5>1. SlotOf(i)' = (0 + i - 1) % NONCE_POOL_SIZE
            BY <4>2, <4>3 DEF SlotOf
          <5>2. 0 \in 0 .. NONCE_POOL_SIZE - 1
            BY <1>0
          <5>3. (0 + i - 1) % NONCE_POOL_SIZE =
                  IF 0 + i - 1 < NONCE_POOL_SIZE THEN 0 + i - 1 ELSE 0 + i - 1 - NONCE_POOL_SIZE
            BY <5>2, Turn
          <5> HIDE DEF e, w
          <5> QED BY <1>0, <5>1, <5>3
        <4> QED BY <3>2, <4>2, <4>4 DEF Kept
      <3>3. CASE next_slot + 1 # NONCE_POOL_SIZE
        <4>1. next_slot + 1 \in Slots /\ ~(next_slot + 1 < next_slot) /\ next_slot + 1 # next_slot
          BY <1>0, <3>3 DEF Slots
        <4>2. ~Full'
          BY <1>2, <3>1, <4>1 DEF Full
        <4>3. next_slot' = next_slot + 1
          BY <1>6, <3>3
        <4> QED BY <4>2, <4>3 DEF Kept, SlotOf
      <3> QED BY <3>2, <3>3
    <2>3. ASSUME NEW i \in 1 .. next_slot PROVE Window'[i] = w[i]
      <3>1. i \in 1 .. next_slot + 1 /\ i - 1 \in Slots /\ i - 1 # next_slot
        BY <1>0 DEF Slots
      <3>2. Window'[i] = Entry(SlotOf(i))' /\ SlotOf(i)' = i - 1
        BY <1>4, <2>2, <3>1 DEF IsLedger
      <3>3. Window[i] = Entry(SlotOf(i)) /\ SlotOf(i) = i - 1
        BY <1>4, <1>8, <2>1 DEF IsLedger, SlotOf
      <3>4. Entry(i - 1)' = Entry(i - 1)
        BY <1>2, <3>1
      <3> QED BY <2>1, <3>2, <3>3, <3>4 DEF Entry
    <2>4. ASSUME NEW k \in 1 .. next_slot + 1, k = next_slot + 1
          PROVE  Window'[k] = e
      <3>1. Window'[k] = Entry(SlotOf(k))' /\ SlotOf(k)' = k - 1
        BY <1>4, <2>2 DEF IsLedger
      <3>2. k - 1 \in Slots /\ k - 1 = next_slot
        BY <1>0, <2>4
      <3> QED BY <1>2, <3>1, <3>2 DEF Entry
    <2>5. next_slot + 1 \in 1 .. next_slot + 1
      BY <1>0
    <2> HIDE DEF e, w
    <2> QED BY <1>7, <2>1, <2>2, <2>3, <2>4, <2>5
  <1> QED BY <1>5, <1>8

(***************************************************************************)
(* A verdict is "OK" on the ledger's terms, and otherwise its reason: in   *)
(* the first epoch the wrapped difference is beyond the TTL exactly when   *)
(* the true age is.                                                        *)
(***************************************************************************)
LEMMA VerdictReason ==
    ASSUME RefInv, NEW s \in Slots, pool[s].valid, NEW h \in Handle, NEW good \in BOOLEAN
    PROVE  /\ Verdict(pool[s], h, good) = "OK" <=> good /\ Ledger!Fresh(Entry(s), h)
           /\ Verdict(pool[s], h, good) # "OK"
                => Verdict(pool[s], h, good) = Ledger!Reason(Entry(s), h)
  <1>1. /\ pool[s] \in NonceRecord /\ now \in Millis
        /\ pool[s].issued_ms <= now
        /\ trueAge[s] = Capped(now - pool[s].issued_ms)
    BY DEF RefInv, TtlInv, AEInv, AETypeOK
  <1>2. Expired(pool[s]) <=> trueAge[s] > NONCE_TTL_MS
    <2>1. pool[s].issued_ms \in Int /\ now \in Int
      BY <1>1, U32Assumption DEF NonceRecord, Millis
    <2> QED BY <1>1, <2>1, AuthAssumption DEF Expired, Minus, Capped
  <1>3. trueAge[s] \in Nat
    BY AuthAssumption DEF RefInv, TtlInv, AEInv, AETypeOK
  <1>4. /\ Entry(s).consumed = pool[s].consumed /\ Entry(s).handle = pool[s].handle
        /\ Entry(s).age = trueAge[s]
    BY DEF Entry
  <1>5. pool[s].consumed \in BOOLEAN
    BY <1>1 DEF NonceRecord
  <1>6. Entry(s).age <= NONCE_TTL_MS <=> ~Expired(pool[s])
    BY <1>2, <1>3, <1>4, AuthAssumption
  <1>7. Entry(s).age > NONCE_TTL_MS <=> Expired(pool[s])
    BY <1>2, <1>4
  <1> HIDE DEF Entry
  <1> QED BY <1>4, <1>5, <1>6, <1>7 DEF Verdict, Ledger!Fresh, Ledger!Reason

(* The entries of a nonce are the slots that hold it. *)
LEMMA KnownSlots ==
    ASSUME RefInv, NEW n \in Nonce
    PROVE  /\ \A s \in find(n) : \E i \in Ledger!Known(n) : i \in 1 .. Kept /\ SlotOf(i) = s
           /\ find(n) = {} => Ledger!Known(n) = {}
  <1>1. IsLedger
    BY WindowFacts
  <1>2. \A i \in 1 .. Kept : Window[i].nonce = pool[SlotOf(i)].nonce
    BY <1>1 DEF IsLedger, Entry
  <1>3. \A i \in 1 .. Kept : i \in Ledger!Known(n) <=> pool[SlotOf(i)].nonce = n
    BY <1>1, <1>2 DEF IsLedger, Ledger!Known
  <1>4. Ledger!Known(n) \subseteq 1 .. Kept
    BY <1>1 DEF IsLedger, Ledger!Known
  <1> QED BY <1>3, <1>4, Places DEF find

(***************************************************************************)
(* The one entry of an accepted slot is the one the ledger accepts.        *)
(***************************************************************************)
LEMMA AcceptAccepts ==
    ASSUME RefInv, RefInv', NEW h \in Handle, NEW n \in Nonce, NEW good \in BOOLEAN,
           Accept(h, n, good)
    PROVE  good /\ Ledger!Accept(h, n)
  <1>1. PICK s \in find(n) : /\ Verdict(pool[s], h, good) = "OK"
                             /\ pool' = [pool EXCEPT ![s].consumed = TRUE]
    BY DEF Accept
  <1>2. s \in Slots /\ pool[s].valid /\ pool \in [Slots -> NonceRecord]
    BY DEF find, RefInv, TtlInv, AEInv, AETypeOK
  <1>3. PICK i \in Ledger!Known(n) : i \in 1 .. Kept /\ SlotOf(i) = s
    BY KnownSlots
  <1>4. good /\ Ledger!Fresh(Entry(s), h)
    BY <1>1, <1>2, VerdictReason
  <1>5. IsLedger /\ IsLedger'
    BY WindowFacts, PTL
  <1>6. Window[i] = Entry(s)
    BY <1>3, <1>5 DEF IsLedger
  <1>7. ASSUME NEW t \in Slots
        PROVE  /\ pool'[t].valid = pool[t].valid
               /\ Entry(t)' = IF t = s THEN [Entry(s) EXCEPT !.consumed = TRUE]
                              ELSE Entry(t)
    <2>1. trueAge' = trueAge
      BY DEF Accept
    <2>2. /\ t # s => pool'[t] = pool[t]
          /\ pool'[s] = [pool[s] EXCEPT !.consumed = TRUE]
      BY <1>1, <1>2
    <2>3. /\ pool'[s].valid = pool[s].valid /\ pool'[s].nonce = pool[s].nonce
          /\ pool'[s].handle = pool[s].handle /\ pool'[s].consumed = TRUE
      BY <1>2, <2>2 DEF NonceRecord
    <2> QED BY <2>1, <2>2, <2>3 DEF Entry
  <1>8. Kept' = Kept /\ \A j \in 1 .. Kept : SlotOf(j)' = SlotOf(j)
    <2>1. Full' = Full /\ next_slot' = next_slot
      BY <1>7 DEF Full, Accept
    <2> QED BY <2>1 DEF Kept, SlotOf
  <1>9. ASSUME NEW j \in 1 .. Kept
        PROVE  Window'[j] = IF j = i THEN [Window[i] EXCEPT !.consumed = TRUE] ELSE Window[j]
    <2>1. Window'[j] = Entry(SlotOf(j))' /\ Window[j] = Entry(SlotOf(j))
      BY <1>5, <1>8 DEF IsLedger
    <2>2. SlotOf(j) \in Slots /\ (SlotOf(j) = s <=> j = i)
      BY <1>3, Places
    <2>3. Entry(SlotOf(j))' = IF SlotOf(j) = s THEN [Entry(s) EXCEPT !.consumed = TRUE]
                              ELSE Entry(SlotOf(j))
      BY <1>7, <1>8, <2>2 DEF Entry
    <2> HIDE DEF Entry
    <2> QED BY <1>6, <2>1, <2>2, <2>3
  <1>10. Window' = [Window EXCEPT ![i].consumed = TRUE]
    <2>1. /\ Window \in [1 .. Kept -> LedgerRecord]
          /\ Window' \in [1 .. Kept -> LedgerRecord]
      BY <1>5, <1>8, LenProperties DEF IsLedger
    <2> QED BY <1>9, <2>1
  <1>11. result' = "OK" /\ UNCHANGED unused
    BY DEF Accept
  <1> QED BY <1>4, <1>6, <1>10, <1>11 DEF Ledger!Accept

LEMMA RefuseRefuses ==
    ASSUME RefInv, NEW h \in Handle, NEW n \in Nonce, NEW good \in BOOLEAN,
           Refuse(h, n, good)
    PROVE  Ledger!Refuse(h, n, good)
  <1>1. UNCHANGED <<Window, unused>>
    BY DEF Refuse, members, Window, SlotOf, Full
  <1>2. CASE find(n) = {} /\ result' = "UNKNOWN_NONCE"
    BY <1>1, <1>2, KnownSlots DEF Ledger!Refuse
  <1>3. ASSUME NEW s \in find(n), Verdict(pool[s], h, good) # "OK",
               result' = Verdict(pool[s], h, good)
        PROVE  Ledger!Refuse(h, n, good)
    <2>1. PICK i \in Ledger!Known(n) : i \in 1 .. Kept /\ SlotOf(i) = s
      BY KnownSlots
    <2>2. Window[i] = Entry(s)
      BY <2>1, WindowFacts DEF IsLedger
    <2>3. s \in Slots /\ pool[s].valid
      BY DEF find
    <2>4. /\ ~(good /\ Ledger!Fresh(Entry(s), h))
          /\ result' = Ledger!Reason(Entry(s), h)
      BY <1>3, <2>3, VerdictReason
    <2> QED BY <1>1, <2>1, <2>2, <2>4 DEF Ledger!Refuse
  <1> QED BY <1>2, <1>3 DEF Refuse

LEMMA TimeAges ==
    ASSUME RefInv, RefInv', TimePasses
    PROVE  Ledger!Age
  <1>1. IsLedger /\ IsLedger'
    BY WindowFacts, PTL
  <1>2. /\ UNCHANGED <<pool, next_slot, result, asked, unused>>
        /\ \A s \in Slots : trueAge'[s] = CountUp(trueAge[s], NONCE_TTL_MS + 1)
    BY DEF TimePasses, members
  <1>3. Kept' = Kept /\ \A i \in 1 .. Kept : SlotOf(i)' = SlotOf(i)
    BY <1>2 DEF Kept, SlotOf, Full
  <1>4. ASSUME NEW i \in 1 .. Kept
        PROVE  Window'[i] = [Window[i] EXCEPT !.age = IF @ <= NONCE_TTL_MS THEN @ + 1 ELSE @]
    <2>1. Window'[i] = Entry(SlotOf(i))' /\ Window[i] = Entry(SlotOf(i))
      BY <1>1, <1>3 DEF IsLedger
    <2>2. SlotOf(i) \in Slots /\ trueAge[SlotOf(i)] \in 0 .. NONCE_TTL_MS + 1
      BY Places DEF RefInv, TtlInv, AEInv, AETypeOK
    <2>3. CountUp(trueAge[SlotOf(i)], NONCE_TTL_MS + 1) =
            IF trueAge[SlotOf(i)] <= NONCE_TTL_MS THEN trueAge[SlotOf(i)] + 1
            ELSE trueAge[SlotOf(i)]
      BY <2>2, AuthAssumption DEF CountUp
    <2> QED BY <1>2, <1>3, <2>1, <2>2, <2>3 DEF Entry
  <1>5. /\ Window \in [1 .. Kept -> LedgerRecord]
        /\ Window' \in [1 .. Kept -> LedgerRecord]
    BY <1>1, <1>3, LenProperties DEF IsLedger
  <1> QED BY <1>2, <1>4, <1>5 DEF Ledger!Age

(***************************************************************************)
(* In the first epoch the ring implements the ledger, whatever its size:   *)
(* a turn of the ring forgets the oldest challenge, and the wrapped times  *)
(* judge an answer as true ages would.                                     *)
(***************************************************************************)
THEOREM RingImplementsLedger == AESpecFirstEpoch => LedgerSpec
  <1>1. RefInv /\ RefInv' /\ [AENext /\ now' >= now]_aeVars => [Ledger!Next]_(Ledger!vars)
    <2> SUFFICES ASSUME RefInv, RefInv', [AENext /\ now' >= now]_aeVars
                 PROVE  Ledger!Next \/ UNCHANGED Ledger!vars
      OBVIOUS
    <2>1. ASSUME NEW h \in Handle, new_challenge(h) PROVE Ledger!Next
      BY <2>1, ChallengeIssues DEF Ledger!Next
    <2>2. ASSUME NEW h \in Handle, NEW n \in Nonce, NEW good \in BOOLEAN,
                 verify_response(h, n, good)
          PROVE  Ledger!Next
      BY <2>2, AcceptAccepts, RefuseRefuses DEF verify_response, Ledger!Answer, Ledger!Next
    <2>3. CASE TimePasses
      BY <2>3, TimeAges DEF Ledger!Next
    <2>4. CASE UNCHANGED aeVars
      BY <2>4 DEF aeVars, members, Window, SlotOf, Full, Ledger!vars
    <2> QED BY <2>1, <2>2, <2>3, <2>4 DEF AENext
  <1> QED BY <1>1, RefInit, RefStep, PTL DEF AESpecFirstEpoch, LedgerSpec, Ledger!Spec
=============================================================================

-------------------------- MODULE UwbManagerProofs --------------------------
(***************************************************************************)
(* Theorems on UwbManager for every speed bound, every zone and every      *)
(* period of millis(), wrap-arounds included.                              *)
(***************************************************************************)
EXTENDS UwbManager, TLAPS

USE U32Assumption, UwbAssumption DEF Millis, Distance

(***************************************************************************)
(* Elapsed, the unsigned difference of push_measurement(), is the true gap *)
(* while that is shorter than a period; and a round after the first fix    *)
(* comes at least one unit after it.                                       *)
(***************************************************************************)
GapInv ==
    has_fix => /\ gap < U32 => Elapsed = gap
               /\ gap <= sinceFirst
               /\ rested => gap > 0

(***************************************************************************)
(* The chain of trusted samples: none is farther from the first than a     *)
(* walk up to its own time.                                                *)
(***************************************************************************)
ChainInv ==
    has_fix /\ sinceFirst < U32
        => Apart(last.distance, first) <= RATE * (sinceFirst - gap)

(***************************************************************************)
(* An honest key is not farther from its latest sample than a walk.        *)
(***************************************************************************)
WalkInv ==
    honest /\ has_fix /\ gap < U32 => Apart(pos, last.distance) <= RATE * gap

(***************************************************************************)
(* What uwb_task remembers and has posted.                                 *)
(***************************************************************************)
LatchInv ==
    /\ relay_suspected => zone = "FAR"
    /\ zone # "FAR" => has_fix
    /\ prev = "FAR" => heard # "NEAR"

UwbInv ==
    /\ UwbTypeOK /\ GapInv /\ ChainInv /\ WalkInv /\ LatchInv
    /\ WalkingKeyTrusted /\ SuspicionLatched /\ SuspicionHeard

-----------------------------------------------------------------------------
LEMMA ApartFacts ==
    ASSUME NEW d \in Nat, NEW e \in Nat, NEW f \in Nat
    PROVE  /\ Apart(d, e) \in Nat /\ Apart(d, e) = Apart(e, d) /\ Apart(d, d) = 0
           /\ Apart(d, f) <= Apart(d, e) + Apart(e, f)
  BY DEF Apart

LEMMA ApartBounded ==
    ASSUME NEW d \in Distance, NEW e \in Distance
    PROVE  Apart(d, e) <= RATE * U32
  <1>1. Apart(d, e) <= MaxDistance
    BY DEF Apart
  <1>2. RATE * U32 \in Nat
    OBVIOUS
  <1> QED BY <1>1, <1>2, ApartFacts

LEMMA Products ==
    ASSUME NEW a \in Nat, NEW b \in Nat
    PROVE  /\ RATE * a \in Nat
           /\ RATE * (a + 1) = RATE * a + RATE
           /\ b <= a => /\ RATE * (a - b) \in Nat
                        /\ RATE * b + RATE * (a - b) = RATE * a
  OBVIOUS

LEMMA ElapsedGrows ==
    ASSUME NEW t \in Millis, NEW u \in Millis, NEW g \in Nat, g + 1 < U32,
           Minus(t, u) = g
    PROVE  Minus(Plus(t, 1), u) = g + 1
  BY DEF Plus, Minus

(***************************************************************************)
(* In a round with a fix, the code's rate check is the true one.           *)
(***************************************************************************)
LEMMA RateIsTrue ==
    ASSUME UwbInv, rested, has_fix, NEW d \in Distance, gap < U32
    PROVE  RateExceeded(d) <=> Apart(d, last.distance) > RATE * gap
  <1>1. Elapsed = gap /\ gap > 0
    BY DEF UwbInv, GapInv
  <1> QED BY <1>1 DEF RateExceeded

LEMMA ImplausibleRejected ==
    ASSUME UwbInv, rested, NEW d \in Distance, NEW tofOk \in BOOLEAN,
           Implausible(d, tofOk)
    PROVE  ~tofOk \/ RateExceeded(d)
  <1> SUFFICES ASSUME has_fix, Apart(d, last.distance) > RATE * gap
               PROVE  RateExceeded(d)
    BY DEF Implausible
  <1>1. last.distance \in Distance /\ gap \in 0 .. U32
    BY DEF UwbInv, UwbTypeOK
  <1>2. Apart(d, last.distance) \in Nat
    <2>1. d \in Nat /\ last.distance \in Nat
      BY <1>1
    <2> QED BY <2>1, ApartFacts
  <1>3. gap # U32
    BY <1>1, <1>2, ApartBounded, Products
  <1> QED BY <1>1, <1>3, RateIsTrue

LEMMA ClassifyType ==
    ASSUME NEW d \in Distance PROVE classify(d) \in UwbZone
  BY DEF classify, UwbZone

-----------------------------------------------------------------------------
LEMMA InitInv == UwbInit => UwbInv
  <1> SUFFICES ASSUME UwbInit PROVE UwbInv
    OBVIOUS
  <1> USE DEF UwbInit
  <1>1. UwbTypeOK
    <2>1. 0 \in Distance /\ 0 \in Millis /\ 0 \in 0 .. U32
      OBVIOUS
    <2> QED BY <2>1 DEF UwbTypeOK, UwbZone
  <1>2. GapInv /\ ChainInv /\ WalkInv /\ LatchInv
    BY DEF GapInv, ChainInv, WalkInv, LatchInv
  <1>3. WalkingKeyTrusted /\ SuspicionLatched /\ SuspicionHeard
    BY DEF WalkingKeyTrusted, SuspicionLatched, SuspicionHeard
  <1> QED BY <1>1, <1>2, <1>3 DEF UwbInv

LEMMA ResetInv ==
    ASSUME UwbInv, ResetSession PROVE UwbInv'
  BY DEF UwbInv, UwbTypeOK, GapInv, ChainInv, WalkInv, LatchInv, UwbZone,
         WalkingKeyTrusted, SuspicionLatched, SuspicionHeard, ResetSession,
         reset_session, task

LEMMA UnitInv ==
    ASSUME UwbInv, UnitPasses PROVE UwbInv'
  <1> USE DEF UwbInv, UnitPasses, manager
  <1>1. UwbTypeOK'
    BY DEF UwbTypeOK, MillisPasses, Plus, CountUp
  <1>2. GapInv'
    <2> SUFFICES ASSUME has_fix
                 PROVE  /\ gap' < U32 => Elapsed' = gap'
                        /\ gap' <= sinceFirst'
                        /\ gap' > 0
      BY DEF GapInv
    <2>1. gap \in 0 .. U32 /\ sinceFirst \in 0 .. U32 /\ gap <= sinceFirst
      BY DEF UwbTypeOK, GapInv
    <2>2. ASSUME gap' < U32 PROVE Elapsed' = gap'
      <3>1. gap' = gap + 1 /\ gap + 1 < U32
        BY <2>1, <2>2 DEF CountUp
      <3>2. Elapsed = gap
        BY <2>1, <3>1 DEF GapInv
      <3>3. now \in Millis /\ last.timestamp_ms \in Millis
        BY DEF UwbTypeOK
      <3> QED BY <2>1, <3>1, <3>2, <3>3, ElapsedGrows DEF Elapsed, MillisPasses
    <2> QED BY <2>1, <2>2 DEF CountUp
  <1>3. ChainInv'
    <2>1. gap \in 0 .. U32 /\ sinceFirst \in 0 .. U32
      BY DEF UwbTypeOK
    <2> SUFFICES ASSUME has_fix, sinceFirst' < U32
                 PROVE  Apart(last.distance, first) <= RATE * (sinceFirst' - gap')
      BY DEF ChainInv
    <2>2. sinceFirst < U32 /\ sinceFirst' = sinceFirst + 1 /\ gap <= sinceFirst
      BY <2>1 DEF CountUp, GapInv
    <2>3. gap' = gap + 1
      BY <2>1, <2>2 DEF CountUp
    <2>4. sinceFirst' - gap' = sinceFirst - gap
      BY <2>1, <2>2, <2>3
    <2> QED BY <2>2, <2>4 DEF ChainInv
  <1>4. WalkInv'
    <2> SUFFICES ASSUME honest, has_fix, gap' < U32
                 PROVE  Apart(pos', last.distance) <= RATE * gap'
      BY DEF WalkInv
    <2>1. gap \in Nat /\ pos \in Nat /\ pos' \in Nat /\ last.distance \in Nat
      BY DEF UwbTypeOK
    <2>2. gap' = gap + 1 /\ gap < U32
      BY <2>1 DEF CountUp
    <2>3. Apart(pos, last.distance) <= RATE * gap
      BY <2>2 DEF WalkInv
    <2>4. Apart(pos', last.distance) <= Apart(pos', pos) + Apart(pos, last.distance)
      BY <2>1, ApartFacts
    <2>5. Apart(pos', pos) <= RATE
      OBVIOUS
    <2>6. RATE * gap \in Nat /\ RATE * (gap + 1) = RATE * gap + RATE
      BY <2>1, Products
    <2>7. /\ Apart(pos', last.distance) \in Nat /\ Apart(pos', pos) \in Nat
          /\ Apart(pos, last.distance) \in Nat
      BY <2>1, ApartFacts
    <2> QED BY <2>2, <2>3, <2>4, <2>5, <2>6, <2>7
  <1>5. LatchInv' /\ WalkingKeyTrusted' /\ SuspicionLatched' /\ SuspicionHeard'
    BY DEF LatchInv, WalkingKeyTrusted, SuspicionLatched, SuspicionHeard
  <1> QED BY <1>1, <1>2, <1>3, <1>4, <1>5

LEMMA RejectInv ==
    ASSUME UwbInv, NEW d \in Distance, NEW tofOk \in BOOLEAN, Round(d, tofOk), Reject,
           ~tofOk \/ RateExceeded(d)
    PROVE  UwbInv'
  <1> USE DEF UwbInv, Round, Reject
  <1>1. UwbTypeOK'
    BY DEF UwbTypeOK, UwbZone, Edge
  <1>2. GapInv' /\ ChainInv'
    BY DEF GapInv, ChainInv, Elapsed
  <1>3. honest' => beyond'
    <2> SUFFICES ASSUME honest, d = pos, tofOk, has_fix => gap < U32 PROVE FALSE
      BY DEF UwbTypeOK
    <2>1. RateExceeded(pos) /\ has_fix /\ gap < U32
      BY DEF RateExceeded
    <2>2. Apart(pos, last.distance) > RATE * gap
      BY <2>1, RateIsTrue
    <2>3. Apart(pos, last.distance) <= RATE * gap
      BY <2>1 DEF WalkInv
    <2>4. gap \in Nat /\ pos \in Nat /\ last.distance \in Nat
      BY DEF UwbTypeOK
    <2>5. RATE * gap \in Nat /\ Apart(pos, last.distance) \in Nat
      BY <2>4, Products, ApartFacts
    <2> QED BY <2>2, <2>3, <2>5
  <1>4. LatchInv' /\ SuspicionLatched' /\ SuspicionHeard'
    BY DEF LatchInv, SuspicionLatched, SuspicionHeard, Edge
  <1>5. WalkInv'
    <2> SUFFICES ASSUME honest, has_fix, gap < U32
                 PROVE  Apart(pos, last.distance) <= RATE * gap
      BY DEF WalkInv
    <2> QED BY DEF WalkInv
  <1> QED BY <1>1, <1>2, <1>3, <1>4, <1>5 DEF WalkingKeyTrusted

LEMMA TrustInv ==
    ASSUME UwbInv, NEW d \in Distance, NEW tofOk \in BOOLEAN, Round(d, tofOk), Trust(d),
           tofOk, ~RateExceeded(d)
    PROVE  UwbInv'
  <1> USE DEF UwbInv, Round, Trust
  <1>1. UwbTypeOK'
    <2>1. zone' \in UwbZone
      BY ClassifyType DEF UwbZone
    <2>2. last' \in [distance : Distance, timestamp_ms : Millis]
      BY DEF UwbTypeOK
    <2>3. prev' \in UwbZone /\ heard' \in {"NONE", "NEAR", "FAR"}
      BY <2>1 DEF UwbTypeOK, UwbZone, Edge
    <2>4. first' \in Distance /\ sinceFirst' \in 0 .. U32 /\ gap' \in 0 .. U32
      BY DEF UwbTypeOK
    <2> QED BY <2>1, <2>2, <2>3, <2>4 DEF UwbTypeOK
  <1>2. GapInv'
    BY DEF GapInv, Elapsed, Minus, UwbTypeOK
  <1>3. ChainInv'
    <2>1. CASE has_fix
      <3> SUFFICES ASSUME sinceFirst < U32
                   PROVE  Apart(d, first) <= RATE * (sinceFirst - 0)
        BY <2>1 DEF ChainInv
      <3>1. /\ gap \in Nat /\ sinceFirst \in Nat /\ last.distance \in Nat /\ first \in Nat
            /\ d \in Nat
        BY DEF UwbTypeOK
      <3>2. gap <= sinceFirst /\ gap < U32
        BY <2>1, <3>1 DEF GapInv
      <3>3. Apart(last.distance, first) <= RATE * (sinceFirst - gap)
        BY <2>1 DEF ChainInv
      <3>4. ~(Apart(d, last.distance) > RATE * gap)
        BY <2>1, <3>2, RateIsTrue
      <3>5. /\ RATE * gap \in Nat /\ RATE * (sinceFirst - gap) \in Nat
            /\ RATE * gap + RATE * (sinceFirst - gap) = RATE * sinceFirst
        BY <3>1, <3>2, Products
      <3>6. /\ Apart(d, first) <= Apart(d, last.distance) + Apart(last.distance, first)
            /\ Apart(d, first) \in Nat /\ Apart(d, last.distance) \in Nat
            /\ Apart(last.distance, first) \in Nat
        BY <3>1, ApartFacts
      <3>7. Apart(d, first) <= RATE * sinceFirst
        BY <3>3, <3>4, <3>5, <3>6
      <3> QED BY <3>1, <3>7
    <2>2. CASE ~has_fix
      <3>1. first' = d /\ last'.distance = d /\ sinceFirst' = 0 /\ gap' = 0
        BY <2>2
      <3>2. Apart(d, d) = 0
        BY ApartFacts
      <3> QED BY <3>1, <3>2 DEF ChainInv
    <2> QED BY <2>1, <2>2
  <1>4. WalkInv'
    <2> SUFFICES ASSUME honest' PROVE Apart(pos', last'.distance) <= RATE * gap'
      BY DEF WalkInv
    <2>1. pos' = d /\ last'.distance = d /\ gap' = 0
      OBVIOUS
    <2>2. Apart(d, d) = 0
      BY ApartFacts
    <2> QED BY <2>1, <2>2
  <1>5. ~Implausible(d, tofOk)
    BY ImplausibleRejected
  <1>6. LatchInv' /\ SuspicionHeard'
    BY DEF LatchInv, SuspicionHeard, Edge
  <1>7. WalkingKeyTrusted' /\ SuspicionLatched'
    <2>1. beyond => beyond'
      BY DEF UwbTypeOK
    <2> QED BY <1>5, <2>1 DEF WalkingKeyTrusted, SuspicionLatched
  <1> QED BY <1>1, <1>2, <1>3, <1>4, <1>6, <1>7

(***************************************************************************)
(* UwbInv is an inductive invariant.                                       *)
(***************************************************************************)
THEOREM Invariance == UwbSpec => []UwbInv
  <1>1. UwbInv /\ [UwbNext]_uwbVars => UwbInv'
    <2> SUFFICES ASSUME UwbInv, [UwbNext]_uwbVars PROVE UwbInv'
      OBVIOUS
    <2>1. ASSUME NEW d \in Distance, NEW tofOk \in BOOLEAN, Round(d, tofOk)
          PROVE  UwbInv'
      <3>1. \/ (~tofOk \/ RateExceeded(d)) /\ Reject
            \/ tofOk /\ ~RateExceeded(d) /\ Trust(d)
        BY <2>1 DEF Round, push_measurement
      <3> QED BY <2>1, <3>1, RejectInv, TrustInv
    <2>2. CASE ResetSession
      BY <2>2, ResetInv
    <2>3. CASE UnitPasses
      BY <2>3, UnitInv
    <2>4. CASE UNCHANGED uwbVars
      BY <2>4 DEF uwbVars, manager, task, walk, UwbInv, UwbTypeOK, GapInv, ChainInv, WalkInv,
                  LatchInv, WalkingKeyTrusted, SuspicionLatched, SuspicionHeard, Elapsed
    <2> QED BY <2>1, <2>2, <2>3, <2>4 DEF UwbNext
  <1> QED BY <1>1, InitInv, PTL DEF UwbSpec

(***************************************************************************)
(* Every member of UwbManager and of uwb_task keeps its type.              *)
(***************************************************************************)
THEOREM UwbTypeCorrect == UwbSpec => []UwbTypeOK
  <1>1. UwbInv => UwbTypeOK
    BY DEF UwbInv
  <1> QED BY <1>1, Invariance, PTL

(***************************************************************************)
(* push_measurement() suspects a walking key only if it was ranged beyond  *)
(* the reach of the ToF cap, whichever rounds are missed, while less than  *)
(* a period of millis() lies between its samples.                          *)
(***************************************************************************)
THEOREM HonestKeyTrusted == UwbSpec => []WalkingKeyTrusted
  <1>1. UwbInv => WalkingKeyTrusted
    BY DEF UwbInv
  <1> QED BY <1>1, Invariance, PTL

(***************************************************************************)
(* A zone other than FAR was reached at walking speed from the first fix.  *)
(***************************************************************************)
THEOREM ZoneReachedOnFoot == UwbSpec => []ReachedOnFoot
  <1>1. UwbInv => ReachedOnFoot
    <2> SUFFICES ASSUME UwbInv, zone # "FAR"
                 PROVE  has_fix /\ Apart(last.distance, first) <= RATE * sinceFirst
      BY DEF ReachedOnFoot
    <2>1. has_fix
      BY DEF UwbInv, LatchInv
    <2>2. /\ gap \in Nat /\ sinceFirst \in 0 .. U32
          /\ last.distance \in Distance /\ first \in Distance
      BY DEF UwbInv, UwbTypeOK
    <2>3. CASE sinceFirst = U32
      BY <2>1, <2>2, <2>3, ApartBounded
    <2>4. CASE sinceFirst < U32
      <3>1. gap <= sinceFirst /\ Apart(last.distance, first) <= RATE * (sinceFirst - gap)
        BY <2>1, <2>4 DEF UwbInv, GapInv, ChainInv
      <3>2. /\ RATE * gap \in Nat /\ RATE * (sinceFirst - gap) \in Nat
            /\ RATE * gap + RATE * (sinceFirst - gap) = RATE * sinceFirst
        BY <2>2, <3>1, Products
      <3>3. Apart(last.distance, first) \in Nat
        <4>1. last.distance \in Nat /\ first \in Nat
          BY <2>2
        <4> QED BY <4>1, ApartFacts
      <3> QED BY <2>1, <3>1, <3>2, <3>3
    <2> QED BY <2>2, <2>3, <2>4
  <1> QED BY <1>1, Invariance, PTL

(***************************************************************************)
(* A suspicion lasts until the session is reset.                           *)
(***************************************************************************)
THEOREM SuspicionLasts == UwbSpec => []SuspicionLatched
  <1>1. UwbInv => SuspicionLatched
    BY DEF UwbInv
  <1> QED BY <1>1, Invariance, PTL

(***************************************************************************)
(* While a relay is suspected, UWB_NEAR is not the last event posted.      *)
(***************************************************************************)
THEOREM SuspicionReported == UwbSpec => []SuspicionHeard
  <1>1. UwbInv => SuspicionHeard
    BY DEF UwbInv
  <1> QED BY <1>1, Invariance, PTL
=============================================================================

----------------------------- MODULE UwbManager -----------------------------
(***************************************************************************)
(* firmware/src/uwb_manager.cpp with its caller uwb_task of main.cpp: the  *)
(* plausibility of consecutive ranging samples, the relay latch, the zone, *)
(* and the events uwb_task posts at the zone's edges.                      *)
(*                                                                         *)
(* One unit of the clock is UWB_RANGING_INTERVAL_MS, one of distance a     *)
(* stretch of it; RATE is UWB_MAX_DELTA_CM_PER_S in these units.  A sample *)
(* is a distance and whether its time of flight is within UWB_MAX_TOF_NS,  *)
(* as that of a key up to TOF_RANGE away is.                               *)
(*                                                                         *)
(* uwb_task makes one sample per interval; the driver it stands for may    *)
(* have none, as when no key is in reach.                                  *)
(***************************************************************************)
EXTENDS Millis

CONSTANTS UWB_NEAR_CM, UWB_MEDIUM_CM, RATE, TOF_RANGE, MaxDistance

ASSUME UwbAssumption ==
    /\ UWB_NEAR_CM \in Nat /\ UWB_MEDIUM_CM \in Nat /\ MaxDistance \in Nat
    /\ RATE \in Nat \ {0} /\ TOF_RANGE \in Nat
    /\ UWB_NEAR_CM <= UWB_MEDIUM_CM /\ UWB_MEDIUM_CM <= MaxDistance
    /\ RATE * U32 >= MaxDistance

VARIABLES
    last, zone, has_fix, relay_suspected,
    prev,           \* uwb_task's local: the zone of the latest round
    rested,         \* its vTaskDelay() is over
    (* The key. *)
    pos,            \* its true distance
    (* History. *)
    heard,          \* the latest event posted
    first,          \* the distance of the session's first trusted sample
    sinceFirst,     \* true time since then, up to a whole period
    gap,            \* true time since the latest trusted sample, likewise
    honest,         \* every sample so far was true, none after a whole period
    beyond,         \* a sample of this session was made beyond TOF_RANGE
    implausible     \* a sample of this session was implausible

manager == <<last, zone, has_fix, relay_suspected>>
task == <<prev, rested, heard>>
walk == <<pos, first, sinceFirst, gap, honest, beyond, implausible>>
uwbVars == <<now, manager, task, walk>>

Distance == 0 .. MaxDistance
UwbZone == {"NEAR", "MEDIUM", "FAR"}

Apart(d, e) == IF d >= e THEN d - e ELSE e - d

UwbInit ==
    /\ now = 0
    /\ last = [distance |-> 0, timestamp_ms |-> 0]
    /\ zone = "FAR" /\ has_fix = FALSE /\ relay_suspected = FALSE
    /\ prev = "FAR" /\ rested = TRUE /\ heard = "NONE"
    /\ pos \in Distance
    /\ first = 0 /\ sinceFirst = 0 /\ gap = 0
    /\ honest = TRUE /\ beyond = FALSE /\ implausible = FALSE

classify(d) ==
    IF d < UWB_NEAR_CM THEN "NEAR" ELSE IF d < UWB_MEDIUM_CM THEN "MEDIUM" ELSE "FAR"

(***************************************************************************)
(* push_measurement(): the two checks, the second against the last trusted *)
(* sample and only if time has passed since.                               *)
(***************************************************************************)
Elapsed == Minus(now, last.timestamp_ms)

\* Mutant: the bound of one round, however many were missed.
RateOfOneRound(d) == has_fix /\ Elapsed > 0 /\ Apart(d, last.distance) > RATE

\* Mutant: no fabs(), an approach is never too fast.
RateOneWay(d) == has_fix /\ Elapsed > 0 /\ d - last.distance > RATE * Elapsed

RateExceeded(d) ==
    has_fix /\ Elapsed > 0 /\ Apart(d, last.distance) > RATE * Elapsed

\* Mutant: the zone stays.
RejectKeepsZone ==
    /\ relay_suspected' = TRUE
    /\ UNCHANGED <<last, zone, has_fix, first, sinceFirst, gap>>

Reject ==
    /\ relay_suspected' = TRUE
    /\ zone' = "FAR"
    /\ UNCHANGED <<last, has_fix, first, sinceFirst, gap>>

\* Mutant: a sample that passes the checks clears the suspicion.
TrustForgives(d) ==
    /\ last' = [distance |-> d, timestamp_ms |-> now]
    /\ has_fix' = TRUE
    /\ zone' = classify(d)
    /\ gap' = 0
    /\ IF has_fix THEN UNCHANGED <<first, sinceFirst>> ELSE first' = d /\ sinceFirst' = 0
    /\ relay_suspected' = FALSE

Trust(d) ==
    /\ last' = [distance |-> d, timestamp_ms |-> now]
    /\ has_fix' = TRUE
    /\ zone' = IF relay_suspected THEN "FAR" ELSE classify(d)
    /\ gap' = 0
    /\ IF has_fix THEN UNCHANGED <<first, sinceFirst>> ELSE first' = d /\ sinceFirst' = 0
    /\ UNCHANGED relay_suspected

push_measurement(d, tofOk) ==
    \/ (~tofOk \/ RateExceeded(d)) /\ Reject
    \/ tofOk /\ ~RateExceeded(d) /\ Trust(d)

reset_session ==
    /\ has_fix' = FALSE /\ zone' = "FAR" /\ relay_suspected' = FALSE
    /\ UNCHANGED last

(***************************************************************************)
(* uwb_task's round: a sample stamped with millis(), then the edge.        *)
(***************************************************************************)
Edge ==
    /\ heard' = IF zone' # prev /\ zone' # "MEDIUM" THEN zone' ELSE heard
    /\ prev' = zone'

\* What config.h's two bounds exclude over the true time, the yardstick for the
\* checks: a time of flight above the cap, or "human cannot move faster".
Implausible(d, tofOk) ==
    ~tofOk \/ (has_fix /\ Apart(d, last.distance) > RATE * gap)

Round(d, tofOk) ==
    /\ rested /\ rested' = FALSE
    /\ push_measurement(d, tofOk)
    /\ Edge
    /\ implausible' = (implausible \/ Implausible(d, tofOk))
    /\ beyond' = (beyond \/ pos > TOF_RANGE)
    /\ honest' = (honest /\ d = pos /\ tofOk = (pos <= TOF_RANGE)
                     /\ (has_fix => gap < U32))
    /\ UNCHANGED <<now, pos>>

\* Called by nothing in the firmware; the simulator's demos call its twin
\* between two sessions.
ResetSession ==
    /\ reset_session
    /\ beyond' = FALSE /\ implausible' = FALSE
    /\ UNCHANGED <<now, task, pos, first, sinceFirst, gap, honest>>

\* The key walks: config.h, "human cannot move faster".
UnitPasses ==
    /\ rested' = TRUE
    /\ MillisPasses
    /\ pos' \in {p \in Distance : Apart(p, pos) <= RATE}
    /\ sinceFirst' = CountUp(sinceFirst, U32)
    /\ gap' = CountUp(gap, U32)
    /\ UNCHANGED <<manager, prev, heard, first, honest, beyond, implausible>>

UwbNext ==
    \/ \E d \in Distance, tofOk \in BOOLEAN : Round(d, tofOk)
    \/ ResetSession
    \/ UnitPasses

UwbSpec == UwbInit /\ [][UwbNext]_uwbVars
-----------------------------------------------------------------------------
UwbTypeOK ==
    /\ now \in Millis
    /\ last \in [distance : Distance, timestamp_ms : Millis]
    /\ zone \in UwbZone /\ prev \in UwbZone
    /\ has_fix \in BOOLEAN /\ relay_suspected \in BOOLEAN /\ rested \in BOOLEAN
    /\ heard \in {"NONE", "NEAR", "FAR"}
    /\ pos \in Distance /\ first \in Distance
    /\ sinceFirst \in 0 .. U32 /\ gap \in 0 .. U32
    /\ honest \in BOOLEAN /\ beyond \in BOOLEAN /\ implausible \in BOOLEAN

(***************************************************************************)
(* A key that walks within the speed bound is suspected in a session only  *)
(* if it was ranged beyond the reach of the ToF cap, whichever rounds are  *)
(* missed and wherever the clock wraps around, as long as less than a      *)
(* whole period of millis() lies between two of its samples.  After a      *)
(* whole one the unsigned difference of push_measurement() is too short.   *)
(***************************************************************************)
WalkingKeyTrusted == honest /\ relay_suspected => beyond

(***************************************************************************)
(* The zone NEAR or MEDIUM rests on an unbroken chain of samples that a    *)
(* walking key could have made since the session's first fix, over the     *)
(* true time: no step of push_measurement() lets the trusted distance      *)
(* drift faster, a whole period of the clock included.                     *)
(***************************************************************************)
ReachedOnFoot ==
    zone # "FAR" => has_fix /\ Apart(last.distance, first) <= RATE * sinceFirst

(***************************************************************************)
(* uwb_manager.cpp, "latched for the session": an implausible sample       *)
(* leaves the zone FAR until the session is reset, whatever plausible ones *)
(* follow.                                                                 *)
(***************************************************************************)
SuspicionLatched == implausible => relay_suspected /\ zone = "FAR"

(***************************************************************************)
(* uwb_task reports it: while a relay is suspected the last event posted   *)
(* is not UWB_NEAR, though the task posts at the zone's edges only and     *)
(* MEDIUM has no event.                                                    *)
(***************************************************************************)
SuspicionHeard == relay_suspected => heard # "NEAR"
=============================================================================

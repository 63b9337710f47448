-------------------------- MODULE AccessController --------------------------
(***************************************************************************)
(* firmware/src/access_controller.cpp: the access state machine.  The      *)
(* controller task is its only caller; it feeds it the events of the queue *)
(* through handle_event() and the time through tick().                     *)
(*                                                                         *)
(* AUTHENTICATED is entered and left inside one call of handle_event(), so *)
(* it is a state of the type and never a state between calls.              *)
(***************************************************************************)
EXTENDS Millis

CONSTANTS STATE_TIMEOUT_MS, FAIL_PENALTY_MS, MAX_CONSECUTIVE_FAILS, LOCKOUT_MS

ASSUME AccessAssumption ==
    /\ STATE_TIMEOUT_MS \in Nat \ {0}
    /\ FAIL_PENALTY_MS \in Nat \ {0}
    /\ MAX_CONSECUTIVE_FAILS \in 1 .. 255       \* fail_count_ is a uint8_t
    /\ LOCKOUT_MS \in Nat
    /\ FAIL_PENALTY_MS <= LOCKOUT_MS
    /\ LOCKOUT_MS < U32
    /\ STATE_TIMEOUT_MS + 3 < U32

VARIABLES
    state, state_entered_ms, penalty_until_ms, lockout_until_ms, fail_count,
    action,         \* the Action returned by the latest call
    (* History, in true durations that no wrap-around of millis() affects. *)
    age,            \* time spent in the current timed state, up to AgeCap
    penaltyLeft,    \* what remains of the FAIL_PENALTY of the latest failure
    proven          \* the factors proven, in order, since the latest hard lock

members == <<state, state_entered_ms, penalty_until_ms, lockout_until_ms,
             fail_count, action>>
history == <<age, penaltyLeft, proven>>
acVars == <<now, members, history>>

AccessState == {"IDLE", "BLE_CONNECTED", "NFC_VERIFIED", "UWB_NEAR",
                "AUTHENTICATED", "UNLOCKED", "LOCKED", "LOCKOUT"}
Transient == {"BLE_CONNECTED", "NFC_VERIFIED", "UWB_NEAR", "AUTHENTICATED"}

HardLocks == {"USER_LOCK", "BLE_DISCONNECT"}
Failures == {"NFC_FAIL", "AUTH_FAIL"}
Factors == {"BLE_CONNECT", "NFC_OK", "UWB_NEAR", "AUTH_OK"}
AccessEvent == HardLocks \cup Failures \cup Factors \cup {"UWB_FAR"}

Action == {"NONE", "LED_AUTHENTICATING", "LED_LOCKED", "LED_UNLOCKED",
           "PULSE_UNLOCK", "DRIVE_LOCK", "LOG_LOCKOUT"}

\* The states tick() measures, and as far as their age is told apart.
Timed == Transient \cup {"LOCKOUT"}
AgeCap == STATE_TIMEOUT_MS + LOCKOUT_MS + 3

ACInit ==
    /\ now = 0
    /\ state = "IDLE"
    /\ state_entered_ms = 0
    /\ penalty_until_ms = 0
    /\ lockout_until_ms = 0
    /\ fail_count = 0
    /\ action = "NONE"
    /\ age = 0 /\ penaltyLeft = 0 /\ proven = {}

enter(s) ==
    /\ state' = s
    /\ state_entered_ms' = now
    /\ age' = 0

register_failure ==
    /\ fail_count' = fail_count + 1
    /\ penaltyLeft' = FAIL_PENALTY_MS
    /\ \/ /\ fail_count + 1 >= MAX_CONSECUTIVE_FAILS
          /\ lockout_until_ms' = Plus(now, LOCKOUT_MS)
          /\ enter("LOCKOUT")
          /\ action' = "LOG_LOCKOUT"
          /\ UNCHANGED penalty_until_ms
       \/ /\ fail_count + 1 < MAX_CONSECUTIVE_FAILS
          /\ penalty_until_ms' = Plus(now, FAIL_PENALTY_MS)
          /\ enter("IDLE")
          /\ action' = "LED_LOCKED"
          /\ UNCHANGED lockout_until_ms

(***************************************************************************)
(* handle_event(): the events each state has a case for, the early returns *)
(* before the switch (in their order), and what an accepted event does.    *)
(***************************************************************************)
\* Mutant: proximity, once proven, is not taken back before the unlock.
ExpectedNoRetreat(s) ==
    CASE s \in {"IDLE", "LOCKED"} -> {"BLE_CONNECT"}
      [] s = "BLE_CONNECTED"      -> {"NFC_OK", "NFC_FAIL"}
      [] s = "NFC_VERIFIED"       -> {"UWB_NEAR", "UWB_FAR"}
      [] s = "UWB_NEAR"           -> {"AUTH_OK", "AUTH_FAIL"}
      [] s = "UNLOCKED"           -> {"UWB_FAR"}
      [] OTHER                    -> {}

Expected(s) ==
    CASE s \in {"IDLE", "LOCKED"} -> {"BLE_CONNECT"}
      [] s = "BLE_CONNECTED"      -> {"NFC_OK", "NFC_FAIL"}
      [] s = "NFC_VERIFIED"       -> {"UWB_NEAR", "UWB_FAR"}
      [] s = "UWB_NEAR"           -> {"AUTH_OK", "AUTH_FAIL", "UWB_FAR"}
      [] s = "UNLOCKED"           -> {"UWB_FAR"}
      [] OTHER                    -> {}

InPenalty == now < penalty_until_ms     \* both uint32_t, compared as they are

\* Mutant: a hard lock out of a penalty ends it.
AcceptsFromLocked(ev) ==
    /\ state # "LOCKOUT"
    /\ \/ ev \in HardLocks
       \/ (state = "IDLE" => ~InPenalty) /\ ev \in Expected(state)

\* Mutant: a hard lock is honoured in LOCKOUT too.
AcceptsInLockout(ev) ==
    \/ ev \in HardLocks
    \/ state # "LOCKOUT" /\ ~InPenalty /\ ev \in Expected(state)

Accepts(ev) ==
    /\ state # "LOCKOUT"
    /\ \/ ev \in HardLocks
       \/ ~InPenalty /\ ev \in Expected(state)

timers == <<penalty_until_ms, lockout_until_ms, penaltyLeft>>

\* Mutant: a reconnection starts a new streak.
HardLockForgives(ev) ==
    /\ ev \in HardLocks
    /\ enter("LOCKED") /\ action' = "DRIVE_LOCK"
    /\ fail_count' = 0
    /\ UNCHANGED timers

HardLock(ev) ==
    /\ ev \in HardLocks
    /\ enter("LOCKED") /\ action' = "DRIVE_LOCK"
    /\ UNCHANGED <<fail_count, timers>>

Progress(ev) ==
    /\ \/ ev = "BLE_CONNECT" /\ enter("BLE_CONNECTED")
       \/ ev = "NFC_OK" /\ enter("NFC_VERIFIED")
       \/ ev = "UWB_NEAR" /\ enter("UWB_NEAR")
    /\ action' = "LED_AUTHENTICATING"
    /\ UNCHANGED <<fail_count, timers>>

Unlock(ev) ==
    /\ ev = "AUTH_OK"
    /\ fail_count' = 0
    /\ enter("UNLOCKED") /\ action' = "PULSE_UNLOCK"
    /\ UNCHANGED timers

\* Mutant: a departure in UNLOCKED is treated as one before the unlock.
DepartToIdle(ev) ==
    /\ ev = "UWB_FAR"
    /\ enter("IDLE") /\ action' = "LED_LOCKED"
    /\ UNCHANGED <<fail_count, timers>>

Depart(ev) ==
    /\ ev = "UWB_FAR"
    /\ \/ state = "UNLOCKED" /\ enter("LOCKED") /\ action' = "DRIVE_LOCK"
       \/ state # "UNLOCKED" /\ enter("IDLE") /\ action' = "LED_LOCKED"
    /\ UNCHANGED <<fail_count, timers>>

Fail(ev) == ev \in Failures /\ register_failure

Ignored ==
    /\ action' = "NONE"
    /\ UNCHANGED <<state, state_entered_ms, age, fail_count, timers>>

\* History: a factor counts once the ones before it have been proven; a
\* departure takes the proximity (and what followed it) back, a hard lock all.
Before(ev) ==
    CASE ev = "BLE_CONNECT" -> {}
      [] ev = "NFC_OK"      -> {"BLE_CONNECT"}
      [] ev = "UWB_NEAR"    -> {"BLE_CONNECT", "NFC_OK"}
      [] OTHER              -> {"BLE_CONNECT", "NFC_OK", "UWB_NEAR"}

Proven(ev) ==
    CASE ev \in HardLocks -> {}
      [] ev = "UWB_FAR"   -> proven \cap {"BLE_CONNECT", "NFC_OK"}
      [] ev \in Factors /\ Before(ev) \subseteq proven -> proven \cup {ev}
      [] OTHER            -> proven

handle_event(ev) ==
    /\ \/ /\ Accepts(ev)
          /\ HardLock(ev) \/ Progress(ev) \/ Unlock(ev) \/ Depart(ev) \/ Fail(ev)
       \/ ~Accepts(ev) /\ Ignored
    /\ proven' = Proven(ev)

(***************************************************************************)
(* tick(): the lockout's end and the timeout of the transient states.      *)
(***************************************************************************)
\* Mutant: the deadline itself does not count as over.
LockoutOverStrict == state = "LOCKOUT" /\ now > lockout_until_ms

LockoutOver == state = "LOCKOUT" /\ now >= lockout_until_ms

\* Mutants: the deadline as an absolute time; UWB_NEAR without a timeout.
TimedOutAbsolute ==
    /\ state \in Transient
    /\ now > Plus(state_entered_ms, STATE_TIMEOUT_MS)

TimedOutNotNear ==
    /\ state \in Transient \ {"UWB_NEAR"}
    /\ Minus(now, state_entered_ms) > STATE_TIMEOUT_MS

TimedOut ==
    /\ state \in Transient
    /\ Minus(now, state_entered_ms) > STATE_TIMEOUT_MS

\* Mutant: the end of the lockout keeps the count.
TickKeepsCount ==
    /\ LockoutOver \/ TimedOut
    /\ enter("IDLE")
    /\ action' = "LED_LOCKED"
    /\ UNCHANGED <<fail_count, timers, proven>>

tick ==
    /\ \/ LockoutOver /\ fail_count' = 0
       \/ TimedOut /\ UNCHANGED fail_count
    /\ enter("IDLE")
    /\ action' = "LED_LOCKED"
    /\ UNCHANGED <<timers, proven>>

\* The call of tick() that finds no timer due.
tickNone == ~LockoutOver /\ ~TimedOut /\ Ignored /\ UNCHANGED proven

\* reset(): called at boot; keeps the failure count and the deadlines.
reset ==
    /\ enter("IDLE")
    /\ UNCHANGED <<fail_count, timers, action, proven>>

(***************************************************************************)
(* An ideal caller: events in any order, and tick() at least once per unit *)
(* of time, so that no unit passes while a timer is due.  The real one,    *)
(* ControllerTask, may be late by a unit, and so miss the few units left   *)
(* to a deadline just below the wrap-around; the end of a lockout is       *)
(* therefore a property of the loop.                                       *)
(***************************************************************************)
HandleEvent(ev) == handle_event(ev) /\ UNCHANGED now

Tick == tick /\ UNCHANGED now

Aging ==
    /\ MillisPasses
    /\ age' = IF state \in Timed THEN CountUp(age, AgeCap) ELSE age
    /\ penaltyLeft' = CountDown(penaltyLeft)
    /\ UNCHANGED <<members, proven>>

TimePasses == ~LockoutOver /\ ~TimedOut /\ Aging

ACNext == (\E ev \in AccessEvent : HandleEvent(ev)) \/ Tick \/ TimePasses

ACSpec == ACInit /\ [][ACNext]_acVars

\* The uptime in which no deadline the code computes wraps around.
FirstEpoch == now + LOCKOUT_MS < U32
ACSpecFirstEpoch == ACInit /\ [][ACNext /\ FirstEpoch']_acVars
-----------------------------------------------------------------------------
ACTypeOK ==
    /\ now \in Millis
    /\ state \in AccessState \ {"AUTHENTICATED"}
    /\ state_entered_ms \in Millis
    /\ penalty_until_ms \in Millis
    /\ lockout_until_ms \in Millis
    /\ fail_count \in 0 .. MAX_CONSECUTIVE_FAILS
    /\ action \in Action
    /\ age \in 0 .. AgeCap
    /\ penaltyLeft \in 0 .. FAIL_PENALTY_MS
    /\ proven \subseteq Factors

(***************************************************************************)
(* LOCKOUT is exactly the state of an exhausted failure count: no path     *)
(* (hard lock, success, timeout) reaches another state with the count at   *)
(* its limit, where one more failure would pass it, and none leaves the    *)
(* lockout without clearing it.                                            *)
(***************************************************************************)
LockoutIffExhausted == (state = "LOCKOUT") <=> (fail_count = MAX_CONSECUTIVE_FAILS)

(***************************************************************************)
(* The timeout of a state of an unfinished authentication is exact across  *)
(* a wrap-around of millis(): the machine never stays past the timeout...  *)
(***************************************************************************)
TimeoutPrompt == state \in Transient => age <= STATE_TIMEOUT_MS + 1

(***************************************************************************)
(* ... and tick() never cuts a state short.                                *)
(***************************************************************************)
TimeoutNotEarly ==
    [][Tick /\ state \in Transient => age > STATE_TIMEOUT_MS]_acVars

(***************************************************************************)
(* In the first epoch the penalty of the latest failure is served in full, *)
(* whatever hard locks, reconnections and lockouts happen meanwhile: the   *)
(* machine makes no progress before it is over.                            *)
(***************************************************************************)
PenaltyServed == penaltyLeft > 0 => state \in {"IDLE", "LOCKED", "LOCKOUT"}

(***************************************************************************)
(* In the first epoch every state of the flow rests on the factors proven, *)
(* in order, since the latest hard lock; a door that is unlocked, or one   *)
(* step before it, belongs to a key that has not reported FAR since.       *)
(***************************************************************************)
SessionProven ==
    /\ state = "BLE_CONNECTED" => {"BLE_CONNECT"} \subseteq proven
    /\ state = "NFC_VERIFIED" => Before("UWB_NEAR") \subseteq proven
    /\ state = "UWB_NEAR" => Before("AUTH_OK") \subseteq proven
    /\ state = "UNLOCKED" => Factors \subseteq proven

(***************************************************************************)
(* tests/test_state_machine.cpp, UwbFarLocksWhenUnlocked: the key's        *)
(* departure locks an unlocked door.  True in the first epoch only.        *)
(***************************************************************************)
DepartureLocks ==
    [][HandleEvent("UWB_FAR") /\ state = "UNLOCKED" => state' = "LOCKED"]_acVars

(***************************************************************************)
(* config.h, LOCKOUT_MS "60s lockout": nothing (no hard lock, reconnection *)
(* or late answer) ends a lockout before its time, unless its deadline     *)
(* itself wrapped around: that one may be over at the first tick().        *)
(***************************************************************************)
LockoutLasts ==
    [][state = "LOCKOUT" /\ state' # "LOCKOUT" /\ lockout_until_ms >= LOCKOUT_MS
         => age >= LOCKOUT_MS]_acVars

(***************************************************************************)
(* In the first epoch the lockout is over when its time is.                *)
(***************************************************************************)
LockoutPrompt == state = "LOCKOUT" => age <= LOCKOUT_MS

(***************************************************************************)
(* An unfinished authentication is over (unlocked, locked, or back to      *)
(* IDLE) in the end, also in a loop whose ticks are late and when the      *)
(* clock wraps around: the unsigned difference stays above the bound       *)
(* until such a tick sees it.                                              *)
(***************************************************************************)
AuthenticationEnds == (state \in Transient) ~> (state \notin Transient)

(***************************************************************************)
(* In the first epoch the machine, deadlines and timeouts included, is the *)
(* untimed flow the other tasks rely on.                                   *)
(***************************************************************************)
Abstract == INSTANCE AccessFlow
              WITH fails <- fail_count, penalised <- InPenalty,
                   MaxFails <- MAX_CONSECUTIVE_FAILS, Wraps <- FALSE

ImplementsFlow == Abstract!FlowSpec

(***************************************************************************)
(* Over all uptimes it is that flow with penalties that may be over at     *)
(* once, and may return: nothing else of it depends on the epoch.          *)
(***************************************************************************)
Uptime == INSTANCE AccessFlow
            WITH fails <- fail_count, penalised <- InPenalty,
                 MaxFails <- MAX_CONSECUTIVE_FAILS, Wraps <- TRUE

ImplementsFlowOverWraps == Uptime!FlowSpec
=============================================================================

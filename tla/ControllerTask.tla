--------------------------- MODULE ControllerTask ---------------------------
(***************************************************************************)
(* firmware/src/main.cpp, controller_task() and apply(): the loop that is  *)
(* the only owner of the access state machine and of the actuators.  Each  *)
(* step reads millis() anew, so time may pass between any two of them; the *)
(* task has the highest priority of its core and its loop blocks 20 ms at  *)
(* most, so at most one unit passes per iteration.                         *)
(*                                                                         *)
(* The events are those other tasks may have queued, at any time: all but  *)
(* USER_LOCK, which nothing in main.cpp posts.                             *)
(***************************************************************************)
EXTENDS AccessController, GpioActuator

VARIABLES
    pc,         \* the step the task is at
    passed      \* a unit of time has passed in this iteration

ctVars == <<acVars, gpioVars, pc, passed>>
objects == <<members, history, gpioVars>>

Steps == {"boot", "receive", "apply", "tick", "applyTick", "service"}

Posted == AccessEvent \ {"USER_LOCK"}

CTInit == ACInit /\ GpioInit /\ pc = "boot" /\ passed = FALSE

Boot ==
    /\ pc = "boot" /\ pc' = "receive"
    /\ begin
    /\ reset
    /\ UNCHANGED <<now, passed>>

(***************************************************************************)
(* xQueueReceive() returns an event, or gives up after 20 ms.              *)
(***************************************************************************)
Receive(ev) ==
    /\ pc = "receive" /\ pc' = "apply"
    /\ handle_event(ev)
    /\ UNCHANGED <<now, passed, gpioVars>>

ReceiveNone ==
    /\ pc = "receive" /\ pc' = "tick"
    /\ UNCHANGED <<now, passed, objects>>

Colour(a) ==
    CASE a = "LED_AUTHENTICATING" -> "BLUE"
      [] a = "LED_UNLOCKED"       -> "GREEN"
      [] OTHER                    -> "RED"     \* LED_LOCKED, LOG_LOCKOUT

ShowsLed == {"LED_AUTHENTICATING", "LED_LOCKED", "LED_UNLOCKED", "LOG_LOCKOUT"}

apply(a) ==
    \/ a \in ShowsLed /\ set_led(Colour(a))
    \/ a = "PULSE_UNLOCK" /\ begin_unlock_pulse
    \/ a = "DRIVE_LOCK" /\ lock
    \/ a = "NONE" /\ UNCHANGED gpioVars

\* Mutant: an iteration that got an event goes on without the tick.
ApplyContinue ==
    /\ \/ pc = "apply" /\ pc' = "service"
       \/ pc = "applyTick" /\ pc' = "service"
    /\ apply(action)
    /\ UNCHANGED <<now, passed, members, history>>

Apply ==
    /\ \/ pc = "apply" /\ pc' = "tick"
       \/ pc = "applyTick" /\ pc' = "service"
    /\ apply(action)
    /\ UNCHANGED <<now, passed, members, history>>

TickTimers ==
    /\ pc = "tick" /\ pc' = "applyTick"
    /\ tick \/ tickNone
    /\ UNCHANGED <<now, passed, gpioVars>>

Service ==
    /\ pc = "service" /\ pc' = "receive"
    /\ service
    /\ passed' = FALSE
    /\ UNCHANGED <<now, members, history>>

UnitPasses ==
    /\ pc # "boot" /\ ~passed /\ passed' = TRUE
    /\ Aging /\ GpioAging
    /\ UNCHANGED pc

CTNext ==
    \/ Boot
    \/ \E ev \in Posted : Receive(ev)
    \/ ReceiveNone
    \/ Apply
    \/ TickTimers
    \/ Service
    \/ UnitPasses

CTSpec == CTInit /\ [][CTNext]_ctVars

\* The task is scheduled, its loop blocks nowhere for good, and time goes on.
\* No event has to come.
Loop == Boot \/ (\E ev \in Posted : Receive(ev)) \/ ReceiveNone \/ Apply
            \/ TickTimers \/ Service

CTFairness == WF_ctVars(Loop) /\ WF_ctVars(UnitPasses)

CTFairSpec == CTSpec /\ CTFairness

\* The uptime in which no deadline wraps around.
CTFirstEpoch == FirstEpoch /\ now + UNLOCK_PULSE_MS < U32
CTSpecFirstEpoch == CTInit /\ [][CTNext /\ CTFirstEpoch']_ctVars
-----------------------------------------------------------------------------
CTTypeOK ==
    /\ ACTypeOK
    /\ GpioTypeOK
    /\ pc \in Steps
    /\ passed \in BOOLEAN

\* No call of apply() is outstanding.
Applied == pc \in {"receive", "tick", "service"}

(***************************************************************************)
(* The door, the relay and the LED follow the state machine whenever the   *)
(* task waits for an event, ticks or services the pulse: the servo stands  *)
(* open exactly in UNLOCKED, the relay is driven only then (a lock in the  *)
(* middle of a pulse ends it), and the LED is red in IDLE, LOCKED and      *)
(* LOCKOUT, blue while authenticating, green when unlocked.  No action is  *)
(* lost between the two calls of apply(), and no state is entered without  *)
(* the action that moves the pins.                                         *)
(***************************************************************************)
ActuatorsFollowState ==
    Applied =>
        /\ servo = "UNLOCK" <=> state = "UNLOCKED"
        /\ relay_active => state = "UNLOCKED"
        /\ led = IF state \in Transient THEN "BLUE"
                 ELSE IF state = "UNLOCKED" THEN "GREEN" ELSE "RED"

(***************************************************************************)
(* The loop's timers are late by its own period at most, also when an      *)
(* event is handled first and when millis() wraps around.                  *)
(***************************************************************************)
LoopTimeoutPrompt == state \in Transient => age <= STATE_TIMEOUT_MS + 2

(***************************************************************************)
(* config.h, LOCKOUT_MS "60s lockout": the loop is late with the end of a  *)
(* lockout by its own period at most, over all uptimes and also when it    *)
(* handles and refuses an event first, if two units of the clock are left  *)
(* to its deadline.  Two calls of tick() are two units apart at most: of a *)
(* deadline in the last unit before the wrap-around the loop may see none, *)
(* and the lockout then lasts for another period of millis().              *)
(***************************************************************************)
LoopLockoutPrompt ==
    state = "LOCKOUT" /\ lockout_until_ms + 1 < U32 => age <= LOCKOUT_MS + 1

(***************************************************************************)
(* config.h, UNLOCK_PULSE_MS "relay HIGH duration": the loop releases the  *)
(* relay after that time, counted in its own periods, over all uptimes but *)
(* for two deadlines: one in the last unit before the wrap-around, which   *)
(* the loop may miss, and 0, which stands for no pulse.                    *)
(***************************************************************************)
PulseBounded ==
    relay_active /\ pulse_until_ms # 0 /\ pulse_until_ms + 1 < U32
        => pulseAge <= UNLOCK_PULSE_MS

(***************************************************************************)
(* Only a lock cuts an unlock pulse short, unless its deadline wrapped     *)
(* around: that pulse may be over at the first service().                  *)
(***************************************************************************)
PulseNotCut ==
    [][relay_active /\ ~relay_active' /\ pulse_until_ms >= UNLOCK_PULSE_MS
         => action = "DRIVE_LOCK" \/ pulseAge >= UNLOCK_PULSE_MS]_ctVars
=============================================================================

---------------------------- MODULE GpioActuator ----------------------------
(***************************************************************************)
(* firmware/src/gpio_actuator.cpp: the door relay with its non-blocking    *)
(* unlock pulse, the servo and the LED.  Only the controller task calls    *)
(* it.  The pins mirror the members, which is what is modelled.            *)
(***************************************************************************)
EXTENDS Millis

CONSTANT UNLOCK_PULSE_MS

ASSUME PulseAssumption ==
    UNLOCK_PULSE_MS \in Nat \ {0} /\ UNLOCK_PULSE_MS < U32

VARIABLES
    relay_active, pulse_until_ms, led, servo,
    pulseAge        \* history: how long the relay has been on, up to PulseCap

gpioVars == <<relay_active, pulse_until_ms, led, servo, pulseAge>>

PulseCap == UNLOCK_PULSE_MS + 3

LedColor == {"OFF", "RED", "GREEN", "BLUE"}
ServoAngle == {"LOCK", "UNLOCK"}

\* The constructor, which runs before any task.
GpioInit ==
    /\ relay_active = FALSE
    /\ pulse_until_ms = 0
    /\ led = "OFF"
    /\ servo = "LOCK"
    /\ pulseAge = 0

begin ==
    /\ relay_active' = FALSE
    /\ servo' = "LOCK"
    /\ led' = "RED"
    /\ UNCHANGED <<pulse_until_ms, pulseAge>>

\* Mutant: the duration where the deadline belongs.
PulseNotFromNow ==
    /\ relay_active' = TRUE
    /\ servo' = "UNLOCK"
    /\ pulse_until_ms' = UNLOCK_PULSE_MS
    /\ led' = "GREEN"
    /\ pulseAge' = 0

begin_unlock_pulse ==
    /\ relay_active' = TRUE
    /\ servo' = "UNLOCK"
    /\ pulse_until_ms' = Plus(now, UNLOCK_PULSE_MS)
    /\ led' = "GREEN"
    /\ pulseAge' = 0

\* Mutant: a lock that leaves the servo where it is.
LockLeavesServo ==
    /\ relay_active' = FALSE
    /\ pulse_until_ms' = 0
    /\ led' = "RED"
    /\ pulseAge' = 0
    /\ UNCHANGED servo

lock ==
    /\ relay_active' = FALSE
    /\ servo' = "LOCK"
    /\ pulse_until_ms' = 0
    /\ led' = "RED"
    /\ pulseAge' = 0

set_led(color) ==
    /\ led' = color
    /\ UNCHANGED <<relay_active, pulse_until_ms, servo, pulseAge>>

\* Mutant: the deadline itself does not count as due.
PulseOverStrict == relay_active /\ pulse_until_ms # 0 /\ now > pulse_until_ms

\* 0 is the member's value for "no pulse", and also a value of millis().
PulseOver == relay_active /\ pulse_until_ms # 0 /\ now >= pulse_until_ms

service ==
    \/ /\ PulseOver
       /\ relay_active' = FALSE
       /\ pulse_until_ms' = 0
       /\ pulseAge' = 0
       /\ UNCHANGED <<led, servo>>
    \/ ~PulseOver /\ UNCHANGED gpioVars

GpioAging ==
    /\ pulseAge' = IF relay_active THEN CountUp(pulseAge, PulseCap) ELSE pulseAge
    /\ UNCHANGED <<relay_active, pulse_until_ms, led, servo>>

GpioTypeOK ==
    /\ relay_active \in BOOLEAN
    /\ pulse_until_ms \in Millis
    /\ led \in LedColor
    /\ servo \in ServoAngle
    /\ pulseAge \in 0 .. PulseCap
=============================================================================

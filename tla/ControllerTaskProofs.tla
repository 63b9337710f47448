------------------------ MODULE ControllerTaskProofs ------------------------
(***************************************************************************)
(* The controller task keeps the door, the LED and the relay in step with  *)
(* the state machine, and its timers in step with the clock, for every     *)
(* value of the constants.                                                 *)
(***************************************************************************)
EXTENDS ControllerTask, AccessControllerProofs

(***************************************************************************)
(* Type correctness, for every uptime.  The reset() at boot finds the      *)
(* machine as its constructor left it.                                     *)
(***************************************************************************)
TypeInv ==
    /\ CountInv
    /\ GpioTypeOK
    /\ pc \in Steps
    /\ passed \in BOOLEAN
    /\ pc = "boot" => state = "IDLE"

LEMMA PulseConstants ==
    /\ UNLOCK_PULSE_MS \in Millis
    /\ PulseCap \in Nat
    /\ 0 \in Millis /\ 0 \in 0 .. PulseCap
  BY PulseAssumption, U32Assumption DEF Millis, PulseCap

LEMMA GpioApplyType ==
    ASSUME GpioTypeOK, now \in Millis, NEW a, apply(a)
    PROVE  GpioTypeOK'
  <1>1. Plus(now, UNLOCK_PULSE_MS) \in Millis
    BY PlusType, PulseConstants
  <1>2. Colour(a) \in LedColor
    BY DEF Colour, LedColor
  <1>3. CASE set_led(Colour(a))
    BY <1>2, <1>3 DEF set_led, GpioTypeOK
  <1>4. CASE begin_unlock_pulse
    BY <1>1, <1>4, PulseConstants
       DEF begin_unlock_pulse, GpioTypeOK, LedColor, ServoAngle
  <1>5. CASE lock
    BY <1>5, PulseConstants DEF lock, GpioTypeOK, LedColor, ServoAngle
  <1>6. CASE UNCHANGED gpioVars
    BY <1>6 DEF gpioVars, GpioTypeOK
  <1> QED
    BY <1>3, <1>4, <1>5, <1>6 DEF apply

LEMMA TypeInit == CTInit => TypeInv
  <1> SUFFICES ASSUME CTInit PROVE TypeInv
    OBVIOUS
  <1>1. CountInv /\ state = "IDLE"
    BY CountInit DEF CTInit, ACInit
  <1>2. GpioTypeOK
    BY PulseConstants DEF CTInit, GpioInit, GpioTypeOK, LedColor, ServoAngle
  <1> QED
    BY <1>1, <1>2 DEF CTInit, TypeInv, Steps

LEMMA CountSame ==
    ASSUME CountInv, UNCHANGED <<now, members, history>>
    PROVE  CountInv'
  BY DEF members, history, CountInv, ACTypeOK, LockoutIffExhausted

(* A call of tick(), whether or not a timer is due. *)
LEMMA CountTickCall ==
    ASSUME CountInv, tick \/ tickNone, UNCHANGED now
    PROVE  CountInv'
  <1>1. CASE tick
    BY <1>1, CountTick
  <1>2. CASE tickNone
    BY <1>2
       DEF tickNone, Ignored, timers, CountInv, ACTypeOK, LockoutIffExhausted, Action
  <1> QED
    BY <1>1, <1>2

LEMMA TypeStep == TypeInv /\ [CTNext]_ctVars => TypeInv'
  <1> SUFFICES ASSUME TypeInv, [CTNext]_ctVars PROVE TypeInv'
    OBVIOUS
  <1>0. CountInv /\ GpioTypeOK /\ now \in Millis
    BY DEF TypeInv, CountInv, ACTypeOK
  <1>1. CASE Boot
    <2>1. CountInv'
      BY <1>1, Constants
         DEF Boot, reset, enter, timers, TypeInv, CountInv, ACTypeOK,
             LockoutIffExhausted, AccessState
    <2>2. GpioTypeOK'
      BY <1>1 DEF Boot, begin, TypeInv, GpioTypeOK, LedColor, ServoAngle
    <2> QED
      BY <1>1, <2>1, <2>2 DEF Boot, TypeInv, Steps
  <1>2. ASSUME NEW ev \in Posted, Receive(ev) PROVE TypeInv'
    <2>1. CountInv'
      BY <1>0, <1>2, CountEvent DEF Receive, Posted
    <2> QED
      BY <1>2, <2>1 DEF Receive, gpioVars, TypeInv, GpioTypeOK, Steps
  <1>3. CASE ReceiveNone
    <2>1. CountInv'
      BY <1>0, <1>3, CountSame DEF ReceiveNone, objects
    <2> QED
      BY <1>3, <2>1 DEF ReceiveNone, objects, gpioVars, TypeInv, GpioTypeOK, Steps
  <1>4. CASE Apply
    <2>1. CountInv'
      BY <1>0, <1>4, CountSame DEF Apply
    <2>2. GpioTypeOK'
      BY <1>0, <1>4, GpioApplyType DEF Apply
    <2> QED
      BY <1>4, <2>1, <2>2 DEF Apply, TypeInv, Steps
  <1>5. CASE TickTimers
    <2>1. CountInv'
      BY <1>0, <1>5, CountTickCall DEF TickTimers
    <2> QED
      BY <1>5, <2>1 DEF TickTimers, gpioVars, TypeInv, GpioTypeOK, Steps
  <1>6. CASE Service
    <2>1. CountInv'
      BY <1>0, <1>6, CountSame DEF Service
    <2>2. GpioTypeOK'
      BY <1>0, <1>6, PulseConstants DEF Service, service, gpioVars, GpioTypeOK
    <2> QED
      BY <1>6, <2>1, <2>2 DEF Service, TypeInv, Steps
  <1>7. CASE UnitPasses
    <2>1. CountInv'
      BY <1>0, <1>7, CountAging DEF UnitPasses
    <2>2. GpioTypeOK'
      BY <1>0, <1>7, CountUpType, PulseConstants
         DEF UnitPasses, GpioAging, GpioTypeOK
    <2> QED
      BY <1>7, <2>1, <2>2 DEF UnitPasses, TypeInv
  <1>8. CASE UNCHANGED ctVars
    <2>1. CountInv'
      BY <1>0, <1>8, CountSame DEF ctVars, acVars
    <2> QED
      BY <1>8, <2>1 DEF ctVars, acVars, members, gpioVars, TypeInv, GpioTypeOK
  <1> QED
    BY <1>1, <1>2, <1>3, <1>4, <1>5, <1>6, <1>7, <1>8 DEF CTNext

(* LOCKOUT is exactly the state of an exhausted failure count. *)
THEOREM LoopCountingCorrect == CTSpec => []LockoutIffExhausted
  <1>1. TypeInv => LockoutIffExhausted
    BY DEF TypeInv, CountInv
  <1> QED
    BY TypeInit, TypeStep, <1>1, PTL DEF CTSpec

(* Type correctness of the task and of the objects it owns. *)
THEOREM TaskTypeCorrect == CTSpec => []CTTypeOK
  <1>1. TypeInv => CTTypeOK
    BY DEF TypeInv, CountInv, CTTypeOK
  <1> QED
    BY TypeInit, TypeStep, <1>1, PTL DEF CTSpec

-----------------------------------------------------------------------------
(***************************************************************************)
(* The pins and the state.  Between a call that returns an action and the  *)
(* apply() of that action the two may disagree, by no more than the action *)
(* will mend.                                                              *)
(***************************************************************************)
PinsMatch ==
    /\ servo = "UNLOCK" <=> state = "UNLOCKED"
    /\ relay_active => state = "UNLOCKED"
    /\ led = IF state \in Transient THEN "BLUE"
             ELSE IF state = "UNLOCKED" THEN "GREEN" ELSE "RED"

Mends(a) ==
    /\ a \in Action
    /\ a = "NONE" => PinsMatch
    /\ a \in ShowsLed => servo = "LOCK" /\ ~relay_active
    /\ a = "LED_AUTHENTICATING" => state \in Transient
    /\ a \in {"LED_LOCKED", "LOG_LOCKOUT"} => state \in {"IDLE", "LOCKOUT"}
    /\ a = "LED_UNLOCKED" => FALSE
    /\ a = "PULSE_UNLOCK" => state = "UNLOCKED"
    /\ a = "DRIVE_LOCK" => state = "LOCKED"

PinsInv ==
    /\ TypeInv
    /\ Applied => PinsMatch
    /\ pc \in {"apply", "applyTick"} => Mends(action)

LEMMA PinsInit == CTInit => PinsInv
  <1>1. CTInit => pc = "boot"
    BY DEF CTInit
  <1> QED
    BY <1>1, TypeInit DEF PinsInv, Applied

(* What handle_event() changes, its action mends. *)
LEMMA MendsEvent ==
    ASSUME PinsMatch, TypeInv, NEW ev \in AccessEvent, handle_event(ev),
           UNCHANGED gpioVars
    PROVE  Mends(action)'
  <1>0. servo \in {"LOCK", "UNLOCK"} /\ relay_active \in BOOLEAN
    BY DEF TypeInv, GpioTypeOK, ServoAngle
  <1>1. CASE Accepts(ev) /\ HardLock(ev)
    BY <1>1 DEF HardLock, enter, Mends, Action, ShowsLed
  <1>2. CASE Accepts(ev) /\ Progress(ev)
    <2>1. state # "UNLOCKED"
      BY <1>2 DEF Accepts, Progress, Expected, HardLocks
    <2> QED
      BY <1>0, <1>2, <2>1
         DEF Progress, enter, PinsMatch, Mends, Action, ShowsLed, Transient, gpioVars
  <1>3. CASE Accepts(ev) /\ Unlock(ev)
    BY <1>3 DEF Unlock, enter, Mends, Action, ShowsLed
  <1>4. CASE Accepts(ev) /\ Depart(ev)
    BY <1>0, <1>4
       DEF Depart, enter, PinsMatch, Mends, Action, ShowsLed, gpioVars
  <1>5. CASE Accepts(ev) /\ Fail(ev)
    <2>1. state # "UNLOCKED"
      BY <1>5 DEF Accepts, Fail, Failures, Expected, HardLocks
    <2> QED
      BY <1>0, <1>5, <2>1
         DEF Fail, register_failure, enter, PinsMatch, Mends, Action, ShowsLed,
             gpioVars
  <1>6. CASE ~Accepts(ev) /\ Ignored
    BY <1>6 DEF Ignored, PinsMatch, Mends, Action, ShowsLed, gpioVars
  <1> QED
    BY <1>1, <1>2, <1>3, <1>4, <1>5, <1>6 DEF handle_event

(* And what tick() changes. *)
LEMMA MendsTick ==
    ASSUME PinsMatch, TypeInv, tick \/ tickNone, UNCHANGED gpioVars
    PROVE  Mends(action)'
  <1>0. servo \in {"LOCK", "UNLOCK"} /\ relay_active \in BOOLEAN
    BY DEF TypeInv, GpioTypeOK, ServoAngle
  <1>1. CASE tick
    <2>1. state # "UNLOCKED"
      BY <1>1 DEF tick, LockoutOver, TimedOut, Transient
    <2> QED
      BY <1>0, <1>1, <2>1
         DEF tick, enter, PinsMatch, Mends, Action, ShowsLed, gpioVars
  <1>2. CASE tickNone
    BY <1>2 DEF tickNone, Ignored, PinsMatch, Mends, Action, ShowsLed, gpioVars
  <1> QED
    BY <1>1, <1>2

(* apply() mends it. *)
LEMMA ApplyMends ==
    ASSUME TypeInv, Mends(action), apply(action), UNCHANGED members
    PROVE  PinsMatch'
  <1>0. state' = state
    BY DEF members
  <1>1. CASE action \in ShowsLed /\ set_led(Colour(action))
    BY <1>0, <1>1 DEF Mends, ShowsLed, Colour, set_led, PinsMatch, Transient
  <1>2. CASE action = "PULSE_UNLOCK" /\ begin_unlock_pulse
    BY <1>0, <1>2 DEF Mends, begin_unlock_pulse, PinsMatch, Transient
  <1>3. CASE action = "DRIVE_LOCK" /\ lock
    BY <1>0, <1>3 DEF Mends, lock, PinsMatch, Transient
  <1>4. CASE action = "NONE" /\ UNCHANGED gpioVars
    BY <1>0, <1>4 DEF Mends, gpioVars, PinsMatch
  <1> QED
    BY <1>1, <1>2, <1>3, <1>4 DEF apply

LEMMA PinsStep == PinsInv /\ [CTNext]_ctVars => PinsInv'
  <1> SUFFICES ASSUME PinsInv, [CTNext]_ctVars
               PROVE  /\ Applied' => PinsMatch'
                      /\ pc' \in {"apply", "applyTick"} => Mends(action)'
    BY TypeStep DEF PinsInv
  <1>0. TypeInv
    BY DEF PinsInv
  <1>1. CASE Boot
    BY <1>1 DEF Boot, begin, reset, enter, PinsMatch, Transient
  <1>2. ASSUME NEW ev \in Posted, Receive(ev)
        PROVE  pc' = "apply" /\ Mends(action)'
    BY <1>0, <1>2, MendsEvent DEF Receive, Posted, PinsInv, Applied
  <1>3. CASE ReceiveNone
    BY <1>3 DEF ReceiveNone, objects, members, gpioVars, PinsInv, Applied, PinsMatch
  <1>4. CASE Apply
    BY <1>0, <1>4, ApplyMends DEF Apply, PinsInv
  <1>5. CASE TickTimers
    BY <1>0, <1>5, MendsTick DEF TickTimers, PinsInv, Applied
  <1>6. CASE Service
    BY <1>6 DEF Service, service, members, gpioVars, PinsInv, Applied, PinsMatch
  <1>7. CASE UnitPasses
    BY <1>7
       DEF UnitPasses, Aging, GpioAging, members, PinsInv, Applied, PinsMatch, Mends
  <1>8. CASE UNCHANGED ctVars
    BY <1>8
       DEF ctVars, acVars, members, gpioVars, PinsInv, Applied, PinsMatch, Mends
  <1> QED
    BY <1>1, <1>2, <1>3, <1>4, <1>5, <1>6, <1>7, <1>8 DEF CTNext, Applied

(* Door, relay and LED follow the state machine. *)
THEOREM ActuatorsAlwaysFollow == CTSpec => []ActuatorsFollowState
  <1>1. PinsInv => ActuatorsFollowState
    BY DEF PinsInv, PinsMatch, ActuatorsFollowState
  <1> QED
    BY PinsInit, PinsStep, <1>1, PTL DEF CTSpec

-----------------------------------------------------------------------------
(***************************************************************************)
(* The loop's timers.  A tick leaves an age of at most the timeout; one    *)
(* unit may pass after it and one in the next iteration before its tick.   *)
(***************************************************************************)
Slack == IF passed THEN 1 ELSE 0

LoopAgeInv ==
    /\ TypeInv
    /\ state \in Transient =>
        /\ age = Minus(now, state_entered_ms)
        /\ pc \in {"receive", "apply", "tick"} => age <= STATE_TIMEOUT_MS + 1 + Slack
        /\ pc \in {"applyTick", "service"} => age <= STATE_TIMEOUT_MS + Slack

LEMMA LoopAgeInit == CTInit => LoopAgeInv
  BY TypeInit DEF CTInit, ACInit, LoopAgeInv, Transient

LEMMA LoopAgeStep == LoopAgeInv /\ [CTNext]_ctVars => LoopAgeInv'
  <1> SUFFICES ASSUME LoopAgeInv, [CTNext]_ctVars PROVE LoopAgeInv'
    OBVIOUS
  <1>0. TypeInv /\ TypeInv'
    BY TypeStep DEF LoopAgeInv
  <1>a. /\ STATE_TIMEOUT_MS \in Nat /\ age \in Nat /\ passed \in BOOLEAN
        /\ now \in Millis /\ state_entered_ms \in Millis /\ pc \in Steps
    BY <1>0, AccessAssumption, Constants DEF TypeInv, CountInv, ACTypeOK
  <1> DEFINE Fresh == age' = 0 /\ state_entered_ms' = now /\ now' = now
             Same == UNCHANGED <<now, state, state_entered_ms, age>>
  <1>1. Fresh => LoopAgeInv'
    <2> SUFFICES ASSUME Fresh PROVE /\ age' = Minus(now', state_entered_ms')
                                    /\ age' <= STATE_TIMEOUT_MS + Slack'
      BY <1>0, <1>a DEF LoopAgeInv, Slack
    <2> QED
      BY <1>a DEF Minus, Millis, Slack
  <1>2. CASE Boot
    BY <1>1, <1>2 DEF Boot, reset, enter
  <1>3. ASSUME NEW ev \in Posted, Receive(ev) PROVE Fresh \/ (Same /\ UNCHANGED passed)
    BY <1>3 DEF Receive, handle_event, HardLock, Progress, Unlock, Depart,
                Fail, register_failure, enter, Ignored
  <1>4. ASSUME NEW ev \in Posted, Receive(ev) PROVE LoopAgeInv'
    BY <1>0, <1>1, <1>3, <1>4 DEF Receive, LoopAgeInv, Minus, Slack
  <1>5. CASE ReceiveNone
    BY <1>0, <1>5 DEF ReceiveNone, objects, members, history, LoopAgeInv, Minus, Slack
  <1>6. CASE Apply
    BY <1>0, <1>6 DEF Apply, members, history, LoopAgeInv, Minus, Slack
  <1>7. CASE TickTimers
    <2>1. CASE tick
      BY <1>1, <1>7, <2>1 DEF TickTimers, tick, enter
    <2>2. CASE tickNone
      <3>1. Same /\ UNCHANGED passed /\ pc' = "applyTick"
        BY <1>7, <2>2 DEF TickTimers, tickNone, Ignored
      <3>2. state \in Transient => age <= STATE_TIMEOUT_MS
        BY <2>2, <1>a DEF tickNone, TimedOut, LoopAgeInv
      <3> QED
        BY <1>0, <1>a, <3>1, <3>2 DEF LoopAgeInv, Minus, Slack
    <2> QED
      BY <1>7, <2>1, <2>2 DEF TickTimers
  <1>8. CASE Service
    BY <1>0, <1>a, <1>8 DEF Service, members, history, LoopAgeInv, Minus, Slack
  <1>9. CASE UnitPasses
    <2>1. /\ UNCHANGED <<state, state_entered_ms, pc>> /\ now' = Plus(now, 1)
          /\ ~passed /\ passed' /\ pc # "boot"
      BY <1>9, <1>a DEF UnitPasses, Aging, MillisPasses, members
    <2> SUFFICES ASSUME state \in Transient
                 PROVE  /\ age' = age + 1
                        /\ age' = Minus(now', state_entered_ms')
      BY <1>0, <1>a, <2>1 DEF LoopAgeInv, Slack
    <2>2. age <= STATE_TIMEOUT_MS + 1 /\ age = Minus(now, state_entered_ms)
      BY <1>a, <2>1 DEF LoopAgeInv, Slack, Steps
    <2>3. age' = age + 1
      BY <1>9, <1>a, <2>2, AccessAssumption
         DEF UnitPasses, Aging, CountUp, Timed, AgeCap
    <2> QED
      BY <1>a, <2>1, <2>2, <2>3, U32Assumption, AccessAssumption
         DEF Minus, Plus, Millis
  <1>10. CASE UNCHANGED ctVars
    BY <1>0, <1>10 DEF ctVars, acVars, members, history, LoopAgeInv, Minus, Slack
  <1> QED
    BY <1>2, <1>4, <1>5, <1>6, <1>7, <1>8, <1>9, <1>10 DEF CTNext

(* An unfinished authentication outlives its timeout by the loop's period. *)
THEOREM LoopTimeoutsPrompt == CTSpec => []LoopTimeoutPrompt
  <1>1. LoopAgeInv => LoopTimeoutPrompt
    BY AccessAssumption, Constants
       DEF LoopAgeInv, LoopTimeoutPrompt, Slack, TypeInv, CountInv, ACTypeOK,
           Steps, Transient
  <1> QED
    BY LoopAgeInit, LoopAgeStep, <1>1, PTL DEF CTSpec

(* Nor does tick() cut one short. *)
THEOREM LoopTimeoutsNotEarly == CTSpec => TimeoutNotEarly
  <1>1. LoopAgeInv /\ [CTNext]_ctVars
          => [Tick /\ state \in Transient => age > STATE_TIMEOUT_MS]_acVars
    BY DEF LoopAgeInv, Tick, tick, LockoutOver, TimedOut, Transient
  <1> QED
    BY LoopAgeInit, LoopAgeStep, <1>1, PTL DEF CTSpec, TimeoutNotEarly

-----------------------------------------------------------------------------
(***************************************************************************)
(* The absolute deadlines, over all uptimes: a clock t, a deadline, the    *)
(* duration it was computed from and the time elapsed since.  Until they   *)
(* are a unit late the four stand in one of two relations: the deadline    *)
(* and the clock are on the same side of the wrap-around, or the deadline  *)
(* alone is past it.                                                       *)
(***************************************************************************)
Straight(t, until, d, elapsed) == until + elapsed = t + d
Ahead(t, until, d, elapsed) == until < d /\ until + U32 + elapsed = t + d

\* A deadline that did not wrap around is not reached early...
FullLength(t, until, d, elapsed) ==
    until >= d => elapsed >= d \/ Straight(t, until, d, elapsed)

\* ... and one that the clock stays at or after for two units is seen.
InSight(t, until, d, elapsed) ==
    Straight(t, until, d, elapsed) \/ Ahead(t, until, d, elapsed)

LEMMA TimerStarts ==
    ASSUME NEW t \in Millis, NEW d \in Millis
    PROVE  FullLength(t, Plus(t, d), d, 0) /\ InSight(t, Plus(t, d), d, 0)
  BY U32Assumption DEF Millis, Plus, FullLength, InSight, Straight, Ahead

LEMMA TimerRunsFull ==
    ASSUME NEW t \in Millis, NEW d \in Millis, NEW until \in Millis,
           NEW cap \in Nat, d < cap, NEW elapsed \in 0 .. cap,
           FullLength(t, until, d, elapsed)
    PROVE  FullLength(Plus(t, 1), until, d, CountUp(elapsed, cap))
  <1>1. /\ t \in Nat /\ d \in Nat /\ until \in Nat /\ elapsed \in Nat /\ U32 \in Nat
        /\ t < U32 /\ d < U32 /\ until < U32
    BY U32Assumption DEF Millis
  <1>2. CASE elapsed >= d
    BY <1>1, <1>2 DEF CountUp, FullLength
  <1>3. CASE elapsed < d
    BY <1>1, <1>3 DEF CountUp, FullLength, Straight, Plus
  <1> QED
    BY <1>1, <1>2, <1>3

LEMMA TimerRunsInSight ==
    ASSUME NEW t \in Millis, NEW d \in Millis, NEW until \in Millis,
           NEW elapsed \in Nat, elapsed <= d, until + 1 < U32,
           InSight(t, until, d, elapsed)
    PROVE  InSight(Plus(t, 1), until, d, elapsed + 1)
  BY U32Assumption DEF Millis, InSight, Straight, Ahead, Plus

LEMMA TimerOver ==
    ASSUME NEW t \in Millis, NEW d \in Millis, NEW until \in Millis, NEW elapsed \in Nat
    PROVE  /\ t >= until /\ until >= d /\ FullLength(t, until, d, elapsed)
                => elapsed >= d
           /\ t < until /\ InSight(t, until, d, elapsed) => elapsed + 1 <= d
  BY U32Assumption DEF Millis, FullLength, InSight, Straight, Ahead

(***************************************************************************)
(* The unlock pulse.                                                       *)
(***************************************************************************)
PulseSound ==
    /\ pc # "boot"
    /\ FullLength(now, pulse_until_ms, UNLOCK_PULSE_MS, pulseAge)
    /\ pulse_until_ms # 0 /\ pulse_until_ms + 1 < U32 =>
        /\ InSight(now, pulse_until_ms, UNLOCK_PULSE_MS, pulseAge)
        /\ pulseAge + 1 <= UNLOCK_PULSE_MS + Slack

PulseInv == TypeInv /\ (relay_active => PulseSound)

LEMMA PulseInit == CTInit => PulseInv
  BY TypeInit DEF CTInit, GpioInit, PulseInv

LEMMA PulseStep == PulseInv /\ [CTNext]_ctVars => PulseInv'
  <1> SUFFICES ASSUME PulseInv, [CTNext]_ctVars PROVE PulseInv'
    OBVIOUS
  <1>0. TypeInv /\ TypeInv'
    BY TypeStep DEF PulseInv
  <1>a. /\ now \in Millis /\ pulseAge \in 0 .. PulseCap /\ pulse_until_ms \in Millis
        /\ passed \in BOOLEAN /\ relay_active \in BOOLEAN
    BY <1>0 DEF TypeInv, GpioTypeOK, CountInv, ACTypeOK
  <1>b. /\ pulseAge \in Nat /\ UNLOCK_PULSE_MS \in Nat /\ UNLOCK_PULSE_MS > 0
        /\ UNLOCK_PULSE_MS \in Millis /\ PulseCap \in Nat /\ UNLOCK_PULSE_MS < PulseCap
    BY <1>a, PulseAssumption, PulseConstants DEF PulseCap
  <1> DEFINE Same == UNCHANGED <<now, relay_active, pulse_until_ms, pulseAge, passed>>
  <1>1. Same /\ pc' # "boot" => PulseInv'
    BY <1>0 DEF PulseInv, PulseSound, Slack, FullLength, InSight, Straight, Ahead
  <1>2. ~relay_active' => PulseInv'
    BY <1>0 DEF PulseInv
  <1>3. CASE Boot
    BY <1>2, <1>3 DEF Boot, begin
  <1>4. ASSUME NEW ev \in Posted, Receive(ev) PROVE PulseInv'
    BY <1>1, <1>4 DEF Receive, gpioVars
  <1>5. CASE ReceiveNone
    BY <1>1, <1>5 DEF ReceiveNone, objects, gpioVars
  <1>6. CASE Apply
    <2>1. now' = now /\ passed' = passed /\ pc' # "boot"
      BY <1>6 DEF Apply
    <2>2. CASE set_led(Colour(action)) \/ UNCHANGED gpioVars
      BY <1>1, <2>1, <2>2 DEF set_led, gpioVars
    <2>3. CASE begin_unlock_pulse
      <3>1. /\ FullLength(now, Plus(now, UNLOCK_PULSE_MS), UNLOCK_PULSE_MS, 0)
            /\ InSight(now, Plus(now, UNLOCK_PULSE_MS), UNLOCK_PULSE_MS, 0)
        BY <1>a, <1>b, TimerStarts
      <3>2. pulse_until_ms' = Plus(now, UNLOCK_PULSE_MS) /\ pulseAge' = 0
        BY <2>3 DEF begin_unlock_pulse
      <3>3. /\ FullLength(now, pulse_until_ms, UNLOCK_PULSE_MS, pulseAge)'
            /\ InSight(now, pulse_until_ms, UNLOCK_PULSE_MS, pulseAge)'
        BY <2>1, <3>1, <3>2 DEF FullLength, InSight, Straight, Ahead
      <3> QED
        BY <1>0, <1>a, <1>b, <2>1, <3>2, <3>3 DEF PulseInv, PulseSound, Slack
    <2>4. CASE lock
      BY <1>2, <2>4 DEF lock
    <2> QED
      BY <1>6, <2>2, <2>3, <2>4 DEF Apply, apply
  <1>7. CASE TickTimers
    BY <1>1, <1>7 DEF TickTimers, gpioVars
  <1>8. CASE Service
    <2>1. CASE PulseOver
      BY <1>2, <1>8, <2>1 DEF Service, service
    <2>2. CASE ~PulseOver
      <3>1. /\ UNCHANGED <<now, relay_active, pulse_until_ms, pulseAge>>
            /\ pc' = "receive" /\ passed' = FALSE
        BY <1>8, <2>2 DEF Service, service, gpioVars
      <3>2. ASSUME relay_active, pulse_until_ms # 0, pulse_until_ms + 1 < U32
            PROVE  pulseAge + 1 <= UNLOCK_PULSE_MS
        <4>1. now < pulse_until_ms
          BY <1>a, <2>2, <3>2, U32Assumption DEF PulseOver, Millis
        <4> QED
          BY <1>a, <1>b, <3>2, <4>1, TimerOver DEF PulseInv, PulseSound
      <3> QED
        BY <1>0, <1>b, <3>1, <3>2
           DEF PulseInv, PulseSound, Slack, FullLength, InSight, Straight, Ahead
    <2> QED
      BY <2>1, <2>2
  <1>9. CASE UnitPasses
    <2>1. /\ ~passed /\ passed' = TRUE /\ pc # "boot" /\ pc' = pc
          /\ UNCHANGED <<relay_active, pulse_until_ms>>
          /\ now' = Plus(now, 1)
      BY <1>9 DEF UnitPasses, GpioAging, Aging, MillisPasses
    <2>2. relay_active => pulseAge' = CountUp(pulseAge, PulseCap)
      BY <1>9 DEF UnitPasses, GpioAging
    <2>3. ASSUME relay_active PROVE PulseSound'
      <3>1. FullLength(now, pulse_until_ms, UNLOCK_PULSE_MS, pulseAge)'
        <4>1. FullLength(Plus(now, 1), pulse_until_ms, UNLOCK_PULSE_MS, pulseAge')
          BY <1>a, <1>b, <2>2, <2>3, TimerRunsFull DEF PulseInv, PulseSound
        <4> QED
          BY <2>1, <4>1 DEF FullLength, Straight
      <3>2. ASSUME pulse_until_ms # 0, pulse_until_ms + 1 < U32
            PROVE  /\ InSight(now, pulse_until_ms, UNLOCK_PULSE_MS, pulseAge)'
                   /\ pulseAge' + 1 <= UNLOCK_PULSE_MS + 1
        <4>1. /\ InSight(now, pulse_until_ms, UNLOCK_PULSE_MS, pulseAge)
              /\ pulseAge + 1 <= UNLOCK_PULSE_MS
          BY <1>b, <2>1, <2>3, <3>2 DEF PulseInv, PulseSound, Slack
        <4>2. pulseAge' = pulseAge + 1
          BY <1>b, <2>2, <2>3, <4>1 DEF CountUp
        <4>3. InSight(Plus(now, 1), pulse_until_ms, UNLOCK_PULSE_MS, pulseAge + 1)
          BY <1>a, <1>b, <3>2, <4>1, TimerRunsInSight
        <4> QED
          BY <1>b, <2>1, <4>1, <4>2, <4>3 DEF InSight, Straight, Ahead
      <3> QED
        BY <1>b, <2>1, <3>1, <3>2 DEF PulseSound, Slack
    <2> QED
      BY <1>0, <2>1, <2>3 DEF PulseInv
  <1>10. CASE UNCHANGED ctVars
    BY <1>0, <1>10
       DEF ctVars, acVars, gpioVars, PulseInv, PulseSound, Slack, FullLength,
           InSight, Straight, Ahead
  <1> QED
    BY <1>3, <1>4, <1>5, <1>6, <1>7, <1>8, <1>9, <1>10 DEF CTNext

(* The relay is released on time. *)
THEOREM PulseAlwaysBounded == CTSpec => []PulseBounded
  <1>1. PulseInv => PulseBounded
    BY PulseAssumption
       DEF PulseInv, PulseSound, PulseBounded, Slack, TypeInv, GpioTypeOK, PulseCap
  <1> QED
    BY PulseInit, PulseStep, <1>1, PTL DEF CTSpec

(* Only a lock releases it before. *)
THEOREM PulseNeverCut == CTSpec => PulseNotCut
  <1> DEFINE Cut == relay_active /\ ~relay_active' /\ pulse_until_ms >= UNLOCK_PULSE_MS
  <1>1. ASSUME PulseInv, CTNext, Cut
        PROVE  action = "DRIVE_LOCK" \/ pulseAge >= UNLOCK_PULSE_MS
    <2>1. CASE Boot
      BY <1>1, <2>1 DEF Boot, PulseInv, PulseSound
    <2>2. CASE Apply
      BY <1>1, <2>2 DEF Apply, apply, set_led, begin_unlock_pulse, gpioVars
    <2>3. CASE Service
      <3>1. PulseOver
        BY <1>1, <2>3 DEF Service, service, gpioVars
      <3>2. now \in Millis /\ pulse_until_ms \in Millis /\ pulseAge \in Nat
        BY <1>1, PulseConstants
           DEF PulseInv, TypeInv, GpioTypeOK, CountInv, ACTypeOK
      <3> QED
        BY <1>1, <3>1, <3>2, TimerOver, PulseConstants
           DEF PulseOver, PulseInv, PulseSound
    <2>4. CASE ReceiveNone \/ TickTimers \/ UnitPasses
      BY <1>1, <2>4
         DEF ReceiveNone, TickTimers, UnitPasses, GpioAging, objects, gpioVars
    <2>5. ASSUME NEW ev \in Posted, Receive(ev) PROVE FALSE
      BY <1>1, <2>5 DEF Receive, gpioVars
    <2> QED
      BY <1>1, <2>1, <2>2, <2>3, <2>4, <2>5 DEF CTNext
  <1>2. PulseInv /\ [CTNext]_ctVars
          => [Cut => action = "DRIVE_LOCK" \/ pulseAge >= UNLOCK_PULSE_MS]_ctVars
    BY <1>1
  <1> QED
    BY PulseInit, PulseStep, <1>2, PTL DEF CTSpec, PulseNotCut

-----------------------------------------------------------------------------
(***************************************************************************)
(* The lockout.  It may be late by the unit that may pass between the      *)
(* receive and the tick.                                                   *)
(***************************************************************************)
LockoutSound ==
    /\ FullLength(now, lockout_until_ms, LOCKOUT_MS, age)
    /\ lockout_until_ms + 1 < U32 =>
        /\ InSight(now, lockout_until_ms, LOCKOUT_MS, age)
        /\ pc \in {"boot", "receive", "apply", "tick"} => age <= LOCKOUT_MS + Slack
        /\ pc \in {"applyTick", "service"} => age + 1 <= LOCKOUT_MS + Slack

LoopLockoutInv == TypeInv /\ (state = "LOCKOUT" => LockoutSound)

LEMMA LoopLockoutInit == CTInit => LoopLockoutInv
  BY TypeInit DEF CTInit, ACInit, LoopLockoutInv

LEMMA LoopLockoutStep == LoopLockoutInv /\ [CTNext]_ctVars => LoopLockoutInv'
  <1> SUFFICES ASSUME LoopLockoutInv, [CTNext]_ctVars PROVE LoopLockoutInv'
    OBVIOUS
  <1>0. TypeInv /\ TypeInv'
    BY TypeStep DEF LoopLockoutInv
  <1>a. /\ now \in Millis /\ lockout_until_ms \in Millis /\ age \in 0 .. AgeCap
        /\ passed \in BOOLEAN /\ pc \in Steps
    BY <1>0 DEF TypeInv, CountInv, ACTypeOK
  <1>b. /\ age \in Nat /\ LOCKOUT_MS \in Nat /\ LOCKOUT_MS > 0
        /\ LOCKOUT_MS \in Millis /\ AgeCap \in Nat /\ LOCKOUT_MS < AgeCap
    BY <1>a, AccessAssumption, Constants DEF AgeCap
  <1> DEFINE Same == UNCHANGED <<now, state, lockout_until_ms, age, passed>>
  <1>1. ASSUME Same,
               \/ pc' \in {"receive", "apply", "tick"} /\ pc \in {"receive", "apply"}
               \/ pc' = "service" /\ pc = "applyTick"
        PROVE  LoopLockoutInv'
    <2>1. FullLength(now, lockout_until_ms, LOCKOUT_MS, age)
            => FullLength(now, lockout_until_ms, LOCKOUT_MS, age)'
      BY <1>1 DEF FullLength, Straight
    <2>2. InSight(now, lockout_until_ms, LOCKOUT_MS, age)
            => InSight(now, lockout_until_ms, LOCKOUT_MS, age)'
      BY <1>1 DEF InSight, Straight, Ahead
    <2>3. Slack' = Slack
      BY <1>1 DEF Slack
    <2> QED
      BY <1>0, <1>1, <2>1, <2>2, <2>3 DEF LoopLockoutInv, LockoutSound
  <1>2. state' # "LOCKOUT" => LoopLockoutInv'
    BY <1>0 DEF LoopLockoutInv
  <1>3. CASE Boot
    BY <1>2, <1>3 DEF Boot, reset, enter
  <1>4. ASSUME NEW ev \in Posted, Receive(ev) PROVE LoopLockoutInv'
    <2>1. now' = now /\ passed' = passed /\ pc = "receive" /\ pc' = "apply"
      BY <1>4 DEF Receive
    <2>2. CASE ~Accepts(ev) /\ Ignored
      BY <1>1, <2>1, <2>2 DEF Ignored, timers
    <2>3. CASE Accepts(ev) /\ Fail(ev) /\ state' = "LOCKOUT"
      <3>1. lockout_until_ms' = Plus(now, LOCKOUT_MS) /\ age' = 0
        BY <2>3 DEF Fail, register_failure, enter
      <3>2. /\ FullLength(now, Plus(now, LOCKOUT_MS), LOCKOUT_MS, 0)
            /\ InSight(now, Plus(now, LOCKOUT_MS), LOCKOUT_MS, 0)
        BY <1>a, <1>b, TimerStarts
      <3>3. /\ FullLength(now, lockout_until_ms, LOCKOUT_MS, age)'
            /\ InSight(now, lockout_until_ms, LOCKOUT_MS, age)'
        BY <2>1, <3>1, <3>2 DEF FullLength, InSight, Straight, Ahead
      <3> QED
        BY <1>0, <1>a, <1>b, <2>1, <3>1, <3>3 DEF LoopLockoutInv, LockoutSound, Slack
    <2>4. CASE HardLock(ev) \/ Progress(ev) \/ Unlock(ev) \/ Depart(ev)
      BY <1>2, <2>4 DEF HardLock, Progress, Unlock, Depart, enter
    <2> QED
      BY <1>2, <1>4, <2>2, <2>3, <2>4 DEF Receive, handle_event
  <1>5. CASE ReceiveNone
    BY <1>1, <1>5 DEF ReceiveNone, objects, members, history
  <1>6. CASE Apply
    BY <1>1, <1>6 DEF Apply, members, history
  <1>7. CASE TickTimers
    <2>1. CASE tick
      BY <1>2, <2>1 DEF tick, enter
    <2>2. CASE tickNone
      <3>1. Same /\ pc' = "applyTick"
        BY <1>7, <2>2 DEF TickTimers, tickNone, Ignored, timers
      <3>2. ASSUME state = "LOCKOUT", lockout_until_ms + 1 < U32
            PROVE  age + 1 <= LOCKOUT_MS
        <4>1. now < lockout_until_ms
          BY <1>a, <2>2, <3>2, U32Assumption DEF tickNone, LockoutOver, Millis
        <4> QED
          BY <1>a, <1>b, <3>2, <4>1, TimerOver DEF LoopLockoutInv, LockoutSound
      <3> QED
        BY <1>0, <1>a, <1>b, <3>1, <3>2
           DEF LoopLockoutInv, LockoutSound, Slack, FullLength, InSight,
               Straight, Ahead
    <2> QED
      BY <1>7, <2>1, <2>2 DEF TickTimers
  <1>8. CASE Service
    <2>1. /\ UNCHANGED <<now, state, lockout_until_ms, age>>
          /\ pc = "service" /\ pc' = "receive" /\ passed' = FALSE
      BY <1>8 DEF Service, members, history
    <2> QED
      BY <1>0, <1>a, <1>b, <2>1
         DEF LoopLockoutInv, LockoutSound, Slack, FullLength, InSight, Straight, Ahead
  <1>9. CASE UnitPasses
    <2>1. /\ ~passed /\ passed' = TRUE /\ pc' = pc /\ state' = state
          /\ lockout_until_ms' = lockout_until_ms /\ now' = Plus(now, 1)
      BY <1>9 DEF UnitPasses, Aging, MillisPasses, members
    <2>2. state = "LOCKOUT" => age' = CountUp(age, AgeCap)
      BY <1>9 DEF UnitPasses, Aging, Timed
    <2>3. ASSUME state = "LOCKOUT" PROVE LockoutSound'
      <3>1. FullLength(now, lockout_until_ms, LOCKOUT_MS, age)'
        <4>1. FullLength(Plus(now, 1), lockout_until_ms, LOCKOUT_MS, age')
          BY <1>a, <1>b, <2>2, <2>3, TimerRunsFull DEF LoopLockoutInv, LockoutSound
        <4> QED
          BY <2>1, <4>1 DEF FullLength, Straight
      <3>2. ASSUME lockout_until_ms + 1 < U32
            PROVE  InSight(now, lockout_until_ms, LOCKOUT_MS, age)' /\ age' = age + 1
        <4>1. InSight(now, lockout_until_ms, LOCKOUT_MS, age) /\ age <= LOCKOUT_MS
          BY <1>a, <1>b, <2>1, <2>3, <3>2
             DEF LoopLockoutInv, LockoutSound, Slack, Steps
        <4>2. age' = age + 1
          BY <1>b, <2>2, <2>3, <4>1 DEF CountUp
        <4>3. InSight(Plus(now, 1), lockout_until_ms, LOCKOUT_MS, age + 1)
          BY <1>a, <1>b, <3>2, <4>1, TimerRunsInSight
        <4> QED
          BY <2>1, <4>2, <4>3 DEF InSight, Straight, Ahead
      <3> QED
        BY <1>a, <1>b, <2>1, <2>3, <3>1, <3>2 DEF LoopLockoutInv, LockoutSound, Slack
    <2> QED
      BY <1>0, <2>1, <2>3 DEF LoopLockoutInv
  <1>10. CASE UNCHANGED ctVars
    BY <1>0, <1>10
       DEF ctVars, acVars, members, history, LoopLockoutInv, LockoutSound, Slack,
           FullLength, InSight, Straight, Ahead
  <1> QED
    BY <1>3, <1>4, <1>5, <1>6, <1>7, <1>8, <1>9, <1>10 DEF CTNext

(* A lockout outlasts its time by the loop's period at most... *)
THEOREM LoopLockoutsPrompt == CTSpec => []LoopLockoutPrompt
  <1>1. LoopLockoutInv => LoopLockoutPrompt
    BY AccessAssumption, Constants
       DEF LoopLockoutInv, LockoutSound, LoopLockoutPrompt, Slack, TypeInv,
           CountInv, ACTypeOK, Steps
  <1> QED
    BY LoopLockoutInit, LoopLockoutStep, <1>1, PTL DEF CTSpec

(* ... and only its end ends it. *)
THEOREM LoopLockoutsLast == CTSpec => LockoutLasts
  <1> DEFINE Left == /\ state = "LOCKOUT" /\ state' # "LOCKOUT"
                     /\ lockout_until_ms >= LOCKOUT_MS
  <1>1. ASSUME LoopLockoutInv, CTNext, Left PROVE age >= LOCKOUT_MS
    <2>1. ASSUME NEW ev \in Posted, Receive(ev) PROVE FALSE
      BY <1>1, <2>1 DEF Receive, handle_event, Accepts, Ignored
    <2>2. CASE TickTimers
      <3>1. LockoutOver
        BY <1>1, <2>2 DEF TickTimers, tick, tickNone, Ignored, TimedOut, Transient
      <3>2. now \in Millis /\ lockout_until_ms \in Millis /\ age \in Nat
        BY <1>1, Constants DEF LoopLockoutInv, TypeInv, CountInv, ACTypeOK
      <3> QED
        BY <1>1, <3>1, <3>2, TimerOver, Constants
           DEF LockoutOver, LoopLockoutInv, LockoutSound
    <2>3. CASE Boot
      BY <1>1, <2>3 DEF Boot, LoopLockoutInv, TypeInv
    <2>4. CASE ReceiveNone \/ Apply \/ Service \/ UnitPasses
      BY <1>1, <2>4
         DEF ReceiveNone, Apply, Service, UnitPasses, Aging, objects, members
    <2> QED
      BY <1>1, <2>1, <2>2, <2>3, <2>4 DEF CTNext
  <1>2. LoopLockoutInv /\ [CTNext]_ctVars => [Left => age >= LOCKOUT_MS]_acVars
    BY <1>1 DEF ctVars
  <1> QED
    BY LoopLockoutInit, LoopLockoutStep, <1>2, PTL DEF CTSpec, LockoutLasts

-----------------------------------------------------------------------------
(***************************************************************************)
(* The flow.  Unlike the caller ACSpec describes, the loop lets time pass  *)
(* while a timer is due, handles events then, and sets out with a reset(). *)
(* In the first epoch the deadlines are right all the same.                *)
(***************************************************************************)
LoopDeadlineInv == TypeInv /\ DeadlineInv

LEMMA LoopDeadlineInit == CTInit => LoopDeadlineInv
  BY TypeInit, DeadlineInit DEF CTInit, ACInit, LoopDeadlineInv

LEMMA DeadlineSame ==
    ASSUME DeadlineInv, CountInv', UNCHANGED now,
           UNCHANGED <<state, age, fail_count, timers>>
    PROVE  DeadlineInv'
  BY DEF timers, DeadlineInv, FirstEpoch, PenaltyInv, LockoutInv, PenaltyServed

LEMMA LoopDeadlineStep ==
    LoopDeadlineInv /\ [CTNext /\ CTFirstEpoch']_ctVars => LoopDeadlineInv'
  <1> SUFFICES ASSUME LoopDeadlineInv, [CTNext /\ CTFirstEpoch']_ctVars
               PROVE  DeadlineInv'
    BY TypeStep DEF LoopDeadlineInv
  <1>0. TypeInv /\ CountInv' /\ DeadlineInv
    BY TypeStep DEF LoopDeadlineInv, TypeInv
  <1>1. CASE Boot
    BY <1>0, <1>1
       DEF Boot, reset, enter, TypeInv, timers, DeadlineInv, FirstEpoch,
           PenaltyInv, LockoutInv, PenaltyServed
  <1>2. ASSUME NEW ev \in Posted, Receive(ev) PROVE DeadlineInv'
    BY <1>0, <1>2, DeadlineEvent DEF Receive, Posted
  <1>3. CASE ReceiveNone \/ Apply \/ Service \/ UNCHANGED ctVars
    BY <1>0, <1>3, DeadlineSame
       DEF ReceiveNone, Apply, Service, ctVars, acVars, objects, members,
           history, timers
  <1>4. CASE TickTimers
    BY <1>0, <1>4, DeadlineTick, DeadlineSame DEF TickTimers, tickNone, Ignored
  <1>5. CASE UnitPasses /\ CTFirstEpoch'
    BY <1>0, <1>5, DeadlineAging DEF UnitPasses, CTFirstEpoch
  <1> QED
    BY <1>1, <1>2, <1>3, <1>4, <1>5 DEF CTNext

(***************************************************************************)
(* The loop, clock and actuators included, implements the untimed flow     *)
(* that the other tasks are composed with: a receive is a step on its      *)
(* event, a tick one of a timer, a unit of time at most the end of a       *)
(* penalty, and every other step a stutter.                                *)
(***************************************************************************)
THEOREM LoopImplementsFlow == CTSpecFirstEpoch => ImplementsFlow
  <1>1. CTInit => Abstract!FlowInit
    BY DEF CTInit, ACInit, InPenalty, Abstract!FlowInit
  <1>2. LoopDeadlineInv /\ [CTNext /\ CTFirstEpoch']_ctVars
          => [Abstract!FlowNext]_(Abstract!flowVars)
    <2> SUFFICES ASSUME LoopDeadlineInv, [CTNext /\ CTFirstEpoch']_ctVars
                 PROVE  Abstract!FlowNext \/ UNCHANGED Abstract!flowVars
      OBVIOUS
    <2>0. DeadlineInv
      BY DEF LoopDeadlineInv
    <2>1. ASSUME NEW ev \in Posted, Receive(ev) PROVE Abstract!FlowNext
      BY <2>0, <2>1, FlowEvent DEF Receive, HandleEvent, Posted
    <2>2. CASE TickTimers
      <3>1. CASE tick
        BY <2>0, <2>2, <3>1, FlowTick DEF TickTimers
      <3>2. CASE tickNone
        BY <2>2, <3>2
           DEF TickTimers, tickNone, Ignored, timers, InPenalty, Abstract!flowVars
      <3> QED
        BY <2>2, <3>1, <3>2 DEF TickTimers
    <2>3. CASE UnitPasses /\ CTFirstEpoch'
      BY <2>0, <2>3, FlowAging DEF UnitPasses, CTFirstEpoch
    <2>4. CASE Boot
      BY <2>4 DEF Boot, reset, enter, timers, InPenalty, LoopDeadlineInv, TypeInv,
                  Abstract!flowVars
    <2>5. CASE ReceiveNone \/ Apply \/ Service \/ UNCHANGED ctVars
      BY <2>5 DEF ReceiveNone, Apply, Service, ctVars, acVars, objects, members,
                  InPenalty, Abstract!flowVars
    <2> QED
      BY <2>1, <2>2, <2>3, <2>4, <2>5 DEF CTNext
  <1> QED
    BY <1>1, <1>2, LoopDeadlineInit, LoopDeadlineStep, PTL
       DEF CTSpecFirstEpoch, ImplementsFlow, Abstract!FlowSpec

(***************************************************************************)
(* Over all uptimes, the same with penalties that may be over at once and  *)
(* may return.                                                             *)
(***************************************************************************)
THEOREM LoopImplementsFlowOverWraps == CTSpec => ImplementsFlowOverWraps
  <1>1. CTInit => Uptime!FlowInit
    BY DEF CTInit, ACInit, InPenalty, Uptime!FlowInit
  <1>2. TypeInv /\ [CTNext]_ctVars
          => [Uptime!FlowNext]_(Uptime!flowVars)
    <2> SUFFICES ASSUME TypeInv, [CTNext]_ctVars
                 PROVE  Uptime!FlowNext \/ UNCHANGED Uptime!flowVars
      OBVIOUS
    <2>0. CountInv
      BY DEF TypeInv, CountInv
    <2>1. ASSUME NEW ev \in Posted, Receive(ev) PROVE Uptime!FlowNext
      BY <2>0, <2>1, UptimeEvent DEF Receive, HandleEvent, Posted
    <2>2. CASE TickTimers
      <3>1. CASE tick
        BY <2>0, <2>2, <3>1, UptimeTick DEF TickTimers
      <3>2. CASE tickNone
        BY <2>2, <3>2
           DEF TickTimers, tickNone, Ignored, timers, InPenalty, Uptime!flowVars
      <3> QED
        BY <2>2, <3>1, <3>2 DEF TickTimers
    <2>3. CASE UnitPasses
      BY <2>3, UptimeAging DEF UnitPasses
    <2>4. CASE Boot
      BY <2>4 DEF Boot, reset, enter, timers, InPenalty, TypeInv,
                  Uptime!flowVars
    <2>5. CASE ReceiveNone \/ Apply \/ Service \/ UNCHANGED ctVars
      BY <2>5 DEF ReceiveNone, Apply, Service, ctVars, acVars, objects, members,
                  InPenalty, Uptime!flowVars
    <2> QED
      BY <2>1, <2>2, <2>3, <2>4, <2>5 DEF CTNext
  <1> QED
    BY <1>1, <1>2, TypeInit, TypeStep, PTL
       DEF CTSpec, ImplementsFlowOverWraps, Uptime!FlowSpec
=============================================================================

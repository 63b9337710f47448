----------------------- MODULE AccessControllerProofs -----------------------
(***************************************************************************)
(* Safety of the access state machine for every value of its constants.    *)
(*                                                                         *)
(* Counting the failures needs no clock and holds for every uptime; so do  *)
(* the timeouts, which are computed from a wrap-safe difference.  The      *)
(* penalty and the lockout are absolute deadlines: what depends on them is *)
(* proved for the first epoch.                                             *)
(***************************************************************************)
EXTENDS AccessRate, SequenceTheorems, TLAPS

(* The operands of the clock's arithmetic stay below its modulus. *)
LEMMA PlusType ==
    ASSUME NEW t \in Millis, NEW d \in Millis
    PROVE  Plus(t, d) \in Millis
  BY U32Assumption DEF Plus, Millis

LEMMA CountUpType ==
    ASSUME NEW cap \in Nat, NEW d \in 0 .. cap
    PROVE  CountUp(d, cap) \in 0 .. cap
  BY DEF CountUp

LEMMA CountDownType ==
    ASSUME NEW cap \in Nat, NEW d \in 0 .. cap
    PROVE  CountDown(d) \in 0 .. cap
  BY DEF CountDown

LEMMA Constants ==
    /\ STATE_TIMEOUT_MS \in Millis
    /\ FAIL_PENALTY_MS \in Millis
    /\ LOCKOUT_MS \in Millis
    /\ 1 \in Millis
    /\ AgeCap \in Nat
    /\ FAIL_PENALTY_MS \in Nat
    /\ MAX_CONSECUTIVE_FAILS \in Nat \ {0}
  BY U32Assumption, AccessAssumption DEF Millis, AgeCap

-----------------------------------------------------------------------------
(***************************************************************************)
(* The failure count, for every uptime.  The type of fail_count rests on   *)
(* LockoutIffExhausted: below the limit in every state that can fail.      *)
(***************************************************************************)
CountInv == ACTypeOK /\ LockoutIffExhausted

LEMMA CountInit == ACInit => CountInv
  BY U32Assumption, AccessAssumption, Constants
     DEF ACInit, CountInv, ACTypeOK, LockoutIffExhausted, AccessState, Action,
         Millis, Factors, AgeCap

(* register_failure() keeps the count within its limit. *)
LEMMA CountFailure ==
    ASSUME CountInv, state # "LOCKOUT", register_failure, UNCHANGED now,
           proven' \subseteq Factors
    PROVE  CountInv'
  <1>1. fail_count \in 0 .. MAX_CONSECUTIVE_FAILS - 1
    BY Constants DEF CountInv, ACTypeOK, LockoutIffExhausted
  <1>2. Plus(now, LOCKOUT_MS) \in Millis /\ Plus(now, FAIL_PENALTY_MS) \in Millis
    BY PlusType, Constants DEF CountInv, ACTypeOK
  <1>3. /\ now' \in Millis /\ state_entered_ms' \in Millis
        /\ age' \in 0 .. AgeCap /\ penaltyLeft' \in 0 .. FAIL_PENALTY_MS
        /\ fail_count' = fail_count + 1
    BY Constants DEF CountInv, ACTypeOK, register_failure, enter
  <1>4. CASE fail_count + 1 >= MAX_CONSECUTIVE_FAILS
    BY <1>1, <1>2, <1>3, <1>4, Constants
       DEF CountInv, ACTypeOK, LockoutIffExhausted, register_failure, enter,
           AccessState, Action
  <1>5. CASE fail_count + 1 < MAX_CONSECUTIVE_FAILS
    BY <1>1, <1>2, <1>3, <1>5, Constants
       DEF CountInv, ACTypeOK, LockoutIffExhausted, register_failure, enter,
           AccessState, Action
  <1> QED
    BY <1>1, <1>4, <1>5, Constants

(* Neither the other accepted events nor an ignored one spoil it. *)
LEMMA CountEvent ==
    ASSUME CountInv, NEW ev \in AccessEvent, handle_event(ev), UNCHANGED now
    PROVE  CountInv'
  <1>1. proven' \subseteq Factors
    BY DEF handle_event, Proven, Before, CountInv, ACTypeOK, Factors
  <1>2. CASE Accepts(ev) /\ HardLock(ev)
    BY <1>1, <1>2, Constants
       DEF Accepts, HardLock, enter, timers, CountInv, ACTypeOK,
           LockoutIffExhausted, AccessState, Action
  <1>3. CASE Accepts(ev) /\ Progress(ev)
    BY <1>1, <1>3, Constants
       DEF Accepts, Progress, enter, timers, CountInv, ACTypeOK,
           LockoutIffExhausted, AccessState, Action
  <1>4. CASE Accepts(ev) /\ Unlock(ev)
    BY <1>1, <1>4, Constants
       DEF Accepts, Unlock, enter, timers, CountInv, ACTypeOK,
           LockoutIffExhausted, AccessState, Action
  <1>5. CASE Accepts(ev) /\ Depart(ev)
    BY <1>1, <1>5, Constants
       DEF Accepts, Depart, enter, timers, CountInv, ACTypeOK,
           LockoutIffExhausted, AccessState, Action
  <1>6. CASE Accepts(ev) /\ Fail(ev)
    BY <1>1, <1>6, CountFailure DEF Accepts, Fail
  <1>7. CASE ~Accepts(ev) /\ Ignored
    BY <1>1, <1>7
       DEF Ignored, timers, CountInv, ACTypeOK, LockoutIffExhausted, Action
  <1> QED
    BY <1>2, <1>3, <1>4, <1>5, <1>6, <1>7 DEF handle_event

LEMMA CountTick ==
    ASSUME CountInv, tick, UNCHANGED now
    PROVE  CountInv'
  <1>1. CASE LockoutOver /\ fail_count' = 0
    BY <1>1, Constants
       DEF tick, enter, timers, CountInv, ACTypeOK, LockoutIffExhausted,
           AccessState, Action
  <1>2. CASE TimedOut /\ UNCHANGED fail_count
    BY <1>2, Constants
       DEF tick, TimedOut, Transient, enter, timers, CountInv, ACTypeOK,
           LockoutIffExhausted, AccessState, Action
  <1> QED
    BY <1>1, <1>2 DEF tick

LEMMA CountAging ==
    ASSUME CountInv, Aging
    PROVE  CountInv'
  <1>1. now' \in Millis
    BY PlusType, Constants DEF Aging, MillisPasses, CountInv, ACTypeOK
  <1>2. age' \in 0 .. AgeCap
    BY CountUpType, Constants DEF Aging, CountInv, ACTypeOK
  <1>3. penaltyLeft' \in 0 .. FAIL_PENALTY_MS
    BY CountDownType, Constants DEF Aging, CountInv, ACTypeOK
  <1> QED
    BY <1>1, <1>2, <1>3
       DEF Aging, members, CountInv, ACTypeOK, LockoutIffExhausted

LEMMA CountStep == CountInv /\ [ACNext]_acVars => CountInv'
  <1> SUFFICES ASSUME CountInv, [ACNext]_acVars PROVE CountInv'
    OBVIOUS
  <1>1. ASSUME NEW ev \in AccessEvent, HandleEvent(ev) PROVE CountInv'
    BY <1>1, CountEvent DEF HandleEvent
  <1>2. CASE Tick
    BY <1>2, CountTick DEF Tick
  <1>3. CASE TimePasses
    BY <1>3, CountAging DEF TimePasses
  <1>4. CASE UNCHANGED acVars
    BY <1>4 DEF acVars, members, history, CountInv, ACTypeOK, LockoutIffExhausted
  <1> QED
    BY <1>1, <1>2, <1>3, <1>4 DEF ACNext

(* Type correctness, for every uptime. *)
THEOREM TypeCorrect == ACSpec => []ACTypeOK
  <1>1. CountInv => ACTypeOK
    BY DEF CountInv
  <1> QED
    BY CountInit, CountStep, <1>1, PTL DEF ACSpec

-----------------------------------------------------------------------------
(***************************************************************************)
(* The timeouts, for every uptime: the age of a timed state is the wrapped *)
(* difference tick() computes, which is small enough not to be ambiguous.  *)
(***************************************************************************)
AgeInv ==
    /\ CountInv
    /\ TimeoutPrompt
    /\ state \in Transient => age = Minus(now, state_entered_ms)

LEMMA AgeInit == ACInit => AgeInv
  BY CountInit DEF ACInit, AgeInv, TimeoutPrompt, Transient

LEMMA AgeStep == AgeInv /\ [ACNext]_acVars => AgeInv'
  <1> SUFFICES ASSUME AgeInv, [ACNext]_acVars PROVE AgeInv'
    OBVIOUS
  <1>1. CountInv'
    BY CountStep DEF AgeInv
  <1> DEFINE Fresh == age' = 0 /\ state_entered_ms' = now /\ now' = now
             Same == UNCHANGED <<now, state, state_entered_ms, age>>
  <1>2. Fresh => AgeInv'
    BY <1>1, AccessAssumption
       DEF AgeInv, TimeoutPrompt, Minus, CountInv, ACTypeOK, Millis
  <1>3. Same => AgeInv'
    BY <1>1 DEF AgeInv, TimeoutPrompt, Minus
  <1>4. ASSUME NEW ev \in AccessEvent, HandleEvent(ev) PROVE Fresh \/ Same
    BY <1>4 DEF HandleEvent, handle_event, HardLock, Progress, Unlock, Depart,
                Fail, register_failure, enter, Ignored
  <1>5. CASE Tick
    BY <1>5, <1>2 DEF Tick, tick, enter
  <1>6. CASE TimePasses
    <2>1. state' = state /\ state_entered_ms' = state_entered_ms
      BY <1>6 DEF TimePasses, Aging, members
    <2> SUFFICES ASSUME state \in Transient
                 PROVE  /\ age' <= STATE_TIMEOUT_MS + 1
                        /\ age' = Minus(now', state_entered_ms')
      BY <1>1, <2>1 DEF AgeInv, TimeoutPrompt, Minus
    <2>2. /\ age <= STATE_TIMEOUT_MS /\ age \in Nat
          /\ age = Minus(now, state_entered_ms)
          /\ now \in Millis /\ state_entered_ms \in Millis
      BY <1>6, Constants
         DEF TimePasses, TimedOut, AgeInv, CountInv, ACTypeOK
    <2>3. age' = age + 1
      BY <1>6, <2>2, AccessAssumption
         DEF TimePasses, Aging, CountUp, Timed, AgeCap
    <2>4. now' = Plus(now, 1)
      BY <1>6 DEF TimePasses, Aging, MillisPasses
    <2> QED
      BY <2>1, <2>2, <2>3, <2>4, U32Assumption, AccessAssumption
         DEF Minus, Plus, Millis
  <1>7. CASE UNCHANGED acVars
    BY <1>7, <1>3 DEF acVars, members, history
  <1> QED
    BY <1>2, <1>3, <1>4, <1>5, <1>6, <1>7 DEF ACNext

(* The machine never stays in an unfinished authentication past its timeout. *)
THEOREM TimeoutsPrompt == ACSpec => []TimeoutPrompt
  <1>1. AgeInv => TimeoutPrompt
    BY DEF AgeInv
  <1> QED
    BY AgeInit, AgeStep, <1>1, PTL DEF ACSpec

-----------------------------------------------------------------------------
(***************************************************************************)
(* The first epoch.  There the two absolute deadlines are what they were   *)
(* meant to be, the present plus what is left:                             *)
(***************************************************************************)
PenaltyInv ==
    /\ penaltyLeft > 0 /\ state # "LOCKOUT" => penalty_until_ms = now + penaltyLeft
    /\ penaltyLeft = 0 \/ state = "LOCKOUT" => penalty_until_ms <= now

LockoutInv ==
    state = "LOCKOUT" =>
        /\ \/ lockout_until_ms + age = now + LOCKOUT_MS
           \/ age >= LOCKOUT_MS /\ lockout_until_ms <= now
        /\ penaltyLeft > 0 => penaltyLeft + age <= FAIL_PENALTY_MS

DeadlineInv == CountInv /\ FirstEpoch /\ PenaltyInv /\ LockoutInv /\ PenaltyServed

LEMMA DeadlineInit == ACInit => DeadlineInv
  BY CountInit, AccessAssumption
     DEF ACInit, DeadlineInv, FirstEpoch, PenaltyInv, LockoutInv, PenaltyServed

(* Progress is only made when no penalty is left. *)
LEMMA NoPenalty ==
    ASSUME DeadlineInv, NEW ev, Accepts(ev), ev \notin HardLocks
    PROVE  penaltyLeft = 0 /\ penalty_until_ms <= now
  BY Constants
     DEF Accepts, InPenalty, DeadlineInv, PenaltyInv, CountInv, ACTypeOK, Millis

LEMMA DeadlineFailure ==
    ASSUME DeadlineInv, CountInv', penaltyLeft = 0, penalty_until_ms <= now,
           register_failure, UNCHANGED now
    PROVE  DeadlineInv'
  <1>1. /\ Plus(now, LOCKOUT_MS) = now + LOCKOUT_MS
        /\ Plus(now, FAIL_PENALTY_MS) = now + FAIL_PENALTY_MS
    BY U32Assumption, AccessAssumption
       DEF Plus, DeadlineInv, FirstEpoch, CountInv, ACTypeOK, Millis
  <1>2. /\ FirstEpoch' /\ penaltyLeft' = FAIL_PENALTY_MS /\ age' = 0
        /\ now' = now /\ now \in Nat /\ FAIL_PENALTY_MS \in Nat
        /\ LOCKOUT_MS \in Nat
    BY U32Assumption, AccessAssumption
       DEF DeadlineInv, FirstEpoch, register_failure, enter, CountInv, ACTypeOK,
           Millis
  <1>3. CASE /\ state' = "LOCKOUT"
             /\ lockout_until_ms' = Plus(now, LOCKOUT_MS)
             /\ UNCHANGED penalty_until_ms
    BY <1>1, <1>2, <1>3
       DEF DeadlineInv, FirstEpoch, PenaltyInv, LockoutInv, PenaltyServed
  <1>4. CASE state' = "IDLE" /\ penalty_until_ms' = Plus(now, FAIL_PENALTY_MS)
    BY <1>1, <1>2, <1>4, AccessAssumption
       DEF DeadlineInv, FirstEpoch, PenaltyInv, LockoutInv, PenaltyServed
  <1> QED
    BY <1>3, <1>4 DEF register_failure, enter

LEMMA DeadlineEvent ==
    ASSUME DeadlineInv, NEW ev \in AccessEvent, handle_event(ev), UNCHANGED now
    PROVE  DeadlineInv'
  <1>1. CountInv'
    BY CountEvent DEF DeadlineInv
  <1>2. CASE Accepts(ev) /\ HardLock(ev)
    BY <1>1, <1>2
       DEF Accepts, HardLock, enter, timers, DeadlineInv, FirstEpoch,
           PenaltyInv, LockoutInv, PenaltyServed
  <1>3. CASE Accepts(ev) /\ ~HardLock(ev)
    <2>1. ev \notin HardLocks \/ Fail(ev) \/ Progress(ev) \/ Unlock(ev) \/ Depart(ev)
      BY <1>3 DEF handle_event
    <2>2. ev \notin HardLocks
      BY <1>3, <2>1
         DEF handle_event, Fail, Progress, Unlock, Depart, HardLocks, Failures
    <2>3. penaltyLeft = 0 /\ penalty_until_ms <= now
      BY <1>3, <2>2, NoPenalty
    <2>4. CASE Fail(ev)
      BY <1>1, <2>3, <2>4, DeadlineFailure DEF Fail
    <2>5. CASE Progress(ev) \/ Unlock(ev) \/ Depart(ev)
      BY <1>1, <2>3, <2>5
         DEF Progress, Unlock, Depart, enter, timers, DeadlineInv, FirstEpoch,
             PenaltyInv, LockoutInv, PenaltyServed
    <2> QED
      BY <1>3, <2>4, <2>5 DEF handle_event
  <1>4. CASE ~Accepts(ev) /\ Ignored
    BY <1>1, <1>4
       DEF Ignored, timers, DeadlineInv, FirstEpoch, PenaltyInv, LockoutInv,
           PenaltyServed
  <1> QED
    BY <1>2, <1>3, <1>4 DEF handle_event

LEMMA DeadlineTick ==
    ASSUME DeadlineInv, tick, UNCHANGED now
    PROVE  DeadlineInv' /\ (state = "LOCKOUT" => age >= LOCKOUT_MS)
  <1>1. CountInv'
    BY CountTick DEF DeadlineInv
  <1>2. ASSUME state = "LOCKOUT" PROVE age >= LOCKOUT_MS /\ penaltyLeft = 0
    BY <1>2, AccessAssumption, Constants
       DEF tick, LockoutOver, TimedOut, Transient, DeadlineInv, LockoutInv,
           CountInv, ACTypeOK, Millis
  <1>3. DeadlineInv'
    BY <1>1, <1>2
       DEF tick, enter, timers, DeadlineInv, FirstEpoch, PenaltyInv, LockoutInv,
           PenaltyServed
  <1> QED
    BY <1>2, <1>3

LEMMA DeadlineAging ==
    ASSUME DeadlineInv, Aging, FirstEpoch'
    PROVE  DeadlineInv'
  <1>1. CountInv'
    BY CountAging DEF DeadlineInv
  <1>2. now' = now + 1
    BY U32Assumption, AccessAssumption
       DEF Aging, MillisPasses, Plus, DeadlineInv, FirstEpoch, CountInv,
           ACTypeOK, Millis
  <1>3. /\ age \in Nat /\ penaltyLeft \in Nat /\ now \in Nat
        /\ lockout_until_ms \in Nat /\ penalty_until_ms \in Nat
        /\ LOCKOUT_MS \in Nat /\ FAIL_PENALTY_MS \in Nat
    BY Constants, AccessAssumption DEF DeadlineInv, CountInv, ACTypeOK, Millis
  <1>4. /\ penaltyLeft' = IF penaltyLeft > 0 THEN penaltyLeft - 1 ELSE 0
        /\ UNCHANGED <<state, penalty_until_ms, lockout_until_ms>>
    BY DEF Aging, CountDown, members
  <1>5. PenaltyInv' /\ PenaltyServed'
    BY <1>2, <1>3, <1>4 DEF DeadlineInv, PenaltyInv, PenaltyServed
  <1>6. CASE state = "LOCKOUT"
    <2>1. age' = (IF age < AgeCap THEN age + 1 ELSE age)
      BY <1>6, <1>3, Constants
         DEF Aging, Timed, CountUp, DeadlineInv, CountInv, ACTypeOK
    <2>2. age = AgeCap => age >= LOCKOUT_MS
      BY <1>3, AccessAssumption DEF AgeCap
    <2>3. age \in 0 .. AgeCap
      BY DEF DeadlineInv, CountInv, ACTypeOK
    <2>4. LockoutInv'
      BY <1>2, <1>3, <1>4, <1>6, <2>1, <2>2, <2>3, Constants
         DEF DeadlineInv, LockoutInv
    <2> QED
      BY <1>1, <1>5, <2>4 DEF DeadlineInv
  <1>7. CASE state # "LOCKOUT"
    BY <1>1, <1>4, <1>5, <1>7 DEF DeadlineInv, LockoutInv
  <1> QED
    BY <1>6, <1>7

LEMMA DeadlineStep == DeadlineInv /\ [ACNext /\ FirstEpoch']_acVars => DeadlineInv'
  <1> SUFFICES ASSUME DeadlineInv, [ACNext /\ FirstEpoch']_acVars
               PROVE  DeadlineInv'
    OBVIOUS
  <1>1. ASSUME NEW ev \in AccessEvent, HandleEvent(ev) PROVE DeadlineInv'
    BY <1>1, DeadlineEvent DEF HandleEvent
  <1>2. CASE Tick
    BY <1>2, DeadlineTick DEF Tick
  <1>3. CASE TimePasses /\ FirstEpoch'
    BY <1>3, DeadlineAging DEF TimePasses
  <1>4. CASE UNCHANGED acVars
    BY <1>4
       DEF acVars, members, history, DeadlineInv, CountInv, ACTypeOK,
           LockoutIffExhausted, FirstEpoch, PenaltyInv, LockoutInv, PenaltyServed
  <1> QED
    BY <1>1, <1>2, <1>3, <1>4 DEF ACNext

(* No progress before the latest failure's penalty is over. *)
THEOREM PenaltyAlwaysServed == ACSpecFirstEpoch => []PenaltyServed
  <1>1. DeadlineInv => PenaltyServed
    BY DEF DeadlineInv
  <1> QED
    BY DeadlineInit, DeadlineStep, <1>1, PTL DEF ACSpecFirstEpoch

(* In UNLOCKED no penalty deadline is ahead, so a departure is heard. *)
THEOREM DepartureAlwaysLocks == ACSpecFirstEpoch => DepartureLocks
  <1>1. ASSUME DeadlineInv, HandleEvent("UWB_FAR"), state = "UNLOCKED"
        PROVE  state' = "LOCKED"
    <2>1. ~InPenalty
      BY <1>1, Constants
         DEF InPenalty, DeadlineInv, PenaltyInv, PenaltyServed, CountInv,
             ACTypeOK, Millis
    <2>2. Accepts("UWB_FAR")
      BY <1>1, <2>1 DEF Accepts, Expected
    <2> QED
      BY <1>1, <2>2
         DEF HandleEvent, handle_event, HardLock, HardLocks, Progress, Unlock,
             Fail, Failures, Depart, enter
  <1>2. DeadlineInv /\ [ACNext /\ FirstEpoch']_acVars
          => [HandleEvent("UWB_FAR") /\ state = "UNLOCKED" => state' = "LOCKED"]_acVars
    BY <1>1
  <1> QED
    BY DeadlineInit, DeadlineStep, <1>2, PTL DEF ACSpecFirstEpoch, DepartureLocks

(* No unit passes while a lockout's deadline is reached. *)
LEMMA PromptStep ==
    ASSUME DeadlineInv, LockoutPrompt, [ACNext /\ FirstEpoch']_acVars
    PROVE  LockoutPrompt'
  <1>0. LOCKOUT_MS \in Nat
    BY AccessAssumption
  <1>1. ASSUME NEW ev \in AccessEvent, HandleEvent(ev) PROVE LockoutPrompt'
    BY <1>0, <1>1
       DEF HandleEvent, handle_event, HardLock, Progress, Unlock, Depart, Fail,
           register_failure, Ignored, enter, LockoutPrompt
  <1>2. CASE Tick
    BY <1>2 DEF Tick, tick, enter, LockoutPrompt
  <1>3. CASE TimePasses
    <2>1. CASE state = "LOCKOUT"
      <3>1. /\ age \in Nat /\ age \in 0 .. AgeCap /\ now \in Nat
            /\ lockout_until_ms \in Nat
        BY Constants DEF DeadlineInv, CountInv, ACTypeOK, Millis
      <3>2. now < lockout_until_ms
        BY <1>3, <2>1, <3>1 DEF TimePasses, LockoutOver
      <3>3. age < LOCKOUT_MS
        BY <1>0, <2>1, <3>1, <3>2 DEF DeadlineInv, LockoutInv
      <3>4. age' = age + 1 \/ age' = age
        <4>1. age' = (IF age < AgeCap THEN age + 1 ELSE AgeCap)
          BY <1>3, <2>1 DEF TimePasses, Aging, CountUp, Timed
        <4> QED
          BY <3>1, <4>1, Constants
      <3> QED
        BY <1>0, <3>1, <3>3, <3>4 DEF LockoutPrompt
    <2>2. CASE state # "LOCKOUT"
      BY <1>3, <2>2 DEF TimePasses, Aging, members, LockoutPrompt
    <2> QED
      BY <2>1, <2>2
  <1>4. CASE UNCHANGED acVars
    BY <1>4 DEF acVars, members, history, LockoutPrompt
  <1> QED
    BY <1>1, <1>2, <1>3, <1>4 DEF ACNext


(***************************************************************************)
(* In the first epoch a lockout is over when its time is: no unit passes   *)
(* while the deadline is reached, and the deadline is the true one.        *)
(***************************************************************************)
THEOREM LockoutAlwaysPrompt == ACSpecFirstEpoch => []LockoutPrompt
  <1>1. ACInit => LockoutPrompt
    BY DEF ACInit, LockoutPrompt
  <1>2. DeadlineInv /\ LockoutPrompt /\ [ACNext /\ FirstEpoch']_acVars => LockoutPrompt'
    BY PromptStep
  <1> QED
    BY DeadlineInit, DeadlineStep, <1>1, <1>2, PTL DEF ACSpecFirstEpoch

-----------------------------------------------------------------------------
(***************************************************************************)
(* The session behind each state.  A UWB_FAR that is refused would leave   *)
(* the machine in a state whose proximity has been taken back; DeadlineInv *)
(* excludes it.                                                            *)
(***************************************************************************)
LEMMA SessionEvent ==
    ASSUME DeadlineInv, SessionProven, NEW ev \in AccessEvent, handle_event(ev)
    PROVE  SessionProven'
  <1>1. state \in {"UWB_NEAR", "UNLOCKED"} => ~InPenalty
    BY Constants
       DEF InPenalty, DeadlineInv, PenaltyInv, PenaltyServed, CountInv,
           ACTypeOK, Millis
  <1>2. CASE Accepts(ev) /\ HardLock(ev)
    BY <1>2 DEF HardLock, enter, SessionProven
  <1>3. CASE Accepts(ev) /\ Progress(ev)
    BY <1>3
       DEF handle_event, Accepts, Expected, Progress, enter, Proven, HardLocks,
           Factors, Before, SessionProven
  <1>4. CASE Accepts(ev) /\ Unlock(ev)
    <2>1. state = "UWB_NEAR" /\ ev = "AUTH_OK" /\ state' = "UNLOCKED"
      BY <1>4 DEF Accepts, Expected, Unlock, enter, HardLocks
    <2>2. proven' = proven \cup {"AUTH_OK"}
      BY <2>1 DEF handle_event, Proven, HardLocks, Factors, SessionProven
    <2> QED
      BY <2>1, <2>2 DEF SessionProven, Factors, Before
  <1>5. CASE Accepts(ev) /\ Depart(ev)
    BY <1>5 DEF Depart, enter, SessionProven
  <1>6. CASE Accepts(ev) /\ Fail(ev)
    BY <1>6 DEF Fail, register_failure, enter, SessionProven
  <1>7. CASE ~Accepts(ev) /\ Ignored
    <2>1. state' = state
      BY <1>7 DEF Ignored
    <2>2. ev \in HardLocks => state = "LOCKOUT"
      BY <1>7 DEF Accepts
    <2>3. ev = "UWB_FAR" => state \notin {"UWB_NEAR", "UNLOCKED"}
      BY <1>1, <1>7 DEF Accepts, Expected
    <2>4. CASE ev \in HardLocks
      BY <2>1, <2>2, <2>4 DEF SessionProven
    <2>5. CASE ev = "UWB_FAR"
      BY <2>1, <2>3, <2>5
         DEF handle_event, Proven, HardLocks, SessionProven, Before
    <2>6. CASE ev \notin HardLocks /\ ev # "UWB_FAR"
      <3>1. proven \subseteq proven'
        BY <2>6 DEF handle_event, Proven
      <3> QED
        BY <2>1, <3>1 DEF SessionProven
    <2> QED
      BY <2>4, <2>5, <2>6
  <1> QED
    BY <1>2, <1>3, <1>4, <1>5, <1>6, <1>7 DEF handle_event

SessionInv == DeadlineInv /\ SessionProven

LEMMA SessionInit == ACInit => SessionInv
  BY DeadlineInit DEF ACInit, SessionInv, SessionProven

LEMMA SessionStep == SessionInv /\ [ACNext /\ FirstEpoch']_acVars => SessionInv'
  <1> SUFFICES ASSUME SessionInv, [ACNext /\ FirstEpoch']_acVars
               PROVE  SessionProven'
    BY DeadlineStep DEF SessionInv
  <1>1. ASSUME NEW ev \in AccessEvent, HandleEvent(ev) PROVE SessionProven'
    BY <1>1, SessionEvent DEF HandleEvent, SessionInv
  <1>2. CASE Tick
    BY <1>2 DEF Tick, tick, enter, SessionProven
  <1>3. CASE TimePasses
    BY <1>3 DEF TimePasses, Aging, members, SessionInv, SessionProven
  <1>4. CASE UNCHANGED acVars
    BY <1>4 DEF acVars, members, history, SessionInv, SessionProven
  <1> QED
    BY <1>1, <1>2, <1>3, <1>4 DEF ACNext

(* The door unlocks only for a key that proved every factor, in order. *)
THEOREM SessionAlwaysProven == ACSpecFirstEpoch => []SessionProven
  <1>1. SessionInv => SessionProven
    BY DEF SessionInv
  <1> QED
    BY SessionInit, SessionStep, <1>1, PTL DEF ACSpecFirstEpoch

-----------------------------------------------------------------------------
(***************************************************************************)
(* The machine implements the untimed flow in the first epoch: a refused   *)
(* event is one the flow ignores, a due timer is one of the flow's         *)
(* spontaneous steps, and a unit of time changes nothing the flow sees but *)
(* the end of the penalty.                                                 *)
(***************************************************************************)
LEMMA FlowEvent ==
    ASSUME DeadlineInv, NEW ev \in AccessEvent, HandleEvent(ev)
    PROVE  Abstract!FlowNext
  <1>0. ev \in Abstract!Events
    BY DEF AccessEvent, HardLocks, Failures, Factors, Abstract!Events,
           Abstract!Ending, Abstract!Failing
  <1> SUFFICES Abstract!Take(ev)
    BY <1>0 DEF Abstract!FlowNext
  <1>1. now' = now /\ handle_event(ev)
    BY DEF HandleEvent
  <1>2. state \in AccessState \ {"AUTHENTICATED"}
    BY DEF DeadlineInv, CountInv, ACTypeOK
  <1>3. CASE Accepts(ev) /\ HardLock(ev)
    BY <1>1, <1>3
       DEF Accepts, HardLock, HardLocks, enter, timers, InPenalty,
           Abstract!Take, Abstract!End, Abstract!Ending
  <1>4. CASE Accepts(ev) /\ Progress(ev)
    <2>1. ~InPenalty /\ ev \in Expected(state) /\ UNCHANGED <<fail_count, InPenalty>>
      BY <1>1, <1>4 DEF Accepts, Progress, HardLocks, timers, InPenalty
    <2>2. <<state, ev, state'>> \in Abstract!Arrows
      BY <1>4, <2>1 DEF Progress, enter, Expected, Abstract!Arrows
    <2>3. Abstract!Move(ev)
      BY <2>1, <2>2 DEF Abstract!Move
    <2> QED
      BY <2>3 DEF Abstract!Take
  <1>5. CASE Accepts(ev) /\ Unlock(ev)
    <2>1. Abstract!Open(ev)
      BY <1>1, <1>5
         DEF Accepts, Unlock, HardLocks, Expected, enter, timers, InPenalty, Abstract!Open
    <2> QED
      BY <2>1 DEF Abstract!Take
  <1>6. CASE Accepts(ev) /\ Depart(ev)
    <2>1. ~InPenalty /\ ev \in Expected(state) /\ UNCHANGED <<fail_count, InPenalty>>
      BY <1>1, <1>6 DEF Accepts, Depart, HardLocks, timers, InPenalty
    <2>2. <<state, ev, state'>> \in Abstract!Arrows
      BY <1>6, <2>1 DEF Depart, enter, Expected, Abstract!Arrows
    <2>3. Abstract!Move(ev)
      BY <2>1, <2>2 DEF Abstract!Move
    <2> QED
      BY <2>3 DEF Abstract!Take
  <1>7. CASE Accepts(ev) /\ Fail(ev)
    <2>1. /\ ~InPenalty /\ penaltyLeft = 0 /\ penalty_until_ms <= now
          /\ <<state, ev>> \in {<<"BLE_CONNECTED", "NFC_FAIL">>,
                                <<"UWB_NEAR", "AUTH_FAIL">>}
      BY <1>7, NoPenalty DEF Accepts, Fail, Failures, HardLocks, Expected
    <2>2. fail_count \in Nat /\ fail_count < MAX_CONSECUTIVE_FAILS
      BY <2>1, Constants DEF DeadlineInv, CountInv, ACTypeOK, LockoutIffExhausted
    <2>3. Plus(now, FAIL_PENALTY_MS) > now
      BY U32Assumption, AccessAssumption
         DEF Plus, DeadlineInv, FirstEpoch, CountInv, ACTypeOK, Millis
    <2>4. Abstract!Punish(ev)
      BY <1>1, <1>7, <2>1, <2>2, <2>3, Constants
         DEF Fail, register_failure, enter, InPenalty, Abstract!Punish
    <2> QED
      BY <2>4 DEF Abstract!Take
  <1>8. CASE ~Accepts(ev) /\ Ignored
    <2>1. ~Abstract!Reacts(ev)
      BY <1>2, <1>8
         DEF Accepts, Expected, HardLocks, Abstract!Reacts, Abstract!Ending,
             Abstract!Arrows
    <2>2. UNCHANGED <<state, fail_count, InPenalty>>
      BY <1>1, <1>8 DEF Ignored, timers, InPenalty
    <2> QED
      BY <2>1, <2>2 DEF Abstract!Take, Abstract!Ignore, Abstract!flowVars
  <1> QED
    BY <1>1, <1>3, <1>4, <1>5, <1>6, <1>7, <1>8 DEF handle_event

LEMMA FlowTick ==
    ASSUME DeadlineInv, tick, UNCHANGED now
    PROVE  Abstract!FlowNext
  <1>1. CASE LockoutOver /\ fail_count' = 0
    <2>1. Abstract!LockoutRunsOut
      BY <1>1 DEF tick, LockoutOver, enter, timers, InPenalty, Abstract!LockoutRunsOut
    <2> QED
      BY <2>1 DEF Abstract!FlowNext
  <1>2. CASE TimedOut /\ UNCHANGED fail_count
    <2>1. state \in Abstract!Unfinished
      BY <1>2 DEF TimedOut, Transient, Abstract!Unfinished, DeadlineInv,
                  CountInv, ACTypeOK
    <2>2. Abstract!TimeOut
      BY <1>2, <2>1 DEF tick, enter, timers, InPenalty, Abstract!TimeOut
    <2> QED
      BY <2>2 DEF Abstract!FlowNext
  <1> QED
    BY <1>1, <1>2 DEF tick

LEMMA FlowAging ==
    ASSUME DeadlineInv, Aging, FirstEpoch'
    PROVE  Abstract!FlowNext \/ UNCHANGED Abstract!flowVars
  <1>1. now' = now + 1 /\ UNCHANGED <<state, fail_count, penalty_until_ms>>
    BY U32Assumption, AccessAssumption
       DEF Aging, MillisPasses, Plus, members, DeadlineInv, FirstEpoch, CountInv,
           ACTypeOK, Millis
  <1>2. now \in Nat /\ penalty_until_ms \in Nat
    BY Constants DEF DeadlineInv, CountInv, ACTypeOK, Millis
  <1>3. CASE InPenalty /\ ~InPenalty'
    BY <1>1, <1>3 DEF Abstract!FlowNext, Abstract!PenaltyRunsOut
  <1>4. CASE InPenalty' = InPenalty
    BY <1>1, <1>4 DEF Abstract!flowVars
  <1> QED
    BY <1>1, <1>2, <1>3, <1>4 DEF InPenalty

THEOREM FlowImplemented == ACSpecFirstEpoch => ImplementsFlow
  <1>1. ACInit => Abstract!FlowInit
    BY DEF ACInit, InPenalty, Abstract!FlowInit
  <1>2. DeadlineInv /\ [ACNext /\ FirstEpoch']_acVars
          => [Abstract!FlowNext]_(Abstract!flowVars)
    <2> SUFFICES ASSUME DeadlineInv, [ACNext /\ FirstEpoch']_acVars
                 PROVE  Abstract!FlowNext \/ UNCHANGED Abstract!flowVars
      OBVIOUS
    <2>1. ASSUME NEW ev \in AccessEvent, HandleEvent(ev) PROVE Abstract!FlowNext
      BY <2>1, FlowEvent
    <2>2. CASE Tick
      BY <2>2, FlowTick DEF Tick
    <2>3. CASE TimePasses /\ FirstEpoch'
      BY <2>3, FlowAging DEF TimePasses
    <2>4. CASE UNCHANGED acVars
      BY <2>4 DEF acVars, members, InPenalty, Abstract!flowVars
    <2> QED
      BY <2>1, <2>2, <2>3, <2>4 DEF ACNext
  <1> QED
    BY <1>1, <1>2, DeadlineInit, DeadlineStep, PTL
       DEF ACSpecFirstEpoch, ImplementsFlow, Abstract!FlowSpec

(***************************************************************************)
(* The same over all uptimes, with a penalty that a wrapped deadline ends  *)
(* at once, or that an old deadline brings back.                           *)
(***************************************************************************)
LEMMA UptimeEvent ==
    ASSUME CountInv, NEW ev \in AccessEvent, HandleEvent(ev)
    PROVE  Uptime!FlowNext
  <1>0. ev \in Uptime!Events
    BY DEF AccessEvent, HardLocks, Failures, Factors, Uptime!Events,
           Uptime!Ending, Uptime!Failing
  <1> SUFFICES Uptime!Take(ev)
    BY <1>0 DEF Uptime!FlowNext
  <1>1. now' = now /\ handle_event(ev)
    BY DEF HandleEvent
  <1>2. state \in AccessState \ {"AUTHENTICATED"}
    BY DEF CountInv, ACTypeOK
  <1>3. CASE Accepts(ev) /\ HardLock(ev)
    BY <1>1, <1>3
       DEF Accepts, HardLock, HardLocks, enter, timers, InPenalty,
           Uptime!Take, Uptime!End, Uptime!Ending
  <1>4. CASE Accepts(ev) /\ Progress(ev)
    <2>1. ~InPenalty /\ ev \in Expected(state) /\ UNCHANGED <<fail_count, InPenalty>>
      BY <1>1, <1>4 DEF Accepts, Progress, HardLocks, timers, InPenalty
    <2>2. <<state, ev, state'>> \in Uptime!Arrows
      BY <1>4, <2>1 DEF Progress, enter, Expected, Uptime!Arrows
    <2>3. Uptime!Move(ev)
      BY <2>1, <2>2 DEF Uptime!Move
    <2> QED
      BY <2>3 DEF Uptime!Take
  <1>5. CASE Accepts(ev) /\ Unlock(ev)
    <2>1. Uptime!Open(ev)
      BY <1>1, <1>5
         DEF Accepts, Unlock, HardLocks, Expected, enter, timers, InPenalty, Uptime!Open
    <2> QED
      BY <2>1 DEF Uptime!Take
  <1>6. CASE Accepts(ev) /\ Depart(ev)
    <2>1. ~InPenalty /\ ev \in Expected(state) /\ UNCHANGED <<fail_count, InPenalty>>
      BY <1>1, <1>6 DEF Accepts, Depart, HardLocks, timers, InPenalty
    <2>2. <<state, ev, state'>> \in Uptime!Arrows
      BY <1>6, <2>1 DEF Depart, enter, Expected, Uptime!Arrows
    <2>3. Uptime!Move(ev)
      BY <2>1, <2>2 DEF Uptime!Move
    <2> QED
      BY <2>3 DEF Uptime!Take
  <1>7. CASE Accepts(ev) /\ Fail(ev)
    <2>1. /\ ~InPenalty
          /\ <<state, ev>> \in {<<"BLE_CONNECTED", "NFC_FAIL">>,
                                <<"UWB_NEAR", "AUTH_FAIL">>}
      BY <1>7 DEF Accepts, Fail, Failures, HardLocks, Expected
    <2>2. fail_count \in Nat /\ fail_count < MAX_CONSECUTIVE_FAILS
      BY <2>1, Constants DEF CountInv, ACTypeOK, LockoutIffExhausted
    <2>3. InPenalty' \in BOOLEAN
      BY DEF InPenalty
    <2>4. Uptime!Punish(ev)
      BY <1>1, <1>7, <2>1, <2>2, <2>3, Constants
         DEF Fail, register_failure, enter, InPenalty, Uptime!Punish
    <2> QED
      BY <2>4 DEF Uptime!Take
  <1>8. CASE ~Accepts(ev) /\ Ignored
    <2>1. ~Uptime!Reacts(ev)
      BY <1>2, <1>8
         DEF Accepts, Expected, HardLocks, Uptime!Reacts, Uptime!Ending,
             Uptime!Arrows
    <2>2. UNCHANGED <<state, fail_count, InPenalty>>
      BY <1>1, <1>8 DEF Ignored, timers, InPenalty
    <2> QED
      BY <2>1, <2>2 DEF Uptime!Take, Uptime!Ignore, Uptime!flowVars
  <1> QED
    BY <1>1, <1>3, <1>4, <1>5, <1>6, <1>7, <1>8 DEF handle_event

LEMMA UptimeTick ==
    ASSUME CountInv, tick, UNCHANGED now
    PROVE  Uptime!FlowNext
  <1>1. CASE LockoutOver /\ fail_count' = 0
    <2>1. Uptime!LockoutRunsOut
      BY <1>1 DEF tick, LockoutOver, enter, timers, InPenalty, Uptime!LockoutRunsOut
    <2> QED
      BY <2>1 DEF Uptime!FlowNext
  <1>2. CASE TimedOut /\ UNCHANGED fail_count
    <2>1. state \in Uptime!Unfinished
      BY <1>2 DEF TimedOut, Transient, Uptime!Unfinished,
                  CountInv, ACTypeOK
    <2>2. Uptime!TimeOut
      BY <1>2, <2>1 DEF tick, enter, timers, InPenalty, Uptime!TimeOut
    <2> QED
      BY <2>2 DEF Uptime!FlowNext
  <1> QED
    BY <1>1, <1>2 DEF tick

LEMMA UptimeAging ==
    ASSUME Aging
    PROVE  Uptime!FlowNext \/ UNCHANGED Uptime!flowVars
  <1>1. UNCHANGED <<state, fail_count>>
    BY DEF Aging, members
  <1>2. CASE InPenalty /\ ~InPenalty'
    BY <1>1, <1>2 DEF Uptime!FlowNext, Uptime!PenaltyRunsOut
  <1>3. CASE ~InPenalty /\ InPenalty'
    BY <1>1, <1>3 DEF Uptime!FlowNext, Uptime!PenaltyReturns
  <1>4. CASE InPenalty' = InPenalty
    BY <1>1, <1>4 DEF Uptime!flowVars
  <1> QED
    BY <1>2, <1>3, <1>4 DEF InPenalty

THEOREM FlowOverWraps == ACSpec => ImplementsFlowOverWraps
  <1>1. ACInit => Uptime!FlowInit
    BY DEF ACInit, InPenalty, Uptime!FlowInit
  <1>2. CountInv /\ [ACNext]_acVars => [Uptime!FlowNext]_(Uptime!flowVars)
    <2> SUFFICES ASSUME CountInv, [ACNext]_acVars
                 PROVE  Uptime!FlowNext \/ UNCHANGED Uptime!flowVars
      OBVIOUS
    <2>1. ASSUME NEW ev \in AccessEvent, HandleEvent(ev) PROVE Uptime!FlowNext
      BY <2>1, UptimeEvent
    <2>2. CASE Tick
      BY <2>2, UptimeTick DEF Tick
    <2>3. CASE TimePasses
      BY <2>3, UptimeAging DEF TimePasses
    <2>4. CASE UNCHANGED acVars
      BY <2>4 DEF acVars, members, InPenalty, Uptime!flowVars
    <2> QED
      BY <2>1, <2>2, <2>3, <2>4 DEF ACNext
  <1> QED
    BY <1>1, <1>2, CountInit, CountStep, PTL
       DEF ACSpec, ImplementsFlowOverWraps, Uptime!FlowSpec

-----------------------------------------------------------------------------
(***************************************************************************)
(* The rate of the guesses.  Penalties(k) is the time k penalties take.    *)
(***************************************************************************)
Penalties(k) == k * FAIL_PENALTY_MS

LEMMA PenaltiesFacts ==
    ASSUME NEW k \in Nat
    PROVE  /\ Penalties(k) \in Nat /\ Penalties(0) = 0
           /\ Penalties(k + 1) = Penalties(k) + FAIL_PENALTY_MS
           /\ \A j \in 0 .. k : Penalties(j) <= Penalties(k)
  BY AccessAssumption DEF Penalties

(***************************************************************************)
(* How far back a failure lies: a is its age, d the number of failures     *)
(* after it, c the count and p what is left of the latest penalty.  Of the *)
(* present streak, a penalty for it and for each after it; from before it, *)
(* a lockout in place of one of them.                                      *)
(***************************************************************************)
Apart(a, d, c, p) ==
    /\ d < c => a + p >= Penalties(d + 1)
    /\ d >= c => a + p >= Penalties(d) + LOCKOUT_MS

(* Another failure, with the penalty served, pushes it one further back. *)
LEMMA ApartFailure ==
    ASSUME NEW a \in Nat, NEW d \in Nat, NEW c \in Nat, Apart(a, d, c, 0)
    PROVE  /\ Apart(a, d + 1, c + 1, FAIL_PENALTY_MS)
           /\ a >= Penalties(d + 1)
  <1>1. /\ Penalties(d) \in Nat /\ Penalties(d + 1) = Penalties(d) + FAIL_PENALTY_MS
        /\ Penalties((d + 1) + 1) = Penalties(d + 1) + FAIL_PENALTY_MS
    BY PenaltiesFacts
  <1> QED BY <1>1, AccessAssumption DEF Apart

LEMMA RateWindowType ==
    /\ RateWindow \in Nat
    /\ RateWindow = LOCKOUT_MS + Penalties(MAX_CONSECUTIVE_FAILS - 1)
  <1>1. MAX_CONSECUTIVE_FAILS - 1 \in Nat
    BY AccessAssumption
  <1>2. Penalties(MAX_CONSECUTIVE_FAILS - 1) \in Nat
    BY <1>1, PenaltiesFacts
  <1>3. RateWindow = LOCKOUT_MS + Penalties(MAX_CONSECUTIVE_FAILS - 1)
    BY DEF RateWindow, Penalties
  <1> QED BY <1>2, <1>3, AccessAssumption

LEMMA ApartAges ==
    ASSUME NEW d \in 0 .. MAX_CONSECUTIVE_FAILS - 1, NEW c \in Nat,
           NEW a \in 0 .. RateWindow, NEW p \in Nat, Apart(a, d, c, p)
    PROVE  Apart(CountUp(a, RateWindow), d, c, CountDown(p))
  <1>0. MAX_CONSECUTIVE_FAILS - 1 \in Nat /\ d \in Nat
    BY AccessAssumption
  <1>1. /\ Penalties(d) \in Nat /\ Penalties(d) <= Penalties(MAX_CONSECUTIVE_FAILS - 1)
        /\ Penalties(d + 1) = Penalties(d) + FAIL_PENALTY_MS
        /\ Penalties(MAX_CONSECUTIVE_FAILS - 1) \in Nat
    BY <1>0, PenaltiesFacts
  <1>2. RateWindow = LOCKOUT_MS + Penalties(MAX_CONSECUTIVE_FAILS - 1)
    BY DEF RateWindow, Penalties
  <1>3. /\ RateWindow \in Nat /\ Penalties(d + 1) <= RateWindow
        /\ Penalties(d) + LOCKOUT_MS <= RateWindow
    BY <1>1, <1>2, AccessAssumption
  <1>4. CASE a < RateWindow
    <2>1. CountUp(a, RateWindow) = a + 1
      BY <1>4 DEF CountUp
    <2>2. CountUp(a, RateWindow) + CountDown(p) >= a + p
      BY <1>3, <2>1 DEF CountDown
    <2>3. CountUp(a, RateWindow) + CountDown(p) \in Nat
      BY <1>3, <2>1 DEF CountDown
    <2> HIDE DEF CountUp, CountDown
    <2> QED BY <1>1, <1>3, <2>2, <2>3, AccessAssumption DEF Apart
  <1>5. CASE a = RateWindow
    <2>1. CountUp(a, RateWindow) = RateWindow /\ CountDown(p) \in Nat
      BY <1>3, <1>5 DEF CountUp, CountDown
    <2> QED BY <1>1, <1>3, <2>1, AccessAssumption DEF Apart
  <1> QED BY <1>3, <1>4, <1>5

Later(i) == Len(failAges) - i

RateInv ==
    /\ DeadlineInv
    /\ LockoutPrompt
    /\ failAges \in Seq(0 .. RateWindow)
    /\ Len(failAges) <= MAX_CONSECUTIVE_FAILS
    /\ fail_count <= Len(failAges)
    /\ \A i \in 1 .. Len(failAges) :
         /\ Apart(failAges[i], Later(i), fail_count, penaltyLeft)
         /\ state = "LOCKOUT" => failAges[i] >= Penalties(Later(i)) + age

LEMMA RateInitInv == RateInit => RateInv
  <1> SUFFICES ASSUME RateInit PROVE RateInv
    OBVIOUS
  <1>1. DeadlineInv /\ LockoutPrompt /\ fail_count = 0 /\ failAges = <<>>
    BY DeadlineInit DEF RateInit, ACInit, LockoutPrompt
  <1>2. failAges \in Seq(0 .. RateWindow) /\ Len(failAges) = 0
    BY <1>1, EmptySeq
  <1> QED BY <1>1, <1>2, AccessAssumption DEF RateInv

(***************************************************************************)
(* What a step does to the count: it fails with every penalty served, or   *)
(* it succeeds, or it leaves count, penalty and time alone.                *)
(***************************************************************************)
LEMMA EventCounts ==
    ASSUME DeadlineInv, NEW ev \in AccessEvent, HandleEvent(ev)
    PROVE  \/ /\ fail_count' = fail_count + 1 /\ fail_count < MAX_CONSECUTIVE_FAILS
              /\ penaltyLeft = 0 /\ penaltyLeft' = FAIL_PENALTY_MS
              /\ age' = 0 /\ now' = now /\ state' # "UNLOCKED"
           \/ fail_count' = 0 /\ Succeeded /\ UNCHANGED <<now, penaltyLeft>>
           \/ /\ fail_count' = fail_count /\ ~Succeeded /\ UNCHANGED <<now, penaltyLeft>>
              /\ state' = "LOCKOUT" => state = "LOCKOUT" /\ age' = age
  <1>1. now' = now
    BY DEF HandleEvent
  <1>2. CASE Accepts(ev) /\ Fail(ev)
    <2>1. penaltyLeft = 0
      BY <1>2, NoPenalty DEF Fail, Failures, HardLocks
    <2>2. fail_count < MAX_CONSECUTIVE_FAILS
      BY <1>2, Constants
         DEF Accepts, DeadlineInv, CountInv, ACTypeOK, LockoutIffExhausted
    <2> QED BY <1>1, <1>2, <2>1, <2>2 DEF Fail, register_failure, enter
  <1>3. CASE Accepts(ev) /\ Unlock(ev)
    <2>1. state # "UNLOCKED"
      BY <1>3 DEF Accepts, Unlock, HardLocks, Expected
    <2> QED BY <1>1, <1>3, <2>1 DEF Unlock, enter, timers, Succeeded
  <1>4. CASE HardLock(ev) \/ Progress(ev) \/ Depart(ev) \/ Ignored
    BY <1>1, <1>4
       DEF HardLock, Progress, Depart, Ignored, enter, timers, Succeeded
  <1> QED BY <1>2, <1>3, <1>4 DEF HandleEvent, handle_event

LEMMA RateTypes ==
    RateInv => /\ Len(failAges) \in 0 .. MAX_CONSECUTIVE_FAILS
               /\ DOMAIN failAges = 1 .. Len(failAges)
               /\ fail_count \in 0 .. MAX_CONSECUTIVE_FAILS
               /\ penaltyLeft \in Nat /\ age \in Nat
               /\ \A i \in 1 .. Len(failAges) :
                    /\ failAges[i] \in 0 .. RateWindow
                    /\ failAges[i] \in Nat
                    /\ Later(i) \in 0 .. MAX_CONSECUTIVE_FAILS - 1
  <1> SUFFICES ASSUME RateInv
               PROVE  /\ Len(failAges) \in 0 .. MAX_CONSECUTIVE_FAILS
                      /\ DOMAIN failAges = 1 .. Len(failAges)
                      /\ fail_count \in 0 .. MAX_CONSECUTIVE_FAILS
                      /\ penaltyLeft \in Nat /\ age \in Nat
                      /\ \A i \in 1 .. Len(failAges) :
                           /\ failAges[i] \in 0 .. RateWindow
                           /\ failAges[i] \in Nat
                           /\ Later(i) \in 0 .. MAX_CONSECUTIVE_FAILS - 1
    OBVIOUS
  <1>1. /\ Len(failAges) \in Nat /\ DOMAIN failAges = 1 .. Len(failAges)
        /\ \A i \in 1 .. Len(failAges) : failAges[i] \in 0 .. RateWindow
    BY LenProperties, ElementOfSeq DEF RateInv
  <1>2. /\ fail_count \in 0 .. MAX_CONSECUTIVE_FAILS /\ penaltyLeft \in Nat /\ age \in Nat
    BY Constants DEF RateInv, DeadlineInv, CountInv, ACTypeOK
  <1>3. \A i \in 1 .. Len(failAges) : Later(i) \in 0 .. MAX_CONSECUTIVE_FAILS - 1
    BY <1>1, Constants DEF Later, RateInv
  <1>4. Len(failAges) \in 0 .. MAX_CONSECUTIVE_FAILS
    BY <1>1, Constants DEF RateInv
  <1> QED BY <1>1, <1>2, <1>3, <1>4

(***************************************************************************)
(* A counted failure: each of the others is one further back, the oldest   *)
(* of a full list is dropped.                                              *)
(***************************************************************************)
LEMMA RateFailure ==
    ASSUME RateInv, DeadlineInv', LockoutPrompt',
           fail_count' = fail_count + 1, fail_count < MAX_CONSECUTIVE_FAILS,
           penaltyLeft = 0, penaltyLeft' = FAIL_PENALTY_MS, age' = 0,
           failAges' = Append(Latest, 0)
    PROVE  RateInv'
  <1>0. /\ Len(failAges) \in 0 .. MAX_CONSECUTIVE_FAILS
        /\ fail_count \in 0 .. MAX_CONSECUTIVE_FAILS /\ MAX_CONSECUTIVE_FAILS \in Nat \ {0}
        /\ failAges \in Seq(0 .. RateWindow) /\ fail_count <= Len(failAges)
    BY RateTypes, Constants DEF RateInv
  <1>1. RateWindow \in Nat
    BY RateWindowType
  \* k is how many of the oldest are dropped.
  <1>2. \E k \in {0, 1} : /\ Latest \in Seq(0 .. RateWindow)
                          /\ Len(Latest) = Len(failAges) - k
                          /\ Len(Latest) < MAX_CONSECUTIVE_FAILS
                          /\ fail_count <= Len(Latest)
                          /\ \A i \in 1 .. Len(Latest) : Latest[i] = failAges[i + k]
    <2>1. CASE Len(failAges) = MAX_CONSECUTIVE_FAILS
      <3>1. Latest = Tail(failAges) /\ failAges # <<>>
        BY <1>0, <2>1, EmptySeq DEF Latest
      <3>2. /\ Latest \in Seq(0 .. RateWindow) /\ Len(Latest) = Len(failAges) - 1
            /\ \A i \in 1 .. Len(Latest) : Latest[i] = failAges[i + 1]
        BY <1>0, <3>1, HeadTailProperties
      <3>3. fail_count <= Len(Latest) /\ Len(Latest) < MAX_CONSECUTIVE_FAILS
        BY <1>0, <2>1, <3>2
      <3> QED BY <3>2, <3>3
    <2>2. CASE Len(failAges) # MAX_CONSECUTIVE_FAILS
      <3>1. Latest = failAges
        BY <2>2 DEF Latest
      <3>2. /\ Len(failAges) = Len(failAges) - 0 /\ Len(failAges) < MAX_CONSECUTIVE_FAILS
            /\ \A i \in 1 .. Len(failAges) : i + 0 = i
        BY <1>0, <2>2
      <3> QED BY <1>0, <3>1, <3>2
    <2> QED BY <2>1, <2>2
  <1>3. PICK k \in {0, 1} : /\ Latest \in Seq(0 .. RateWindow)
                           /\ Len(Latest) = Len(failAges) - k
                           /\ Len(Latest) < MAX_CONSECUTIVE_FAILS
                           /\ fail_count <= Len(Latest)
                           /\ \A i \in 1 .. Len(Latest) : Latest[i] = failAges[i + k]
    BY <1>2
  <1>4. Len(Latest) \in Nat
    BY <1>3, LenProperties
  <1>5. /\ failAges' \in Seq(0 .. RateWindow) /\ Len(failAges') = Len(Latest) + 1
        /\ \A i \in 1 .. Len(Latest) : failAges'[i] = Latest[i]
        /\ failAges'[Len(Latest) + 1] = 0
    <2>1. 0 \in 0 .. RateWindow
      BY <1>1
    <2> QED BY <1>3, <2>1, AppendProperties
  <1>6. /\ Len(failAges') <= MAX_CONSECUTIVE_FAILS /\ fail_count' <= Len(failAges')
    BY <1>0, <1>3, <1>4, <1>5
  <1>7. ASSUME NEW i \in 1 .. Len(failAges')
        PROVE  /\ Apart(failAges'[i], Later(i)', fail_count', penaltyLeft')
               /\ failAges'[i] >= Penalties(Later(i)') + age'
    <2>1. CASE i \in 1 .. Len(Latest)
      <3>1. i + k \in 1 .. Len(failAges) /\ failAges'[i] = failAges[i + k]
        BY <1>0, <1>3, <1>4, <1>5, <2>1
      <3>2. Later(i)' = Later(i + k) + 1
        BY <1>0, <1>3, <1>5, <2>1 DEF Later
      <3>3. /\ failAges[i + k] \in Nat /\ Later(i + k) \in Nat /\ fail_count \in Nat
            /\ Apart(failAges[i + k], Later(i + k), fail_count, 0)
        BY <1>0, <3>1, RateTypes, Constants DEF RateInv
      <3>4. /\ Apart(failAges[i + k], Later(i + k) + 1, fail_count + 1, FAIL_PENALTY_MS)
            /\ failAges[i + k] >= Penalties(Later(i + k) + 1)
        BY <3>3, ApartFailure
      <3>5. Penalties(Later(i + k) + 1) + 0 = Penalties(Later(i + k) + 1)
        <4>1. Later(i + k) + 1 \in Nat
          BY <3>3
        <4>2. Penalties(Later(i + k) + 1) \in Nat
          BY <4>1, PenaltiesFacts
        <4> QED BY <4>2
      <3> QED BY <3>1, <3>2, <3>4, <3>5
    <2>2. CASE i = Len(Latest) + 1
      <3>1. Later(i)' = 0 /\ failAges'[i] = 0
        BY <1>4, <1>5, <2>2 DEF Later
      <3>2. /\ Penalties(0) = 0 /\ Penalties(0 + 1) = FAIL_PENALTY_MS /\ 0 < fail_count + 1
        BY <1>0, PenaltiesFacts, Constants
      <3>3. Apart(0, 0, fail_count + 1, FAIL_PENALTY_MS)
        BY <1>0, <3>2, Constants DEF Apart
      <3> QED BY <3>1, <3>2, <3>3
    <2> QED BY <1>4, <1>5, <2>1, <2>2
  <1> QED BY <1>5, <1>6, <1>7 DEF RateInv

LEMMA RateSame ==
    ASSUME RateInv, DeadlineInv', LockoutPrompt',
           UNCHANGED <<failAges, fail_count, penaltyLeft>>,
           state' = "LOCKOUT" => state = "LOCKOUT" /\ age' = age
    PROVE  RateInv'
  BY DEF RateInv, Later

LEMMA RateForgets ==
    ASSUME DeadlineInv', LockoutPrompt', fail_count' = 0, failAges' = <<>>
    PROVE  RateInv'
  <1>1. failAges' \in Seq(0 .. RateWindow) /\ Len(failAges') = 0
    BY EmptySeq
  <1> QED BY <1>1, Constants DEF RateInv

(* The end of a lockout puts every failure before it behind a lockout. *)
LEMMA RateLockoutOver ==
    ASSUME RateInv, DeadlineInv', LockoutPrompt', state = "LOCKOUT", age >= LOCKOUT_MS,
           state' = "IDLE", fail_count' = 0, UNCHANGED <<failAges, penaltyLeft>>
    PROVE  RateInv'
  <1>1. ASSUME NEW i \in 1 .. Len(failAges)
        PROVE  Apart(failAges[i], Later(i), 0, penaltyLeft)
    <2>1. /\ failAges[i] \in Nat /\ Later(i) \in Nat /\ penaltyLeft \in Nat /\ age \in Nat
      BY RateTypes, Constants
    <2>2. Penalties(Later(i)) \in Nat
      BY <2>1, PenaltiesFacts
    <2>3. failAges[i] >= Penalties(Later(i)) + age
      BY DEF RateInv
    <2> QED BY <2>1, <2>2, <2>3, AccessAssumption DEF Apart
  <1>2. 0 <= Len(failAges)
    BY RateTypes
  <1> QED BY <1>1, <1>2 DEF RateInv, Later

LEMMA RateAging ==
    ASSUME RateInv, DeadlineInv', LockoutPrompt', Aging,
           failAges' = [i \in DOMAIN failAges |-> CountUp(failAges[i], RateWindow)]
    PROVE  RateInv'
  <1>0. /\ Len(failAges) \in Nat /\ DOMAIN failAges = 1 .. Len(failAges)
        /\ \A i \in 1 .. Len(failAges) : failAges[i] \in 0 .. RateWindow
    BY RateTypes
  <1>1. RateWindow \in Nat
    BY RateWindowType
  <1>2. failAges' \in [1 .. Len(failAges) -> 0 .. RateWindow]
    BY <1>0, <1>1, CountUpType
  <1>3. failAges' \in Seq(0 .. RateWindow)
    BY <1>0, <1>2, SeqDef
  <1>4. Len(failAges') = Len(failAges)
    BY <1>0, <1>2, <1>3, LenProperties
  <1>5. /\ penaltyLeft' = CountDown(penaltyLeft) /\ UNCHANGED <<state, fail_count>>
    BY DEF Aging, members
  <1>6. ASSUME NEW i \in 1 .. Len(failAges)
        PROVE  /\ Later(i)' = Later(i)
               /\ Apart(failAges'[i], Later(i), fail_count, CountDown(penaltyLeft))
    <2>1. failAges'[i] = CountUp(failAges[i], RateWindow)
      BY <1>0
    <2>2. Apart(CountUp(failAges[i], RateWindow), Later(i), fail_count, CountDown(penaltyLeft))
      BY <1>0, RateTypes, ApartAges, Constants DEF RateInv
    <2> QED BY <1>4, <2>1, <2>2 DEF Later
  <1>7. ASSUME NEW i \in 1 .. Len(failAges), state = "LOCKOUT"
        PROVE  failAges'[i] >= Penalties(Later(i)) + age'
    <2>1. failAges'[i] = CountUp(failAges[i], RateWindow)
      BY <1>0
    <2>2. age' = CountUp(age, AgeCap) /\ age \in 0 .. AgeCap /\ AgeCap \in Nat
      BY <1>7, Constants
         DEF Aging, Timed, RateInv, DeadlineInv, CountInv, ACTypeOK
    <2>3. age' \in Nat /\ age' <= age + 1 /\ age' <= LOCKOUT_MS /\ age \in Nat
      <3>1. age' <= LOCKOUT_MS
        BY <1>5, <1>7 DEF LockoutPrompt
      <3> QED BY <2>2, <3>1 DEF CountUp
    <2>4. /\ Later(i) \in 0 .. MAX_CONSECUTIVE_FAILS - 1 /\ failAges[i] \in Nat
          /\ MAX_CONSECUTIVE_FAILS - 1 \in Nat /\ Later(i) \in Nat
      BY RateTypes, Constants
    <2>5. /\ Penalties(Later(i)) \in Nat
          /\ Penalties(MAX_CONSECUTIVE_FAILS - 1) \in Nat
          /\ Penalties(Later(i)) <= Penalties(MAX_CONSECUTIVE_FAILS - 1)
      BY <2>4, PenaltiesFacts
    <2>6. failAges[i] >= Penalties(Later(i)) + age
      BY <1>7 DEF RateInv
    <2>7. LOCKOUT_MS \in Nat
      BY AccessAssumption
    <2>8. failAges'[i] \in {failAges[i] + 1, RateWindow}
      BY <1>0, <2>1, <2>4 DEF CountUp
    <2>9. RateWindow = LOCKOUT_MS + Penalties(MAX_CONSECUTIVE_FAILS - 1)
      BY RateWindowType
    <2> QED BY <2>3, <2>4, <2>5, <2>6, <2>7, <2>8, <2>9
  <1> QED BY <1>3, <1>4, <1>5, <1>6, <1>7 DEF RateInv

LEMMA RateStep == RateInv /\ [RateNext]_rateVars => RateInv'
  <1> SUFFICES ASSUME RateInv, [RateNext]_rateVars PROVE RateInv'
    OBVIOUS
  <1>0. DeadlineInv /\ LockoutPrompt
    BY DEF RateInv
  <1>1. DeadlineInv' /\ LockoutPrompt'
    BY <1>0, DeadlineStep, PromptStep DEF RateNext, rateVars
  <1>2. fail_count \in Nat /\ now \in Int
    BY <1>0, Constants DEF DeadlineInv, CountInv, ACTypeOK, Millis
  <1>3. ASSUME NEW ev \in AccessEvent, HandleEvent(ev), RateNext PROVE RateInv'
    <2>1. CASE /\ fail_count' = fail_count + 1 /\ fail_count < MAX_CONSECUTIVE_FAILS
               /\ penaltyLeft = 0 /\ penaltyLeft' = FAIL_PENALTY_MS /\ age' = 0
      <3>1. Counted
        BY <1>2, <2>1 DEF Counted
      <3> QED BY <1>1, <1>3, <2>1, <3>1, RateFailure DEF RateNext
    <2>2. CASE fail_count' = 0 /\ Succeeded
      <3>1. ~Counted
        BY <1>2, <2>2 DEF Counted
      <3> QED BY <1>1, <1>3, <2>2, <3>1, RateForgets DEF RateNext
    <2>3. CASE /\ fail_count' = fail_count /\ ~Succeeded /\ UNCHANGED <<now, penaltyLeft>>
               /\ state' = "LOCKOUT" => state = "LOCKOUT" /\ age' = age
      <3>1. ~Counted
        BY <1>2, <2>3 DEF Counted
      <3>2. failAges' = failAges
        BY <1>3, <2>3, <3>1 DEF RateNext
      <3> QED BY <1>1, <2>3, <3>2, RateSame
    <2> QED BY <1>0, <1>3, <2>1, <2>2, <2>3, EventCounts
  <1>4. CASE Tick /\ RateNext
    <2>1. failAges' = failAges /\ state' = "IDLE" /\ UNCHANGED penaltyLeft
      BY <1>2, <1>4 DEF Tick, tick, enter, timers, RateNext, Counted, Succeeded
    <2>2. CASE LockoutOver /\ fail_count' = 0
      <3>1. state = "LOCKOUT" /\ age >= LOCKOUT_MS
        BY <1>0, <1>4, <2>2, DeadlineTick DEF Tick, LockoutOver
      <3> QED BY <1>1, <2>1, <2>2, <3>1, RateLockoutOver
    <2>3. CASE UNCHANGED fail_count
      BY <1>1, <2>1, <2>3, RateSame
    <2> QED BY <1>4, <2>2, <2>3 DEF Tick, tick
  <1>5. CASE TimePasses /\ RateNext
    <2>1. UNCHANGED <<state, fail_count>>
      BY <1>5 DEF TimePasses, Aging, members
    <2>2. now' # now
      BY <1>0, <1>5, U32Assumption, AccessAssumption
         DEF TimePasses, Aging, MillisPasses, Plus, DeadlineInv, FirstEpoch, CountInv,
             ACTypeOK, Millis
    <2>3. ~Counted /\ ~Succeeded
      BY <1>2, <2>1 DEF Counted, Succeeded
    <2> QED BY <1>1, <1>5, <2>2, <2>3, RateAging DEF TimePasses, RateNext
  <1>6. CASE UNCHANGED rateVars
    BY <1>1, <1>6, RateSame DEF rateVars, acVars, members, history
  <1> QED BY <1>3, <1>4, <1>5, <1>6 DEF RateNext, ACNext

(***************************************************************************)
(* The rate limit, for every number of failures, penalty and lockout: at a *)
(* counted failure the oldest of a full list lies before the present       *)
(* streak, so a lockout and all penalties but one are behind it.           *)
(***************************************************************************)
THEOREM GuessingIsSlow == RateSpec => RateLimit
  <1>1. ASSUME RateInv, RateNext, Counted, Len(failAges) = MAX_CONSECUTIVE_FAILS
        PROVE  failAges[1] >= RateWindow
    <2>0. DeadlineInv /\ fail_count \in Nat
      BY <1>1, Constants DEF RateInv, DeadlineInv, CountInv, ACTypeOK
    <2>1. fail_count < MAX_CONSECUTIVE_FAILS /\ penaltyLeft = 0
      <3>1. ASSUME NEW ev \in AccessEvent, HandleEvent(ev)
            PROVE  fail_count < MAX_CONSECUTIVE_FAILS /\ penaltyLeft = 0
        BY <1>1, <2>0, <3>1, EventCounts DEF Counted
      <3>2. CASE Tick \/ TimePasses
        BY <1>1, <2>0, <3>2 DEF Tick, tick, TimePasses, Aging, members, Counted
      <3> QED BY <1>1, <3>1, <3>2 DEF RateNext, ACNext
    <2>2. 1 \in 1 .. Len(failAges) /\ Later(1) = MAX_CONSECUTIVE_FAILS - 1
      BY <1>1, Constants DEF Later
    <2>3. Apart(failAges[1], MAX_CONSECUTIVE_FAILS - 1, fail_count, 0) /\ failAges[1] \in Nat
      BY <1>1, <2>1, <2>2, RateTypes DEF RateInv
    <2>4. /\ MAX_CONSECUTIVE_FAILS - 1 >= fail_count
          /\ MAX_CONSECUTIVE_FAILS - 1 \in Nat
      BY <2>0, <2>1, Constants
    <2>5. Penalties(MAX_CONSECUTIVE_FAILS - 1) \in Nat
      BY <2>4, PenaltiesFacts
    <2>6. RateWindow = LOCKOUT_MS + Penalties(MAX_CONSECUTIVE_FAILS - 1)
      BY DEF RateWindow, Penalties
    <2> QED BY <2>3, <2>4, <2>5, <2>6, AccessAssumption DEF Apart
  <1>2. RateInv /\ [RateNext]_rateVars
          => [Counted /\ Len(failAges) = MAX_CONSECUTIVE_FAILS
                => failAges[1] >= RateWindow]_rateVars
    BY <1>1
  <1> QED BY RateInitInv, RateStep, <1>2, PTL DEF RateSpec, RateLimit
=============================================================================

# Verification of the SCA smart key

TLA+ modules of the firmware under `src/firmware`, the TLC configurations that
check them on small instances, and proofs for TLAPS of what matters most. The
source is the reference; documents, comments and tests are only used for what
they promise.

## The system

A car-door controller on an ESP32-S3. A phone connects over BLE and gets a
random challenge, a tag is read by NFC, UWB measures the distance, the phone
answers the challenge, and a state machine decides when the door opens.

| component | state | operations | who calls it |
|---|---|---|---|
| `AccessController` | state, time of entry, penalty and lockout deadlines, failure count | `handle_event`, `tick`, `reset` | controller task only |
| `GpioActuator` | relay, pulse deadline, servo, LED | `begin`, `begin_unlock_pulse`, `lock`, `set_led`, `service` | controller task only |
| `AuthEngine` | ring of 16 nonces, next slot | `new_challenge`, `verify_response` | NimBLE host callbacks |
| `BleManager` | connection handle, latest activity, callbacks | `begin`, connection callbacks, `note_activity`, `service`, `notify_*` | host, `ble_task`, controller |
| HMAC wrapper | one SHA-256 context per call | `hmac_sha256`, `constant_time_equal` | `AuthEngine` |
| `UwbManager` | last sample, zone, relay latch | `push_measurement`, `reset_session` (never called) | `uwb_task` |
| `NfcManager` | last tap | `is_authorised`, `on_tag` | `nfc_task` |
| `main.cpp` | the event queue (16), the tasks' locals | `post`, callbacks, four task loops, `apply` | FreeRTOS |
| `simulator/*.py` | a second, single-threaded implementation of the decision | | demos, tests |

The tasks talk through one queue, `g_events`; a send never waits and a full queue
drops the event. `BleManager`'s two members are also shared without a lock by
three tasks on two cores. All time is `millis()`, a `uint32_t` that wraps around
after 49.7 days.

What is hard here, and what each part must guarantee:

* `AccessController`: sequences of failures, hard locks, reconnections and
  timeouts; deadlines across the wrap. Penalties and lockouts are served, the
  door opens only on factors of the present session, departures lock.
* controller task: time passes between its calls, two `apply()` per iteration.
  Door, relay and LED agree with the state machine; the pulse is bounded.
* `AuthEngine`: overwriting of slots, reuse of handles, the clock. A nonce is
  accepted at most once, in time, on the connection it was issued on.
* `BleManager`: set-up while a phone may already connect; unlocked sharing. A
  challenge is notified on every link, an idle one is cut, and the car is
  advertised again.
* HMAC wrapper: an uninitialised context used twice, padding around a block's end,
  keys around a block's length. The host's code computes what mbedTLS does.
* the tasks and the queue: order of the posts of different tasks, dropped events,
  reconnections between two steps of a task. Departures and disconnections reach
  the state machine; sessions are not mixed up; an open door shuts in the end; a
  key that fulfils all conditions is let in.
* `UwbManager`: the relay latch and the plausibility of consecutive samples, with
  rounds missed and the clock wrapping in between. A walking key in reach is not
  taken for a relay; a suspicion holds and is reported.
* simulator: a grant rests on the challenge of this connection, a tag read since
  the latest disconnection and an unsuspected ranging, in whatever order its
  classes are called.

`PROJECT.json` lists the hazards one by one with the line where each bites.

## Modules

| module | models |
|---|---|
| `Millis` | the clock and `uint32_t` arithmetic modulo `U32` |
| `AccessController` | `access_controller.cpp`, one operator per branch of `handle_event`, `tick` and `register_failure` |
| `AccessFlow` | the abstract, untimed state machine that `AccessController` and `ControllerTask` implement, in the first epoch or over all uptimes (`Wraps`) |
| `AccessRate` | `AccessController` with the ages of the latest failures, for the rate limit |
| `GpioActuator` | `gpio_actuator.cpp` |
| `ControllerTask` | composes the two: `controller_task` and `apply`, step by step |
| `AuthEngine` | `auth_engine.cpp` |
| `NonceLedger` | its abstract specification: the latest challenges, in order, with true ages |
| `HmacSha256` | `hmac_wrapper.cpp` and the comparison in `verify_response` |
| `MCHmacSha256` | a small hash for it |
| `BleManager` | `ble_manager.cpp` at the granularity of its shared accesses, from `begin` on |
| `NfcManager` | `nfc_manager.cpp`, the whitelist byte by byte |
| `SmartKeyFirmware` | composes `AccessFlow` and `NfcManager` with the queue, the host callbacks, `uwb_task`, `nfc_task` and the controller |
| `MCSmartKeyFirmware` | a whitelist and tags for it |
| `UwbManager` | `uwb_manager.cpp` and the round of `uwb_task` |
| `VehicleServer` | `simulator/*.py`: server, engine, ranger, reader, BLE link and phones |
| `AccessControllerProofs`, `ControllerTaskProofs`, `AuthEngineProofs`, `HmacSha256Proofs`, `BleManagerProofs`, `SmartKeyFirmwareProofs`, `UwbManagerProofs`, `VehicleServerProofs` | the theorems |

Variables have the names of the members without the trailing underscore. An
operator with a comment *Mutant* is the form that a plausible slip would give the
definition after it; it is used nowhere, and substituting it makes the property
named in `PROJECT.json` fail.

**AccessController.** `handle_event(ev)` is `Accepts` (the early returns, in their
order, and the events each state has a case for) with one of `HardLock`,
`Progress`, `Unlock`, `Depart`, `Fail`, or else `Ignored`. `InPenalty` compares
two numbers below `U32` as the code does. `AUTHENTICATED` is entered and left in
one call, so it is never a state between calls. `ACSpec` is an ideal caller: it
lets events come in any order and calls `tick()` for every value of the clock. The
real loop does not, which matters where a value can be missed for good: the end of
a lockout is therefore a property of `ControllerTask`.
History variables measure true durations, which the wrap does not touch: `age`
(in the state), `penaltyLeft`, and `proven`, the factors in the order of the flow
since the latest hard lock.

**ControllerTask.** `Boot`, `Receive`, `Apply`, `TickTimers`, `Service` in the
order of the loop; the queue is any event another task can post (`USER_LOCK` is
posted by none). At most one unit, one 20 ms period, passes per iteration, between
any two steps: the task has the highest priority on its core and blocks nowhere
else. Two ticks may thus be two units apart, and miss the last one before the wrap.

**AuthEngine.** A nonce is new when drawn, an HMAC right or wrong. The
refinement to `NonceLedger` reads the ring from its oldest entry; `asked`, the
handle of the latest answer, is there so that the refinement tells on whose
connection a verdict was given.

**HmacSha256.** A call of `hmac_sha256` and the comparison after it, a step per
byte of `sha256_update` and one per `sha256_final`. A byte is the set of its bits.
The compression function is an arbitrary `DigestByte` of the blocks absorbed, so
`sha256_state` is the sequence of those blocks, and what is checked is everything
around it: buffering, padding, the length field, the context's reuse, the key.
Buffers on the stack start with any `Garbage`. `fed` is the history of the bytes
given; `Padded` and `HMAC` are the standards' definitions.

**BleManager.** `ble_task` sets the callbacks, then `Begin` advertises. `OnConnect`
writes the handle, and `OnConnectActivity` the time and, through the callback, the
challenge; `service` reads the time in its caller, then the handle, then the
timestamp, then the handle again to disconnect it; `note_activity` writes a time its
caller read. Each is an action of its own. A notification is `pushed` when the
firmware calls `notify()`, and `received` if the phone has by then done what
`src/README.md` asks of it (`receptive`: the CCCD written and an MTU for 32 bytes),
which the stack cannot serve while it is in a callback. A unit is a period of
`ble_task`; callbacks do not span one. The stack stops advertising at a connection,
and `Readvertise` is the end of `onDisconnect`.

**SmartKeyFirmware.** A callback is split where the host can be preempted between
changing the handle and posting; `nfc_task` between its reads of `connected()`, its
reading of the tag and its post (a tag's event carries no session: the task knows of
none); the controller between handling and notifying. `post` appends or drops.
`Bench = TRUE` is the code as it stands, where the tasks feed themselves an
approaching phone and a whitelisted tag; `Bench = FALSE` replaces these two
stand-ins by what a driver may deliver, any zone and any tag, as `main.cpp`
announces ("On real hardware: poll the DW3000 driver"). A tag is a UID, and
`is_authorised` decides what event it makes. Rounds of `nfc_task` that neither tap
nor rearm change nothing and are left out. Timers and penalties are
those of `AccessFlow`: they run out at some moment, and with `Wraps` a penalty may
return; a departure it refuses then is recorded in `lost`, like one the queue drops
(`Refused`). Challenges are counted in
`answerable`; which are open, late or replayed is the business of `AuthEngine`.
`toldOpen` is what the last STATUS of the link said, as far as `OpenIsOpen` tells
it apart. `session` numbers the connections, and is a history variable that
travels with the events.

**UwbManager.** `push_measurement` is `Reject` or `Trust`. A rate above the bound is
written as a distance above `RATE * Elapsed`. `Round` is one pass of `uwb_task`,
at most one per unit; the key, which walks no faster than the bound, and the
driver, which may have no sample, are the environment. `gap` and `sinceFirst`
measure true time; `honest` (every sample was the key's true distance with its time
of flight) and `implausible` say what the samples deserved. A time of flight goes with
the distance: one way, as `twr_distance_cm` has it, it is within the cap of 50 ns up
to `TOF_RANGE`, 15 m. (`attack_sim.py` writes 60.1 ns for 9 m, the way there and
back; counted so the cap is reached at 7.5 m.)
`ResetSession` is there as an operation although the firmware never calls it.

**VehicleServer.** Everything runs in one thread, so a call with its callbacks is one
action, built from an operator per method. Nothing orders the calls: a phone may
connect over another one, disconnect the other's connection, answer late or with
a nonce not its own; tags and samples come with or without a connection, as in
the demos. The pool is a sequence in the order of issue, as a `dict` keeps it.
`decisions` is its latest entry.

## Runs

| run | what it shows | bounds |
|---|---|---|
| `access_first_epoch` | penalties served, sessions proven, rate limit, refinement of `AccessFlow` | `U32` 22, timeouts 2, penalty 2, three failures, lockout 4 |
| `controller` | the late loop over wrap-arounds: door, relay, LED and pulse; timeouts never early and late by its period at most, counting, lockouts neither cut nor late, authentications that end; `AccessFlow` with `Wraps` | `U32` 7, so that the clock wraps within every timer; timers 1, lockout and pulse 2, two failures |
| `auth` | refinement of `NonceLedger`, single use, freshness | 3 nonces through 2 slots, 2 handles |
| `hmac` | padding, both passes, acceptance | blocks of 4 two-bit bytes, 2 of them length; digests of 2; messages of 0 to 5 bytes, keys of 1, 4 and 5 |
| `ble` | challenges notified, idle links cut, advertised again | timeout 2, `U32` 9, 2 handles |
| `uwb` | walking keys trusted, zones reached on foot, suspicions that hold and are reported | distances 0 to 5, ToF cap reaching 4, 2 per unit, `U32` 5 |
| `vehicle` | own challenge, recent tag, no grant while suspected, `NonceLedger` | 2 phones, 2 connections, 2 nonces, 2 tags, TTL 1 |
| `firmware` | departures and disconnections, the session's answer, taps, status, an open door that shuts, over all uptimes | queue of 2, 2 connections, 2 failures; whitelist of a short and a full row, UIDs of 0 to 3 bytes |

Why these are enough. Every timer is a comparison with a constant, so a
unit or two on each side of it show both outcomes, and the clock of the
first-epoch run is long enough for a whole streak with its lockout. A clock of
seven units wraps in the middle of every timer of the loop, and lets deadlines fall
on either side of the wrap, on 0 and on the last unit. Three nonces through two slots
overwrite one slot with the other still open or consumed. A queue of two is full
after two posts, which the real one is after sixteen, and two connections are a
session and its successor; two phones are enough for one to get in the other's way. A
walk of two per unit over five distances has missed rounds that are honest and
jumps that are not, and five units wrap the clock between any two of them. With
blocks of four bytes, two for the length, a message of 0 to 5 bytes behind the
block of the key pad ends before, at and after the length's place and the block's
end; a key shorter than, as long as and longer than a block takes each of the
three paths. `MCHmacSha256`'s digest depends on every bit's position, so that a
stale or misplaced byte shows. The proofs remove the bounds for the safety
properties, except those listed as only model-checked below.

The type invariants are conjuncts of the invariants proved (all but those of
`SmartKeyFirmware`, of which the proof needs a part, `Typed`), so no run repeats
them. `MCSmartKeyFirmware` also has TLC evaluate `WhitelistExact` on every UID of
its bound.

`CHECK_DEADLOCK FALSE` is set where the model's clock stops at the end of the first
epoch (`access_first_epoch`, `auth`, where the nonces are also used up), where the
one call of `hmac` has returned, and on the bench of `grant_as_documented`, where
the connections are used up and the phone is NEAR.

### First epoch

Deadlines (`penalty_until_ms_`, `lockout_until_ms_`, `pulse_until_ms_`) are
compared as absolute numbers. Until `millis()` first comes within `LOCKOUT_MS`
of its wrap they are right: `ACSpecFirstEpoch`, `CTSpecFirstEpoch` and
`AESpecFirstEpoch` are the behaviours up to then. What is said of these only:
`PenaltyServed`, `SessionProven`, `DepartureLocks`, `LockoutPrompt`, `RateLimit`,
`ImplementsFlow`, `AcceptedFresh` and `AuthEngine`'s `LedgerSpec`.

Everything else is over all uptimes, under the conditions its comment names. Four
properties of the loop exclude the deadlines the code mishandles: `LockoutLasts` and
`PulseNotCut` a deadline that wrapped around, `LoopLockoutPrompt` one in the last
unit before the wrap, `PulseBounded` that one and 0. What the code does with these
is under the divergences below. `WalkingKeyTrusted` excludes a whole period of
`millis()` without a sample.

The composition of the tasks rests on `AccessFlow` with `Wraps = TRUE`, where a
penalty may be over at once and may return in any state. The loop implements this
over all uptimes (`ImplementsFlowOverWraps`). A penalty that has returned makes the
machine refuse a `UWB_FAR` in `UNLOCKED`; `FarHeard` and `DoorShuts` allow for
it, with the events a full queue drops. With `Wraps = FALSE` a penalty runs once
and is over; the loop implements that in the first epoch (`ImplementsFlow`).

### Where code and documents disagree

Each of these runs checks one sentence of the repository and fails.

* `departure_after_wrap`: after the wrap of `millis()` a penalty served in the
  previous epoch makes an unlocked machine ignore `UWB_FAR`
  (`access_controller.cpp:53`).
* `active_link_cut`: `service()` subtracts a timestamp younger than its own time
  and cuts a link that has just been active.
* `challenge_received`: the connection's only challenge is notified inside
  `onConnect`, before the phone can have enabled notifications or an MTU for it
  (`src/README.md:61-63`, `74-76`, `249`).
* `grant_as_documented`: if the phone is NEAR before the tag is read, the edge is
  gone and the right answer does not open the door. This needs no driver: it
  happens with the stand-ins of `main.cpp` as they are.

Also met, without a run. After the wrap of `millis()`:

* a lockout whose deadline wraps is over at the next `tick()`; one whose deadline
  lies just below the wrap may be stepped over by the loop, which ticks once in 20 ms,
  and lasts into the next period (`access_controller.cpp:120`);
* a pulse whose deadline wraps is cut short, and one that wraps onto 0 or is stepped
  over leaves the relay driven (`gpio_actuator.cpp:59`, `82`);
* a challenge left open for 49.7 days is fresh again (`auth_engine.cpp:95`), and a
  key without a trusted sample for as long may become a suspect
  (`uwb_manager.cpp:51`).

At any time:

* a tag read in one connection and posted in the next verifies the next one
  (`main.cpp:128-131`), although the task presents "once per connection";
* MEDIUM posts no event, so an answer at MEDIUM distance opens the door of a phone
  that was NEAR (`main.cpp:115`), where `auth_flow.puml:43` asks for "zone == NEAR";
* every key beyond the reach of the ToF cap is a relay to `push_measurement`
  (`uwb_manager.cpp:40`), also the one `attack_sim.py:49` calls "Legit baseline
  sample: phone genuinely far away";
* the simulator's `connect()` over a live connection ends that one without a callback
  (`ble_sim.py:67`): an open door and a verified tag pass to the next client, where
  `vehicle_sim.py:58` says "Lock on disconnect.";
* a nonce is bound to a handle number, which the stack reuses, and not to a
  connection (`auth_engine.cpp:99`);
* `access_controller.h` says "a failed auth applies a FAIL_PENALTY and returns to
  IDLE", which `handle_event` does in `UWB_NEAR` only, and that every state carries a
  timeout; `UNLOCKED` and `LOCKED` have none;
* `uwb_manager.cpp` speaks of a suspicion "latched for the session", but the
  firmware never resets it, so it lasts until the next boot;
* the simulator stays unlocked when the phone goes FAR, unlike the firmware;
* `README.md` gives the STATUS byte as 0 or 1, the firmware sends the `AccessState`.

## Fairness

`CTFairness` is weak fairness of the loop's next step and of `UnitPasses`: the task is
scheduled, blocks for 20 ms at most, calls `tick()` in every iteration, and time goes
on. No event has to come. It gives `AuthenticationEnds`, for a loop that is as late
as the code's and over wrap-arounds.

`BleFairness`: `ble_task` goes round its loop, the host finishes a callback it has
begun, a call of `note_activity` returns, and time goes on. It gives
`ReachableAgain`, with the activity that may rightly keep a link alive as its
alternatives.

`FirmwareFairness`: a callback that has begun goes on to its post, and the controller
goes on taking what is queued and notifying. It gives `DoorShuts`; of `nfc_task`,
`uwb_task` and the timers nothing is needed.

Nothing is assumed of phones, tags, links or distances: none of them must ever do
anything. The other specifications are safety specifications; promptness is stated
there as a bound on a history variable.

## Proofs

Assumptions: the named `ASSUME`s. Timers are positive and smaller than the
modulus, the penalty is not longer than the lockout, the failure limit fits a
`uint8_t`.

* **AccessControllerProofs.** `ACTypeOK` is not inductive by itself: that the count
  stays within its limit needs `LockoutIffExhausted`, as a failure is counted only
  outside LOCKOUT (`CountInv`). `AgeInv` ties `age` to `now - state_entered_ms`
  modulo `U32`; it is what makes the unsigned difference exact over a wrap and gives
  `TimeoutsPrompt`. In the first epoch `DeadlineInv` ties
  each deadline to the true time left and says a penalised machine is in IDLE,
  LOCKED or LOCKOUT: `PenaltyServed`, `DepartureLocks` and `LockoutPrompt` follow (no
  passing run repeats `DepartureLocks`, which `ImplementsFlow` contains, or
  `TimeoutPrompt` and `LockoutPrompt`, which `controller` checks of the loop). `SessionInv` adds the factors. `FlowImplemented`
  maps each action to a step of `AccessFlow` or a stutter; time passing maps to
  `PenaltyRunsOut` exactly when it reaches the deadline. `FlowOverWraps` needs none
  of this: whatever the deadlines, a step of the machine is one of the flow with
  `Wraps` (`UptimeEvent`, `UptimeTick`), and a unit of time ends a penalty, returns
  one or does neither (`UptimeAging`). `RateInv` places the remembered failures in
  time: one of the present streak lies back a penalty for itself and for each after
  it, up to what is left of the latest; an older one has a lockout in place of one
  of them (`Apart`). A failure moves each back by one, which is where the penalty
  must have been served (`RateFailure`); the end of a lockout is where a failure
  becomes an older one (`RateLockoutOver`). `GuessingIsSlow` reads it off the oldest
  of a full list.
* **ControllerTaskProofs.** An invariant per actuator, which also says what is
  outstanding while `apply()` is to come: the action returned determines what door,
  relay and LED will be: `ActuatorsAlwaysFollow`. `LoopAgeInv` says how late the loop
  may be at each of its steps; with `AgeInv` it gives `LoopTimeoutsPrompt` and
  `LoopTimeoutsNotEarly`. Of an absolute deadline `FullLength`
  says that, unless it wrapped around, the clock is as far from it as the time
  elapsed (which makes nothing end early), and `InSight` that a deadline with two
  units left before the wrap is not stepped over; `TimerStarts`, `TimerRunsFull`,
  `TimerRunsInSight` and `TimerOver` are about any timer. `PulseInv` and
  `LoopLockoutInv` keep the two over all uptimes, and give `PulseAlwaysBounded`,
  `PulseNeverCut`, `LoopLockoutsPrompt` and `LoopLockoutsLast`.
  `LoopImplementsFlowOverWraps` maps the late loop's steps to the flow, over all
  uptimes; `LoopImplementsFlow` does so in the first epoch, where a penalty runs once
  (`LoopDeadlineInv`). Thus the flow that `SmartKeyFirmware` composes is one the loop
  keeps to.
* **AuthEngineProofs.** A nonce outside `unused` sits in at most one slot, and an
  accepted one that is still in the ring is consumed there; hence
  `NonceAcceptedOnce` and `ConsumedByRightAnswers`. `TtlInv`: in the first epoch
  `trueAge` is the unsigned difference up to its cap; hence `NonceAcceptedFresh`.
  For `RingImplementsLedger`, `FillInv` says that before the first overwriting
  exactly the slots below `next_slot` are in use; `WindowFacts` reads the ring from
  its oldest slot as the ledger's sequence, and `ChallengeIssues`, `AcceptAccepts`,
  `RefuseRefuses` and `TimeAges` map one operation each.
* **HmacSha256Proofs.** `Holds`: the blocks and the buffer of the context are the
  bytes it was given, in their order; `FeedInv` and `BufferInv` are the passes of
  `update` that keep it. `FinalPadded`: `final` closes with one block or with two,
  and either way the blocks are the padded message. `Equality`: what
  `constant_time_equal` folds up is whether the two MACs are the same. Hence
  `AlwaysPadded`, `AlwaysHmac` and `OnlyMacAccepted`, for every block size, byte
  size, message length and compression function; the one thing assumed of the values
  is that `NULL` is no buffer.
* **BleManagerProofs.** `SetUpInv` orders set-up, handle and callback: nothing is
  advertised before the callbacks are set and `begin` is through, and a link's
  handle is written before its callback; hence `AlwaysPushed`. `TimeInv` bounds
  how old the times are that a task has read and not yet used, and ties the
  timestamp to the latest activity up to one unit, so the difference that
  `service` computes for an idle link is right over wraps. `CutInv` says how far an
  idle link may have got at each position of `ble_task`; hence `IdleAlwaysCut`.
* **SmartKeyFirmwareProofs.** `Orderly(k, p)` is the life of connection `k` as the
  queue tells it behind position `p`: it goes on, or its end is queued or was
  dropped (`Settled`), and a right answer queued before that end is its own
  (`Own`). It holds for the connection of the flow from the queue's head
  (`FlowInv`) and for each queued `BLE_CONNECT` behind it (`ConnectInv`); `LostInv`
  is needed so that an end that was dropped is not reported again. `PostOrderly`
  and `TakeOrderly` show that no post and no receive disturbs it; `LinkAlwaysHeard`
  and `AnswerAlwaysOfSession` read it at the head, over all uptimes. `FarInv` follows
  the latest news of a far phone through the queue, up to its being dropped or
  refused: `FarAlwaysHeard`, over all uptimes. `TapInv` and `ToldInv`
  do the rest. `AuthorisedIsListed` is about `is_authorised` alone.
* **UwbManagerProofs.** `GapInv`: the unsigned difference is the true gap while that
  is below a period, and a round after a fix comes at least one unit later, so the
  division by zero the code guards against never decides. `ChainInv` adds up the
  steps from the first fix; `WalkInv` bounds the honest key's distance from its
  latest sample, so only the ToF cap can make it a suspect (`HonestKeyTrusted`);
  `LatchInv` ties the zone to the event last posted. The speed
  bound, the zones and the modulus are any numbers with
  `RATE * U32 >= MaxDistance`: a walk of 49.7 days covers the radio's range.
* **VehicleServerProofs.** `PoolInv`: every record has a handle of its own, from the
  past; `ClientInv`: the connected phone holds the challenge of the present handle.
  An accepted record has the present handle, so it is that one. `OpeningAnswer`
  shows that only a written answer opens the door; `TagInv` (`RecentTagOpens`) and
  `SpoofInv` do the rest. `GrantToldIsOpen`, inductive as it stands, is proved and
  in no run; so is `OnlyRightAnswersConsume` of `AuthEngine`, which `LedgerSpec`
  contains.

Only model-checked: the liveness properties `AuthenticationEnds`,
`ReachableAgain` and `DoorShuts` (out of the prover's reach).

## Not modelled

SHA-256's compression function and the random source (arithmetic without control),
the GATT objects that `begin` creates, pins and PWM duty, the MTU but for whether a
nonce fits in it, `NfcManager::last_` (nothing reads it), `twr_distance_cm` (a
formula nothing calls), the rounding of `float`, and the demos, which are fixed
scenarios of `VehicleServer`.

## Plan

Done: every component but the demos; the theorems on all of them.

Next, in this order:

1. The zone of `UwbManager` as the input of `SmartKeyFirmware`, with the latch.
2. An abstract specification of a grant (tag, own challenge, NEAR, unsuspected) that
   `VehicleServer` implements, and where the firmware's grants differ from it.
3. Proofs: the rate limit for a caller that is as late as the controller's loop.

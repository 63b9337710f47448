----------------------------- MODULE AccessFlow -----------------------------
(***************************************************************************)
(* What the access state machine promises the tasks that feed it, without  *)
(* its clock: timers run out at some moment, a penalty ends at some        *)
(* moment.  The composition of the firmware's tasks is built on it.        *)
(*                                                                         *)
(* AccessController implements it with Wraps = FALSE until millis() first  *)
(* wraps around, and with Wraps = TRUE over all uptimes: then a penalty    *)
(* whose deadline has wrapped is over at once, and the deadline of one     *)
(* served long ago holds again, in whatever state the machine is.          *)
(***************************************************************************)
EXTENDS Naturals

CONSTANTS
    MaxFails,
    Wraps           \* the uptime is not limited to the first epoch

ASSUME WrapsAssumption == Wraps \in BOOLEAN

VARIABLES
    state,          \* the AccessState
    fails,          \* consecutive failures counted
    penalised       \* the penalty of the latest failure is being served

flowVars == <<state, fails, penalised>>

\* Mutant: only the user's hand ends a session.
EndingByUser == {"USER_LOCK"}

Ending == {"USER_LOCK", "BLE_DISCONNECT"}
Failing == {"NFC_FAIL", "AUTH_FAIL"}
Events == Ending \cup Failing
            \cup {"BLE_CONNECT", "NFC_OK", "UWB_NEAR", "UWB_FAR", "AUTH_OK"}

Unfinished == {"BLE_CONNECTED", "NFC_VERIFIED", "UWB_NEAR"}
Flow == Unfinished \cup {"UNLOCKED"}

FlowInit == state = "IDLE" /\ fails = 0 /\ penalised = FALSE

\* The flow's arrows: from a state, on an event, to a state.
Arrows == {<<"IDLE", "BLE_CONNECT", "BLE_CONNECTED">>,
           <<"LOCKED", "BLE_CONNECT", "BLE_CONNECTED">>,
           <<"BLE_CONNECTED", "NFC_OK", "NFC_VERIFIED">>,
           <<"NFC_VERIFIED", "UWB_NEAR", "UWB_NEAR">>,
           <<"NFC_VERIFIED", "UWB_FAR", "IDLE">>,
           <<"UWB_NEAR", "UWB_FAR", "IDLE">>,
           <<"UNLOCKED", "UWB_FAR", "LOCKED">>}

End(ev) ==
    /\ ev \in Ending /\ state # "LOCKOUT"
    /\ state' = "LOCKED"
    /\ UNCHANGED <<fails, penalised>>

Move(ev) ==
    /\ ~penalised
    /\ \E a \in Arrows : a[1] = state /\ a[2] = ev /\ state' = a[3]
    /\ UNCHANGED <<fails, penalised>>

Open(ev) ==
    /\ ~penalised
    /\ state = "UWB_NEAR" /\ ev = "AUTH_OK"
    /\ state' = "UNLOCKED" /\ fails' = 0
    /\ UNCHANGED penalised

Punish(ev) ==
    /\ ~penalised
    /\ <<state, ev>> \in {<<"BLE_CONNECTED", "NFC_FAIL">>, <<"UWB_NEAR", "AUTH_FAIL">>}
    /\ fails' = fails + 1
    /\ \/ /\ fails + 1 < MaxFails /\ state' = "IDLE"
          /\ penalised' = TRUE \/ (Wraps /\ penalised' = FALSE)
       \/ fails + 1 = MaxFails /\ state' = "LOCKOUT" /\ UNCHANGED penalised

Reacts(ev) ==
    \/ ev \in Ending /\ state # "LOCKOUT"
    \/ /\ ~penalised
       /\ \/ \E a \in Arrows : a[1] = state /\ a[2] = ev
          \/ state = "UWB_NEAR" /\ ev \in {"AUTH_OK", "AUTH_FAIL"}
          \/ state = "BLE_CONNECTED" /\ ev = "NFC_FAIL"

Ignore(ev) == ~Reacts(ev) /\ UNCHANGED flowVars

Take(ev) == End(ev) \/ Move(ev) \/ Open(ev) \/ Punish(ev) \/ Ignore(ev)

TimeOut ==
    /\ state \in Unfinished
    /\ state' = "IDLE"
    /\ UNCHANGED <<fails, penalised>>

LockoutRunsOut ==
    /\ state = "LOCKOUT"
    /\ state' = "IDLE" /\ fails' = 0
    /\ UNCHANGED penalised

PenaltyRunsOut ==
    /\ penalised /\ penalised' = FALSE
    /\ UNCHANGED <<state, fails>>

PenaltyReturns ==
    /\ Wraps /\ ~penalised /\ penalised' = TRUE
    /\ UNCHANGED <<state, fails>>

FlowNext ==
    \/ \E ev \in Events : Take(ev)
    \/ TimeOut
    \/ LockoutRunsOut
    \/ PenaltyRunsOut
    \/ PenaltyReturns

FlowSpec == FlowInit /\ [][FlowNext]_flowVars
=============================================================================

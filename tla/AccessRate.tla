----------------------------- MODULE AccessRate -----------------------------
(***************************************************************************)
(* AccessController in the first epoch, with the ages of the latest        *)
(* counted failures as one more history variable: how fast a key can       *)
(* guess.                                                                  *)
(***************************************************************************)
EXTENDS AccessController, Sequences

VARIABLE failAges       \* the latest failures since a success, oldest first

rateVars == <<acVars, failAges>>

RateWindow == LOCKOUT_MS + (MAX_CONSECUTIVE_FAILS - 1) * FAIL_PENALTY_MS

Counted == fail_count' > fail_count
Succeeded == state' = "UNLOCKED" /\ state # "UNLOCKED"

Latest == IF Len(failAges) = MAX_CONSECUTIVE_FAILS THEN Tail(failAges) ELSE failAges

RateInit == ACInit /\ failAges = <<>>

RateNext ==
    /\ ACNext
    /\ FirstEpoch'
    /\ failAges' = IF Counted THEN Append(Latest, 0)
                   ELSE IF Succeeded THEN <<>>
                   ELSE IF now' # now
                        THEN [i \in DOMAIN failAges |-> CountUp(failAges[i], RateWindow)]
                        ELSE failAges

RateSpec == RateInit /\ [][RateNext]_rateVars

(***************************************************************************)
(* Guessing is slow: without a success in between, a key needs the whole   *)
(* LOCKOUT and all but one of the penalties of a streak to get from one    *)
(* failure to the one MAX_CONSECUTIVE_FAILS later, whatever disconnects,   *)
(* hard locks and timeouts it mixes in.  (First epoch.)                    *)
(***************************************************************************)
RateLimit ==
    [][Counted /\ Len(failAges) = MAX_CONSECUTIVE_FAILS
         => failAges[1] >= RateWindow]_rateVars
=============================================================================

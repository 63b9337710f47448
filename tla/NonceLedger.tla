---------------------------- MODULE NonceLedger ----------------------------
(***************************************************************************)
(* What the challenge-response engine promises: it remembers the latest    *)
(* POOL challenges in the order of their issue, each with the connection   *)
(* handle it was issued on and its true age, and judges an answer by them. *)
(* No clock, no slots.                                                     *)
(***************************************************************************)
EXTENDS Naturals, Sequences

CONSTANTS Nonce, Handle, POOL, TTL

VARIABLES
    window,     \* the remembered challenges, oldest first
    unused,     \* the nonces not drawn yet: a random nonce is new
    result,     \* the verdict on the latest answer
    asked       \* the handle that answer came on

vars == <<window, unused, result, asked>>

Init ==
    window = <<>> /\ unused = Nonce /\ result = "NONE" /\ asked \in Handle

Remembered == IF Len(window) = POOL THEN Tail(window) ELSE window

Issue(h) ==
    \E n \in unused :
        /\ window' = Append(Remembered,
                            [nonce |-> n, handle |-> h, age |-> 0, consumed |-> FALSE])
        /\ unused' = unused \ {n}
        /\ UNCHANGED <<result, asked>>

\* An answer to n on handle h; `good' says whether its HMAC is right.
Known(n) == {i \in DOMAIN window : window[i].nonce = n}

Fresh(c, h) == ~c.consumed /\ c.age <= TTL /\ c.handle = h

Accept(h, n) ==
    \E i \in Known(n) :
        /\ Fresh(window[i], h)
        /\ window' = [window EXCEPT ![i].consumed = TRUE]
        /\ result' = "OK"
        /\ UNCHANGED unused

Reason(c, h) ==
    CASE c.consumed                                -> "REPLAYED"
      [] ~c.consumed /\ c.age > TTL                -> "EXPIRED"
      [] ~c.consumed /\ c.age <= TTL /\ c.handle # h -> "HANDLE_MISMATCH"
      [] OTHER                                     -> "BAD_HMAC"

Refuse(h, n, good) ==
    /\ \/ Known(n) = {} /\ result' = "UNKNOWN_NONCE"
       \/ \E i \in Known(n) :
            /\ ~(good /\ Fresh(window[i], h))
            /\ result' = Reason(window[i], h)
    /\ UNCHANGED <<window, unused>>

Answer(h, n, good) ==
    /\ (good /\ Accept(h, n)) \/ Refuse(h, n, good)
    /\ asked' = h

Age ==
    /\ window' = [i \in DOMAIN window |->
                    [window[i] EXCEPT !.age = IF @ <= TTL THEN @ + 1 ELSE @]]
    /\ UNCHANGED <<unused, result, asked>>

Next ==
    \/ \E h \in Handle : Issue(h)
    \/ \E h \in Handle, n \in Nonce, good \in BOOLEAN : Answer(h, n, good)
    \/ Age

Spec == Init /\ [][Next]_vars
=============================================================================

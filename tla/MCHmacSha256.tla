---------------------------- MODULE MCHmacSha256 ----------------------------
(***************************************************************************)
(* A hash of two-bit bytes for TLC: blocks of four bytes, two of them for  *)
(* the length, digests of two bytes.                                       *)
(***************************************************************************)
EXTENDS HmacSha256, FiniteSets

MCMark == {1}
MCIpad == {0}
MCOpad == {1}

\* Every length around a block's end, in the bytes that padding is made of.
MCKeys == {[i \in 1 .. n |-> b] : n \in {1, 4, 5}, b \in {{}, {1}}} \cup {NULL}
MCMessages == UNION {[1 .. n -> {{}, {1}}] : n \in 0 .. 5} \cup {NULL}
MCGarbage == [1 .. kBlock -> {{}}] \cup [1 .. kBlock -> {{0, 1}}]

\* A parity of the bits that depends on their position, block and byte.
MCDigestByte(bs, i) ==
    {b \in Bit :
        Cardinality({p \in (DOMAIN bs) \X (1 .. kBlock) \X Bit :
                        /\ p[3] \in bs[p[1]][p[2]]
                        /\ (p[1] * p[2] + i * p[2] + p[3] * p[1] + b) % 3 # 0}) % 2 = 1}
=============================================================================

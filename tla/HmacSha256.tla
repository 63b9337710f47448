----------------------------- MODULE HmacSha256 -----------------------------
(***************************************************************************)
(* firmware/lib/mbedtls_wrapper/hmac_wrapper.cpp and the part of           *)
(* AuthEngine::verify_response() that relies on it: the MAC of a nonce is  *)
(* computed and compared with a response.  On the target mbedTLS computes  *)
(* it; on the host the file's own SHA-256 does, byte by byte, in one       *)
(* context that the two passes of the HMAC share.                          *)
(*                                                                         *)
(* A byte is the set of its bits, so XOR is the symmetric difference.  The *)
(* compression function is arithmetic without control: a context's state   *)
(* is the sequence of blocks it has absorbed, and a digest is an arbitrary *)
(* function of those.                                                      *)
(***************************************************************************)
EXTENDS Integers, Sequences

CONSTANTS
    CHAR_BIT,           \* 8
    kBlock, kLength,    \* bytes of a block and of its length field: 64, 8
    kSha256Len,         \* bytes of a digest: 32
    Mark,               \* the byte 0x80
    Ipad, Opad,         \* the bytes 0x36 and 0x5c
    DigestByte(_, _),   \* the compression's result, byte by byte
    Keys, Messages,     \* bound: what callers pass
    Garbage,            \* bound: what a buffer on the stack may hold
    NULL

Bit == 0 .. CHAR_BIT - 1
Byte == SUBSET Bit
Block == [1 .. kBlock -> Byte]
Zero == {}

ASSUME HmacAssumption ==
    /\ CHAR_BIT \in Nat \ {0}
    /\ kLength \in Nat /\ kBlock \in Nat /\ kSha256Len \in Nat
    /\ kLength < kBlock /\ kSha256Len <= kBlock
    /\ Mark \in Byte \ {Zero} /\ Ipad \in Byte /\ Opad \in Byte
    /\ Garbage \subseteq Block
    /\ \A s \in (Keys \cup Messages) \ {NULL} : s \in Seq(Byte)
    /\ NULL \notin [1 .. kSha256Len -> Byte]

VARIABLES
    build,              \* which of the two the file was compiled for
    pc,                 \* where the call in progress is
    key, msg,           \* its arguments
    buf,                \* what the sha256_update() under way has still to take
    k0, inner, out,     \* hmac_sha256_fallback()'s buffers, and the result's
    blocks, bitlen, data, datalen,      \* the Sha256Ctx, its state as blocks
    response, result,   \* the response compared with, and the AuthResult
    (* History. *)
    fed                 \* the bytes the context has been given

ctx == <<blocks, bitlen, data, datalen>>
frame == <<build, key, msg>>
verdict == <<response, result>>
hmacVars == <<frame, pc, buf, k0, inner, out, ctx, verdict, fed>>

Xor(a, b) == (a \ b) \cup (b \ a)
XorAll(s, b) == [i \in DOMAIN s |-> Xor(s[i], b)]

Digest(bs) == [i \in 1 .. kSha256Len |-> DigestByte(bs, i) \cap Bit]

\* memset() to 0, then s at the start of the buffer.
ZeroFilled(s) == [i \in 1 .. kBlock |-> IF i <= Len(s) THEN s[i] ELSE Zero]

(***************************************************************************)
(* The Sha256Ctx.  sha256_init() leaves data[] as it is.                   *)
(***************************************************************************)
sha256_init ==
    /\ blocks' = <<>> /\ bitlen' = 0 /\ datalen' = 0
    /\ fed' = <<>>

\* One pass of the loop in sha256_update().
sha256_update(b) ==
    /\ data' = [data EXCEPT ![datalen + 1] = b]
    /\ fed' = Append(fed, b)
    /\ \/ /\ datalen + 1 < kBlock
          /\ datalen' = datalen + 1
          /\ UNCHANGED <<blocks, bitlen>>
       \/ /\ datalen + 1 = kBlock
          /\ datalen' = 0
          /\ bitlen' = bitlen + kBlock * CHAR_BIT
          /\ blocks' = Append(blocks, data')

\* The bits of n that byte i of the length field holds, the highest first.
\* The uint64_t is read through its low bits only, where it wraps.
LengthByte(n, i) ==
    {b \in Bit : (n \div 2 ^ ((kLength - i) * CHAR_BIT + b)) % 2 = 1}

\* The buffer with the mark behind the data and zeros up to a position.
Marked(last) ==
    [i \in 1 .. kBlock |->
        IF i = datalen + 1 THEN Mark
        ELSE IF i \in datalen + 2 .. last THEN Zero
        ELSE data[i]]

WithLength(d, n) ==
    [i \in 1 .. kBlock |->
        IF i <= kBlock - kLength THEN d[i] ELSE LengthByte(n, i - (kBlock - kLength))]

\* Mutant: the buffer is not cleared after the extra block.
ClosingStale ==
    LET n == bitlen + datalen * CHAR_BIT
    IN  IF datalen < kBlock - kLength
            THEN <<WithLength(Marked(kBlock - kLength), n)>>
            ELSE <<Marked(kBlock), WithLength(Marked(kBlock), n)>>

\* The blocks that sha256_final() compresses.
Closing ==
    LET n == bitlen + datalen * CHAR_BIT
    IN  IF datalen < kBlock - kLength
            THEN <<WithLength(Marked(kBlock - kLength), n)>>
            ELSE <<Marked(kBlock), WithLength(ZeroFilled(<<>>), n)>>

\* The digest is that of blocks'.
sha256_final ==
    /\ blocks' = blocks \o Closing
    /\ data' = Closing[Len(Closing)]
    /\ bitlen' = bitlen + datalen * CHAR_BIT
    /\ UNCHANGED <<datalen, fed>>

(***************************************************************************)
(* hmac_sha256(): the host build's own code in steps, mbedTLS in one.      *)
(* What a buffer on the stack holds before it is written is anything.      *)
(***************************************************************************)
HmacInit ==
    /\ build \in {"host", "target"}
    /\ pc = "idle"
    /\ key = NULL /\ msg = NULL
    /\ buf = <<>> /\ fed = <<>>
    /\ k0 = ZeroFilled(<<>>) /\ data = k0
    /\ inner = Digest(<<>>) /\ out = inner /\ response = inner
    /\ blocks = <<>> /\ bitlen = 0 /\ datalen = 0
    /\ result = "NONE"

\* Mutant: a key as long as a block is hashed, too.
LongKeyOrBlock(k) == Len(k) >= kBlock

LongKey(k) == Len(k) > kBlock

\* The null checks, then the key: hashed if it is longer than a block.
hmac_sha256(k, m) ==
    /\ pc = "idle"
    /\ key' = k /\ msg' = m
    /\ \E g \in Garbage :
          /\ out' = [i \in 1 .. kSha256Len |-> g[i]]
          /\ data' = g
    /\ \/ /\ NULL \in {k, m}
          /\ pc' = "done" /\ result' = "BAD_HMAC"
          /\ UNCHANGED <<k0, buf>>
       \/ /\ NULL \notin {k, m} /\ build = "target"
          /\ pc' = "mbedtls"
          /\ UNCHANGED <<k0, buf, result>>
       \/ /\ NULL \notin {k, m} /\ build = "host" /\ LongKey(k)
          /\ pc' = "key" /\ buf' = k
          /\ UNCHANGED <<k0, result>>
       \/ /\ NULL \notin {k, m} /\ build = "host" /\ ~LongKey(k)
          /\ pc' = "short" /\ k0' = ZeroFilled(k)
          /\ UNCHANGED <<buf, result>>
    /\ sha256_init
    /\ UNCHANGED <<build, inner, response>>

Absorb ==
    /\ buf # <<>>
    /\ sha256_update(Head(buf)) /\ buf' = Tail(buf)
    /\ UNCHANGED <<frame, pc, k0, inner, out, verdict>>

EndKey ==
    /\ pc = "key" /\ buf = <<>>
    /\ sha256_final
    /\ k0' = ZeroFilled(Digest(blocks')) /\ pc' = "hashed"
    /\ UNCHANGED <<frame, buf, inner, out, verdict>>

StartInner ==
    /\ pc \in {"short", "hashed"} /\ pc' = "ipad"
    /\ data' \in Garbage /\ sha256_init
    /\ buf' = XorAll(k0, Ipad)
    /\ UNCHANGED <<frame, k0, inner, out, verdict>>

UpdateMessage ==
    /\ pc = "ipad" /\ buf = <<>>
    /\ pc' = "msg" /\ buf' = msg
    /\ UNCHANGED <<frame, k0, inner, out, ctx, verdict, fed>>

EndInner ==
    /\ pc = "msg" /\ buf = <<>>
    /\ sha256_final
    /\ inner' = Digest(blocks') /\ pc' = "outer"
    /\ UNCHANGED <<frame, buf, k0, out, verdict>>

\* The same context again, with what the first pass has left in data[].
StartOuter ==
    /\ pc = "outer" /\ pc' = "opad"
    /\ sha256_init
    /\ buf' = XorAll(k0, Opad)
    /\ UNCHANGED <<frame, data, k0, inner, out, verdict>>

UpdateInner ==
    /\ pc = "opad" /\ buf = <<>>
    /\ pc' = "digest" /\ buf' = inner
    /\ UNCHANGED <<frame, k0, inner, out, ctx, verdict, fed>>

EndOuter ==
    /\ pc = "digest" /\ buf = <<>>
    /\ sha256_final
    /\ out' = Digest(blocks') /\ pc' = "compare"
    /\ UNCHANGED <<frame, buf, k0, inner, verdict>>

(***************************************************************************)
(* FIPS 180-4, 5.1.1, in bytes: the mark, the least number of zeros that   *)
(* lets the length field end a block, and the length.                      *)
(***************************************************************************)
BlocksFor(n) == (n + kLength) \div kBlock + 1

PaddedByte(m, p) ==
    LET end == BlocksFor(Len(m)) * kBlock - kLength
    IN  IF p <= Len(m) THEN m[p]
        ELSE IF p = Len(m) + 1 THEN Mark
        ELSE IF p <= end THEN Zero
        ELSE LengthByte(Len(m) * CHAR_BIT, p - end)

Padded(m) ==
    [i \in 1 .. BlocksFor(Len(m)) |->
        [j \in 1 .. kBlock |-> PaddedByte(m, (i - 1) * kBlock + j)]]

Hash(m) == Digest(Padded(m))

\* RFC 2104.
Key0(k) == ZeroFilled(IF Len(k) > kBlock THEN Hash(k) ELSE k)
HMAC(k, m) ==
    Hash(XorAll(Key0(k), Opad) \o Hash(XorAll(Key0(k), Ipad) \o m))

\* mbedtls_md_hmac(), which may fail.
MbedTls ==
    /\ pc = "mbedtls"
    /\ \/ out' = HMAC(key, msg) /\ pc' = "compare" /\ UNCHANGED result
       \/ pc' = "done" /\ result' = "BAD_HMAC" /\ UNCHANGED out
    /\ UNCHANGED <<frame, buf, k0, inner, ctx, response, fed>>

\* Mutant: the differences are not accumulated.
constant_time_equal_last(a, b, len) == Xor(a[len], b[len]) = {}

constant_time_equal(a, b, len) ==
    NULL \notin {a, b} /\ UNION {Xor(a[i], b[i]) : i \in 1 .. len} = {}

\* The end of verify_response(): BAD_HMAC unless computed and equal.
Compare(r) ==
    /\ pc = "compare" /\ pc' = "done"
    /\ response' = r
    /\ result' = IF constant_time_equal(out, r, kSha256Len) THEN "OK" ELSE "BAD_HMAC"
    /\ UNCHANGED <<frame, buf, k0, inner, out, ctx, fed>>

HmacNext ==
    \/ \E k \in Keys, m \in Messages : hmac_sha256(k, m)
    \/ Absorb
    \/ EndKey
    \/ StartInner
    \/ UpdateMessage
    \/ EndInner
    \/ StartOuter
    \/ UpdateInner
    \/ EndOuter
    \/ MbedTls
    \/ \E r \in [1 .. kSha256Len -> Byte] : Compare(r)

HmacSpec == HmacInit /\ [][HmacNext]_hmacVars
-----------------------------------------------------------------------------
(***************************************************************************)
(* Whatever the stack held and the first pass left in data[], and at every *)
(* length around a block's end, the context has absorbed the padded form   *)
(* of exactly the bytes it was given.                                      *)
(***************************************************************************)
AbsorbedIsPadded ==
    build = "host" /\ pc \in {"hashed", "outer", "compare"} => blocks = Padded(fed)

(***************************************************************************)
(* hmac_wrapper.h, "the two paths are bit-compatible": the host's two      *)
(* passes through one context compute the HMAC of RFC 2104, for keys       *)
(* shorter than, as long as and longer than a block.                       *)
(***************************************************************************)
OutIsHmac == pc = "compare" => out = HMAC(key, msg)

(***************************************************************************)
(* A response is accepted if and only if the MAC was computed and the      *)
(* response is that MAC: neither a failure of mbedTLS, which leaves the    *)
(* expected bytes as they were on the stack, nor a partial match passes.   *)
(***************************************************************************)
AcceptedIsMac ==
    /\ result = "OK" => response = HMAC(key, msg)
    /\ build = "host" /\ pc = "done" /\ NULL \notin {key, msg}
         => (result = "OK" <=> response = HMAC(key, msg))
=============================================================================

----------------------------- MODULE NfcManager -----------------------------
(***************************************************************************)
(* firmware/src/nfc_manager.cpp: the whitelist of UIDs.  A UID is a        *)
(* sequence of bytes, NULL a null pointer; the whitelist's rows are        *)
(* buffers of NFC_MAX_UID_LEN bytes, of which the first ones count.        *)
(***************************************************************************)
EXTENDS Naturals, Sequences

CONSTANTS NFC_MAX_UID_LEN, NFC_WHITELIST, NFC_WHITELIST_UID_LEN, NULL

ASSUME NfcAssumption ==
    /\ NFC_MAX_UID_LEN \in Nat
    /\ DOMAIN NFC_WHITELIST_UID_LEN = DOMAIN NFC_WHITELIST
    /\ \A i \in DOMAIN NFC_WHITELIST :
          /\ NFC_WHITELIST_UID_LEN[i] \in 1 .. NFC_MAX_UID_LEN
          /\ DOMAIN NFC_WHITELIST[i] = 1 .. NFC_MAX_UID_LEN

memcmp_equal(a, b, len) == \A i \in 1 .. len : a[i] = b[i]

is_authorised(uid) ==
    /\ uid # NULL
    /\ Len(uid) \in 1 .. NFC_MAX_UID_LEN
    /\ \E i \in DOMAIN NFC_WHITELIST :
          /\ NFC_WHITELIST_UID_LEN[i] = Len(uid)
          /\ memcmp_equal(NFC_WHITELIST[i], uid, Len(uid))

\* The event nfc_task posts for a tap.
TapEvent(uid) == IF is_authorised(uid) THEN "NFC_OK" ELSE "NFC_FAIL"
-----------------------------------------------------------------------------
\* The UIDs the configuration means: each row, as far as it counts.
Listed ==
    {[j \in 1 .. NFC_WHITELIST_UID_LEN[i] |-> NFC_WHITELIST[i][j]] :
        i \in DOMAIN NFC_WHITELIST}
=============================================================================

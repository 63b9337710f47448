------------------------- MODULE MCSmartKeyFirmware -------------------------
(***************************************************************************)
(* A whitelist of two UIDs for TLC, one shorter than its row, and every    *)
(* tag of bytes 0 and 1 up to a byte more than a row.                      *)
(***************************************************************************)
EXTENDS SmartKeyFirmware

MCWhitelist == << <<1, 0>>, <<0, 1>> >>
MCUidLen == <<1, 2>>
MCTags == {NULL} \cup UNION {[1 .. n -> {0, 1}] : n \in 0 .. 3}

\* The whitelist accepts the tags it lists and no other.
ASSUME WhitelistExact == \A uid \in MCTags : is_authorised(uid) <=> uid \in Listed
=============================================================================

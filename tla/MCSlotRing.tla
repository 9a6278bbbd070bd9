----------------------------- MODULE MCSlotRing -----------------------------
(* Small instances of SlotRing for TLC.                                    *)
EXTENDS SlotRing, TLC

CONSTANTS c1, c2

MCTwo == {c1, c2}
MCFileAndRecorded == {"file", "recorded"}
=============================================================================

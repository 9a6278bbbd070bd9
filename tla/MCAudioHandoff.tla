--------------------------- MODULE MCAudioHandoff ---------------------------
(* Small instances of AudioHandoff for TLC.                                *)
EXTENDS AudioHandoff, TLC

CONSTANT c1

MCOne == {c1}
=============================================================================

----------------------------- MODULE MCReceiver -----------------------------
(* Small instances of Receiver for TLC.                                    *)
EXTENDS Receiver, TLC

CONSTANT c1

MCOne == {c1}
MCNone == {}
MCFile == {"file"}
MCFileAndRecorded == {"file", "recorded"}
=============================================================================

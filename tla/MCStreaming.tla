---------------------------- MODULE MCStreaming ----------------------------
(* Small instances of Streaming: slots of three samples, chunks from two.  *)
EXTENDS Streaming, TLC

CONSTANT c1

MCOne == {c1}
MCNone == {}
MCSources == {"recorded"}
MCLibraries == {"rtl", "rsp"}
MCRtl == {"rtl"}
MCCallSizes == {1, 2, 4}
=============================================================================

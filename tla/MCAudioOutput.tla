----------------------------- MODULE MCAudioOutput -----------------------------
(* AudioOutput with the block count and the queue of the code.             *)
EXTENDS AudioOutput

SomeLengths == {1, 2}
=============================================================================

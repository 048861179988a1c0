--------------------------- MODULE MCAudioCommands ---------------------------
(* Three specifications, a ring of four slots, two messages.               *)
EXTENDS AudioCommands
=============================================================================

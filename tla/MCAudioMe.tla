------------------------------ MODULE MCAudioMe ------------------------------
(* AudioMe has no parameter and is finite as it is.                        *)
EXTENDS AudioMe
=============================================================================

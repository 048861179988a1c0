-------------------------- MODULE MCMultiplayerMenu --------------------------
(* MultiplayerMenu is finite as it stands.                                 *)
EXTENDS MultiplayerMenu
=============================================================================

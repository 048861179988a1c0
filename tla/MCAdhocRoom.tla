----------------------------- MODULE MCAdhocRoom -----------------------------
(* AdhocRoom with two places, so that three watchers fill the room, and    *)
(* two rooms one after the other, in either of which up to three joins may *)
(* be attempted in all. The first join may send a second JOIN.             *)
(*   The watchers are alike: those that draw the first two tokens are w1   *)
(* and, if it is another one, w2.                                          *)
EXTENDS AdhocRoom

CONSTANTS w1, w2, w3

ThreeWatchers == {w1, w2, w3}
TwoPlaces == 1..2
JoinsByRoom == <<3, 3>>
JoinPackets == <<2, 1, 1>>

InTurn ==
    /\ watcher[w2].token # 1
    /\ watcher[w3].token \notin {1, 2}

MCSpec == Init /\ [][Next /\ InTurn']_vars /\ Fairness
=============================================================================

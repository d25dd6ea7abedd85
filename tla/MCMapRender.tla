----------------------------- MODULE MCMapRender -----------------------------
(* Two components that share no state, side by side: in each behaviour only *)
(* one of them moves.  A drawing with two places, so that a box clear drops *)
(* some keyframes and keeps others, nothing telling the places apart; and a *)
(* camera that is configured a few times.                                   *)
EXTENDS MapRender, CloudPublisher, TLC

CONSTANTS here, there, front, rear

VARIABLE side       \* "map" or "cloud"

Alike == Permutations({here, there})
Resumed == {[saved |-> 1, image |-> TRUE]}

allVars == <<side, vars, cloudVars>>

MapMoves(A) == side = "map" /\ A /\ UNCHANGED <<side, cloudVars>>
CloudMoves(A) == side = "cloud" /\ A /\ UNCHANGED <<side, vars>>
MCInit == Init /\ CloudInit /\ side \in {"map", "cloud"}
MCNext == MapMoves(Next) \/ CloudMoves(CloudNext)
MCSpec == MCInit /\ [][MCNext]_allVars
=============================================================================

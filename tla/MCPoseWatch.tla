----------------------------- MODULE MCPoseWatch -----------------------------
(* Two components that share no state, side by side: in each behaviour only *)
(* one of them moves.  Two halls that look alike, and a few searches; and   *)
(* the health of a map with two places where walls can be doubled.          *)
EXTENDS PoseWatch, MapHealth, TLC

VARIABLE side       \* "pose" or "health"

Alike == Permutations(Halls)

allVars == <<side, vars, healthVars>>

PoseMoves(A) == side = "pose" /\ A /\ UNCHANGED <<side, healthVars>>
HealthMoves(A) == side = "health" /\ A /\ UNCHANGED <<side, vars>>
MCInit ==
    /\ Init /\ HealthInit
    /\ \/ side = "pose" /\ baseline = NoBase
       \/ side = "health" /\ ~seeding
MCNext == PoseMoves(Next) \/ HealthMoves(HealthNext)
MCSpec == MCInit /\ [][MCNext]_allVars
=============================================================================

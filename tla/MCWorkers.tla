----------------------------- MODULE MCWorkers ------------------------------
(* Two components that share no state, side by side: in each behaviour only *)
(* one of them moves.  The lidar's threads; and two callers of the matcher   *)
(* that ask about two maps with the same walls, with room for one map.       *)
EXTENDS LidarReader, LocalizeWorker

CONSTANTS c1, c2

VARIABLE side       \* "lidar" or "matcher"

MCCallers == {c1, c2}
MCMaps == [c \in MCCallers |-> {[walls |-> 1, origin |-> IF c = c1 THEN 1 ELSE 2]}]

allVars == <<side, vars, workerVars>>

MCInit ==
    /\ Init /\ WorkerInit
    /\ \/ side = "lidar" /\ enabled
       \/ side = "matcher" /\ ~soft
LidarMoves(A) == side = "lidar" /\ A /\ UNCHANGED <<side, workerVars>>
MatcherMoves(A) == side = "matcher" /\ A /\ UNCHANGED <<side, vars>>
MCNext == LidarMoves(Next) \/ MatcherMoves(WorkerNext)
MCSpec ==
    /\ MCInit /\ [][MCNext]_allVars
    /\ WF_allVars(LidarMoves(ScanStep)) /\ WF_allVars(LidarMoves(DogStep))
    /\ WF_allVars(LidarMoves(MainStep)) /\ WF_allVars(LidarMoves(Tick))
    /\ \A c \in Callers : WF_allVars(MatcherMoves(Steps(c)))
=============================================================================

--------------------------- MODULE MCDriveChannel ---------------------------
(* The two halves of ViamWorldIO, which share no state, side by side: in    *)
(* each behaviour only one of them moves.  The velocity path, driven by the *)
(* navigator's worker alone; and its scans, for a robot with a lidar behind *)
(* calls, or with a lidar in shared memory and a depth camera.              *)
EXTENDS DriveChannel, NavScan, TLC

CONSTANTS worker, stop, forward, turn, s1, s2, none

VARIABLE side       \* "drive" or "scan"

MCStop == stop
MCTwists == {stop, forward, turn}
MCSlots2 == {s1, s2}
MCWorker == {worker}
MCSensors == {{"lidar"}, {"lidar", "depth"}}

allVars == <<side, vars, navScanVars>>
DriveMoves(A) == side = "drive" /\ A /\ UNCHANGED <<side, navScanVars>>
ScanMoves(A) == side = "scan" /\ A /\ UNCHANGED <<side, vars>>

MCInit ==
    /\ Init /\ NavScanInit
    /\ \/ side = "drive" /\ sensors = {"lidar"}
       \/ side = "scan"
    /\ by = "rpc" <=> sensors = {"lidar"}
MCNext == DriveMoves(Next) \/ ScanMoves(NavScanNext)
MCSpec ==
    /\ MCInit /\ [][MCNext]_allVars
    /\ \A c \in Callers :
        WF_allVars(DriveMoves(Proceed(c))) /\ WF_allVars(DriveMoves(SetVelocity(c, latest.t)))
    /\ \A s \in Slots : WF_allVars(DriveMoves(LoopStep(s)))
    /\ WF_allVars(DriveMoves(RefreshDue))
    /\ WF_allVars(ScanMoves(JobStores)) /\ WF_allVars(ScanMoves(Proceeds))
=============================================================================

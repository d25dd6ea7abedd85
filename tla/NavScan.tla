------------------------------ MODULE NavScan ------------------------------
(***************************************************************************)
(* What the navigator sees: ViamWorldIO.get_scan (src/src/nav/io/viam_io.py) *)
(* merges the lidar, read from shared memory or by one call in flight, with *)
(* a depth camera that jobs on the module's loop refresh behind its back.  *)
(* A scan is told by its age: how long ago the oldest thing in it was      *)
(* measured, at the latest when it was asked for.  Where the robot was     *)
(* meanwhile only decides whether a cached scan or a depth scan is near    *)
(* enough to be used, and is left open.                                    *)
(*                                                                         *)
(* Time passes by the navigator's ticks, or with nobody asking.  One lidar, *)
(* one camera without shared memory, and of the superseded jobs the last.  *)
(***************************************************************************)
EXTENDS Naturals

CONSTANTS
    Sensors,        \* the sets of sensors a robot may have
    Links,          \* how its lidar is read: "rpc", "required", "fallback"
    MaxAge,         \* max_age_s of a tick; 2 s
    FrameAge,       \* how old a frame in shared memory may be
    StuckAfter,     \* 5 s
    Period          \* _obstacles_only_period_s

ASSUME NavScanAssumption ==
    /\ Sensors \subseteq SUBSET {"lidar", "depth"}
    /\ Links \subseteq {"rpc", "required", "fallback"}
    /\ MaxAge \in Nat \ {0} /\ StuckAfter \in Nat \ {0} /\ FrameAge \in Nat /\ Period \in Nat
    /\ FrameAge <= StuckAfter

VARIABLES
    sensors, by,    \* the robot's sensors and how the lidar is read
    sees,           \* the camera answers
    ask,            \* the thread in get_scan: where it is, the lidar's scan
    depthToo,       \* include_obstacles_only of this call
    call,           \* _lidar_futs: the call in flight
    job, late,      \* the depth job of the last generation, and one before it
    busy,           \* _obstacles_refresh_inflight
    depth,          \* _per_lidar_scan of the camera: its age, and when it was stored
    kept,           \* _scan_cache, and when it was
    handed,         \* the age of the scan this call returned
    since           \* ticks since there was a pause (ghost)

navScanVars ==
    <<sensors, by, sees, ask, depthToo, call, job, late, busy, depth, kept, handed, since>>

-----------------------------------------------------------------------------
\* The age from which on scans are not told apart.
Bound == StuckAfter + 3 * MaxAge
Unseen == Bound + 2
Ages == 0 .. Bound + 1
Elder(a) == IF a = Unseen \/ a = Bound + 1 THEN a ELSE a + 1
Elapsed(n) == IF n > MaxAge /\ n > Period THEN n ELSE n + 1

\* Whatever was left over when the asking began has run out.
Settled == since > 2 * MaxAge + 1

NoneKept == [age |-> Unseen, at |-> 0]
Aged(k) == IF k.age = Unseen THEN k ELSE [age |-> Elder(k.age), at |-> Elapsed(k.at)]
Waiting(c) == IF c.at = "none" THEN c ELSE [c EXCEPT !.age = Elder(@)]
NotAsked == [at |-> "none", age |-> 0]

NavScanInit ==
    /\ sensors \in Sensors /\ by \in Links
    /\ sees = TRUE
    /\ ask = [at |-> "rest", got |-> Unseen] /\ depthToo = TRUE
    /\ call = NotAsked
    /\ job = NotAsked /\ late = NotAsked /\ busy = FALSE
    /\ depth = NoneKept /\ kept = NoneKept
    /\ handed = Unseen /\ since = 0

-----------------------------------------------------------------------------
(* Calls and jobs on the module's loop.                                    *)

\* The lidar's call ends, with a scan or without.
CallEnds ==
    /\ call.at = "open"
    /\ \E end \in {"scan", "miss"} : call' = [call EXCEPT !.at = end]
    /\ UNCHANGED <<sensors, by, sees, ask, depthToo, job, late, busy, depth, kept, handed, since>>

\* The camera stops answering, with its calls left open, or is back.
CameraTurns ==
    /\ "depth" \in sensors
    /\ sees' = ~sees
    /\ job' = IF sees /\ job.at = "open" THEN [job EXCEPT !.at = "lost"] ELSE job
    /\ UNCHANGED <<sensors, by, ask, depthToo, call, late, busy, depth, kept, handed, since>>

\* _store: only a job of the last generation may.
CurrentAny(superseded) == TRUE
Current(superseded) == ~superseded

\* A job stores its scan and ends ...
JobStores ==
    /\ job.at = "open"
    /\ depth' = [age |-> job.age, at |-> 0]
    /\ job' = NotAsked /\ busy' = FALSE
    /\ UNCHANGED <<sensors, by, sees, ask, depthToo, call, late, kept, handed, since>>

\* ... or fails, which the camera's own timeout may make of a lost call.
JobFails ==
    /\ job.at # "none" /\ ~(sees /\ job.at = "open")
    /\ job' = NotAsked /\ busy' = FALSE
    /\ UNCHANGED <<sensors, by, sees, ask, depthToo, call, late, depth, kept, handed, since>>

\* A superseded job comes to its end after all.
LateEnds ==
    /\ late.at # "none"
    /\ late' = NotAsked
    /\ depth' = IF Current(TRUE) THEN [age |-> late.age, at |-> 0] ELSE depth
    /\ UNCHANGED <<sensors, by, sees, ask, depthToo, call, job, busy, kept, handed, since>>

-----------------------------------------------------------------------------
(* get_scan *)

Passes ==
    /\ call' = Waiting(call) /\ job' = Waiting(job) /\ late' = Waiting(late)
    /\ depth' = Aged(depth)

\* Nobody asks for a while.
Pauses ==
    /\ ask.at = "rest"
    /\ Passes /\ kept' = Aged(kept) /\ since' = 0 /\ handed' = Unseen
    /\ UNCHANGED <<sensors, by, sees, ask, depthToo, busy>>

Asking == ask' = [at |-> IF "lidar" \in sensors THEN "lidar" ELSE "depth", got |-> Unseen]

\* The scan of a tick: the last one serves again while the robot is near.
GetScan ==
    LET k == Aged(kept)
    IN /\ ask.at = "rest"
       /\ Passes /\ kept' = k
       /\ since' = IF Settled THEN since ELSE since + 1
       /\ depthToo' = TRUE
       /\ \/ k.age # Unseen /\ k.at <= MaxAge /\ handed' = k.age /\ UNCHANGED ask
          \/ Asking /\ handed' = Unseen
       /\ UNCHANGED <<sensors, by, sees, busy>>

\* Localization asks within a tick, for the lidar alone (include_obstacles_only
\* is False).
GetLidarScan ==
    /\ ask.at = "rest"
    /\ Asking /\ depthToo' = FALSE /\ handed' = Unseen
    /\ UNCHANGED <<sensors, by, sees, call, job, late, busy, depth, kept, since>>

Then(at, age) == ask' = [at |-> at, got |-> age]
Others == UNCHANGED <<sensors, by, sees, depthToo, job, late, depth, kept, handed, since>>

\* A frame in shared memory, or none (_try_shm_scan).
ReadsFrame ==
    /\ ask.at = "lidar" /\ by # "rpc"
    /\ \/ \E a \in 0 .. FrameAge : Then("depth", a)
       \/ Then(IF by = "required" THEN "depth" ELSE "poll", Unseen)
    /\ UNCHANGED <<call, busy>> /\ Others

\* _poll_lidar_grpc: a call that is done is collected however old it is, one
\* that is stuck is replaced, and a new one is waited for.
IsStuck == call.age > StuckAfter
Collected == IF call.at = "scan" THEN call.age ELSE Unseen

PollsCall ==
    /\ ask.at = "poll" \/ (ask.at = "lidar" /\ by = "rpc")
    /\ \/ /\ call.at \in {"scan", "miss"}
          /\ Then("depth", Collected) /\ call' = NotAsked
       \/ /\ call.at = "open" /\ ~IsStuck
          /\ Then("depth", Unseen) /\ UNCHANGED call
       \/ /\ call.at = "none" \/ (call.at = "open" /\ IsStuck)
          /\ Then("wait", Unseen) /\ call' = [at |-> "open", age |-> 0]
    /\ UNCHANGED busy /\ Others

AwaitsCall ==
    /\ ask.at = "wait"
    /\ Then("depth", Collected)
    /\ call' = IF call.at = "open" THEN call ELSE NotAsked
    /\ UNCHANGED busy /\ Others

\* _kick_obstacles_only_refresh.
GivenUpNever == FALSE
GivenUp == job.age >= StuckAfter
Recent == depth.age # Unseen /\ depth.at < Period

KicksDepth ==
    /\ ask.at = "depth"
    /\ ask' = [ask EXCEPT !.at = "merge"]
    /\ IF "depth" \in sensors /\ depthToo /\ (busy => GivenUp)
       THEN /\ busy' = ~Recent
            /\ job' = IF Recent THEN job ELSE [at |-> IF sees THEN "open" ELSE "lost", age |-> 0]
            /\ late' = IF Recent \/ job.at = "none" THEN late ELSE job
       ELSE UNCHANGED <<job, late, busy>>
    /\ UNCHANGED <<sensors, by, sees, depthToo, call, depth, kept, handed, since>>

\* The depth scan is used while it is fresh and was taken near by.  Without any
\* scan the last one serves again, wherever the robot has got to.
Reusable(k) == k.at <= MaxAge

Usable(near) ==
    IF near /\ depthToo /\ depth.age # Unseen /\ depth.at <= MaxAge THEN {depth.age} ELSE {}

Merges ==
    /\ ask.at = "merge"
    /\ \E near \in BOOLEAN :
        LET ages == Usable(near) \cup ({ask.got} \ {Unseen})
            oldest == CHOOSE a \in ages : \A b \in ages : b <= a
        IN IF ages = {}
           THEN /\ handed' = IF depthToo /\ Reusable(kept) THEN kept.age ELSE Unseen
                /\ UNCHANGED kept
           ELSE /\ handed' = oldest
                /\ kept' = IF depthToo THEN [age |-> oldest, at |-> 0] ELSE kept
    /\ ask' = [at |-> "rest", got |-> Unseen]
    /\ UNCHANGED <<sensors, by, sees, depthToo, call, job, late, busy, depth, since>>

Proceeds == ReadsFrame \/ PollsCall \/ AwaitsCall \/ KicksDepth \/ Merges

Asks ==
    \/ GetScan \/ GetLidarScan \/ Proceeds

NavScanNext == CallEnds \/ CameraTurns \/ JobStores \/ JobFails \/ LateEnds \/ Pauses \/ Asks

NavScanFairness ==
    /\ WF_navScanVars(JobStores) /\ WF_navScanVars(Proceeds)

NavScanSpec == NavScanInit /\ [][NavScanNext]_navScanVars /\ NavScanFairness

-----------------------------------------------------------------------------
(* A navigator that goes on asking is never handed something measured long *)
(* ago: a dead lidar, a late job and what was left from before the pause   *)
(* all run out (_reusable_scan_cache: "a dead lidar kept reporting 0.485 m *)
(* of clearance while the body drove into the wall").                      *)
FreshScans == Settled /\ handed # Unseen => handed <= Bound

(* A depth camera that is back is looked at again, although a call of      *)
(* before never ended.                                                     *)
DepthResumes ==
    <>[](sees /\ "depth" \in sensors) /\ []<><<GetScan /\ ask' # ask>>_navScanVars
        => []<><<JobStores>>_navScanVars
=============================================================================

--------------------------- MODULE MappingRevisit ---------------------------
(***************************************************************************)
(* While a map is being made the robot may come back to a corridor with a  *)
(* drifted pose and draw it a second time.  A watchdog of the SLAM service *)
(* (src/src/models/slam.py, src/src/slam_builtin/localize_supervisor.py),  *)
(* the revisit_check command and a navigator that cannot leave its cell    *)
(* each match a scan with the live map and hand the pose found to the      *)
(* engine (src/src/slam_builtin/engine.py), where it becomes an edge of the*)
(* graph.  They share one gate for large jumps.                            *)
(*                                                                         *)
(* A pose is a place on a line of Places, in metres, and a facing; the     *)
(* corridor looks much the same the other way round.  Of a scan the model  *)
(* keeps what the matcher makes of it at each pose of the live map: the    *)
(* score of its end points in hundredths, the rank candidates are compared *)
(* by (the score with the share of the rays), and the mean error of its    *)
(* rays in centimetres.  What a stored view makes of it is a hit-rate on   *)
(* another scale.  Between two steps of a check lies an await or a         *)
(* hand-over to a thread.                                                  *)
(***************************************************************************)
EXTENDS Integers

CONSTANTS
    Places,         \* where the robot can be, at these distances
    Scans,          \* scans that can be read
    NoScan,         \* none of them
    Fit,            \* what the matcher makes of a scan at each pose
    ViewRates,      \* hit-rates of scans against stored views
    NoRays,         \* the error where no ray counts: not finite, above any other
    Near, Wide,     \* mapping_revisit_search_radius_m, mapping_revisit_wide_radius_m
    Close,          \* the radius of the refine of a stuck navigator
    MinScore,       \* mapping_revisit_min_score
    FullMapMinScore,    \* mapping_revisit_full_map_min_score
    KeyframeMinScore,   \* mapping_revisit_keyframe_min_score
    MaxRayError,    \* mapping_revisit_max_ray_mae_m
    MinShift,       \* mapping_revisit_min_shift_m
    LargeShift,     \* localize_jump_large_m
    MaxShift,       \* mapping_revisit_max_shift_m
    SoftShift,      \* mapping_revisit_max_shift_soft_m
    WholeMap,       \* mapping_revisit_full_map_fallback
    WhileMoving,    \* mapping_revisit_while_moving
    Rebuild,        \* builtin_rebuild_map_on_revisit
    MaxChecks,      \* bound: checks, refines and flips begun
    MaxEvents       \* bound: moves of the robot and further sessions

Poses == [place : Places, turned : BOOLEAN]
NoScore == -1000            \* too little of the scan falls on the map
Scores == (-100 .. 100) \cup {NoScore}

ASSUME RevisitAssumption ==
    /\ Places \subseteq Int /\ 0 \in Places
    /\ NoScan \notin Scans
    /\ Fit \in [Scans -> [Poses -> [score : Scores, rank : Int, rays : 0 .. NoRays]]]
    /\ ViewRates \subseteq 0 .. 100
    /\ {Near, Wide, Close, MinShift, LargeShift, MaxShift, SoftShift, MaxRayError, NoRays,
         MaxChecks, MaxEvents} \subseteq Nat
    /\ {MinScore, FullMapMinScore, KeyframeMinScore} \subseteq 0 .. 100
    /\ {WholeMap, WhileMoving, Rebuild} \subseteq BOOLEAN

Callers == {"watchdog", "command", "stuck"}
Overrides == {"none", "yes", "no"}      \* apply_override
Here == [place |-> 0, turned |-> FALSE]
NoCheck == [pc |-> "idle", from |-> Here, scan |-> NoScan, best |-> Here, tier |-> "map",
            score |-> NoScore, good |-> FALSE, override |-> "none", turn |-> FALSE, force |-> FALSE,
            plausible |-> FALSE, live |-> TRUE]

VARIABLES
    mapping,    \* the mode is mapping
    pose,       \* _pose of the engine
    checks,     \* what each caller is at
    pending,    \* _pending and _count of the jump gate: the set of its poses, empty or one
    frames,     \* places of the pause keyframes
    library,    \* poses the slices of the library were recorded at
    spent       \* what the bounds have spent

revisitVars == <<mapping, pose, checks, pending, frames, library, spent>>

RevisitJobs ==
    [pc : {"idle", "local", "wide", "whole", "keyframe", "yaw", "verify", "prior", "hand",
           "graph"},
     from : Poses, scan : Scans \cup {NoScan}, best : Poses, tier : {"map", "keyframe"},
     score : Scores, good : BOOLEAN, override : Overrides, turn : BOOLEAN, force : BOOLEAN,
     plausible : BOOLEAN,
     live : BOOLEAN]        \* of the session that runs

RevisitTypeOK ==
    /\ mapping \in BOOLEAN
    /\ pose \in Poses
    /\ checks \in [Callers -> RevisitJobs]
    /\ pending \in {{}} \cup {{p} : p \in Poses}
    /\ frames \subseteq Places
    /\ library \subseteq Poses
    /\ spent \in [checks : 0 .. MaxChecks, events : 0 .. MaxEvents]

RevisitInit ==
    /\ mapping = TRUE
    /\ pose = Here
    /\ checks = [c \in Callers |-> NoCheck]
    /\ pending = {} /\ frames = {} /\ library = {}
    /\ spent = [checks |-> 0, events |-> 0]

-----------------------------------------------------------------------------
\* Poses and matches

Shift(p, q) == LET d == p.place - q.place IN IF d < 0 THEN -d ELSE d
Turned(p, q) == p.turned # q.turned
Flip(p) == [p EXCEPT !.turned = ~@]
Around(p, radius) == {q \in Poses : Shift(p, q) <= radius /\ ~Turned(p, q)}
Diff(a, b) == IF a < b THEN b - a ELSE a - b

\* The ordinary bar, and the part of it every tier has: no ray counts, or they fit.
Aligned(fit) == fit.rays = NoRays \/ fit.rays <= MaxRayError
MapGood(fit) == fit.score >= MinScore /\ Aligned(fit)

\* The same place both ways: on a near tie the facing of the hint, where there
\* is one; else the tighter rays if the ranks tie; else the better rank.
ChooseYaw(scan, p, hint) ==
    LET a == Fit[scan][p]
        b == Fit[scan][Flip(p)]
        tie == NoScore \notin {a.score, b.score} /\ Diff(a.rank, b.rank) <= 5
        near == tie /\ NoRays \notin {a.rays, b.rays} /\ Diff(a.rays, b.rays) <= 20
        flip == IF near /\ hint # {} THEN p.turned \notin hint
                ELSE IF tie THEN b.rays < a.rays ELSE b.rank > a.rank
    IN IF flip THEN Flip(p) ELSE p

\* What a search can return: its best candidate that has a score, then faced.
Found(scan, among, hint) ==
    LET scored == {q \in among : Fit[scan][q].score # NoScore}
    IN {ChooseYaw(scan, p, hint) :
           p \in {q \in scored : \A r \in scored : Fit[scan][r].rank <= Fit[scan][q].rank}}

\* The cap on a correction grows with what its score has above the ordinary bar.
AllowedShift(shift, score) ==
    \/ shift <= MaxShift
    \/ /\ score > MinScore
       /\ (shift - MaxShift) * (100 - MinScore) <= SoftShift * (score - MinScore)
Sane(j) == AllowedShift(Shift(j.best, j.from), j.score)
Drifted(p, q) == Shift(p, q) >= MinShift \/ Turned(p, q)
Large(p, q) == Shift(p, q) >= LargeShift \/ Turned(p, q)

Puts(c, j) == checks' = [checks EXCEPT ![c] = j]
Ends(c) == Puts(c, NoCheck)

-----------------------------------------------------------------------------
\* A check begins

Spends(what) == spent' = [spent EXCEPT ![what] = @ + 1]

\* The speed is read once, with the pose; apply: true does not ask for it.
Begins(c) ==
    /\ c \in {"watchdog", "command"}
    /\ checks[c].pc = "idle" /\ mapping /\ spent.checks < MaxChecks
    /\ \E motion \in {"still", "moving", "spinning"}, scan \in Scans,
          override \in (IF c = "watchdog" THEN {"none"} ELSE Overrides),
          turn \in (IF c = "watchdog" THEN {FALSE} ELSE BOOLEAN) :
          /\ override # "yes" => motion # "spinning" /\ (motion = "moving" => WhileMoving)
          /\ Puts(c, [NoCheck EXCEPT !.pc = "local", !.from = pose, !.scan = scan,
                                   !.override = override, !.turn = turn])
    /\ Spends("checks")
    /\ UNCHANGED <<mapping, pose, pending, frames, library>>

\* flip_yaw_only: the pose turned about, applied by force; without a score it
\* counts as one at the bar.
FlipsInPlace ==
    /\ checks["command"].pc = "idle" /\ spent.checks < MaxChecks
    /\ Puts("command", [NoCheck EXCEPT !.pc = "hand", !.from = pose, !.best = Flip(pose),
                                     !.score = MinScore, !.force = TRUE])
    /\ Spends("checks")
    /\ UNCHANGED <<mapping, pose, pending, frames, library>>

\* The navigator asks in either mode.
StuckBegins ==
    /\ checks["stuck"].pc = "idle" /\ spent.checks < MaxChecks
    /\ \E scan \in Scans :
          Puts("stuck", [NoCheck EXCEPT !.pc = "local", !.from = pose, !.scan = scan])
    /\ Spends("checks")
    /\ UNCHANGED <<mapping, pose, pending, frames, library>>

-----------------------------------------------------------------------------
\* Tiers: each takes its best match if it is good enough, else the next one

WhenBad(j) == IF j.good THEN "yaw"
              ELSE IF frames # {} THEN "keyframe" ELSE "yaw"

Takes(j, p) == LET fit == Fit[j.scan][p]
               IN [j EXCEPT !.best = p, !.score = fit.score, !.good = MapGood(fit)]

MatchLocal(c) ==
    /\ c # "stuck" /\ checks[c].pc = "local"
    /\ LET j == checks[c] IN
       \E p \in Found(j.scan, Around(j.from, Near), {j.from.turned}) :
       LET k == Takes(j, p) IN Puts(c, [k EXCEPT !.pc = IF k.good THEN "yaw" ELSE "wide"])
    /\ UNCHANGED <<mapping, pose, pending, frames, library, spent>>

MatchWide(c) ==
    /\ checks[c].pc = "wide"
    /\ LET j == checks[c] IN
       \E p \in Found(j.scan, Around(j.from, Wide), {j.from.turned}) :
       LET better == MapGood(Fit[j.scan][p]) \/ Fit[j.scan][p].score > j.score
           k == IF better THEN Takes(j, p) ELSE j
       IN Puts(c, [k EXCEPT !.pc = IF ~k.good /\ WholeMap THEN "whole" ELSE WhenBad(k)])
    /\ UNCHANGED <<mapping, pose, pending, frames, library, spent>>

\* Without a hint, and with a bar of its own.
MatchWhole(c) ==
    /\ checks[c].pc = "whole"
    /\ LET j == checks[c] IN
       \E p \in Found(j.scan, Poses, {}) :
       LET high == Fit[j.scan][p].score >= FullMapMinScore /\ Aligned(Fit[j.scan][p])
           k == IF high THEN [Takes(j, p) EXCEPT !.good = TRUE] ELSE j
       IN Puts(c, [k EXCEPT !.pc = WhenBad(k)])
    /\ UNCHANGED <<mapping, pose, pending, frames, library, spent>>

\* A stored view is matched on its own terms, any facing at its place: its
\* hit-rate is the score and the verdict, the map only says whether the rays
\* fit.  Below its bar the match of the map stays.
MatchKeyframe(c) ==
    /\ checks[c].pc = "keyframe"
    /\ LET j == checks[c] IN
       \/ \E seen \in {q \in Poses : q.place \in frames},
             rate \in {r \in ViewRates : r >= KeyframeMinScore} :
          LET p == ChooseYaw(j.scan, seen, {j.from.turned})
          IN Puts(c, [j EXCEPT !.pc = "yaw", !.tier = "keyframe", !.best = p, !.score = rate,
                             !.good = Aligned(Fit[j.scan][p])])
       \/ Puts(c, [j EXCEPT !.pc = "yaw"])
    /\ UNCHANGED <<mapping, pose, pending, frames, library, spent>>

-----------------------------------------------------------------------------
\* What is done about the match

\* The gate: a large jump is applied when the candidate agrees with the one
\* before.
Gated(c, j) ==
    IF j.override = "yes" \/ ~Large(j.best, j.from) \/ pending = {j.best}
    THEN pending' = {} /\ Puts(c, [j EXCEPT !.pc = "hand"])
    ELSE pending' = {j.best} /\ Ends(c)

Wanted(j) ==
    \/ j.override = "yes"
    \/ /\ j.override = "none" /\ j.good /\ Drifted(j.best, j.from)
       /\ Sane(j)

\* Which way the robot faces at the pose found.
Facing(j) ==
    LET q == ChooseYaw(j.scan, j.best, {j.from.turned}) IN IF j.turn THEN Flip(q) ELSE q

\* The facing is chosen and the verdict of the tier kept.
FacedUnjudged(j) == [j EXCEPT !.best = Facing(j)]

\* The match is judged again at that facing: a match of the map by the ordinary
\* bar, whichever search found it; one of a view keeps its hit-rate, and only
\* the rays are looked at again.
Faced(j) ==
    IF j.tier = "map" THEN Takes(j, Facing(j))
    ELSE [j EXCEPT !.best = Facing(j),
                   !.good = j.score >= KeyframeMinScore /\ Aligned(Fit[j.scan][Facing(j)])]

\* Slices are recorded where a good match found the robot undrifted.
Decides(c) ==
    /\ checks[c].pc = "yaw"
    /\ LET j == Faced(checks[c])
       IN \/ /\ j.override # "yes" /\ (~Sane(j) \/ ~j.good)
             /\ Ends(c)
             /\ UNCHANGED <<pending, library>>
          \/ /\ Wanted(j) /\ Drifted(j.best, j.from)
             /\ Puts(c, [j EXCEPT !.pc = "verify"])
             /\ UNCHANGED <<pending, library>>
          \/ /\ Wanted(j) /\ ~Drifted(j.best, j.from)
             /\ Gated(c, j)
             /\ UNCHANGED library
          \/ /\ ~Wanted(j) /\ Sane(j) /\ j.good
             /\ pending' = {}
             /\ Ends(c)
             /\ library' = library \cup
                   (IF j.live /\ ~Drifted(j.best, j.from) THEN {j.from} ELSE {})
    /\ UNCHANGED <<mapping, pose, frames, spent>>

\* The library of height slices, the one the check began with, has no say where
\* it holds nothing.
Verifies(c) ==
    /\ checks[c].pc = "verify"
    /\ \/ Gated(c, checks[c])
       \/ /\ checks[c].override # "yes" /\ (library # {} \/ ~checks[c].live)
          /\ Ends(c)
          /\ UNCHANGED pending
    /\ UNCHANGED <<mapping, pose, frames, library, spent>>

\* The matcher, the scan or the check of slices fails.
GivesUp(c) ==
    /\ checks[c].pc \notin {"idle", "hand", "graph"}
    /\ Ends(c)
    /\ UNCHANGED <<mapping, pose, pending, frames, library, spent>>

-----------------------------------------------------------------------------
\* A navigator that is stuck: a match close by, if it beats the published pose

StuckMatches ==
    /\ checks["stuck"].pc = "local"
    /\ LET j == checks["stuck"] IN
       \E p \in Found(j.scan, Around(j.from, Close), {j.from.turned}) :
          Puts("stuck", [Takes(j, p) EXCEPT !.pc = "prior"])
    /\ UNCHANGED <<mapping, pose, pending, frames, library, spent>>

\* A clear win over staying where the check began: by more the farther it
\* moves, and with rays not clearly worse; without a score there, a higher floor.
ClearWin(j) ==
    LET fit == Fit[j.scan][j.best]
        prior == Fit[j.scan][j.from]
        shift == Shift(j.best, j.from)
    IN /\ shift \in 1 .. Close /\ ~Turned(j.best, j.from)
       /\ fit.score >= 22
       /\ IF prior.score = NoScore THEN fit.score >= 35
          ELSE /\ fit.score >= prior.score + 6 + 10 * shift
               /\ NoRays \in {fit.rays, prior.rays} \/ fit.rays <= prior.rays + 15

\* An ambiguous match is left alone: neighbours a few centimetres off rank with it.
StuckDecides ==
    /\ checks["stuck"].pc = "prior"
    /\ LET j == checks["stuck"] IN
       \E ambiguous \in BOOLEAN :
          IF ambiguous \/ ~ClearWin(j) THEN Ends("stuck")
          ELSE Puts("stuck", [j EXCEPT !.pc = "hand"])
    /\ UNCHANGED <<mapping, pose, pending, frames, library, spent>>

-----------------------------------------------------------------------------
\* The engine

\* A caller that is done: the refine clears the gate, a check that corrected
\* records its slices.
Reports(c, applied) ==
    LET j == checks[c] IN
    /\ Ends(c)
    /\ pending' = IF c = "stuck" THEN {} ELSE pending
    /\ library' = library \cup
          (IF applied /\ j.good /\ ~j.force /\ c # "stuck" /\ j.live THEN {j.best} ELSE {})

\* The shift is measured under the lock, and with it whether it is plausible;
\* a large one then waits for the graph job.
Measures(c) ==
    /\ checks[c].pc = "hand"
    /\ LET j == checks[c]
           rebuild == mapping /\ Rebuild /\ Drifted(j.best, pose)
           plausible == AllowedShift(Shift(j.best, pose), j.score) /\ ~Turned(j.best, pose)
       IN IF rebuild
          THEN /\ Puts(c, [j EXCEPT !.pc = "graph", !.plausible = plausible])
               /\ UNCHANGED <<pose, pending, library>>
          ELSE /\ pose' = j.best
               /\ Reports(c, TRUE)
    /\ UNCHANGED <<mapping, frames, spent>>

\* By force the pose moves whatever the graph says; else only a plausible
\* correction does, and the graph may still turn it down.
Lands(c) ==
    /\ checks[c].pc = "graph"
    /\ LET j == checks[c] IN
       \/ /\ j.force \/ j.plausible
          /\ pose' = j.best
          /\ Reports(c, TRUE)
       \/ /\ ~j.force
          /\ Reports(c, FALSE)
          /\ UNCHANGED pose
    /\ UNCHANGED <<mapping, frames, spent>>

-----------------------------------------------------------------------------
\* The robot, its pauses and the sessions

RobotMoves ==
    /\ spent.events < MaxEvents
    /\ \E p \in Places \ {pose.place} : pose' = [pose EXCEPT !.place = p]
    /\ Spends("events")
    /\ UNCHANGED <<mapping, checks, pending, frames, library>>

\* A pause becomes a keyframe, and its slices go into the library.
Pauses ==
    /\ mapping /\ pose.place \notin frames
    /\ frames' = frames \cup {pose.place}
    /\ library' = library \cup {pose}
    /\ UNCHANGED <<mapping, pose, checks, pending, spent>>

\* A session begins with no views; the watchdog's task is cancelled, what it
\* gave to a thread goes on.  The gate keeps what it holds.
Restarts ==
    /\ spent.events < MaxEvents
    /\ mapping' \in BOOLEAN
    /\ pose' = Here
    /\ frames' = {} /\ library' = {}
    /\ checks' = [c \in Callers |->
          IF checks[c].pc = "idle" \/ (c = "watchdog" /\ checks[c].pc \notin {"hand", "graph"})
          THEN NoCheck ELSE [checks[c] EXCEPT !.live = FALSE]]
    /\ Spends("events")
    /\ UNCHANGED pending

CheckStep(c) ==
    \/ Begins(c) \/ MatchLocal(c) \/ MatchWide(c) \/ MatchWhole(c) \/ MatchKeyframe(c)
    \/ Decides(c) \/ Verifies(c) \/ GivesUp(c) \/ Measures(c) \/ Lands(c)

RevisitNext ==
    \/ \E c \in Callers : CheckStep(c)
    \/ FlipsInPlace \/ StuckBegins \/ StuckMatches \/ StuckDecides
    \/ RobotMoves \/ Pauses \/ Restarts

RevisitSpec == RevisitInit /\ [][RevisitNext]_revisitVars

-----------------------------------------------------------------------------
\* What vouches for a correction at the very pose that is handed over.
MapVouches(j) ==
    /\ Aligned(Fit[j.scan][j.best])
    /\ j.score = Fit[j.scan][j.best].score /\ j.score >= MinScore
ViewVouches(j) ==
    /\ Aligned(Fit[j.scan][j.best])
    /\ j.score \in ViewRates /\ j.score >= KeyframeMinScore
Vouched(c, j) ==
    IF c = "stuck" THEN ClearWin(j)
    ELSE Sane(j) /\ IF j.tier = "map" THEN MapVouches(j) ELSE ViewVouches(j)

(* A correction no operator forced is on its way to the engine only where   *)
(* its own tier vouches for the very place and facing it gives: the map at  *)
(* the ordinary bar; a stored view with its hit-rate and the rays that fit  *)
(* there; the refine of a stuck navigator with a clear win over staying.    *)
(* And a check never hands over a pose farther off than the score it hands  *)
(* over allows.  None of this may be what another tier, or the other        *)
(* facing, had.  (_mapping_revisit_cycle, _stuck_pose_refine)               *)
AppliedIsGood ==
    \A c \in Callers :
        LET j == checks[c] IN
        j.pc \in {"hand", "graph"} /\ j.override # "yes" /\ ~j.force => Vouched(c, j)
=============================================================================

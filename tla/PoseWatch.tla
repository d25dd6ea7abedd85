------------------------------ MODULE PoseWatch ------------------------------
(***************************************************************************)
(* Who places the robot on a loaded map.  The SLAM service                 *)
(* (src/src/models/slam.py, src/src/slam_builtin/localize_supervisor.py)   *)
(* searches the map for the robot from a watchdog task, on request of the  *)
(* navigator, and once at startup; the operator sets the pose by hand; the *)
(* loop thread of the engine (src/src/slam_builtin/engine.py) matches      *)
(* every scan.  They share one pose and, but for the loop thread, one gate *)
(* that asks for two agreeing matches before a large jump                  *)
(* (src/src/nav/localize/pose_jump_gate.py).                               *)
(*                                                                         *)
(* A pose is the hall it lies in: within a hall a correction is small, from*)
(* one hall to another (the twin corridor) it is large, past every cap.    *)
(* What a search finds is open.  Coroutines run one at a time and give way *)
(* at each await; a relocalize call that was handed to its thread goes on  *)
(* whatever becomes of the coroutine.                                      *)
(***************************************************************************)
EXTENDS Naturals, FiniteSets

CONSTANTS
    Halls,          \* places that look alike
    None,           \* no hall
    MaxSearches,    \* bound: searches begun by the service
    MaxSeeds,       \* bound: poses set by the operator
    MaxGoals,       \* bound: goals that are driven to
    MaxScans,       \* bound: scans matched by the loop thread
    MaxPasses,      \* refine passes of the startup search; 0 when it does not refine
    DuringNavigation    \* periodic_relocalize_during_navigation

ASSUME WatchAssumption ==
    /\ None \notin Halls /\ Halls # {}
    /\ {MaxSearches, MaxSeeds, MaxGoals, MaxScans, MaxPasses} \subseteq Nat
    /\ DuringNavigation \in BOOLEAN

Confirms == 2                       \* localize_jump_confirm_count
Checks == {"watchdog", "request"}
Movers == Checks \cup {"startup", "operator"}

VARIABLES
    at,         \* hall of the pose the engine publishes
    seeding,    \* _seed_localize_pending
    tick,       \* the scan the loop thread is matching
    lead,       \* _pending_match and _pending_count, for a jump to another hall
    gates,      \* the gate of the service and the one of the engine
    soft,       \* _soft_nav_hold_since and _soft_nav_hold_released
    drive,      \* whether a goal is active, and the base moving
    check,      \* the relocalize cycles
    startup,    \* the startup search
    operator,   \* the set_initial_pose command
    job,        \* relocalize calls in their threads
    left,       \* what the bounds leave
    backing,    \* the last large jump a gate let through: who asked, how many matches (ghost)
    seeded      \* a pose set by hand was taken (ghost)

vars == <<at, seeding, tick, lead, gates, soft, drive, check, startup,
          operator, job, left, backing, seeded>>

Place == Halls \cup {None}
Gate == [hall : Place, count : 0 .. Confirms - 1, matches : 0 .. Confirms - 1]
Open == [hall |-> None, count |-> 0, matches |-> 0]
NoLead == [hall |-> None, count |-> 0, old |-> FALSE]
Kinds == {"auto", "refine", "recover", "force", "manual"}
Cycle == [pc : {"idle", "match", "again", "move"}, from : Place, kind : Kinds,
          base : {"idle", "moving", "stopped"}]
Quiet == [pc |-> "idle", from |-> None, kind |-> "auto", base |-> "idle"]
Best == [hall : Place, score : 0 .. 2, seen : BOOLEAN]
NoBest == [hall |-> None, score |-> 0, seen |-> FALSE]
NoSearch == [pc |-> "off", best |-> NoBest, pass |-> 0, tries |-> 0]

TypeOK ==
    /\ at \in Halls
    /\ seeding \in BOOLEAN
    /\ tick \in [pc : {"idle", "match", "seed"}, moved : BOOLEAN]
    /\ lead \in [hall : Place, count : 0 .. 2, old : BOOLEAN]
    /\ gates \in [service : Gate, engine : Gate]
    /\ soft \in {"none", "timing", "released"}
    /\ drive \in {"idle", "moving", "stopped"}
    /\ check \in [Checks -> Cycle]
    /\ startup \in [pc : {"off", "local", "full", "retry", "parked", "search", "refine", "move", "post",
                          "finish"},
                    best : Best, pass : 0 .. MaxPasses, tries : 0 .. Confirms]
    /\ operator \in [pc : {"idle", "place", "seeded", "match", "move"}, hall : Place]
    /\ job \in [Movers -> Place]
    /\ left \in [searches : 0 .. MaxSearches, seeds : 0 .. MaxSeeds,
                 goals : 0 .. MaxGoals, scans : 0 .. MaxScans]
    /\ backing \in [by : {"check", "search", "refine", "seed"}, matches : 0 .. Confirms]
    /\ seeded \in BOOLEAN

Init ==
    /\ at \in Halls
    /\ seeding \in BOOLEAN            \* unless the last pose was restored from disk
    /\ tick = [pc |-> "idle", moved |-> FALSE]
    /\ lead = NoLead
    /\ gates = [service |-> Open, engine |-> Open]
    /\ soft = "none" /\ drive = "idle"
    /\ check = [c \in Checks |-> Quiet]
    /\ startup = [NoSearch EXCEPT !.pc = IF seeding THEN "full" ELSE "local"]
    /\ operator = [pc |-> "idle", hall |-> None]
    /\ job = [m \in Movers |-> None]
    /\ left = [searches |-> MaxSearches, seeds |-> MaxSeeds, goals |-> MaxGoals,
               scans |-> MaxScans]
    /\ backing = [by |-> "seed", matches |-> Confirms]
    /\ seeded = FALSE

-----------------------------------------------------------------------------
(* The gate.  matches counts the different matches among its votes: a      *)
(* search may put the same match to it again.                              *)

\* What the gate says to a pose in hall, seen from the pose in hall from.
Applies(gate, from, hall, forced) ==
    \/ forced
    \/ hall = from
    \/ gate.hall = hall /\ gate.count + 1 >= Confirms

Voted(gate, from, hall, forced, new) ==
    IF Applies(gate, from, hall, forced) THEN Open
    ELSE IF gate.hall = hall
         THEN [gate EXCEPT !.count = @ + 1, !.matches = IF new THEN @ + 1 ELSE @]
         ELSE [hall |-> hall, count |-> 1, matches |-> 1]

\* A large jump that is let through, and the matches behind it.
Backs(who, gate, from, hall, forced, new) ==
    backing' = IF Applies(gate, from, hall, forced) /\ hall # from /\ ~forced
               THEN [by |-> who,
                     matches |-> (IF gate.hall = hall THEN gate.matches ELSE 0)
                                 + (IF new THEN 1 ELSE 0)]
               ELSE backing

\* set_pose: the pose takes another frame, and what was half confirmed is
\* forgotten; a scan that is being matched belongs to the old frame.
Placed(hall) ==
    /\ at' = hall
    /\ seeding' = FALSE
    /\ tick' = [tick EXCEPT !.moved = tick.pc = "match"]
    /\ lead' = NoLead

-----------------------------------------------------------------------------
(* The loop thread.                                                        *)

\* It takes a scan and the epoch of the pose, and matches off the lock.
TickBegins ==
    /\ tick.pc = "idle" /\ left.scans > 0
    /\ tick' = [pc |-> IF seeding THEN "seed" ELSE "match", moved |-> FALSE]
    /\ left' = [left EXCEPT !.scans = @ - 1]
    /\ UNCHANGED <<at, seeding, lead, gates, soft, drive, check, startup, operator, job, backing, seeded>>

TickDone == tick' = [pc |-> "idle", moved |-> FALSE]

TickKeeps ==
    UNCHANGED <<gates, soft, drive, check, startup, operator, job, left, backing, seeded>>

\* The pose took another frame under the match: it is dropped.
TickDrops ==
    /\ tick.pc = "match" /\ tick.moved
    /\ TickDone
    /\ UNCHANGED <<at, seeding, lead>> /\ TickKeeps

\* A match that is held, or that lies in the hall of the pose: no jump is
\* half confirmed any more.
TickHolds ==
    /\ tick.pc = "match" /\ ~tick.moved
    /\ TickDone
    /\ lead' = NoLead
    /\ UNCHANGED <<at, seeding>> /\ TickKeeps

\* A match of another hall: the first is remembered, each further one that
\* agrees walks the pose, until it arrives.
TickLeads(hall) ==
    /\ tick.pc = "match" /\ ~tick.moved /\ hall # at
    /\ TickDone
    /\ LET seen == IF lead.hall = hall THEN lead.count + 1 ELSE 1 IN
         IF seen < 2
         THEN at' = at /\ lead' = [hall |-> hall, count |-> seen, old |-> tick.moved]
         ELSE /\ at' \in {at, hall}
              /\ lead' = [hall |-> hall, count |-> 2, old |-> tick.moved]
    /\ UNCHANGED seeding /\ TickKeeps

\* The full-map match of an unplaced robot is too weak.
SeedWeak ==
    /\ tick.pc = "seed"
    /\ TickDone
    /\ UNCHANGED <<at, seeding, lead>> /\ TickKeeps

\* A trusted one is put to the engine's gate, and placed when that lets it:
\* the epoch of the pose stays, and nobody asks whether the robot was placed
\* meanwhile.
SeedFound(hall) ==
    /\ tick.pc = "seed"
    /\ TickDone
    /\ gates' = [gates EXCEPT !.engine = Voted(@, at, hall, FALSE, TRUE)]
    /\ IF Applies(gates.engine, at, hall, FALSE)
       THEN at' = hall /\ seeding' = FALSE /\ lead' = NoLead
       ELSE UNCHANGED <<at, seeding, lead>>
    /\ Backs("seed", gates.engine, at, hall, FALSE, TRUE)
    /\ UNCHANGED <<soft, drive, check, startup, operator, job, left, seeded>>

-----------------------------------------------------------------------------
(* relocalize: the call is handed to a thread, which sets the pose unless  *)
(* the robot is there already; the coroutine goes on when it has.          *)

Moves(m) ==
    /\ job[m] # None
    /\ \/ Placed(job[m])
       \/ job[m] = at /\ UNCHANGED <<at, seeding, tick, lead>>   \* a nudge is ignored
    /\ job' = [job EXCEPT ![m] = None]
    /\ UNCHANGED <<gates, soft, drive, check, startup, operator, left, backing, seeded>>

-----------------------------------------------------------------------------
(* One relocalize cycle: _periodic_relocalize_cycle.                       *)

\* The watchdog waits while the base drives, unless it is told to run during
\* navigation; a request of the navigator says so, and is made of a halted base
\* but for a refine.  The pose to search around, and what the base does, are
\* read here and used when the match is there.
CheckBegins(c, kind) ==
    /\ check[c].pc = "idle" /\ left.searches > 0
    /\ c = "watchdog" => kind = "auto"
    /\ kind = "auto" => drive # "moving" \/ DuringNavigation
    /\ kind \in {"recover", "force"} => drive = "stopped"
    /\ kind = "refine" => drive # "idle"
    /\ check' = [check EXCEPT ![c] =
                   [pc |-> "match", from |-> at, kind |-> kind, base |-> drive]]
    /\ left' = [left EXCEPT !.searches = @ - 1]
    /\ UNCHANGED <<at, seeding, tick, lead, gates, soft, drive, startup, operator, job,
                   backing, seeded>>

Matched(c) == check[c].pc \in {"match", "again"}
Forced(c) == check[c].kind \in {"force", "manual"}
Driving(c) == check[c].base = "moving"

\* No cap for a match the operator forces.
RefusesUnforced(c, good) == check[c].kind = "refine"

\* _should_refuse_mid_nav_jump, of a jump to another hall.  A recovery may
\* take a good match that lies within its own, wider cap; the cycle of the
\* watchdog is asked nothing, whatever the base does.
Refused(c, good) ==
    CASE check[c].kind \in {"recover", "force"} -> ~good
      [] check[c].kind = "refine"              -> TRUE
      [] check[c].kind = "manual"              -> check[c].base # "idle"
      [] check[c].kind = "auto"                -> FALSE

CheckEnds(c) ==
    /\ check' = [check EXCEPT ![c] = Quiet]
    /\ UNCHANGED <<at, seeding, tick, lead, drive, startup, operator, left, seeded>>

\* The window of the parked search held nothing: the wider one is searched.
CheckWidens(c) ==
    /\ check[c].pc = "match" /\ check[c].kind = "auto" /\ ~Driving(c)
    /\ check' = [check EXCEPT ![c].pc = "again"]
    /\ UNCHANGED <<at, seeding, tick, lead, gates, soft, drive, startup, operator, job,
                   left, backing, seeded>>

\* Two near-equal peaks; and a far peak that does not beat the pose, which
\* fits: the pose stays, and so does nothing half confirmed.
CheckAmbiguous(c) ==
    /\ Matched(c) /\ ~Forced(c)
    /\ gates' = [gates EXCEPT !.service = Open]
    /\ CheckEnds(c) /\ UNCHANGED <<soft, job, backing>>

CheckPrefersPose(c) ==
    /\ Matched(c)
    /\ gates' = [gates EXCEPT !.service = Open]
    /\ CheckEnds(c) /\ UNCHANGED <<soft, job, backing>>

\* No match to trust: the base is held while it drives, for a time when the
\* pose is only soft; a parked robot is left where it is.
CheckWeak(c, large) ==
    /\ Matched(c) /\ ~Forced(c)
    /\ IF ~Driving(c)
       THEN soft' = "none" /\ UNCHANGED gates /\ CheckEnds(c)
       ELSE IF large /\ Refused(c, FALSE)
       THEN /\ gates' = [gates EXCEPT !.service = Open]
            /\ soft' = "released" /\ CheckEnds(c)
       ELSE IF large
       THEN soft' = "none" /\ UNCHANGED gates /\ CheckEnds(c)
       ELSE /\ UNCHANGED gates
            /\ \/ soft # "released" /\ soft' = "timing" /\ CheckEnds(c)
               \/ soft' = "released" /\ CheckEnds(c)
    /\ UNCHANGED <<job, backing>>

\* A good match where the robot is thought to be.
CheckFits(c) ==
    /\ Matched(c) /\ ~Forced(c)
    /\ soft' = "none"
    /\ gates' = [gates EXCEPT !.service = Open]
    /\ CheckEnds(c) /\ UNCHANGED <<job, backing>>

\* A match worth applying, in hall: past the cap it is refused; the gate
\* lets a near one pass, and a far one when two agree, or at once when the
\* request forces it or the halted base recovers on a good match.
CheckApplies(c, hall, good) ==
    /\ Matched(c)
    /\ soft' = "none"
    /\ LET from == check[c].from
           forced == Forced(c) \/ (check[c].kind = "recover" /\ good /\ hall # from) IN
         IF hall # from /\ Refused(c, good)
         THEN /\ gates' = [gates EXCEPT !.service = Open]
              /\ CheckEnds(c) /\ UNCHANGED <<job, backing>>
         ELSE /\ gates' = [gates EXCEPT !.service = Voted(@, from, hall, forced, TRUE)]
              /\ Backs("check", gates.service, from, hall, forced, TRUE)
              /\ IF Applies(gates.service, from, hall, forced)
                 THEN /\ check' = [check EXCEPT ![c].pc = "move"]
                      /\ job' = [job EXCEPT ![c] = hall]
                      /\ UNCHANGED <<at, seeding, tick, lead, drive, startup, operator, left,
                                   seeded>>
                 ELSE CheckEnds(c) /\ UNCHANGED job

CheckSettles(c) ==
    /\ check[c].pc = "move" /\ job[c] = None
    /\ CheckEnds(c) /\ UNCHANGED <<gates, soft, job, backing>>

-----------------------------------------------------------------------------
(* The startup search: a restored pose is first looked for around it.      *)

StartupKeeps == UNCHANGED <<at, seeding, tick, lead, soft, drive, check, operator, seeded>>

\* No goal is active: asked before each step of the search.
Undriven == drive = "idle"

Searches == left.searches > 0 /\ left' = [left EXCEPT !.searches = @ - 1]

StartupBegins ==
    /\ startup.pc \in {"local", "full", "retry"} /\ Undriven /\ Searches
    /\ startup' = [startup EXCEPT !.pc = IF startup.pc = "local" THEN "parked" ELSE "search"]
    /\ UNCHANGED <<gates, job, backing>> /\ StartupKeeps

\* The attempts run out.
StartupGivesUp ==
    /\ startup.pc = "retry"
    /\ startup' = NoSearch
    /\ UNCHANGED <<gates, job, left, backing>> /\ StartupKeeps

\* _startup_apply_parked_refine: as many searches as the gate needs votes;
\* a match that is not worth it leaves the wider search.
ParkedFinds(hall) ==
    /\ startup.pc = "parked"
    /\ gates' = [gates EXCEPT !.service = Voted(@, at, hall, FALSE, TRUE)]
    /\ Backs("search", gates.service, at, hall, FALSE, TRUE)
    /\ IF Applies(gates.service, at, hall, FALSE)
       THEN /\ startup' = [NoSearch EXCEPT !.pc = "finish"]
            /\ job' = [job EXCEPT !["startup"] = hall]
            /\ UNCHANGED left
       ELSE /\ Undriven /\ Searches
            /\ startup' = IF startup.tries + 1 < Confirms
                          THEN [startup EXCEPT !.tries = @ + 1]
                          ELSE [startup EXCEPT !.pc = "search", !.tries = 0]
            /\ UNCHANGED job
    /\ StartupKeeps

ParkedMisses ==
    /\ startup.pc = "parked" /\ Searches
    /\ startup' = [startup EXCEPT !.pc = "search", !.tries = 0]
    /\ UNCHANGED <<gates, job, backing>> /\ StartupKeeps

\* _observe_startup_pose: a match below the bar is passed over, one above it
\* is put to the gate, whether it has been before or not.
Observes(who, best, otherwise) ==
    IF best.score = 0
    THEN startup' = otherwise /\ UNCHANGED <<gates, job, backing>>
    ELSE /\ gates' = [gates EXCEPT !.service = Voted(@, at, best.hall, FALSE, ~best.seen)]
         /\ Backs(who, gates.service, at, best.hall, FALSE, ~best.seen)
         /\ IF Applies(gates.service, at, best.hall, FALSE)
            THEN /\ startup' = [NoSearch EXCEPT !.pc = "move"]
                 /\ job' = [job EXCEPT !["startup"] = best.hall]
            ELSE startup' = otherwise /\ UNCHANGED job

\* Another refine pass follows, until the match meets the target.
MoreToDo(score, pass) == pass < MaxPasses /\ score < 2

\* The first match of an attempt; refine passes follow until it meets the
\* target, if they are configured.
StartupFinds(hall, score) ==
    /\ startup.pc = "search" /\ Undriven
    /\ Observes("search", [hall |-> hall, score |-> score, seen |-> FALSE],
                IF MoreToDo(score, 0)
                THEN [startup EXCEPT !.pc = "refine", !.pass = 1,
                                     !.best = [hall |-> hall, score |-> score, seen |-> score > 0]]
                ELSE [startup EXCEPT !.pc = "retry"])
    /\ UNCHANGED left /\ StartupKeeps

\* A refine pass looks around the best match so far; the better of the two is
\* kept, and observed.
StartupRefines(hall, score, better) ==
    /\ startup.pc = "refine" /\ Undriven /\ Searches
    /\ better => score >= startup.best.score
    /\ LET best == IF better THEN [hall |-> hall, score |-> score, seen |-> FALSE]
                   ELSE startup.best IN
         Observes("refine", best, IF MoreToDo(best.score, startup.pass)
                        THEN [startup EXCEPT !.pass = @ + 1,
                                             !.best = [best EXCEPT !.seen = best.score > 0]]
                        ELSE [NoSearch EXCEPT !.pc = "retry"])
    /\ StartupKeeps

\* The pose is applied; the post-apply pass searches again and applies what
\* it finds past the gate, as a command of the operator does.
StartupSettles ==
    /\ job["startup"] = None
    /\ \/ startup.pc = "finish" /\ startup' = NoSearch /\ UNCHANGED left
       \/ startup.pc = "move" /\ Undriven /\ Searches /\ startup' = [startup EXCEPT !.pc = "post"]
    /\ UNCHANGED <<gates, job, backing>> /\ StartupKeeps

StartupPost(hall) ==
    /\ startup.pc = "post"
    /\ \/ startup' = [startup EXCEPT !.pc = "finish"] /\ job' = [job EXCEPT !["startup"] = hall]
       \/ startup' = NoSearch /\ UNCHANGED job
    /\ UNCHANGED <<gates, left, backing>> /\ StartupKeeps

\* _cancel_startup_global_localize_task: the search stops at its await; a
\* relocalize call that is with its thread is not called back.
StartupGoesOn == UNCHANGED startup      \* no cancellation
StartupCancelled == startup' = NoSearch

-----------------------------------------------------------------------------
(* The operator sets the pose, in a thread; then, back on the loop, what    *)
(* was half confirmed is dropped, the startup search ends, and the pose may *)
(* be refined by a search of its own.                                       *)

OperatorKeeps == UNCHANGED <<soft, drive, check, backing>>

SetPose(hall) ==
    /\ operator.pc = "idle" /\ left.seeds > 0
    /\ operator' = [pc |-> "place", hall |-> hall]
    /\ left' = [left EXCEPT !.seeds = @ - 1]
    /\ UNCHANGED <<at, seeding, tick, lead, gates, startup, job, seeded>> /\ OperatorKeeps

Seeds ==
    /\ operator.pc = "place"
    /\ Placed(operator.hall)
    /\ operator' = [operator EXCEPT !.pc = "seeded"]
    /\ UNCHANGED <<gates, startup, job, left, seeded>> /\ OperatorKeeps

SeedTaken(refine) ==
    /\ operator.pc = "seeded"
    /\ gates' = [gates EXCEPT !.service = Open]
    /\ StartupCancelled
    /\ seeded' = TRUE
    /\ operator' = [pc |-> IF refine THEN "match" ELSE "idle", hall |-> None]
    /\ UNCHANGED <<at, seeding, tick, lead, job, left>> /\ OperatorKeeps

OperatorRefines(hall) ==
    /\ operator.pc = "match"
    /\ \/ operator' = [pc |-> "move", hall |-> None] /\ job' = [job EXCEPT !["operator"] = hall]
       \/ operator' = [pc |-> "idle", hall |-> None] /\ UNCHANGED job
    /\ UNCHANGED <<at, seeding, tick, lead, gates, startup, left, seeded>> /\ OperatorKeeps

OperatorDone ==
    /\ operator.pc = "move" /\ job["operator"] = None
    /\ operator' = [operator EXCEPT !.pc = "idle"]
    /\ UNCHANGED <<at, seeding, tick, lead, gates, startup, job, left, seeded>> /\ OperatorKeeps

-----------------------------------------------------------------------------
(* Goals, as the service sees them.  A goal that begins ends the startup    *)
(* search, and nothing else that is under way.                              *)

DriveKeeps ==
    UNCHANGED <<at, seeding, tick, lead, gates, soft, check, operator, job, backing, seeded>>

GoalBegins ==
    /\ drive = "idle" /\ left.goals > 0
    /\ drive' = "moving"
    /\ StartupCancelled
    /\ left' = [left EXCEPT !.goals = @ - 1]
    /\ DriveKeeps

BaseStops ==
    /\ drive = "moving" /\ drive' = "stopped" /\ UNCHANGED <<startup, left>> /\ DriveKeeps

BaseMoves ==
    /\ drive = "stopped" /\ drive' = "moving" /\ UNCHANGED <<startup, left>> /\ DriveKeeps

GoalEnds ==
    /\ drive # "idle" /\ drive' = "idle" /\ UNCHANGED <<startup, left>> /\ DriveKeeps

-----------------------------------------------------------------------------
TickNext ==
    \/ TickBegins \/ TickDrops \/ TickHolds \/ SeedWeak
    \/ \E hall \in Halls : TickLeads(hall) \/ SeedFound(hall)

CheckNext(c) ==
    \/ \E kind \in Kinds : CheckBegins(c, kind)
    \/ CheckWidens(c) \/ CheckAmbiguous(c) \/ CheckPrefersPose(c) \/ CheckFits(c)
    \/ \E large \in BOOLEAN : CheckWeak(c, large)
    \/ \E hall \in Halls, good \in BOOLEAN : CheckApplies(c, hall, good)
    \/ CheckSettles(c)

StartupNext ==
    \/ StartupBegins \/ StartupGivesUp \/ ParkedMisses \/ StartupSettles
    \/ \E hall \in Halls : ParkedFinds(hall) \/ StartupPost(hall)
    \/ \E hall \in Halls, score \in 0 .. 2 : StartupFinds(hall, score)
    \/ \E hall \in Halls, score \in 0 .. 2, better \in BOOLEAN : StartupRefines(hall, score, better)

OperatorNext ==
    \/ \E hall \in Halls : SetPose(hall) \/ OperatorRefines(hall)
    \/ Seeds \/ OperatorDone
    \/ \E refine \in BOOLEAN : SeedTaken(refine)

Next ==
    \/ TickNext
    \/ \E m \in Movers : Moves(m)
    \/ \E c \in Checks : CheckNext(c)
    \/ StartupNext
    \/ OperatorNext
    \/ GoalBegins \/ BaseStops \/ BaseMoves \/ GoalEnds

Spec == Init /\ [][Next]_vars

-----------------------------------------------------------------------------
(* A large jump that nothing forces rests on two matches that agree         *)
(* (pose_jump_gate.py:1-10).                                               *)
TwoMatchesAgree == backing.matches >= Confirms

(* So it does when no refine pass of the startup search asks for it: the   *)
(* tasks that share the gate, and end a cycle or start one between its     *)
(* votes, never let one match of theirs pass for two.                      *)
CyclesNeedTwo == backing.by # "refine" => TwoMatchesAgree

(* A jump the loop thread has half confirmed was seen in the frame the pose *)
(* has now: no scan matched before the pose was set or corrected counts.    *)
LeadIsCurrent == ~lead.old

(* Once a pose set by hand was taken, the startup search is over, wherever  *)
(* it stood (slam.py:1872-1873); so it is while a goal is active.           *)
StartupYields == seeded \/ drive # "idle" => startup.pc = "off"

(* A search that began while the base drove leaves the robot in the hall it *)
(* was thought to be in, however the shared gate stands by then: no refine, *)
(* recovery or command moves it.  Only the cycle of the watchdog does, where*)
(* it is told to run during navigation, and then on two matches that agree. *)
(* (_should_refuse_mid_nav_jump, slam.py:703-744)                           *)
DrivingPoseStays ==
    [][\A c \in Checks :
         /\ job[c] # job'[c] /\ job'[c] # None
         /\ Driving(c) /\ job'[c] # check[c].from
         => /\ check[c].kind = "auto" /\ DuringNavigation
            /\ backing'.by = "check" /\ backing'.matches >= Confirms]_vars

(* A pose set by hand stays until something that began after it moves it:   *)
(* no search that was under way takes the robot back to another hall        *)
(* (slam.py:1867-1870).                                                     *)
ManualSeedWins ==
    [][operator.pc = "idle" /\ seeded =>
         \A m \in Checks \cup {"startup"} :
            job[m] # None /\ job'[m] = None /\ at' # at => FALSE]_vars
=============================================================================

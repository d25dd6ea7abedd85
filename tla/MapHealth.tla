------------------------------ MODULE MapHealth ------------------------------
(***************************************************************************)
(* While a map is made, the loop worker of the engine                      *)
(* (src/src/slam_builtin/engine.py) scores the drawing every few seconds   *)
(* (refresh_map_health).  A spot where walls are doubled, seen time after  *)
(* time, is erased without anybody asking (_maybe_auto_heal_hotspot), and a*)
(* map that was torn when the session resumed on it restricts what may be  *)
(* painted over it (_baseline_trusted_locked).  The scoring runs without   *)
(* the lock; meanwhile the operator clears a region or the map, or switches*)
(* to another one.  What the scores are, and where the spot lies, is open. *)
(***************************************************************************)
EXTENDS Naturals

CONSTANTS
    Spots,          \* places of doubled walls; those apart are further than hotspot_match_m
    MinS,           \* _MAP_HEALTH_MIN_S
    PersistN,       \* map_health_hotspot_persist_n
    Cooldown,       \* map_health_auto_clear_cooldown_s
    MaxClock,       \* bound: time
    MaxCommands     \* bound: commands

ASSUME HealthAssumption ==
    /\ {MinS, PersistN} \subseteq Nat \ {0}
    /\ 0 \notin Spots
    /\ {Cooldown, MaxClock, MaxCommands} \subseteq Nat

VARIABLES
    clock,      \* time.monotonic()
    making,     \* _mode is mapping
    baseline,   \* _session_baseline: an object (0 is None), and whether it is torn
    paintTrusted, \* _operator_trusted_paint
    judged,     \* _map_health_base_src and _map_health_base
    healthAt,   \* _map_health_at; 0: never
    status,     \* the status in _map_health
    track,      \* _hotspot_track
    lastClear,  \* _hotspot_last_clear_at; 0: never
    worker,     \* the refresh under way
    objects,    \* baselines made so far
    commands,   \* bound: commands so far
    disturbed,  \* ghost: a command came since the refresh began
    trouble     \* ghost: since when refresh after refresh saw the tracked spot

healthVars == <<clock, making, baseline, paintTrusted, judged, healthAt, status, track,
                lastClear, worker, objects, commands, disturbed, trouble>>
sessionVars == <<making, baseline, paintTrusted, objects>>
ghosts == <<disturbed, trouble>>

Statuses == {"idle", "cold", "ok", "watch", "degrading"}
Base == [n : Nat, torn : BOOLEAN]
NoBase == [n |-> 0, torn |-> FALSE]
NoTrack == [on |-> FALSE, spot |-> 0, streak |-> 0, counted |-> 0]
Track == [on : BOOLEAN, spot : Spots \cup {0}, streak : Nat, counted : Nat]
Resting == [pc |-> "idle", now |-> 0, base |-> NoBase, fresh |-> FALSE, status |-> "cold",
            spot |-> 0, track |-> NoTrack]

HealthTypeOK ==
    /\ {clock, healthAt, lastClear, objects, commands, trouble} \subseteq Nat
    /\ {making, paintTrusted, disturbed} \subseteq BOOLEAN
    /\ baseline \in Base
    /\ judged \in [src : Nat, verdict : {"none", "torn", "sound"}]
    /\ status \in Statuses
    /\ track \in Track
    /\ worker \in [pc : {"idle", "assess", "track", "heal", "clear", "publish"}, now : Nat,
                   base : Base, fresh : BOOLEAN, status : Statuses, spot : Spots \cup {0},
                   track : Track]

HealthInit ==
    /\ clock = 1
    /\ making = TRUE /\ paintTrusted = FALSE
    /\ baseline \in {NoBase} \cup [n : {1}, torn : BOOLEAN]
    /\ judged = [src |-> 0, verdict |-> "none"]
    /\ healthAt = 0 /\ status = "cold"
    /\ track = NoTrack /\ lastClear = 0
    /\ worker = Resting
    /\ objects = 1 /\ commands = 0
    /\ disturbed = FALSE /\ trouble = 0

\* What the paint of a scan may change: everything, or only what is free
\* (extend_only).
Trusted == paintTrusted \/ ~(baseline.n # 0 /\ baseline.n = judged.src /\ judged.verdict = "torn")

-----------------------------------------------------------------------------
\* The worker

\* Under the lock.  A baseline it has not seen makes it forget the verdict, and
\* lets it begin before the time is up.
Refreshes ==
    /\ worker.pc = "idle" /\ making
    /\ healthAt = 0 \/ clock - healthAt >= MinS \/ baseline.n # judged.src
    /\ worker' = [Resting EXCEPT !.pc = "assess", !.now = clock, !.base = baseline,
                                 !.fresh = baseline.n # judged.src]
    /\ judged' = IF baseline.n = judged.src THEN judged
                 ELSE [src |-> baseline.n, verdict |-> "none"]
    /\ disturbed' = FALSE
    /\ UNCHANGED <<clock, sessionVars, healthAt, status, track, lastClear, commands, trouble>>

RefreshesIdle ==
    /\ worker.pc = "idle" /\ ~making
    /\ status' = "idle"
    /\ UNCHANGED <<clock, sessionVars, judged, healthAt, track, lastClear, worker, commands, ghosts>>

\* Without the lock: the verdict on the baseline, then the status and the worst
\* spot, which only a map that is watched or degrading has.
Assesses ==
    /\ worker.pc = "assess"
    /\ judged' = IF worker.fresh /\ worker.base.n # 0
                 THEN [judged EXCEPT !.verdict = IF worker.base.torn THEN "torn" ELSE "sound"]
                 ELSE judged
    /\ \E s \in Statuses \ {"idle"}, p \in Spots \cup {0} :
          worker' = [worker EXCEPT !.pc = "track", !.status = s, !.spot = p]
    /\ UNCHANGED <<clock, sessionVars, healthAt, status, track, lastClear, commands, ghosts>>

AssessFails ==
    /\ worker.pc = "assess"
    /\ worker' = Resting
    /\ UNCHANGED <<clock, sessionVars, judged, healthAt, status, track, lastClear, commands, ghosts>>

Troubled(w) == w.spot # 0 /\ w.status \in {"watch", "degrading"}

\* Mutant: every refresh counts.
CountsEvery(t, now) == TRUE

\* Samples closer than MinS count once.
Counts(t, now) == t.counted = 0 \/ now - t.counted >= MinS

Seen_(t, w) ==
    IF t.on /\ t.spot = w.spot
    THEN [t EXCEPT !.streak = IF Counts(t, w.now) THEN @ + 1 ELSE @,
                   !.counted = IF Counts(t, w.now) THEN w.now ELSE @]
    ELSE [on |-> TRUE, spot |-> w.spot, streak |-> 1, counted |-> w.now]

Tracks ==
    /\ worker.pc = "track"
    /\ LET seen == IF making /\ Troubled(worker) THEN Seen_(track, worker) ELSE NoTrack
       IN /\ track' = seen
          /\ worker' = [worker EXCEPT !.track = seen, !.pc = IF seen.on THEN "heal" ELSE "publish"]
          /\ trouble' = IF seen.on /\ track.on /\ track.spot = seen.spot THEN trouble
                        ELSE worker.now
    /\ UNCHANGED <<clock, sessionVars, judged, healthAt, status, lastClear, commands, disturbed>>

Cooled == lastClear = 0 \/ worker.now - lastClear >= Cooldown

\* The box goes from the drawing and the graph.  Whether there are enough
\* keyframes, the robot is near and no repair runs is open.
Heals ==
    /\ worker.pc = "heal"
    /\ worker.status = "degrading" /\ worker.track.streak >= PersistN /\ Cooled
    /\ worker' = [worker EXCEPT !.pc = "clear"]
    /\ UNCHANGED <<clock, sessionVars, judged, healthAt, status, track, lastClear, commands, ghosts>>

LeavesIt ==
    /\ worker.pc = "heal"
    /\ worker' = [worker EXCEPT !.pc = "publish"]
    /\ UNCHANGED <<clock, sessionVars, judged, healthAt, status, track, lastClear, commands, ghosts>>

\* What a clear_region leaves: the drawing is the new baseline, trusted, whatever
\* ghosts remain in it, and nothing is known of its health.
Cleared ==
    /\ objects' = objects + 1
    /\ \E torn \in BOOLEAN : baseline' = [n |-> objects + 1, torn |-> torn]
    /\ paintTrusted' = TRUE
    /\ judged' = [src |-> 0, verdict |-> "none"]
    /\ healthAt' = 0
    /\ track' = NoTrack

Clears ==
    /\ worker.pc = "clear"
    /\ Cleared
    /\ lastClear' = worker.now
    /\ worker' = [worker EXCEPT !.pc = "publish"]
    /\ UNCHANGED <<clock, making, status, commands, ghosts>>

Publishes ==
    /\ worker.pc = "publish"
    /\ status' = worker.status /\ healthAt' = worker.now
    /\ worker' = Resting
    /\ UNCHANGED <<clock, sessionVars, judged, track, lastClear, commands, ghosts>>

-----------------------------------------------------------------------------
\* The commands, and time

Commands ==
    /\ commands < MaxCommands
    /\ commands' = commands + 1
    /\ disturbed' = TRUE

\* configure_mode: another session, on a map or on none.
Configures ==
    /\ Commands
    /\ making' \in BOOLEAN
    /\ paintTrusted' = FALSE
    /\ objects' = objects + 1
    /\ baseline' \in {NoBase} \cup [n : {objects + 1}, torn : BOOLEAN]
    /\ track' = NoTrack /\ lastClear' = 0
    /\ UNCHANGED <<clock, judged, healthAt, status, worker, trouble>>

\* reset_map leaves the tracked spot and the time of the last refresh alone.
ResetsMap ==
    /\ Commands /\ making
    /\ baseline' = NoBase /\ paintTrusted' = FALSE
    /\ UNCHANGED <<clock, making, objects, judged, healthAt, status, track, lastClear, worker, trouble>>

OperatorClears ==
    /\ Commands /\ making
    /\ Cleared
    /\ UNCHANGED <<clock, making, status, lastClear, worker, trouble>>

TimePasses ==
    /\ clock < MaxClock
    /\ clock' = clock + 1
    /\ UNCHANGED <<sessionVars, judged, healthAt, status, track, lastClear, worker, commands, ghosts>>

HealthNext ==
    \/ Refreshes \/ RefreshesIdle \/ Assesses \/ AssessFails \/ Tracks \/ Heals \/ LeavesIt
    \/ Clears \/ Publishes
    \/ Configures \/ ResetsMap \/ OperatorClears
    \/ TimePasses

HealthSpec == HealthInit /\ [][HealthNext]_healthVars

-----------------------------------------------------------------------------
(* Walls are erased without being asked only where every refresh saw them   *)
(* doubled for as long as PersistN samples take, and not again before the   *)
(* cooldown: however often commands made the worker look again in between.  *)
(* (_maybe_auto_heal_hotspot, refresh_map_health)                           *)
ClearIsEarned ==
    worker.pc = "clear" =>
        /\ worker.now - trouble >= (PersistN - 1) * MinS
        /\ disturbed \/ lastClear = 0 \/ worker.now - lastClear >= Cooldown

(* Painting is restricted only on a map that was itself found torn, never on *)
(* the verdict about the map before it.  (_baseline_trusted_locked)          *)
DistrustIsEarned == ~Trusted => baseline.torn
=============================================================================

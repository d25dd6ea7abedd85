------------------------------- MODULE GoalRun -------------------------------
(***************************************************************************)
(* The goal of NavSupervisor.run_goal (src/src/nav/control/supervisor.py), *)
(* tick by tick: which phases run in which order, what each keeps in the   *)
(* GoalEpisode, when blocked or stalled goals are given up, and what kind  *)
(* of twist a tick ends with.  A navigator makes a supervisor for every    *)
(* goal, so each starts from Init.                                         *)
(*                                                                         *)
(* Sensors, the planner and the clock are arbitrary: readings are chosen   *)
(* where they are used, and a duration a timer of this goal may or may not *)
(* have reached is a choice, unless the timer was set in the same tick.    *)
(* LocHold says when localization holds the base, BuiltinNavigator what  *)
(* happens around a goal, DriveChannel what becomes of a twist.  With the  *)
(* footprint guard, which every navigator builds, the local planner never  *)
(* produces the command, so backup_recovery never starts and is left out.  *)
(***************************************************************************)
EXTENDS EscapeMachine

CONSTANTS
    FailLimit,      \* BLOCKED_REPLAN_FAIL_LIMIT
    StallLimit,     \* failed replans before a stalled, blocked goal fails
    StaticLimit     \* static_replan_fail_limit

ASSUME GoalAssumption ==
    /\ FailLimit \in Nat \ {0}
    /\ StallLimit \in Nat \ {0}
    /\ StaticLimit \in Nat \ {0}

Twists == {"fwd", "rev", "turn", "zero", "done"}

Ends == {"succeeded", "canceled", "lost", "blocked", "static", "stalled", "timeout"}

\* Which way a twist translates.
Directions == {"fwd", "rev", "none"}

Direction(cmd) == IF cmd \in {"fwd", "rev"} THEN cmd ELSE "none"

VARIABLES
    pc,         \* the phase of the tick that runs next, or how the goal ended
    ep,         \* GoalEpisode
    tick,       \* TickContext of the current tick
    sent,       \* the direction of _last_sent_cmd, the slew limiter's reference
    base,       \* the direction the base was last told (ghost)
    streak,     \* failed blocked replans since the last fresh start (ghost)
    reversed,   \* distance the current escape reverse has covered (ghost)
    flicker     \* an unblocked tick dropped that escape (ghost)

vars == <<pc, ep, tick, sent, base, streak, reversed, flicker>>
twist == <<sent, base>>
ghosts == <<streak, reversed, flicker>>

LesserOf(a, b) == IF a < b THEN a ELSE b

\* since: local_blocked_since is set; fails: failed_replan_while_blocked;
\* count, dist: blocked_fail_count and whether blocked_fail_dist is set;
\* static: failed_static_replan; avoid: last_obstacle_state is "avoid";
\* corridor: corridor_heading is set; escape: escape_m.  Counters stop at the
\* limits they are compared with.
NewEpisode ==
    [since |-> FALSE, fails |-> 0, count |-> 0, dist |-> FALSE, static |-> 0,
     avoid |-> FALSE, corridor |-> FALSE, escape |-> NewMachine]

\* held: loc_hold_motion; cheap: path_ahead_cost is below the cost that
\* activates the local planner; waiting: waiting_for_clear; corridor: the
\* corridor_yaw, none, aligned or wide; progressed: last_progress_at = now;
\* escaping: the command is the escape machine's.
NewTick ==
    [held |-> FALSE, scan |-> TRUE, nose |-> TRUE, cheap |-> TRUE, blocked |-> FALSE,
     waiting |-> FALSE, corridor |-> "none", cmd |-> "zero", label |-> "none",
     progressed |-> FALSE, escaping |-> FALSE]

TypeOK ==
    /\ pc \in {"top", "sense", "policy", "replan", "follow", "periodic", "gate",
               "output", "stall", "send"} \cup Ends
    /\ ep \in [since : BOOLEAN, fails : 0 .. StallLimit, count : 0 .. FailLimit,
               dist : BOOLEAN, static : 0 .. StaticLimit, avoid : BOOLEAN,
               corridor : BOOLEAN, escape : Machines]
    /\ tick \in [held : BOOLEAN, scan : BOOLEAN, nose : BOOLEAN, cheap : BOOLEAN,
                 blocked : BOOLEAN, waiting : BOOLEAN,
                 corridor : {"none", "aligned", "wide"}, cmd : Twists,
                 label : {"none", "clear", "avoid", "no_scan", "escape", "corridor"},
                 progressed : BOOLEAN, escaping : BOOLEAN]
    /\ sent \in Directions
    /\ base \in Directions
    /\ streak \in 0 .. FailLimit
    /\ reversed \in 0 .. 2 * Budget + 1
    /\ flicker \in BOOLEAN

Init ==
    /\ pc = "top"
    /\ ep = NewEpisode
    /\ tick = NewTick
    /\ sent = "none"
    /\ base = "none"
    /\ streak = 0
    /\ reversed = 0
    /\ flicker = FALSE

-----------------------------------------------------------------------------
(* GoalEpisode: the named reset packs *)

OnGoalProgress(e) == [e EXCEPT !.count = 0, !.dist = FALSE]

OnUnblocked(e) ==
    [e EXCEPT !.since = FALSE, !.fails = 0, !.corridor = FALSE,
              !.escape = ClearEpisode(@)]

\* Mutant: the successful replan leaves the count of failures.
OnBlockedReplanOkKeepsCount(e) ==
    [e EXCEPT !.since = FALSE, !.fails = 0, !.avoid = FALSE, !.corridor = FALSE,
              !.escape = ClearEpisode(@)]

OnBlockedReplanOk(e) ==
    [e EXCEPT !.since = FALSE, !.fails = 0, !.count = 0, !.dist = FALSE,
              !.avoid = FALSE, !.corridor = FALSE, !.escape = ClearEpisode(@)]

\* on_blocked_replan_fail and on_unstick_replan_fail.
OnBlockedReplanFail(e) ==
    [e EXCEPT !.fails = LesserOf(@ + 1, StallLimit), !.count = LesserOf(@ + 1, FailLimit),
              !.dist = TRUE]

OnEscapePreReplanOk(e, unstick) ==
    IF unstick
      THEN [e EXCEPT !.since = FALSE, !.fails = 0, !.count = 0, !.dist = FALSE,
                     !.avoid = FALSE]
      ELSE [e EXCEPT !.since = FALSE, !.fails = 0]

OnPeriodicReplanOk(e) == [e EXCEPT !.since = FALSE, !.fails = 0, !.static = 0]

\* on_escape_post_ok and on_stall_replan_ok.
OnReplanOk(e) == [e EXCEPT !.since = FALSE, !.fails = 0]

-----------------------------------------------------------------------------
(* The loop head and localization *)

\* world.stop() and the terminal status.
End(how) == pc' = how /\ base' = "none" /\ UNCHANGED <<ep, tick, sent, ghosts>>

\* Time and pose decide: the deadline has passed, no pose, goal reached (or
\* its yaw given up).
TimedOut == pc = "top" /\ End("timeout")

Canceled == pc = "top" /\ End("canceled")

NoPose == pc = "top" /\ End("lost")

AtGoal == pc = "top" /\ End("succeeded")

\* run_loc_hold_tick fails the goal.
LocalizationLost == pc = "top" /\ End("lost")

\* The goal got 0.5 m closer than where the failures began: fresh retries.
Progress(e) == e.dist

\* run_loc_hold_tick: the tick is held or not, and a held tick counts as
\* progress.  A cooldown of the escape may have run out.
BeginTick ==
    /\ pc = "top"
    /\ \E held, closer, cooled \in BOOLEAN :
        /\ closer => Progress(ep)
        /\ ep' = LET e == IF closer THEN OnGoalProgress(ep) ELSE ep
                 IN  [e EXCEPT !.escape.cooling = @ /\ ~cooled]
        /\ streak' = IF closer THEN 0 ELSE streak
        /\ tick' = [NewTick EXCEPT !.held = held, !.progressed = held]
    /\ pc' = "sense"
    /\ UNCHANGED <<twist, reversed, flicker>>

-----------------------------------------------------------------------------
(* Sensing and the block policy *)

\* _path_locally_blocked; hard is lethal cost on the path or under the body.
PathLocallyBlocked(hard, nose, cheap) == hard \/ (~nose /\ ~cheap)

\* run_sense_tick.  With an untrusted map pose a clear nose overrides the
\* costmap, unless reactive avoidance has been turning for a while.
Sense ==
    /\ pc = "sense"
    /\ \E scan, nose, cheap, hard, untrusted, turning \in BOOLEAN :
        LET local == PathLocallyBlocked(hard, nose, cheap)
            blocked == local /\ (~(untrusted /\ nose) \/ turning)
        IN  /\ turning => ep.avoid
            /\ tick' = [tick EXCEPT !.scan = scan, !.nose = nose, !.cheap = cheap,
                                    !.blocked = blocked]
            /\ ep' = [ep EXCEPT !.since = @ \/ (turning /\ local)]
    /\ pc' = "policy"
    /\ UNCHANGED <<twist, ghosts>>

\* _local_block_action, and the peel preferred on a cheap path.
BlockAction(waited, cooled, stuck) ==
    LET wanted ==
            IF ~waited THEN "wait"
            ELSE IF tick.nose THEN (IF stuck /\ cooled THEN "replan" ELSE "keep_dwa")
            ELSE IF cooled THEN "replan" ELSE "wait"
    IN  IF tick.cheap /\ (wanted = "wait" \/ (wanted = "replan" /\ tick.nose))
          THEN "keep_dwa" ELSE wanted

\* What a corridor does to the action: aligned with it, replan; else turn.
WithCorridor(action, corridor, cooled) ==
    IF corridor = "aligned" /\ cooled THEN "replan"
    ELSE IF corridor # "none" /\ action = "replan" THEN "wait"
    ELSE action

MayLookForCorridor(waited) ==
    (~tick.nose \/ ep.corridor) /\ ~tick.held /\ tick.scan /\ waited

\* run_block_policy on a tick whose route is not blocked.
Unblocked ==
    /\ pc = "policy"
    /\ ~tick.blocked
    /\ ep' = OnUnblocked(ep)
    /\ flicker' = (flicker \/ ep.escape.mode = "reverse")
    /\ pc' = "follow"
    /\ UNCHANGED <<tick, twist, streak, reversed>>

\* run_block_policy on a blocked tick.  The grace has not passed if the block
\* was first seen in this tick.
Blocked ==
    /\ pc = "policy"
    /\ tick.blocked
    /\ \E waited, cooled, stuck \in BOOLEAN, found \in {"none", "aligned", "wide"} :
        LET look == MayLookForCorridor(waited)
            action == WithCorridor(BlockAction(waited, cooled, stuck), found, cooled)
        IN  /\ waited => ep.since
            /\ stuck => ~tick.progressed
            /\ found # "none" => look
            /\ ep' = [ep EXCEPT !.since = TRUE,
                                !.corridor = IF look THEN found # "none" ELSE @]
            /\ tick' = [tick EXCEPT !.corridor = found, !.waiting = action = "wait"]
            /\ pc' = IF action = "replan" THEN "replan" ELSE "follow"
    /\ UNCHANGED <<twist, ghosts>>

\* _abort_blocked_replans, which a corridor overrules.
GiveUp(e) == e.count >= FailLimit /\ ~tick.nose /\ tick.corridor = "none"

\* _stop_before_replan: the base stands while the planner runs.
StopToPlan == sent' = "none" /\ base' = "none"

\* apply_blocked_replan.
BlockedReplanOk ==
    /\ pc = "replan"
    /\ StopToPlan
    /\ ep' = OnBlockedReplanOk(ep)
    /\ tick' = [tick EXCEPT !.corridor = "none"]
    /\ streak' = 0
    /\ reversed' = 0
    /\ flicker' = FALSE
    /\ pc' = "follow"

BlockedReplanFails ==
    /\ pc = "replan"
    /\ StopToPlan
    /\ ep' = OnBlockedReplanFail(ep)
    /\ streak' = LesserOf(streak + 1, FailLimit)
    /\ pc' = IF GiveUp(ep') THEN "blocked" ELSE "follow"
    /\ UNCHANGED <<tick, reversed, flicker>>

-----------------------------------------------------------------------------
(* Following the path, and the first half of the escape *)

\* What compute_path_command returns with a guard: without a scan it stops.
FollowerCommands ==
    IF tick.scan
      THEN [cmd : Twists, label : {"clear"}, spinBlocked : BOOLEAN]
             \cup [cmd : {"turn", "zero", "done"}, label : {"avoid"}, spinBlocked : BOOLEAN]
      ELSE [cmd : {"zero", "done"}, label : {"no_scan"}, spinBlocked : {FALSE}]

\* A reading nobody looks at is not chosen.
Read(looked) == IF looked THEN BOOLEAN ELSE {FALSE}

PreReadings ==
    LET mode == IF tick.held THEN "held" ELSE ep.escape.mode
    IN  [view : Read(mode = "idle"), rear : Read(mode = "idle"),
         spinClear : Read(mode = "idle"), rearStill : Read(mode \in {"reverse", "turn"}),
         turned : Read(mode = "turn"), straight : Read(mode \in {"idle", "turn"})]

PostReadings ==
    LET mode == IF tick.held THEN "held" ELSE ep.escape.mode
        look == mode = "idle" /\ ~tick.nose /\ ~tick.waiting
    IN  [reaches : Read(look), rear : Read(look), spinClear : Read(look),
         bearing : Read(look), rearStill : Read(look \/ mode = "reverse"),
         turned : Read(mode = "turn")]

\* What the escape machine is told of the tick.
EscapeSense(e, cmd, label, spinBlocked, readings) ==
    [held |-> tick.held, nose |-> tick.nose, waiting |-> tick.waiting, scan |-> tick.scan,
     fails |-> e.fails, headingOpen |-> tick.corridor # "none", cmd |-> cmd,
     spinBlocked |-> spinBlocked, corridor |-> label = "corridor", geo |-> readings]

\* A tick that waits counts as progress.
ProgressInWait(t) == t.progressed \/ t.waiting

\* apply_escape_pre_replan, from the episode e the escape left; the base has
\* stopped for it.
EscapePreReplan(e, trigger) ==
    LET unstick == trigger = "blocked_nose_unstick"
        fresh == [tick EXCEPT !.cmd = "zero", !.label = "escape", !.escaping = FALSE]
    IN  \/ /\ ep' = OnEscapePreReplanOk(e, unstick)
           /\ streak' = IF unstick THEN 0 ELSE streak
           /\ tick' = [fresh EXCEPT !.progressed = TRUE]
           /\ pc' = "periodic"
        \/ /\ ep' = IF unstick THEN OnBlockedReplanFail(e) ELSE e
           /\ streak' = IF unstick THEN LesserOf(streak + 1, FailLimit) ELSE streak
           /\ tick' = [fresh EXCEPT !.progressed = ProgressInWait(tick)]
           /\ pc' = IF unstick /\ GiveUp(ep') THEN "blocked" ELSE "periodic"

\* run_path_follow: the follower's command, then tick_pre.
Follow ==
    /\ pc = "follow"
    /\ \E cmd \in FollowerCommands, readings \in PreReadings :
        LET e == [ep EXCEPT !.avoid = cmd.label = "avoid"]
            r == TickPre(ep.escape, EscapeSense(e, cmd.cmd, cmd.label, cmd.spinBlocked, readings))
            after == [e EXCEPT !.escape = r.machine]
        IN  IF r.replan # "none"
              THEN /\ EscapePreReplan(after, r.replan)
                   /\ StopToPlan
                   /\ reversed' = 0
                   /\ flicker' = FALSE
              ELSE /\ ep' = after
                   /\ tick' = [tick EXCEPT
                        !.cmd = IF r.cmd = "none" THEN cmd.cmd ELSE r.cmd,
                        !.label = IF r.cmd = "none" THEN cmd.label ELSE "escape",
                        !.escaping = r.cmd = "rev",
                        !.progressed = ProgressInWait(tick)]
                   /\ pc' = "periodic"
                   /\ UNCHANGED <<twist, ghosts>>

-----------------------------------------------------------------------------
(* Periodic replans, the final gate, the stall watch *)

\* run_periodic_replan: nothing is due, or the scan can go on, or a replan
\* for a reason other than a static block finds nothing.
NoPeriodicReplan ==
    /\ pc = "periodic"
    /\ pc' = "gate"
    /\ UNCHANGED <<ep, tick, twist, ghosts>>

PeriodicReplanOk ==
    /\ pc = "periodic"
    /\ StopToPlan
    /\ ep' = OnPeriodicReplanOk(ep)
    /\ tick' = [tick EXCEPT !.progressed = TRUE]
    /\ pc' = "gate"
    /\ UNCHANGED ghosts

\* A replan around a static block fails; the goal fails with it once there
\* have been too many and the lidar shows no room.
PeriodicReplanFails ==
    /\ pc = "periodic"
    /\ StopToPlan
    /\ ep' = [ep EXCEPT !.static = LesserOf(@ + 1, StaticLimit)]
    /\ \E room \in BOOLEAN :
        pc' = IF ep'.static >= StaticLimit /\ ~(room /\ tick.label # "no_scan")
                THEN "static" ELSE "gate"
    /\ UNCHANGED <<tick, ghosts>>

\* _corridor_motion: drive an aligned corridor, arc or spin onto a wide one.
CorridorMotions == IF tick.corridor = "aligned" THEN {"fwd"} ELSE {"fwd", "turn"}

\* A corridor overrides any command but a forward one it is aligned with; a
\* held tick commands zero.
Shaped ==
    LET along == {[tick EXCEPT !.cmd = c, !.label = "corridor", !.escaping = FALSE] :
                    c \in CorridorMotions}
    IN  CASE tick.held -> {[tick EXCEPT !.cmd = "zero", !.escaping = FALSE]}
          [] ~tick.held /\ tick.corridor = "none" -> {tick}
          [] ~tick.held /\ tick.corridor = "wide" -> along
          [] OTHER -> along \cup {t \in {tick} : t.cmd = "fwd"}

\* _rate_limited: from forward to reverse, or back, the speed ramps.
Slewed(cmd) == IF {cmd, sent} = {"fwd", "rev"} THEN {cmd, sent} ELSE {cmd}

\* What the guard's veto may leave of a command.
Vetoed(cmd) == IF cmd = "done" THEN {cmd} ELSE {cmd, "zero"}

\* apply_escape_post_replan, then the zero twist that goes with it.
EscapePostReplan(e, t) ==
    /\ base' = "none"
    /\ \/ /\ ep' = OnReplanOk(e)
          /\ tick' = [t EXCEPT !.cmd = "zero", !.label = "escape", !.escaping = FALSE,
                               !.progressed = TRUE]
       \/ /\ ep' = e
          /\ tick' = [t EXCEPT !.cmd = "zero", !.label = "escape", !.escaping = FALSE]
    /\ reversed' = 0
    /\ flicker' = FALSE
    /\ UNCHANGED streak

\* run_final_gate: corridor, hold, veto, tick_post.
Gate ==
    /\ pc = "gate"
    /\ \E t \in Shaped :
        IF t.cmd = "done"
          THEN tick' = t /\ UNCHANGED <<ep, base, ghosts>>
          ELSE \E c \in UNION {Vetoed(limited) : limited \in Slewed(t.cmd)},
                  readings \in PostReadings :
                LET v == [t EXCEPT !.cmd = c, !.escaping = @ /\ c = "rev"]
                    r == TickPost(ep.escape, EscapeSense(ep, c, v.label, FALSE, readings))
                    after == [ep EXCEPT !.escape = r.machine]
                IN  /\ readings.reaches => c # "zero"
                    /\ IF r.replan # "none"
                         THEN EscapePostReplan(after, v)
                         ELSE /\ ep' = after
                              /\ tick' = IF r.cmd = "none" THEN v
                                    ELSE [v EXCEPT !.cmd = r.cmd, !.label = "escape",
                                                   !.escaping = r.cmd = "rev"]
                              /\ UNCHANGED <<base, ghosts>>
    /\ sent' = Direction(tick'.cmd)
    /\ pc' = "output"

\* finish_tick_output: a command the base would drop is lifted or dropped; a
\* tick without a scan stops; a finished command at the goal ends it.
Lifted(cmd) == IF cmd = "fwd" THEN {"fwd", "turn", "zero"} ELSE {cmd}

Output ==
    /\ pc = "output"
    /\ \E c \in Lifted(tick.cmd) :
        IF tick.label = "no_scan"
          THEN tick' = [tick EXCEPT !.cmd = "zero"] /\ pc' = "send"
          ELSE tick' = [tick EXCEPT !.cmd = c] /\ pc' = "stall"
    /\ sent' = Direction(tick'.cmd)
    /\ UNCHANGED <<ep, base, ghosts>>

DoneAtGoal == pc = "output" /\ tick.cmd = "done" /\ tick.label # "no_scan" /\ End("succeeded")

\* run_stall_watch, and apply_stall_replan when there is nothing to replan
\* for: the nose is clear on a path that is not lethal, or the base is already
\* reversing out of a blocked spin.
NotStalled ==
    /\ pc = "stall"
    /\ pc' = "send"
    /\ UNCHANGED <<ep, tick, twist, ghosts>>

Stalled == pc = "stall" /\ ~tick.progressed /\ ~(tick.nose /\ tick.cheap)

StallReplanOk ==
    /\ Stalled
    /\ StopToPlan
    /\ ep' = OnReplanOk(ep)
    /\ pc' = "send"
    /\ UNCHANGED <<tick, ghosts>>

StallReplanFails ==
    /\ Stalled
    /\ StopToPlan
    /\ IF tick.blocked /\ ep.fails < StallLimit
         THEN ep' = [ep EXCEPT !.fails = @ + 1] /\ pc' = "send"
         ELSE UNCHANGED ep /\ pc' = "stalled"
    /\ UNCHANGED <<tick, ghosts>>

\* send_tick_velocity, and where the base is when the next tick begins: one
\* tick's distance further in the direction of the twist, or not at all.  A
\* base that refuses the twist is stopped.
Send ==
    /\ pc = "send"
    /\ \E moved \in {0, 1}, refused \in BOOLEAN :
        LET step == [fwd |-> -moved, rev |-> moved, none |-> 0][Direction(tick.cmd)]
        IN  /\ refused => moved = 0
            /\ ep' = [ep EXCEPT !.escape = Displaced(@, step)]
            /\ reversed' = IF tick.escaping THEN LesserOf(reversed + step, 2 * Budget + 1) ELSE 0
            /\ sent' = IF refused THEN "none" ELSE sent
            /\ base' = IF refused THEN "none" ELSE Direction(tick.cmd)
    /\ flicker' = (tick.escaping /\ flicker)
    /\ tick' = NewTick
    /\ pc' = "top"
    /\ UNCHANGED streak

-----------------------------------------------------------------------------
Head == TimedOut \/ Canceled \/ NoPose \/ AtGoal \/ LocalizationLost \/ BeginTick

Policy == Unblocked \/ Blocked \/ BlockedReplanOk \/ BlockedReplanFails

Periodic == NoPeriodicReplan \/ PeriodicReplanOk \/ PeriodicReplanFails

Stall == NotStalled \/ StallReplanOk \/ StallReplanFails

Next ==
    Head \/ Sense \/ Policy \/ Follow \/ Periodic \/ Gate \/ Output \/ DoneAtGoal
      \/ Stall \/ Send

Spec == Init /\ [][Next]_vars

-----------------------------------------------------------------------------
(* Properties *)

\* The failure count that gives a goal up and the distance that resets it are
\* set and cleared together, through every one of the episode's reset packs:
\* a count without its distance could never be earned back by progress.
CountHasItsDistance == (ep.count > 0) <=> ep.dist

\* A goal is given up as blocked only after FailLimit failed replans with no
\* success of a blocked replan and no progress towards the goal in between,
\* whatever flickers of an unblocked path came between them.
AbortIsEarned == pc = "blocked" => streak >= FailLimit

\* While localization holds the base, neither the follower nor the corridor
\* nor either half of the escape gets a twist through.
HeldTickIsZero == pc = "send" /\ tick.held => tick.cmd = "zero"

\* Between the end of an escape and the end of its cooldown no other begins,
\* from any of the four ways into one.
NoEscapeWhileCooling == ep.escape.mode # "idle" => ~ep.escape.cooling

\* Without a flicker of an unblocked path, an uninterrupted escape reverse
\* covers at most twice the budget: a corridor may first have driven the base
\* one budget ahead of where the escape began.
ReverseIsBounded == reversed > 2 * Budget => flicker

\* While the policy waits, with no escape cooling down and no corridor,
\* nothing asks for forward motion.  A reverse of the escape may still be
\* ramping down from it.
WaitNeverAsksForward ==
    pc = "send" /\ tick.waiting /\ tick.corridor = "none" /\ ~ep.escape.cooling
      => tick.cmd # "fwd" \/ tick.label = "escape"

\* A tick without a scan never asks for forward motion, whichever of the
\* follower, a committed corridor or an escape has the last word.
BlindNeverAsksForward ==
    pc = "send" /\ ~tick.scan => tick.cmd # "fwd" \/ tick.label = "escape"

\* The time localization holds the base and the time the policy waits do not
\* count as a stall: a goal never fails as stalled out of such a tick.
StallOnlyWhenDriving == pc = "stalled" => ~tick.held /\ ~tick.waiting

\* After every stop on the way, to plan, to hold, for want of a scan or because
\* the base refused a twist, the limiter knows that the base is at rest, and
\* the next twist ramps from zero.
RestIsNoted == pc = "gate" /\ base = "none" => sent = "none"

\* "wait: freeze for dynamic crossers (person in front for a second)."
WaitFreezes ==
    pc = "send" /\ tick.waiting /\ tick.corridor = "none"
      => tick.cmd # "fwd" \/ tick.label = "escape"
=============================================================================

------------------------------- MODULE LocHold -------------------------------
(***************************************************************************)
(* When localization holds the base during a goal.  Each tick of the goal  *)
(* (src/src/nav/control/loc_hold_tick.py, supervisor.py) reads what the    *)
(* SLAM service published last, follows a check it asked for in a thread   *)
(* of its own, and says whether the base may drive.  The service           *)
(* (src/src/slam_builtin/localize_supervisor.py) answers such checks, runs *)
(* its own, and folds both into one state (src/src/nav/localize/           *)
(* loc_state.py); the matching thread of the engine changes that state     *)
(* too.  The record of the last check is a dict that is cleared, filled    *)
(* and given its state in steps the tick may fall between.                 *)
(*                                                                         *)
(* What a check finds and how well the scan fits are open; timers of the   *)
(* goal may or may not have run out.  A residual that is lost also blocks  *)
(* (LostResidualBlocks), so the branch that would hold for a retry is not  *)
(* reached, _loc_refine_tries is zero between ticks and what depends on it *)
(* is left out.  So is mapping, where nothing of this runs.                *)
(***************************************************************************)
EXTENDS Naturals

CONSTANTS
    LostAfter,      \* bad checks in a row until the robot is lost
    LostTicks,      \* ticks lost until the goal fails (nav_loc_lost_fail_s)
    DuringNavigation    \* periodic_relocalize_during_navigation

ASSUME HoldAssumption ==
    LostAfter \in Nat \ {0} /\ LostTicks \in Nat \ {0} /\ DuringNavigation \in BOOLEAN

VARIABLES
    slam,       \* LocalizationStateTracker
    board,      \* _last_relocalize_check: whether its status is awaiting_confirm, its state
    pub,        \* the publication under way
    job,        \* the check the goal asked for, in its thread
    nav,        \* the refine state of the supervisor
    lost,       \* ticks since _loc_lost_since, 0 when it is not set
    drive,      \* what the last tick let the base do
    over        \* the goal failed: localization lost

holdVars == <<slam, board, pub, job, nav, lost, drive, over>>

-----------------------------------------------------------------------------
(* How well a scan fits the map: of compared beams, bad ones.              *)

ResidualIsLost(compared, bad) ==
    \/ compared >= 10 /\ 100 * bad >= 55 * compared
    \/ compared >= 16 /\ 100 * bad >= 45 * compared

ResidualBlocks(compared, bad) ==
    \/ compared >= 8 /\ 2 * bad >= compared
    \/ ResidualIsLost(compared, bad)

\* What the tick makes of them: fits, thin when they disagree, severe when
\* they also block.
Verdicts == {"fits", "thin", "severe"}

\* What a check came to.  fits and trusted: status ok with a good match, of a
\* pose that is trusted as it is; soft: ok without one; small: no good match,
\* but a small shift worth applying; refused and far: refused_large or negative
\* scores, without and with a good match; weak: any other bad status.
Found == {"trusted", "fits", "soft", "small", "far", "refused", "weak", "confirm", "corrected"}
Answers == Found \cup {"skipped", "error"}
Good == {"trusted", "fits", "far"}

\* The tick tells no answer from one that says nothing of the pose.
Told(what) == IF what \in {"soft", "weak", "corrected"} THEN "error" ELSE what

\* loc_blocks_forward
Blocks(answer, verdict) ==
    CASE answer = "trusted"                     -> FALSE
      [] answer \in {"refused", "far"}   -> TRUE
      [] OTHER                                  -> verdict = "severe"

Steps == {"probe", "confirm", "apply", "recovery", "recovery_confirm", "recovery_apply"}
Recoveries == {"recovery", "recovery_confirm", "recovery_apply"}

\* used: _loc_refine_recovery_used; travel: _loc_refine_need_travel; early: a
\* check was skipped, which takes less than the period between two probes.
NewNav == [phase |-> "idle", step |-> "probe", stop |-> FALSE, calm |-> FALSE,
           severe |-> FALSE, used |-> FALSE, travel |-> FALSE,
           early |-> FALSE]
NoJob == [pc |-> "none", step |-> "probe", answer |-> "error"]
Idle == [pc |-> "idle", awaits |-> FALSE, job |-> FALSE]

HoldTypeOK ==
    /\ slam \in [track : {"tracking", "degraded", "lost"}, streak : 0 .. LostAfter]
    /\ board \in [awaits : BOOLEAN, track : {"none", "tracking", "degraded", "lost"}]
    /\ pub \in [pc : {"idle", "fill", "state"}, awaits : BOOLEAN, job : BOOLEAN]
    /\ job \in [pc : {"none", "asked", "published", "answered"}, step : Steps, answer : Answers]
    /\ nav \in [phase : {"idle", "settling", "checking"}, step : Steps, stop : BOOLEAN,
                calm : BOOLEAN, severe : BOOLEAN, used : BOOLEAN, travel : BOOLEAN,
                early : BOOLEAN]
    /\ lost \in 0 .. LostTicks
    /\ drive \in {"moving", "halted"}
    /\ over \in BOOLEAN

HoldInit ==
    /\ slam = [track |-> "tracking", streak |-> 0]
    /\ board = [awaits |-> FALSE, track |-> "none"]
    /\ pub = Idle
    /\ job = NoJob
    /\ nav = NewNav
    /\ lost = 0
    /\ drive = "moving"
    /\ over = FALSE

-----------------------------------------------------------------------------
(* The service: observe, clear, update and state of a publication.  Two    *)
(* publications do not mix: both run on the loop of the service, without   *)
(* an await.                                                               *)

Fewer(a, b) == IF a < b THEN a ELSE b

Observed(what) ==
    CASE what \in {"skipped", "error"}                  -> slam
      [] what \in {"corrected", "trusted", "fits"}      -> [track |-> "tracking", streak |-> 0]
      [] what = "soft"                                  -> [track |-> "degraded", streak |-> 0]
      [] OTHER ->
           LET streak == Fewer(slam.streak + 1, LostAfter) IN
             [track |-> IF streak = LostAfter THEN "lost" ELSE "degraded", streak |-> streak]

PublishBegins(what, ofJob) ==
    /\ pub.pc = "idle"
    /\ slam' = Observed(what)
    /\ board' = [awaits |-> FALSE, track |-> "none"]
    /\ pub' = [pc |-> "fill", awaits |-> what = "confirm", job |-> ofJob]

\* The watchdog, if there is one, waits while the base drives, unless it is told
\* to run during navigation.  For the tick its statuses are of five kinds.
Kinds == {"trusted", "soft", "weak", "confirm", "skipped"}

WatchdogFinds(what) ==
    /\ (drive = "halted" \/ DuringNavigation) /\ ~over
    /\ PublishBegins(what, FALSE)
    /\ UNCHANGED <<job, nav, lost, drive, over>>

\* The check the goal asked for; one that forces its match neither waits for
\* a second one nor leaves a match it has.
CheckFinds(what) ==
    /\ job.pc = "asked"
    /\ job.step \in {"apply", "recovery_apply"} => what \in {"corrected", "far", "refused", "error"}
    /\ PublishBegins(what, TRUE)
    /\ job' = [job EXCEPT !.pc = "published", !.answer = Told(what)]
    /\ UNCHANGED <<nav, lost, drive, over>>

PublishFills ==
    /\ pub.pc = "fill"
    /\ board' = [board EXCEPT !.awaits = pub.awaits]
    /\ pub' = [pub EXCEPT !.pc = "state"]
    /\ UNCHANGED <<slam, job, nav, lost, drive, over>>

PublishEnds ==
    /\ pub.pc = "state"
    /\ board' = [board EXCEPT !.track = slam.track]
    /\ pub' = Idle
    /\ UNCHANGED <<slam, job, nav, lost, drive, over>>

\* Mutant: the answer is only noticed while it is being published.
CheckAnswersEarly ==
    /\ job.pc = "published" /\ pub.pc # "idle" /\ pub.job
    /\ job' = [job EXCEPT !.pc = "answered"]
    /\ UNCHANGED <<slam, board, pub, nav, lost, drive, over>>

\* The answer reaches the thread, which hands it over; a thread that waited
\* long enough hands over a timeout.
CheckAnswers ==
    /\ job.pc = "published" /\ ~(pub.pc # "idle" /\ pub.job)
    /\ job' = [job EXCEPT !.pc = "answered"]
    /\ UNCHANGED <<slam, board, pub, nav, lost, drive, over>>

CheckTimesOut ==
    /\ job.pc = "asked"
    /\ job' = [job EXCEPT !.pc = "answered", !.answer = "error"]
    /\ UNCHANGED <<slam, board, pub, nav, lost, drive, over>>

\* A scan matched by the engine, or a pose that was set, places the robot.
EnginePlaces ==
    /\ slam.track # "tracking" /\ ~over
    /\ slam' = [track |-> "tracking", streak |-> 0]
    /\ board' = [board EXCEPT !.track = "tracking"]
    /\ UNCHANGED <<pub, job, nav, lost, drive, over>>

-----------------------------------------------------------------------------
(* The refine state machine.  Each operator returns what a tick can make   *)
(* of n: its next state, whether it asks for a check, and whether it holds *)
(* the base.                                                               *)

Outcome(n, ask, hold) == [nav |-> n, ask |-> ask, hold |-> hold]

Launched(n, step) ==
    Outcome([n EXCEPT !.phase = "checking", !.step = step], TRUE, n.stop)

Settled(n, step) ==
    Outcome([n EXCEPT !.phase = "settling", !.step = step], FALSE, TRUE)

Stopped(n) == [n EXCEPT !.stop = TRUE]

\* Mutant: a driving probe that lost the pose does not stop for the recovery.
StoppedIfSevere(n) == [n EXCEPT !.stop = n.stop \/ n.severe]

\* A probe of a driving, straight base does not stop it; the recovery that
\* follows does.
StoppedToRecover(n) == IF n.calm \/ ~n.severe THEN Stopped(n) ELSE n

\* The check of a base that drives straight or stands begins at once; a turning
\* base comes to rest first.
Begun(n, calm, severe) ==
    LET m == [n EXCEPT !.travel = FALSE, !.calm = calm, !.severe = severe,
                       !.stop = severe \/ ~calm] IN
      IF calm THEN Launched(m, "probe") ELSE Settled(m, "probe")

Beginnings(n) ==
    {Begun(n, calm, severe) : calm \in {c \in BOOLEAN : drive = "halted" => c}, severe \in BOOLEAN}

\* Why the scan fits badly is looked for: when due, and the base has driven
\* on since a check that could not tell.
Looks(n) ==
    {Outcome([n EXCEPT !.early = FALSE], FALSE, FALSE),
     Outcome([n EXCEPT !.travel = FALSE, !.early = FALSE], FALSE, FALSE)} \cup
    (IF n.early THEN {} ELSE Beginnings(n))

\* _loc_refine_consume, once the scan was looked at again.
Decides(n, answer, verdict) ==
    IF Blocks(answer, verdict) /\ ~n.used /\ n.step \notin Recoveries
    THEN Launched([StoppedToRecover(n) EXCEPT !.used = TRUE], "recovery")
    ELSE Outcome([n EXCEPT !.stop = FALSE,
                           !.travel = Blocks(answer, verdict) \/ verdict # "fits"], FALSE, FALSE)

Consumes(n, answer) ==
    IF answer = "confirm" /\ n.step = "probe" THEN {Settled(Stopped(n), "confirm")}
    ELSE IF answer = "confirm" /\ n.step = "recovery"
         THEN {Settled(Stopped(n), "recovery_confirm")}
    ELSE IF answer = "small" /\ n.step \in {"probe", "confirm"} THEN {Launched(Stopped(n), "apply")}
    ELSE IF answer \in Good /\ n.step = "recovery" THEN {Launched(n, "recovery_apply")}
    ELSE IF answer = "skipped" /\ n.step \notin Recoveries
         THEN LET m == [n EXCEPT !.early = TRUE] IN
                {Outcome(m, FALSE, FALSE),                                  \* not its turn
                 Outcome(IF n.calm THEN Stopped(m) ELSE m, FALSE, TRUE)}    \* a bad scan
    ELSE {Decides(n, answer, verdict) : verdict \in Verdicts}

\* _refine_on_disagreement
Refines(n) ==
    CASE n.phase = "checking" ->
           IF job.pc = "answered" THEN Consumes([n EXCEPT !.phase = "idle"], job.answer)
           ELSE {Outcome(n, FALSE, n.stop)}
      [] n.phase = "settling" -> {Outcome(n, FALSE, TRUE), Launched([n EXCEPT !.phase = "idle"], n.step)}
      [] n.phase = "idle" -> Looks(n)

-----------------------------------------------------------------------------
(* A tick.                                                                 *)

\* How a tick ends: what it asked for, what it took.
TickEnds(o) ==
    /\ nav' = o.nav
    /\ drive' = IF o.hold THEN "halted" ELSE "moving"
    /\ job' = IF o.ask THEN [pc |-> "asked", step |-> o.nav.step, answer |-> "error"]
              ELSE IF nav.phase = "checking" /\ o.nav.phase # "checking" THEN NoJob
              ELSE job
    /\ UNCHANGED <<slam, board, pub>>

\* A large jump waits for its second match; nav_hold does not hold a goal that
\* refines.
AwaitsConfirm == board.awaits

TickAwaits ==
    /\ ~over /\ AwaitsConfirm
    /\ drive' = "halted"
    /\ UNCHANGED <<slam, board, pub, job, nav, lost, over>>

TickRefines ==
    /\ ~over /\ ~AwaitsConfirm /\ board.track # "lost"
    /\ \E o \in Refines(nav) : TickEnds(o)
    /\ lost' = 0
    /\ UNCHANGED over

LostTooLong(ticks) == ticks = LostTicks

\* Lost: the base stops and a wider search runs now and then, until the goal
\* fails.
TickLost ==
    /\ ~over /\ ~AwaitsConfirm /\ board.track = "lost"
    /\ lost' = Fewer(lost + 1, LostTicks)
    /\ LET n == Stopped(nav) IN
         \E o \in IF n.phase # "idle" THEN Refines(n)
                  ELSE {Outcome(n, FALSE, TRUE), Launched(n, "recovery")} :
            TickEnds([o EXCEPT !.hold = TRUE])
    /\ over' = LostTooLong(lost')

-----------------------------------------------------------------------------
Tick == TickAwaits \/ TickRefines \/ TickLost

Publishes == PublishFills \/ PublishEnds

HoldNext ==
    \/ Tick
    \/ \E what \in Kinds : WatchdogFinds(what)
    \/ \E what \in Answers : CheckFinds(what)
    \/ Publishes \/ CheckAnswers \/ CheckTimesOut
    \/ EnginePlaces

HoldSpec == HoldInit /\ [][HoldNext]_holdVars

\* Ticks and publications come, a check is answered, and the time to settle
\* runs out.  Ticks come many to a publication: not every one falls into it,
\* some fall between one and the next, and in time two in a row see that the
\* robot is lost.  Nothing is assumed of the watchdog, nor of what a check
\* finds.
Fairness ==
    /\ WF_holdVars(Publishes) /\ WF_holdVars(CheckAnswers)
    /\ WF_holdVars(CheckTimesOut \/ \E what \in Answers : CheckFinds(what))
    /\ SF_holdVars((TickRefines \/ TickLost) /\ pub.pc = "idle")
    /\ SF_holdVars((TickRefines \/ TickLost) /\ nav.phase = "settling" /\ nav'.phase # "settling")
    /\ SF_holdVars(TickLost /\ lost > 0)

FairSpec == HoldSpec /\ Fairness

-----------------------------------------------------------------------------
(* A check that forces its match, or looks farther than a driving one may, *)
(* finds the base halted, from the tick that asks for it until its answer  *)
(* is taken (_refine_on_disagreement: stopping is required).               *)
AppliesHalted ==
    nav.phase = "checking" /\ nav.step \in Recoveries \cup {"apply"} => drive = "halted"

(* The goal follows each check it asked for until it took the answer: no   *)
(* second one is asked for while one is under way, none is left behind.    *)
OneCheck == job.pc # "none" <=> nav.phase = "checking"

(* Localization does not park a goal for good, unless SLAM finds the robot  *)
(* and loses it time and again: it drives again, or fails, or a large jump *)
(* waits for its second match from then on (loc_hold_tick.py:71-108: the   *)
(* tick holds before it would ask for one, and puts the deadline off).     *)
HoldEnds ==
    <>[](slam.track = "lost") \/ <>[](slam.track # "lost") =>
        (drive = "halted" ~> \/ drive = "moving" \/ over
                             \/ [](pub.pc = "idle" => AwaitsConfirm))

(* README.md:199: while SLAM says the robot is lost, the base that was      *)
(* stopped for it stays stopped.                                           *)
LostStaysHalted ==
    [][lost > 0 /\ slam.track = "lost" /\ slam'.track = "lost" => drive' = "halted"]_holdVars
=============================================================================

# nav-stack verification

TLA+ models of the navigation stack in `src/`, model-checked with TLC on small
instances, with theorems checked by TLAPS. All paths below are relative to
`src/src/` unless they begin with `src/`.

## 1. The system

nav-stack is a module of a robot's server. One process holds a SLAM service
(builds and localizes in a map), a navigation service (plans on that map and
drives a base), and drivers for lidars and IMUs. Inside the process there are
an asyncio event loop, on which all remote calls run, and threads: one worker
per goal, the engine's matching thread, one reader per serial device, producers
of shared-memory frames, and short-lived helpers of `asyncio.to_thread`. The
global matcher is a subprocess.

| Component | State | Operations | What is hard | What makes it correct |
|---|---|---|---|---|
| Navigation service (`models/nav_core.py`, `nav_api.py`) | plan status, `_suspended`, `_route_task`, `_simple_task`, tracked executions | navigate, navigate_route, simple_go_to, suspend, resume, cancel, stop_plan | handlers interleave at every `await`; cancelling a task does not stop the thread it waits for | every run stays reachable by the next cancel, stopping stops, one mover |
| Built-in navigator (`nav/control/navigator.py`) | `_lock`, `_supervisor`, `_worker`, `_last_status` | navigate, cancel, status, the worker's `finally` | workers that outlive their join, a cancel before the worker starts | goals end once, at rest; a late worker detaches nobody else |
| Goal control loop (`nav/control/supervisor.py`, `goal_episode.py` and the tick phases) | `GoalEpisode`, `TickContext`, slew reference | hold, sense, block policy, follow, escape, periodic replan, gate, output, stall watch, send | phases overwrite each other's command, counters are reset in six different packs | giving up is earned; held, waiting and blind ticks do not drive forward |
| Escape machine (`nav/control/escape.py`) | `active`, start pose, cooldown | tick_pre, tick_post, clear_episode | it outlives the readings it was entered on | reversing is bounded |
| Localization during a goal (`nav/control/loc_hold_tick.py`, `loc_consistency.py`, `nav/localize/loc_state.py`) | phase, job thread, hold flags, deadline, shared state | request, poll, settle, give up | the result of an old job; a dict filled in steps | the pose moves while the robot is halted; a hold ends |
| Replans (`nav/control/supervisor.py` `_try_replan`, `replan_controller.py`) | committed corridor, ban, flip budget | replan, ban, lift, force | the same refusal is reached on six ways | flips are bounded; a replan the map demands does not fail for ever |
| Planner (`nav/planning`) | none between calls | costmap, search, repair, smooth | lazy parents, numeric edges | a plan is clear; "no path" means cut off |
| Drive channel and sensor input (`nav/io/viam_io.py`) | desired twist, pending future, parked command; scan in flight, caches | set_velocity, stop, get_scan, the coroutines on the event loop | threads hand over to the event loop without a lock; calls that hang | order of commands, the newest wins, no old scan is handed out |
| SLAM service (`models/slam.py`) | engine, saved maps, mode, watchdogs | tick, save, load, reset, edit, repair, relocalize | handlers against threads; partial saves | a crash loses nothing that was saved |
| SLAM engine (`slam_builtin/engine.py`) | pose, keyframes, graph, grid, gates | process a scan, close loops, redraw, edit, heal | work on a snapshot off the lock | the drawing and the graph stay in step |
| Pose gates and searches (`slam_builtin/localize_supervisor.py`, `nav/localize/*`) | gate votes, searches under way | accept or refuse a correction, relocalize, startup search | several searches share one gate and one pose | a large jump rests on two matches; the operator wins |
| Global matcher (`nav/localize/localize_worker.py`) | pool, tokens, the worker's cache | submit, kill, respawn | callers kill each other's pool | an answer is for the map that was asked for |
| Shared-memory rings (`shm/pcshm.py`, `imushm.py`, `lidar.py`) | two slots with sequence numbers; the client's mapping | write, read, remap | a reader without a lock; a writer that restarts | whole frames that never go back |
| Cloud camera (`models/shm_pointcloud.py`) | source, thread, newest cloud | produce, get, reconfigure, close | a join that may time out | a cloud goes into its own ring |
| Serial drivers (`lidar/*`, `imu/wit_serial.py`, `models/rplidar_shm.py`) | port, claims, scan thread, watchdog | open, read, reconnect, close, restart | reconnect against close; two drivers search the same ports | scanning resumes, calls return, drivers stay apart |
| Stores (`nav/stores/*`), configuration, frames, conversions, visualisation | JSON files; none | read-modify-write; pure functions | | |

How they interact: the service turns a request into `navigate` on the
navigator in a helper thread; the navigator starts a worker that runs
`run_goal`; each tick of it reads poses from the SLAM service and scans through
`ViamWorldIO`, and ends in one `set_velocity` of the drive channel, which posts
a coroutine to the event loop. Cancels come from other helper threads at any
moment. The SLAM service hands its commands to helper threads that share the
engine's two locks (`_lock`, `_graph_job`) with the matching thread and with
repairs in the background; the watchdogs are tasks on the event loop. The
navigator asks the service for checks of the pose in threads of its own.

`PROJECT.json` lists the hazards of the code at their lines, each with the
properties that would catch it going wrong.

## 2. Modules

| Module | Models | Kind |
|---|---|---|
| `LatestCommand` | a cell whose newest value wins | abstract specification |
| `DriveChannel` | `set_velocity`, `_schedule_drive`, `_issue` | component |
| `NavScan` | `get_scan`: the lidar's call in flight, depth jobs, merged cache, ages | component |
| `GoalLifecycle` | goals one after another, each ends once, at rest | abstract specification |
| `BuiltinNavigator` | navigate, cancel, the worker thread, the skeleton of `run_goal` | component |
| `EscapeMachine` | the escapes as operators on one record | pure part of `GoalRun` |
| `GoalRun` | `run_goal` tick by tick, phase by phase | component |
| `LocHold` | the checks a goal asks for, what SLAM publishes, the lost hold | component |
| `DetourBan` | `_try_replan` with bans and the flip budget | component |
| `PlanGrid`, `PlanSearch` | costs, lines, snapping; A*, Lazy Theta*, repair, bridge, shortcut | algorithm |
| `NavigatorPort` | the navigator as its callers see it, one step per call | operators of `NavService` |
| `NavService` | handlers, route task, simple run, helper threads | component |
| `FrameRegister` | a read returns one whole frame, never older than the last | abstract specification |
| `ShmRing` | `Writer.write`, `Reader.read`, word by word | component |
| `ScanFeed` | how a revolution reaches a tick of the engine: mapping, calls, matching once | component |
| `CloudPublisher` | the camera that copies clouds into a ring | component |
| `MapFiles` | the files of a map and what a crash leaves of them | operators of `SlamMaps` |
| `SlamMaps` | sessions, saves, background repair, undo, restart | component |
| `MapRender` | painting, loop closures, redraws, edits and corrections against each other | component |
| `MappingRevisit` | checks whether a corridor is drawn twice while mapping | component |
| `MapHealth` | the worker that scores the map and erases doubled walls | component |
| `PoseWatch` | watchdog, startup search, operator, requested searches, shared gate | component |
| `LocalizeWorker` | callers, pool, cache, kills and retries of the matcher's subprocess | component |
| `LidarReader` | scan thread, watchdog, restart and close of the lidar | component |
| `UsbPorts` | the port search of two drivers with claims and replugged devices | component |
| `MC*` | constants for TLC; some set two components that share no state side by side | instances |
| `*Proofs` | theorems (section 5) | proofs |

A module that lays two components side by side (`MCDriveChannel`,
`MCPlanning`, `MCShmRing`, `MCSlamMaps`, `MCMapRender`, `MCPoseWatch`,
`MCWorkers`) is their disjoint sum: a first choice says which of them moves, the
other rests in its initial state. That checks each over all its behaviours and
does not multiply their states.

**DriveChannel.** A caller is a thread inside `set_velocity`; a slot is an
`_issue` coroutine and its future. A command is `[n, t]`: `t` is the twist, `n`
counts the changes of the wanted twist. Every point at which another thread may
run is a value of `pc`; the coroutine has its own (`drain`, `rpc`, `done`, and
the return that has not resolved the future yet). The near-zero-RPM retry
changes the twist a command is sent as and not the order of commands.

**NavScan.** What was measured is told by its age, at the latest since it was
asked for. Time passes with the navigator's ticks, or with nobody asking. One
lidar, one depth camera, and of the superseded depth jobs the last.

**BuiltinNavigator.** Goal g is the g-th call of `navigate`; it has its
supervisor and its thread. Of the statements under the lock, join and install
are one action each. A tick of `run_goal` is reduced to how it ends. The join's
timeout is always possible; that is how the code gets past a join that waits for
a worker which waits for the lock.

**GoalRun, EscapeMachine.** `pc` is the phase of the tick that runs next. Each
phase is an action: it chooses the readings that its guards tell apart and does
everything the Python function does with them, the reset packs of `GoalEpisode`
included. A twist is the direction it translates (`fwd`, `rev`, `turn`,
`zero`, `done`). A timer is a choice of "elapsed or not", except within the tick
that set it. Every navigator builds the footprint guard, so the dynamic-window
follower and `backup_recovery` never produce a command and are left out.

**LocHold.** Ticks, the threads of the checks, the matching thread and the
watchdog of the service. The record of the last check is a dict that is cleared,
filled and given its state in steps a tick may fall between. What a check finds
and how well a scan fits are choices. The watchdog may answer at any time or
never, the same thing again and again; `DuringNavigation` lets it answer while
the base drives too.

**DetourBan.** A path is a corridor and the place it was planned from, which is
what the code's comparison of points tells apart. Costs are lengths; which
corridors are clear, or tight, changes at any time.

**PlanGrid, PlanSearch.** Lengths are hundredths of a cell, the diagonal rounded
up and the heuristic down, which keeps it consistent as it is in the code's
floats. Lazy Theta* gives a cell its grandparent before it knows that the two see
each other and mends that on expansion. Cost layers, snapping, repair, the
bridge in front of a start the robot does not fit in, and the string pulling are
modelled; the resampling of the smoothed path is not.

**NavService, NavigatorPort.** A request is numbered; its number also names the
run it starts. `hd`, `rt` and `sr` say what each handler, route run and simple
run is waiting for, or that it is between two awaits, in which case `Busy` keeps
everybody else out: that is how asyncio's atomicity enters the model. A call in a
helper thread is a `job`: the thread does its effect, later the waiting coroutine
goes on. Cancelling a task abandons the job, which becomes a ghost if its thread
had started.

**ShmRing.** One object, its writer and one reader; no lock. What a word holds is
the number of the write it is from, so a torn frame is one whose words carry
different numbers. Words are copied in any order, one per step, by both sides;
other accesses are seen in program order, as on the processors the module is
built for. A write may raise between its two marks; its slot then stays odd.

**ScanFeed.** The lidar unlinks and recreates its object when it restarts; the
engine's thread maps it and, when it offers no frame, asks the camera by a call
that may hang. A revolution is told by its content; contents nobody holds are
used again.

**CloudPublisher.** A cloud is the camera it came from; each configuration opens
a writer of its own. The thread's join may time out, so an old thread may run on.

**MapFiles, SlamMaps.** A map on disk is `map.pgm`, `map.yaml`, `keyframes.npz`
and the backup `pre_repair`; every write is a step and the process may crash
before each. A stroke is one change of the drawing. The client's commands run one
after the other in helper threads; the repair runs beside them, and so does the
tick. `careless` becomes true when the client steps on a repair under way, or
activates or clears a map other than the loaded one: what is claimed of a careful
client is claimed while it is false (section 4 says what happens otherwise).

**MapRender.** A keyframe is a place and an offset; a drawing is a set of scans
at offsets. Painting takes a snapshot under the lock, works without it and
publishes under it; redraws, edits, corrections and loop closures do the same.
Generation and revision are flags that say whether they changed since a thread
read them. A replay is stated without recursion: a scan is drawn unless a later
clear wiped it. The ghost `orphans` holds what stays drawn after a clear left the
graph without a keyframe, which no redraw can take away.

**MappingRevisit.** A pose is a place on a line and a facing. Of a scan the model
keeps what the matcher makes of it at each pose of the live map (`Fit`): the score
of its end points, the rank candidates are compared by, and the mean error of its
rays, each of which may be missing. A search returns the best ranked candidate it
may look at, faced as `choose_yaw_or_flip` faces it. A stored view has hit-rates of
its own (`ViewRates`). So the tiers judge as the code does: in keyframe mode the
hit-rate stays the verdict and only the rays are looked at again, and the refine of
a stuck navigator asks for a clear win over staying; either may lie below the bar
the map's own matches meet.

**MapHealth.** Scores are choices; what is kept are samples, their spread, the
streak, the cooldown, the baselines and who replaced the session meanwhile.

**PoseWatch.** A pose is the hall it lies in: corrections within a hall are
small, from one to the other large. A call that was handed to its thread goes on
whatever becomes of the coroutine that waits for it. With `DuringNavigation` the
automatic cycle begins while the base drives, and nothing refuses its large jump
but the gate.

**LocalizeWorker.** A call names a map; an answer carries the map it was matched
on. Pools are counted modulo those that some call still holds.

**LidarReader.** Time passes in polls of the watchdog, and only while every
thread waits for it. **UsbPorts.** A path is a by-id link or a node; a device can
come back under another node; a claim is kept under the real path.

## 3. Runs

| Run | Question | Properties | Bounds |
|---|---|---|---|
| `drive_solo` | one control thread: order, skipping is harmless, a twist that is held arrives; scans are fresh and depth comes back | `ParkedIsNewest`, `OrderSpec`, `HeldTwistArrives`; `FreshScans`, `DepthResumes` | 4 changes of twist, 2 failures, 2 coroutines; a lidar with and without a depth camera, by calls or by required shared memory, limits of 1 |
| `nav` | a goal that ended leaves the base alone; a cancel lets one twist through; a late worker detaches nobody else; implements `GoalLifecycle`; a canceled goal ends | `LeavesStopped`, `CancelWithinOneTick`, `LiveGoalReported`, `LifecycleSpec`, `CancelEndsGoal` | 2 client threads, 2 goals, 2 cancels, 1 failing stop |
| `goal_tick` | giving up as blocked is earned | `AbortIsEarned` | limits of 1 or 2, reverse budget 1 |
| `planning` | plans on every small map; replans under a ban | `ClosedParents`, `PathClear`, `NoPathMeansCut`; `FlipsWithinBudget`, `StaticFailsOnce` | 4x5 cells, one or two obstacles or a wall, both algorithms; 3 corridors of lengths 1 to 3, 1 flip, 3 changes of the world, 2 goals, 2 failures |
| `shm_ring` | reads are whole and never go back; implements `FrameRegister`; a revolution is matched once, and matching resumes | `NeverTorn`, `RegisterSpec`; `MatchedOnce`, `FeedResumes` | 2 words, 6 writes, 3 tries a read; ages of 1, stuck after 2 |
| `nav_service` | every run stays reachable, stopping stops, one mover | `HandlesOwned`, `StoppedMeansStill`, `OneMover` | 3 requests, of which only a wait for a route may overlap, 2 goals, a route of 2 legs |
| `map_files` | saves, repairs, undos, restarts and crashes; a corridor drawn twice | `GraphRedrawsGrid`, `RepairStaysInItsSession`, `CommandsReturn`; `AppliedIsGood` | 2 maps, 2 strokes, 3 commands, 1 crash; 3 places, 3 scans with scores above, at and below each bar, 3 hit-rates, 2 checks, 1 event |
| `map_render` | the drawing and its graph stay in step; a camera's clouds | `ErasedStaysErased`, `DrawnWhereTheGraphSays`; `RingIsOwn` | 2 places (symmetric), 3 keyframes, 3 scans, 1 edit, 1 move of the pose, a resumed session; 2 cameras, 3 configurations |
| `pose_watch` | who may place the robot; when the health worker may erase | `StartupYields`, `DrivingPoseStays`; `ClearIsEarned` | 2 halls (symmetric), 2 searches, 1 pose by hand, 1 goal, 2 scans, 1 pass, checks during navigation; 2 spots, 2 samples, clock 4, 1 command |
| `loc_hold` | when the pose may move under a goal; a hold ends, or a large jump waits for its second match for good | `AppliesHalted`, `HoldEnds` | lost after 2, 2 lost ticks, checks during navigation |
| `workers` | the lidar resumes, its calls return; the matcher answers for the right map | `Resumes`, `CallsReturn`; `RightMap` | gap 3, kick after 5, backoff up to 4, 3 calls; 2 callers, two maps with the same walls, cache of 1 |
| `ports` | both drivers find their ports, the lidar comes back | `SearchesFind`, `LidarReturns` | 3 nodes, 2 changes, 3 calls |

Why the bounds are enough. In `DriveChannel` a coroutine parks at most one
command, so two coroutines and four changes of mind cover every overlap of a
command in flight, one parked and one being submitted. In `NavScan`, limits of 1
already let each age pass its limit while a call is in flight. In
`BuiltinNavigator` two goals and two clients give an old worker and its
successor, two cancels one that is late. In `GoalRun` counters are compared with
their limits only, so a limit of 2 distinguishes none, some and reached. In
`PlanSearch` two obstacles or a wall make every kind of detour around a corner,
dead end and cut; in `DetourBan` three corridors are the smallest number with one
to leave, one to take and one left. In `ShmRing` two words tear a frame and six
writes lap a reader three times. In `NavService` three requests reach "start,
suspend, resume" and "start, stop, start", and two goals a worker that writes
after its successor's. In `SlamMaps` three commands and a crash reach "load,
repair, undo" and "save, crash, load"; two strokes tell an old image from a new
one. In `MapRender` three keyframes are needed for a loop with an inside. In
`PoseWatch` and `LocalizeWorker` two halls, maps and callers suffice to be taken
for each other. For the safety properties named in section 5 the proofs remove the
bounds altogether.

Deadlock is checked in `drive_solo`, the one system that never stops. In the
others the calls, requests, changes or writes are bounded and the system may come
to rest.

Fairness is weak unless stated, and always of steps that a scheduler or a driver
repeats, never of an outcome: the control loop keeps calling `set_velocity` with
the wanted twist, calls of threads proceed, the event loop runs coroutines and
jobs (`drive_solo`); each thread takes its steps (`nav`, `loc_hold`, `ports`,
`workers`); helper threads and the repair go on (`map_files`); the lidar writes
and recreates its object and the engine ticks (`shm_ring`). `shm_ring` assumes
strong fairness of one thing, that a camera which is asked again and again
answers with another revolution some time, because answers may alternate with
calls that hang. How many calls fail is bounded, that a given one succeeds is
not assumed. `ports` assumes that neither driver is kept from the lock around
opening for ever. `loc_hold` assumes strong fairness of ticks, which come some ten times
a second where a publication takes microseconds and the next is a second off: some
tick falls between two publications, two in a row see a robot that is lost, and
the time to settle runs out in one. It assumes nothing of what a check finds, and
no watchdog.

## 4. Findings

Met while modelling; the models behave as the code does. Where a property is
named, the module states it, no run checks it, and TLC violates it when it is
added to the run of that module.

Commands and goals

- `nav/io/viam_io.py` `_schedule_drive` tests `fut.done()`, but the coroutine has
  read `_drive_followup` before its future resolves; what is parked in between is
  dropped, and reported as sent (`FollowupIsSent`).
- The duplicate check of `set_velocity` and its submission are not atomic across
  threads: with a cancel thread a stop may be overtaken and later stops skipped
  (`SkippedIsRedundant`, with two callers).
- `run_goal` clears the cancel flag first, in the worker: a cancel that came
  before is lost (`CancelHonoured`).
- `nav/control/navigator.py:63`: `navigate` joins the old worker under the lock
  the worker needs to exit, so only the join's timeout ends the wait.
- `nav/control/escape.py:538`: while an escape cools down the wait freeze is not
  applied (`WaitFreezes`).
- `nav/control/goal_episode.py:76`: an unblocked tick clears the escape with no
  cooldown, so a bumper reverse can restart with a fresh budget
  (`ReverseIsBounded` states what is left of the bound).
- `nav/control/escape.py:499`: an escape under way keeps turning or reversing in
  ticks without a scan.
- `nav/control/replan_controller.py:243`: a stall replan sets the limiter's
  reference to rest and then sends the older twist.
- `models/nav_core.py:1615`: `suspend` stores its snapshot after awaits in which
  a newer goal may have cleared it (`SuspendedIsCurrent`).
- `models/nav_core.py:1939`: a route that is waited for notices its cancel at its
  next poll, and then cancels the goal of whoever superseded it.
- `models/nav_core.py:1995`: a route waits for ever on a stale success, written
  by the worker of an earlier leg after its own leg has failed.
- `models/nav_core.py:2397`: a superseded simple run writes its end over the
  status of the run that drives now.
- A cancel that comes while a waited simple go-to is still telling the navigator
  never tells it (`simpleCancel` is not installed yet). That is why
  `HandlesOwned` is about clients that do not wait for one.

Scans

- `nav/io/viam_io.py:974–980`: with shared memory and the fallback to calls, a
  call left in flight while shared memory answers is collected at the next miss,
  at any age, and handed out as fresh; the same at the first `get_scan` of the
  next goal. `FreshScans` therefore is about lidars read one way. A depth job
  that returns while nobody asks is stamped with the time of the next call.
- `slam_builtin/engine.py`: the result of a call collected up to 5 s later counts
  as new. With two lidars a pending one changes the merged scan, so that the same
  revolution is matched twice; `MatchedOnce` is about one lidar.
- `shm/pcshm.py:168`: `NoFrameError` is raised although a complete frame exists,
  when each slot is being written at the moment the scan looks at it.
- `models/shm_pointcloud.py`: `_latest` is neither cleared on reconfigure nor
  aged: with `produce_hz = 0` the first cloud is answered for ever; after a
  reconfigure the old camera's cloud until the first new one; after one whose
  join timed out, for ever.

Plans and replans

- `paths_meaningfully_differ` takes paths with different numbers of points to
  differ, so "same route" never holds once the robot has moved; under a ban a
  candidate on the banned corridor from a moved position is accepted without
  clearing the ban (`nav/control/supervisor.py:1919`), and continuing the same
  detour can count as a short flip.
- The retry of a forced static replan drops the force, so that it can fail once
  as "too long early"; `StaticFailsOnce` says that it does not fail twice.
- A replan from a blocked start drops the ban; `ban_was_only_reason` asks for any
  reason instead of all.
- A* cuts corners diagonally that `line_of_sight` refuses; the smoothed path is
  not checked again; the resampling drops corners. `PathClear` implies that the
  repair's bridge is never needed.

Maps

- `slam_builtin/engine.py:2135`: a repair saves into whatever map is loaded after a
  switch (`SwitchCancelsRepair`; README.md:162 says the switch cancels it).
- `models/slam.py:1748–1756`: `start_localizing` of a map without an image is
  refused but leaves it active; `clear_map` then resets the engine that still
  localizes in the other map, and `set_active_map` with `save_map` overwrites
  that map with an empty grid.
- `engine.py:2180`: `undo_repair` races a save. A cancel of a repair is ignored
  by a forced one and lost by a clear. A crash inside `rmtree`, or between
  `map.pgm` and `map.yaml`, leaves a torn map that booting loads. Two saves at
  once, `rename_map` against `_persist_pose`, and `engine.stop` (which does not
  join the repair) have no lock between them.
- `engine.py:526`: marks of an operator are drawn over by a correction that was
  under way (`MarksStayCleared`); `engine.py:826–828`: the edges of a rejected loop
  stay; `engine.py:1080–1105` against `pose_graph.py:373`: a keyframe added
  during an optimization does not ride along.
- `engine.py:876` against `916–935`: a revisit's shift is measured before it waits
  for `_graph_job`; a flip that lands in between is undone by the small correction.
  `apply=True` is not passed on as `force`, so the turns it asks for are rejected
  as implausible; a switch of the session does not cancel a command's cycle.
- `slam_builtin/localize_supervisor.py:196–201` against `281–318`: a match of the
  whole map must meet a stricter bar (docstring, line 95), but once the facing was
  chosen again it is judged by the ordinary one; of two facings nearly tied the
  second search may take the one below the stricter bar.
- `localize_supervisor.py:249–310`: the hit-rate of a stored view is the verdict on a
  pose whose facing is chosen afterwards on the map; where the two disagree, the
  facing that is applied is not the one the view matched, and only its rays were
  looked at. The same hit-rate widens the shift that is allowed, a scale made for
  scores of the map (`config.py:1346`).
- Map health: the streak counts samples of the state `watch` although
  README.md:159 speaks of degrading ones; a command between the read of the track
  (`engine.py:1406`) and `clear_region` (`1482`) makes the worker erase a box of the
  new session on the old map's evidence; `reset_map` leaves the tracks and the
  baseline.

Localization

- `slam_builtin/localize_supervisor.py:1493`: a refine pass of the startup search
  moves the pose on one vote, although `pose_jump_gate.py:1–8` promises two
  (`TwoMatchesAgree`; `CyclesNeedTwo` states what is left and is proved).
- `localize_supervisor.py:614`: between clear and fill the record reads as "not
  lost" (`LostStaysHalted`).
- `models/slam.py:1867–1873`: a pose set by hand can be overwritten by a search
  handed over before it (`ManualSeedWins`); `configure_mode` does not bump
  `_pose_epoch`.
- `models/slam.py:726–744`: README.md:134 says that while a goal is active no pose
  jump past `localize_mid_nav_apply_max_m` is applied. Nothing refuses that of the
  automatic cycle: of a base that stands in an active goal, and of one that drives
  with `periodic_relocalize_during_navigation`, two agreeing matches move it as far as
  they say (`DrivingPoseStays` states what is left).
- README.md:132 gives `periodic_relocalize` the default `false`; `config.py:958` has
  `True`.
- `nav/control/loc_hold_tick.py:71–108`: a tick that finds a jump awaiting its second
  match holds before it would ask for the check that gives one, and moves the
  deadline along. Only the watchdog can settle it then; there may be none
  (`slam.py:592–595`), or it disagrees with itself each time
  (`pose_jump_gate.py:119–146`). The goal stays parked, the one exception of
  `HoldEnds`.
- `loc_hold_tick.py:81` and `133`: a held tick is charged less than it took
  (README.md:195); the retry branch is dead; the checks of a driving robot apply
  small corrections (`supervisor.py:1143`).
- `localize_worker.py`: a submit on a pool another caller shut down raises instead
  of falling back (docstring, lines 20–21); one caller's handler kills the pool
  another has just started; a call after `close()` starts a pool nobody closes.

Devices

- `models/rplidar_shm.py:380–390`: reconnects longer than `max_publish_gap_s` are
  aborted as hung (`KicksOnlyReads`); a shared hub's dead port is never reopened;
  the close's join is shorter than an autodetection.
- `lidar/serial_ports.py`: a stale claim of an unplugged device hides the other
  sensor, although the docstring of `rplidar_serial.py:133–139` calls claims
  advisory; `release_serial_port` drops anybody's claim; fixed paths never claim.
- `imu/wit_serial.py:244–290`: the IMU never reconnects and publishes its last
  sample for ever; a reader that outlives the join of `close` is revived.

`StoppedMeansStill` and `OneMover` name two gaps and show that there is no third:
a goal that was still starting when it was told to stop (`CancelHonoured`), and
one that is started after its route was told to stop, by a ghost thread or by a
route that has not looked at its cancel event yet.

## 5. Theorems

Each holds for every value of the constants its module's assumptions allow.
The first step is always the same: the types, then an inductive invariant that is
a conjunction of named parts, one lemma per action (or per group of actions that
disturb the same parts), and a temporal step that combines them. The properties in
the last column are invariants or action properties of a run unless they stand in
brackets; those are proved only.

| Module | Assumes | Inductive invariant | Proves |
|---|---|---|---|
| `DriveChannelProofs` | one control thread (`Solo`) for all but the types | `SoloInv` | `ParkedIsNewest`, `OrderSpec`, [`AtMostOneRpc`, `InOrder`] |
| | positive limits, a lidar read one way (`NoFallback`) | `ScanIInv` | `FreshScans` |
| | three nodes, no two devices on one | `PortsIInv` | `SearchesFind`, [`PortsApart`] |
| `BuiltinNavigatorProofs` | nothing | `IInv` | `LeavesStopped`, `CancelWithinOneTick`, `LiveGoalReported`, `LifecycleSpec` |
| `GoalRunProofs` | limits and budget positive | `IInv` | `AbortIsEarned`, [`HeldTickIsZero`, `NoEscapeWhileCooling`, `ReverseIsBounded`, `WaitNeverAsksForward`, `BlindNeverAsksForward`, `StallOnlyWhenDriving`, `RestIsNoted`, `CountHasItsDistance`] |
| | limits of at least one | `HoldIInv` | `AppliesHalted`, [`OneCheck`] |
| `PlanningProofs` | a grid, jobs on it | `SearchIInv` | `ClosedParents`, `NoPathMeansCut` |
| | a grid, jobs on it | `PathIInv` | `PathClear` |
| | a grid, jobs on it | `CheapIInv` | [`CheapestFound`, `ExpandedIsFinal`] |
| | nothing; positive limits | `FlipsCounted`, `DetourIInv` | `FlipsWithinBudget`, `StaticFailsOnce` |
| | nothing | `DrawIInv` | `ErasedStaysErased`, `DrawnWhereTheGraphSays`, [`EdgesJoinTheirKeyframes`, `SavedKeyframesStay`] |
| `ShmRingProofs` | a word and a try | the writer's and the reader's part | `NeverTorn`, `RegisterSpec`, [`NeverStale`, `TornNeedsWriter`] |
| | nothing | `CloudIInv` | `RingIsOwn` |
| | nothing | `FeedIInv` | `MatchedOnce` |
| `NavServiceProofs` | a careful client (`Careful`) for all but the types | `Typed /\ Inv` | `HandlesOwned`, `StoppedMeansStill`, `OneMover` |
| `MapUpkeepProofs` | nothing | `FilesIInv` | `GraphRedrawsGrid`, `RepairStaysInItsSession` |
| | nothing | `RevisitIInv` | `AppliedIsGood` |
| | positive thresholds | `HealthIInv` | `ClearIsEarned`, [`DistrustIsEarned`] |
| `LocalizationProofs` | nothing | `WatchIInv` | `StartupYields`, `DrivingPoseStays`, [`CyclesNeedTwo`] |
| | a cache of at least one | `WorkerIInv` | `RightMap` |

**Drive channel.** `SoloInv` adds to the types that only the pending coroutine
runs (`OnlyPendingRuns`), that base, call in flight, parked command and newest
command are ordered by number (`PathOrdered`), and where the caller's own command
is in that order (`CallerOrdered`). `ParkedIsNewest` and `InOrder` alone are not
inductive: they say nothing of a command between acceptance and submission.

**Scans.** `ScanIInv` bounds the age of each thing a scan can be made of at the
moment it could be handed out: the call in flight, the lidar's answer, the depth
job, the cached merge. The bound is a stuck call and three times `max_age`; it is
tight. `NoFallback` is not a convenience: with a lidar that is read from shared
memory and falls back to calls the property is false (section 4).

**Ports.** As long as the sensor stays plugged in, its port is still on the list of
the search, is the one being tried, or has an old claim of the other driver on its
node (`SensorAhead`). That rests on two facts about the other driver: it has only
its own sensor's port open when it does not hold the open lock (`AskedAlone`), so
a port that is tried under the lock is free; and its claim is on the node its own
sensor has unless that claim is old (`ClaimsKnown`).

**Navigator.** `IInv` adds who holds the lock at which step of navigate and cancel
(`LockHeld`), that goals not yet created have no thread (`Uncreated`), which
states a worker may have at each place of `run_goal` (`StateFollowsRun`), that
only a goal past its plan drives (`DrivesAfterPlan`) and the count of late twists
(`LateBound`). `GoalLifecycle` lets a goal whose last stop raised leave the base
adrift, so the refinement needs no assumption on stops.

**Goal.** `TickPreSound` and `TickPostSound` state what the escape machine
returns whatever it senses. The invariant then says, phase by phase, what a later
phase relies on: the count never runs ahead of the failures (`Counted`), a corridor
needs a scan (`Planned`), held and waiting ticks count as progress (`Progressing`),
what the limiter's reference is (`Referenced`), who has the word in a blind,
waiting or held tick (`Blind`, `Waiting`, `Held`), and that the distance an escape
has covered is at most its distance from its start plus one budget (`Covered`).

**Localization during a goal.** `Poised`: while a check is under way that was begun
for a bad scan, or in a step that may move the pose far, the goal has stopped the
base; `OneCheck`: a goal that waits has one check in the service, of the step it
is in, so the answer that is applied is the one it waits for.

**Search.** `SearchIInv` says of Lazy Theta*'s unproven parents exactly what may
be relied on before they are mended: the parent of every known cell is expanded,
the parents of expanded cells are seen or touched (`ParentsJoined`), every known
cell is expanded or queued (`KnownAwaits`), and the neighbours of an expanded cell
are known (`NeighboursKnown`). "No path" is then a cut: the expanded cells contain
the start, lack the goal and have no way out. That the least entry of a queue
exists, for any set of numbers, is by well-foundedness.

**Path.** `PathClear` speaks of what is left after five transformations of the
search's parents, so `PathIInv` has two halves. `TreeHolds`, while the search runs:
from any known cell the parents lead to the start along a rank that falls, with A\*
the cost itself (`Rooted`, `StartFirst`), hence `_reconstruct` comes to the start
before it runs out of cells. `LegHolds`, over the two legs:
the costs are those of the leg (`CostsAreTheLegs`), the cells found are strung
(`FoundIsStrung`: from the start to the goal, each the last one, next to it or in its
sight), a path handed over is clear (`HandedIsClear`), and the bridge ends where the
main leg began (`BridgeEndsAtMain`). One lemma per transformation says what it
keeps: a Bresenham line begins and ends where it should and each of its cells
touches the last (the error of the line is balanced between bounds at each of its
cells), the repair fills chords with such lines, `_simplify` drops a cell only when
those around it lie on one axis or diagonal of open cells (`Ray`), the smoothing
pulls the path straight only along lines in sight (`Pulled`), and what is open on
the painted costs is open on the live map, since paint only adds obstacles. The prover cannot
instantiate the library's induction; `IntervalInduction` takes the least number at
which a set fails, and `GoesOn` builds a recursive function over an interval from
it, which every recursion here goes through.

**A\*.** In the model's integer units A\* finds the cheapest way, although the code
drops every queue entry of an expanded cell and never reopens one. That is right
only if the heuristic is consistent, and there the rounding matters: the distance
is rounded down to hundredths, a diagonal step up, and `HeuristicIsConsistent`
shows that the rounded distances of neighbours still differ by no more than a step
(`RootsOfNeighbours`, from the defining inequalities of the integer root and the
triangle inequality for a step). `CheapHolds` then says: a queue entry's price is at
least what is known of its cell plus the distance, and one entry has it exactly
(`QueuePriced`, `OpenPriced`); no expanded cell was dearer than one that waits
(`ClosedFirst`); no neighbour of an expanded cell is cheaper through it
(`EdgesRelaxed`); costs add up along parents (`CostsAddUp`). `ExpandedIsFinal`
follows, and `NoWayIsCheaper` compares the goal's entry with the first cell, on any
way whatever, that was not expanded. The result is about cells and
`_cell_step_cost`; it does not extend to Lazy Theta\*, whose assumed chords may be
replaced by dearer ones, nor to the path after simplification and smoothing.

**Replans.** `FlipsCounted` follows the count through the six places that commit a
path. For `StaticFailsOnce`, `MissedBare` says what a first failure leaves behind:
no ban, so that the second try in the same world has nothing to be refused for.

**Drawing.** The keyframes and the scans carry numbers in the order they were made
(`Numbered`), and a removal keeps that order (`RemoveKeeps`): so "older than the
clear" and "up to the snapshot" are statements about prefixes. A redraw that is
still valid is of keyframes the graph still begins with (`OfGraph`), and only the
operator's optimization is about to move a saved one (`Spares`). The grid shows
the graph, or a redraw is pledged that will make it do so (`InStep`, `Pledged`).
Detections, chains and commits in flight join keyframes the graph has, or are
outdated and will be thrown away (`ChainsJoin`).

**Ring.** The writer's part: the number of writes fixes both sequence numbers
(`Counted`); a slot with an even number is whole (`Whole`); the newest frame is
where it was put unless two writes have begun since (`Newest`). The reader's part:
what has been copied is from the frame the scan saw, or the slot's number has moved
on (`Copying`), and each move of a number since the scan is a write begun since
(`Outrun`). `NeverStale` needs `HalfScanned`: the first slot was looked at before
the second, so what it then held bounds what the second may hide.

**Feed.** Since the engine last took a scan, as long as the lidar has turned all the
time: its frame can be found under its name, young enough for the read under way
(`Offered`); a second attempt opens the name anew (`Attempts`) and so maps the
object that is written (`SecondAttempt`); hence a dropout means that the lidar was
not turning (`GapsAreSilence`). The theorem covers the lidar that falls back to
calls, which the run does not.

**Service.** `Typed` gives every place of a handler, run or ghost its values;
it needs no assumption. `Inv` follows the handles: a live run is named by them
until a handler takes it over (`RoutesNamed`, `SimplesNamed`), what a handler may
rely on once it is past `_cancel_route` and `_cancel_simple_nav` (`PastRoute`,
`PastSimple`), and whether the navigator may have a goal nobody has stopped
(`Rests`, `Tame`). `Careful` (one request at a time, no wait for a simple go-to) is
what the findings of section 4 leave; helper threads, ghosts and late workers
interleave freely all the same.

**Maps.** `FilesIInv` is `FilesBase`, what each place of a repair, a command and a
save implies by itself, and, while the client has been careful, `Sound`: on the
files (`DirsSound`, only the active map may be torn), the repair (it works on the
active map, its backup and its snapshot are of it), the command (loading is
exclusive, what is to be loaded can be found), the grid (the active map's image or
the snapshot is what it shows), and the save (image and keyframes extend what was
saved). `RepairStaysInItsSession` needs no careful client: the revision a repair
took is at most the live one, and below it once another session has begun.

**Upkeep.** A check that is past its choice of a facing carries what its own tier
vouches for at that pose (`Vouched`, per tier, in `SoundCheck`); a check of the
keyframe tier carries a hit-rate of a view from the start, which `Faced` keeps; a region is erased on the samples of its own track
(`SamplesHold`), and a map is distrusted by an assessment that found it torn
(`VerdictsHold`).

**Localization.** In `WatchIInv` a gate holds no vote or one, and a vote is a match
(`VotesAreMatches`); the startup search only refines a best candidate it has; once
the operator or a goal came, its task is told to end and its results find that out
before they are applied. In `WorkerIInv` a call waits for one job at the pool it
holds; pools that nobody holds can be reused because there are more pools than
calls (`UnheldExists`, a pigeonhole); the worker caches every map under its token.

Only model-checked, because TLAPS has no means for it: liveness under fairness
(`HeldTwistArrives`, `DepthResumes`, `CancelEndsGoal`, `FeedResumes`,
`CommandsReturn`, `HoldEnds`, `Resumes`, `CallsReturn`, `LidarReturns`). Every
other property of the runs is proved.

Two modules state their assumptions on constants for these proofs. `GridAssumption`
asks that the snap radius is a number, `JobsAssumption` that a job's robot and
obstacles are cells, its goal a pair of numbers (it may lie off the grid) and its
radii numbers; the code's arrays and configuration give no others. `CheapestFound` quantifies over all ways through the grid, so it is
proved and not run.

## 6. Not modelled

`PROJECT.json` names every component and why it is or is not modelled. Numeric
code (scan matching, least squares, costs of costmaps beyond the planner's grid,
kinematics, the footprint's geometry) enters the models as choices; conversions,
configuration and visualisation keep no state; the stores of routes, zones and
locations are single files that are replaced as a whole on the event loop.

## 7. Plan

1. The properties that held when they were run but that no run keeps
   (`ClosedMeansShut`, `LegsAreReached`, `LeadIsCurrent`, `UndoRestores`).
2. A bound on how much dearer than A\*'s a path of Lazy Theta\* can be; it needs a
   statement about the chords that `_set_vertex` replaces.
3. Liveness stays with TLC.

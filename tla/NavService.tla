----------------------------- MODULE NavService -----------------------------
(***************************************************************************)
(* The navigation service (src/src/models/nav_core.py): its handlers, the  *)
(* task that runs a route, the one that runs a simple go-to                *)
(* (src/src/nav/motion/simple_motion.py), and the calls they make on the   *)
(* navigator from helper threads.                                          *)
(*                                                                         *)
(* Handlers and tasks share one event loop: one of them runs at a time,    *)
(* until it waits for a task, a thread or a remote call.  Threads run at   *)
(* any time.  A task that is cancelled stops waiting for its thread; the   *)
(* thread may go on, a ghost.                                              *)
(***************************************************************************)
EXTENDS NavigatorPort, Sequences, FiniteSets

CONSTANTS
    Asked,          \* the targets a request may name
    Route,          \* the waypoints of the saved route
    MaxRequests,    \* bound: requests handled
    Starts,         \* how a route may be asked for
    Waits,          \* whether a simple go-to may be waited for
    Waiters,        \* bound: requests that may wait for a route
    Concurrent      \* bound: requests under way at a time, without those
                    \* that wait for a run

ASSUME ServiceAssumption ==
    /\ NoTarget \notin Targets
    /\ Asked \subseteq Targets
    /\ Route \in Seq(Targets) /\ Route # <<>>
    /\ Starts \subseteq [at : 1 .. Len(Route), loop : BOOLEAN, wait : BOOLEAN, nearest : BOOLEAN]
    /\ Waits \subseteq BOOLEAN /\ Waiters \subseteq 1 .. MaxRequests
    /\ MaxRequests \in Nat /\ MaxGoals \in Nat /\ Concurrent \in Nat

Requests == 1 .. MaxRequests    \* also names the run a request starts

VARIABLES
    requests,   \* requests so far
    hd,         \* handler of each request
    rt,         \* route run of each request that started one
    sr,         \* simple run of each request that started one
    svc,        \* attributes of the service
    mgr,        \* the navigator, NavigatorPort
    ghosts,     \* calls of helper threads nobody waits for
    quiet       \* the last request that was done asked to stop (ghost)

vars == <<requests, hd, rt, sr, svc, mgr, ghosts, quiet>>

Places == Targets \cup {NoTarget}
Jobs == {"none", "navigate", "cancel", "status", "done"}
Snapshots == [motion : {"none", "simple", "builtin"}, to : Places,
              route : BOOLEAN, at : 0 .. Len(Route), loop : BOOLEAN, old : BOOLEAN]
RouteStatuses == [state : {"idle", "active"} \cup Ends, at : 0 .. Len(Route), loop : BOOLEAN]
Plans == [to : Places,
          state : {"none", "in_progress", "stopped", "succeeded", "failed"}]

NoSnapshot == [motion |-> "none", to |-> NoTarget, route |-> FALSE, at |-> 0, loop |-> FALSE,
               old |-> FALSE]

Handlers ==
    [op : {"none", "point", "plan", "route", "go", "suspend", "cancel"},
     to : Places, wait : BOOLEAN, at : 0 .. Len(Route), loop : BOOLEAN,
     was : BOOLEAN, on : 0 .. MaxRequests, snap : Snapshots, job : Jobs,
     pc : {"none", "pose", "cr", "wr", "cs", "ws", "stop", "body", "wj", "wrun", "done"}]
RouteRuns ==
    [pc : {"none", "created", "leg", "wnav", "start", "poll", "verify", "stopmgr", "killed", "done"},
     at : 0 .. Len(Route), loop : BOOLEAN, task : BOOLEAN, event : BOOLEAN,
     kill : BOOLEAN, job : Jobs, seen : Statuses]
SimpleRuns ==
    [pc : {"none", "created", "wmgr", "drive", "send", "stopping", "done"},
     to : Places, task : BOOLEAN, event : BOOLEAN, kill : BOOLEAN,
     job : Jobs, out : {"none", "raised"} \cup Ends]
Services ==
    [routeTask : 0 .. MaxRequests, routeCancel : 0 .. MaxRequests, route : RouteStatuses,
     simpleTask : 0 .. MaxRequests, simpleCancel : 0 .. MaxRequests, simple : Statuses,
     suspended : Snapshots, plan : Plans]

TypeOK ==
    /\ requests \in 0 .. MaxRequests
    /\ hd \in [Requests -> Handlers]
    /\ rt \in [Requests -> RouteRuns]
    /\ sr \in [Requests -> SimpleRuns]
    /\ svc \in Services
    /\ mgr \in Navigators
    /\ ghosts \subseteq [by : Requests, kind : {"navigate", "cancel"}, to : Places]
    /\ quiet \in BOOLEAN

\* The status of a route; of one that is not active the leg is of no use.
Inactive(state) == [state |-> state, at |-> 0, loop |-> FALSE]

NoHandler == [op |-> "none", to |-> NoTarget, wait |-> FALSE, at |-> 0, loop |-> FALSE,
              was |-> FALSE, on |-> 0, snap |-> NoSnapshot, job |-> "none", pc |-> "none"]
Returned == [NoHandler EXCEPT !.pc = "done"]
NoRoute == [pc |-> "none", at |-> 0, loop |-> FALSE, task |-> FALSE, event |-> FALSE,
            kill |-> FALSE, job |-> "none", seen |-> AtRest.last]
NoSimple == [pc |-> "none", to |-> NoTarget, task |-> FALSE, event |-> FALSE,
             kill |-> FALSE, job |-> "none", out |-> "none"]
RouteOver == [NoRoute EXCEPT !.pc = "done"]
SimpleOver == [NoSimple EXCEPT !.pc = "done"]

Init ==
    /\ requests = 0
    /\ hd = [n \in Requests |-> NoHandler]
    /\ rt = [n \in Requests |-> NoRoute]
    /\ sr = [n \in Requests |-> NoSimple]
    /\ svc = [routeTask |-> 0, routeCancel |-> 0,
              route |-> Inactive("idle"),
              simpleTask |-> 0, simpleCancel |-> 0, simple |-> AtRest.last,
              suspended |-> NoSnapshot,
              plan |-> [to |-> NoTarget, state |-> "none"]]
    /\ mgr = AtRest
    /\ ghosts = {}
    /\ quiet = FALSE

-----------------------------------------------------------------------------
(* The event loop.                                                         *)

\* Somebody is between two awaits: nobody else runs.
Busy ==
    \E n \in Requests : hd[n].pc \in {"cr", "cs", "body"} \/ rt[n].pc = "leg"

Live(run) == run.pc \notin {"none", "done"}

\* The run that handler n waits for has been told to stop.
ToldToStop(n) == rt[n].event \/ sr[n].event

UnderWay == {n \in Requests : Live(hd[n]) /\ (hd[n].pc = "wrun" => ToldToStop(n))}

\* task.cancel() on the task of run, and what it was waiting for in a thread.
Kill(run) == [run EXCEPT !.kill = TRUE]

\* A thread whose task is gone: it had not started, or it goes on.
Abandon(n, run, to) ==
    \/ ghosts' = ghosts
    \/ /\ run.job \in {"navigate", "cancel"}
       /\ ghosts' = ghosts \cup {[by |-> n, kind |-> run.job, to |-> to]}

-----------------------------------------------------------------------------
(* The plan that MoveOnMap reports on.                                     *)

Terminal == {"stopped", "succeeded", "failed"}

NewPlan(to) == [to |-> to, state |-> "in_progress"]

StoppedPlan(plan) == IF plan.state = "none" THEN plan ELSE [plan EXCEPT !.state = "stopped"]

\* _sync_plan_state_from_nav
Synced(plan) ==
    LET state == Status(mgr).state
        with(s) == [plan EXCEPT !.state = s]
    IN  IF plan.state \in {"none", "stopped"} THEN plan
        ELSE CASE state = "active" -> with("in_progress")
               [] state = "canceled" -> with("stopped")
               [] state \in {"succeeded", "failed"} -> with(state)
               [] state = "idle" -> IF plan.state \in Terminal THEN plan ELSE with("in_progress")

-----------------------------------------------------------------------------
(* The beginning of each request.                                          *)

\* A suspend under way has a snapshot that is old (ghost) once any other
\* request that clears it has come in.
Begin(n, h, s) ==
    /\ ~Busy
    /\ n = requests + 1
    /\ Cardinality(UnderWay) < Concurrent
    /\ requests' = n
    /\ hd' = [i \in Requests |->
                 IF i = n THEN h
                 ELSE IF hd[i].op = "suspend" /\ h.op # "suspend" /\ h.pc # "pose"
                 THEN [hd[i] EXCEPT !.snap.old = TRUE] ELSE hd[i]]
    /\ svc' = s
    /\ UNCHANGED <<rt, sr, mgr, ghosts>>

\* Mutant: a new goal leaves the suspended one alone.
StillSuspended == svc

Unsuspended == [svc EXCEPT !.suspended = NoSnapshot]

\* navigate_to_point, navigate_to_location, execute_plan
BeginPoint(n, to) ==
    /\ Begin(n, [NoHandler EXCEPT !.op = "point", !.to = to, !.pc = "cr"], Unsuspended)
    /\ quiet' = FALSE

\* move_on_map: the plan in progress is superseded.
BeginPlan(n, to) ==
    /\ Begin(n, [NoHandler EXCEPT !.op = "plan", !.to = to, !.pc = "cr"],
             [Unsuspended EXCEPT !.plan = NewPlan(to)])
    /\ quiet' = FALSE

\* navigate_route; with start_nearest the pose is read before anything else.
BeginRoute(n, r) ==
    /\ Begin(n, [NoHandler EXCEPT !.op = "route", !.at = r.at, !.loop = r.loop,
                                  !.wait = r.wait, !.pc = IF r.nearest THEN "pose" ELSE "cr"],
             IF r.nearest THEN svc ELSE Unsuspended)
    /\ quiet' = FALSE

\* go_to_point, go_to_location
BeginGo(n, to, wait) ==
    /\ Begin(n, [NoHandler EXCEPT !.op = "go", !.to = to, !.wait = wait, !.pc = "cr"],
             Unsuspended)
    /\ quiet' = FALSE

\* cancel, stop_plan
BeginCancel(n) ==
    /\ Begin(n, [NoHandler EXCEPT !.op = "cancel", !.pc = "cr"], Unsuspended)
    /\ UNCHANGED quiet

\* _snapshot_active_goal
Snapshot ==
    LET routing == svc.route.state = "active"
        status == Status(mgr)
        snap(motion, to) ==
            [motion |-> motion, to |-> to, route |-> routing,
             at |-> IF routing THEN svc.route.at ELSE 0, loop |-> routing /\ svc.route.loop,
             old |-> FALSE]
    IN  CASE svc.simple.state = "active" -> snap("simple", svc.simple.to)
          [] svc.simple.state # "active" /\ (status.state = "active" \/ routing)
               /\ status.to # NoTarget -> snap("builtin", status.to)
          [] svc.simple.state # "active" /\ routing /\ status.to = NoTarget
               -> snap("builtin", Route[svc.route.at])
          [] svc.simple.state # "active" /\ status.state # "active" /\ ~routing
               /\ svc.plan.state = "in_progress" -> snap("builtin", svc.plan.to)
          [] OTHER -> NoSnapshot

\* suspend; with nothing under way it changes nothing.
BeginSuspend(n) ==
    /\ Snapshot # NoSnapshot
    /\ Begin(n, [NoHandler EXCEPT !.op = "suspend", !.snap = Snapshot, !.pc = "cr"], svc)
    /\ UNCHANGED quiet

\* resume: a route starts over at its leg; the others skip _cancel_route.
BeginResume(n) ==
    LET s == svc.suspended IN
    /\ s # NoSnapshot
    /\ Begin(n,
             CASE s.route -> [NoHandler EXCEPT !.op = "route", !.at = s.at, !.loop = s.loop,
                                               !.pc = "cr"]
               [] ~s.route /\ s.motion = "simple" ->
                    [NoHandler EXCEPT !.op = "go", !.to = s.to, !.pc = "cs"]
               [] OTHER -> [NoHandler EXCEPT !.op = "plan", !.to = s.to, !.pc = "cs"],
             IF ~s.route /\ s.motion = "builtin"
             THEN [Unsuspended EXCEPT !.plan = NewPlan(s.to)] ELSE Unsuspended)
    /\ quiet' = FALSE

\* get_plan, list_plan_statuses
Query ==
    /\ ~Busy
    /\ svc' = [svc EXCEPT !.plan = Synced(@)]
    /\ UNCHANGED <<requests, hd, rt, sr, mgr, ghosts, quiet>>

-----------------------------------------------------------------------------
(* _cancel_route and _cancel_simple_nav                                    *)

Unhandled == <<requests, rt, sr, mgr, ghosts, quiet>>

\* start_nearest: the pose has been read, and a lost pose raises.
GotPose(n) ==
    /\ ~Busy
    /\ hd[n].pc = "pose"
    /\ \/ /\ hd' = [hd EXCEPT ![n].pc = "cr"]
          /\ svc' = Unsuspended
       \/ hd' = [hd EXCEPT ![n] = Returned] /\ UNCHANGED svc
    /\ UNCHANGED Unhandled

\* The end of _cancel_route, whoever the handles belong to by now.
RouteCleared(s, h) ==
    [s EXCEPT !.routeTask = 0, !.routeCancel = 0,
              !.route = IF ~h.was THEN @
                        ELSE Inactive(IF h.op = "suspend" THEN "idle" ELSE "canceled")]

CancelRoute(n) ==
    LET r == svc.routeTask
        running == r # 0 /\ Live(rt[r])
        h == [hd[n] EXCEPT !.was = svc.route.state = "active"]
    IN
    /\ hd[n].pc = "cr"
    /\ rt' = [i \in Requests |->
                LET x == IF i = svc.routeCancel THEN [rt[i] EXCEPT !.event = TRUE] ELSE rt[i]
                IN  IF running /\ i = r THEN Kill(x) ELSE x]
    /\ \/ /\ running
          /\ hd' = [hd EXCEPT ![n] = [h EXCEPT !.pc = "wr", !.on = r]]
          /\ UNCHANGED svc
       \/ /\ ~running
          /\ hd' = [hd EXCEPT ![n] = [h EXCEPT !.pc = "cs"]]
          /\ svc' = RouteCleared(svc, h)
    /\ UNCHANGED <<requests, sr, mgr, ghosts, quiet>>

\* The task it waits for has ended.
RouteGone(n) ==
    /\ ~Busy
    /\ hd[n].pc = "wr"
    /\ ~Live(rt[hd[n].on])
    /\ hd' = [hd EXCEPT ![n].pc = "cs"]
    /\ svc' = RouteCleared(svc, hd[n])
    /\ UNCHANGED Unhandled

SimpleCleared(s) == [s EXCEPT !.simpleTask = 0, !.simpleCancel = 0]

\* Stops the base only where a simple run was active or had a task.
CancelSimple(n) ==
    LET r == svc.simpleTask
        running == r # 0 /\ Live(sr[r])
        was == svc.simple.state = "active"
    IN
    /\ hd[n].pc = "cs"
    /\ sr' = [i \in Requests |->
                LET x == IF i = svc.simpleCancel THEN [sr[i] EXCEPT !.event = TRUE] ELSE sr[i]
                IN  IF running /\ i = r THEN Kill(x) ELSE x]
    /\ hd' = [hd EXCEPT ![n].was = was, ![n].on = r,
                        ![n].pc = IF running THEN "ws" ELSE IF was THEN "stop" ELSE "body"]
    /\ svc' = IF running THEN svc ELSE SimpleCleared(svc)
    /\ UNCHANGED <<requests, rt, mgr, ghosts, quiet>>

SimpleGone(n) ==
    /\ ~Busy
    /\ hd[n].pc = "ws"
    /\ ~Live(sr[hd[n].on])
    /\ hd' = [hd EXCEPT ![n].pc = "stop"]
    /\ svc' = SimpleCleared(svc)
    /\ UNCHANGED Unhandled

\* The base has been stopped; if that raised, so does the handler.
BaseStopped(n) ==
    /\ ~Busy
    /\ hd[n].pc = "stop"
    /\ \/ /\ hd' = [hd EXCEPT ![n].pc = "body"]
          /\ svc' = IF hd[n].was
                    THEN [svc EXCEPT !.simple = [state |-> "canceled", to |-> NoTarget]]
                    ELSE svc
       \/ hd' = [hd EXCEPT ![n] = Returned] /\ UNCHANGED svc
    /\ UNCHANGED Unhandled

-----------------------------------------------------------------------------
(* The rest of each handler.                                               *)

\* asyncio.to_thread(mgr.navigate or mgr.cancel)
CallNavigator(n) ==
    /\ hd[n].pc = "body"
    /\ hd[n].op \in {"point", "plan", "suspend", "cancel"}
    /\ hd' = [hd EXCEPT ![n].pc = "wj",
                        ![n].job = IF hd[n].op \in {"point", "plan"} THEN "navigate"
                                   ELSE "cancel"]
    /\ UNCHANGED <<svc, Unhandled>>

NavigatorCalled(n) ==
    LET op == hd[n].op IN
    /\ ~Busy
    /\ hd[n].pc = "wj"
    /\ hd[n].job = "done"
    /\ hd' = [hd EXCEPT ![n] = Returned]
    /\ svc' = CASE op = "point" -> svc
                [] op = "plan" -> [svc EXCEPT !.plan = Synced(@)]
                [] op = "cancel" -> [svc EXCEPT !.plan = StoppedPlan(@)]
                [] op = "suspend" -> [svc EXCEPT !.plan = StoppedPlan(@),
                                                 !.suspended = hd[n].snap]
    /\ quiet' = (op \in {"suspend", "cancel"})
    /\ UNCHANGED <<requests, rt, sr, mgr, ghosts>>

\* The run is a task of its own, or with wait a part of the handler.
StartRoute(n) ==
    LET h == hd[n] IN
    /\ h.pc = "body" /\ h.op = "route"
    /\ svc' = [svc EXCEPT !.routeCancel = n, !.routeTask = IF h.wait THEN @ ELSE n,
                          !.route = [state |-> "active", at |-> h.at, loop |-> h.loop]]
    /\ rt' = [rt EXCEPT ![n] = [NoRoute EXCEPT !.pc = IF h.wait THEN "leg" ELSE "created",
                                               !.at = h.at, !.loop = h.loop,
                                               !.task = ~h.wait]]
    /\ hd' = [hd EXCEPT ![n] = IF h.wait THEN [Returned EXCEPT !.pc = "wrun"] ELSE Returned]
    /\ UNCHANGED <<requests, sr, mgr, ghosts, quiet>>

StartSimple(n) ==
    LET h == hd[n] IN
    /\ h.pc = "body" /\ h.op = "go"
    /\ svc' = [svc EXCEPT !.simpleTask = IF h.wait THEN @ ELSE n]
    /\ sr' = [sr EXCEPT ![n] = [NoSimple EXCEPT !.pc = IF h.wait THEN "wmgr" ELSE "created",
                                                !.to = h.to, !.task = ~h.wait,
                                                !.job = IF h.wait THEN "cancel" ELSE "none"]]
    /\ hd' = [hd EXCEPT ![n] = IF h.wait THEN [Returned EXCEPT !.pc = "wrun"] ELSE Returned]
    /\ UNCHANGED <<requests, rt, mgr, ghosts, quiet>>

RunReturned(n) ==
    /\ ~Busy
    /\ hd[n].pc = "wrun"
    /\ ~Live(rt[n]) /\ ~Live(sr[n])
    /\ hd' = [hd EXCEPT ![n] = Returned]
    /\ UNCHANGED <<svc, Unhandled>>

-----------------------------------------------------------------------------
(* _run_route                                                              *)

Unrouted == <<requests, hd, sr, mgr, ghosts, quiet>>

\* A run leaves with its status; finally forgets the handles that are its own.
Leave(n, s) ==
    /\ rt' = [rt EXCEPT ![n] = RouteOver]
    /\ svc' = [s EXCEPT !.routeCancel = IF @ = n THEN 0 ELSE @,
                        !.routeTask = IF rt[n].task /\ @ = n THEN 0 ELSE @]

\* The task gets its turn, unless it was cancelled before.
RouteBegins(n) ==
    /\ ~Busy
    /\ rt[n].pc = "created"
    /\ rt' = [rt EXCEPT ![n] = IF rt[n].kill THEN RouteOver ELSE [@ EXCEPT !.pc = "leg"]]
    /\ UNCHANGED <<svc, Unrouted>>

\* The top of the loop.
Leg(n) ==
    /\ rt[n].pc = "leg"
    /\ \/ /\ rt[n].event
          /\ Leave(n, [svc EXCEPT !.route = Inactive("canceled")])
       \/ /\ ~rt[n].event
          /\ svc' = [svc EXCEPT !.route = [state |-> "active", at |-> rt[n].at,
                                           loop |-> rt[n].loop]]
          /\ rt' = [rt EXCEPT ![n].pc = "wnav", ![n].job = "navigate"]
    /\ UNCHANGED Unrouted

\* The status that was read is used up.
Answered(run, pc) == [run EXCEPT !.pc = pc, !.job = "none", !.seen = AtRest.last]

\* A poll looks at the cancel event, then asks for the status in a thread.
Asking(run) ==
    IF run.event THEN [run EXCEPT !.pc = "stopmgr", !.job = "cancel"]
    ELSE [run EXCEPT !.job = "status"]

LegSent(n) ==
    /\ ~Busy
    /\ rt[n].pc = "wnav" /\ rt[n].job = "done" /\ ~rt[n].kill
    /\ rt' = [rt EXCEPT ![n] = Asking(Answered(@, "start"))]
    /\ UNCHANGED <<svc, Unrouted>>

\* The sleep before the next poll is over.
Poll(n) ==
    /\ ~Busy
    /\ rt[n].pc \in {"start", "poll"} /\ rt[n].job = "none" /\ ~rt[n].kill
    /\ rt' = [rt EXCEPT ![n] = Asking(@)]
    /\ UNCHANGED <<svc, Unrouted>>

\* The status is about this waypoint.
Matches(n) == rt[n].seen.to = Route[rt[n].at]

\* The status is one the leg may have: a goal given up near the waypoint counts.
LegSeen(n) ==
    LET state == rt[n].seen.state IN
    state = "active" \/ (state \in Ends /\ (Matches(n) \/ state # "succeeded"))

LegUnseen(n) ==
    LET state == rt[n].seen.state IN ~(state = "active" \/ (state \in Ends /\ Matches(n)))

\* Waiting for the leg to start; after 50 polls the route fails.
PolledStart(n) ==
    /\ ~Busy
    /\ rt[n].pc = "start" /\ rt[n].job = "done" /\ ~rt[n].kill
    /\ \/ /\ LegSeen(n)
          /\ rt' = [rt EXCEPT ![n] = Asking(Answered(@, "poll"))]
          /\ UNCHANGED svc
       \/ /\ LegUnseen(n)
          /\ rt' = [rt EXCEPT ![n] = Answered(@, "start")]
          /\ UNCHANGED svc
       \/ /\ LegUnseen(n)
          /\ Leave(n, [svc EXCEPT !.route = Inactive("failed")])
    /\ UNCHANGED Unrouted

\* Mutant: any success will do.
NeverStale(n) == FALSE

\* A success that is another goal's is not the end of this leg.
Stale(n) == rt[n].seen.state = "succeeded" /\ ~Matches(n)

\* Waiting for the leg to end.
Polled(n) ==
    LET state == rt[n].seen.state IN
    /\ ~Busy
    /\ rt[n].pc = "poll" /\ rt[n].job = "done" /\ ~rt[n].kill
    /\ \/ /\ state \in {"active", "idle"} \/ Stale(n)
          /\ rt' = [rt EXCEPT ![n] = Answered(@, "poll")]
          /\ UNCHANGED svc
       \/ /\ state \in {"canceled", "failed"}
          /\ Leave(n, [svc EXCEPT !.route = Inactive(state)])
       \/ /\ state = "succeeded" /\ ~Stale(n)
          /\ \/ /\ rt[n].at < Len(Route) \/ rt[n].loop
                /\ rt' = [rt EXCEPT ![n] = Answered(@, "verify")]
                /\ UNCHANGED svc
             \/ /\ rt[n].at = Len(Route) /\ ~rt[n].loop
                /\ Leave(n, [svc EXCEPT !.route = Inactive("succeeded")])
    /\ UNCHANGED Unrouted

\* The check of the pose between two legs is over, whatever it found.
Verified(n) ==
    /\ ~Busy
    /\ rt[n].pc = "verify" /\ ~rt[n].kill
    /\ rt' = [rt EXCEPT ![n].pc = "leg", ![n].at = (@ % Len(Route)) + 1]
    /\ UNCHANGED <<svc, Unrouted>>

\* The cancel event was seen, and the navigator told.
RouteStopped(n) ==
    /\ ~Busy
    /\ rt[n].pc = "stopmgr" /\ rt[n].job = "done" /\ ~rt[n].kill
    /\ Leave(n, [svc EXCEPT !.route = Inactive("canceled")])
    /\ UNCHANGED Unrouted

\* except CancelledError: tells the navigator before it goes.
RouteKilled(n) ==
    /\ ~Busy
    /\ rt[n].kill
    /\ rt[n].pc \in {"wnav", "start", "poll", "verify", "stopmgr"}
    /\ Abandon(n, rt[n], Route[rt[n].at])
    /\ rt' = [rt EXCEPT ![n] = [Answered(@, "killed") EXCEPT !.job = "cancel", !.kill = FALSE]]
    /\ UNCHANGED <<svc, requests, hd, sr, mgr, quiet>>

\* It goes; cancelled a second time, it does not wait for the thread.
RouteDies(n) ==
    /\ ~Busy
    /\ rt[n].pc = "killed"
    /\ \/ /\ rt[n].job = "done" /\ ~rt[n].kill
          /\ Leave(n, [svc EXCEPT !.route = Inactive("canceled")])
          /\ UNCHANGED ghosts
       \/ /\ rt[n].kill
          /\ Leave(n, svc)
          /\ Abandon(n, rt[n], NoTarget)
    /\ UNCHANGED <<requests, hd, sr, mgr, quiet>>
-----------------------------------------------------------------------------
(* _simple_go_to and drive_to_pose                                         *)

Unsimple == <<requests, hd, rt, mgr, quiet>>

\* Mutant: the run cancels the previous one itself, and drops its own handle.
SimpleBeginsDropping(n) ==
    /\ ~Busy
    /\ sr[n].pc = "created"
    /\ sr' = IF sr[n].kill THEN [sr EXCEPT ![n] = SimpleOver]
             ELSE [sr EXCEPT ![n].pc = "wmgr", ![n].job = "cancel"]
    /\ svc' = [svc EXCEPT !.simpleTask = 0, !.simpleCancel = 0]
    /\ UNCHANGED <<ghosts, Unsimple>>

\* Mutant: the navigator is not told.
SimpleBeginsAtOnce(n) ==
    /\ ~Busy
    /\ sr[n].pc = "created"
    /\ sr' = IF sr[n].kill THEN [sr EXCEPT ![n] = SimpleOver]
             ELSE [sr EXCEPT ![n].pc = "wmgr", ![n].job = "done"]
    /\ UNCHANGED <<svc, ghosts, Unsimple>>

\* The task gets its turn, unless it was cancelled before.
SimpleBegins(n) ==
    /\ ~Busy
    /\ sr[n].pc = "created"
    /\ sr' = IF sr[n].kill THEN [sr EXCEPT ![n] = SimpleOver]
             ELSE [sr EXCEPT ![n].pc = "wmgr", ![n].job = "cancel"]
    /\ UNCHANGED <<svc, ghosts, Unsimple>>

\* The navigator has been told to cancel; the first pose may be missing.
SimpleInstalls(n) ==
    /\ ~Busy
    /\ sr[n].pc = "wmgr" /\ sr[n].job = "done" /\ ~sr[n].kill
    /\ svc' = [svc EXCEPT !.simpleCancel = n,
                          !.simple = [state |-> "active", to |-> sr[n].to]]
    /\ \/ sr' = [sr EXCEPT ![n].pc = "drive", ![n].job = "none"]
       \/ sr' = [sr EXCEPT ![n].pc = "stopping", ![n].job = "none", ![n].out = "failed"]
    /\ UNCHANGED <<ghosts, Unsimple>>

\* The top of the loop, then the pose is awaited.
SimpleLooks(n) ==
    /\ ~Busy
    /\ sr[n].pc = "drive" /\ ~sr[n].kill
    /\ sr' = IF sr[n].event THEN [sr EXCEPT ![n].pc = "stopping", ![n].out = "canceled"]
             ELSE [sr EXCEPT ![n].pc = "send"]
    /\ UNCHANGED <<svc, ghosts, Unsimple>>

\* One twist and a sleep, or the end; a failing call of the base is no
\* SimpleMotionError.
SimpleDrives(n) ==
    /\ ~Busy
    /\ sr[n].pc = "send" /\ ~sr[n].kill
    /\ \/ sr' = [sr EXCEPT ![n].pc = "drive"]
       \/ \E out \in {"succeeded", "failed", "raised"} :
            sr' = [sr EXCEPT ![n].pc = "stopping", ![n].out = out]
    /\ UNCHANGED <<svc, ghosts, Unsimple>>

\* Cancelled while it waits; before its try nothing is put in order.
SimpleKilled(n) ==
    /\ ~Busy
    /\ sr[n].kill
    /\ \/ /\ sr[n].pc = "wmgr"
          /\ Abandon(n, sr[n], NoTarget)
          /\ sr' = [sr EXCEPT ![n] = SimpleOver]
       \/ /\ sr[n].pc \in {"drive", "send"}
          /\ sr' = [sr EXCEPT ![n].pc = "stopping", ![n].out = "raised", ![n].kill = FALSE]
          /\ UNCHANGED ghosts
    /\ UNCHANGED <<svc, Unsimple>>

\* The base has been stopped, or that failed; then the status, whoever is
\* driving by now, and the handles that are its own.
SimpleEnds(n) ==
    LET run == sr[n]
        mine == [svc EXCEPT !.simpleCancel = IF @ = n THEN 0 ELSE @,
                            !.simpleTask = IF run.task /\ @ = n THEN 0 ELSE @]
    IN
    /\ ~Busy
    /\ run.pc = "stopping"
    /\ sr' = [sr EXCEPT ![n] = SimpleOver]
    /\ svc' \in {mine} \cup
         (IF run.kill \/ run.out = "raised" THEN {}
          ELSE {[mine EXCEPT !.simple = [state |-> run.out, to |-> NoTarget]]})
    /\ UNCHANGED <<ghosts, Unsimple>>

-----------------------------------------------------------------------------
(* Helper threads and workers of the navigator.                            *)

\* What a call does to the navigator; the status it reads is kept for later.
HandlerThread(n) ==
    /\ hd[n].job \in {"navigate", "cancel"}
    /\ hd[n].job = "navigate" => CanNavigate(mgr)
    /\ mgr' = IF hd[n].job = "cancel" THEN Cancelled(mgr) ELSE Navigated(mgr, hd[n].to, FALSE)
    /\ hd' = [hd EXCEPT ![n].job = "done"]
    /\ UNCHANGED <<requests, rt, sr, svc, ghosts, quiet>>

RouteThread(n) ==
    /\ rt[n].job \in {"navigate", "cancel", "status"}
    /\ rt[n].job = "navigate" => CanNavigate(mgr)
    /\ mgr' = CASE rt[n].job = "cancel" -> Cancelled(mgr)
                [] rt[n].job = "navigate" -> Navigated(mgr, Route[rt[n].at], rt[n].event)
                [] rt[n].job = "status" -> mgr
    /\ rt' = [rt EXCEPT ![n].job = "done",
                        ![n].seen = IF rt[n].job = "status" THEN Status(mgr) ELSE @]
    /\ UNCHANGED <<requests, hd, sr, svc, ghosts, quiet>>

SimpleThread(n) ==
    /\ sr[n].job = "cancel"
    /\ mgr' = Cancelled(mgr)
    /\ sr' = [sr EXCEPT ![n].job = "done"]
    /\ UNCHANGED <<requests, hd, rt, svc, ghosts, quiet>>

GhostThread ==
    \E gh \in ghosts :
        /\ gh.kind = "navigate" => CanNavigate(mgr)
        /\ mgr' = IF gh.kind = "cancel" THEN Cancelled(mgr) ELSE Navigated(mgr, gh.to, TRUE)
        /\ ghosts' = ghosts \ {gh}
        /\ UNCHANGED <<requests, hd, rt, sr, svc, quiet>>

Worker(g) ==
    /\ \/ mgr.goal[g].pc = "starting" /\ mgr' = Started(mgr, g)
       \/ mgr.goal[g].pc = "active" /\ \E e \in EndsOf(mgr, g) : mgr' = Ended(mgr, g, e)
       \/ mgr.goal[g].pc = "over" /\ mgr' = Exited(mgr, g)
    /\ UNCHANGED <<requests, hd, rt, sr, svc, ghosts, quiet>>

-----------------------------------------------------------------------------
BeginNext(n) ==
    \/ \E to \in Asked : BeginPoint(n, to) \/ BeginPlan(n, to)
    \/ \E r \in Starts : (r.wait => n \in Waiters) /\ BeginRoute(n, r)
    \/ \E to \in Asked, wait \in Waits : BeginGo(n, to, wait)
    \/ BeginCancel(n) \/ BeginSuspend(n) \/ BeginResume(n)

HandlerNext(n) ==
    \/ GotPose(n) \/ CancelRoute(n) \/ RouteGone(n) \/ CancelSimple(n) \/ SimpleGone(n)
    \/ BaseStopped(n) \/ CallNavigator(n) \/ NavigatorCalled(n) \/ StartRoute(n)
    \/ StartSimple(n) \/ RunReturned(n)

RouteNext(n) ==
    \/ RouteBegins(n) \/ Leg(n) \/ LegSent(n) \/ Poll(n) \/ PolledStart(n) \/ Polled(n)
    \/ Verified(n) \/ RouteStopped(n) \/ RouteKilled(n) \/ RouteDies(n)

SimpleNext(n) ==
    \/ SimpleBegins(n) \/ SimpleInstalls(n) \/ SimpleLooks(n) \/ SimpleDrives(n)
    \/ SimpleKilled(n) \/ SimpleEnds(n)

Next ==
    \/ \E n \in Requests :
         \/ BeginNext(n) \/ HandlerNext(n) \/ RouteNext(n) \/ SimpleNext(n)
         \/ HandlerThread(n) \/ RouteThread(n) \/ SimpleThread(n)
    \/ Query
    \/ GhostThread
    \/ \E g \in Goals : Worker(g)

Spec == Init /\ [][Next]_vars

-----------------------------------------------------------------------------
(* Properties                                                              *)

\* Every run not yet told to stop is named by the service's handles, so that the
\* next request can cancel it (one request at a time).
HandlesOwned ==
    \A n \in Requests :
        /\ Live(rt[n]) /\ ~rt[n].event => svc.routeCancel = n /\ (rt[n].task => svc.routeTask = n)
        /\ Live(sr[n]) /\ sr[n].task => svc.simpleTask = n
        /\ Live(sr[n]) /\ sr[n].pc \notin {"created", "wmgr"} => svc.simpleCancel = n

Stopped == (\A n \in Requests : ~Live(hd[n])) /\ (quiet \/ svc.suspended # NoSnapshot)

\* After cancel, stop_plan and suspend nothing goes on: no run, no plan in
\* progress, and no goal of the navigator but one that a ghost started or that
\* was starting when it was told (one request at a time).
StoppedMeansStill ==
    Stopped =>
        /\ \A n \in Requests : ~Live(rt[n]) /\ ~Live(sr[n])
        /\ svc.plan.state # "in_progress"
        /\ \A g \in Loose(mgr) : mgr.goal[g].lost \/ mgr.goal[g].ghost

Reached(to) == \E g \in Goals : mgr.goal[g].to = to /\ mgr.goal[g].end = "succeeded"

\* A route leaves a waypoint behind, or succeeds, only if some goal got there.
LegsAreReached ==
    /\ \A n \in Requests : rt[n].pc = "verify" => Reached(Route[rt[n].at])
    /\ svc.route.state = "succeeded" => Reached(Route[Len(Route)])

\* While a simple run drives, the navigator has no goal of its own but those
\* that escaped its cancel (one request at a time).
OneMover ==
    \A n \in Requests : sr[n].pc \in {"drive", "send"} =>
        \A g \in Loose(mgr) : mgr.goal[g].lost \/ mgr.goal[g].ghost

\* The goal that is suspended was not suspended before the last request that
\* clears it was handled.
SuspendedIsCurrent == ~svc.suspended.old
=============================================================================

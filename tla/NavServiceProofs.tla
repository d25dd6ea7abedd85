-------------------------- MODULE NavServiceProofs --------------------------
(***************************************************************************)
(* Theorems about NavService.                                              *)
(*                                                                         *)
(* Types hold for every choice of the constants.  The invariants are those *)
(* of a careful client (Careful): it makes one request at a time and does  *)
(* not wait for a simple go-to.  The runs of routes and of simple motions, *)
(* the helper threads, their ghosts and the navigator's workers interleave *)
(* freely all the same.                                                    *)
(*                                                                         *)
(* The inductive invariant is Typed /\ Inv.  It follows the handles: a    *)
(* live run is named by them until a handler takes it over (RoutesNamed,   *)
(* SimplesNamed), what a handler may rely on once it is past _cancel_route *)
(* and _cancel_simple_nav (PastRoute, PastSimple), and whether the         *)
(* navigator may have a goal nobody has stopped (Rests, Tame).             *)
(***************************************************************************)
EXTENDS NavService, FiniteSetTheorems, TLAPS
-----------------------------------------------------------------------------
(* The navigator *)

\* The goals that nobody has stopped are those that lost their cancel or that
\* a ghost started; or else the one installed, which a cancel would reach.
LooseTame(m) == \A g \in Loose(m) : m.goal[g].lost \/ m.goal[g].ghost
LooseHeld(m) == \A g \in Loose(m) : m.goal[g].lost \/ m.goal[g].ghost \/ g = m.installed

\* A goal that is over has an end, and the installed one has begun and not gone.
Ending(m) ==
    /\ \A g \in Goals : m.goal[g].pc = "over" => m.goal[g].end \in Ends
    /\ m.installed # 0 => m.goal[m.installed].pc \in {"starting", "active", "over"}

Orderly(m) == m \in Navigators /\ LooseHeld(m) /\ Ending(m)

\* What the assumption says of the bounds.
LEMMA BoundsAreNats == MaxRequests \in Nat /\ MaxGoals \in Nat /\ Concurrent \in Nat /\ Len(Route) \in Nat \ {0}
BY ServiceAssumption

\* A navigator with one goal changed.
LEMMA GoalChanged ==
    ASSUME NEW m \in Navigators, NEW g \in Goals, NEW r \in GoalRecords
    PROVE  LET t == [m EXCEPT !.goal[g] = r]
           IN /\ t \in Navigators /\ t.goal[g] = r /\ \A h \in Goals : h # g => t.goal[h] = m.goal[h]
              /\ t.count = m.count /\ t.installed = m.installed
<1> DEFINE f == [m.goal EXCEPT ![g] = r]
<1>1. f \in [Goals -> GoalRecords] /\ f[g] = r /\ \A h \in Goals : h # g => f[h] = m.goal[h]
  BY DEF Navigators
<1>2. [m EXCEPT !.goal[g] = r] = [m EXCEPT !.goal = f]
  OBVIOUS
<1> HIDE DEF f
<1> QED
  BY <1>1, <1>2 DEF Navigators

\* request_cancel leaves no goal but those that lost it or a ghost started.
LEMMA ToldHolds ==
    ASSUME NEW m, Orderly(m)
    PROVE  /\ Told(m) \in Navigators /\ LooseTame(Told(m)) /\ Ending(Told(m))
           /\ Told(m).count = m.count /\ Told(m).installed = m.installed
<1> USE BoundsAreNats DEF Orderly
<1> DEFINE g == m.installed
<1>0. g \in Goals \/ g = 0
  BY DEF Navigators, Goals
<1>1. CASE g = 0 \/ m.goal[g].pc = "over"
  <2>1. Told(m) = m
    BY <1>1 DEF Told
  <2>2. \A h \in Goals : h # 0
    BY DEF Goals
  <2> QED
    BY <1>1, <2>1, <2>2 DEF LooseTame, LooseHeld, Loose
<1>2. CASE g # 0 /\ m.goal[g].pc # "over"
  <2> DEFINE r == IF m.goal[g].pc = "starting" THEN [m.goal[g] EXCEPT !.lost = TRUE]
                  ELSE [m.goal[g] EXCEPT !.told = TRUE, !.lost = FALSE, !.ghost = FALSE]
             t == [m EXCEPT !.goal[g] = r]
  <2>1. m.goal[g] \in GoalRecords /\ g \in Goals
    BY <1>0, <1>2 DEF Navigators
  <2>2. r \in GoalRecords /\ (r.told \/ r.lost) /\ r.pc = m.goal[g].pc /\ r.end = m.goal[g].end
    BY <2>1 DEF GoalRecords
  <2>3. Told(m) = t
    BY <1>2, <2>1 DEF Told, Navigators, GoalRecords
  <2> HIDE DEF r
  <2>4. /\ t \in Navigators /\ t.goal[g] = r /\ \A h \in Goals : h # g => t.goal[h] = m.goal[h]
        /\ t.count = m.count /\ t.installed = m.installed
    BY <2>1, <2>2, GoalChanged
  <2> HIDE DEF t
  <2>5. LooseTame(t)
    BY <2>1, <2>2, <2>4 DEF LooseTame, LooseHeld, Loose
  <2>6. Ending(t)
    BY <2>1, <2>2, <2>4 DEF Ending
  <2> QED
    BY <2>3, <2>4, <2>5, <2>6
<1> QED
  BY <1>1, <1>2

\* A navigator that nobody has to stop is in particular one a cancel would reach.
LEMMA TameIsHeld == ASSUME NEW m, LooseTame(m) PROVE LooseHeld(m)
BY DEF LooseTame, LooseHeld

\* After cancel nothing drives but what escaped it.
LEMMA CancelledHolds ==
    ASSUME NEW m, Orderly(m)
    PROVE  Orderly(Cancelled(m)) /\ LooseTame(Cancelled(m))
<1> DEFINE t == Told(m)
<1>1. t \in Navigators /\ LooseTame(t) /\ Ending(t)
  BY ToldHolds
<1>2. Cancelled(m) = [t EXCEPT !.last.state = "canceled"]
  BY DEF Cancelled
<1> HIDE DEF t
<1>3. Cancelled(m) \in Navigators /\ Cancelled(m).goal = t.goal /\ Cancelled(m).installed = t.installed
  BY <1>1, <1>2 DEF Navigators, Statuses, Ends
<1>4. LooseTame(Cancelled(m))
  BY <1>1, <1>3 DEF LooseTame, Loose
<1>5. Ending(Cancelled(m))
  BY <1>1, <1>3 DEF Ending
<1> QED
  BY <1>3, <1>4, <1>5, TameIsHeld DEF Orderly

\* A new goal supersedes the one installed; one that a ghost starts changes nothing else.
LEMMA NavigatedHolds ==
    ASSUME NEW m, Orderly(m), CanNavigate(m), NEW to \in Places, NEW ghost \in BOOLEAN
    PROVE  /\ Orderly(Navigated(m, to, ghost))
           /\ ghost => LooseTame(Navigated(m, to, ghost))
<1> USE BoundsAreNats DEF Goals
<1> DEFINE t == Told(m)
           g == m.count + 1
           n == [NoGoal EXCEPT !.to = to, !.pc = "starting", !.ghost = ghost]
           new == Navigated(m, to, ghost)
<1>1. t \in Navigators /\ LooseTame(t) /\ t.count = m.count /\ Ending(t)
  BY ToldHolds
<1>2. g \in Goals /\ g \in 0 .. MaxGoals
  BY DEF Orderly, Navigators, CanNavigate
<1>3. n \in GoalRecords /\ n.ghost = ghost /\ n.lost = FALSE /\ n.pc = "starting"
  BY DEF GoalRecords, NoGoal, Places
<1>4. new = [t EXCEPT !.count = g, !.installed = g, !.goal[g] = n, !.last = [state |-> "active", to |-> to]]
  BY DEF Navigated
<1> HIDE DEF t, g, n, new
<1>5. new \in Navigators
  <2>1. [state |-> "active", to |-> to] \in Statuses
    BY DEF Statuses, Places
  <2> QED
    BY <1>1, <1>2, <1>3, <1>4, <2>1 DEF Navigators
<1>6. new.installed = g /\ new.goal[g] = n /\ \A h \in Goals : h # g => new.goal[h] = t.goal[h]
  BY <1>1, <1>2, <1>4 DEF Navigators
<1>7. LooseHeld(new) /\ (ghost => LooseTame(new))
  BY <1>1, <1>3, <1>6 DEF LooseHeld, LooseTame, Loose
<1>8. Ending(new)
  BY <1>1, <1>2, <1>3, <1>6 DEF Ending
<1> QED
  BY <1>5, <1>7, <1>8 DEF new, Orderly

\* What the worker of a goal does starts no other.
LEMMA WorkerHolds ==
    ASSUME NEW m, Orderly(m), NEW g \in Goals,
           NEW n, n \in {Ended(m, g, e) : e \in EndsOf(m, g)}
                  \/ (m.goal[g].pc = "starting" /\ n = Started(m, g))
                  \/ (m.goal[g].pc = "over" /\ n = Exited(m, g))
    PROVE  Orderly(n) /\ (LooseTame(m) => LooseTame(n))
<1> USE BoundsAreNats
<1> m \in Navigators /\ LooseHeld(m) /\ Ending(m)
  BY DEF Orderly
<1> m.installed = 0 \/ m.installed \in Goals
  BY DEF Navigators, Goals
<1>0. m.goal[g] \in GoalRecords
  BY DEF Navigators
<1>1. CASE m.goal[g].pc = "starting" /\ n = Started(m, g)
  <2> DEFINE r == [m.goal[g] EXCEPT !.pc = "active"]
  <2>1. r \in GoalRecords /\ r.told = m.goal[g].told /\ r.lost = m.goal[g].lost /\ r.ghost = m.goal[g].ghost /\ r.pc = "active"
    BY <1>0 DEF GoalRecords
  <2>2. n = [m EXCEPT !.goal[g] = r]
    BY <1>1 DEF Started
  <2> HIDE DEF r
  <2>3. n \in Navigators /\ n.goal[g] = r /\ (\A h \in Goals : h # g => n.goal[h] = m.goal[h]) /\ n.installed = m.installed
    BY <2>1, <2>2, GoalChanged
  <2>4. Ending(n)
    BY <2>1, <2>3 DEF Ending
  <2>5. LooseHeld(n) /\ (LooseTame(m) => LooseTame(n))
    BY <1>1, <2>1, <2>3 DEF LooseTame, LooseHeld, Loose
  <2> QED
    BY <2>3, <2>4, <2>5 DEF Orderly
<1>2. CASE n \in {Ended(m, g, e) : e \in EndsOf(m, g)}
  <2>1. PICK e \in EndsOf(m, g) : n = Ended(m, g, e)
    BY <1>2
  <2> DEFINE r == [NoGoal EXCEPT !.to = m.goal[g].to, !.pc = "over", !.end = e]
  <2>2. r \in GoalRecords /\ r.pc = "over" /\ r.end \in Ends
    BY <1>0, <2>1 DEF GoalRecords, NoGoal, EndsOf, Ends
  <2>3. n = [m EXCEPT !.goal[g] = r]
    BY <2>1 DEF Ended
  <2> HIDE DEF r
  <2>4. n \in Navigators /\ n.goal[g] = r /\ (\A h \in Goals : h # g => n.goal[h] = m.goal[h]) /\ n.installed = m.installed
    BY <2>2, <2>3, GoalChanged
  <2>5. Ending(n)
    BY <2>2, <2>4 DEF Ending
  <2>6. LooseHeld(n) /\ (LooseTame(m) => LooseTame(n))
    BY <2>2, <2>4 DEF LooseTame, LooseHeld, Loose
  <2> QED
    BY <2>4, <2>5, <2>6 DEF Orderly
<1>3. CASE m.goal[g].pc = "over" /\ n = Exited(m, g)
  <2> DEFINE r == [m.goal[g] EXCEPT !.pc = "gone"]
             t == [m EXCEPT !.goal[g] = r]
             last == [state |-> m.goal[g].end, to |-> m.goal[g].to]
             inst == IF m.installed = g THEN 0 ELSE m.installed
  <2>1. r \in GoalRecords /\ r.pc = "gone"
    BY <1>0 DEF GoalRecords
  <2>2. n = [t EXCEPT !.last = last, !.installed = inst]
    BY <1>3 DEF Exited, Navigators
  <2> HIDE DEF r
  <2>3. t \in Navigators /\ t.goal[g] = r /\ (\A h \in Goals : h # g => t.goal[h] = m.goal[h]) /\ t.installed = m.installed
    BY <2>1, GoalChanged
  <2>6. last \in Statuses /\ inst \in 0 .. MaxGoals
    BY <1>0, <1>3 DEF Ending, Statuses, GoalRecords, Navigators
  <2>8. inst = 0 \/ inst = m.installed
    OBVIOUS
  <2>9. inst # g
    BY DEF Goals
  <2> HIDE DEF last, inst, t
  <2>4. n \in Navigators /\ n.goal = t.goal /\ n.installed = inst
    BY <2>2, <2>3, <2>6 DEF Navigators
  <2>5. LooseHeld(n) /\ (LooseTame(m) => LooseTame(n))
    <3>1. Loose(n) \subseteq Loose(m) \ {g}
      BY <2>1, <2>3, <2>4 DEF Loose
    <3>2. \A h \in Loose(n) : h # g /\ n.goal[h] = m.goal[h] /\ (h = m.installed => h = inst)
      BY <2>3, <2>4, <3>1 DEF inst, Loose
    <3> QED
      BY <3>1, <3>2, <2>4 DEF LooseTame, LooseHeld
  <2>7. Ending(n)
    BY <2>1, <2>3, <2>4, <2>8, <2>9 DEF Ending
  <2> QED
    BY <2>4, <2>5, <2>7 DEF Orderly
<1> QED
  BY <1>1, <1>2, <1>3

-----------------------------------------------------------------------------
(* Types *)

\* A leg is a leg of the route, wherever it is kept.
GoodSnapshot(x) == x \in Snapshots /\ (x.route => x.at # 0)
GoodHandler(h) ==
    /\ h \in Handlers /\ GoodSnapshot(h.snap)
    /\ h.op = "route" => h.at # 0
    /\ h.pc = "wj" => h.op \in {"point", "plan", "suspend", "cancel"}
GoodRoute(r) ==
    /\ r \in RouteRuns
    /\ Live(r) => r.at # 0
    /\ r.job # "none" => Live(r)
GoodSimple(r) == r \in SimpleRuns /\ (r.pc = "stopping" => r.out # "none")
GoodService(s) ==
    s \in Services /\ (s.route.state = "active" => s.route.at # 0) /\ GoodSnapshot(s.suspended)

GoodHandlers == hd \in [Requests -> Handlers] /\ \A n \in Requests : GoodHandler(hd[n])
GoodRoutes == rt \in [Requests -> RouteRuns] /\ \A n \in Requests : GoodRoute(rt[n])
GoodSimples == sr \in [Requests -> SimpleRuns] /\ \A n \in Requests : GoodSimple(sr[n])
GoodRest ==
    /\ requests \in 0 .. MaxRequests
    /\ ghosts \subseteq [by : Requests, kind : {"navigate", "cancel"}, to : Places]
    /\ quiet \in BOOLEAN

Typed ==
    /\ GoodHandlers /\ GoodRoutes /\ GoodSimples /\ GoodService(svc)
    /\ Orderly(mgr) /\ GoodRest

\* nav_status is a status, whatever its supervisor is doing.
LEMMA StatusTyped ==
    ASSUME NEW m, Orderly(m)
    PROVE  Status(m) \in Statuses
<1>1. CASE m.installed = 0
  BY <1>1 DEF Orderly, Status, Navigators
<1>2. CASE m.installed # 0
  <2>1. m.installed \in Goals
    BY <1>2, BoundsAreNats DEF Orderly, Navigators, Goals
  <2>2. m.goal[m.installed] \in GoalRecords
    BY <2>1 DEF Orderly, Navigators
  <2> QED
    BY <1>2, <2>1, <2>2 DEF Orderly, Ending, Status, Statuses, GoalRecords
<1> QED
  BY <1>1, <1>2

\* The plan stays a plan when it is made, stopped or brought up to date.
LEMMA PlansTyped ==
    ASSUME Typed
    PROVE  /\ \A to \in Places : NewPlan(to) \in Plans
           /\ \A plan \in Plans : StoppedPlan(plan) \in Plans /\ Synced(plan) \in Plans
<1>1. Status(mgr).state \in {"idle", "active"} \cup Ends
  BY StatusTyped DEF Typed, Statuses
<1>2. ASSUME NEW to \in Places PROVE NewPlan(to) \in Plans
  BY DEF NewPlan, Plans
<1>3. ASSUME NEW plan \in Plans PROVE StoppedPlan(plan) \in Plans
  BY DEF StoppedPlan, Plans
<1>4. ASSUME NEW plan \in Plans PROVE Synced(plan) \in Plans
  <2> DEFINE state == Status(mgr).state
             with(x) == [plan EXCEPT !.state = x]
  <2>1. \A x \in {"in_progress", "stopped", "succeeded", "failed"} : with(x) \in Plans
    BY DEF Plans
  <2>2. state \in {"idle", "active", "succeeded", "failed", "canceled"}
    BY <1>1 DEF Ends
  <2>3. Synced(plan) = IF plan.state \in {"none", "stopped"} THEN plan
                       ELSE CASE state = "active" -> with("in_progress")
                              [] state = "canceled" -> with("stopped")
                              [] state \in {"succeeded", "failed"} -> with(state)
                              [] state = "idle" -> IF plan.state \in Terminal THEN plan ELSE with("in_progress")
    BY DEF Synced
  <2> HIDE DEF state, with
  <2> QED
    BY <2>1, <2>2, <2>3
<1> QED
  BY <1>2, <1>3, <1>4

\* What suspend remembers can be resumed: a route has a leg.
LEMMA SnapshotTyped ==
    ASSUME Typed
    PROVE  GoodSnapshot(Snapshot)
<1> USE BoundsAreNats
<1> DEFINE status == Status(mgr)
           routing == svc.route.state = "active"
           snap(motion, to) ==
             [motion |-> motion, to |-> to, route |-> routing,
              at |-> IF routing THEN svc.route.at ELSE 0,
              loop |-> routing /\ svc.route.loop, old |-> FALSE]
<1>1. status \in Statuses
  BY StatusTyped DEF Typed
<1>2. svc.route \in RouteStatuses /\ svc.plan \in Plans /\ svc.simple \in Statuses /\ (routing => svc.route.at # 0)
  BY DEF Typed, Services, GoodService
<1>3. ASSUME NEW motion \in {"simple", "builtin"}, NEW to \in Places PROVE GoodSnapshot(snap(motion, to))
  <2> DEFINE at == IF routing THEN svc.route.at ELSE 0
             loop == routing /\ svc.route.loop
  <2>1. at \in 0 .. Len(Route) /\ (routing => at # 0)
    BY <1>2 DEF RouteStatuses
  <2>2. loop \in BOOLEAN /\ routing \in BOOLEAN
    OBVIOUS
  <2>3. snap(motion, to) = [motion |-> motion, to |-> to, route |-> routing, at |-> at,
                            loop |-> loop, old |-> FALSE]
    OBVIOUS
  <2> HIDE DEF at, loop, routing, snap
  <2> QED
    BY <1>3, <2>1, <2>2, <2>3 DEF Snapshots, GoodSnapshot
<1>4. GoodSnapshot(NoSnapshot)
  <2>1. 0 \in 0 .. Len(Route) /\ NoTarget \in Places
    BY DEF Places
  <2> QED
    BY <2>1 DEF NoSnapshot, Snapshots, GoodSnapshot
<1>5. svc.simple.to \in Places /\ status.to \in Places /\ svc.plan.to \in Places
  BY <1>1, <1>2 DEF Statuses, Plans, Places
<1>6. routing => Route[svc.route.at] \in Places
  BY <1>2, ServiceAssumption DEF RouteStatuses, Places
<1>7. Snapshot \in {NoSnapshot, snap("simple", svc.simple.to), snap("builtin", status.to), snap("builtin", svc.plan.to)}
        \cup (IF routing THEN {snap("builtin", Route[svc.route.at])} ELSE {})
  <2>1. CASE svc.simple.state = "active"
    BY <2>1 DEF Snapshot
  <2>2. CASE svc.simple.state # "active" /\ (status.state = "active" \/ routing) /\ status.to # NoTarget
    BY <2>2 DEF Snapshot
  <2>3. CASE svc.simple.state # "active" /\ routing /\ status.to = NoTarget
    BY <2>3 DEF Snapshot
  <2>4. CASE svc.simple.state # "active" /\ status.state # "active" /\ ~routing /\ svc.plan.state = "in_progress"
    BY <2>4 DEF Snapshot
  <2>5. CASE /\ svc.simple.state # "active"
             /\ ~((status.state = "active" \/ routing) /\ status.to # NoTarget)
             /\ ~(routing /\ status.to = NoTarget)
             /\ ~(status.state # "active" /\ ~routing /\ svc.plan.state = "in_progress")
    BY <2>5 DEF Snapshot
  <2> QED
    BY <2>1, <2>2, <2>3, <2>4, <2>5
<1> HIDE DEF status, snap
<1> QED
  BY <1>3, <1>4, <1>5, <1>6, <1>7

\* What a handler, a run and the service may become.
LEMMA ConstantsGood ==
    /\ GoodSnapshot(NoSnapshot)
    /\ GoodHandler(NoHandler) /\ GoodHandler(Returned)
    /\ GoodRoute(NoRoute) /\ GoodRoute(RouteOver)
    /\ GoodSimple(NoSimple) /\ GoodSimple(SimpleOver)
    /\ AtRest.last \in Statuses /\ NoTarget \in Places
    /\ Targets \subseteq Places
<1> USE BoundsAreNats
<1>1. NoTarget \in Places /\ Targets \subseteq Places /\ AtRest.last \in Statuses
  BY DEF Places, AtRest, Statuses
<1>2. GoodSnapshot(NoSnapshot)
  BY <1>1 DEF GoodSnapshot, Snapshots, NoSnapshot
<1>3. GoodHandler(NoHandler) /\ GoodHandler(Returned)
  <2>1. 0 \in 0 .. Len(Route) /\ 0 \in 0 .. MaxRequests /\ NoSnapshot \in Snapshots
    BY <1>2 DEF GoodSnapshot
  <2>2. NoHandler \in Handlers
    BY <1>1, <2>1 DEF NoHandler, Handlers, Jobs
  <2>3. NoHandler.op = "none" /\ NoHandler.pc = "none" /\ NoHandler.snap = NoSnapshot
    BY DEF NoHandler
  <2>4. Returned \in Handlers /\ Returned.op = "none" /\ Returned.pc = "done" /\ Returned.snap = NoSnapshot
    BY <2>2, <2>3 DEF Returned, Handlers
  <2> QED
    BY <1>2, <2>2, <2>3, <2>4 DEF GoodHandler
<1>4. GoodRoute(NoRoute) /\ GoodRoute(RouteOver)
  <2>1. 0 \in 0 .. Len(Route)
    OBVIOUS
  <2>2. NoRoute \in RouteRuns /\ NoRoute.pc = "none" /\ NoRoute.job = "none"
    BY <1>1, <2>1 DEF NoRoute, RouteRuns, Jobs
  <2>3. RouteOver \in RouteRuns /\ RouteOver.pc = "done" /\ RouteOver.job = "none"
    BY <2>2 DEF RouteOver, RouteRuns
  <2> QED
    BY <2>2, <2>3 DEF GoodRoute, Live
<1>5. GoodSimple(NoSimple) /\ GoodSimple(SimpleOver)
  <2>1. NoSimple \in SimpleRuns /\ NoSimple.pc = "none"
    BY <1>1 DEF SimpleRuns, NoSimple, Jobs
  <2>2. SimpleOver \in SimpleRuns /\ SimpleOver.pc = "done"
    BY <2>1 DEF SimpleRuns, SimpleOver
  <2> QED
    BY <2>1, <2>2 DEF GoodSimple
<1> QED
  BY <1>1, <1>2, <1>3, <1>4, <1>5

\* A snapshot that is superseded stays a snapshot.
LEMMA SnapshotAges ==
    ASSUME NEW h, GoodHandler(h)
    PROVE  GoodHandler([h EXCEPT !.snap.old = TRUE])
<1>1. [h.snap EXCEPT !.old = TRUE] \in Snapshots /\ GoodSnapshot([h.snap EXCEPT !.old = TRUE])
  BY DEF GoodHandler, GoodSnapshot, Snapshots
<1> QED
  <2> DEFINE x == [h.snap EXCEPT !.old = TRUE]
  <2>1. [h EXCEPT !.snap.old = TRUE] = [h EXCEPT !.snap = x]
    OBVIOUS
  <2> HIDE DEF x
  <2> QED
    BY <1>1, <2>1 DEF GoodHandler, Handlers, x

\* The changes handlers make to their own record.
LEMMA HandlersChange ==
    ASSUME NEW h, GoodHandler(h),
           NEW pc \in {"none", "pose", "cr", "wr", "cs", "ws", "stop", "body", "wrun", "done"},
           NEW was \in BOOLEAN, NEW on \in 0 .. MaxRequests, NEW job \in Jobs
    PROVE  /\ GoodHandler([h EXCEPT !.pc = pc])
           /\ GoodHandler([h EXCEPT !.job = job])
           /\ GoodHandler([h EXCEPT !.pc = pc, !.job = job])
           /\ GoodHandler([[h EXCEPT !.was = was] EXCEPT !.pc = pc])
           /\ GoodHandler([[h EXCEPT !.was = was] EXCEPT !.pc = pc, !.on = on])
           /\ GoodHandler([h EXCEPT !.was = was, !.on = on, !.pc = pc])
<1>3. GoodHandler([h EXCEPT !.pc = pc]) /\ GoodHandler([h EXCEPT !.job = job])
  BY DEF GoodHandler, Handlers
<1>4. GoodHandler([h EXCEPT !.pc = pc, !.job = job])
  BY DEF GoodHandler, Handlers
<1>5. GoodHandler([[h EXCEPT !.was = was] EXCEPT !.pc = pc])
  BY DEF GoodHandler, Handlers
<1>6. GoodHandler([[h EXCEPT !.was = was] EXCEPT !.pc = pc, !.on = on])
  BY DEF GoodHandler, Handlers
<1>7. GoodHandler([h EXCEPT !.was = was, !.on = on, !.pc = pc])
  BY DEF GoodHandler, Handlers
<1> QED
  BY <1>3, <1>4, <1>5, <1>6, <1>7

\* The changes a route run makes to its own record.
LEMMA RoutesChange ==
    ASSUME NEW r, GoodRoute(r),
           NEW pc \in {"leg", "wnav", "start", "poll", "verify", "stopmgr", "killed"}, Live(r),
           NEW job \in Jobs, NEW seen \in Statuses, NEW at \in 1 .. Len(Route), NEW kill \in BOOLEAN
    PROVE  /\ GoodRoute([r EXCEPT !.pc = pc])
           /\ GoodRoute([r EXCEPT !.pc = pc, !.job = job])
           /\ GoodRoute([r EXCEPT !.pc = pc, !.at = at])
           /\ GoodRoute([r EXCEPT !.job = job, !.seen = seen])
           /\ GoodRoute([r EXCEPT !.job = job])
           /\ GoodRoute(Answered(r, pc)) /\ Live(Answered(r, pc))
           /\ GoodRoute(Asking(r))
           /\ GoodRoute([Answered(r, pc) EXCEPT !.job = job, !.kill = FALSE])
<1> USE ConstantsGood, BoundsAreNats
<1>1. GoodRoute([r EXCEPT !.pc = pc]) /\ GoodRoute([r EXCEPT !.pc = pc, !.job = job])
  BY DEF GoodRoute, RouteRuns, Live
<1>2. GoodRoute([r EXCEPT !.pc = pc, !.at = at])
  <2>1. at \in 0 .. Len(Route) /\ at # 0
    OBVIOUS
  <2> QED
    BY <2>1 DEF GoodRoute, RouteRuns, Live
<1>3. GoodRoute([r EXCEPT !.job = job, !.seen = seen]) /\ GoodRoute([r EXCEPT !.job = job])
  BY DEF GoodRoute, RouteRuns, Live
<1>4. GoodRoute(Answered(r, pc)) /\ Live(Answered(r, pc))
  BY DEF GoodRoute, RouteRuns, Live, Answered, Jobs
<1>5. GoodRoute(Asking(r))
  BY DEF GoodRoute, RouteRuns, Live, Asking, Jobs
<1>6. GoodRoute([Answered(r, pc) EXCEPT !.job = job, !.kill = FALSE])
  BY <1>4 DEF GoodRoute, RouteRuns, Live
<1> QED
  BY <1>1, <1>2, <1>3, <1>4, <1>5, <1>6

\* A route run that is told to stop.
LEMMA RoutesTold ==
    ASSUME NEW r, GoodRoute(r)
    PROVE  /\ GoodRoute([r EXCEPT !.event = TRUE])
           /\ GoodRoute(Kill(r)) /\ GoodRoute(Kill([r EXCEPT !.event = TRUE]))
BY DEF GoodRoute, RouteRuns, Live, Kill

\* The changes made to the attributes of the service.
LEMMA ServiceChanges ==
    ASSUME NEW s, GoodService(s), NEW n \in 0 .. MaxRequests, NEW k \in 0 .. MaxRequests,
           NEW at \in 1 .. Len(Route), NEW loop \in BOOLEAN,
           NEW ended \in {"idle", "canceled", "failed", "succeeded"},
           NEW plan \in Plans, NEW snap, GoodSnapshot(snap), NEW status \in Statuses
    PROVE  /\ GoodService([s EXCEPT !.routeTask = n, !.routeCancel = k])
           /\ GoodService([s EXCEPT !.routeCancel = n, !.routeTask = k])
           /\ GoodService([s EXCEPT !.simpleTask = n, !.simpleCancel = k])
           /\ GoodService([s EXCEPT !.simpleCancel = n, !.simpleTask = k])
           /\ GoodService([s EXCEPT !.simpleTask = n])
           /\ GoodService([s EXCEPT !.simple = status])
           /\ GoodService([s EXCEPT !.simpleCancel = n, !.simple = status])
           /\ GoodService([s EXCEPT !.route = Inactive(ended)])
           /\ GoodService([s EXCEPT !.route = [state |-> "active", at |-> at, loop |-> loop]])
           /\ GoodService([s EXCEPT !.plan = plan])
           /\ GoodService([s EXCEPT !.plan = plan, !.suspended = snap])
           /\ GoodService([s EXCEPT !.suspended = snap])
<1> USE BoundsAreNats
<1>1. Inactive(ended) \in RouteStatuses /\ Inactive(ended).state # "active"
  BY DEF Inactive, RouteStatuses, Ends
<1>2. [state |-> "active", at |-> at, loop |-> loop] \in RouteStatuses
  BY DEF RouteStatuses
<1>3. GoodService([s EXCEPT !.routeTask = n, !.routeCancel = k])
  BY DEF GoodService, Services
<1>4. GoodService([s EXCEPT !.routeCancel = n, !.routeTask = k])
  BY DEF GoodService, Services
<1>5. GoodService([s EXCEPT !.simpleTask = n, !.simpleCancel = k])
  BY DEF GoodService, Services
<1>6. GoodService([s EXCEPT !.simpleCancel = n, !.simpleTask = k])
  BY DEF GoodService, Services
<1>7. GoodService([s EXCEPT !.simpleTask = n])
  BY DEF GoodService, Services
<1>8. GoodService([s EXCEPT !.simple = status])
  BY DEF GoodService, Services
<1>9. GoodService([s EXCEPT !.simpleCancel = n, !.simple = status])
  BY DEF GoodService, Services
<1>10. GoodService([s EXCEPT !.route = Inactive(ended)])
  BY <1>1 DEF GoodService, Services
<1>11. GoodService([s EXCEPT !.route = [state |-> "active", at |-> at, loop |-> loop]])
  BY SMTT(20), <1>2 DEF GoodService, Services
<1>12. GoodService([s EXCEPT !.plan = plan])
  BY DEF GoodService, Services
<1>13. GoodService([s EXCEPT !.plan = plan, !.suspended = snap])
  BY DEF GoodService, Services, GoodSnapshot
<1>14. GoodService([s EXCEPT !.suspended = snap])
  BY DEF GoodService, Services, GoodSnapshot
<1> QED
  BY <1>3, <1>4, <1>5, <1>6, <1>7, <1>8, <1>9, <1>10, <1>11, <1>12, <1>13, <1>14

\* One handler, or one run, is replaced.
LEMMA HandlerPut ==
    ASSUME GoodHandlers, NEW n \in Requests, NEW h, GoodHandler(h), hd' = [hd EXCEPT ![n] = h]
    PROVE  GoodHandlers'
BY DEF GoodHandlers, GoodHandler

\* One route run is replaced.
LEMMA RoutePut ==
    ASSUME GoodRoutes, NEW n \in Requests, NEW r, GoodRoute(r), rt' = [rt EXCEPT ![n] = r]
    PROVE  GoodRoutes'
BY DEF GoodRoutes, GoodRoute

\* One simple run is replaced.
LEMMA SimplePut ==
    ASSUME GoodSimples, NEW n \in Requests, NEW r, GoodSimple(r), sr' = [sr EXCEPT ![n] = r]
    PROVE  GoodSimples'
BY DEF GoodSimples, GoodSimple

\* What Typed says of one request.
LEMMA PcsTyped ==
    ASSUME NEW n \in Requests, Typed
    PROVE  /\ GoodHandler(hd[n]) /\ hd[n] \in Handlers /\ GoodSnapshot(hd[n].snap)
           /\ GoodRoute(rt[n]) /\ rt[n] \in RouteRuns
           /\ GoodSimple(sr[n]) /\ sr[n] \in SimpleRuns
           /\ svc \in Services /\ GoodSnapshot(svc.suspended)
           /\ requests \in 0 .. MaxRequests /\ 0 \in 0 .. MaxRequests /\ n \in 0 .. MaxRequests
BY BoundsAreNats DEF Typed, GoodHandlers, GoodRoutes, GoodSimples, GoodHandler, GoodRoute, GoodSimple, GoodService, GoodRest, Requests

\* A request begins.
LEMMA BeginTyped ==
    ASSUME Typed, NEW n \in Requests, NEW h, GoodHandler(h), NEW s, GoodService(s), Begin(n, h, s),
           quiet' \in BOOLEAN
    PROVE  Typed'
<1>1. GoodHandlers'
  <2>1. \A i \in Requests : GoodHandler(hd'[i])
    <3> TAKE i \in Requests
    <3>1. GoodHandler(hd[i]) /\ hd[i] \in Handlers
      BY PcsTyped
    <3>2. GoodHandler([hd[i] EXCEPT !.snap.old = TRUE])
      BY <3>1, SnapshotAges
    <3> QED
      BY <3>1, <3>2 DEF Begin
  <2>2. hd' = [i \in Requests |-> hd'[i]]
    BY DEF Begin
  <2> QED
    BY <2>1, <2>2 DEF GoodHandlers, GoodHandler
<1>2. GoodRest'
  BY BoundsAreNats DEF Typed, GoodRest, Begin, Requests
<1>3. GoodService(svc)' /\ GoodRoutes' /\ GoodSimples' /\ Orderly(mgr)'
  BY DEF Begin, Typed, GoodRoutes, GoodSimples
<1> QED
  BY <1>1, <1>2, <1>3 DEF Typed

\* Each kind of request.
LEMMA BeginNextTyped ==
    ASSUME Typed, NEW n \in Requests, BeginNext(n)
    PROVE  Typed'
<1> USE BoundsAreNats
<1>0. /\ GoodService(svc) /\ GoodService(Unsuspended) /\ Asked \subseteq Places
      /\ GoodSnapshot(svc.suspended) /\ quiet \in BOOLEAN
  <2>1. GoodService([svc EXCEPT !.suspended = NoSnapshot])
    BY ConstantsGood DEF Typed, GoodService, Services, GoodSnapshot
  <2> QED
    BY <2>1, ServiceAssumption DEF Unsuspended, Places, Typed, GoodService, GoodRest
<1>1. ASSUME NEW to \in Places, NEW op \in {"point", "plan", "go"}, NEW pc \in {"cr", "cs"}, NEW wait \in BOOLEAN
      PROVE  /\ GoodHandler([NoHandler EXCEPT !.op = op, !.to = to, !.pc = pc])
             /\ GoodHandler([NoHandler EXCEPT !.op = op, !.to = to, !.wait = wait, !.pc = pc])
  BY <1>1, ConstantsGood DEF GoodHandler, Handlers
<1>2. ASSUME NEW at \in 1 .. Len(Route), NEW loop \in BOOLEAN, NEW wait \in BOOLEAN, NEW pc \in {"pose", "cr"}
      PROVE  /\ GoodHandler([NoHandler EXCEPT !.op = "route", !.at = at, !.loop = loop, !.wait = wait, !.pc = pc])
             /\ GoodHandler([NoHandler EXCEPT !.op = "route", !.at = at, !.loop = loop, !.pc = pc])
  <2>1. at \in 0 .. Len(Route) /\ at # 0
    BY <1>2
  <2> QED
    BY <1>2, <2>1, ConstantsGood DEF GoodHandler, Handlers
<1>3. ASSUME NEW to \in Places PROVE GoodService([Unsuspended EXCEPT !.plan = NewPlan(to)])
  BY <1>0, <1>3, PlansTyped DEF GoodService, Services
<1>4. ASSUME NEW to \in Asked, BeginPoint(n, to) PROVE Typed'
  BY <1>0, <1>1, <1>4, BeginTyped DEF BeginPoint
<1>5. ASSUME NEW to \in Asked, BeginPlan(n, to) PROVE Typed'
  BY <1>0, <1>1, <1>3, <1>5, BeginTyped DEF BeginPlan
<1>6. ASSUME NEW r \in Starts, BeginRoute(n, r) PROVE Typed'
  <2>1. r.at \in 1 .. Len(Route) /\ r.loop \in BOOLEAN /\ r.wait \in BOOLEAN /\ r.nearest \in BOOLEAN
    BY <1>6, ServiceAssumption
  <2> DEFINE pc == IF r.nearest THEN "pose" ELSE "cr"
             h == [NoHandler EXCEPT !.op = "route", !.at = r.at, !.loop = r.loop, !.wait = r.wait, !.pc = pc]
             s == IF r.nearest THEN svc ELSE Unsuspended
  <2>2. GoodHandler(h) /\ GoodService(s)
    BY <1>0, <1>2, <2>1
  <2>3. Begin(n, h, s) /\ quiet' = FALSE
    BY <1>6 DEF BeginRoute
  <2> QED
    BY <2>2, <2>3, BeginTyped
<1>7. ASSUME NEW to \in Asked, NEW wait \in Waits, BeginGo(n, to, wait) PROVE Typed'
  <2>1. wait \in BOOLEAN
    BY ServiceAssumption
  <2> QED
    BY <1>0, <1>1, <1>7, <2>1, BeginTyped DEF BeginGo
<1>8. CASE BeginCancel(n)
  <2>1. GoodHandler([NoHandler EXCEPT !.op = "cancel", !.pc = "cr"])
    BY ConstantsGood DEF GoodHandler, Handlers
  <2> QED
    BY <1>0, <1>8, <2>1, BeginTyped DEF BeginCancel
<1>9. CASE BeginSuspend(n)
  <2>1. GoodSnapshot(Snapshot)
    BY SnapshotTyped
  <2>2. GoodHandler([NoHandler EXCEPT !.op = "suspend", !.snap = Snapshot, !.pc = "cr"])
    BY <2>1, ConstantsGood DEF GoodHandler, Handlers, GoodSnapshot
  <2> QED
    BY <1>0, <1>9, <2>2, BeginTyped DEF BeginSuspend
<1>10. CASE BeginResume(n)
  <2> DEFINE s == svc.suspended
             hr == [NoHandler EXCEPT !.op = "route", !.at = s.at, !.loop = s.loop, !.pc = "cr"]
             hg == [NoHandler EXCEPT !.op = "go", !.to = s.to, !.pc = "cs"]
             hp == [NoHandler EXCEPT !.op = "plan", !.to = s.to, !.pc = "cs"]
             h == CASE s.route -> hr
                    [] ~s.route /\ s.motion = "simple" -> hg
                    [] OTHER -> hp
             t == IF ~s.route /\ s.motion = "builtin"
                  THEN [Unsuspended EXCEPT !.plan = NewPlan(s.to)] ELSE Unsuspended
  <2>1. s.to \in Places /\ s.loop \in BOOLEAN /\ s.at \in 0 .. Len(Route) /\ s.route \in BOOLEAN /\ (s.route => s.at # 0)
    BY <1>0 DEF GoodSnapshot, Snapshots
  <2>2. s.route => GoodHandler(hr)
    <3> SUFFICES ASSUME s.route PROVE s.at \in 1 .. Len(Route)
      BY <1>2, <2>1
    <3> QED
      BY <2>1
  <2>3. GoodHandler(hg) /\ GoodHandler(hp) /\ GoodService(t)
    BY <1>0, <1>1, <1>3, <2>1
  <2>4. Begin(n, h, t) /\ quiet' = FALSE
    BY <1>10 DEF BeginResume
  <2> HIDE DEF hr, hg, hp, t
  <2>5. GoodHandler(h)
    BY <2>2, <2>3
  <2> HIDE DEF h
  <2> QED
    BY <2>3, <2>4, <2>5, BeginTyped
<1> QED
  BY <1>4, <1>5, <1>6, <1>7, <1>8, <1>9, <1>10 DEF BeginNext

\* The end of _cancel_route.
LEMMA RouteClearedTyped ==
    ASSUME NEW s, GoodService(s), NEW h \in Handlers
    PROVE  GoodService(RouteCleared(s, h))
<1> USE BoundsAreNats
<1> DEFINE t == [s EXCEPT !.routeTask = 0, !.routeCancel = 0]
           ended == IF h.op = "suspend" THEN "idle" ELSE "canceled"
<1>1. GoodService(t)
  <2>1. 0 \in 0 .. MaxRequests
    OBVIOUS
  <2> QED
    BY <2>1 DEF GoodService, Services
<1>2. RouteCleared(s, h) = IF h.was THEN [t EXCEPT !.route = Inactive(ended)] ELSE t
  BY DEF RouteCleared, GoodService, Services
<1>3. Inactive(ended) \in RouteStatuses /\ Inactive(ended).state # "active"
  BY DEF Inactive, RouteStatuses, Ends
<1> HIDE DEF t
<1>4. GoodService([t EXCEPT !.route = Inactive(ended)])
  BY <1>1, <1>3 DEF GoodService, Services
<1> QED
  BY <1>1, <1>2, <1>4

\* The end of _cancel_simple_nav.
LEMMA SimpleClearedTyped ==
    ASSUME NEW s, GoodService(s)
    PROVE  GoodService(SimpleCleared(s))
<1>1. 0 \in 0 .. MaxRequests
  BY BoundsAreNats
<1> QED
  BY <1>1 DEF GoodService, Services, SimpleCleared

\* _cancel_route, up to its wait.
LEMMA CancelRouteTyped ==
    ASSUME Typed, NEW n \in Requests, CancelRoute(n)
    PROVE  Typed'
<1> USE BoundsAreNats
<1> DEFINE was == svc.route.state = "active"
           h == [hd[n] EXCEPT !.was = was]
           r == svc.routeTask
<1>0. GoodHandler(hd[n]) /\ hd[n] \in Handlers /\ r \in 0 .. MaxRequests /\ GoodService(svc)
  BY PcsTyped DEF Typed, Services
<1>1. GoodRoutes'
  <2>1. \A i \in Requests : GoodRoute(rt'[i])
    <3> TAKE i \in Requests
    <3>1. GoodRoute(rt[i]) /\ GoodRoute([rt[i] EXCEPT !.event = TRUE]) /\ GoodRoute(Kill(rt[i]))
             /\ GoodRoute(Kill([rt[i] EXCEPT !.event = TRUE]))
      BY PcsTyped, RoutesTold
    <3> QED
      BY <3>1 DEF CancelRoute
  <2>2. rt' = [i \in Requests |-> rt'[i]]
    BY DEF CancelRoute
  <2> QED
    BY <2>1, <2>2 DEF GoodRoutes, GoodRoute
<1>2. was \in BOOLEAN
  OBVIOUS
<1> HIDE DEF was
<1>3. GoodHandler(h) /\ h \in Handlers /\ GoodHandler([h EXCEPT !.pc = "cs"])
       /\ GoodHandler([h EXCEPT !.pc = "wr", !.on = r])
  BY ZenonT(40), <1>0, <1>2 DEF GoodHandler, Handlers
<1>4. GoodService(RouteCleared(svc, h))
  BY <1>0, <1>3, RouteClearedTyped
<1>5. \/ hd' = [hd EXCEPT ![n] = [h EXCEPT !.pc = "wr", !.on = r]] /\ svc' = svc
      \/ hd' = [hd EXCEPT ![n] = [h EXCEPT !.pc = "cs"]] /\ svc' = RouteCleared(svc, h)
  BY DEF CancelRoute, was
<1> HIDE DEF h
<1>6. GoodHandlers' /\ GoodService(svc)'
  BY <1>0, <1>3, <1>4, <1>5, HandlerPut DEF Typed
<1> QED
  BY <1>1, <1>6 DEF Typed, CancelRoute, GoodSimples, GoodRest

\* _cancel_simple_nav, up to its wait.
LEMMA CancelSimpleTyped ==
    ASSUME Typed, NEW n \in Requests, CancelSimple(n)
    PROVE  Typed'
<1> USE BoundsAreNats
<1> DEFINE was == svc.simple.state = "active"
           r == svc.simpleTask
           pc == IF r # 0 /\ Live(sr[r]) THEN "ws" ELSE IF was THEN "stop" ELSE "body"
           h == [hd[n] EXCEPT !.was = was, !.on = r, !.pc = pc]
<1>0. GoodHandler(hd[n]) /\ hd[n] \in Handlers /\ r \in 0 .. MaxRequests /\ GoodService(svc)
  BY PcsTyped DEF Typed, Services
<1>1. GoodSimples'
  <2>1. \A i \in Requests : GoodSimple(sr'[i])
    <3> TAKE i \in Requests
    <3>1. GoodSimple(sr[i]) /\ GoodSimple([sr[i] EXCEPT !.event = TRUE]) /\ GoodSimple(Kill(sr[i]))
             /\ GoodSimple(Kill([sr[i] EXCEPT !.event = TRUE]))
      BY PcsTyped DEF GoodSimple, SimpleRuns, Kill
    <3> QED
      BY <3>1 DEF CancelSimple
  <2>2. sr' = [i \in Requests |-> sr'[i]]
    BY DEF CancelSimple
  <2> QED
    BY <2>1, <2>2 DEF GoodSimples, GoodSimple
<1>2. was \in BOOLEAN /\ pc \in {"ws", "stop", "body"}
  OBVIOUS
<1>3. hd' = [hd EXCEPT ![n] = h] /\ svc' \in {svc, SimpleCleared(svc)}
  BY DEF CancelSimple
<1> HIDE DEF was, pc
<1>4. GoodHandler(h)
  BY ZenonT(40), <1>0, <1>2 DEF GoodHandler, Handlers
<1> HIDE DEF h
<1>5. GoodHandlers' /\ GoodService(svc)'
  BY <1>0, <1>3, <1>4, HandlerPut, SimpleClearedTyped DEF Typed
<1> QED
  BY <1>1, <1>5 DEF Typed, CancelSimple, GoodRoutes, GoodRest

\* Every step of a handler.
LEMMA HandlerNextTyped ==
    ASSUME Typed, NEW n \in Requests, HandlerNext(n)
    PROVE  Typed'
<1> USE BoundsAreNats, ConstantsGood
<1> USE DEF Typed
<1>0. /\ GoodHandler(hd[n]) /\ hd[n] \in Handlers /\ GoodSnapshot(hd[n].snap) /\ GoodHandlers
      /\ GoodService(svc) /\ svc \in Services /\ svc.plan \in Plans /\ n \in 0 .. MaxRequests
  BY PcsTyped DEF Services
<1>1. \A pc \in {"cs", "cr", "body", "stop"} : GoodHandler([hd[n] EXCEPT !.pc = pc])
  BY <1>0, HandlersChange DEF Jobs
<1>2. CASE GotPose(n)
  <2>1. GoodService(Unsuspended)
    BY <1>0 DEF Unsuspended, GoodService, Services, GoodSnapshot
  <2>2. GoodHandlers' /\ GoodService(svc)'
    BY <1>0, <1>1, <1>2, <2>1, HandlerPut DEF GotPose
  <2> QED
    BY <1>2, <2>2 DEF GotPose, Unhandled, GoodRoutes, GoodSimples, GoodRest
<1>3. CASE CancelRoute(n)
  BY <1>3, CancelRouteTyped
<1>4. CASE RouteGone(n)
  <2>1. GoodHandlers' /\ GoodService(svc)'
    BY <1>0, <1>1, <1>4, HandlerPut, RouteClearedTyped DEF RouteGone
  <2> QED
    BY <1>4, <2>1 DEF RouteGone, Unhandled, GoodRoutes, GoodSimples, GoodRest
<1>5. CASE CancelSimple(n)
  BY <1>5, CancelSimpleTyped
<1>6. CASE SimpleGone(n)
  <2>1. GoodHandlers' /\ GoodService(svc)'
    BY <1>0, <1>1, <1>6, HandlerPut, SimpleClearedTyped DEF SimpleGone
  <2> QED
    BY <1>6, <2>1 DEF SimpleGone, Unhandled, GoodRoutes, GoodSimples, GoodRest
<1>7. CASE BaseStopped(n)
  <2>1. [state |-> "canceled", to |-> NoTarget] \in Statuses
    BY DEF Statuses, Ends
  <2>2. GoodService([svc EXCEPT !.simple = [state |-> "canceled", to |-> NoTarget]])
    BY <1>0, <2>1 DEF GoodService, Services
  <2>3. GoodHandlers' /\ GoodService(svc)'
    BY <1>0, <1>1, <1>7, <2>2, HandlerPut DEF BaseStopped
  <2> QED
    BY <1>7, <2>3 DEF BaseStopped, Unhandled, GoodRoutes, GoodSimples, GoodRest
<1>8. CASE CallNavigator(n)
  <2> DEFINE job == IF hd[n].op \in {"point", "plan"} THEN "navigate" ELSE "cancel"
  <2>1. job \in Jobs
    BY DEF Jobs
  <2>2. hd' = [hd EXCEPT ![n] = [hd[n] EXCEPT !.pc = "wj", !.job = job]]
    BY <1>8 DEF CallNavigator
  <2> HIDE DEF job
  <2>3. GoodHandler([hd[n] EXCEPT !.pc = "wj", !.job = job])
    BY <1>0, <1>8, <2>1 DEF GoodHandler, Handlers, CallNavigator
  <2>4. GoodHandlers'
    BY <1>0, <2>2, <2>3, HandlerPut
  <2> QED
    BY <1>8, <2>4 DEF CallNavigator, Unhandled, GoodRoutes, GoodSimples, GoodRest
<1>9. CASE NavigatorCalled(n)
  <2> DEFINE op == hd[n].op
  <2>1. GoodHandlers'
    BY <1>0, <1>9, HandlerPut DEF NavigatorCalled
  <2>2. \A plan \in Plans : /\ GoodService([svc EXCEPT !.plan = plan])
                            /\ GoodService([svc EXCEPT !.plan = plan, !.suspended = hd[n].snap])
    BY <1>0 DEF GoodService, Services, GoodSnapshot
  <2>3. Synced(svc.plan) \in Plans /\ StoppedPlan(svc.plan) \in Plans
    BY <1>0, PlansTyped
  <2>4. hd[n].op \in {"none", "point", "plan", "route", "go", "suspend", "cancel"}
    BY <1>0 DEF Handlers
  <2>5. hd[n].op \in {"point", "plan", "cancel", "suspend"} => GoodService(svc)'
    BY <1>0, <1>9, <2>2, <2>3 DEF NavigatorCalled
  <2>6. quiet' \in BOOLEAN /\ op \in {"point", "plan", "cancel", "suspend"}
    BY <1>0, <1>9 DEF NavigatorCalled, GoodHandler
  <2> QED
    BY <1>9, <2>1, <2>5, <2>6 DEF NavigatorCalled, GoodRoutes, GoodSimples, GoodRest
<1>10. CASE StartRoute(n)
  <2> DEFINE h == hd[n]
  <2>1. h.at \in 0 .. Len(Route) /\ h.at # 0 /\ h.loop \in BOOLEAN /\ h.wait \in BOOLEAN
    BY <1>0, <1>10 DEF StartRoute, GoodHandler, Handlers
  <2>2. GoodHandlers'
    <3>1. GoodHandler([Returned EXCEPT !.pc = "wrun"])
      BY DEF GoodHandler, Handlers
    <3> QED
      BY <1>0, <1>10, <3>1, HandlerPut DEF StartRoute
  <2>3. GoodRoutes'
    <3> DEFINE pc == IF h.wait THEN "leg" ELSE "created"
               task == ~h.wait
               r == [NoRoute EXCEPT !.pc = pc, !.at = h.at, !.loop = h.loop, !.task = task]
    <3>1. pc \in {"leg", "created"} /\ task \in BOOLEAN
      OBVIOUS
    <3>2. rt' = [rt EXCEPT ![n] = r]
      BY <1>10 DEF StartRoute
    <3> HIDE DEF pc, task
    <3>3. GoodRoute(r)
      BY <2>1, <3>1 DEF GoodRoute, RouteRuns, Live
    <3> QED
      BY <3>2, <3>3, RoutePut
  <2>4. GoodService(svc)'
    <3> DEFINE x == [state |-> "active", at |-> h.at, loop |-> h.loop]
               k == IF h.wait THEN svc.routeTask ELSE n
    <3>1. x \in RouteStatuses /\ x.at # 0
      BY <2>1 DEF RouteStatuses
    <3>2. k \in 0 .. MaxRequests
      BY <1>0 DEF Services
    <3>3. svc' = [svc EXCEPT !.routeCancel = n, !.routeTask = k, !.route = x]
      BY <1>10 DEF StartRoute
    <3> HIDE DEF x, k
    <3> QED
      BY <1>0, <3>1, <3>2, <3>3 DEF GoodService, Services
  <2> QED
    BY <1>10, <2>2, <2>3, <2>4 DEF StartRoute, GoodSimples, GoodRest
<1>11. CASE StartSimple(n)
  <2> DEFINE h == hd[n]
  <2>1. h.to \in Places /\ h.wait \in BOOLEAN
    BY <1>0 DEF Handlers
  <2>2. GoodHandlers'
    <3>1. GoodHandler([Returned EXCEPT !.pc = "wrun"])
      BY DEF GoodHandler, Handlers
    <3> QED
      BY <1>0, <1>11, <3>1, HandlerPut DEF StartSimple
  <2>3. GoodSimples'
    <3> DEFINE pc == IF h.wait THEN "wmgr" ELSE "created"
               task == ~h.wait
               job == IF h.wait THEN "cancel" ELSE "none"
               r == [NoSimple EXCEPT !.pc = pc, !.to = h.to, !.task = task, !.job = job]
    <3>1. pc \in {"wmgr", "created"} /\ task \in BOOLEAN /\ job \in Jobs
      BY DEF Jobs
    <3>2. sr' = [sr EXCEPT ![n] = r]
      BY <1>11 DEF StartSimple
    <3> HIDE DEF pc, task, job
    <3>3. GoodSimple(r)
      BY <2>1, <3>1 DEF SimpleRuns, GoodSimple
    <3> QED
      BY <3>2, <3>3, SimplePut
  <2>4. GoodService(svc)'
    <3> DEFINE k == IF h.wait THEN svc.simpleTask ELSE n
    <3>1. k \in 0 .. MaxRequests
      BY <1>0 DEF Services
    <3>2. svc' = [svc EXCEPT !.simpleTask = k]
      BY <1>11 DEF StartSimple
    <3> HIDE DEF k
    <3> QED
      BY <1>0, <3>1, <3>2 DEF GoodService, Services
  <2> QED
    BY <1>11, <2>2, <2>3, <2>4 DEF StartSimple, GoodRoutes, GoodRest
<1>12. CASE RunReturned(n)
  <2>1. GoodHandlers'
    BY <1>0, <1>12, HandlerPut DEF RunReturned
  <2> QED
    BY <1>12, <2>1 DEF RunReturned, Unhandled, GoodRoutes, GoodSimples, GoodRest
<1> QED
  BY <1>2, <1>3, <1>4, <1>5, <1>6, <1>7, <1>8, <1>9, <1>10, <1>11, <1>12 DEF HandlerNext

\* A route run leaves.
LEMMA LeaveTyped ==
    ASSUME Typed, NEW n \in Requests, NEW s, GoodService(s), Leave(n, s)
    PROVE  GoodRoutes' /\ GoodService(svc)'
<1> USE BoundsAreNats
<1> DEFINE c == IF s.routeCancel = n THEN 0 ELSE s.routeCancel
           k == IF rt[n].task /\ s.routeTask = n THEN 0 ELSE s.routeTask
<1>1. c \in 0 .. MaxRequests /\ k \in 0 .. MaxRequests
  BY DEF GoodService, Services
<1>2. svc' = [s EXCEPT !.routeCancel = c, !.routeTask = k] /\ rt' = [rt EXCEPT ![n] = RouteOver]
  BY DEF Leave
<1> HIDE DEF c, k
<1>3. GoodService(svc)'
  BY <1>1, <1>2 DEF GoodService, Services
<1> QED
  BY <1>2, <1>3, RoutePut, ConstantsGood DEF Typed

\* Every step of a route run.
LEMMA RouteNextTyped ==
    ASSUME Typed, NEW n \in Requests, RouteNext(n)
    PROVE  Typed'
<1> USE BoundsAreNats, ConstantsGood
<1> USE DEF Typed
<1>0. /\ GoodRoute(rt[n]) /\ rt[n] \in RouteRuns /\ GoodRoutes
      /\ GoodService(svc) /\ svc \in Services
      /\ GoodHandlers /\ GoodSimples /\ Orderly(mgr) /\ GoodRest
  BY PcsTyped
<1>1. \A e \in {"canceled", "failed", "succeeded"} : GoodService([svc EXCEPT !.route = Inactive(e)])
  <2> TAKE e \in {"canceled", "failed", "succeeded"}
  <2>1. Inactive(e) \in RouteStatuses /\ Inactive(e).state # "active"
    BY DEF Inactive, RouteStatuses, Ends
  <2> QED
    BY <1>0, <2>1 DEF GoodService, Services
<1>2. ASSUME NEW pc \in {"leg", "start", "poll", "verify", "killed"}, Live(rt[n])
      PROVE  /\ GoodRoute([rt[n] EXCEPT !.pc = pc])
             /\ GoodRoute([rt[n] EXCEPT !.pc = pc, !.job = "cancel"])
             /\ GoodRoute(Answered(rt[n], pc)) /\ Live(Answered(rt[n], pc))
             /\ GoodRoute(Asking(rt[n]))
             /\ GoodRoute(Asking(Answered(rt[n], pc)))
             /\ GoodRoute([Answered(rt[n], pc) EXCEPT !.job = "cancel", !.kill = FALSE])
  <2>1. Len(Route) \in 1 .. Len(Route)
    OBVIOUS
  <2>2. "cancel" \in Jobs
    BY DEF Jobs
  <2>3. GoodRoute(Answered(rt[n], pc)) /\ Live(Answered(rt[n], pc)) /\ GoodRoute(Asking(rt[n]))
          /\ GoodRoute([rt[n] EXCEPT !.pc = pc]) /\ GoodRoute([rt[n] EXCEPT !.pc = pc, !.job = "cancel"])
          /\ GoodRoute([Answered(rt[n], pc) EXCEPT !.job = "cancel", !.kill = FALSE])
    BY <1>0, <1>2, <2>1, <2>2, RoutesChange
  <2>4. GoodRoute(Asking(Answered(rt[n], pc)))
    BY <2>1, <2>2, <2>3, RoutesChange
  <2> QED
    BY <2>3, <2>4
<1> HIDE DEF Typed
<1>3. ASSUME GoodRoutes', GoodService(svc)', GoodRest', UNCHANGED <<hd, sr, mgr>>
      PROVE  Typed'
  BY <1>0, <1>3 DEF Typed, GoodHandlers, GoodSimples
<1>4. ASSUME UNCHANGED Unrouted PROVE GoodRest' /\ UNCHANGED <<hd, sr, mgr>>
  BY <1>0, <1>4 DEF Unrouted, GoodRest
<1>5. \A s : GoodService(s) /\ Leave(n, s) => GoodRoutes' /\ GoodService(svc)'
  BY LeaveTyped
<1>6. CASE RouteBegins(n)
  <2>1. GoodRoutes' /\ svc' = svc
    BY <1>0, <1>2, <1>6, RoutePut DEF RouteBegins, Live
  <2> QED
    BY <1>0, <1>3, <1>4, <1>6, <2>1 DEF RouteBegins
<1>7. CASE Leg(n)
  <2>1. CASE Leave(n, [svc EXCEPT !.route = Inactive("canceled")])
    BY <1>1, <1>3, <1>4, <1>5, <1>7, <2>1 DEF Leg
  <2>2. CASE /\ svc' = [svc EXCEPT !.route = [state |-> "active", at |-> rt[n].at, loop |-> rt[n].loop]]
             /\ rt' = [rt EXCEPT ![n].pc = "wnav", ![n].job = "navigate"]
    <3> DEFINE x == [state |-> "active", at |-> rt[n].at, loop |-> rt[n].loop]
    <3>1. x \in RouteStatuses /\ x.at # 0
      BY <1>0, <1>7 DEF RouteStatuses, RouteRuns, GoodRoute, Live, Leg
    <3> HIDE DEF x
    <3>2. GoodService([svc EXCEPT !.route = x])
      BY <1>0, <3>1 DEF GoodService, Services
    <3>3. GoodRoute([rt[n] EXCEPT !.pc = "wnav", !.job = "navigate"])
      BY <1>0, <1>7 DEF RouteRuns, GoodRoute, Live, Leg, Jobs
    <3>4. rt' = [rt EXCEPT ![n] = [rt[n] EXCEPT !.pc = "wnav", !.job = "navigate"]]
      BY <2>2
    <3>5. GoodRoutes' /\ GoodService(svc)'
      BY <1>0, <2>2, <3>2, <3>3, <3>4, RoutePut DEF x
    <3> QED
      BY <1>3, <1>4, <1>7, <3>5 DEF Leg
  <2> QED
    BY <1>7, <2>1, <2>2 DEF Leg
<1>8. CASE LegSent(n)
  <2>1. GoodRoutes' /\ svc' = svc
    BY <1>0, <1>2, <1>8, RoutePut DEF LegSent, Live
  <2> QED
    BY <1>0, <1>3, <1>4, <1>8, <2>1 DEF LegSent
<1>9. CASE Poll(n)
  <2>1. GoodRoutes' /\ svc' = svc
    BY <1>0, <1>2, <1>9, RoutePut DEF Poll, Live
  <2> QED
    BY <1>0, <1>3, <1>4, <1>9, <2>1 DEF Poll
<1>10. CASE PolledStart(n)
  <2>0. Live(rt[n])
    BY <1>10 DEF PolledStart, Live
  <2>1. GoodRoutes' /\ GoodService(svc)'
    BY <1>0, <1>1, <1>2, <1>5, <1>10, <2>0, RoutePut DEF PolledStart
  <2> QED
    BY <1>3, <1>4, <1>10, <2>1 DEF PolledStart
<1>11. CASE Polled(n)
  <2>0. Live(rt[n])
    BY <1>11 DEF Polled, Live
  <2>1. GoodRoutes' /\ GoodService(svc)'
    BY <1>0, <1>1, <1>2, <1>5, <1>11, <2>0, RoutePut DEF Polled
  <2> QED
    BY <1>3, <1>4, <1>11, <2>1 DEF Polled
<1>12. CASE Verified(n)
  <2> DEFINE at == (rt[n].at % Len(Route)) + 1
  <2>1. at \in 1 .. Len(Route)
    <3>1. rt[n].at \in Nat
      BY <1>0 DEF RouteRuns
    <3>2. rt[n].at % Len(Route) \in 0 .. (Len(Route) - 1)
      BY <3>1
    <3> QED
      BY <3>2
  <2>2. rt' = [rt EXCEPT ![n] = [rt[n] EXCEPT !.pc = "leg", !.at = at]]
    BY <1>12 DEF Verified
  <2> HIDE DEF at
  <2>3. GoodRoute([rt[n] EXCEPT !.pc = "leg", !.at = at])
    <3>1. at \in 0 .. Len(Route) /\ at # 0
      BY <2>1
    <3> QED
      BY <1>0, <3>1 DEF GoodRoute, RouteRuns, Live
  <2>4. GoodRoutes' /\ svc' = svc
    BY <1>0, <1>12, <2>2, <2>3, RoutePut DEF Verified
  <2> QED
    BY <1>0, <1>3, <1>4, <1>12, <2>4 DEF Verified
<1>13. CASE RouteStopped(n)
  BY <1>1, <1>3, <1>4, <1>5, <1>13 DEF RouteStopped
<1>14. ASSUME NEW to \in Places, Abandon(n, rt[n], to), UNCHANGED <<requests, quiet>> PROVE GoodRest'
  BY <1>0, <1>14 DEF Abandon, GoodRest
<1>15. CASE RouteKilled(n)
  <2>0. Live(rt[n])
    BY <1>15 DEF RouteKilled, Live
  <2>1. Route[rt[n].at] \in Places
    BY <1>0, <2>0, ServiceAssumption DEF GoodRoute, RouteRuns, Places
  <2>2. GoodRoutes'
    BY <1>0, <1>2, <1>15, <2>0, RoutePut DEF RouteKilled
  <2>3. GoodRest'
    BY <1>14, <1>15, <2>1 DEF RouteKilled
  <2> QED
    BY <1>0, <1>3, <1>15, <2>2, <2>3 DEF RouteKilled
<1>16. CASE RouteDies(n)
  <2>1. GoodRoutes' /\ GoodService(svc)'
    BY <1>0, <1>1, <1>5, <1>16 DEF RouteDies
  <2>2. GoodRest'
    <3>1. CASE UNCHANGED ghosts
      BY <1>0, <1>16, <3>1 DEF RouteDies, GoodRest
    <3>2. CASE Abandon(n, rt[n], NoTarget)
      BY <1>14, <1>16, <3>2 DEF RouteDies
    <3> QED
      BY <1>16, <3>1, <3>2 DEF RouteDies
  <2> QED
    BY <1>3, <1>16, <2>1, <2>2 DEF RouteDies
<1> QED
  BY <1>6, <1>7, <1>8, <1>9, <1>10, <1>11, <1>12, <1>13, <1>15, <1>16 DEF RouteNext

\* Every step of a simple run.
LEMMA SimpleNextTyped ==
    ASSUME Typed, NEW n \in Requests, SimpleNext(n)
    PROVE  Typed'
<1> USE BoundsAreNats, ConstantsGood
<1>0. /\ GoodSimple(sr[n]) /\ sr[n] \in SimpleRuns /\ GoodService(svc) /\ svc \in Services /\ n \in 0 .. MaxRequests
      /\ GoodHandlers /\ GoodSimples /\ GoodRoutes /\ Orderly(mgr) /\ GoodRest
  BY PcsTyped DEF Typed
<1>1. ASSUME GoodSimples', GoodService(svc)', GoodRest', UNCHANGED <<hd, rt, mgr>>
      PROVE  Typed'
  BY <1>0, <1>1 DEF Typed, GoodHandlers, GoodRoutes
<1>2. ASSUME UNCHANGED <<ghosts, Unsimple>> PROVE GoodRest' /\ UNCHANGED <<hd, rt, mgr>>
  BY <1>0, <1>2 DEF Unsimple, GoodRest
<1>3. ASSUME NEW r, GoodSimple(r), sr' = [sr EXCEPT ![n] = r] PROVE GoodSimples'
  BY <1>0, <1>3, SimplePut
<1>4. ASSUME NEW pc \in {"wmgr", "drive", "send"}, NEW job \in {"none", "cancel"}
      PROVE  /\ GoodSimple([sr[n] EXCEPT !.pc = pc])
             /\ GoodSimple([sr[n] EXCEPT !.pc = pc, !.job = job])
  BY <1>0, <1>4 DEF SimpleRuns, GoodSimple, Jobs
<1>5. ASSUME NEW out \in {"raised", "failed", "succeeded", "canceled"}
      PROVE  /\ GoodSimple([sr[n] EXCEPT !.pc = "stopping", !.out = out])
             /\ GoodSimple([sr[n] EXCEPT !.pc = "stopping", !.job = "none", !.out = out])
             /\ GoodSimple([sr[n] EXCEPT !.pc = "stopping", !.out = out, !.kill = FALSE])
  <2>1. GoodSimple([sr[n] EXCEPT !.pc = "stopping", !.out = out])
    BY <1>0, <1>5 DEF SimpleRuns, GoodSimple, Jobs, Ends
  <2>2. GoodSimple([sr[n] EXCEPT !.pc = "stopping", !.job = "none", !.out = out])
    BY <1>0, <1>5 DEF SimpleRuns, GoodSimple, Jobs, Ends
  <2>3. GoodSimple([sr[n] EXCEPT !.pc = "stopping", !.out = out, !.kill = FALSE])
    <3> DEFINE r == [sr[n] EXCEPT !.pc = "stopping", !.out = out]
    <3>1. [sr[n] EXCEPT !.pc = "stopping", !.out = out, !.kill = FALSE] = [r EXCEPT !.kill = FALSE]
      OBVIOUS
    <3> HIDE DEF r
    <3>2. r \in SimpleRuns /\ r.out # "none"
      BY <1>0, <1>5, <2>1 DEF GoodSimple, r, SimpleRuns
    <3> QED
      BY <3>1, <3>2 DEF GoodSimple, SimpleRuns
  <2> QED
    BY <2>1, <2>2, <2>3
<1>6. CASE SimpleBegins(n)
  <2>1. sr' = [sr EXCEPT ![n] = SimpleOver] \/ sr' = [sr EXCEPT ![n] = [sr[n] EXCEPT !.pc = "wmgr", !.job = "cancel"]]
    BY <1>6 DEF SimpleBegins
  <2> QED
    BY <1>0, <1>1, <1>2, <1>3, <1>4, <1>5, <1>6, <2>1 DEF SimpleBegins
<1>7. CASE SimpleInstalls(n)
  <2>1. GoodSimples'
    <3>1. \/ sr' = [sr EXCEPT ![n] = [sr[n] EXCEPT !.pc = "drive", !.job = "none"]]
          \/ sr' = [sr EXCEPT ![n] = [sr[n] EXCEPT !.pc = "stopping", !.job = "none", !.out = "failed"]]
      BY <1>7 DEF SimpleInstalls
    <3> QED
      BY <1>3, <1>4, <1>5, <3>1
  <2>2. GoodService(svc)'
    <3> DEFINE x == [state |-> "active", to |-> sr[n].to]
    <3>1. x \in Statuses
      BY <1>0 DEF Statuses, SimpleRuns, Places
    <3>2. svc' = [svc EXCEPT !.simpleCancel = n, !.simple = x]
      BY <1>7 DEF SimpleInstalls
    <3> HIDE DEF x
    <3> QED
      BY <1>0, <3>1, <3>2 DEF GoodService, Services
  <2> QED
    BY <1>1, <1>2, <1>7, <2>1, <2>2 DEF SimpleInstalls
<1>8. CASE SimpleLooks(n)
  <2>1. GoodSimples'
    <3>1. \/ sr' = [sr EXCEPT ![n] = [sr[n] EXCEPT !.pc = "send"]]
          \/ sr' = [sr EXCEPT ![n] = [sr[n] EXCEPT !.pc = "stopping", !.out = "canceled"]]
      BY <1>8 DEF SimpleLooks
    <3> QED
      BY <1>3, <1>4, <1>5, <3>1
  <2> QED
    BY <1>0, <1>1, <1>2, <1>8, <2>1 DEF SimpleLooks
<1>9. CASE SimpleDrives(n)
  <2>1. GoodSimples'
    <3>1. CASE sr' = [sr EXCEPT ![n] = [sr[n] EXCEPT !.pc = "drive"]]
      BY <1>3, <1>4, <3>1
    <3>2. CASE \E out \in {"succeeded", "failed", "raised"} :
                  sr' = [sr EXCEPT ![n] = [sr[n] EXCEPT !.pc = "stopping", !.out = out]]
      BY <1>3, <1>5, <3>2
    <3> QED
      BY <1>9, <3>1, <3>2 DEF SimpleDrives
  <2> QED
    BY <1>0, <1>1, <1>2, <1>9, <2>1 DEF SimpleDrives
<1>10. CASE SimpleKilled(n)
  <2>1. GoodSimples'
    <3>1. CASE sr' = [sr EXCEPT ![n] = SimpleOver]
      BY <1>3, <3>1
    <3>2. CASE sr' = [sr EXCEPT ![n] = [sr[n] EXCEPT !.pc = "stopping", !.out = "raised", !.kill = FALSE]]
      BY <1>3, <1>5, <3>2
    <3> QED
      BY <1>10, <3>1, <3>2 DEF SimpleKilled
  <2>2. GoodRest'
    BY <1>0, <1>10 DEF SimpleKilled, Abandon, GoodRest, Unsimple
  <2> QED
    BY <1>0, <1>1, <1>10, <2>1, <2>2 DEF SimpleKilled, Unsimple
<1>11. CASE SimpleEnds(n)
  <2> DEFINE run == sr[n]
             c == IF svc.simpleCancel = n THEN 0 ELSE svc.simpleCancel
             k == IF run.task /\ svc.simpleTask = n THEN 0 ELSE svc.simpleTask
             mine == [svc EXCEPT !.simpleCancel = c, !.simpleTask = k]
             over == [mine EXCEPT !.simple = [state |-> run.out, to |-> NoTarget]]
  <2>1. c \in 0 .. MaxRequests /\ k \in 0 .. MaxRequests
    BY <1>0 DEF Services
  <2>2. svc' = mine \/ (run.out # "raised" /\ svc' = over)
    BY <1>11 DEF SimpleEnds
  <2> HIDE DEF c, k
  <2>3. GoodService(mine)
    BY <1>0, <2>1 DEF GoodService, Services
  <2>4. run.out # "raised" => run.out \in {"none"} \cup Ends
    BY <1>0 DEF SimpleRuns
  <2>5. run.out # "none"
    BY <1>0, <1>11 DEF SimpleEnds, GoodSimple
  <2>6. run.out # "raised" => GoodService(over)
    <3> DEFINE x == [state |-> run.out, to |-> NoTarget]
    <3> SUFFICES ASSUME run.out # "raised" PROVE GoodService(over)
      OBVIOUS
    <3>1. x \in Statuses
      BY <2>4, <2>5 DEF Statuses
    <3> HIDE DEF x, mine
    <3> QED
      BY <2>3, <3>1 DEF GoodService, Services, x
  <2>7. GoodSimples'
    BY <1>3, <1>11 DEF SimpleEnds
  <2> QED
    BY <1>1, <1>2, <1>11, <2>2, <2>3, <2>6, <2>7 DEF SimpleEnds
<1> QED
  BY <1>6, <1>7, <1>8, <1>9, <1>10, <1>11 DEF SimpleNext

\* Helper threads, ghosts and workers.
LEMMA ThreadsTyped ==
    ASSUME Typed,
           \/ \E n \in Requests : HandlerThread(n) \/ RouteThread(n) \/ SimpleThread(n)
           \/ GhostThread \/ \E g \in Goals : Worker(g)
    PROVE  Typed'
<1> USE BoundsAreNats, ConstantsGood
<1>0. /\ GoodService(svc) /\ GoodHandlers /\ GoodSimples /\ GoodRoutes /\ Orderly(mgr) /\ GoodRest
  BY DEF Typed
<1>1. "done" \in Jobs
  BY DEF Jobs
<1>2. Orderly(Cancelled(mgr)) /\ Status(mgr) \in Statuses
  BY <1>0, CancelledHolds, StatusTyped
<1>3. ASSUME NEW n \in Requests, HandlerThread(n) PROVE Typed'
  <2>1. GoodHandler(hd[n]) /\ hd[n].to \in Places
    BY <1>0 DEF GoodHandlers, GoodHandler, Handlers
  <2>2. GoodHandler([hd[n] EXCEPT !.job = "done"])
    BY SMTT(20), <1>1, <2>1 DEF GoodHandler, Handlers
  <2>3. GoodHandlers'
    BY <1>0, <1>3, <2>2, HandlerPut DEF HandlerThread
  <2>4. Orderly(mgr)'
    BY <1>0, <1>2, <1>3, <2>1, NavigatedHolds DEF HandlerThread
  <2> QED
    BY <1>0, <1>3, <2>3, <2>4 DEF HandlerThread, Typed, GoodSimples, GoodRoutes, GoodRest
<1>4. ASSUME NEW n \in Requests, RouteThread(n) PROVE Typed'
  <2>1. GoodRoute(rt[n]) /\ rt[n] \in RouteRuns
    BY <1>0 DEF GoodRoutes, GoodRoute
  <2> DEFINE seen == IF rt[n].job = "status" THEN Status(mgr) ELSE rt[n].seen
  <2>2. seen \in Statuses
    BY <1>2, <2>1 DEF RouteRuns
  <2>3. rt' = [rt EXCEPT ![n] = [rt[n] EXCEPT !.job = "done", !.seen = seen]]
    BY <1>4 DEF RouteThread
  <2> HIDE DEF seen
  <2>4. GoodRoute([rt[n] EXCEPT !.job = "done", !.seen = seen])
    BY ZenonT(40), <1>1, <1>4, <2>1, <2>2 DEF GoodRoute, RouteRuns, Live, RouteThread
  <2>5. GoodRoutes'
    BY <1>0, <2>3, <2>4, RoutePut
  <2>6. rt[n].job = "navigate" => Route[rt[n].at] \in Places
    BY <2>1, ServiceAssumption DEF GoodRoute, RouteRuns, Places
  <2>7. Orderly(mgr)'
    BY <1>0, <1>2, <1>4, <2>1, <2>6, NavigatedHolds DEF RouteThread, RouteRuns
  <2> QED
    BY <1>0, <1>4, <2>5, <2>7 DEF RouteThread, Typed, GoodSimples, GoodHandlers, GoodRest
<1>5. ASSUME NEW n \in Requests, SimpleThread(n) PROVE Typed'
  <2>1. GoodSimple([sr[n] EXCEPT !.job = "done"])
    BY <1>0, <1>1 DEF GoodSimples, GoodSimple, SimpleRuns
  <2>2. GoodSimples'
    BY <1>0, <1>5, <2>1, SimplePut DEF SimpleThread
  <2> QED
    BY <1>0, <1>2, <1>5, <2>2 DEF SimpleThread, Typed, GoodHandlers, GoodRoutes, GoodRest
<1>6. CASE GhostThread
  <2>1. PICK gh \in ghosts :
            /\ gh.kind = "navigate" => CanNavigate(mgr)
            /\ mgr' = IF gh.kind = "cancel" THEN Cancelled(mgr) ELSE Navigated(mgr, gh.to, TRUE)
            /\ ghosts' = ghosts \ {gh}
            /\ UNCHANGED <<requests, hd, rt, sr, svc, quiet>>
    BY <1>6, Zenon DEF GhostThread
  <2>2. gh.to \in Places /\ gh.kind \in {"navigate", "cancel"}
    BY <1>0 DEF GoodRest
  <2>3. Orderly(mgr)'
    <3>1. CASE gh.kind = "cancel"
      BY <1>2, <2>1, <3>1
    <3>2. CASE gh.kind = "navigate"
      BY <1>0, <2>1, <2>2, <3>2, NavigatedHolds
    <3> QED
      BY <2>2, <3>1, <3>2
  <2> QED
    BY <1>0, <1>6, <2>1, <2>3 DEF GhostThread, Typed, GoodHandlers, GoodRoutes, GoodSimples, GoodRest
<1>7. ASSUME NEW g \in Goals, Worker(g) PROVE Typed'
  <2>1. Orderly(mgr)'
    BY <1>0, <1>7, WorkerHolds DEF Worker
  <2> QED
    BY <1>0, <1>7, <2>1 DEF Worker, Typed, GoodHandlers, GoodRoutes, GoodSimples, GoodRest
<1> QED
  BY <1>3, <1>4, <1>5, <1>6, <1>7

\* The service starts well-typed.
LEMMA InitTyped == Init => Typed
<1> SUFFICES ASSUME Init PROVE Typed
  OBVIOUS
<1> USE BoundsAreNats, ConstantsGood DEF Init
<1>1. GoodHandlers /\ GoodRoutes /\ GoodSimples
  BY DEF GoodHandlers, GoodRoutes, GoodSimples, GoodHandler, GoodRoute, GoodSimple
<1>2. GoodService(svc)
  <2>1. Inactive("idle") \in RouteStatuses /\ Inactive("idle").state = "idle"
    BY DEF Inactive, RouteStatuses
  <2>2. [to |-> NoTarget, state |-> "none"] \in Plans
    BY DEF Plans
  <2>3. 0 \in 0 .. MaxRequests
    OBVIOUS
  <2> QED
    BY <2>1, <2>2, <2>3 DEF GoodService, Services, GoodSnapshot
<1>3. Orderly(mgr)
  <2>1. NoGoal \in GoalRecords /\ NoGoal.pc = "none"
    BY DEF NoGoal, GoalRecords, Places
  <2>2. AtRest \in Navigators
    BY <2>1 DEF AtRest, Navigators
  <2>3. \A g \in Goals : mgr.goal[g] = NoGoal
    BY DEF AtRest
  <2>4. mgr.installed = 0
    BY DEF AtRest
  <2> QED
    BY <2>1, <2>2, <2>3, <2>4 DEF Orderly, LooseHeld, Loose, Ending
<1>4. GoodRest
  <2>1. 0 \in 0 .. MaxRequests
    OBVIOUS
  <2> QED
    BY <2>1 DEF GoodRest
<1> QED
  BY <1>1, <1>2, <1>3, <1>4 DEF Typed

\* Every step keeps the types.
LEMMA NextTyped == Typed /\ [Next]_vars => Typed'
<1> SUFFICES ASSUME Typed, [Next]_vars PROVE Typed'
  OBVIOUS
<1>1. CASE UNCHANGED vars
  BY <1>1 DEF vars, Typed, GoodHandlers, GoodRoutes, GoodSimples, GoodRest
<1>2. CASE Query
  <2>1. svc.plan \in Plans
    BY DEF Typed, GoodService, Services
  <2>2. GoodService(svc)'
    <3> DEFINE p == Synced(svc.plan)
    <3>1. p \in Plans /\ svc' = [svc EXCEPT !.plan = p]
      BY <1>2, <2>1, PlansTyped DEF Query
    <3> HIDE DEF p
    <3> QED
      BY <3>1 DEF Typed, GoodService, Services
  <2> QED
    BY <1>2, <2>2 DEF Query, Typed, GoodHandlers, GoodRoutes, GoodSimples, GoodRest
<1> QED
  BY <1>1, <1>2, BeginNextTyped, HandlerNextTyped, RouteNextTyped, SimpleNextTyped, ThreadsTyped DEF Next

\* The service's attributes, handlers and runs keep their types; in particular
\* a leg is always a leg of the route, over loops, resumes and restarts.
THEOREM ServiceTypes == Spec => []TypeOK
<1>1. Typed => TypeOK
  BY DEF Typed, TypeOK, GoodHandlers, GoodRoutes, GoodSimples, GoodService, GoodRest, Orderly
<1> QED
  BY <1>1, InitTyped, NextTyped, PTL DEF Spec

-----------------------------------------------------------------------------
(* The inductive invariant of a careful client *)

\* No two requests under way, and nobody waits for a simple go-to.
Careful == Concurrent <= 1 /\ Waits \subseteq {FALSE}

Working(n) == hd[n].pc \notin {"none", "done", "wrun"}
Driving(r) == r.pc \in {"drive", "send"} \/ (r.pc = "wmgr" /\ r.job = "done")
Resting == quiet \/ svc.suspended # NoSnapshot

\* What is left of the routes has been told to stop, and its caller waits for it.
RoutesLeft == \A m \in Requests : Live(rt[m]) => rt[m].event /\ ~rt[m].task
NoSimples == \A m \in Requests : ~Live(sr[m])

\* A request not yet made has done nothing.
Dormant == \A n \in Requests : n > requests => hd[n].pc = "none" /\ ~Live(rt[n]) /\ ~Live(sr[n])

Sensible(h) ==
    /\ h.job # "none" => h.pc = "wj"
    /\ h.job = "navigate" => h.op \in {"point", "plan"}
    /\ h.pc = "pose" => h.op = "route"
    /\ h.op = "go" => ~h.wait
Handling == \A n \in Requests : Sensible(hd[n])

OneWorking == \A m, n \in Requests : Working(m) /\ Working(n) => m = n

RoutesNamed ==
    \A m \in Requests : Live(rt[m]) =>
        /\ rt[m].task => svc.routeTask = m
        /\ ~rt[m].event => svc.routeCancel = m
        /\ ~rt[m].task => hd[m].pc = "wrun"

SimplesNamed ==
    \A m \in Requests : Live(sr[m]) =>
        /\ sr[m].task /\ svc.simpleTask = m
        /\ sr[m].pc \notin {"created", "wmgr"} => svc.simpleCancel = m

PastRoute ==
    \A n \in Requests :
        /\ hd[n].pc = "wr" => \A m \in Requests : Live(rt[m]) => rt[m].event /\ (rt[m].task => m = hd[n].on)
        /\ hd[n].pc \in {"cs", "ws", "stop", "body", "wj"} => RoutesLeft

PastSimple ==
    \A n \in Requests :
        /\ hd[n].pc = "ws" => \A m \in Requests : Live(sr[m]) => m = hd[n].on
        /\ hd[n].pc \in {"stop", "body", "wj"} => NoSimples

Moving ==
    \A n \in Requests : Working(n) /\ hd[n].op \in {"point", "plan", "route", "go"} =>
        ~quiet /\ (hd[n].pc # "pose" => svc.suspended = NoSnapshot)

Rests == Resting => RoutesLeft /\ NoSimples /\ svc.plan.state \in {"none", "stopped"} /\ LooseTame(mgr)

SimpleAlone == NoSimples \/ RoutesLeft

Tame ==
    /\ \A n \in Requests : Driving(sr[n]) => LooseTame(mgr)
    /\ \A n \in Requests :
         hd[n].op \in {"cancel", "suspend"} /\ hd[n].pc = "wj" /\ hd[n].job = "done" => LooseTame(mgr)

Inv ==
    /\ Dormant /\ Handling /\ OneWorking /\ RoutesNamed /\ SimplesNamed
    /\ PastRoute /\ PastSimple /\ Moving /\ Rests /\ SimpleAlone /\ Tame

-----------------------------------------------------------------------------
\* What a step of a route run does to the rest.
RouteEffect(n) ==
    /\ UNCHANGED <<requests, hd, sr, mgr, quiet>>
    /\ svc'.simpleTask = svc.simpleTask /\ svc'.simpleCancel = svc.simpleCancel
    /\ svc'.plan = svc.plan /\ svc'.suspended = svc.suspended
    /\ Live(rt[n]) /\ \A m \in Requests : m # n => rt'[m] = rt[m]
    /\ Live(rt'[n]) => rt'[n].task = rt[n].task /\ rt'[n].event = rt[n].event
                        /\ svc'.routeTask = svc.routeTask /\ svc'.routeCancel = svc.routeCancel
    /\ \A m \in Requests : m # n => (svc.routeTask = m => svc'.routeTask = m)
                                     /\ (svc.routeCancel = m => svc'.routeCancel = m)

\* A step of a route run keeps the invariant.
LEMMA RouteEffectKeeps ==
    ASSUME Inv, NEW n \in Requests, RouteEffect(n)
    PROVE  Inv'
<1> USE DEF RouteEffect
<1>0. RoutesLeft => RoutesLeft'
  BY DEF RoutesLeft
<1>00. NoSimples' = NoSimples /\ Resting' = Resting /\ LooseTame(mgr)' = LooseTame(mgr)
  BY DEF NoSimples, Resting, LooseTame
<1>1. Dormant' /\ Handling' /\ OneWorking'
  BY DEF Inv, Dormant, Handling, OneWorking, Working, Sensible
<1>2. RoutesNamed'
  BY DEF Inv, RoutesNamed
<1>3. SimplesNamed'
  BY DEF Inv, SimplesNamed
<1>4. PastRoute'
  BY <1>0 DEF Inv, PastRoute
<1>5. PastSimple'
  BY DEF Inv, PastSimple, NoSimples
<1>6. Moving'
  BY DEF Inv, Moving, Working
<1>7. Rests' /\ SimpleAlone'
  BY <1>0, <1>00 DEF Inv, Rests, SimpleAlone
<1>8. Tame'
  BY <1>00 DEF Inv, Tame
<1> QED
  BY <1>1, <1>2, <1>3, <1>4, <1>5, <1>6, <1>7, <1>8 DEF Inv

\* Every step of a route run has no other effect.
LEMMA RouteNextEffect ==
    ASSUME Typed, NEW n \in Requests, RouteNext(n)
    PROVE  RouteEffect(n)
<1>0. /\ rt[n] \in RouteRuns /\ rt \in [Requests -> RouteRuns] /\ svc \in Services
  BY PcsTyped DEF Typed, GoodRoutes
<1>1. ~Live(RouteOver)
  BY DEF RouteOver, NoRoute, Live
<1>2. ASSUME UNCHANGED <<requests, hd, sr, mgr, quiet>>, Live(rt[n]),
             NEW s, s \in {svc} \cup {[svc EXCEPT !.route = x] : x \in RouteStatuses}, Leave(n, s)
      PROVE  RouteEffect(n)
  <2>1. s.simpleTask = svc.simpleTask /\ s.simpleCancel = svc.simpleCancel /\ s.plan = svc.plan
          /\ s.suspended = svc.suspended /\ s.routeTask = svc.routeTask /\ s.routeCancel = svc.routeCancel
          /\ s \in Services
    BY <1>0, <1>2 DEF Services
  <2> QED
    BY <1>0, <1>1, <1>2, <2>1 DEF Leave, RouteEffect, Services
<1>3. \A e \in {"canceled", "failed", "succeeded"} : Inactive(e) \in RouteStatuses
  BY BoundsAreNats DEF Inactive, RouteStatuses, Ends
<1>4. ASSUME UNCHANGED <<requests, hd, sr, mgr, quiet>>, Live(rt[n]), NEW x,
             svc' \in {svc, [svc EXCEPT !.route = x]}, NEW r, rt' = [rt EXCEPT ![n] = r],
             Live(r) => r.task = rt[n].task /\ r.event = rt[n].event
      PROVE  RouteEffect(n)
  BY <1>0, <1>4 DEF RouteEffect, Services
<1>5. \A pc \in {"leg", "start", "poll", "verify", "killed"} :
          LET r == Answered(rt[n], pc) IN
          /\ r.task = rt[n].task /\ r.event = rt[n].event
          /\ Asking(r).task = rt[n].task /\ Asking(r).event = rt[n].event
          /\ [r EXCEPT !.job = "cancel", !.kill = FALSE].task = rt[n].task
          /\ [r EXCEPT !.job = "cancel", !.kill = FALSE].event = rt[n].event
  BY <1>0 DEF RouteRuns, Answered, Asking
<1>6. Asking(rt[n]).task = rt[n].task /\ Asking(rt[n]).event = rt[n].event
  BY <1>0 DEF RouteRuns, Asking
<1>7. CASE RouteBegins(n)
  <2> DEFINE r == IF rt[n].kill THEN RouteOver ELSE [rt[n] EXCEPT !.pc = "leg"]
  <2>1. Live(r) => r.task = rt[n].task /\ r.event = rt[n].event
    BY <1>0, <1>1 DEF RouteRuns
  <2>2. rt' = [rt EXCEPT ![n] = r] /\ Live(rt[n])
    BY <1>7 DEF RouteBegins, Live
  <2> HIDE DEF r
  <2> QED
    BY <1>4, <1>7, <2>1, <2>2 DEF RouteBegins, Unrouted
<1>8. CASE Leg(n)
  <2>1. Live(rt[n]) /\ UNCHANGED <<requests, hd, sr, mgr, quiet>>
    BY <1>8 DEF Leg, Live, Unrouted
  <2>2. CASE Leave(n, [svc EXCEPT !.route = Inactive("canceled")])
    BY <1>2, <1>3, <2>1, <2>2
  <2>3. CASE /\ svc' = [svc EXCEPT !.route = [state |-> "active", at |-> rt[n].at, loop |-> rt[n].loop]]
             /\ rt' = [rt EXCEPT ![n].pc = "wnav", ![n].job = "navigate"]
    <3> DEFINE r == [rt[n] EXCEPT !.pc = "wnav", !.job = "navigate"]
               x == [state |-> "active", at |-> rt[n].at, loop |-> rt[n].loop]
    <3>1. rt' = [rt EXCEPT ![n] = r] /\ svc' = [svc EXCEPT !.route = x]
      BY <2>3
    <3>2. r.task = rt[n].task /\ r.event = rt[n].event
      BY <1>0 DEF RouteRuns
    <3> HIDE DEF r, x
    <3> QED
      BY <1>0, <2>1, <3>1, <3>2 DEF RouteEffect, Services
  <2> QED
    BY <1>8, <2>2, <2>3 DEF Leg
<1>9. CASE LegSent(n)
  BY <1>4, <1>5, <1>9 DEF LegSent, Live, Unrouted
<1>10. CASE Poll(n)
  BY <1>4, <1>6, <1>10 DEF Poll, Live, Unrouted
<1>11. CASE PolledStart(n)
  <2>1. Live(rt[n]) /\ UNCHANGED <<requests, hd, sr, mgr, quiet>>
    BY <1>11 DEF PolledStart, Live, Unrouted
  <2> QED
    BY <1>2, <1>3, <1>4, <1>5, <1>11, <2>1 DEF PolledStart
<1>12. CASE Polled(n)
  <2>1. Live(rt[n]) /\ UNCHANGED <<requests, hd, sr, mgr, quiet>>
    BY <1>12 DEF Polled, Live, Unrouted
  <2> QED
    BY <1>2, <1>3, <1>4, <1>5, <1>12, <2>1 DEF Polled
<1>13. CASE Verified(n)
  <2> DEFINE at == (rt[n].at % Len(Route)) + 1
             r == [rt[n] EXCEPT !.pc = "leg", !.at = at]
  <2>1. rt' = [rt EXCEPT ![n] = r] /\ Live(rt[n])
    BY <1>13 DEF Verified, Live
  <2> HIDE DEF at
  <2>2. r.task = rt[n].task /\ r.event = rt[n].event
    BY <1>0 DEF RouteRuns
  <2> QED
    BY <1>4, <1>13, <2>1, <2>2 DEF Verified, Unrouted
<1>14. CASE RouteStopped(n)
  BY <1>2, <1>3, <1>14 DEF RouteStopped, Live, Unrouted
<1>15. CASE RouteKilled(n)
  BY <1>4, <1>5, <1>15 DEF RouteKilled, Live
<1>16. CASE RouteDies(n)
  <2>1. Live(rt[n]) /\ UNCHANGED <<requests, hd, sr, mgr, quiet>>
    BY <1>16 DEF RouteDies, Live
  <2> QED
    BY <1>2, <1>3, <1>16, <2>1 DEF RouteDies
<1> QED
  BY <1>7, <1>8, <1>9, <1>10, <1>11, <1>12, <1>13, <1>14, <1>15, <1>16 DEF RouteNext

\* What a step of a simple run does to the rest.
SimpleEffect(n) ==
    /\ UNCHANGED <<requests, hd, rt, mgr, quiet>>
    /\ svc'.routeTask = svc.routeTask /\ svc'.routeCancel = svc.routeCancel
    /\ svc'.plan = svc.plan /\ svc'.suspended = svc.suspended
    /\ Live(sr[n]) /\ \A m \in Requests : m # n => sr'[m] = sr[m]
    /\ Live(sr'[n]) =>
         /\ sr'[n].task = sr[n].task /\ svc'.simpleTask = svc.simpleTask
         /\ \/ svc'.simpleCancel = svc.simpleCancel
               /\ (sr'[n].pc \notin {"created", "wmgr"} => sr[n].pc \notin {"created", "wmgr"})
            \/ svc'.simpleCancel = n
    /\ Driving(sr'[n]) => Driving(sr[n])

\* A step of a simple run keeps the invariant.
LEMMA SimpleEffectKeeps ==
    ASSUME Inv, NEW n \in Requests, SimpleEffect(n)
    PROVE  Inv'
<1> USE DEF SimpleEffect
<1>0. \A m \in Requests : Live(sr[m]) => m = n
  BY DEF Inv, SimplesNamed
<1>1. RoutesLeft' = RoutesLeft /\ ~NoSimples /\ Resting' = Resting /\ LooseTame(mgr)' = LooseTame(mgr)
  BY DEF RoutesLeft, NoSimples, Resting, LooseTame
<1>2. NoSimples => NoSimples'
  BY <1>1
<1>3. Dormant' /\ Handling' /\ OneWorking'
  BY DEF Inv, Dormant, Handling, OneWorking, Working, Sensible
<1>4. RoutesNamed' /\ Moving'
  BY DEF Inv, RoutesNamed, Moving, Working
<1>5. SimplesNamed'
  BY <1>0 DEF Inv, SimplesNamed
<1>6. PastRoute'
  BY <1>1 DEF Inv, PastRoute
<1>7. PastSimple'
  BY <1>0, <1>1 DEF Inv, PastSimple
<1>8. Rests' /\ SimpleAlone'
  BY <1>1 DEF Inv, Rests, SimpleAlone
<1>9. Tame'
  BY <1>1 DEF Inv, Tame
<1> QED
  BY <1>3, <1>4, <1>5, <1>6, <1>7, <1>8, <1>9 DEF Inv

\* Every step of a simple run has no other effect.
LEMMA SimpleNextEffect ==
    ASSUME Typed, NEW n \in Requests, SimpleNext(n)
    PROVE  SimpleEffect(n)
<1>0. /\ sr[n] \in SimpleRuns /\ sr \in [Requests -> SimpleRuns] /\ svc \in Services
  BY PcsTyped DEF Typed, GoodSimples
<1>1. ~Live(SimpleOver) /\ ~Driving(SimpleOver)
  BY DEF SimpleOver, NoSimple, Live, Driving
<1>8. ASSUME NEW r, sr' = [sr EXCEPT ![n] = r], r.task = sr[n].task,
             UNCHANGED <<requests, hd, rt, mgr, quiet, svc>>, Live(sr[n]),
             \/ sr[n].pc \in {"drive", "send"}
             \/ sr[n].pc = "created" /\ r.pc = "wmgr" /\ r.job # "done"
      PROVE  SimpleEffect(n)
  BY <1>0, <1>8 DEF SimpleEffect, Driving
<1>2. CASE SimpleBegins(n)
  <2>1. sr' = [sr EXCEPT ![n] = SimpleOver] \/ sr' = [sr EXCEPT ![n] = [sr[n] EXCEPT !.pc = "wmgr", !.job = "cancel"]]
    BY <1>2 DEF SimpleBegins
  <2>2. Live(sr[n]) /\ sr[n].pc = "created" /\ UNCHANGED <<requests, hd, rt, mgr, quiet, svc>>
    BY <1>2 DEF SimpleBegins, Unsimple, Live
  <2>3. CASE sr' = [sr EXCEPT ![n] = SimpleOver]
    BY <1>0, <1>1, <2>2, <2>3 DEF SimpleEffect
  <2>4. CASE sr' = [sr EXCEPT ![n] = [sr[n] EXCEPT !.pc = "wmgr", !.job = "cancel"]]
    <3> DEFINE r == [sr[n] EXCEPT !.pc = "wmgr", !.job = "cancel"]
    <3>1. r.task = sr[n].task /\ r.pc = "wmgr" /\ r.job = "cancel"
      BY <1>0 DEF SimpleRuns
    <3> HIDE DEF r
    <3> QED
      BY <1>8, <2>2, <2>4, <3>1 DEF r
  <2> QED
    BY <2>1, <2>3, <2>4
<1>3. CASE SimpleInstalls(n)
  <2>1. \/ sr' = [sr EXCEPT ![n] = [sr[n] EXCEPT !.pc = "drive", !.job = "none"]]
        \/ sr' = [sr EXCEPT ![n] = [sr[n] EXCEPT !.pc = "stopping", !.job = "none", !.out = "failed"]]
    BY <1>3 DEF SimpleInstalls
  <2>2. Live(sr[n]) /\ Driving(sr[n]) /\ UNCHANGED <<requests, hd, rt, mgr, quiet>>
    BY <1>3 DEF SimpleInstalls, Unsimple, Live, Driving
  <2>3. svc' = [svc EXCEPT !.simpleCancel = n, !.simple = [state |-> "active", to |-> sr[n].to]]
    BY <1>3 DEF SimpleInstalls
  <2>4. sr'[n].task = sr[n].task /\ \A m \in Requests : m # n => sr'[m] = sr[m]
    BY ZenonT(40), <1>0, <2>1 DEF SimpleRuns
  <2> QED
    BY <1>0, <2>2, <2>3, <2>4 DEF SimpleEffect, Services
<1>4. CASE SimpleLooks(n)
  <2>1. \/ sr' = [sr EXCEPT ![n] = [sr[n] EXCEPT !.pc = "send"]]
        \/ sr' = [sr EXCEPT ![n] = [sr[n] EXCEPT !.pc = "stopping", !.out = "canceled"]]
    BY <1>4 DEF SimpleLooks
  <2>2. Live(sr[n]) /\ sr[n].pc = "drive" /\ UNCHANGED <<requests, hd, rt, mgr, quiet, svc>>
    BY <1>4 DEF SimpleLooks, Unsimple, Live
  <2>3. sr'[n].task = sr[n].task /\ \A m \in Requests : m # n => sr'[m] = sr[m]
    BY ZenonT(40), <1>0, <2>1 DEF SimpleRuns
  <2> QED
    BY <2>2, <2>3 DEF SimpleEffect, Driving
<1>5. CASE SimpleDrives(n)
  <2>1. \/ sr' = [sr EXCEPT ![n] = [sr[n] EXCEPT !.pc = "drive"]]
        \/ \E out \in {"succeeded", "failed", "raised"} :
              sr' = [sr EXCEPT ![n] = [sr[n] EXCEPT !.pc = "stopping", !.out = out]]
    BY <1>5 DEF SimpleDrives
  <2>2. Live(sr[n]) /\ sr[n].pc = "send" /\ UNCHANGED <<requests, hd, rt, mgr, quiet, svc>>
    BY <1>5 DEF SimpleDrives, Unsimple, Live
  <2>3. sr'[n].task = sr[n].task /\ \A m \in Requests : m # n => sr'[m] = sr[m]
    <3>1. CASE sr' = [sr EXCEPT ![n] = [sr[n] EXCEPT !.pc = "drive"]]
      BY <1>0, <3>1 DEF SimpleRuns
    <3>2. ASSUME NEW out, sr' = [sr EXCEPT ![n] = [sr[n] EXCEPT !.pc = "stopping", !.out = out]]
          PROVE  sr'[n].task = sr[n].task /\ \A m \in Requests : m # n => sr'[m] = sr[m]
      BY <1>0, <3>2 DEF SimpleRuns
    <3> QED
      BY <2>1, <3>1, <3>2
  <2> QED
    BY <2>2, <2>3 DEF SimpleEffect, Driving
<1>6. CASE SimpleKilled(n)
  <2>1. \/ sr' = [sr EXCEPT ![n] = SimpleOver]
        \/ sr[n].pc \in {"drive", "send"}
           /\ sr' = [sr EXCEPT ![n] = [sr[n] EXCEPT !.pc = "stopping", !.out = "raised", !.kill = FALSE]]
    BY <1>6 DEF SimpleKilled
  <2>2. Live(sr[n]) /\ UNCHANGED <<requests, hd, rt, mgr, quiet, svc>>
    BY <1>6 DEF SimpleKilled, Unsimple, Live
  <2> QED
    BY ZenonT(40), <1>0, <1>1, <2>1, <2>2 DEF SimpleEffect, SimpleRuns, Driving
<1>7. CASE SimpleEnds(n)
  <2>1. sr' = [sr EXCEPT ![n] = SimpleOver] /\ Live(sr[n]) /\ UNCHANGED <<requests, hd, rt, mgr, quiet>>
    BY <1>7 DEF SimpleEnds, Unsimple, Live
  <2>2. svc'.routeTask = svc.routeTask /\ svc'.routeCancel = svc.routeCancel
          /\ svc'.plan = svc.plan /\ svc'.suspended = svc.suspended
    BY <1>0, <1>7 DEF SimpleEnds, Services
  <2> QED
    BY <1>0, <1>1, <2>1, <2>2 DEF SimpleEffect
<1> QED
  BY <1>2, <1>3, <1>4, <1>5, <1>6, <1>7 DEF SimpleNext

-----------------------------------------------------------------------------
(* Handlers *)

\* A handler goes on, or returns, and changes nothing that others look at.
HandlerEffect(n) ==
    /\ Working(n) \/ (hd[n].pc = "wrun" /\ ~Live(rt[n]))
    /\ UNCHANGED <<requests, rt, sr, mgr, quiet>>
    /\ \A m \in Requests : m # n => hd'[m] = hd[m]
    /\ svc'.routeTask = svc.routeTask /\ svc'.routeCancel = svc.routeCancel
    /\ svc'.simpleTask = svc.simpleTask /\ svc'.simpleCancel = svc.simpleCancel
    /\ svc'.plan = svc.plan
    /\ svc'.suspended = svc.suspended \/ (hd[n].pc = "pose" /\ svc'.suspended = NoSnapshot)
    /\ hd'[n].job # "done" /\ Sensible(hd'[n])
    /\ \/ hd'[n].pc = "done"
       \/ /\ hd'[n].op = hd[n].op
          /\ \/ hd[n].pc = "pose" /\ hd'[n].pc = "cr" /\ svc'.suspended = NoSnapshot
             \/ hd[n].pc = "stop" /\ hd'[n].pc = "body"
             \/ hd[n].pc = "body" /\ hd'[n].pc = "wj"

\* Such a step of a handler keeps the invariant.
LEMMA HandlerEffectKeeps ==
    ASSUME Inv, NEW n \in Requests, HandlerEffect(n)
    PROVE  Inv'
<1> USE DEF HandlerEffect
<1>0. RoutesLeft' = RoutesLeft /\ NoSimples' = NoSimples /\ LooseTame(mgr)' = LooseTame(mgr)
  BY DEF RoutesLeft, NoSimples, LooseTame
<1>1. Dormant' /\ Handling'
  BY DEF Inv, Dormant, Handling, Working
<1>2. OneWorking'
  BY DEF Inv, OneWorking, Working
<1>3. RoutesNamed'
  BY DEF Inv, RoutesNamed, Working
<1>4. SimplesNamed'
  BY DEF Inv, SimplesNamed
<1>5. PastRoute'
  BY <1>0 DEF Inv, PastRoute
<1>6. PastSimple'
  BY <1>0 DEF Inv, PastSimple
<1>7. Moving'
  BY DEF Inv, Moving, Working, OneWorking
<1>8. Rests' /\ SimpleAlone'
  BY <1>0 DEF Inv, Rests, SimpleAlone, Resting
<1>9. Tame'
  BY <1>0 DEF Inv, Tame
<1> QED
  BY <1>1, <1>2, <1>3, <1>4, <1>5, <1>6, <1>7, <1>8, <1>9 DEF Inv

\* _cancel_route tells the run the handles name, which is the only one not yet told.
LEMMA CancelRouteKeeps ==
    ASSUME Typed, Inv, NEW n \in Requests, CancelRoute(n)
    PROVE  Inv'
<1> DEFINE r == svc.routeTask
           running == r # 0 /\ Live(rt[r])
<1>0. /\ hd \in [Requests -> Handlers] /\ hd[n] \in Handlers /\ svc \in Services
      /\ rt \in [Requests -> RouteRuns] /\ 0 \notin Requests
      /\ hd[n].pc = "cr" /\ UNCHANGED <<requests, sr, mgr, ghosts, quiet>>
  BY PcsTyped DEF Typed, GoodHandlers, GoodRoutes, CancelRoute, Requests
<1>1. /\ \A m \in Requests : m # n => hd'[m] = hd[m]
      /\ hd'[n].op = hd[n].op /\ hd'[n].job = hd[n].job /\ hd'[n].wait = hd[n].wait
      /\ \/ running /\ hd'[n].pc = "wr" /\ hd'[n].on = r /\ svc' = svc
         \/ ~running /\ hd'[n].pc = "cs" /\ svc'.routeTask = 0 /\ svc'.routeCancel = 0
  <2>1. CASE running /\ hd' = [hd EXCEPT ![n] = [[hd[n] EXCEPT !.was = svc.route.state = "active"]
                                                   EXCEPT !.pc = "wr", !.on = r]]
                     /\ svc' = svc
    BY <1>0, <2>1 DEF Handlers
  <2>2. CASE ~running /\ hd' = [hd EXCEPT ![n] = [[hd[n] EXCEPT !.was = svc.route.state = "active"]
                                                   EXCEPT !.pc = "cs"]]
                      /\ svc' = RouteCleared(svc, [hd[n] EXCEPT !.was = svc.route.state = "active"])
    BY <1>0, <2>2 DEF Handlers, RouteCleared, Services
  <2> QED
    BY <2>1, <2>2 DEF CancelRoute
<1>2. /\ svc'.simpleTask = svc.simpleTask /\ svc'.simpleCancel = svc.simpleCancel
      /\ svc'.plan = svc.plan /\ svc'.suspended = svc.suspended
  BY <1>0 DEF CancelRoute, RouteCleared, Services
<1>3. \A m \in Requests :
         /\ Live(rt'[m]) = Live(rt[m]) /\ rt'[m].task = rt[m].task
         /\ rt[m].event => rt'[m].event
         /\ m = svc.routeCancel => rt'[m].event
  BY <1>0 DEF CancelRoute, Kill, RouteRuns, Live
<1>4. \A m \in Requests : Live(rt'[m]) => rt'[m].event /\ (rt'[m].task => m = r)
  BY <1>3 DEF Inv, RoutesNamed
<1>5. (RoutesLeft => RoutesLeft') /\ (~running => RoutesLeft')
  BY <1>0, <1>3, <1>4 DEF RoutesLeft
<1>6. NoSimples' = NoSimples /\ LooseTame(mgr)' = LooseTame(mgr) /\ Resting' = Resting
  BY <1>0, <1>2 DEF NoSimples, LooseTame, Resting
<1>7. Dormant' /\ Handling'
  BY <1>0, <1>1, <1>3 DEF Inv, Dormant, Handling, Sensible
<1>8. OneWorking' /\ Working(n)
  BY <1>0, <1>1 DEF Inv, OneWorking, Working
<1>9. RoutesNamed'
  BY <1>0, <1>1, <1>3, <1>4, <1>5 DEF Inv, RoutesNamed, RoutesLeft
<1>10. SimplesNamed'
  BY <1>0, <1>2 DEF Inv, SimplesNamed
<1>11. PastRoute'
  BY <1>0, <1>1, <1>3, <1>4, <1>5 DEF Inv, PastRoute
<1>12. PastSimple'
  BY <1>0, <1>1, <1>6 DEF Inv, PastSimple
<1>13. Moving'
  BY <1>0, <1>1, <1>2 DEF Inv, Moving, Working
<1>14. Rests' /\ SimpleAlone'
  BY <1>2, <1>5, <1>6 DEF Inv, Rests, SimpleAlone
<1>15. Tame'
  BY <1>0, <1>1, <1>6 DEF Inv, Tame
<1> QED
  BY <1>7, <1>8, <1>9, <1>10, <1>11, <1>12, <1>13, <1>14, <1>15 DEF Inv

\* The task it waited for is gone: only routes told to stop are left.
LEMMA RouteGoneKeeps ==
    ASSUME Typed, Inv, NEW n \in Requests, RouteGone(n)
    PROVE  Inv'
<1>0. /\ hd \in [Requests -> Handlers] /\ hd[n] \in Handlers /\ svc \in Services
      /\ hd[n].pc = "wr" /\ UNCHANGED <<requests, rt, sr, mgr, quiet>>
      /\ ~Live(rt[hd[n].on])
  BY PcsTyped DEF Typed, GoodHandlers, RouteGone, Unhandled
<1>1. /\ \A m \in Requests : m # n => hd'[m] = hd[m]
      /\ hd'[n].op = hd[n].op /\ hd'[n].job = hd[n].job /\ hd'[n].wait = hd[n].wait
      /\ hd'[n].pc = "cs"
  BY <1>0 DEF RouteGone, Handlers
<1>2. /\ svc'.simpleTask = svc.simpleTask /\ svc'.simpleCancel = svc.simpleCancel
      /\ svc'.plan = svc.plan /\ svc'.suspended = svc.suspended
  BY <1>0 DEF RouteGone, RouteCleared, Services
<1>3. RoutesLeft' /\ RoutesLeft
  BY <1>0 DEF Inv, PastRoute, RoutesLeft
<1>4. NoSimples' = NoSimples /\ LooseTame(mgr)' = LooseTame(mgr) /\ Resting' = Resting
  BY <1>0, <1>2 DEF NoSimples, LooseTame, Resting
<1>5. Dormant' /\ Handling'
  BY <1>0, <1>1 DEF Inv, Dormant, Handling, Sensible
<1>6. OneWorking'
  BY <1>0, <1>1 DEF Inv, OneWorking, Working
<1>7. RoutesNamed'
  BY <1>0, <1>1, <1>3 DEF Inv, RoutesNamed, RoutesLeft
<1>8. SimplesNamed'
  BY <1>0, <1>2 DEF Inv, SimplesNamed
<1>9. PastRoute'
  BY <1>0, <1>1, <1>3 DEF Inv, PastRoute
<1>10. PastSimple'
  BY <1>0, <1>1, <1>4 DEF Inv, PastSimple
<1>11. Moving'
  BY <1>0, <1>1, <1>2 DEF Inv, Moving, Working
<1>12. Rests' /\ SimpleAlone'
  BY <1>2, <1>3, <1>4 DEF Inv, Rests, SimpleAlone
<1>13. Tame'
  BY <1>0, <1>1, <1>4 DEF Inv, Tame
<1> QED
  BY <1>5, <1>6, <1>7, <1>8, <1>9, <1>10, <1>11, <1>12, <1>13 DEF Inv

\* _cancel_simple_nav finds the only simple run there is.
LEMMA CancelSimpleKeeps ==
    ASSUME Typed, Inv, NEW n \in Requests, CancelSimple(n)
    PROVE  Inv'
<1> DEFINE r == svc.simpleTask
           running == r # 0 /\ Live(sr[r])
<1>0. /\ hd \in [Requests -> Handlers] /\ hd[n] \in Handlers /\ svc \in Services
      /\ sr \in [Requests -> SimpleRuns] /\ 0 \notin Requests
      /\ hd[n].pc = "cs" /\ UNCHANGED <<requests, rt, mgr, quiet>>
  BY PcsTyped DEF Typed, GoodHandlers, GoodSimples, CancelSimple, Requests
<1>1. /\ \A m \in Requests : m # n => hd'[m] = hd[m]
      /\ hd'[n].op = hd[n].op /\ hd'[n].job = hd[n].job /\ hd'[n].wait = hd[n].wait
      /\ \/ running /\ hd'[n].pc = "ws" /\ hd'[n].on = r /\ svc' = svc
         \/ ~running /\ hd'[n].pc \in {"stop", "body"}
  BY <1>0 DEF CancelSimple, Handlers
<1>2. /\ svc'.routeTask = svc.routeTask /\ svc'.routeCancel = svc.routeCancel
      /\ svc'.plan = svc.plan /\ svc'.suspended = svc.suspended
  BY <1>0 DEF CancelSimple, SimpleCleared, Services
<1>3. \A m \in Requests : sr'[m].pc = sr[m].pc /\ sr'[m].task = sr[m].task /\ sr'[m].job = sr[m].job
  BY <1>0 DEF CancelSimple, Kill, SimpleRuns
<1>4. \A m \in Requests : Live(sr[m]) => m = r /\ running
  BY <1>0 DEF Inv, SimplesNamed
<1>5. ~running => NoSimples
  BY <1>4 DEF NoSimples
<1>6. /\ NoSimples' = NoSimples /\ LooseTame(mgr)' = LooseTame(mgr) /\ Resting' = Resting
      /\ RoutesLeft' = RoutesLeft /\ RoutesLeft
  BY <1>0, <1>2, <1>3 DEF NoSimples, LooseTame, Resting, RoutesLeft, Live, Inv, PastRoute
<1>7. Dormant' /\ Handling'
  BY <1>0, <1>1, <1>3 DEF Inv, Dormant, Handling, Sensible, Live
<1>8. OneWorking'
  BY <1>0, <1>1 DEF Inv, OneWorking, Working
<1>9. RoutesNamed'
  BY <1>0, <1>1, <1>2 DEF Inv, RoutesNamed
<1>10. SimplesNamed'
  BY <1>0, <1>1, <1>3, <1>4 DEF Inv, SimplesNamed, Live
<1>11. PastRoute'
  BY <1>0, <1>1, <1>6 DEF Inv, PastRoute
<1>12. PastSimple'
  BY <1>0, <1>1, <1>3, <1>4, <1>5, <1>6 DEF Inv, PastSimple, Live
<1>13. Moving'
  BY <1>0, <1>1, <1>2 DEF Inv, Moving, Working
<1>14. Rests' /\ SimpleAlone'
  BY <1>2, <1>6 DEF Inv, Rests, SimpleAlone
<1>15. Tame'
  BY <1>0, <1>1, <1>3, <1>6 DEF Inv, Tame, Driving
<1> QED
  BY <1>7, <1>8, <1>9, <1>10, <1>11, <1>12, <1>13, <1>14, <1>15 DEF Inv

\* The simple run it waited for is gone: there is none.
LEMMA SimpleGoneKeeps ==
    ASSUME Typed, Inv, NEW n \in Requests, SimpleGone(n)
    PROVE  Inv'
<1>0. /\ hd \in [Requests -> Handlers] /\ hd[n] \in Handlers /\ svc \in Services
      /\ hd[n].pc = "ws" /\ UNCHANGED <<requests, rt, sr, mgr, quiet>>
      /\ ~Live(sr[hd[n].on])
  BY PcsTyped DEF Typed, GoodHandlers, SimpleGone, Unhandled
<1>1. /\ \A m \in Requests : m # n => hd'[m] = hd[m]
      /\ hd'[n].op = hd[n].op /\ hd'[n].job = hd[n].job /\ hd'[n].wait = hd[n].wait
      /\ hd'[n].pc = "stop"
  BY <1>0 DEF SimpleGone, Handlers
<1>2. /\ svc'.routeTask = svc.routeTask /\ svc'.routeCancel = svc.routeCancel
      /\ svc'.plan = svc.plan /\ svc'.suspended = svc.suspended
  BY <1>0 DEF SimpleGone, SimpleCleared, Services
<1>3. NoSimples' /\ NoSimples
  BY <1>0 DEF Inv, PastSimple, NoSimples
<1>4. /\ RoutesLeft' = RoutesLeft /\ LooseTame(mgr)' = LooseTame(mgr) /\ Resting' = Resting
      /\ RoutesLeft
  BY <1>0, <1>2 DEF RoutesLeft, LooseTame, Resting, Inv, PastRoute
<1>5. Dormant' /\ Handling'
  BY <1>0, <1>1 DEF Inv, Dormant, Handling, Sensible
<1>6. OneWorking'
  BY <1>0, <1>1 DEF Inv, OneWorking, Working
<1>7. RoutesNamed'
  BY <1>0, <1>1, <1>2 DEF Inv, RoutesNamed
<1>8. SimplesNamed'
  BY <1>3 DEF SimplesNamed, NoSimples
<1>9. PastRoute' /\ PastSimple'
  BY <1>0, <1>1, <1>3, <1>4 DEF Inv, PastRoute, PastSimple
<1>10. Moving'
  BY <1>0, <1>1, <1>2 DEF Inv, Moving, Working
<1>11. Rests' /\ SimpleAlone'
  BY <1>2, <1>3, <1>4 DEF Inv, Rests, SimpleAlone
<1>12. Tame'
  BY <1>0, <1>1, <1>4 DEF Inv, Tame
<1> QED
  BY <1>5, <1>6, <1>7, <1>8, <1>9, <1>10, <1>11, <1>12 DEF Inv

\* The handler that called the navigator returns.
LEMMA NavigatorCalledKeeps ==
    ASSUME Typed, Inv, NEW n \in Requests, NavigatorCalled(n)
    PROVE  Inv'
<1> DEFINE op == hd[n].op
<1>0. /\ hd \in [Requests -> Handlers] /\ svc \in Services
      /\ hd[n].pc = "wj" /\ hd[n].job = "done" /\ op \in {"point", "plan", "suspend", "cancel"}
      /\ UNCHANGED <<requests, rt, sr, mgr>> /\ quiet' = (op \in {"suspend", "cancel"})
      /\ Working(n) /\ RoutesLeft /\ NoSimples
  BY PcsTyped DEF Typed, GoodHandlers, GoodHandler, NavigatorCalled, Inv, PastRoute, PastSimple, Working
<1>1. /\ \A m \in Requests : m # n => hd'[m] = hd[m] /\ ~Working(m) /\ ~Working(m)'
      /\ hd'[n].pc = "done" /\ hd'[n].job = "none" /\ hd'[n].op = "none"
      /\ ~Working(n)'
  BY <1>0 DEF NavigatorCalled, Returned, NoHandler, Inv, OneWorking, Working
<1>2. /\ svc'.routeTask = svc.routeTask /\ svc'.routeCancel = svc.routeCancel
      /\ svc'.simpleTask = svc.simpleTask /\ svc'.simpleCancel = svc.simpleCancel
  BY <1>0 DEF NavigatorCalled, Services
<1>3. RoutesLeft' /\ NoSimples' /\ LooseTame(mgr)' = LooseTame(mgr)
  BY <1>0 DEF RoutesLeft, NoSimples, LooseTame
<1>4. ASSUME op \in {"point", "plan"} PROVE Rests'
  <2>1. svc'.suspended = svc.suspended
    BY <1>0, <1>4 DEF NavigatorCalled, Services
  <2>2. ~Resting'
    BY <1>0, <1>4, <2>1 DEF Inv, Moving, Resting
  <2> QED
    BY <2>2 DEF Rests
<1>5. ASSUME op \in {"suspend", "cancel"} PROVE Rests'
  <2>1. svc'.plan.state \in {"none", "stopped"}
    <3>1. svc'.plan = StoppedPlan(svc.plan)
      BY <1>0, <1>5 DEF NavigatorCalled, Services
    <3> QED
      BY <1>0, <3>1 DEF StoppedPlan, Services, Plans
  <2>2. LooseTame(mgr)
    BY <1>0, <1>5 DEF Inv, Tame
  <2> QED
    BY <1>3, <2>1, <2>2 DEF Rests
<1>6. Dormant' /\ Handling' /\ OneWorking'
  BY <1>0, <1>1 DEF Inv, Dormant, Handling, Sensible, OneWorking, Returned, NoHandler, NavigatorCalled
<1>7. RoutesNamed' /\ SimplesNamed'
  BY <1>0, <1>1, <1>2 DEF Inv, RoutesNamed, SimplesNamed
<1>8. PastRoute' /\ PastSimple' /\ Moving'
  BY <1>1 DEF PastRoute, PastSimple, Moving, Working
<1>9. SimpleAlone' /\ Tame'
  BY <1>0, <1>1, <1>3 DEF Inv, SimpleAlone, Tame, Working
<1> QED
  BY <1>0, <1>4, <1>5, <1>6, <1>7, <1>8, <1>9 DEF Inv

\* A route starts when all others have been told to stop.
LEMMA StartRouteKeeps ==
    ASSUME Typed, Inv, NEW n \in Requests, StartRoute(n)
    PROVE  Inv'
<1> DEFINE h == hd[n]
<1>0. /\ hd \in [Requests -> Handlers] /\ svc \in Services /\ h.wait \in BOOLEAN
      /\ rt \in [Requests -> RouteRuns]
      /\ h.pc = "body" /\ h.op = "route"
      /\ UNCHANGED <<requests, sr, mgr, quiet>>
      /\ Working(n) /\ RoutesLeft /\ NoSimples
  BY PcsTyped DEF Typed, GoodHandlers, GoodRoutes, Handlers, StartRoute, Inv, PastRoute, PastSimple, Working
<1>1. /\ \A m \in Requests : m # n => hd'[m] = hd[m] /\ ~Working(m) /\ ~Working(m)'
      /\ hd'[n].pc = IF h.wait THEN "wrun" ELSE "done"
      /\ hd'[n].job = "none" /\ hd'[n].op = "none"
      /\ ~Working(n)'
  BY <1>0 DEF StartRoute, Returned, NoHandler, Inv, OneWorking, Working
<1>2. /\ svc'.routeTask = (IF h.wait THEN svc.routeTask ELSE n) /\ svc'.routeCancel = n
      /\ svc'.simpleTask = svc.simpleTask /\ svc'.simpleCancel = svc.simpleCancel
      /\ svc'.suspended = svc.suspended
  BY <1>0 DEF StartRoute, Services
<1>3. /\ \A m \in Requests : m # n => rt'[m] = rt[m]
      /\ rt'[n].task = ~h.wait /\ Live(rt'[n]) /\ rt'[n].event = FALSE
  BY <1>0 DEF StartRoute, NoRoute, Live
<1>4. NoSimples' /\ LooseTame(mgr)' = LooseTame(mgr) /\ ~Resting'
  BY <1>0, <1>2 DEF NoSimples, LooseTame, Resting, Inv, Moving
<1>5. Dormant' /\ Handling' /\ OneWorking'
  BY <1>0, <1>1, <1>3 DEF Inv, Dormant, Handling, Sensible, OneWorking
<1>6. RoutesNamed'
  BY ZenonT(40), <1>0, <1>1, <1>2, <1>3 DEF Inv, RoutesNamed, RoutesLeft
<1>7. SimplesNamed' /\ SimpleAlone' /\ Rests'
  BY <1>4 DEF SimplesNamed, NoSimples, SimpleAlone, Rests
<1>8. PastRoute' /\ PastSimple' /\ Moving'
  BY <1>1 DEF PastRoute, PastSimple, Moving, Working
<1>9. Tame'
  BY <1>0, <1>1, <1>4 DEF Inv, Tame, Working
<1> QED
  BY <1>5, <1>6, <1>7, <1>8, <1>9 DEF Inv

\* A simple go-to starts when no other is left.
LEMMA StartSimpleKeeps ==
    ASSUME Typed, Inv, NEW n \in Requests, StartSimple(n)
    PROVE  Inv'
<1> DEFINE h == hd[n]
<1>0. /\ hd \in [Requests -> Handlers] /\ svc \in Services /\ ~h.wait
      /\ sr \in [Requests -> SimpleRuns]
      /\ h.pc = "body" /\ h.op = "go"
      /\ UNCHANGED <<requests, rt, mgr, quiet>>
      /\ Working(n) /\ RoutesLeft /\ NoSimples
  BY PcsTyped DEF Typed, GoodHandlers, GoodSimples, Handlers, StartSimple, Inv, Handling, Sensible,
     PastRoute, PastSimple, Working
<1>1. /\ \A m \in Requests : m # n => hd'[m] = hd[m] /\ ~Working(m) /\ ~Working(m)'
      /\ hd'[n].pc = "done" /\ hd'[n].job = "none" /\ hd'[n].op = "none"
      /\ ~Working(n)'
  BY <1>0 DEF StartSimple, Returned, NoHandler, Inv, OneWorking, Working
<1>2. /\ svc'.routeTask = svc.routeTask /\ svc'.routeCancel = svc.routeCancel
      /\ svc'.simpleTask = n /\ svc'.suspended = svc.suspended
  BY <1>0 DEF StartSimple, Services
<1>3. /\ \A m \in Requests : m # n => sr'[m] = sr[m]
      /\ sr'[n].task = TRUE /\ sr'[n].pc = "created"
  BY <1>0 DEF StartSimple, NoSimple
<1>4. RoutesLeft' /\ LooseTame(mgr)' = LooseTame(mgr) /\ ~Resting'
  BY <1>0, <1>2 DEF RoutesLeft, LooseTame, Resting, Inv, Moving
<1>5. Dormant' /\ Handling' /\ OneWorking'
  BY <1>0, <1>1, <1>3 DEF Inv, Dormant, Handling, Sensible, OneWorking
<1>6. RoutesNamed'
  BY <1>0, <1>1, <1>2 DEF Inv, RoutesNamed, RoutesLeft
<1>7. SimplesNamed'
  BY <1>0, <1>2, <1>3 DEF SimplesNamed, NoSimples
<1>8. PastRoute' /\ PastSimple' /\ Moving'
  BY <1>1 DEF PastRoute, PastSimple, Moving, Working
<1>9. Tame' /\ SimpleAlone' /\ Rests'
  BY <1>0, <1>1, <1>3, <1>4 DEF Inv, Tame, Working, Driving, SimpleAlone, Rests
<1> QED
  BY <1>5, <1>6, <1>7, <1>8, <1>9 DEF Inv

\* Every step of a handler keeps the invariant.
LEMMA HandlerNextKeeps ==
    ASSUME Typed, Inv, NEW n \in Requests, HandlerNext(n)
    PROVE  Inv'
<1>0. /\ hd \in [Requests -> Handlers] /\ hd[n] \in Handlers /\ svc \in Services /\ Sensible(hd[n])
  BY PcsTyped DEF Typed, GoodHandlers, Inv, Handling
<1>1. /\ Returned.pc = "done" /\ Returned.job = "none" /\ Returned.op = "none"
  BY DEF Returned, NoHandler
<1>2. Sensible(Returned)
  BY <1>1 DEF Sensible
<1>3. CASE GotPose(n)
  <2>1. \/ svc' = Unsuspended /\ hd' = [hd EXCEPT ![n] = [hd[n] EXCEPT !.pc = "cr"]]
        \/ svc' = svc /\ hd' = [hd EXCEPT ![n] = Returned]
    BY <1>3 DEF GotPose
  <2>2. HandlerEffect(n)
    <3>1. CASE svc' = Unsuspended /\ hd' = [hd EXCEPT ![n] = [hd[n] EXCEPT !.pc = "cr"]]
      BY <1>0, <1>3, <3>1 DEF GotPose, HandlerEffect, Unhandled, Unsuspended, Services, Handlers, Sensible, Working
    <3>2. CASE svc' = svc /\ hd' = [hd EXCEPT ![n] = Returned]
      BY <1>0, <1>1, <1>2, <1>3, <3>2 DEF GotPose, HandlerEffect, Unhandled, Working
    <3> QED
      BY <2>1, <3>1, <3>2
  <2> QED
    BY <2>2, HandlerEffectKeeps
<1>4. CASE BaseStopped(n)
  <2>1. \/ hd' = [hd EXCEPT ![n] = [hd[n] EXCEPT !.pc = "body"]]
        \/ hd' = [hd EXCEPT ![n] = Returned]
    BY <1>4 DEF BaseStopped
  <2>2. /\ svc'.routeTask = svc.routeTask /\ svc'.routeCancel = svc.routeCancel
        /\ svc'.simpleTask = svc.simpleTask /\ svc'.simpleCancel = svc.simpleCancel
        /\ svc'.plan = svc.plan /\ svc'.suspended = svc.suspended
    BY <1>0, <1>4 DEF BaseStopped, Services
  <2>3. HandlerEffect(n)
    <3>1. CASE hd' = [hd EXCEPT ![n] = [hd[n] EXCEPT !.pc = "body"]]
      BY <1>0, <1>4, <2>2, <3>1 DEF BaseStopped, HandlerEffect, Unhandled, Handlers, Sensible, Working
    <3>2. CASE hd' = [hd EXCEPT ![n] = Returned]
      BY <1>0, <1>1, <1>2, <1>4, <2>2, <3>2 DEF BaseStopped, HandlerEffect, Unhandled, Working
    <3> QED
      BY <2>1, <3>1, <3>2
  <2> QED
    BY <2>3, HandlerEffectKeeps
<1>5. CASE CallNavigator(n)
  <2> DEFINE job == IF hd[n].op \in {"point", "plan"} THEN "navigate" ELSE "cancel"
  <2>1. hd' = [hd EXCEPT ![n] = [hd[n] EXCEPT !.pc = "wj", !.job = job]]
    BY <1>5 DEF CallNavigator
  <2>2. hd'[n].pc = "wj" /\ hd'[n].job = job /\ hd'[n].op = hd[n].op /\ hd'[n].wait = hd[n].wait
    BY <1>0, <2>1 DEF Handlers
  <2>3. Sensible(hd'[n]) /\ hd'[n].job # "done"
    BY <1>0, <1>5, <2>2 DEF Sensible, CallNavigator
  <2>4. HandlerEffect(n)
    BY <1>0, <1>5, <2>1, <2>2, <2>3 DEF CallNavigator, HandlerEffect, Unhandled, Working
  <2> QED
    BY <2>4, HandlerEffectKeeps
<1>6. CASE RunReturned(n)
  <2>1. HandlerEffect(n)
    BY <1>0, <1>1, <1>2, <1>6 DEF RunReturned, HandlerEffect, Unhandled
  <2> QED
    BY <2>1, HandlerEffectKeeps
<1> QED
  BY <1>3, <1>4, <1>5, <1>6, CancelRouteKeeps, RouteGoneKeeps, CancelSimpleKeeps, SimpleGoneKeeps,
     NavigatorCalledKeeps, StartRouteKeeps, StartSimpleKeeps DEF HandlerNext

-----------------------------------------------------------------------------
\* A request begins when no other is under way.
LEMMA BeginKeeps ==
    ASSUME Typed, Inv, Concurrent <= 1, NEW n \in Requests, NEW h \in Handlers, NEW s, Begin(n, h, s),
           h.pc \in {"pose", "cr", "cs"}, Sensible(h), h.pc = "cs" => RoutesLeft,
           /\ s.routeTask = svc.routeTask /\ s.routeCancel = svc.routeCancel
           /\ s.simpleTask = svc.simpleTask /\ s.simpleCancel = svc.simpleCancel,
           \/ s = svc /\ quiet' = quiet /\ h.op \in {"cancel", "suspend"}
           \/ s.suspended = NoSnapshot /\ s.plan = svc.plan /\ quiet' = quiet /\ h.op = "cancel"
           \/ s = svc /\ quiet' = FALSE /\ h.pc = "pose"
           \/ s.suspended = NoSnapshot /\ quiet' = FALSE
    PROVE  Inv'
<1>0. /\ hd \in [Requests -> Handlers] /\ n = requests + 1 /\ requests' = n
      /\ svc' = s /\ UNCHANGED <<rt, sr, mgr>> /\ requests \in Nat /\ MaxRequests \in Nat
  BY BoundsAreNats DEF Typed, GoodHandlers, GoodRest, Begin
<1>1. \A m \in Requests : ~Working(m)
  <2>1. IsFiniteSet(Requests)
    BY <1>0, FS_Interval DEF Requests
  <2>2. IsFiniteSet(UnderWay) /\ Cardinality(UnderWay) \in Nat
    BY <2>1, FS_Subset, FS_CardinalityType DEF UnderWay
  <2>3. Cardinality(UnderWay) = 0
    BY <2>2, BoundsAreNats DEF Begin
  <2>4. UnderWay = {}
    BY <2>2, <2>3, FS_EmptySet
  <2> QED
    BY <2>4 DEF UnderWay, Working, Live
<1>2. /\ hd'[n] = h
      /\ \A m \in Requests : m # n => /\ hd'[m].pc = hd[m].pc /\ hd'[m].op = hd[m].op
                                      /\ hd'[m].job = hd[m].job /\ hd'[m].wait = hd[m].wait
                                      /\ hd'[m].on = hd[m].on
  <2>1. hd'[n] = h
    BY DEF Begin
  <2>2. ASSUME NEW m \in Requests, m # n
        PROVE  \/ hd'[m] = hd[m]
               \/ hd'[m] = [hd[m] EXCEPT !.snap.old = TRUE]
    BY <2>2 DEF Begin
  <2>3. ASSUME NEW m \in Requests, m # n
        PROVE  /\ hd'[m].pc = hd[m].pc /\ hd'[m].op = hd[m].op
               /\ hd'[m].job = hd[m].job /\ hd'[m].wait = hd[m].wait
               /\ hd'[m].on = hd[m].on
    <3>1. CASE hd'[m] = hd[m]
      BY <3>1
    <3>2. CASE hd'[m] = [hd[m] EXCEPT !.snap.old = TRUE]
      <4> DEFINE x == [hd[m].snap EXCEPT !.old = TRUE]
      <4>1. hd'[m] = [hd[m] EXCEPT !.snap = x] /\ hd[m] \in Handlers
        BY <1>0, <3>2
      <4> HIDE DEF x
      <4> QED
        BY <4>1 DEF Handlers
    <3> QED
      BY <2>2, <2>3, <3>1, <3>2
  <2> QED
    BY <2>1, <2>3
<1>3. hd[n].pc = "none" /\ ~Live(rt[n]) /\ ~Live(sr[n])
  BY <1>0 DEF Inv, Dormant, Requests
<1>4. /\ RoutesLeft' = RoutesLeft /\ NoSimples' = NoSimples /\ LooseTame(mgr)' = LooseTame(mgr)
  BY <1>0 DEF RoutesLeft, NoSimples, LooseTame
<1>5. Dormant'
  BY <1>0, <1>2 DEF Inv, Dormant, Requests
<1>6. Handling' /\ OneWorking'
  BY <1>1, <1>2 DEF Inv, Handling, Sensible, OneWorking, Working
<1>7. RoutesNamed'
  BY <1>0, <1>2, <1>3 DEF Inv, RoutesNamed
<1>8. SimplesNamed'
  BY <1>0 DEF Inv, SimplesNamed
<1>9. PastRoute' /\ PastSimple'
  BY <1>1, <1>2, <1>4 DEF PastRoute, PastSimple, Working
<1>10. Moving'
  BY <1>0, <1>1, <1>2 DEF Moving, Working
<1>11. Rests'
  BY <1>0, <1>4 DEF Inv, Rests, Resting
<1>12. SimpleAlone' /\ Tame'
  BY <1>0, <1>1, <1>2, <1>4 DEF Inv, SimpleAlone, Tame, Working
<1> QED
  BY <1>5, <1>6, <1>7, <1>8, <1>9, <1>10, <1>11, <1>12 DEF Inv

\* Each kind of request keeps the invariant.
LEMMA BeginNextKeeps ==
    ASSUME Typed, Inv, Careful, NEW n \in Requests, BeginNext(n)
    PROVE  Inv'
<1> USE DEF Careful
<1> DEFINE Fits(h, pc, op) == h \in Handlers /\ Sensible(h) /\ h.pc = pc /\ h.op = op
<1>0. /\ svc \in Services /\ Unsuspended.suspended = NoSnapshot /\ Unsuspended.plan = svc.plan
      /\ Unsuspended.routeTask = svc.routeTask /\ Unsuspended.routeCancel = svc.routeCancel
      /\ Unsuspended.simpleTask = svc.simpleTask /\ Unsuspended.simpleCancel = svc.simpleCancel
      /\ GoodSnapshot(svc.suspended) /\ Asked \subseteq Places /\ NoHandler \in Handlers
  BY PcsTyped, ServiceAssumption, ConstantsGood DEF Unsuspended, Services, Places, GoodHandler
<1>1. /\ NoHandler.job = "none" /\ NoHandler.wait = FALSE
  BY DEF NoHandler
<1>5. ASSUME NEW to, NEW s, s = [Unsuspended EXCEPT !.plan = NewPlan(to)]
      PROVE  /\ s.suspended = NoSnapshot
             /\ s.routeTask = svc.routeTask /\ s.routeCancel = svc.routeCancel
             /\ s.simpleTask = svc.simpleTask /\ s.simpleCancel = svc.simpleCancel
  BY <1>0, <1>5 DEF Unsuspended, Services
<1>6. ASSUME NEW to \in Asked, BeginPoint(n, to) PROVE Inv'
  <2> DEFINE h == [NoHandler EXCEPT !.op = "point", !.to = to, !.pc = "cr"]
  <2>1. Fits(h, "cr", "point")
    BY <1>0, <1>1 DEF Handlers, Sensible
  <2>2. Begin(n, h, Unsuspended) /\ quiet' = FALSE
    BY <1>6 DEF BeginPoint
  <2> HIDE DEF h
  <2> QED
    BY <1>0, <2>1, <2>2, BeginKeeps
<1>7. ASSUME NEW to \in Asked, BeginPlan(n, to) PROVE Inv'
  <2> DEFINE h == [NoHandler EXCEPT !.op = "plan", !.to = to, !.pc = "cr"]
             s == [Unsuspended EXCEPT !.plan = NewPlan(to)]
  <2>1. Fits(h, "cr", "plan")
    BY <1>0, <1>1 DEF Handlers, Sensible
  <2>2. Begin(n, h, s) /\ quiet' = FALSE
    BY <1>7 DEF BeginPlan
  <2>3. /\ s.suspended = NoSnapshot
        /\ s.routeTask = svc.routeTask /\ s.routeCancel = svc.routeCancel
        /\ s.simpleTask = svc.simpleTask /\ s.simpleCancel = svc.simpleCancel
    BY <1>5
  <2> HIDE DEF h, s
  <2> QED
    BY <2>1, <2>2, <2>3, BeginKeeps
<1>8. ASSUME NEW r \in Starts, BeginRoute(n, r) PROVE Inv'
  <2>1. r.at \in 0 .. Len(Route) /\ r.loop \in BOOLEAN /\ r.wait \in BOOLEAN /\ r.nearest \in BOOLEAN
    BY <1>8, ServiceAssumption
  <2> DEFINE pc == IF r.nearest THEN "pose" ELSE "cr"
             h == [NoHandler EXCEPT !.op = "route", !.at = r.at, !.loop = r.loop, !.wait = r.wait, !.pc = pc]
             s == IF r.nearest THEN svc ELSE Unsuspended
  <2>2. pc \in {"pose", "cr"}
    OBVIOUS
  <2>3. Begin(n, h, s) /\ quiet' = FALSE
    BY <1>8 DEF BeginRoute
  <2>4. /\ s.routeTask = svc.routeTask /\ s.routeCancel = svc.routeCancel
        /\ s.simpleTask = svc.simpleTask /\ s.simpleCancel = svc.simpleCancel
        /\ (s = svc /\ pc = "pose") \/ s.suspended = NoSnapshot
    BY <1>0
  <2> HIDE DEF pc, s
  <2>5. Fits(h, pc, "route")
    BY <1>0, <1>1, <2>1, <2>2 DEF Handlers, Sensible
  <2> HIDE DEF h
  <2> QED
    BY <2>2, <2>3, <2>4, <2>5, BeginKeeps
<1>9. ASSUME NEW to \in Asked, NEW wait \in Waits, BeginGo(n, to, wait) PROVE Inv'
  <2> DEFINE h == [NoHandler EXCEPT !.op = "go", !.to = to, !.wait = FALSE, !.pc = "cr"]
  <2>1. Fits(h, "cr", "go")
    BY <1>0, <1>1 DEF Handlers, Sensible
  <2>2. Begin(n, h, Unsuspended) /\ quiet' = FALSE
    BY <1>9 DEF BeginGo
  <2> HIDE DEF h
  <2> QED
    BY <1>0, <2>1, <2>2, BeginKeeps
<1>10. CASE BeginCancel(n)
  <2> DEFINE h == [NoHandler EXCEPT !.op = "cancel", !.pc = "cr"]
  <2>1. h \in Handlers /\ Sensible(h) /\ h.pc = "cr" /\ h.op = "cancel"
    BY <1>0, <1>1 DEF Handlers, Sensible
  <2> QED
    BY <1>0, <1>10, <2>1, BeginKeeps DEF BeginCancel
<1>11. CASE BeginSuspend(n)
  <2> DEFINE h == [NoHandler EXCEPT !.op = "suspend", !.snap = Snapshot, !.pc = "cr"]
  <2>1. Snapshot \in Snapshots
    BY SnapshotTyped DEF GoodSnapshot
  <2>2. h \in Handlers /\ Sensible(h) /\ h.pc = "cr" /\ h.op = "suspend"
    BY <1>0, <1>1, <2>1 DEF Handlers, Sensible
  <2>3. Begin(n, h, svc) /\ quiet' = quiet
    BY <1>11 DEF BeginSuspend
  <2> HIDE DEF h
  <2> QED
    BY <2>2, <2>3, BeginKeeps
<1>12. CASE BeginResume(n)
  <2> DEFINE x == svc.suspended
             hr == [NoHandler EXCEPT !.op = "route", !.at = x.at, !.loop = x.loop, !.pc = "cr"]
             hg == [NoHandler EXCEPT !.op = "go", !.to = x.to, !.pc = "cs"]
             hp == [NoHandler EXCEPT !.op = "plan", !.to = x.to, !.pc = "cs"]
             h == CASE x.route -> hr
                    [] ~x.route /\ x.motion = "simple" -> hg
                    [] OTHER -> hp
             s == IF ~x.route /\ x.motion = "builtin"
                  THEN [Unsuspended EXCEPT !.plan = NewPlan(x.to)] ELSE Unsuspended
  <2>1. x.to \in Places /\ x.loop \in BOOLEAN /\ x.at \in 0 .. Len(Route) /\ x.route \in BOOLEAN
    BY <1>0 DEF GoodSnapshot, Snapshots
  <2>2. RoutesLeft
    BY <1>12 DEF BeginResume, Inv, Rests, Resting
  <2>3. Fits(hr, "cr", "route")
    BY <1>0, <1>1, <2>1 DEF Handlers, Sensible
  <2>4. Fits(hg, "cs", "go") /\ Fits(hp, "cs", "plan")
    BY <1>0, <1>1, <2>1 DEF Handlers, Sensible
  <2>5. /\ s.suspended = NoSnapshot
        /\ s.routeTask = svc.routeTask /\ s.routeCancel = svc.routeCancel
        /\ s.simpleTask = svc.simpleTask /\ s.simpleCancel = svc.simpleCancel
    BY <1>0, <1>5
  <2>6. Begin(n, h, s) /\ quiet' = FALSE
    BY <1>12 DEF BeginResume
  <2> HIDE DEF hr, hg, hp, s
  <2>7. h \in Handlers /\ Sensible(h) /\ h.pc \in {"cr", "cs"}
    BY <2>1, <2>3, <2>4
  <2> HIDE DEF h
  <2> QED
    BY <2>2, <2>5, <2>6, <2>7, BeginKeeps
<1> QED
  BY <1>6, <1>7, <1>8, <1>9, <1>10, <1>11, <1>12 DEF BeginNext

-----------------------------------------------------------------------------
(* Threads *)

\* A thread or a worker acts: only jobs, what they saw, and the navigator change.
ThreadEffect ==
    /\ UNCHANGED <<requests, svc, quiet>>
    /\ \A m \in Requests :
         /\ hd'[m].pc = hd[m].pc /\ hd'[m].op = hd[m].op /\ hd'[m].wait = hd[m].wait /\ hd'[m].on = hd[m].on
         /\ Sensible(hd'[m])
         /\ rt'[m].pc = rt[m].pc /\ rt'[m].event = rt[m].event /\ rt'[m].task = rt[m].task
         /\ sr'[m].pc = sr[m].pc /\ sr'[m].task = sr[m].task
         /\ Driving(sr'[m]) /\ ~Driving(sr[m]) => LooseTame(mgr)'
         /\ hd'[m].op \in {"cancel", "suspend"} /\ hd'[m].job = "done" /\ hd[m].job # "done" => LooseTame(mgr)'
    /\ \/ LooseTame(mgr)'
       \/ LooseTame(mgr) => LooseTame(mgr)'
       \/ \E m \in Requests : hd[m].pc = "wj" /\ hd[m].op \in {"point", "plan"}
       \/ ~RoutesLeft

\* Such a step keeps the invariant.
LEMMA ThreadEffectKeeps ==
    ASSUME Inv, ThreadEffect
    PROVE  Inv'
<1> USE DEF ThreadEffect
<1>1. RoutesLeft' = RoutesLeft /\ NoSimples' = NoSimples /\ Resting' = Resting
  BY DEF RoutesLeft, NoSimples, Resting, Live
<1>2. \A m \in Requests : Live(rt'[m]) = Live(rt[m]) /\ Live(sr'[m]) = Live(sr[m])
  BY DEF Live
<1>3. Dormant' /\ Handling' /\ OneWorking'
  BY <1>2 DEF Inv, Dormant, Handling, OneWorking, Working
<1>4. RoutesNamed' /\ SimplesNamed'
  BY <1>2 DEF Inv, RoutesNamed, SimplesNamed
<1>5. PastRoute' /\ PastSimple'
  BY <1>1, <1>2 DEF Inv, PastRoute, PastSimple
<1>6. Moving' /\ SimpleAlone'
  BY <1>1 DEF Inv, Moving, Working, SimpleAlone
<1>7. \/ LooseTame(mgr) => LooseTame(mgr)'
      \/ NoSimples /\ ~Resting /\ (\A m \in Requests : Working(m) => hd[m].op \in {"point", "plan"})
      \/ ~RoutesLeft
  <2>1. ASSUME NEW m \in Requests, hd[m].pc = "wj", hd[m].op \in {"point", "plan"}
        PROVE  NoSimples /\ ~Resting /\ (\A k \in Requests : Working(k) => hd[k].op \in {"point", "plan"})
    BY <2>1 DEF Inv, PastSimple, Moving, Resting, Working, OneWorking
  <2> QED
    BY <2>1
<1>8. Rests'
  BY <1>1, <1>7 DEF Inv, Rests
<1>9. Tame'
  <2>1. ASSUME NEW m \in Requests, Driving(sr'[m]) PROVE LooseTame(mgr)'
    <3>1. ~NoSimples
      BY <1>2, <2>1 DEF NoSimples, Driving, Live
    <3> QED
      BY <1>7, <2>1, <3>1 DEF Inv, SimpleAlone, Tame
  <2>2. ASSUME NEW m \in Requests, hd'[m].op \in {"cancel", "suspend"}, hd'[m].pc = "wj", hd'[m].job = "done"
        PROVE  LooseTame(mgr)'
    <3>1. Working(m) /\ RoutesLeft
      BY <2>2 DEF Working, Inv, PastRoute
    <3> QED
      BY <1>7, <2>2, <3>1 DEF Inv, Tame
  <2> QED
    BY <2>1, <2>2 DEF Tame
<1> QED
  BY <1>3, <1>4, <1>5, <1>6, <1>8, <1>9 DEF Inv

\* Helper threads, ghosts and workers have no other effect.
LEMMA ThreadsKeep ==
    ASSUME Typed, Inv,
           \/ \E n \in Requests : HandlerThread(n) \/ RouteThread(n) \/ SimpleThread(n)
           \/ GhostThread \/ \E g \in Goals : Worker(g)
    PROVE  Inv'
<1>0. /\ Orderly(mgr) /\ hd \in [Requests -> Handlers] /\ rt \in [Requests -> RouteRuns]
      /\ sr \in [Requests -> SimpleRuns]
      /\ \A m \in Requests : Sensible(hd[m])
  BY DEF Typed, GoodHandlers, GoodRoutes, GoodSimples, Inv, Handling
<1>1. LooseTame(Cancelled(mgr))
  BY <1>0, CancelledHolds
<1>2. ASSUME NEW n \in Requests, HandlerThread(n) PROVE ThreadEffect
  <2>1. /\ hd'[n].pc = hd[n].pc /\ hd'[n].op = hd[n].op /\ hd'[n].wait = hd[n].wait /\ hd'[n].on = hd[n].on
        /\ hd'[n].job = "done" /\ \A m \in Requests : m # n => hd'[m] = hd[m]
        /\ hd[n].job \in {"navigate", "cancel"}
    BY <1>0, <1>2 DEF HandlerThread, Handlers
  <2>2. hd[n].pc = "wj" /\ Sensible(hd'[n])
    BY <1>0, <2>1 DEF Sensible
  <2>3. CASE hd[n].job = "cancel"
    <3>1. LooseTame(mgr)'
      BY <1>1, <1>2, <2>3 DEF HandlerThread, LooseTame
    <3> QED
      BY <1>0, <1>2, <2>1, <2>2, <3>1 DEF HandlerThread, ThreadEffect
  <2>4. CASE hd[n].job = "navigate"
    <3>1. hd[n].op \in {"point", "plan"}
      BY <1>0, <2>4 DEF Sensible
    <3> QED
      BY <1>0, <1>2, <2>1, <2>2, <3>1 DEF HandlerThread, ThreadEffect
  <2> QED
    BY <2>1, <2>3, <2>4
<1>3. ASSUME NEW n \in Requests, RouteThread(n) PROVE ThreadEffect
  <2>1. /\ rt'[n].pc = rt[n].pc /\ rt'[n].task = rt[n].task /\ rt'[n].event = rt[n].event
        /\ \A m \in Requests : m # n => rt'[m] = rt[m]
    BY <1>0, <1>3 DEF RouteThread, RouteRuns
  <2>2. LooseTame(mgr)' \/ (LooseTame(mgr) => LooseTame(mgr)') \/ ~RoutesLeft
    <3>1. CASE rt[n].job = "cancel"
      BY <1>1, <1>3, <3>1 DEF RouteThread, LooseTame
    <3>2. CASE rt[n].job = "status"
      BY <1>3, <3>2 DEF RouteThread, LooseTame
    <3>3. CASE rt[n].job = "navigate"
      <4> DEFINE to == Route[rt[n].at]
      <4>1. GoodRoute(rt[n]) /\ Live(rt[n]) /\ to \in Places /\ rt[n].event \in BOOLEAN
        BY <3>3, PcsTyped, ServiceAssumption DEF GoodRoute, RouteRuns, Places
      <4>2. CanNavigate(mgr) /\ mgr' = Navigated(mgr, to, rt[n].event)
        BY <1>3, <3>3 DEF RouteThread
      <4>3. RoutesLeft => rt[n].event
        BY <4>1 DEF RoutesLeft
      <4> HIDE DEF to
      <4>4. rt[n].event => LooseTame(Navigated(mgr, to, rt[n].event))
        BY <1>0, <4>1, <4>2, NavigatedHolds
      <4> QED
        BY <4>2, <4>3, <4>4 DEF LooseTame
    <3> QED
      BY <1>3, <3>1, <3>2, <3>3 DEF RouteThread
  <2> QED
    BY <1>0, <1>3, <2>1, <2>2 DEF RouteThread, ThreadEffect
<1>4. ASSUME NEW n \in Requests, SimpleThread(n) PROVE ThreadEffect
  <2>1. /\ sr'[n].pc = sr[n].pc /\ sr'[n].task = sr[n].task /\ \A m \in Requests : m # n => sr'[m] = sr[m]
    BY <1>0, <1>4 DEF SimpleThread, SimpleRuns
  <2>2. LooseTame(mgr)'
    BY <1>1, <1>4 DEF SimpleThread, LooseTame
  <2> QED
    BY <1>0, <1>4, <2>1, <2>2 DEF SimpleThread, ThreadEffect
<1>5. ASSUME UNCHANGED <<requests, hd, rt, sr, svc, quiet>>, LooseTame(mgr) => LooseTame(mgr)' PROVE ThreadEffect
  BY <1>0, <1>5 DEF ThreadEffect
<1>6. CASE GhostThread
  <2>1. PICK gh \in ghosts :
            /\ gh.kind = "navigate" => CanNavigate(mgr)
            /\ mgr' = IF gh.kind = "cancel" THEN Cancelled(mgr) ELSE Navigated(mgr, gh.to, TRUE)
            /\ ghosts' = ghosts \ {gh}
            /\ UNCHANGED <<requests, hd, rt, sr, svc, quiet>>
    BY <1>6, Zenon DEF GhostThread
  <2>2. gh.to \in Places /\ gh.kind \in {"navigate", "cancel"}
    BY DEF Typed, GoodRest
  <2>3. LooseTame(mgr)'
    <3>1. CASE gh.kind = "cancel"
      BY <1>1, <2>1, <3>1 DEF LooseTame
    <3>2. CASE gh.kind = "navigate"
      <4>1. LooseTame(Navigated(mgr, gh.to, TRUE))
        BY <1>0, <2>1, <2>2, <3>2, NavigatedHolds
      <4> QED
        BY <2>1, <3>2, <4>1 DEF LooseTame
    <3> QED
      BY <2>2, <3>1, <3>2
  <2> QED
    BY <1>5, <2>1, <2>3, ThreadEffectKeeps
<1>7. ASSUME NEW g \in Goals, Worker(g) PROVE ThreadEffect
  <2>1. LooseTame(mgr) => LooseTame(mgr')
    BY <1>0, <1>7, WorkerHolds DEF Worker
  <2>2. LooseTame(mgr) => LooseTame(mgr)'
    BY <2>1 DEF LooseTame
  <2> QED
    BY <1>5, <1>7, <2>2 DEF Worker
<1> QED
  BY <1>2, <1>3, <1>4, <1>6, <1>7, ThreadEffectKeeps

-----------------------------------------------------------------------------
\* Nothing is under way at first.
LEMMA InitKept == Init => Inv
<1> SUFFICES ASSUME Init PROVE Inv
  OBVIOUS
<1>1. /\ \A n \in Requests : hd[n].pc = "none" /\ hd[n].job = "none" /\ hd[n].op = "none"
                             /\ ~Live(rt[n]) /\ ~Live(sr[n]) /\ ~Driving(sr[n]) /\ ~Working(n)
      /\ ~Resting
  BY DEF Init, NoHandler, NoRoute, NoSimple, Live, Driving, Working, Resting
<1>2. Dormant /\ Handling /\ OneWorking /\ RoutesNamed /\ SimplesNamed
  BY <1>1 DEF Dormant, Handling, Sensible, OneWorking, RoutesNamed, SimplesNamed
<1>3. PastRoute /\ PastSimple /\ Moving /\ Rests /\ SimpleAlone /\ Tame
  BY <1>1 DEF PastRoute, PastSimple, Moving, Rests, SimpleAlone, NoSimples, Tame
<1> QED
  BY <1>2, <1>3 DEF Inv

\* Every step keeps the invariant, for a careful client.
LEMMA NextKept == Careful => (Typed /\ Inv /\ [Next]_vars => Inv')
<1> SUFFICES ASSUME Careful, Typed, Inv, [Next]_vars PROVE Inv'
  OBVIOUS
<1>1. CASE UNCHANGED vars
  <2>1. RoutesLeft' = RoutesLeft /\ NoSimples' = NoSimples /\ LooseTame(mgr)' = LooseTame(mgr) /\ Resting' = Resting
    BY <1>1 DEF vars, RoutesLeft, NoSimples, LooseTame, Resting
  <2>2. Dormant' /\ Handling' /\ OneWorking' /\ RoutesNamed' /\ SimplesNamed'
    BY <1>1 DEF vars, Inv, Dormant, Handling, OneWorking, Working, RoutesNamed, SimplesNamed
  <2>3. PastRoute' /\ PastSimple' /\ Moving' /\ Rests' /\ SimpleAlone' /\ Tame'
    BY <1>1, <2>1 DEF vars, Inv, PastRoute, PastSimple, Moving, Working, Rests, SimpleAlone, Tame
  <2> QED
    BY <2>2, <2>3 DEF Inv
<1>2. CASE Query
  <2>1. /\ UNCHANGED <<requests, hd, rt, sr, mgr, quiet>>
        /\ svc'.routeTask = svc.routeTask /\ svc'.routeCancel = svc.routeCancel
        /\ svc'.simpleTask = svc.simpleTask /\ svc'.simpleCancel = svc.simpleCancel
        /\ svc'.suspended = svc.suspended /\ svc'.plan = Synced(svc.plan)
    BY <1>2 DEF Query, Typed, GoodService, Services
  <2>2. svc.plan.state \in {"none", "stopped"} => svc'.plan = svc.plan
    BY <2>1 DEF Synced
  <2>3. RoutesLeft' = RoutesLeft /\ NoSimples' = NoSimples /\ LooseTame(mgr)' = LooseTame(mgr) /\ Resting' = Resting
    BY <2>1 DEF RoutesLeft, NoSimples, LooseTame, Resting
  <2>4. Dormant' /\ Handling' /\ OneWorking' /\ RoutesNamed' /\ SimplesNamed'
    BY <2>1 DEF Inv, Dormant, Handling, OneWorking, Working, RoutesNamed, SimplesNamed
  <2>5. PastRoute' /\ PastSimple' /\ Moving' /\ Rests' /\ SimpleAlone' /\ Tame'
    BY <2>1, <2>2, <2>3 DEF Inv, PastRoute, PastSimple, Moving, Working, Rests, SimpleAlone, Tame
  <2> QED
    BY <2>4, <2>5 DEF Inv
<1> QED
  BY <1>1, <1>2, BeginNextKeeps, HandlerNextKeeps, RouteNextEffect, RouteEffectKeeps,
     SimpleNextEffect, SimpleEffectKeeps, ThreadsKeep DEF Next

\* The inductive invariant holds.
LEMMA ServiceInductive == Careful => (Spec => [](Typed /\ Inv))
<1> SUFFICES ASSUME Careful PROVE Spec => [](Typed /\ Inv)
  OBVIOUS
<1>1. Init => Typed /\ Inv
  BY InitTyped, InitKept
<1>2. Typed /\ Inv /\ [Next]_vars => (Typed /\ Inv)'
  BY NextTyped, NextKept
<1> QED
  BY <1>1, <1>2, PTL DEF Spec

\* Every run not yet told to stop is named by the service's handles, so that
\* the next request cancels it (_cancel_route, _cancel_simple_nav).
THEOREM RunsAreOwned ==
    ASSUME Careful
    PROVE  Spec => []HandlesOwned
<1>1. Typed /\ Inv => HandlesOwned
  BY DEF Inv, RoutesNamed, SimplesNamed, HandlesOwned
<1> QED
  BY <1>1, ServiceInductive, PTL

\* After cancel, stop_plan or suspend no run is left, no plan is in progress
\* and the navigator has no goal but those that escaped the cancel.
THEOREM NothingGoesOn ==
    ASSUME Careful
    PROVE  Spec => []StoppedMeansStill
<1>1. Typed /\ Inv => StoppedMeansStill
  <2> SUFFICES ASSUME Inv, Stopped PROVE StoppedMeansStill
    BY DEF StoppedMeansStill
  <2>1. RoutesLeft /\ NoSimples /\ svc.plan.state \in {"none", "stopped"} /\ LooseTame(mgr)
    BY DEF Inv, Rests, Resting, Stopped
  <2>2. \A n \in Requests : ~Live(rt[n])
    BY <2>1 DEF RoutesLeft, Inv, RoutesNamed, Stopped, Live
  <2> QED
    BY <2>1, <2>2 DEF StoppedMeansStill, NoSimples, LooseTame
<1> QED
  BY <1>1, ServiceInductive, PTL

\* While a simple run drives, the navigator has no goal of its own.
THEOREM OnlyOneMover ==
    ASSUME Careful
    PROVE  Spec => []OneMover
<1>1. Typed /\ Inv => OneMover
  BY DEF Inv, Tame, Driving, OneMover, LooseTame
<1> QED
  BY <1>1, ServiceInductive, PTL
=============================================================================

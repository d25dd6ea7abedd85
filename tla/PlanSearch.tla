----------------------------- MODULE PlanSearch -----------------------------
(***************************************************************************)
(* One call of NavSupervisor.plan: the costmap is built from the map and   *)
(* the live obstacles, start and goal are snapped to free cells, A* or     *)
(* Lazy Theta* searches, the cells are repaired and simplified, a robot    *)
(* that does not fit at the plan's start gets a second search in front of  *)
(* the first, and the whole is pulled straight (nav/planning/planner.py,   *)
(* smoother.py).  Lazy Theta* gives a cell the parent of its parent before *)
(* it knows whether the two see each other, and mends that only when the   *)
(* cell is expanded.                                                       *)
(*                                                                         *)
(* A point of a path is the cell it lies in.  The resampling of the        *)
(* smoothed path is left out.                                              *)
(***************************************************************************)
EXTENDS PlanGrid

\* [alg, pose, goal, occ, unknown, reach, hits, view, blocked]: the planner, the
\* request, the map, the inflation, the live hits, the cells of the local
\* window with a cost of 200 and more, and the route that is blocked.
CONSTANT Jobs

ASSUME JobsAssumption ==
    \A j \in Jobs : /\ j.pose \in Cells /\ j.goal \in Nat \X Nat /\ j.occ \subseteq Cells
                    /\ j.reach \in [hard : Nat, soft : Nat, prefer : Nat]

VARIABLES job,      \* the request
          leg,      \* "main", or "bridge" from the robot to the plan's start
          stage,    \* what the call does next, or how it ended
          costs, from, to,
          g,        \* what is known of the cost of the cells reached so far
          parent, queue, open, closed, pushes,
          route,    \* the cells of the path so far
          main      \* the path of the main leg while the bridge is searched

planVars == <<job, leg, stage, costs, from, to, g, parent, queue, open, closed, pushes, route, main>>

\* plan_path: hits of the scan and of the local window, the corridor paint for
\* the main leg, the inflation, the live costs on top.
PlanCosts(j, l) ==
    LET live == MarkLocal(MarkScan(j.occ, j.hits), j.hits)
        sealed == MarkPathAhead(MarkPathBlock(live, j.blocked, j.view), j.blocked)
        occ == IF l = "main" THEN sealed ELSE live
    IN Overlay(BuildCostmap(occ, j.unknown \ occ, j.reach), j.view)

\* The start of the plan: a place near the robot where it fits, unless an
\* obstacle lies between.
StartCells(cs, pose) ==
    {c \in NearestFreePose(cs, pose) : ~SegmentCrossesLethal(cs, pose, c)}

Target == IF leg = "main" THEN job.goal ELSE main[1]

-----------------------------------------------------------------------------
PlanInit ==
    /\ job \in Jobs
    /\ leg = "main" /\ stage = "prepare"
    /\ costs = [c \in Cells |-> 0] /\ from = job.pose /\ to = job.goal
    /\ g = [c \in {} |-> 0] /\ parent = [c \in Cells |-> c]
    /\ queue = {} /\ open = {} /\ closed = {} /\ pushes = 0
    /\ route = <<>> /\ main = <<>>

Task == <<job, leg, main>>
Search == <<g, parent, queue, open, closed, pushes>>

\* plan_on_costmap up to the search: the reasons for which there is no plan.
Refuse ==
    /\ stage = "prepare"
    /\ LET cs == PlanCosts(job, leg)
           starts == StartCells(cs, job.pose)
           goals == NearestFreeCell(cs, Target)
       IN \/ /\ starts # {} /\ \E t \in goals : D2(t, Target) > MaxGoalSnap2
             /\ stage' = "goal snap"
          \/ starts = {} /\ stage' = "start blocked"
          \/ starts # {} /\ goals = {} /\ stage' = "goal blocked"
    /\ UNCHANGED <<Task, costs, from, to, Search, route>>

Prepare ==
    /\ stage = "prepare"
    /\ costs' = PlanCosts(job, leg)
    /\ from' \in StartCells(costs', job.pose)
    /\ to' \in NearestFreeCell(costs', Target)
    /\ D2(to', Target) <= MaxGoalSnap2
    /\ stage' = "search"
    /\ g' = [c \in {from'} |-> 0]
    /\ parent' = [c \in Cells |-> c]
    /\ queue' = {[f |-> Heuristic(from', to'), n |-> 0, cell |-> from']}
    /\ open' = {from'} /\ closed' = {} /\ pushes' = 0
    /\ UNCHANGED <<Task, route>>

-----------------------------------------------------------------------------
(* The search *)

\* heapq: the least f, and of equals the one pushed first.
IsLeast(e) == \A d \in queue : e.f < d.f \/ (e.f = d.f /\ e.n <= d.n)

\* Entries of cells that were expanded in the meantime are dropped.
Stale(e) == IF job.alg = "theta" THEN e.cell \notin open ELSE e.cell \in closed

SkipStale(e) ==
    /\ Stale(e)
    /\ queue' = queue \ {e}
    /\ UNCHANGED <<Task, stage, costs, from, to, g, parent, open, closed, pushes, route>>

\* The cheapest of the cells S for s, by price, and of equals the one tried first.
Cheapest(S, s, price) ==
    {n \in S : \A m \in S : price[n] < price[m] \/ (price[n] = price[m] /\ Rank(s, n) <= Rank(s, m))}

\* A mutant: without a visible closed neighbour the assumed parent stays.
SetVertexKeepsBlind(s) ==
    LET near == {n \in Near(s) \cap closed : IsTraversable(costs, n)}
        seen == {n \in near : LineOfSight(costs, n, s)}
        chord == [n \in seen |-> g[n] + SegmentCost(costs, n, s)]
    IN IF parent[s] = s \/ LineOfSight(costs, parent[s], s) \/ seen = {}
       THEN {[parent |-> parent[s], g |-> g[s]]}
       ELSE {[parent |-> n, g |-> chord[n]] : n \in Cheapest(seen, s, chord)}

\* _set_vertex: the parent and the cost of s when it is expanded.  The assumed
\* parent stays if s sees it; otherwise a closed neighbour that s sees, and if
\* there is none any closed neighbour.
SetVertex(s) ==
    LET near == {n \in Near(s) \cap closed : IsTraversable(costs, n)}
        seen == {n \in near : LineOfSight(costs, n, s)}
        chord == [n \in seen |-> g[n] + SegmentCost(costs, n, s)]
        step == [n \in near |-> g[n] + CellStepCost(costs, n, s)]
    IN IF parent[s] = s \/ LineOfSight(costs, parent[s], s) \/ near = {}
       THEN {[parent |-> parent[s], g |-> g[s]]}
       ELSE IF seen # {}
       THEN {[parent |-> n, g |-> chord[n]] : n \in Cheapest(seen, s, chord)}
       ELSE {[parent |-> n, g |-> step[n]] : n \in Cheapest(near, s, step)}

\* A*'s parent is right from the start.
Settled(s) == IF job.alg = "theta" THEN SetVertex(s) ELSE {[parent |-> parent[s], g |-> g[s]]}

\* The cost of n and the cell it is reached from, when s is expanded with the
\* settled parent p: Lazy Theta* assumes that n sees p.
From(s, p) == IF job.alg = "theta" THEN p ELSE s
Offer(gs, s, p, n) ==
    IF job.alg = "theta" THEN gs[p] + SegmentCost(costs, p, n) ELSE gs[s] + CellStepCost(costs, s, n)

\* A mutant: only cells clear of every halo.
ImprovedClear(gs, s, p) ==
    {n \in Near(s) \cap Open(costs) :
        /\ job.alg = "theta" => n \notin closed
        /\ costs[n] <= LosMaxSoftCost
        /\ n \notin DOMAIN gs \/ Offer(gs, s, p, n) < gs[n]}

\* The neighbours that s improves.
Improved(gs, s, p) ==
    {n \in Near(s) \cap Open(costs) :
        /\ job.alg = "theta" => n \notin closed
        /\ n \notin DOMAIN gs \/ Offer(gs, s, p, n) < gs[n]}

Expand(e) ==
    LET s == e.cell
    IN /\ ~Stale(e) /\ s # to
       /\ \E v \in Settled(s) :
            LET gs == [g EXCEPT ![s] = v.g]
                better == Improved(gs, s, v.parent)
                offer(n) == Offer(gs, s, v.parent, n)
            IN /\ g' = [n \in DOMAIN g \cup better |-> IF n \in better THEN offer(n) ELSE gs[n]]
               /\ parent' = [n \in Cells |-> IF n \in better THEN From(s, v.parent)
                                             ELSE IF n = s THEN v.parent ELSE parent[n]]
               /\ queue' = (queue \ {e}) \cup
                    {[f |-> offer(n) + Heuristic(n, to), n |-> pushes + Rank(s, n), cell |-> n] : n \in better}
               /\ open' = (open \ {s}) \cup better
       /\ closed' = closed \cup {s}
       /\ pushes' = pushes + Len(Offsets)
       /\ UNCHANGED <<Task, stage, costs, from, to, route>>

\* The cell k parents above the goal.
Ancestor(par) == LET Back[k \in 0 .. Cardinality(Cells)] == IF k = 0 THEN to ELSE par[Back[k - 1]] IN Back

\* _reconstruct: from the goal along the parents.
Reconstruct(par) ==
    LET back == Ancestor(par)
        last == SetMin({k \in 0 .. Cardinality(Cells) : par[back[k]] = back[k]} \cup {Cardinality(Cells)})
    IN [i \in 1 .. last + 1 |-> back[last + 1 - i]]

Reach(e) ==
    /\ ~Stale(e) /\ e.cell = to
    /\ \E v \in Settled(to) :
         /\ parent' = [parent EXCEPT ![to] = v.parent]
         /\ g' = [g EXCEPT ![to] = v.g]
    /\ route' = Reconstruct(parent')
    /\ stage' = "found"
    /\ queue' = queue \ {e} /\ open' = open \ {to}
    /\ UNCHANGED <<Task, costs, from, to, closed, pushes>>

Pop == stage = "search" /\ \E e \in queue : IsLeast(e) /\ (SkipStale(e) \/ Expand(e) \/ Reach(e))

Exhausted ==
    /\ stage = "search" /\ queue = {}
    /\ stage' = "no path"
    /\ UNCHANGED <<Task, costs, from, to, Search, route>>

-----------------------------------------------------------------------------
(* From the cells to the path *)

\* Two cells of the search's path that are neither neighbours nor in sight:
\* _repair_cell_path would plan between them.  PathClear says there are none,
\* so the repair is left out.
HasGap(cells) ==
    \E i \in 1 .. Len(cells) - 1 :
        /\ cells[i + 1] \notin Near(cells[i]) \cup {cells[i]}
        /\ ~LineOfSight(costs, cells[i], cells[i + 1])

\* The path up to the i-th cell, with the cells that its chords cross.
Chained(cells) ==
    LET Chain[i \in 1 .. Len(cells)] ==
            IF i = 1 THEN <<cells[1]>>
            ELSE IF cells[i] = cells[i - 1] THEN Chain[i - 1]
            ELSE Chain[i - 1] \o Tail(Line[<<cells[i - 1], cells[i]>>])
    IN Chain

\* _repair_cell_path: chords become the cells they cross.
RepairCellPath(cells) == Chained(cells)[Len(cells)]

Straight(a, b, c) ==
    /\ (b[1] - a[1]) * (c[2] - b[2]) = (c[1] - b[1]) * (b[2] - a[2])
    /\ (b[1] - a[1]) * (c[2] - a[2]) = (c[1] - a[1]) * (b[2] - a[2])

\* The cells kept of the first i: those on a straight line between the last
\* one kept and the next one are dropped.
KeptCells(cells) ==
    LET Kept[i \in 1 .. Len(cells) - 1] ==
            IF i = 1 THEN <<cells[1]>>
            ELSE LET out == Kept[i - 1]
                 IN IF Straight(out[Len(out)], cells[i], cells[i + 1]) THEN out ELSE Append(out, cells[i])
    IN Kept

\* _simplify
Simplify(cells) ==
    IF Len(cells) <= 2 THEN cells ELSE Append(KeptCells(cells)[Len(cells) - 1], cells[Len(cells)])

\* The farthest later point that the i-th one sees, or else the next one.
Farthest(cs, points, i) ==
    LET far == {k \in i + 1 .. Len(points) : /\ LineOfSight(cs, points[i], points[k])
                                             /\ SegmentTraversable(cs, points[i], points[k], LosMaxSoftCost)}
    IN IF far = {} THEN i + 1 ELSE CHOOSE k \in far : \A m \in far : m <= k

\* The points that are kept, by number: from the first, pull by pull, to the last.
Pulled(cs, points) ==
    LET Pull[n \in 1 .. Len(points)] ==
            IF n = 1 THEN <<1>>
            ELSE LET out == Pull[n - 1]
                 IN IF out[Len(out)] = Len(points) THEN out ELSE Append(out, Farthest(cs, points, out[Len(out)]))
    IN Pull[Len(points)]

\* _shortcut_smooth: from every point to the farthest later one in sight.
ShortcutSmooth(cs, points) ==
    LET kept == Pulled(cs, points)
    IN IF Len(points) < 3 THEN points ELSE [i \in DOMAIN kept |-> points[kept[i]]]

\* _merge_path_prefix
MergePathPrefix(prefix, path) ==
    IF prefix[Len(prefix)] = path[1] THEN SubSeq(prefix, 1, Len(prefix) - 1) \o path ELSE prefix \o path

\* The points of a leg; a plan that ends where it starts has both points.
Points == LET cells == Simplify(RepairCellPath(route)) IN IF Len(cells) = 1 THEN cells \o cells ELSE cells

\* connect_plan_start: the robot fits where it stands, or the way to the
\* plan's start is planned too, on a map without the corridor paint.
NeedsBridge == leg = "main" /\ ~FootprintTraversable(costs, job.pose)

Connect ==
    /\ stage = "found" /\ ~HasGap(route) /\ NeedsBridge
    /\ main' = Points /\ leg' = "bridge" /\ stage' = "prepare"
    /\ route' = <<>>
    /\ UNCHANGED <<job, costs, from, to, Search>>

\* smooth_path takes the costs the planner used for the main leg.
SmoothCostsStatic == BuildCostmap(job.occ, job.unknown, job.reach)     \* a mutant
SmoothCosts == PlanCosts(job, "main")

Finish ==
    /\ stage = "found" /\ ~HasGap(route) /\ ~NeedsBridge
    /\ LET whole == IF leg = "bridge" THEN MergePathPrefix(Points, main) ELSE Points
       IN route' = ShortcutSmooth(SmoothCosts, whole)
    /\ stage' = "done"
    /\ UNCHANGED <<Task, costs, from, to, Search>>

PlanNext == Refuse \/ Prepare \/ Pop \/ Exhausted \/ Connect \/ Finish

PlanSpec == PlanInit /\ [][PlanNext]_planVars

-----------------------------------------------------------------------------
(* Properties *)

\* Every expanded cell has a parent that was expanded too and that it sees or
\* touches, however wrong the parent was that the lazy search had assumed: so
\* no path it returns jumps.  (_lazy_theta_star, _set_vertex)
ClosedParents ==
    stage = "search" =>
        \A c \in closed : /\ parent[c] \in closed
                          /\ \/ parent[c] = c \/ parent[c] \in Near(c)
                             \/ LineOfSight(costs, parent[c], c)

\* The path that is handed to the follower begins where the robot can stand,
\* and it has no jumps, and the cells it runs through, whether it was pulled straight or bridged to
\* the robot, are all cells that the live map leaves open.
\* (plan_on_costmap, connect_plan_start, smooth_path)
PathClear ==
    /\ stage = "found" => ~HasGap(route)
    /\ stage = "done" =>
         /\ route[1] \in StartCells(costs, job.pose)
         /\ \A i \in 1 .. Len(route) - 1 :
                \A k \in DOMAIN Line[<<route[i], route[i + 1]>>] :
                    Line[<<route[i], route[i + 1]>>][k] \in Open(PlanCosts(job, "bridge"))

\* The planner says that there is no path only when there is none: the cells
\* it expanded hold the start, not the goal, and no open cell that is not one
\* of them touches any of them.  (_astar, _lazy_theta_star)
NoPathMeansCut ==
    stage = "no path" =>
        /\ from \in closed /\ to \notin closed
        /\ \A c \in closed : Near(c) \cap Open(costs) \subseteq closed
=============================================================================

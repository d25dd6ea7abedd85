------------------------------ MODULE PlanGrid ------------------------------
(***************************************************************************)
(* The grid the global planner works on: the layered costs built from the  *)
(* map and the live obstacles, the Bresenham lines, line of sight, the     *)
(* cost of a chord, and the cells a plan starts and ends in                *)
(* (nav/planning/costmap.py, planner.py).                                  *)
(*                                                                         *)
(* Lengths are hundredths of a cell and cost multipliers hundredths, so a  *)
(* step through a free cell costs 10000; the diagonal is rounded up and    *)
(* the heuristic down, which keeps the heuristic consistent as it is in    *)
(* the code's floats.                                                      *)
(***************************************************************************)
EXTENDS Integers, Sequences, FiniteSets

CONSTANTS Rows, Cols,      \* the size of the grid
          SnapRadius,      \* rings searched for a free cell (40 in the code)
          MaxGoalSnap2     \* max_goal_snap_m, squared, in cells

ASSUME GridAssumption == Rows \in Nat \ {0} /\ Cols \in Nat \ {0} /\ SnapRadius \in Nat

Cells == (0 .. Rows - 1) \X (0 .. Cols - 1)

Lethal == 254
Inscribed == 253
HardBuffer == 252
Unknown == 255
SoftCost == 150      \* a cell of the inflation halo
PreferCost == 40     \* a cell of the clearance preference band
LosMaxSoftCost == 30

Abs(n) == IF n < 0 THEN -n ELSE n
Larger(m, n) == IF m < n THEN n ELSE m
SetMin(S) == CHOOSE m \in S : \A n \in S : m <= n
D2(a, b) == (a[1] - b[1]) * (a[1] - b[1]) + (a[2] - b[2]) * (a[2] - b[2])

\* 100 * sqrt(d), rounded down.
Root == [d \in 0 .. (Rows * Rows + Cols * Cols) |->
            CHOOSE r \in 0 .. 100 * (Rows + Cols) :
                r * r <= 10000 * d /\ 10000 * d < (r + 1) * (r + 1)]

Heuristic(a, b) == 100 * Root[D2(a, b)]

-----------------------------------------------------------------------------
(* The costmap *)

\* mark_points_on_occupancy: a disk of one cell's radius around every point.
Marked(occ, points) == occ \cup {c \in Cells : \E p \in points : D2(c, p) <= 1}

\* mark_scan_on_occupancy, mark_local_costmap_on_occupancy: hits on mapped
\* walls are not painted again.
MarkScan(occ, hits) == Marked(occ, hits \ occ)
MarkLocal(occ, hits) == Marked(occ, hits \ occ)

\* The part of a route, given cell by cell, that a corridor paint covers: the
\* cells under the robot's own footprint and under the goal's stay open.
Ahead(route, from, to) == {route[i] : i \in {j \in DOMAIN route : from < j /\ j <= Len(route) - to}}

MarkPathAhead(occ, route) == Marked(occ, Ahead(route, 2, 2))

MarkPathBlock(occ, route, view) ==
    Marked(occ, {c \in Ahead(route, 1, 2) : c \in view})

\* _limited_cell_distance, _ring_cell_distance: squared, to the nearest occupied cell.
CellDistance(occ, c) == SetMin({D2(c, o) : o \in occ})

\* build_costmap: occupied cells are inflated, unknown ones are not; reach
\* holds the squared radii of the hard disk, the halo and the preference band.
BuildCostmap(occ, unknown, reach) ==
    LET dist(c) == CellDistance(occ, c)
        inflated(c) == IF dist(c) <= reach.hard THEN Inscribed
                       ELSE IF dist(c) <= reach.soft THEN SoftCost
                       ELSE IF dist(c) <= reach.prefer THEN PreferCost
                       ELSE 0
    IN [c \in Cells |-> IF c \in occ THEN Lethal
                        ELSE IF c \in unknown THEN Unknown
                        ELSE IF occ = {} THEN 0 ELSE inflated(c)]

\* overlay_local_costs_on_costmap: live costs of 200 and more raise the cell.
Overlay(costs, view) == [c \in Cells |-> IF c \in view THEN Larger(costs[c], Inscribed) ELSE costs[c]]

IsTraversable(costs, c) == costs[c] < HardBuffer
Open(costs) == {c \in Cells : IsTraversable(costs, c)}

-----------------------------------------------------------------------------
(* Where a plan starts and ends *)

Plus(c) == {<<c[1] + d[1], c[2] + d[2]>> : d \in {<<0, 0>>, <<1, 0>>, <<-1, 0>>, <<0, 1>>, <<0, -1>>}}
FootprintTraversable(costs, c) == Plus(c) \subseteq Open(costs)

Ring(c, r) == {d \in Cells : Larger(Abs(d[1] - c[1]), Abs(d[2] - c[2])) = r}

\* The order in which _ring_offsets lists the cells: by row, then by column.
ReadsFirst(a, b) == a[1] < b[1] \/ (a[1] = b[1] /\ a[2] <= b[2])

\* nearest_free_pose: the first cell, ring by ring, on which the robot's disk fits.
\* The result is a set, empty when there is none.
NearestFreePose(costs, pose) ==
    LET fits(r) == {c \in Ring(pose, r) : FootprintTraversable(costs, c)}
        rings == {r \in 0 .. SnapRadius : fits(r) # {}}
    IN IF rings = {} THEN {}
       ELSE {c \in fits(SetMin(rings)) : \A d \in fits(SetMin(rings)) : ReadsFirst(c, d)}

\* nearest_free_cell: on the first ring with a free cell, the one closest to the cell.
NearestFreeCell(costs, cell) ==
    LET free(r) == Ring(cell, r) \cap Open(costs)
        rings == {r \in 0 .. SnapRadius : free(r) # {}}
        nearest(S) == {c \in S : \A d \in S : D2(c, cell) <= D2(d, cell)}
    IN IF rings = {} THEN {}
       ELSE {c \in nearest(free(SetMin(rings))) : \A d \in nearest(free(SetMin(rings))) : ReadsFirst(c, d)}

-----------------------------------------------------------------------------
(* Lines *)

\* The cell and the error after k steps from a towards b.
Trace(a, b) ==
    LET dy == Abs(b[1] - a[1])
        dx == Abs(b[2] - a[2])
        sy == IF b[1] >= a[1] THEN 1 ELSE -1
        sx == IF b[2] >= a[2] THEN 1 ELSE -1
        At[k \in 0 .. Larger(dx, dy)] ==
            IF k = 0 THEN [cell |-> a, err |-> dx - dy]
            ELSE LET p == At[k - 1]
                     alongX == 2 * p.err > -dy
                     alongY == 2 * p.err < dx
                 IN [cell |-> <<p.cell[1] + (IF alongY THEN sy ELSE 0), p.cell[2] + (IF alongX THEN sx ELSE 0)>>,
                     err |-> p.err - (IF alongX THEN dy ELSE 0) + (IF alongY THEN dx ELSE 0)]
    IN At

\* bresenham_cells
Bresenham(a, b) ==
    LET trace == Trace(a, b)
    IN [k \in 1 .. Larger(Abs(b[2] - a[2]), Abs(b[1] - a[1])) + 1 |-> trace[k - 1].cell]

Line == [p \in Cells \X Cells |-> Bresenham(p[1], p[2])]

\* line_of_sight: only near-free cells, and a diagonal step only when both
\* cells beside it are near-free too.
LineOfSight(costs, a, b) ==
    LET line == Line[<<a, b>>]
        clear(c) == costs[c] <= LosMaxSoftCost
    IN /\ \A k \in DOMAIN line : clear(line[k])
       /\ \A k \in 1 .. Len(line) - 1 :
              LET c == line[k] d == line[k + 1]
              IN (c[1] # d[1] /\ c[2] # d[2]) => clear(<<c[1], d[2]>>) /\ clear(<<d[1], c[2]>>)

\* world_segment_traversable between two cell centres, sampled about once a cell.
SegmentTraversable(costs, a, b, limit) ==
    LET n == Larger(1, (Root[D2(a, b)] + 99) \div 100)
        along(x, y, k) == (2 * n * x + n + 2 * k * (y - x)) \div (2 * n)
    IN \A k \in 0 .. n : costs[<<along(a[1], b[1], k), along(a[2], b[2], k)>>] <= limit

\* _segment_crosses_lethal: leaving the obstacle one stands in is allowed,
\* entering one after it is not.  Sampled twice a cell.
SegmentCrossesLethal(costs, a, b) ==
    LET n == (2 * Root[D2(a, b)] + 99) \div 100
        along(x, y, k) == (2 * n * x + n + 2 * k * (y - x)) \div (2 * n)
        lethal(k) == costs[<<along(a[1], b[1], k), along(a[2], b[2], k)>>] = Lethal
    IN D2(a, b) > 1 /\ \E i, k \in 0 .. n - 1 : i < k /\ ~lethal(i) /\ lethal(k)

-----------------------------------------------------------------------------
(* What a step and a chord cost *)

\* _cost_multiplier; a hard cell's 10^6 is 10^4 here, still above every path
\* of this grid.
Multiplier(cost) ==
    IF cost >= HardBuffer THEN 1000000
    ELSE 100 + (2500 * cost) \div 252 + (12000 * cost * cost) \div (252 * 252)

StepLength(a, b) == IF a[1] # b[1] /\ a[2] # b[2] THEN 142 ELSE IF a = b THEN 0 ELSE 100

\* _cell_step_cost
CellStepCost(costs, from, cell) == StepLength(from, cell) * Multiplier(costs[cell])

\* _segment_traversal_cost: the sum over the line, at least its length times
\* the worst cell on it.
SegmentCost(costs, a, b) ==
    LET line == Line[<<a, b>>]
        Sum[k \in 1 .. Len(line)] == IF k = 1 THEN 0 ELSE Sum[k - 1] + CellStepCost(costs, line[k - 1], line[k])
        peak == {Multiplier(costs[line[k]]) : k \in 2 .. Len(line)}
    IN IF Len(line) <= 1 THEN 0
       ELSE Larger(Sum[Len(line)], Root[D2(a, b)] * (CHOOSE m \in peak : \A n \in peak : n <= m))

\* _NEIGHBORS, in the order in which they are tried.
Offsets == << <<1, 0>>, <<-1, 0>>, <<0, 1>>, <<0, -1>>, <<1, 1>>, <<1, -1>>, <<-1, 1>>, <<-1, -1>> >>

Near(c) == {d \in Cells : d # c /\ Abs(d[1] - c[1]) <= 1 /\ Abs(d[2] - c[2]) <= 1}
Rank(c, d) == CHOOSE i \in DOMAIN Offsets : Offsets[i] = <<d[1] - c[1], d[2] - c[2]>>
=============================================================================
